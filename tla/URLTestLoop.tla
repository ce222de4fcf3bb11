---------------------------- MODULE URLTestLoop ----------------------------
(***************************************************************************)
(* protocol/group/mutableurltest.go: the check loop of urlTestGroup.  A    *)
(* dial keeps the group alive: it resets the idle timer, or starts a       *)
(* checkLoop.  isAlive is set by the loop and not by the dial, so several  *)
(* loops may run; they share g.pauseC and g.idleTimer, which each reads    *)
(* without the lock, again and again.  A step is a critical section of     *)
(* g.access or one evaluation of a channel of the select.                  *)
(*                                                                         *)
(* The channel a dial makes and the timer a loop makes are named after the *)
(* loop that the dial starts.  Timers are those of Go 1.23: a timer that   *)
(* was reset or stopped delivers no older tick.                            *)
(***************************************************************************)
EXTENDS Naturals, FiniteSets

CONSTANTS Loops,   \* names for checkLoop goroutines (bounds how many there are)
          NoLoop   \* the nil channel and the nil timer

ASSUME LoopAssumption == NoLoop \notin Loops

VARIABLES
    started,    \* PostStart was called
    tagged,     \* len(g.tags) > 0
    ready,      \* Start has set history and pauseMgr: the group was not empty
    closing,    \* Close: "open", "cancelled" (g.ctx), "closed" (and g.pauseC)
    isAlive,
    pauseC,     \* the loop with which g.pauseC was made
    idleTimer,  \* the loop that made g.idleTimer
    token,      \* the channels with a value in their buffer of one
    shut,       \* the channels that are closed
    timer,      \* each timer: "off", "running" or "fired" (not yet received)
    pc,         \* where each loop is
    on,         \* the channel and the timer each loop's select waits for
    crashed     \* a goroutine has panicked

group == <<started, tagged, ready, closing>>
channels == <<pauseC, token, shut>>
timers == <<idleTimer, timer>>
vars == <<group, isAlive, channels, timers, pc, on, crashed>>

Nothing == [pause |-> NoLoop, timer |-> NoLoop]
Wait == [pause : Loops \union {NoLoop}, timer : Loops \union {NoLoop}]

LoopPC == {"none",     \* not started, or returned
           "check",    \* started: the first CheckOutbounds
           "loop",     \* about to evaluate g.pauseC
           "timer",    \* about to evaluate g.idleTimer.C
           "select",   \* blocked
           "exit"}     \* about to run the deferred function

TypeOK ==
    /\ started \in BOOLEAN /\ tagged \in BOOLEAN /\ ready \in BOOLEAN
    /\ closing \in {"open", "cancelled", "closed"}
    /\ isAlive \in BOOLEAN
    /\ pauseC \in Loops \union {NoLoop}
    /\ idleTimer \in Loops \union {NoLoop}
    /\ token \subseteq Loops
    /\ shut \subseteq Loops
    /\ timer \in [Loops -> {"off", "running", "fired"}]
    /\ pc \in [Loops -> LoopPC]
    /\ on \in [Loops -> Wait]
    /\ crashed \in BOOLEAN

\* After Start, which returns early when the group is configured empty.
Init ==
    /\ started = FALSE
    /\ tagged \in BOOLEAN
    /\ ready = tagged
    /\ closing = "open"
    /\ isAlive = FALSE
    /\ pauseC = NoLoop
    /\ idleTimer = NoLoop
    /\ token = {}
    /\ shut = {}
    /\ timer = [l \in Loops |-> "off"]
    /\ pc = [l \in Loops |-> "none"]
    /\ on = [l \in Loops |-> Nothing]
    /\ crashed = FALSE

isClosed == closing # "open"

-----------------------------------------------------------------------------
(* Calls *)

PostStart ==
    /\ ~started
    /\ started' = TRUE
    /\ UNCHANGED <<tagged, ready, closing, isAlive, channels, timers, pc, on, crashed>>

Add ==
    /\ ~isClosed
    /\ tagged' = TRUE
    /\ UNCHANGED <<started, ready, closing, isAlive, channels, timers, pc, on, crashed>>

\* Without the test of isClosed.
LateRemove ==
    /\ tagged
    /\ tagged' \in BOOLEAN
    /\ IF ~tagged' /\ isAlive
       THEN token' = token \union {pauseC} /\ crashed' = (~ready \/ pauseC \in shut)
       ELSE UNCHANGED token /\ crashed' = ~ready
    /\ UNCHANGED <<started, ready, closing, isAlive, pauseC, shut, timers, pc, on>>

\* Remove of a member: the last one that leaves pauses the loop.  The history
\* is nil when Start was of an empty group; a send on a closed channel panics
\* in a select with a default, too.
Remove ==
    /\ ~isClosed
    /\ tagged
    /\ tagged' \in BOOLEAN
    /\ IF ~tagged' /\ isAlive
       THEN token' = token \union {pauseC} /\ crashed' = (~ready \/ pauseC \in shut)
       ELSE UNCHANGED token /\ crashed' = ~ready
    /\ UNCHANGED <<started, ready, closing, isAlive, pauseC, shut, timers, pc, on>>

\* A name that stands for no loop, channel or timer in use.
Free(l) ==
    /\ pc[l] = "none"
    /\ l \notin {pauseC, idleTimer}
    /\ \A m \in Loops : pc[m] # "none" => l \notin {on[m].pause, on[m].timer}

\* A dial that finds no loop alive: a new channel, of which l is now the name,
\* and a new loop.  Bound: a name must be free.
StartLoop(l) ==
    /\ Free(l)
    /\ pauseC' = l
    /\ pc' = [pc EXCEPT ![l] = "check"]
    /\ token' = token \ {l}
    /\ shut' = shut \ {l}
    /\ timer' = [timer EXCEPT ![l] = "off"]
    /\ on' = [on EXCEPT ![l] = Nothing]
    /\ UNCHANGED <<isAlive, idleTimer, crashed>>

ResetTimer ==
    /\ crashed' = (idleTimer = NoLoop)
    /\ timer' = [l \in Loops |-> IF l = idleTimer THEN "running" ELSE timer[l]]
    /\ UNCHANGED <<isAlive, channels, idleTimer, pc, on>>

\* keepAlive, at the start of every dial.  It does not look at isClosed.
KeepAlive ==
    /\ started
    /\ tagged
    /\ IF isAlive THEN ResetTimer ELSE \E l \in Loops : StartLoop(l)
    /\ UNCHANGED group

\* A dial that fails deletes the history of its outbound.
DialFails ==
    /\ tagged
    /\ crashed' = ~ready
    /\ UNCHANGED <<group, isAlive, channels, timers, pc, on>>

\* Close up to g.cancel.  The outbound manager calls it once.
Cancel ==
    /\ closing = "open"
    /\ closing' = "cancelled"
    /\ UNCHANGED <<started, tagged, ready, isAlive, channels, timers, pc, on, crashed>>

\* The rest of Close.
ClosePause ==
    /\ closing = "cancelled"
    /\ closing' = "closed"
    /\ shut' = shut \union ({pauseC} \ {NoLoop})
    /\ crashed' = (pauseC \in shut)
    /\ UNCHANGED <<started, tagged, ready, isAlive, pauseC, token, timers, pc, on>>

-----------------------------------------------------------------------------
(* checkLoop *)

\* Makes the idle timer once for the group.
ThriftySetUp(l) ==
    /\ pc[l] = "check"
    /\ pc' = [pc EXCEPT ![l] = "loop"]
    /\ IF idleTimer = NoLoop
       THEN idleTimer' = l /\ timer' = [timer EXCEPT ![l] = "running"]
       ELSE UNCHANGED timers
    /\ isAlive' = TRUE
    /\ crashed' = ~ready
    /\ UNCHANGED <<group, channels, on>>

\* The first check, if one is due, which takes any time, and the critical
\* section after it; it registers the ticker with pauseMgr.
SetUp(l) ==
    /\ pc[l] = "check"
    /\ pc' = [pc EXCEPT ![l] = "loop"]
    /\ idleTimer' = l
    /\ timer' = [timer EXCEPT ![l] = "running"]
    /\ isAlive' = TRUE
    /\ crashed' = ~ready
    /\ UNCHANGED <<group, channels, on>>


LookPause(l) ==
    /\ pc[l] = "loop"
    /\ on' = [on EXCEPT ![l].pause = pauseC]
    /\ pc' = [pc EXCEPT ![l] = "timer"]
    /\ UNCHANGED <<group, isAlive, channels, timers, crashed>>

LookTimer(l) ==
    /\ pc[l] = "timer"
    /\ on' = [on EXCEPT ![l].timer = idleTimer]
    /\ pc' = [pc EXCEPT ![l] = "select"]
    /\ UNCHANGED <<group, isAlive, channels, timers, crashed>>

\* The select receives from the pause channel it evaluated, one value or the
\* close.
TakePause(l) ==
    /\ pc[l] = "select"
    /\ on[l].pause \in token \union shut
    /\ token' = token \ {on[l].pause}
    /\ pc' = [pc EXCEPT ![l] = "exit"]
    /\ UNCHANGED <<group, isAlive, pauseC, shut, timers, on, crashed>>

\* Or the tick of the timer it evaluated, which one loop receives,
TakeTimer(l) ==
    /\ pc[l] = "select"
    /\ on[l].timer \in {m \in Loops : timer[m] = "fired"}
    /\ timer' = [timer EXCEPT ![on[l].timer] = "off"]
    /\ pc' = [pc EXCEPT ![l] = "exit"]
    /\ UNCHANGED <<group, isAlive, channels, idleTimer, on, crashed>>

\* or the interval's: it starts a urlTest and evaluates both again.
TakeTick(l) ==
    /\ pc[l] = "select"
    /\ pc' = [pc EXCEPT ![l] = "loop"]
    /\ UNCHANGED <<group, isAlive, channels, timers, on, crashed>>

\* Forgets to reset isAlive.
ForgetfulExit(l) ==
    /\ pc[l] = "exit"
    /\ pc' = [pc EXCEPT ![l] = "none"]
    /\ timer' = [m \in Loops |-> IF m = idleTimer THEN "off" ELSE timer[m]]
    /\ UNCHANGED <<group, isAlive, channels, idleTimer, on, crashed>>

\* The deferred function: it stops the group's timer, whoever made it.
Exit(l) ==
    /\ pc[l] = "exit"
    /\ pc' = [pc EXCEPT ![l] = "none"]
    /\ timer' = [m \in Loops |-> IF m = idleTimer THEN "off" ELSE timer[m]]
    /\ isAlive' = FALSE
    /\ UNCHANGED <<group, channels, idleTimer, on, crashed>>

\* idleTimeout has passed since the timer was made or reset.
Fire(l) ==
    /\ timer[l] = "running"
    /\ timer' = [timer EXCEPT ![l] = "fired"]
    /\ UNCHANGED <<group, isAlive, channels, idleTimer, pc, on, crashed>>

LoopStep(l) ==
    \/ SetUp(l)
    \/ LookPause(l)
    \/ LookTimer(l)
    \/ TakePause(l)
    \/ TakeTimer(l)
    \/ TakeTick(l)
    \/ Exit(l)

\* A panic ends the process.
Next ==
    /\ ~crashed
    /\ \/ PostStart
       \/ Add
       \/ Remove
       \/ KeepAlive
       \/ DialFails
       \/ Cancel
       \/ ClosePause
       \/ \E l \in Loops : LoopStep(l) \/ Fire(l)

Spec == Init /\ [][Next]_vars

\* Goroutines that can run do, and time passes; Go chooses uniformly among the
\* ready cases of a select, so the ticker does not keep a loop from its other
\* channels for ever.  That time passes and wakes a loop is assumed of its idle
\* timer and its pause channel only: a pause of the device stops the ticker (405).
\* No call needs to be made.
Fairness ==
    /\ WF_vars(~crashed /\ ClosePause)
    /\ \A l \in Loops :
          /\ WF_vars(~crashed /\ LoopStep(l))
          /\ WF_vars(~crashed /\ Fire(l))
          /\ SF_vars(~crashed /\ TakePause(l))
          /\ SF_vars(~crashed /\ TakeTimer(l))

FairSpec == Spec /\ Fairness

-----------------------------------------------------------------------------
(* Properties *)

Running(l) == pc[l] # "none"
\* Between the start of its loop and the end of its last select, and between that
\* and the lock of its deferred function.
Serving(l) == pc[l] \in {"loop", "timer", "select"}
Leaving(l) == pc[l] = "exit"

\* A group that counts as alive, so that a dial only resets its timer, has a timer
\* to reset, and that timer runs or has fired and a loop serves the group, though
\* each of several loops sets and resets isAlive and stops the timer for all of
\* them.  The one exception is the time in which a loop has left its select and
\* not yet run its deferred function: a dial that falls into it resets a timer
\* that is stopped next, and the group has no checks until the dial after it
\* (mutableurltest.go:388-395, 410-424).
AliveHasLoop ==
    isAlive => /\ idleTimer # NoLoop
               /\ \/ timer[idleTimer] # "off" /\ \E l \in Loops : Serving(l)
                  \/ \E l \in Loops : Leaving(l)

\* Whatever the order of Close, Remove, dials and loops, no channel is closed
\* twice or written to after its close and no timer or manager is nil, if the
\* group was not empty when it was started (mutableurltest.go:259-283, 300-312,
\* 372-377, 391-394).
CrashOnlyIfEmptyStart == crashed => ~ready

\* Nobody dials through the group any more.
LeftAlone == <>[][~KeepAlive]_vars

\* Once a group is left alone in which no dial has started a second loop beside
\* a running one, its loop ends: the timer it waits for is the group's, and is
\* running until it fires (mutableurltest.go:407, 418-424).
IdleEnds ==
    LeftAlone /\ []((\A l, m \in Loops : Running(l) /\ Running(m) => l = m) /\ ~crashed)
        => \A l \in Loops : Running(l) ~> ~Running(l)

=============================================================================
