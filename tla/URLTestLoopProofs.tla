-------------------------- MODULE URLTestLoopProofs --------------------------
(***************************************************************************)
(* Proofs about URLTestLoop: an alive group has a timer to reset and a     *)
(* loop that serves it, or one that is about to end the group's being      *)
(* alive, and nothing panics in a group that was not started empty.        *)
(***************************************************************************)
EXTENDS URLTestLoop, TLAPS

\* What the two properties need: a channel is closed by the end of Close only,
\* and there is a channel as soon as there is a loop.
IInv ==
    /\ TypeOK
    /\ AliveHasLoop
    /\ CrashOnlyIfEmptyStart
    /\ shut # {} => closing = "closed"
    /\ \A l \in Loops : pc[l] # "none" => pauseC # NoLoop

\* The state after Start satisfies the invariant.
THEOREM InitIInv == Init => IInv
<1> SUFFICES ASSUME Init PROVE IInv
  OBVIOUS
<1>1. on \in [Loops -> Wait]
  BY DEF Init, Wait, Nothing
<1>2. pc \in [Loops -> LoopPC] /\ timer \in [Loops -> {"off", "running", "fired"}]
  BY DEF Init, LoopPC
<1>3. TypeOK
  BY <1>1, <1>2 DEF Init, TypeOK
<1> QED BY <1>3 DEF Init, IInv, AliveHasLoop, CrashOnlyIfEmptyStart

\* The calls keep the invariant.  Remove and Close are kept from a closed
\* channel by closing, a dial from a nil timer by AliveHasLoop.
LEMMA CallsKeep ==
    ASSUME IInv, ~crashed,
           PostStart \/ Add \/ Remove \/ KeepAlive \/ DialFails \/ Cancel \/ ClosePause
    PROVE  IInv'
<1> USE LoopAssumption DEF group, channels, timers
<1>1. CASE PostStart
  BY <1>1 DEF PostStart, IInv, TypeOK, AliveHasLoop, CrashOnlyIfEmptyStart, Serving, Leaving
<1>2. CASE Add
  BY <1>2 DEF Add, IInv, TypeOK, AliveHasLoop, CrashOnlyIfEmptyStart, Serving, Leaving
<1>3. CASE Remove
  <2>1. isAlive => pauseC # NoLoop
    BY DEF IInv, AliveHasLoop, Serving, Leaving
  <2>2. closing = "open" /\ shut = {}
    BY <1>3 DEF Remove, isClosed, IInv, TypeOK
  <2>3. TypeOK'
    BY <1>3, <2>1 DEF Remove, IInv, TypeOK
  <2> QED
    BY <1>3, <2>2, <2>3 DEF Remove, IInv, AliveHasLoop, CrashOnlyIfEmptyStart, Serving, Leaving
<1>4. ASSUME isAlive, ResetTimer, UNCHANGED group PROVE IInv'
  <2>1. ~crashed'
    BY <1>4 DEF ResetTimer, IInv, AliveHasLoop
  <2>2. timer' \in [Loops -> {"off", "running", "fired"}]
    BY <1>4 DEF ResetTimer, IInv, TypeOK
  <2> QED
    BY <1>4, <2>1, <2>2
    DEF ResetTimer, IInv, TypeOK, AliveHasLoop, CrashOnlyIfEmptyStart, Serving, Leaving
<1>5. ASSUME NEW l \in Loops, ~isAlive, StartLoop(l), UNCHANGED group PROVE IInv'
  <2>1. TypeOK'
    <3>1. pc' \in [Loops -> LoopPC]
      BY <1>5 DEF StartLoop, IInv, TypeOK, LoopPC
    <3>2. timer' \in [Loops -> {"off", "running", "fired"}]
      BY <1>5 DEF StartLoop, IInv, TypeOK
    <3>3. on' \in [Loops -> Wait]
      BY <1>5 DEF StartLoop, IInv, TypeOK, Nothing, Wait
    <3> QED BY <1>5, <3>1, <3>2, <3>3 DEF StartLoop, IInv, TypeOK
  <2> QED
    BY <1>5, <2>1 DEF StartLoop, IInv, AliveHasLoop, CrashOnlyIfEmptyStart
<1>6. CASE KeepAlive
  BY <1>4, <1>5, <1>6 DEF KeepAlive
<1>7. CASE DialFails
  BY <1>7 DEF DialFails, IInv, TypeOK, AliveHasLoop, CrashOnlyIfEmptyStart, Serving, Leaving
<1>8. CASE Cancel
  BY <1>8 DEF Cancel, IInv, TypeOK, AliveHasLoop, CrashOnlyIfEmptyStart, Serving, Leaving
<1>9. CASE ClosePause
  <2>1. shut = {}
    BY <1>9 DEF ClosePause, IInv
  <2> QED
    BY <1>9, <2>1 DEF ClosePause, IInv, TypeOK, AliveHasLoop, CrashOnlyIfEmptyStart, Serving, Leaving
<1> QED BY <1>1, <1>2, <1>3, <1>6, <1>7, <1>8, <1>9

\* A step of a serving loop keeps the invariant: it goes on to serve and leaves
\* the timer alone, or it leaves.
LEMMA StaysUp ==
    ASSUME NEW l \in Loops, NEW p \in {"loop", "timer", "select", "exit"},
           IInv, ~crashed, Serving(l), pc' = [pc EXCEPT ![l] = p],
           UNCHANGED <<group, isAlive, pauseC, shut, idleTimer, crashed>>,
           token' \subseteq Loops, on' \in [Loops -> Wait],
           timer' \in [Loops -> {"off", "running", "fired"}],
           p # "exit" => timer' = timer
    PROVE  IInv'
<1>1. pc' \in [Loops -> LoopPC]
  BY DEF IInv, TypeOK, LoopPC
<1>2. \A m \in Loops : pc'[m] # "none" => pc[m] # "none"
  BY DEF IInv, TypeOK, Serving
<1>3. TypeOK'
  BY <1>1 DEF IInv, TypeOK, group
<1>4. AliveHasLoop'
  <2>1. CASE p = "exit"
    <3>1. Leaving(l)'
      BY <2>1 DEF IInv, TypeOK, Leaving
    <3> QED BY <3>1 DEF IInv, AliveHasLoop
  <2>2. CASE p # "exit"
    <3>1. Serving(l)'
      BY <2>2 DEF IInv, TypeOK, Serving
    <3>2. \A m \in Loops : Leaving(m) => Leaving(m)'
      BY DEF IInv, TypeOK, Leaving, Serving
    <3> QED BY <2>2, <3>1, <3>2 DEF IInv, AliveHasLoop
  <2> QED BY <2>1, <2>2
<1> QED
  BY <1>2, <1>3, <1>4 DEF IInv, CrashOnlyIfEmptyStart, group

\* The steps of a loop, and its timer, keep the invariant.
LEMMA LoopsKeep ==
    ASSUME NEW l \in Loops, IInv, ~crashed, LoopStep(l) \/ Fire(l)
    PROVE  IInv'
<1> USE DEF group, channels, timers
<1> token \subseteq Loops /\ on \in [Loops -> Wait]
    /\ timer \in [Loops -> {"off", "running", "fired"}]
    /\ pc \in [Loops -> LoopPC]
  BY DEF IInv, TypeOK
<1>1. CASE SetUp(l)
  <2>1. pc' \in [Loops -> LoopPC] /\ timer' \in [Loops -> {"off", "running", "fired"}]
    BY <1>1 DEF SetUp, LoopPC
  <2>2. Serving(l)' /\ idleTimer' = l /\ l # NoLoop /\ timer'[idleTimer'] = "running"
    BY <1>1, LoopAssumption DEF SetUp, Serving
  <2>3. \A m \in Loops : pc'[m] # "none" => pc[m] # "none"
    BY <1>1 DEF SetUp
  <2> QED
    BY <1>1, <2>1, <2>2, <2>3 DEF SetUp, IInv, TypeOK, AliveHasLoop, CrashOnlyIfEmptyStart
<1>2. CASE LookPause(l)
  <2>1. on' \in [Loops -> Wait]
    BY <1>2 DEF LookPause, IInv, TypeOK, Wait
  <2> QED BY <1>2, <2>1, StaysUp DEF LookPause, Serving
<1>3. CASE LookTimer(l)
  <2>1. on' \in [Loops -> Wait]
    BY <1>3 DEF LookTimer, IInv, TypeOK, Wait
  <2> QED BY <1>3, <2>1, StaysUp DEF LookTimer, Serving
<1>4. CASE TakePause(l)
  BY <1>4, StaysUp DEF TakePause, Serving
<1>5. CASE TakeTimer(l)
  BY <1>5, StaysUp DEF TakeTimer, Serving
<1>6. CASE TakeTick(l)
  BY <1>6, StaysUp DEF TakeTick, Serving
<1>7. CASE Exit(l)
  <2>1. pc' \in [Loops -> LoopPC] /\ timer' \in [Loops -> {"off", "running", "fired"}]
    BY <1>7 DEF Exit, LoopPC
  <2>2. \A m \in Loops : pc'[m] # "none" => pc[m] # "none"
    BY <1>7 DEF Exit
  <2> QED
    BY <1>7, <2>1, <2>2 DEF Exit, IInv, TypeOK, AliveHasLoop, CrashOnlyIfEmptyStart
<1>8. CASE Fire(l)
  BY <1>8 DEF Fire, IInv, TypeOK, AliveHasLoop, CrashOnlyIfEmptyStart, Serving, Leaving
<1> QED BY <1>1, <1>2, <1>3, <1>4, <1>5, <1>6, <1>7, <1>8 DEF LoopStep

\* Every step keeps the invariant.
THEOREM Inductive == IInv /\ [Next]_vars => IInv'
<1> SUFFICES ASSUME IInv, [Next]_vars PROVE IInv'
  OBVIOUS
<1>1. CASE Next
  BY <1>1, CallsKeep, LoopsKeep DEF Next
<1>2. CASE UNCHANGED vars
  BY <1>2 DEF vars, group, channels, timers, IInv, TypeOK, AliveHasLoop,
     CrashOnlyIfEmptyStart, Serving, Leaving
<1> QED BY <1>1, <1>2

THEOREM Invariance == Spec => []IInv
BY InitIInv, Inductive, PTL DEF Spec

\* The types of the check loop's state (mutableurltest.go:188-209).
THEOREM LoopTypes == Spec => []TypeOK
<1>1. IInv => TypeOK
  BY DEF IInv
<1> QED BY <1>1, Invariance, PTL

\* For any number of loops: an alive group has a timer that runs or has fired and
\* a loop that serves it, or a loop has left its select and is about to end the
\* group's being alive (mutableurltest.go:388-395, 410-424).
THEOREM AliveGroupHasLoop == Spec => []AliveHasLoop
<1>1. IInv => AliveHasLoop
  BY DEF IInv
<1> QED BY <1>1, Invariance, PTL

\* A group that was not empty at Start never panics in Close, Remove, a dial or
\* a loop (mutableurltest.go:259-283, 300-312, 372-377, 391-394).
THEOREM NoCrash == Spec => []CrashOnlyIfEmptyStart
<1>1. IInv => CrashOnlyIfEmptyStart
  BY DEF IInv
<1> QED BY <1>1, Invariance, PTL
=============================================================================
