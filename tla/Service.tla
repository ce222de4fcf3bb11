------------------------------ MODULE Service ------------------------------
(***************************************************************************)
(* cmd/cmd_run.go and cmd_check.go: the run loop, with the two components  *)
(* of a box that hold something the next box needs: the WATER inbound      *)
(* (protocol/water/inbound.go), which listens as soon as it is made, and   *)
(* the AmneziaWG endpoint, which starts in two stages and serves a UAPI    *)
(* socket.  Goroutines: run itself, the one in create that waits for a     *)
(* signal during Start, the closeMonitors, the accept loops of the inbound *)
(* and the closing of the UAPI socket.                                     *)
(***************************************************************************)
EXTENDS FiniteSets, AmneziaEndpoint

CONSTANTS Water,    \* whether a configuration has a WATER inbound
          Names,    \* whether a peer of its endpoint is given by name
          Servers   \* whether its endpoint listens, and serves UAPI

ASSUME ServiceAssumption == Water \union Names \union Servers \subseteq BOOLEAN

\* A sound configuration is one of which readConfig and box.New can make a box.
Configs == [sound : BOOLEAN, water : Water, names : Names, server : Servers]

VARIABLES
    file,       \* the configuration file
    cfg,        \* the configuration of the instance
    at,         \* where run is
    why,        \* the signal run is working on
    sig,        \* the signal in run's osSignals, which holds one
    early,      \* create's osSignals and the goroutine that waits for it
    live,       \* the instance's context is not cancelled
    refused,    \* a reload was refused since the instance was started
    port,       \* who listens on the port of the WATER inbound
    accepting,  \* the instance's accept loop has not ended
    uapi,       \* whose UAPI socket there is
    ep,         \* the instance's AmneziaWG endpoint
    toClose,    \* what instance.Close has still to close
    monitors    \* the closeMonitors, and whether their context is done

boxvars == <<cfg, live, refused, port, accepting, uapi, ep, toClose>>
signals == <<sig, early>>
vars == <<file, at, why, signals, boxvars, monitors>>

Ended == {"returned", "fatal", "panic"}
Starting == {"start", "poststart"}
Places == {"new", "wait", "check", "checked", "closing"} \union Starting \union Ended
Monitor == [of : {"start", "close"}, over : BOOLEAN]

TypeOK ==
    /\ file \in Configs /\ cfg \in Configs
    /\ at \in Places
    /\ why \in {"none", "hup", "term"}
    /\ sig \in {"none", "hup", "term"}
    /\ early \in {"none", "pending", "taken"}
    /\ live \in BOOLEAN /\ refused \in BOOLEAN /\ accepting \in BOOLEAN
    /\ port \in {"free", "box", "check", "leaked"}
    /\ uapi \in {"free", "box", "old"}
    /\ ep \in Endpoint
    /\ toClose \subseteq {"water", "amnezia"}
    /\ monitors \subseteq Monitor

Init ==
    /\ file \in Configs
    /\ cfg = file
    /\ at = "new"
    /\ why = "none"
    /\ sig = "none"
    /\ early = "none"
    /\ live = FALSE
    /\ refused = FALSE
    /\ port = "free"
    /\ accepting = FALSE
    /\ uapi = "free"
    /\ ep = NewEndpoint(FALSE)
    /\ toClose = {}
    /\ monitors = {}

MarkOver(of) == monitors' = {[m EXCEPT !.over = @ \/ m.of = of] : m \in monitors}

-----------------------------------------------------------------------------
(* create *)

\* NewInbound listens; a box.New that fails afterwards does not close it.
CanListen(c) == c.water => port = "free"
Leaks(c) == IF c.water /\ CanListen(c) THEN {"free", "leaked"} ELSE {port}

\* readConfig, box.New and the channel for signals during Start.
Create ==
    /\ at = "new"
    /\ file.sound /\ CanListen(file)
    /\ cfg' = file
    /\ at' = "start"
    /\ early' = "none"
    /\ live' = TRUE
    /\ refused' = FALSE
    /\ port' = IF file.water THEN "box" ELSE port
    /\ accepting' = FALSE
    /\ uapi' = IF uapi = "box" THEN "old" ELSE uapi
    /\ ep' = NewEndpoint(file.names)
    /\ UNCHANGED <<file, why, sig, toClose, monitors>>

\* An error of readConfig or box.New is returned by run: the process ends.
CreateFails ==
    /\ at = "new"
    /\ ~(file.sound /\ CanListen(file))
    /\ at' = "returned"
    /\ UNCHANGED <<file, why, signals, boxvars, monitors>>

\* The endpoint's part of a stage of instance.Start.
StartEndpoint(resolve) ==
    IF Skips(ep, resolve)
    THEN UNCHANGED <<ep, uapi>>
    ELSE /\ cfg.server => uapi = "free"
         /\ ep' = Up(ep)
         /\ uapi' = IF cfg.server THEN "box" ELSE uapi

\* The stage StartStateStart: the inbound begins to accept.
Start ==
    /\ at = "start"
    /\ StartEndpoint(FALSE)
    /\ accepting' = cfg.water
    /\ at' = "poststart"
    /\ UNCHANGED <<file, why, signals, cfg, live, refused, port, toClose, monitors>>

\* The stage StartStatePostStart; create returns: finishStart, and the channel
\* is closed.
PostStart ==
    /\ at = "poststart"
    /\ StartEndpoint(TRUE)
    /\ at' = "wait"
    /\ MarkOver("start")
    /\ UNCHANGED <<file, why, signals, cfg, live, refused, port, accepting, toClose>>

\* A stage fails: so does create, and run returns.
StartFails ==
    /\ at \in Starting
    /\ ~Skips(ep, at = "poststart")
    /\ ep' \in Failures(ep)
    /\ at' = "returned"
    /\ UNCHANGED <<file, why, signals, cfg, live, refused, port, accepting, uapi,
                   toClose, monitors>>

-----------------------------------------------------------------------------
(* Signals *)

\* run's channel is for termination only.
TermDeliver(s) ==
    /\ sig' = IF sig = "none" /\ s = "term" THEN s ELSE sig
    /\ early' = IF at \in Starting /\ early = "none" THEN "pending" ELSE early

\* A signal goes to each channel that has room; create's is registered during
\* Start.
Deliver(s) ==
    /\ sig' = IF sig = "none" THEN s ELSE sig
    /\ early' = IF at \in Starting /\ early = "none" THEN "pending" ELSE early

Signal(s) ==
    /\ Deliver(s)
    /\ UNCHANGED <<file, at, why, boxvars, monitors>>

\* create's goroutine, which may be late: it finds the signal in the channel
\* though that is closed by then.
TakeEarly ==
    /\ early = "pending"
    /\ early' = "taken"
    /\ live' = FALSE
    /\ monitors' = monitors \union {[of |-> "start", over |-> at \notin Starting]}
    /\ UNCHANGED <<file, at, why, sig, cfg, refused, port, accepting, uapi, ep, toClose>>

\* closeMonitor after FatalStopTimeout.
MonitorDue(m) ==
    /\ m \in monitors
    /\ monitors' = monitors \ {m}
    /\ at' = IF m.over THEN at ELSE "fatal"
    /\ UNCHANGED <<file, why, signals, boxvars>>

-----------------------------------------------------------------------------
(* run *)

\* Leaves Close without a monitor.
UnwatchedClose ==
    /\ at' = "closing"
    /\ live' = FALSE
    /\ toClose' = {"amnezia"} \union {x \in {"water"} : cfg.water}
    /\ UNCHANGED monitors

BeginClose ==
    /\ at' = "closing"
    /\ live' = FALSE
    /\ toClose' = {"amnezia"} \union {x \in {"water"} : cfg.water}
    /\ monitors' = monitors \union {[of |-> "close", over |-> FALSE]}

TakeSignal ==
    /\ at = "wait"
    /\ sig # "none"
    /\ sig' = "none"
    /\ why' = sig
    /\ IF sig = "hup"
       THEN at' = "check" /\ UNCHANGED <<live, toClose, monitors>>
       ELSE BeginClose
    /\ UNCHANGED <<file, early, cfg, refused, port, accepting, uapi, ep>>

\* check: readConfig and box.New, beside the running instance.
Check ==
    /\ at = "check"
    /\ IF file.sound /\ CanListen(file)
       THEN /\ at' = "checked"
            /\ port' = IF file.water THEN "check" ELSE port
            /\ UNCHANGED refused
       ELSE /\ at' = "wait"
            /\ port' \in Leaks(file)
            /\ refused' = TRUE
    /\ UNCHANGED <<file, why, signals, cfg, live, accepting, uapi, ep, toClose, monitors>>

\* check closes the box it made; the reload closes the running one.  That a box which
\* was never started closes the listener of its inbound is up to the library.
CheckPasses ==
    /\ at = "checked"
    /\ port' = IF port = "check" THEN "free" ELSE port
    /\ BeginClose
    /\ UNCHANGED <<file, why, signals, cfg, refused, accepting, uapi, ep>>

\* instance.Close, which may get stuck in any of them.
CloseOne(x) ==
    /\ at = "closing"
    /\ x \in toClose
    /\ toClose' = toClose \ {x}
    /\ IF x = "water"
       THEN port' = "free" /\ UNCHANGED ep
       ELSE ep' = Close(ep) /\ UNCHANGED port
    /\ UNCHANGED <<file, at, why, signals, cfg, live, refused, accepting, uapi, monitors>>

\* Does not tell the monitor.
SilentClosed ==
    /\ at = "closing"
    /\ toClose = {}
    /\ at' = IF why = "hup" THEN "new" ELSE "returned"
    /\ UNCHANGED <<file, why, signals, boxvars, monitors>>

\* closed(), and round the loop or out of it.
Closed ==
    /\ at = "closing"
    /\ toClose = {}
    /\ at' = IF why = "hup" THEN "new" ELSE "returned"
    /\ MarkOver("close")
    /\ UNCHANGED <<file, why, signals, boxvars>>

-----------------------------------------------------------------------------
(* The components beside run *)

\* AcceptWATER fails: because the listener is closed, or with an error that is
\* no timeout, of which one is enough.  A timeout or a connection leaves the
\* loop where it is; the loop of an instance before this one has only to end.
AcceptEnds ==
    /\ accepting
    /\ accepting' = FALSE
    /\ UNCHANGED <<file, at, why, signals, cfg, live, refused, port, uapi, ep, toClose,
                   monitors>>

\* startUAPIListener's goroutine closes the socket some time after the context
\* was cancelled.
UapiCloses ==
    /\ uapi = "old" \/ (uapi = "box" /\ ~live)
    /\ uapi' = "free"
    /\ UNCHANGED <<file, at, why, signals, cfg, live, refused, port, accepting, ep, toClose,
                   monitors>>

\* The network monitor calls InterfaceUpdated from the time a box is started.
InterfaceUpdated ==
    /\ at # "new"
    /\ UpdatePanics(ep)
    /\ at' = "panic"
    /\ UNCHANGED <<file, why, signals, boxvars, monitors>>

\* The device pauses or wakes up.
Pause(paused) ==
    /\ ep' = PauseUpdated(ep, paused)
    /\ UNCHANGED <<file, at, why, signals, cfg, live, refused, port, accepting, uapi, toClose,
                   monitors>>

Edit(c) ==
    /\ file' = c
    /\ UNCHANGED <<at, why, signals, boxvars, monitors>>

RunStep ==
    \/ Create \/ CreateFails
    \/ TakeSignal
    \/ Check \/ CheckPasses
    \/ Closed

Next ==
    /\ at \notin Ended
    /\ \/ RunStep
       \/ Start \/ PostStart \/ StartFails
       \/ \E s \in {"hup", "term"} : Signal(s)
       \/ TakeEarly
       \/ \E m \in Monitor : MonitorDue(m)
       \/ \E x \in {"water", "amnezia"} : CloseOne(x)
       \/ AcceptEnds
       \/ UapiCloses
       \/ InterfaceUpdated
       \/ \E paused \in BOOLEAN : Pause(paused)
       \/ \E c \in Configs : Edit(c)

Spec == Init /\ [][Next]_vars

\* run's own steps and its goroutines' go on; time passes for the monitors.
\* Start and Close may hang for ever.
Running(A) == at \notin Ended /\ A
Fairness ==
    /\ WF_vars(Running(RunStep))
    /\ WF_vars(Running(TakeEarly))
    /\ \A m \in Monitor : WF_vars(Running(MonitorDue(m)))

FairSpec == Spec /\ Fairness

-----------------------------------------------------------------------------
(* Properties *)

Serving == {"wait", "check", "checked"}

\* closeMonitor kills the process only while the Start or the Close it was
\* started for is not finished: no monitor of an earlier reload, and no signal
\* that create's goroutine takes late, hits an instance that is fine
\* (cmd_run.go:71-80, 88-96, 118-121).
MonitorsWatchNow ==
    \A m \in monitors :
        ~m.over => at \in Ended \union (IF m.of = "start" THEN Starting ELSE {"closing"})

\* A signal during Start cancels the instance's context and is also in run's
\* channel: an instance with a cancelled context is closed next, unless the
\* signal asked for a reload that was refused (cmd_run.go:65-78, 99-117).
CancelledIsClosed == at = "wait" /\ ~live => sig # "none" \/ refused

\* Of what a closed box held, the next one finds at most its UAPI socket, which is
\* being closed and which the next Start fails on: the port that it listened on is free,
\* though it may have refused reloads, and its device, tunnel and pause callback are
\* gone, however far Start and the pauses had taken them (cmd_run.go:117-128,
\* inbound.go:157-160, endpoint.go:253-261, uapi.go:21-24).  A port that is not free
\* was taken by the check of a reload that was refused while a box without WATER ran.
OnlyUapiLeft ==
    at = "new" => /\ cfg.water => port = "free"
                  /\ ~InUse(ep)
                  /\ uapi = "box" => ~live

\* Once a box is started, its endpoint can follow a change of the interface
\* until it is closed: of the two stages of Start exactly one starts the device,
\* for peers with and without names (endpoint.go:153-172, 249-251).
CanUpdate == at \in Serving \union {"closing"} => ~UpdatePanics(ep)

\* A SIGTERM or SIGINT in run's channel ends the process, whatever reload is
\* under way and though Close may never return, unless it is Start that never
\* returns (cmd_run.go:71-78, 88-96, 108-127).
TermEnds ==
    []<>(at \notin Starting) => (sig = "term" ~> at \in Ended)
=============================================================================
