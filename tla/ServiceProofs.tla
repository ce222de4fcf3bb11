--------------------------- MODULE ServiceProofs ---------------------------
(***************************************************************************)
(* Proofs about Service, for every set of configurations: monitors,        *)
(* signals during Start, and what an instance leaves behind.               *)
(***************************************************************************)
EXTENDS Service, TLAPS

-----------------------------------------------------------------------------
(* The endpoint *)

Fresh(e) == ~e.tun /\ ~e.device /\ ~e.callback /\ e.wg = "none"
Started(e) == ~e.names /\ e.device

\* What the calls make of an endpoint is an endpoint.
LEMMA EndpointTypes ==
    ASSUME NEW e \in Endpoint, NEW b \in BOOLEAN
    PROVE  /\ NewEndpoint(b) \in Endpoint
           /\ Up(e) \in Endpoint
           /\ Close(e) \in Endpoint
           /\ PauseUpdated(e, b) \in Endpoint
           /\ Failures(e) \subseteq Endpoint
BY DEF Endpoint, NewEndpoint, Up, Made, Resolved, Close, PauseUpdated, Failures

\* A new endpoint is fresh, a started one is up, a closed one is not in use.
LEMMA EndpointLife ==
    ASSUME NEW e \in Endpoint, NEW b \in BOOLEAN
    PROVE  /\ Fresh(NewEndpoint(b))
           /\ Started(Up(e))
           /\ Started(e) => Started(Close(e)) /\ ~InUse(Close(e))
           /\ Fresh(e) => PauseUpdated(e, b) = e /\ ~InUse(e)
           /\ Started(e) => Started(PauseUpdated(e, b))
           /\ PauseUpdated(e, b).names = e.names
           /\ ~InUse(e) => PauseUpdated(e, b) = e
BY DEF Endpoint, NewEndpoint, Up, Made, Resolved, Close, PauseUpdated, Fresh, Started, InUse

-----------------------------------------------------------------------------
(* The invariant *)

\* The endpoint has been started by the stages that are over.
EndpointStage ==
    /\ at = "start" => Fresh(ep)
    /\ at = "poststart" => IF ep.names THEN Fresh(ep) ELSE Started(ep)
    /\ at \in Serving \union {"closing"} => Started(ep)
    /\ at = "closing" /\ "amnezia" \notin toClose => ~InUse(ep)
    /\ at = "new" => ~InUse(ep)

\* The port is the instance's as long as it has an inbound that is not closed, and
\* then it is free; a box that is closed or not yet made has its context cancelled.
PortStage ==
    /\ port = "box" => cfg.water /\ at # "new"
    /\ port = "check" => at \in {"checked"} \union Ended
    /\ cfg.water /\ at \in Starting \union Serving => port = "box"
    /\ cfg.water /\ at = "closing" => port \in {"box", "free"}
    /\ cfg.water /\ at = "new" => port = "free"
    /\ at \in {"new", "closing"} => ~live
    /\ at = "closing" /\ port = "box" => "water" \in toClose

\* A signal that create's goroutine has, or has acted upon, is in run's channel
\* until run takes it.
SignalStage ==
    /\ at \in Starting /\ (early = "pending" \/ ~live) => sig # "none"
    /\ at = "wait" /\ (early = "pending" \/ ~live) => sig # "none" \/ refused

IInv == TypeOK /\ MonitorsWatchNow /\ EndpointStage /\ PortStage /\ SignalStage

\* The invariant implies the properties.
LEMMA Implies ==
    IInv => MonitorsWatchNow /\ CancelledIsClosed /\ OnlyUapiLeft /\ CanUpdate
<1> SUFFICES ASSUME IInv
             PROVE  MonitorsWatchNow /\ CancelledIsClosed /\ OnlyUapiLeft /\ CanUpdate
  OBVIOUS
<1>1. CancelledIsClosed
  BY DEF IInv, SignalStage, CancelledIsClosed
<1>2. OnlyUapiLeft
  BY DEF IInv, TypeOK, PortStage, EndpointStage, OnlyUapiLeft, Ended
<1>3. CanUpdate
  BY DEF IInv, EndpointStage, CanUpdate, UpdatePanics, Started
<1> QED BY <1>1, <1>2, <1>3 DEF IInv

USE DEF signals, boxvars

\* The first box has still to be made.
THEOREM InitIInv == Init => IInv
<1> SUFFICES ASSUME Init PROVE IInv
  OBVIOUS
<1>1. ep \in Endpoint /\ Fresh(ep) /\ ~InUse(ep)
  BY DEF Init, NewEndpoint, Endpoint, Fresh, InUse
<1>2. TypeOK
  BY <1>1 DEF Init, TypeOK, Places
<1> QED
  BY <1>1, <1>2 DEF Init, IInv, MonitorsWatchNow, EndpointStage, PortStage, SignalStage,
     Starting, Serving

\* create keeps the invariant.
LEMMA CreateKeeps ==
    ASSUME IInv, Create \/ CreateFails \/ Start \/ PostStart \/ StartFails
    PROVE  IInv'
<1> USE DEF IInv
<1>1. CASE Create
  <2>1. file.names \in BOOLEAN /\ file \in Configs
    BY ServiceAssumption DEF TypeOK, Configs
  <2>2. ep' \in Endpoint /\ Fresh(ep')
    BY <1>1, <2>1, EndpointTypes, EndpointLife DEF Create, TypeOK
  <2>3. TypeOK'
    BY <1>1, <2>1, <2>2 DEF Create, TypeOK, Places, Starting
  <2>4. MonitorsWatchNow'
    BY <1>1 DEF Create, TypeOK, MonitorsWatchNow, Starting, Ended, Monitor
  <2>5. EndpointStage'
    BY <1>1, <2>2 DEF Create, EndpointStage, Serving
  <2>6. PortStage'
    BY <1>1 DEF Create, PortStage, Ended
  <2>7. SignalStage'
    BY <1>1 DEF Create, SignalStage
  <2> QED BY <2>3, <2>4, <2>5, <2>6, <2>7
<1>2. CASE CreateFails
  BY <1>2 DEF CreateFails, TypeOK, MonitorsWatchNow, EndpointStage, PortStage, SignalStage,
     Places, Starting, Serving, Ended
<1>3. CASE Start
  <2>1. ep' \in Endpoint /\ uapi' \in {"free", "box", "old"}
    BY <1>3, EndpointTypes DEF Start, StartEndpoint, TypeOK
  <2>2. ep \in Endpoint /\ Fresh(ep) /\ ep.names \in BOOLEAN
    BY <1>3 DEF Start, EndpointStage, TypeOK, Endpoint
  <2>3. ASSUME ep.names PROVE ep'.names /\ Fresh(ep')
    BY <1>3, <2>2, <2>3 DEF Start, StartEndpoint, Skips, Fresh
  <2>4. ASSUME ~ep.names PROVE ~ep'.names /\ Started(ep')
    <3>1. ep' = Up(ep)
      BY <1>3, <2>2, <2>4 DEF Start, StartEndpoint, Skips
    <3> QED BY <3>1, <2>2, EndpointLife DEF Started
  <2>5. IF ep'.names THEN Fresh(ep') ELSE Started(ep')
    BY <2>2, <2>3, <2>4
  <2>6. cfg.water \in BOOLEAN
    BY ServiceAssumption DEF TypeOK, Configs
  <2>7. TypeOK'
    BY <1>3, <2>1, <2>6 DEF Start, TypeOK, Places, Starting
  <2> QED
    BY <1>3, <2>5, <2>7 DEF Start, MonitorsWatchNow, EndpointStage, PortStage, SignalStage,
       Starting, Serving, Ended
<1>4. CASE PostStart
  <2>1. ep' \in Endpoint /\ uapi' \in {"free", "box", "old"}
    BY <1>4, EndpointTypes DEF PostStart, StartEndpoint, TypeOK
  <2>2. Started(ep')
    BY <1>4, EndpointLife
    DEF PostStart, StartEndpoint, EndpointStage, Skips, TypeOK, Endpoint
  <2>3. monitors' \subseteq Monitor
    BY <1>4 DEF PostStart, MarkOver, TypeOK, Monitor
  <2>4. TypeOK'
    BY <1>4, <2>1, <2>3 DEF PostStart, TypeOK, Places
  <2>5. MonitorsWatchNow'
    BY <1>4 DEF PostStart, MarkOver, TypeOK, Monitor, MonitorsWatchNow, Starting, Ended
  <2> QED
    BY <1>4, <2>2, <2>4, <2>5 DEF PostStart, EndpointStage, PortStage, SignalStage,
       Starting, Serving, Ended
<1>5. CASE StartFails
  <2>1. ep' \in Endpoint
    BY <1>5, EndpointTypes DEF StartFails, TypeOK
  <2> QED
    BY <1>5, <2>1 DEF StartFails, TypeOK, MonitorsWatchNow, EndpointStage, PortStage,
       SignalStage, Places, Starting, Serving, Ended
<1> QED BY <1>1, <1>2, <1>3, <1>4, <1>5

\* Signals, the goroutine that takes one during Start, and the monitors keep
\* the invariant.
LEMMA SignalsKeep ==
    ASSUME IInv, at \notin Ended,
           (\E s \in {"hup", "term"} : Signal(s)) \/ TakeEarly \/ (\E m \in Monitor : MonitorDue(m))
    PROVE  IInv'
<1> USE DEF IInv
<1>1. ASSUME NEW s \in {"hup", "term"}, Signal(s) PROVE IInv'
  <2>1. TypeOK'
    BY <1>1 DEF Signal, Deliver, TypeOK
  <2>2. SignalStage'
    BY <1>1 DEF Signal, Deliver, TypeOK, SignalStage, Starting
  <2> QED
    BY <1>1, <2>1, <2>2 DEF Signal, MonitorsWatchNow, EndpointStage, PortStage
<1>2. CASE TakeEarly
  <2>1. [of |-> "start", over |-> at \notin Starting] \in Monitor
    BY DEF Monitor
  <2>2. TypeOK'
    BY <1>2, <2>1 DEF TakeEarly, TypeOK
  <2>3. MonitorsWatchNow'
    <3> SUFFICES ASSUME NEW m \in monitors', ~m.over
                 PROVE  at \in Ended \union (IF m.of = "start" THEN Starting ELSE {"closing"})
      BY <1>2 DEF TakeEarly, MonitorsWatchNow
    <3>1. CASE m \in monitors
      BY <3>1 DEF MonitorsWatchNow
    <3>2. CASE m = [of |-> "start", over |-> at \notin Starting]
      BY <3>2
    <3> QED BY <1>2, <3>1, <3>2 DEF TakeEarly
  <2> QED
    BY <1>2, <2>2, <2>3 DEF TakeEarly, EndpointStage, PortStage, SignalStage
<1>3. ASSUME NEW m \in Monitor, MonitorDue(m) PROVE IInv'
  <2>1. TypeOK'
    BY <1>3 DEF MonitorDue, TypeOK, Places, Ended
  <2> QED
    BY <1>3, <2>1 DEF MonitorDue, MonitorsWatchNow, EndpointStage, PortStage, SignalStage,
       Starting, Serving, Ended
<1> QED BY <1>1, <1>2, <1>3

\* The beginning of a close, common to a reload and to the end.
LEMMA BeginCloseKeeps ==
    ASSUME IInv, at \in Serving, BeginClose, early' \in {"none", "pending", "taken"},
           sig' \in {"none", "hup", "term"}, why' \in {"none", "hup", "term"},
           port' = port \/ (port = "check" /\ port' = "free"), port' # "check",
           UNCHANGED <<file, cfg, refused, accepting, uapi, ep>>
    PROVE  IInv'
<1> USE DEF IInv
<1>1. [of |-> "close", over |-> FALSE] \in Monitor
  BY DEF Monitor
<1>2. TypeOK'
  BY <1>1 DEF BeginClose, TypeOK, Places
<1>3. MonitorsWatchNow'
  BY DEF BeginClose, TypeOK, MonitorsWatchNow, Serving, Starting, Ended
<1>4. EndpointStage'
  BY DEF BeginClose, EndpointStage, Serving
<1>5. PortStage' /\ SignalStage'
  BY DEF BeginClose, PortStage, SignalStage, Starting, Serving
<1> QED BY <1>2, <1>3, <1>4, <1>5

\* run keeps the invariant.
LEMMA RunKeeps ==
    ASSUME IInv,
           TakeSignal \/ Check \/ CheckPasses \/ Closed
           \/ (\E x \in {"water", "amnezia"} : CloseOne(x))
    PROVE  IInv'
<1> USE DEF IInv
<1>1. ASSUME TakeSignal, sig = "hup" PROVE IInv'
  BY <1>1 DEF TakeSignal, TypeOK, MonitorsWatchNow, EndpointStage, PortStage, SignalStage,
     Places, Starting, Serving, Ended
<1>2. ASSUME TakeSignal, sig # "hup" PROVE IInv'
  BY <1>2, BeginCloseKeeps DEF TakeSignal, TypeOK, Serving, PortStage, Ended
<1>3. CASE Check
  <2>1. port' \in {"free", "box", "check", "leaked"} /\ refused' \in BOOLEAN
    BY <1>3 DEF Check, Leaks, TypeOK
  <2>2. TypeOK'
    BY <1>3, <2>1 DEF Check, TypeOK, Places
  <2>3. PortStage'
    BY <1>3 DEF Check, Leaks, CanListen, PortStage, Starting, Serving, Ended
  <2> QED
    BY <1>3, <2>2, <2>3 DEF Check, MonitorsWatchNow, EndpointStage, SignalStage,
       Starting, Serving, Ended
<1>4. CASE CheckPasses
  BY <1>4, BeginCloseKeeps DEF CheckPasses, TypeOK, Serving
<1>5. CASE Closed
  <2>1. monitors' \subseteq Monitor
    BY <1>5 DEF Closed, MarkOver, TypeOK, Monitor
  <2>2. TypeOK'
    BY <1>5, <2>1 DEF Closed, TypeOK, Places, Ended
  <2>3. MonitorsWatchNow'
    BY <1>5 DEF Closed, MarkOver, TypeOK, Monitor, MonitorsWatchNow, Starting, Ended
  <2>4. PortStage'
    BY <1>5 DEF Closed, PortStage, Starting, Serving, Ended
  <2>5. EndpointStage' /\ SignalStage'
    BY <1>5 DEF Closed, EndpointStage, SignalStage, Starting, Serving
  <2> QED BY <2>2, <2>3, <2>4, <2>5
<1>6. ASSUME NEW x \in {"water", "amnezia"}, CloseOne(x) PROVE IInv'
  <2>1. ep' \in Endpoint /\ Started(ep') /\ (x = "amnezia" \/ ~InUse(ep) => ~InUse(ep'))
    BY <1>6, EndpointTypes, EndpointLife DEF CloseOne, TypeOK, EndpointStage
  <2>2. TypeOK'
    BY <1>6, <2>1 DEF CloseOne, TypeOK
  <2>3. EndpointStage'
    BY <1>6, <2>1 DEF CloseOne, EndpointStage, Serving
  <2>4. PortStage'
    BY <1>6 DEF CloseOne, PortStage, Starting, Serving, Ended
  <2> QED
    BY <1>6, <2>2, <2>3, <2>4 DEF CloseOne, MonitorsWatchNow, SignalStage, Starting
<1> QED BY <1>1, <1>2, <1>3, <1>4, <1>5, <1>6

\* What runs beside keeps the invariant.
LEMMA BesideKeeps ==
    ASSUME IInv,
           AcceptEnds \/ UapiCloses \/ InterfaceUpdated
           \/ (\E paused \in BOOLEAN : Pause(paused)) \/ (\E c \in Configs : Edit(c))
    PROVE  IInv'
<1> USE DEF IInv
<1>1. CASE AcceptEnds
  <2>1. accepting' \in BOOLEAN
    BY <1>1 DEF AcceptEnds
  <2>2. TypeOK'
    BY <1>1, <2>1 DEF AcceptEnds, TypeOK
  <2> QED
    BY <1>1, <2>2 DEF AcceptEnds, MonitorsWatchNow, EndpointStage, PortStage, SignalStage
<1>2. CASE UapiCloses
  BY <1>2 DEF UapiCloses, TypeOK, MonitorsWatchNow, EndpointStage, PortStage, SignalStage
<1>3. CASE InterfaceUpdated
  BY <1>3 DEF InterfaceUpdated, TypeOK, MonitorsWatchNow, EndpointStage, PortStage,
     SignalStage, Places, Starting, Serving, Ended
<1>4. ASSUME NEW paused \in BOOLEAN, Pause(paused) PROVE IInv'
  <2>1. /\ ep' \in Endpoint
        /\ Fresh(ep) => ep' = ep
        /\ Started(ep) => Started(ep')
        /\ ~InUse(ep) => ep' = ep
        /\ ep'.names = ep.names
    BY <1>4, EndpointTypes, EndpointLife DEF Pause, TypeOK
  <2>2. EndpointStage'
    BY <1>4, <2>1 DEF Pause, EndpointStage
  <2> QED
    BY <1>4, <2>1, <2>2 DEF Pause, TypeOK, MonitorsWatchNow, PortStage, SignalStage
<1>5. ASSUME NEW c \in Configs, Edit(c) PROVE IInv'
  BY <1>5 DEF Edit, TypeOK, MonitorsWatchNow, EndpointStage, PortStage, SignalStage
<1> QED BY <1>1, <1>2, <1>3, <1>4, <1>5

\* Every step keeps the invariant.
THEOREM Inductive == IInv /\ [Next]_vars => IInv'
<1> SUFFICES ASSUME IInv, [Next]_vars PROVE IInv'
  OBVIOUS
<1>1. CASE Next
  BY <1>1, CreateKeeps, SignalsKeep, RunKeeps, BesideKeeps DEF Next, RunStep
<1>2. CASE UNCHANGED vars
  BY <1>2 DEF vars, IInv, TypeOK, MonitorsWatchNow, EndpointStage, PortStage, SignalStage
<1> QED BY <1>1, <1>2

THEOREM Invariance == Spec => []IInv
BY InitIInv, Inductive, PTL DEF Spec

\* No monitor kills an instance it was not started for (cmd_run.go:71-80,
\* 88-96, 118-121).
THEOREM MonitorsSafe == Spec => []MonitorsWatchNow
BY Invariance, Implies, PTL

\* An instance with a cancelled context is closed next, or its reload was
\* refused (cmd_run.go:65-78, 99-117).
THEOREM CancelledSafe == Spec => []CancelledIsClosed
BY Invariance, Implies, PTL

\* Of what a closed box held, the next one finds at most its UAPI socket, which is being
\* closed (cmd_run.go:117-128).
THEOREM LeavesOnlyUapi == Spec => []OnlyUapiLeft
BY Invariance, Implies, PTL

\* The endpoint of a started box has its device (endpoint.go:153-172,
\* 249-251).
THEOREM UpdateSafe == Spec => []CanUpdate
BY Invariance, Implies, PTL
=============================================================================
