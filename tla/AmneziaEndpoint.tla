-------------------------- MODULE AmneziaEndpoint --------------------------
(***************************************************************************)
(* transport/amnezia/endpoint.go: the life of one Endpoint, as a record    *)
(* and what each call may make of it.  The device and the tunnel are       *)
(* external: a call into them succeeds or fails.                           *)
(***************************************************************************)

Endpoint ==
    [names    : BOOLEAN,   \* a peer is still known by its domain name only
     tun      : BOOLEAN,   \* tunDevice is started
     wg       : {"none", "made", "up", "down", "closed"},   \* the wgDevice
     device   : BOOLEAN,   \* e.device is set
     callback : BOOLEAN]   \* the pause callback is registered

\* NewEndpoint, for peers given by name or not.
NewEndpoint(names) ==
    [names |-> names, tun |-> FALSE, wg |-> "none", device |-> FALSE, callback |-> FALSE]

\* Never starts an endpoint with names.
NamelessSkips(e, resolve) == e.names \/ resolve

\* In which of its two calls Start has nothing to do: an endpoint with names
\* waits for the one that may resolve.
Skips(e, resolve) == e.names # resolve

Resolved(e) == [e EXCEPT !.names = FALSE]
Made(e) == [Resolved(e) EXCEPT !.tun = TRUE, !.wg = "made"]
Up(e) == [Made(e) EXCEPT !.wg = "up", !.device = TRUE, !.callback = TRUE]

\* The early returns of Start: a name that is not resolved, a tunnel that does
\* not start; and, with the device made, a UAPI socket or a configuration that
\* is refused.
Failures(e) == {Resolved(e), Made(e)} \union (IF e.names THEN {e} ELSE {})

\* BindUpdate, which InterfaceUpdated calls, has no device to call.
UpdatePanics(e) == ~e.device

\* onPauseUpdated; a closed device ignores it.
PauseUpdated(e, paused) ==
    IF e.callback /\ e.wg # "closed"
    THEN [e EXCEPT !.wg = IF paused THEN "down" ELSE "up"]
    ELSE e

\* Leaves the callback behind.
ForgetfulClose(e) ==
    IF e.device THEN [e EXCEPT !.wg = "closed", !.tun = FALSE] ELSE e

\* Close ends what e.device holds; a device that Start gave up on is not its.
Close(e) ==
    IF e.device
    THEN [e EXCEPT !.wg = "closed", !.tun = FALSE, !.callback = FALSE]
    ELSE e

\* The device or the tunnel runs, or pauses and wakes.
InUse(e) == e.tun \/ e.callback \/ e.wg \in {"made", "up", "down"}
=============================================================================
