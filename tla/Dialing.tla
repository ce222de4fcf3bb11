------------------------------ MODULE Dialing ------------------------------
(***************************************************************************)
(* What the outbounds of this repository share: goroutines that each make  *)
(* one DialContext, first through a primary outbound and then, if that     *)
(* fails, through a fallback.  Each outbound has a module that moves a     *)
(* caller through its own places.                                          *)
(***************************************************************************)
EXTENDS Integers, FiniteSets, Sequences

CONSTANTS Callers,   \* the goroutines that dial
          Dests,     \* the destinations they dial
          Nobody     \* no caller, no destination

ASSUME DialingAssumption == Nobody \notin Callers \union Dests

VARIABLES
    at,     \* where each caller is
    leg,    \* the outbound it is dialling: "primary" or "fallback"
    want,   \* its destination
    conn    \* its result: the outbound it came by and the destinations that
            \* outbound has told the other side

dialing == <<at, leg, want, conn>>

NoConn == [via |-> "none", told |-> {}]

GoTo(c, place) == at' = [at EXCEPT ![c] = place] /\ UNCHANGED <<leg, want, conn>>

\* DialContext returns an error to Fallback.
Fail(c) ==
    /\ at' = [at EXCEPT ![c] = IF leg[c] = "primary" THEN "failed" ELSE "done"]
    /\ UNCHANGED <<leg, want, conn>>

\* It returns a connection, which Fallback hands on.
Succeed(c, via, told) ==
    /\ at' = [at EXCEPT ![c] = "done"]
    /\ conn' = [conn EXCEPT ![c] = [via |-> via, told |-> told]]
    /\ UNCHANGED <<leg, want>>
=============================================================================
