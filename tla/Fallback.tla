------------------------------ MODULE Fallback ------------------------------
(***************************************************************************)
(* protocol/group/fallback.go over the outbounds it is made for: the       *)
(* primary is a WATER or an Outline outbound, the fallback an ALGeneva     *)
(* one.  The dials of several callers share the mutexes, the map and the   *)
(* dialer of the primary.                                                  *)
(***************************************************************************)
EXTENDS WATEROutbound, OutlineOutbound, ALGeneva

VARIABLES
    primary,     \* the kind of outbound the primary tag names
    registered   \* which of the two tags the outbound manager knows

vars == <<dialing, water, outline, algeneva, primary, registered>>

\* After Start, which finds both outbounds.
Init ==
    /\ at = [c \in Callers |-> "idle"]
    /\ leg = [c \in Callers |-> "primary"]
    /\ want \in [Callers -> Dests]
    /\ conn = [c \in Callers |-> NoConn]
    /\ WaterInit
    /\ OutlineInit
    /\ AlgInit
    /\ primary \in {"water", "outline"}
    /\ registered = {"primary", "fallback"}

\* DialContext looks the primary up and dials it.  Without a primary it does
\* not try the fallback.
Dial(c) ==
    /\ at[c] = "idle"
    /\ GoTo(c, IF "primary" \in registered THEN primary ELSE "done")
    /\ UNCHANGED <<water, outline, algeneva, primary, registered>>

\* The primary failed: the fallback is looked up and dialled.
Retry(c) ==
    /\ at[c] = "failed"
    /\ leg' = [leg EXCEPT ![c] = "fallback"]
    /\ at' = [at EXCEPT ![c] = IF "fallback" \in registered THEN "algeneva" ELSE "done"]
    /\ UNCHANGED <<want, conn, water, outline, algeneva, primary, registered>>

\* The group manager removes an outbound.
Unregister(tag) ==
    /\ tag \in registered
    /\ registered' = registered \ {tag}
    /\ UNCHANGED <<dialing, water, outline, algeneva, primary>>

DialStep(c) ==
    \/ Retry(c)
    \/ WaterStep(c) /\ UNCHANGED <<outline, algeneva, primary, registered>>
    \/ OutlineStep(c) /\ UNCHANGED <<water, algeneva, primary, registered>>
    \/ AlgStep(c) /\ UNCHANGED <<water, outline, primary, registered>>

Next ==
    \/ \E c \in Callers :
          \/ Dial(c)
          \/ DialStep(c)
          \/ InboundStep(c) /\ UNCHANGED <<dialing, water, outline, primary, registered>>
          \/ \E w \in Writers :
                WriteStep(c, w) /\ UNCHANGED <<dialing, outline, algeneva, primary, registered>>
    \/ \E tag \in {"primary", "fallback"} : Unregister(tag)

Spec == Init /\ [][Next]_vars

\* A caller that can go on does.  Whether a WASM module, the search for a
\* strategy or the other end of a connection ever answers is not assumed.
FairSpec == Spec /\ \A c \in Callers : WF_vars(DialStep(c))

-----------------------------------------------------------------------------
(* Properties *)

\* The other end of a WATER connection is told the destination of the dial that
\* made it and no other, in the module's configuration and in the stream, though
\* the dials write theirs into one map.  If it is a name, the configuration holds
\* no address at all (water/outbound.go:125-142, 146-162).
OwnDestination ==
    \A c \in Callers :
        conn[c].via = "water" => conn[c].told \subseteq {want[c], AddrPort(want[c])}

\* Whatever goroutines write first, and however often a write of the address
\* fails, the address is sent whole exactly once and before any payload
\* (water/conn.go:34-47).
AddressFirst ==
    \A c \in Callers : LET s == stream[c] IN ~skip =>
        /\ \A i \in DOMAIN s : s[i] = "payload" => \E j \in 1 .. (i - 1) : s[j] = "address"
        /\ Cardinality({i \in DOMAIN s : s[i] = "address"}) <= 1

\* No side of the exchange reads more than the message it waits for, so the
\* buffers that are thrown away are empty (algeneva/outbound.go:138, 148,
\* algeneva/inbound.go:64-78).
NothingOverread ==
    \A c \in Callers :
        /\ inbound[c] = "request" => Len(up[c]) <= 1
        /\ inbound[c] = "upgrade" => Len(up[c]) <= 1 /\ Len(down[c]) <= 1

\* A dial returns a connection only when the inbound serves it, or has served
\* it (algeneva/outbound.go:134-152, algeneva/inbound.go:48-58).
BothEstablished ==
    \A c \in Callers : conn[c].via = "algeneva" => inbound[c] \in {"serving", "closed"}

\* metrics.conns misses the number of open connections by nothing but two
\* things: a rejected connection, which nobody closes, still counts when it is
\* gone, and each further close of a connection takes one more off.  Nothing
\* else in any exchange, served, broken or given up by the dial, makes it drift
\* (metrics/conn.go:21-29, 50-55, algeneva/inbound.go:51-57).
CountsOpen ==
    conns = Cardinality(OpenConns) + Cardinality(GoneConns) - Cardinality(Recloses)

\* Every dial returns, whichever outbounds fail in between, as long as no WATER
\* dial, no search for a strategy and no wait for the inbound lasts for ever: a
\* dial that does blocks all later ones (water/outbound.go:146-157,
\* outline/outbound.go:90-99, fallback.go:69-89).
DialsEnd ==
    (\A c \in Callers : []<>(at[c] \notin {"water.dial", "outline.create", "alg.read", "alg.upgrade"}))
        => \A c \in Callers : at[c] # "idle" ~> at[c] = "done"
=============================================================================
