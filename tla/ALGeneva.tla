------------------------------ MODULE ALGeneva ------------------------------
(***************************************************************************)
(* protocol/algeneva: the outbound's CONNECT and WebSocket upgrade, the    *)
(* inbound's answers, and the counter of metrics/conn.go that the inbound  *)
(* feeds.  Each side reads with a buffer it then throws away: whatever     *)
(* came after the message it was waiting for would be lost.                *)
(***************************************************************************)
EXTENDS Dialing

CONSTANT MaxCloses   \* bounds how often a connection is closed

ASSUME ClosesAssumption == MaxCloses \in Nat

VARIABLES
    inbound,  \* where the inbound is with the connection of each caller
    up,       \* the messages on their way to the inbound
    down,     \* the messages on their way back
    conns,    \* metrics.conns
    closes    \* how often each connection was closed

algeneva == <<inbound, up, down, conns, closes>>

AlgInit ==
    /\ inbound = [c \in Callers |-> "none"]
    /\ up = [c \in Callers |-> <<>>]
    /\ down = [c \in Callers |-> <<>>]
    /\ conns = 0
    /\ closes = [c \in Callers |-> 0]

Inbound(c, place) == inbound' = [inbound EXCEPT ![c] = place]
Put(wire, c, message) == [wire EXCEPT ![c] = Append(@, message)]
\* A bufio.Reader takes what there is.
Drain(wire, c) == [wire EXCEPT ![c] = <<>>]

-----------------------------------------------------------------------------
(* aDialer.DialContext *)

AlgDial(c) ==
    /\ at[c] = "algeneva"
    /\ \/ GoTo(c, "alg.write") /\ Inbound(c, "dialed")
       \/ Fail(c) /\ UNCHANGED inbound
    /\ UNCHANGED <<up, down, conns, closes>>

\* Sends the upgrade with the request.
PipelinedWrite(c) ==
    /\ at[c] = "alg.write"
    /\ up' = [up EXCEPT ![c] = @ \o <<"connect", "upgrade">>]
    /\ GoTo(c, "alg.read")
    /\ UNCHANGED <<inbound, down, conns, closes>>

\* The strategy is applied to the request and the result is written: the
\* inbound may be unable to read it.  On an error the connection stays open.
AlgWrite(c) ==
    /\ at[c] = "alg.write"
    /\ \/ /\ \E request \in {"connect", "unreadable"} : up' = Put(up, c, request)
          /\ GoTo(c, "alg.read")
       \/ Fail(c) /\ UNCHANGED up
    /\ UNCHANGED <<inbound, down, conns, closes>>

\* http.ReadResponse with status 200, and the request of ws.Upgrade.
AlgRead(c) ==
    /\ at[c] = "alg.read"
    /\ down[c] # <<>>
    /\ down' = Drain(down, c)
    /\ up' = Put(up, c, "upgrade")
    /\ GoTo(c, "alg.upgrade")
    /\ UNCHANGED <<inbound, conns, closes>>

\* Takes the upgrade for granted.
TrustingUpgraded(c) ==
    /\ at[c] = "alg.upgrade"
    /\ Succeed(c, "algeneva", {want[c]})
    /\ UNCHANGED algeneva

\* ws.Upgrade has read its response.  The HTTP client then asks the HTTP inbound
\* for the destination, which may fail.
AlgUpgraded(c) ==
    /\ at[c] = "alg.upgrade"
    /\ down[c] # <<>>
    /\ down' = Drain(down, c)
    /\ Succeed(c, "algeneva", {want[c]}) \/ Fail(c)
    /\ UNCHANGED <<inbound, up, conns, closes>>

\* Another status, or the connection breaks.
AlgBreaks(c) ==
    /\ at[c] \in {"alg.read", "alg.upgrade"}
    /\ Fail(c)
    /\ UNCHANGED algeneva

AlgStep(c) ==
    AlgDial(c) \/ AlgWrite(c) \/ AlgRead(c) \/ AlgUpgraded(c) \/ AlgBreaks(c)

-----------------------------------------------------------------------------
(* Inbound.NewConnectionEx *)

\* Counts a connection when it is upgraded.
LateAccept(c) ==
    /\ inbound[c] = "dialed"
    /\ Inbound(c, "request")
    /\ UNCHANGED <<up, down, conns, closes>>

\* metrics.NewConn.
InboundAccept(c) ==
    /\ inbound[c] = "dialed"
    /\ Inbound(c, "request")
    /\ conns' = conns + 1
    /\ UNCHANGED <<up, down, closes>>

\* alg.ReadRequest and the answer.  With an error newConnectionEx returns nil
\* for the connection, and CloseOnHandshakeFailure has none to close.
InboundRead(c) ==
    /\ inbound[c] = "request"
    /\ up[c] # <<>>
    /\ up' = Drain(up, c)
    /\ \/ Head(up[c]) = "connect" /\ Inbound(c, "upgrade") /\ down' = Put(down, c, "ok")
       \/ Inbound(c, "rejected") /\ UNCHANGED down
    /\ UNCHANGED <<conns, closes>>

\* ws.Upgrade, and the HTTP inbound serves the connection.
InboundUpgrade(c) ==
    /\ inbound[c] = "upgrade"
    /\ up[c] # <<>>
    /\ up' = Drain(up, c)
    /\ \/ Inbound(c, "serving") /\ down' = Put(down, c, "switched")
       \/ Inbound(c, "rejected") /\ UNCHANGED down
    /\ UNCHANGED <<conns, closes>>

\* metrics.Conn.Close, which the router may call more than once.
\* Bound: MaxCloses closes.
InboundClose(c) ==
    /\ inbound[c] \in {"serving", "closed"}
    /\ closes[c] < MaxCloses
    /\ Inbound(c, "closed")
    /\ closes' = [closes EXCEPT ![c] = @ + 1]
    /\ conns' = conns - 1
    /\ UNCHANGED <<up, down>>

\* A rejected connection ends, and its counter does not hear of it: the client
\* hangs up, or the runtime closes the socket that nobody refers to.
InboundVanishes(c) ==
    /\ inbound[c] = "rejected"
    /\ Inbound(c, "gone")
    /\ UNCHANGED <<up, down, conns, closes>>

InboundStep(c) ==
    \/ InboundAccept(c) \/ InboundRead(c) \/ InboundUpgrade(c)
    \/ InboundClose(c) \/ InboundVanishes(c)

Open(c) == inbound[c] \in {"request", "upgrade", "serving", "rejected"}
OpenConns == {c \in Callers : Open(c)}
GoneConns == {c \in Callers : inbound[c] = "gone"}
\* The closes of each connection after its first.
Recloses == {r \in Callers \X (2 .. MaxCloses) : r[2] <= closes[r[1]]}
=============================================================================
