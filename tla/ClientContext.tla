---------------------------- MODULE ClientContext ----------------------------
(***************************************************************************)
(* tracker/clientcontext/tracker.go: the exchange of client info for OK on *)
(* one connection through a client and a server, and the traffic that      *)
(* follows it on the same connection.                                      *)
(*                                                                         *)
(* The connection is a stream, which delivers what was written in pieces   *)
(* of any size, or carries packets, each read whole, which may be lost but *)
(* stay in order.                                                          *)
(* Whether the trackers wrap it is up to the bounds of each side; the      *)
(* bounds may disagree.                                                    *)
(***************************************************************************)
EXTENDS Integers, Sequences, SequencesExt

CONSTANTS Payload,  \* what the user sends upstream, a sequence of distinct units
          Reply     \* what upstream sends back

\* What is sent in the handshake, and in all.
Signs == {"begin", "end", "info", "O", "K", "OK"}
Units == Signs \union {Payload[k] : k \in DOMAIN Payload} \union {Reply[k] : k \in DOMAIN Reply}

ASSUME ClientContextAssumption ==
    /\ Payload \in Seq(Units) /\ \A k \in DOMAIN Payload : Payload[k] \notin Signs
    /\ Reply \in Seq(Units) /\ \A k \in DOMAIN Reply : Reply[k] \notin Signs
    /\ IsInjective(Payload \o Reply)

VARIABLES
    packets,    \* a packet connection, not a stream
    writes,     \* the client's tracker wraps the connection in a writeConn
    reads,      \* the server's wraps it in a readConn
    client,     \* where the client is
    server,     \* where the server is
    up, down,   \* what is under way to the server and to the client
    decoder,    \* what the server's decoder has taken from the connection
    info,       \* the server has the client info
    sent,       \* how many units of the payload the user has sent
    forwarded,  \* what upstream got
    replied,    \* how many units of its reply upstream has sent
    delivered,  \* what the user got
    lost        \* (history) a packet was lost

setup == <<packets, writes, reads>>
ends == <<client, server>>
traffic == <<sent, forwarded, replied, delivered>>
vars == <<setup, ends, up, down, decoder, info, traffic, lost>>

\* What the client info and the OK are made of.
Info == IF packets THEN <<"info">> ELSE <<"begin", "end">>
OK == IF packets THEN <<"OK">> ELSE <<"O", "K">>

TypeOK ==
    /\ packets \in BOOLEAN /\ writes \in BOOLEAN /\ reads \in BOOLEAN
    /\ client \in {"dialing", "sending", "waiting", "piping", "closed"}
    /\ server \in {"none", "reading", "answering", "piping", "closed"}
    /\ \A s \in {up, down, decoder, forwarded, delivered} : s \in Seq(Units)
    /\ info \in BOOLEAN /\ lost \in BOOLEAN
    /\ sent \in 0..Len(Payload)
    /\ replied \in 0..Len(Reply)

Init ==
    /\ packets \in BOOLEAN /\ writes \in BOOLEAN /\ reads \in BOOLEAN
    /\ client = "dialing" /\ server = "none"
    /\ up = <<>> /\ down = <<>> /\ decoder = <<>>
    /\ info = FALSE
    /\ sent = 0 /\ forwarded = <<>>
    /\ replied = 0 /\ delivered = <<>>
    /\ lost = FALSE

\* A read takes one packet, or any number of units of a stream.
ReadSizes(s, limit) ==
    {k \in 1..Len(s) : k <= limit /\ (packets => k = 1)}
Taken(s, k) == SubSeq(s, 1, k)
Left(s, k) == SubSeq(s, k + 1, Len(s))

-----------------------------------------------------------------------------
(* The connection *)

\* The client dials the server: each side is handed the connection, the
\* client's as its handshake success and the server's as a new connection.
Dial ==
    /\ client = "dialing"
    /\ client' = IF writes THEN "sending" ELSE "piping"
    /\ server' = IF reads THEN "reading" ELSE "piping"
    /\ UNCHANGED <<setup, up, down, decoder, info, traffic, lost>>

\* What is under way is lost with the connection.
Closed ==
    /\ client' = "closed" /\ server' = "closed"
    /\ up' = <<>> /\ down' = <<>>
    /\ UNCHANGED <<setup, decoder, info, traffic, lost>>

\* The connection breaks: reads and writes on it return an error, on which
\* sendInfo fails the handshake and readInfo leaves a connection of no use.
Break == client \notin {"dialing", "closed"} /\ Closed

\* Simplification: the network loses packets, but neither doubles nor reorders them.
LosePacket ==
    /\ packets
    /\ \/ up # <<>> /\ up' = Tail(up) /\ UNCHANGED down
       \/ down # <<>> /\ down' = Tail(down) /\ UNCHANGED up
    /\ lost' = TRUE
    /\ UNCHANGED <<setup, ends, decoder, info, traffic>>

-----------------------------------------------------------------------------
(* sendInfo, on the client *)

\* Does not wait for the response.
HastySend ==
    /\ client = "sending"
    /\ up' = up \o Info
    /\ client' = "piping"
    /\ UNCHANGED <<setup, server, down, decoder, info, traffic, lost>>

SendInfo ==
    /\ client = "sending"
    /\ up' = up \o Info
    /\ client' = "waiting"
    /\ UNCHANGED <<setup, server, down, decoder, info, traffic, lost>>

\* One read of two bytes, which a stream may answer with one: all but a whole
\* OK fails the handshake, and the connection is closed.
ReadResponse(k) ==
    /\ client = "waiting"
    /\ k \in ReadSizes(down, 2)
    /\ IF Taken(down, k) = OK
       THEN /\ client' = "piping"
            /\ down' = Left(down, k)
            /\ UNCHANGED <<setup, server, up, decoder, info, traffic, lost>>
       ELSE Closed

-----------------------------------------------------------------------------
(* readInfo, on the server *)

\* Reads once and expects the whole info.
OneShotDecode(k) ==
    /\ server = "reading"
    /\ k \in ReadSizes(up, Len(up))
    /\ decoder' = decoder \o Taken(up, k)
    /\ up' = Left(up, k)
    /\ info' = IsPrefix(Info, decoder')
    /\ server' = IF info' THEN "answering" ELSE "piping"
    /\ UNCHANGED <<setup, client, down, traffic, lost>>

\* The decoder takes what a read yields; what it has beyond the info is never
\* looked at again.  Without an info at its beginning it fails, and the server
\* goes on with the connection as it is.
Decode(k) ==
    /\ server = "reading"
    /\ k \in ReadSizes(up, Len(up))
    /\ decoder' = decoder \o Taken(up, k)
    /\ up' = Left(up, k)
    /\ info' = IsPrefix(Info, decoder')
    /\ server' = IF info' THEN "answering"
                 ELSE IF IsPrefix(decoder', Info) THEN "reading"
                 ELSE "piping"
    /\ UNCHANGED <<setup, client, down, traffic, lost>>

\* Leaves out the response.
SilentAnswer ==
    /\ server = "answering"
    /\ server' = "piping"
    /\ UNCHANGED <<setup, client, up, down, decoder, info, traffic, lost>>

Answer ==
    /\ server = "answering"
    /\ down' = down \o OK
    /\ server' = "piping"
    /\ UNCHANGED <<setup, client, up, decoder, info, traffic, lost>>

-----------------------------------------------------------------------------
(* The traffic, piped by the router of each side *)

UserSends ==
    /\ client = "piping"
    /\ sent < Len(Payload)
    /\ sent' = sent + 1
    /\ up' = Append(up, Payload[sent'])
    /\ UNCHANGED <<setup, ends, down, decoder, info, forwarded, replied, delivered, lost>>

Forward ==
    /\ server = "piping"
    /\ up # <<>>
    /\ forwarded' = Append(forwarded, Head(up))
    /\ up' = Tail(up)
    /\ UNCHANGED <<setup, ends, down, decoder, info, sent, replied, delivered, lost>>

UpstreamReplies ==
    /\ server = "piping"
    /\ replied < Len(Reply)
    /\ replied' = replied + 1
    /\ down' = Append(down, Reply[replied'])
    /\ UNCHANGED <<setup, ends, up, decoder, info, sent, forwarded, delivered, lost>>

Deliver ==
    /\ client = "piping"
    /\ down # <<>>
    /\ delivered' = Append(delivered, Head(down))
    /\ down' = Tail(down)
    /\ UNCHANGED <<setup, ends, up, decoder, info, sent, forwarded, replied, lost>>

Handshake ==
    \/ SendInfo
    \/ \E k \in 1..Len(down) : ReadResponse(k)
    \/ \E k \in 1..Len(up) : Decode(k)
    \/ Answer

Next ==
    \/ Dial \/ Break \/ LosePacket
    \/ Handshake
    \/ UserSends \/ Forward \/ UpstreamReplies \/ Deliver

Spec == Init /\ [][Next]_vars

\* Neither side stops in its handshake; users and upstreams may stay silent.
FairSpec == Spec /\ WF_vars(Dial) /\ WF_vars(Handshake)

-----------------------------------------------------------------------------
(* Properties *)

\* "both client and server sides must use this tracker" (tracker.go:8).
Agree == writes = reads

\* s is t with units left out.
InOrder(s, t) ==
    \E place \in [DOMAIN s -> DOMAIN t] :
        /\ \A i, j \in DOMAIN s : i < j => place[i] < place[j]
        /\ \A i \in DOMAIN s : s[i] = t[place[i]]

\* When both sides use the tracker or neither does, upstream and user get what
\* the other sent and no more: the info and the OK stay out of the traffic, and
\* nothing of it ends in the server's decoder, which reads ahead
\* (tracker.go:183-191, 226-233).
TrafficIntact ==
    Agree => /\ InOrder(forwarded, Payload)
             /\ InOrder(delivered, Reply)
             /\ ~lost => /\ IsPrefix(forwarded, Payload)
                         /\ IsPrefix(delivered, Reply)

\* A server that reads client info knows it before anything reaches upstream
\* (the diagram at tracker.go:136-158), unless the client does not send it.
InfoBeforeTraffic == writes /\ reads /\ forwarded # <<>> => info

\* Neither side waits for ever in the handshake, if both use the tracker and no
\* packet is lost (tracker.go:184, 190, 222-228).
HandshakeEnds ==
    [](server \in {"reading", "answering"} \/ client \in {"sending", "waiting"} =>
       <>(\/ ~Agree \/ lost
          \/ client \in {"piping", "closed"} /\ server \in {"piping", "closed"}))
=============================================================================
