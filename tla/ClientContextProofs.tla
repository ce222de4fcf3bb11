------------------------ MODULE ClientContextProofs ------------------------
(***************************************************************************)
(* Proofs about ClientContext, for traffic of any length: the types; a     *)
(* server that reads client info knows it before anything reaches          *)
(* upstream; and the traffic comes out as it went in, without the info and *)
(* the OK.                                                                 *)
(***************************************************************************)
EXTENDS ClientContext, SequenceTheorems, TLAPS

\* What the server's decoder and the wire hold between them while the info is
\* not complete: all of it, unless it was a packet that is lost.
Between ==
    IF packets
    THEN decoder = <<>> /\ up \in {<<>>, <<"info">>}
    ELSE \/ decoder = <<>> /\ up = <<"begin", "end">>
         \/ decoder = <<"begin">> /\ up = <<"end">>

\* Until the server has the info nothing but the info is sent: the client waits
\* for an OK that the server does not send before.
Waiting ==
    /\ down = <<>> /\ forwarded = <<>>
    /\ \/ client = "dialing" /\ server = "none" /\ up = <<>> /\ decoder = <<>>
       \/ client = "sending" /\ server = "reading" /\ up = <<>> /\ decoder = <<>>
       \/ client = "waiting" /\ server = "reading" /\ Between
       \/ client = "closed" /\ server = "closed" /\ up = <<>>

IInv ==
    /\ packets \in BOOLEAN /\ writes \in BOOLEAN /\ reads \in BOOLEAN
    /\ info \in BOOLEAN
    /\ client = "dialing" => server = "none" /\ ~info
    /\ server = "reading" => ~info
    /\ writes /\ reads /\ ~info => Waiting

USE DEF setup, ends, traffic

\* Before the client dials nothing is under way.
THEOREM InitIInv == Init => IInv
BY DEF Init, IInv, Waiting

\* The parts of sequences of one and of two units.
LEMMA Part == ASSUME NEW a PROVE SubSeq(<<a>>, 1, 1) = <<a>>
<1>1. <<a>> \in Seq({a}) /\ Len(<<a>>) = 1
  OBVIOUS
<1> QED BY <1>1, SubSeqFull

LEMMA Parts ==
    ASSUME NEW a, NEW b
    PROVE  /\ SubSeq(<<a, b>>, 1, 2) = <<a, b>>
           /\ SubSeq(<<a, b>>, 1, 1) = <<a>>
           /\ SubSeq(<<a, b>>, 2, 2) = <<b>>
           /\ <<a>> \o <<b>> = <<a, b>>
<1>1. /\ <<a>> \in Seq({a, b}) /\ <<b>> \in Seq({a, b})
      /\ <<a, b>> \in Seq({a, b}) /\ Len(<<a, b>>) = 2
  OBVIOUS
<1>2. SubSeq(<<a, b>>, 1, 2) = <<a, b>>
  BY <1>1, SubSeqFull
<1>3. SubSeq(<<a, b>>, 2, 1) = <<>> /\ SubSeq(<<a, b>>, 3, 2) = <<>>
  BY SubSeqEmpty
<1>4. SubSeq(<<a, b>>, 1, 1) = <<a>> \o SubSeq(<<a, b>>, 2, 1)
  BY <1>1, SubSeqRecursiveFirst
<1>5. SubSeq(<<a, b>>, 2, 2) = <<b>> \o SubSeq(<<a, b>>, 3, 2)
  BY <1>1, SubSeqRecursiveFirst
<1>6. SubSeq(<<a, b>>, 1, 2) = <<a>> \o SubSeq(<<a, b>>, 2, 2)
  BY <1>1, SubSeqRecursiveFirst
<1> QED BY <1>1, <1>2, <1>3, <1>4, <1>5, <1>6, ConcatEmptySeq

\* A decoder that has taken k units of what is between the two ends either has
\* the whole info or a part of it, and the rest is on the wire.
LEMMA DecodePart ==
    ASSUME Between, NEW k \in ReadSizes(up, Len(up)), packets \in BOOLEAN,
           decoder' = decoder \o Taken(up, k), up' = Left(up, k), packets' = packets
    PROVE  \/ IsPrefix(Info, decoder') /\ up' = <<>>
           \/ ~IsPrefix(Info, decoder') /\ IsPrefix(decoder', Info) /\ Between'
<1>1. CASE packets /\ up = <<>>
  BY <1>1 DEF ReadSizes
<1>2. CASE packets /\ up = <<"info">>
  <2>1. k = 1
    BY <1>2 DEF ReadSizes
  <2>2. Taken(up, k) = <<"info">>
    BY <1>2, <2>1, Part DEF Taken
  <2>3. decoder' = <<"info">>
    BY <1>2, <2>2 DEF Between
  <2>4. Info = decoder'
    BY <1>2, <2>3 DEF Info
  <2>5. up' = <<>>
    BY <1>2, <2>1, SubSeqEmpty DEF Left
  <2> QED BY <2>3, <2>4, <2>5 DEF IsPrefix
<1>3. CASE ~packets /\ decoder = <<>> /\ up = <<"begin", "end">>
  <2>1. k \in {1, 2}
    BY <1>3 DEF ReadSizes
  <2>2. CASE k = 1
    <3>1. decoder' = <<"begin">> /\ up' = <<"end">>
      BY <1>3, <2>2, Parts DEF Taken, Left
    <3>2. Len(<<"begin">>) = 1 /\ Len(<<"begin", "end">>) = 2
      OBVIOUS
    <3>3. IsPrefix(<<"begin">>, <<"begin", "end">>)
      BY <3>2, Part, Parts DEF IsPrefix
    <3>4. IsPrefix(decoder', Info)
      BY <1>3, <3>1, <3>3 DEF Info
    <3>5. ~IsPrefix(<<"begin", "end">>, <<"begin">>)
      BY <3>2 DEF IsPrefix
    <3>6. ~IsPrefix(Info, decoder')
      BY <1>3, <3>1, <3>5 DEF Info
    <3> QED BY <1>3, <3>1, <3>4, <3>6 DEF Between
  <2>3. CASE k = 2
    <3>1. Taken(up, k) = <<"begin", "end">>
      BY <1>3, <2>3, Parts DEF Taken
    <3>2. decoder' = <<"begin", "end">>
      BY <1>3, <3>1
    <3>3. Info = decoder'
      BY <1>3, <3>2 DEF Info
    <3>4. up' = <<>>
      BY <1>3, <2>3, SubSeqEmpty DEF Left
    <3> QED BY <3>2, <3>3, <3>4 DEF IsPrefix
  <2> QED BY <2>1, <2>2, <2>3
<1>4. CASE ~packets /\ decoder = <<"begin">> /\ up = <<"end">>
  <2>1. k = 1
    BY <1>4 DEF ReadSizes
  <2>2. Taken(up, k) = <<"end">>
    BY <1>4, <2>1, Part DEF Taken
  <2>3. decoder' = <<"begin", "end">>
    BY <1>4, <2>2, Parts
  <2>4. Info = decoder'
    BY <1>4, <2>3 DEF Info
  <2>5. up' = <<>>
    BY <1>4, <2>1, SubSeqEmpty DEF Left
  <2> QED BY <2>3, <2>4, <2>5 DEF IsPrefix
<1> QED BY <1>1, <1>2, <1>3, <1>4 DEF Between

\* Every step keeps it; the steps that touch the wire to the server before it has
\* the info are SendInfo, LosePacket and Decode (tracker.go:183-191, 222-233).
THEOREM Inductive == IInv /\ [Next]_vars => IInv'
<1> SUFFICES ASSUME IInv, [Next]_vars PROVE IInv'
  OBVIOUS
<1>1. CASE Dial
  BY <1>1 DEF Dial, IInv, Waiting
<1>2. CASE Break
  BY <1>2 DEF Break, Closed, IInv, Waiting
<1>3. CASE LosePacket
  <2>1. ASSUME Between, packets, down = <<>> PROVE up' = <<>>
    <3>1. up = <<"info">> /\ up' = Tail(up)
      BY <1>3, <2>1 DEF LosePacket, Between
    <3> QED BY <3>1
  <2> QED BY <1>3, <2>1 DEF LosePacket, IInv, Waiting, Between
<1>4. CASE SendInfo
  <2>1. up = <<>> => up' = Info
    BY <1>4 DEF SendInfo, Info
  <2> QED BY <1>4, <2>1 DEF SendInfo, IInv, Waiting, Between, Info
<1>5. ASSUME NEW k \in 1..Len(down), ReadResponse(k) PROVE IInv'
  <2>1. down # <<>>
    BY <1>5 DEF ReadResponse, ReadSizes
  <2> QED BY <1>5, <2>1 DEF ReadResponse, Closed, IInv, Waiting
<1>6. ASSUME NEW k \in 1..Len(up), Decode(k) PROVE IInv'
  <2>1. packets \in BOOLEAN /\ ~info /\ server = "reading"
    BY <1>6 DEF IInv, Decode
  <2>2. ASSUME writes, reads, ~info' PROVE Waiting'
    <3>1. client = "waiting" /\ Between /\ down = <<>> /\ forwarded = <<>>
      BY <2>1, <2>2, <1>6 DEF IInv, Waiting, Decode, ReadSizes
    <3>2. IsPrefix(decoder', Info) /\ Between'
      BY <3>1, <2>1, <2>2, <1>6, DecodePart DEF Decode
    <3> QED BY <1>6, <2>2, <3>1, <3>2 DEF Decode, Waiting
  <2>3. info' \in BOOLEAN
    BY <1>6 DEF Decode, IsPrefix
  <2>4. client # "dialing"
    BY <2>1 DEF IInv
  <2>5. server' = "reading" => ~info'
    BY <1>6 DEF Decode
  <2> QED BY <1>6, <2>2, <2>3, <2>4, <2>5 DEF Decode, IInv
<1>7. CASE Answer
  BY <1>7 DEF Answer, IInv, Waiting
<1>8. CASE UserSends \/ Forward
  BY <1>8 DEF UserSends, Forward, IInv, Waiting
<1>9. CASE UpstreamReplies \/ Deliver
  BY <1>9 DEF UpstreamReplies, Deliver, IInv, Waiting
<1>10. CASE UNCHANGED vars
  BY <1>10 DEF vars, IInv, Waiting, Between
<1> QED BY <1>1, <1>2, <1>3, <1>4, <1>5, <1>6, <1>7, <1>8, <1>9, <1>10 DEF Next, Handshake

\* A server that reads client info knows it before anything reaches upstream, if
\* the client sends it (tracker.go:136-158, 183-191).
THEOREM InfoComesFirst == Spec => []InfoBeforeTraffic
<1>1. IInv => InfoBeforeTraffic
  BY DEF IInv, Waiting, InfoBeforeTraffic
<1> QED BY InitIInv, Inductive, <1>1, PTL DEF Spec

-----------------------------------------------------------------------------
(* Types *)

\* What a read takes and what it leaves.
LEMMA TakenAndLeft ==
    ASSUME NEW s \in Seq(Units), NEW k \in 1..Len(s)
    PROVE  /\ Taken(s, k) \in Seq(Units) /\ Len(Taken(s, k)) = k
           /\ \A i \in 1..k : Taken(s, k)[i] = s[i]
           /\ Left(s, k) \in Seq(Units) /\ Len(Left(s, k)) = Len(s) - k
           /\ \A i \in 1..(Len(s) - k) : Left(s, k)[i] = s[k + i]
<1>1. k \in Int /\ Len(s) \in Nat /\ k <= Len(s) /\ \A i \in 1..Len(s) : s[i] \in Units
  OBVIOUS
<1>2. /\ SubSeq(s, 1, k) \in Seq(Units) /\ Len(SubSeq(s, 1, k)) = k
      /\ \A i \in 1..k : SubSeq(s, 1, k)[i] = s[i]
  BY <1>1, SubSeqProperties
<1>3. /\ SubSeq(s, k + 1, Len(s)) \in Seq(Units)
      /\ Len(SubSeq(s, k + 1, Len(s))) = Len(s) - k
      /\ \A i \in 1..(Len(s) - k) : SubSeq(s, k + 1, Len(s))[i] = s[k + i]
  BY <1>1, SubSeqProperties
<1> QED BY <1>2, <1>3 DEF Taken, Left

LEMMA InUnits ==
    /\ Info \in Seq(Units) /\ OK \in Seq(Units)
    /\ \A k \in 1..Len(Payload) : Payload[k] \in Units
    /\ \A k \in 1..Len(Reply) : Reply[k] \in Units
    /\ Len(Payload) \in Nat /\ Len(Reply) \in Nat
<1>1. {"begin", "end", "info", "O", "K", "OK"} \subseteq Units
  BY DEF Units, Signs
<1>2. Info \in Seq(Units) /\ OK \in Seq(Units)
  BY <1>1 DEF Info, OK
<1> HIDE DEF Units
<1> QED BY <1>2, ClientContextAssumption DEF ClientContextAssumption

\* Every state has its types.
THEOREM InitTypes == Init => TypeOK
<1> SUFFICES ASSUME Init PROVE TypeOK
  OBVIOUS
<1>1. \A s \in {up, down, decoder, forwarded, delivered} : s = <<>>
  BY DEF Init
<1>2. <<>> \in Seq(Units)
  OBVIOUS
<1>3. 0 \in 0..Len(Payload) /\ 0 \in 0..Len(Reply)
  BY InUnits
<1> QED BY <1>1, <1>2, <1>3 DEF Init, TypeOK

THEOREM TypesKept == TypeOK /\ [Next]_vars => TypeOK'
<1> SUFFICES ASSUME TypeOK, [Next]_vars PROVE TypeOK'
  OBVIOUS
<1>1. CASE Dial
  BY <1>1 DEF Dial, TypeOK
<1>2. ASSUME Closed PROVE TypeOK'
  BY <1>2 DEF Closed, TypeOK
<1>3. CASE LosePacket
  <2>1. \A s \in Seq(Units) : s # <<>> => Tail(s) \in Seq(Units)
    OBVIOUS
  <2>2. up' \in Seq(Units) /\ down' \in Seq(Units)
    BY <1>3, <2>1 DEF LosePacket, TypeOK
  <2> QED BY <1>3, <2>2 DEF LosePacket, TypeOK
<1>4. CASE SendInfo
  BY <1>4, InUnits DEF SendInfo, TypeOK
<1>5. ASSUME NEW k \in 1..Len(down), ReadResponse(k) PROVE TypeOK'
  BY <1>2, <1>5, TakenAndLeft DEF ReadResponse, TypeOK
<1>6. ASSUME NEW k \in 1..Len(up), Decode(k) PROVE TypeOK'
  <2>1. up' \in Seq(Units) /\ decoder' \in Seq(Units)
    <3>1. Taken(up, k) \in Seq(Units) /\ Left(up, k) \in Seq(Units)
      BY TakenAndLeft DEF TypeOK
    <3>2. decoder \o Taken(up, k) \in Seq(Units)
      BY <3>1, ConcatProperties DEF TypeOK
    <3> QED BY <1>6, <3>1, <3>2 DEF Decode
  <2>2. info' \in BOOLEAN
    BY <1>6 DEF Decode, IsPrefix
  <2> QED BY <1>6, <2>1, <2>2 DEF Decode, TypeOK
<1>7. CASE Answer
  BY <1>7, InUnits DEF Answer, TypeOK
<1>8. CASE UserSends
  BY <1>8, InUnits DEF UserSends, TypeOK
<1>9. CASE Forward
  BY <1>9 DEF Forward, TypeOK
<1>10. CASE UpstreamReplies
  BY <1>10, InUnits DEF UpstreamReplies, TypeOK
<1>11. CASE Deliver
  BY <1>11 DEF Deliver, TypeOK
<1>12. CASE UNCHANGED vars
  BY <1>12 DEF vars, TypeOK
<1> QED BY <1>1, <1>2, <1>3, <1>4, <1>5, <1>6, <1>7, <1>8, <1>9, <1>10, <1>11, <1>12
        DEF Next, Handshake, Break

\* The two ends, and what is between them, keep their types.
THEOREM TypeCorrect == Spec => []TypeOK
BY InitTypes, TypesKept, PTL DEF Spec

-----------------------------------------------------------------------------
(* Sequences of which units get lost *)

\* w is what is left of the first n units of t, and all of them.
Embeds(w, t, n) ==
    /\ Len(w) <= n
    /\ \E place \in [1..Len(w) -> 1..n] :
          /\ \A i, j \in 1..Len(w) : i < j => place[i] < place[j]
          /\ \A i \in 1..Len(w) : w[i] = t[place[i]]
Copies(w, t) == \A i \in 1..Len(w) : w[i] = t[i]

LEMMA NothingEmbeds ==
    ASSUME NEW t, NEW n \in Nat PROVE Embeds(<<>>, t, n) /\ Copies(<<>>, t)
<1> DEFINE place == [i \in 1..Len(<<>>) |-> 1]
<1>1. Len(<<>>) = 0 /\ \A i \in 1..Len(<<>>) : FALSE
  OBVIOUS
<1>2. place \in [1..Len(<<>>) -> 1..n]
  BY <1>1
<1> HIDE DEF place
<1>3. /\ \A i, j \in 1..Len(<<>>) : i < j => place[i] < place[j]
      /\ \A i \in 1..Len(<<>>) : <<>>[i] = t[place[i]] /\ <<>>[i] = t[i]
      /\ Len(<<>>) <= n
  BY <1>1
<1>4. Embeds(<<>>, t, n)
  BY <1>2, <1>3 DEF Embeds
<1> QED BY <1>3, <1>4 DEF Copies

LEMMA OneMore ==
    ASSUME NEW w, NEW v, NEW t, NEW n \in Nat, Len(w) \in Nat,
           Len(v) = Len(w) + 1, v[Len(v)] = t[n + 1],
           \A i \in 1..Len(w) : v[i] = w[i],
           Embeds(w, t, n)
    PROVE  Embeds(v, t, n + 1)
<1>1. PICK place \in [1..Len(w) -> 1..n] :
         /\ \A i, j \in 1..Len(w) : i < j => place[i] < place[j]
         /\ \A i \in 1..Len(w) : w[i] = t[place[i]]
  BY DEF Embeds
<1> DEFINE next == [i \in 1..Len(v) |-> IF i <= Len(w) THEN place[i] ELSE n + 1]
<1>2. next \in [1..Len(v) -> 1..(n + 1)]
  BY <1>1
<1>3. \A i, j \in 1..Len(v) : i < j => next[i] < next[j]
  BY <1>1
<1>4. \A i \in 1..Len(v) : v[i] = t[next[i]]
  BY <1>1
<1>5. Len(v) <= n + 1
  BY DEF Embeds
<1> HIDE DEF next
<1> QED BY <1>2, <1>3, <1>4, <1>5 DEF Embeds

LEMMA OneLess ==
    ASSUME NEW w, NEW v, NEW t, NEW n \in Nat, Len(w) \in Nat, NEW m \in 1..Len(w),
           Len(v) = Len(w) - 1,
           \A i \in 1..Len(v) : v[i] = IF i < m THEN w[i] ELSE w[i + 1],
           Embeds(w, t, n)
    PROVE  Embeds(v, t, n)
<1>1. PICK place \in [1..Len(w) -> 1..n] :
         /\ \A i, j \in 1..Len(w) : i < j => place[i] < place[j]
         /\ \A i \in 1..Len(w) : w[i] = t[place[i]]
  BY DEF Embeds
<1> DEFINE next == [i \in 1..Len(v) |-> IF i < m THEN place[i] ELSE place[i + 1]]
<1>2. next \in [1..Len(v) -> 1..n]
  BY <1>1
<1>3. \A i, j \in 1..Len(v) : i < j => next[i] < next[j]
  BY <1>1
<1>4. \A i \in 1..Len(v) : v[i] = t[next[i]]
  BY <1>1
<1>5. Len(v) <= n
  BY DEF Embeds
<1> HIDE DEF next
<1> QED BY <1>2, <1>3, <1>4, <1>5 DEF Embeds

LEMMA FrontEmbeds ==
    ASSUME NEW w, NEW v, NEW t, NEW n \in Nat, Len(w) \in Nat, Len(v) \in Nat,
           Len(v) <= Len(w), \A i \in 1..Len(v) : v[i] = w[i],
           Embeds(w, t, n)
    PROVE  Embeds(v, t, n)
<1>1. PICK place \in [1..Len(w) -> 1..n] :
         /\ \A i, j \in 1..Len(w) : i < j => place[i] < place[j]
         /\ \A i \in 1..Len(w) : w[i] = t[place[i]]
  BY DEF Embeds
<1> DEFINE next == [i \in 1..Len(v) |-> place[i]]
<1>2. next \in [1..Len(v) -> 1..n]
  BY <1>1
<1>3. \A i, j \in 1..Len(v) : i < j => next[i] < next[j]
  BY <1>1
<1>4. \A i \in 1..Len(v) : v[i] = t[next[i]]
  BY <1>1
<1>5. Len(v) <= n
  BY DEF Embeds
<1> HIDE DEF next
<1> QED BY <1>2, <1>3, <1>4, <1>5 DEF Embeds

-----------------------------------------------------------------------------
(* A wire: what was got and what is on its way, of the first n units of t *)

Follows(w, t, n) ==
    /\ Embeds(w, t, n)
    /\ ~lost => Copies(w, t) /\ (client # "closed" => Len(w) = n)

\* The positions of a wire.
LEMMA WirePlaces ==
    ASSUME NEW got \in Seq(Units), NEW wire \in Seq(Units)
    PROVE  /\ got \o wire \in Seq(Units)
           /\ Len(got) \in Nat /\ Len(wire) \in Nat
           /\ Len(got \o wire) = Len(got) + Len(wire)
           /\ \A i \in 1..Len(got) : (got \o wire)[i] = got[i]
           /\ \A i \in 1..Len(wire) : (got \o wire)[Len(got) + i] = wire[i]
BY ConcatProperties

LEMMA WireGrows ==
    ASSUME NEW got \in Seq(Units), NEW wire \in Seq(Units), NEW t \in Seq(Units),
           NEW n \in Nat, n < Len(t), Embeds(got \o wire, t, n)
    PROVE  LET w == got \o wire
               v == got \o Append(wire, t[n + 1])
           IN  /\ Embeds(v, t, n + 1)
               /\ Copies(w, t) /\ Len(w) = n => Copies(v, t) /\ Len(v) = n + 1
<1> DEFINE w == got \o wire
           v == got \o Append(wire, t[n + 1])
<1>1. /\ Append(wire, t[n + 1]) \in Seq(Units)
      /\ Len(Append(wire, t[n + 1])) = Len(wire) + 1
      /\ \A i \in 1..Len(wire) : Append(wire, t[n + 1])[i] = wire[i]
      /\ Append(wire, t[n + 1])[Len(wire) + 1] = t[n + 1]
  OBVIOUS
<1>2. /\ Len(w) \in Nat /\ Len(v) = Len(w) + 1 /\ v[Len(v)] = t[n + 1]
      /\ \A i \in 1..Len(w) : v[i] = w[i]
  <2>1. Len(w) = Len(got) + Len(wire) /\ Len(v) = Len(got) + Len(wire) + 1
    BY <1>1, WirePlaces
  <2>2. v[Len(got) + (Len(wire) + 1)] = t[n + 1]
    BY <1>1, WirePlaces
  <2>3. ASSUME NEW i \in 1..Len(w) PROVE v[i] = w[i]
    <3>1. CASE i \in 1..Len(got)
      BY <1>1, <3>1, WirePlaces
    <3>2. CASE i \notin 1..Len(got)
      <4>1. i - Len(got) \in 1..Len(wire) /\ i = Len(got) + (i - Len(got))
        BY <2>1, <3>2
      <4> QED BY <1>1, <4>1, ConcatProperties
    <3> QED BY <3>1, <3>2
  <2> QED BY <2>1, <2>2, <2>3, WirePlaces
<1> HIDE DEF w, v
<1>3. Embeds(v, t, n + 1)
  BY <1>2, OneMore DEF w
<1>4. Copies(w, t) /\ Len(w) = n => Copies(v, t) /\ Len(v) = n + 1
  BY <1>2 DEF Copies
<1> QED BY <1>3, <1>4 DEF w, v

\* A wire from which nothing has been taken yet.
LEMMA AloneGrows ==
    ASSUME NEW wire \in Seq(Units), NEW t \in Seq(Units),
           NEW n \in Nat, n < Len(t), t[n + 1] \in Units, Embeds(wire, t, n)
    PROVE  LET v == Append(wire, t[n + 1])
           IN  /\ v \in Seq(Units)
               /\ Embeds(v, t, n + 1)
               /\ Copies(wire, t) /\ Len(wire) = n => Copies(v, t) /\ Len(v) = n + 1
<1> DEFINE v == Append(wire, t[n + 1])
<1>1. /\ v \in Seq(Units) /\ Len(wire) \in Nat /\ Len(v) = Len(wire) + 1
      /\ v[Len(v)] = t[n + 1] /\ \A i \in 1..Len(wire) : v[i] = wire[i]
  OBVIOUS
<1> HIDE DEF v
<1>2. Embeds(v, t, n + 1)
  BY <1>1, OneMore
<1>3. Copies(wire, t) /\ Len(wire) = n => Copies(v, t) /\ Len(v) = n + 1
  BY <1>1 DEF Copies
<1> QED BY <1>1, <1>2, <1>3 DEF v

LEMMA WireDelivers ==
    ASSUME NEW got \in Seq(Units), NEW wire \in Seq(Units), wire # <<>>
    PROVE  Append(got, Head(wire)) \o Tail(wire) = got \o wire
<1>1. Head(wire) \in Units /\ Tail(wire) \in Seq(Units) /\ wire = <<Head(wire)>> \o Tail(wire)
  OBVIOUS
<1>2. <<Head(wire)>> \in Seq(Units) /\ Append(got, Head(wire)) = got \o <<Head(wire)>>
  BY <1>1
<1> QED BY <1>1, <1>2, ConcatAssociative

LEMMA WireLoses ==
    ASSUME NEW got \in Seq(Units), NEW wire \in Seq(Units), wire # <<>>,
           NEW t, NEW n \in Nat, Embeds(got \o wire, t, n)
    PROVE  Embeds(got \o Tail(wire), t, n)
<1> DEFINE w == got \o wire
           v == got \o Tail(wire)
<1>1. /\ Tail(wire) \in Seq(Units) /\ Len(Tail(wire)) = Len(wire) - 1 /\ Len(wire) >= 1
      /\ \A i \in 1..Len(Tail(wire)) : Tail(wire)[i] = wire[i + 1]
  OBVIOUS
<1>2. Len(w) = Len(got) + Len(wire) /\ Len(v) = Len(w) - 1 /\ Len(got) \in Nat
  BY <1>1, WirePlaces
<1>3. ASSUME NEW i \in 1..Len(v) PROVE v[i] = IF i < Len(got) + 1 THEN w[i] ELSE w[i + 1]
  BY <1>1, <1>2, ConcatProperties
<1> HIDE DEF w, v
<1>4. Len(got) + 1 \in 1..Len(w) /\ Len(w) \in Nat
  BY <1>1, <1>2
<1> QED BY <1>2, <1>3, <1>4, OneLess DEF w, v

LEMMA WireBreaks ==
    ASSUME NEW got \in Seq(Units), NEW wire \in Seq(Units),
           NEW t, NEW n \in Nat, Embeds(got \o wire, t, n)
    PROVE  /\ Embeds(got \o <<>>, t, n)
           /\ Copies(got \o wire, t) => Copies(got \o <<>>, t)
<1>1. got \o <<>> = got
  BY ConcatEmptySeq
<1>2. /\ Len(got) \in Nat /\ Len(got \o wire) \in Nat /\ Len(got) <= Len(got \o wire)
      /\ \A i \in 1..Len(got) : got[i] = (got \o wire)[i]
  BY WirePlaces
<1>3. Embeds(got, t, n)
  BY <1>2, FrontEmbeds
<1>4. Copies(got \o wire, t) => Copies(got, t)
  BY <1>2 DEF Copies
<1> QED BY <1>1, <1>3, <1>4

-----------------------------------------------------------------------------
(* The stages of a connection whose ends agree *)

UpTraffic == Follows(forwarded \o up, Payload, sent)
DownTraffic == Follows(delivered \o down, Reply, replied)
Quiet == sent = 0 /\ replied = 0 /\ forwarded = <<>> /\ delivered = <<>>
Still == up = <<>> /\ down = <<>>

Undialed == client = "dialing" /\ server = "none" /\ Still /\ Quiet
Answering == client = "waiting" /\ server = "answering" /\ Still /\ Quiet
\* The server goes on before the client has its OK: what upstream replies is
\* behind the OK, unless that is lost.
Answered ==
    /\ client = "waiting" /\ server = "piping"
    /\ up = <<>> /\ sent = 0 /\ forwarded = <<>> /\ delivered = <<>>
    /\ \/ \E rest \in Seq(Units) : down = OK \o rest /\ Follows(rest, Reply, replied)
       \/ packets /\ lost /\ Follows(down, Reply, replied)
Piping == client = "piping" /\ server = "piping" /\ UpTraffic /\ DownTraffic
Over == client = "closed" /\ server = "closed" /\ Still /\ UpTraffic /\ DownTraffic

Stages ==
    /\ writes /\ reads /\ ~info => Quiet
    /\ writes /\ reads /\ info => Answering \/ Answered \/ Piping \/ Over
    /\ ~writes /\ ~reads => Undialed \/ Piping \/ Over

\* What the types say of the wires.
LEMMA Wires ==
    TypeOK => /\ up \in Seq(Units) /\ down \in Seq(Units)
              /\ forwarded \in Seq(Units) /\ delivered \in Seq(Units)
              /\ sent \in Nat /\ sent <= Len(Payload)
              /\ replied \in Nat /\ replied <= Len(Reply)
              /\ Payload \in Seq(Units) /\ Reply \in Seq(Units)
              /\ packets \in BOOLEAN /\ writes \in BOOLEAN /\ reads \in BOOLEAN
BY InUnits, ClientContextAssumption DEF TypeOK, ClientContextAssumption

\* A wire on which nothing was sent, and one whose connection breaks.
LEMMA NothingFollows ==
    ASSUME NEW t PROVE Follows(<<>> \o <<>>, t, 0) /\ Follows(<<>>, t, 0)
<1>1. <<>> \o <<>> = <<>> /\ Len(<<>>) = 0
  OBVIOUS
<1>2. Embeds(<<>>, t, 0) /\ Copies(<<>>, t)
  BY NothingEmbeds
<1> QED BY <1>1, <1>2 DEF Follows

\* A connection that breaks in any stage is over, with what was got.
LEMMA BreakEnds ==
    ASSUME TypeOK, Closed, Answering \/ Answered \/ Piping PROVE Over'
<1>1. Embeds(forwarded \o <<>>, Payload, sent) /\ (~lost => Copies(forwarded \o <<>>, Payload))
  <2>1. CASE Piping
    BY <2>1, Wires, WireBreaks DEF Piping, UpTraffic, Follows
  <2>2. CASE forwarded = <<>>
    <3>1. forwarded \o <<>> = <<>> /\ sent \in Nat
      BY <2>2, Wires
    <3> QED BY <3>1, NothingEmbeds
  <2> QED BY <2>1, <2>2 DEF Answering, Answered, Quiet
<1>2. Embeds(delivered \o <<>>, Reply, replied) /\ (~lost => Copies(delivered \o <<>>, Reply))
  <2>1. CASE Piping
    BY <2>1, Wires, WireBreaks DEF Piping, DownTraffic, Follows
  <2>2. CASE delivered = <<>>
    <3>1. delivered \o <<>> = <<>> /\ replied \in Nat
      BY <2>2, Wires
    <3> QED BY <3>1, NothingEmbeds
  <2> QED BY <2>1, <2>2 DEF Answering, Answered, Quiet
<1> QED BY <1>1, <1>2 DEF Closed, traffic, Over, Still, UpTraffic, DownTraffic, Follows

\* Both wires of a connection that is piped go on as they should.
LEMMA PipingStep ==
    ASSUME TypeOK, Next, Piping PROVE Piping' \/ Over'
<1> USE DEF Piping
<1>1. CASE Dial \/ Handshake
  BY <1>1 DEF Dial, Handshake, SendInfo, ReadResponse, Decode, Answer
<1>2. CASE Break
  BY <1>2, BreakEnds DEF Break
<1>3. CASE LosePacket
  <2>1. UpTraffic'
    BY <1>3, Wires, WireLoses DEF LosePacket, ends, traffic, UpTraffic, Follows
  <2>2. DownTraffic'
    BY <1>3, Wires, WireLoses DEF LosePacket, ends, traffic, DownTraffic, Follows
  <2> QED BY <1>3, <2>1, <2>2 DEF LosePacket, ends
<1>4. CASE UserSends
  <2>1. /\ Embeds(forwarded \o up, Payload, sent)
        /\ ~lost => Copies(forwarded \o up, Payload) /\ Len(forwarded \o up) = sent
    BY DEF UpTraffic, Follows
  <2>2. /\ Embeds(forwarded \o Append(up, Payload[sent + 1]), Payload, sent + 1)
        /\ ~lost => /\ Copies(forwarded \o Append(up, Payload[sent + 1]), Payload)
                    /\ Len(forwarded \o Append(up, Payload[sent + 1])) = sent + 1
    BY <1>4, <2>1, Wires, WireGrows DEF UserSends
  <2> QED BY <1>4, <2>2 DEF UserSends, ends, UpTraffic, DownTraffic, Follows
<1>5. CASE Forward
  <2>1. forwarded' \o up' = forwarded \o up
    BY <1>5, Wires, WireDelivers DEF Forward
  <2> QED BY <1>5, <2>1 DEF Forward, ends, UpTraffic, DownTraffic, Follows
<1>6. CASE UpstreamReplies
  <2>1. /\ Embeds(delivered \o down, Reply, replied)
        /\ ~lost => Copies(delivered \o down, Reply) /\ Len(delivered \o down) = replied
    BY DEF DownTraffic, Follows
  <2>2. /\ Embeds(delivered \o Append(down, Reply[replied + 1]), Reply, replied + 1)
        /\ ~lost => /\ Copies(delivered \o Append(down, Reply[replied + 1]), Reply)
                    /\ Len(delivered \o Append(down, Reply[replied + 1])) = replied + 1
    BY <1>6, <2>1, Wires, WireGrows DEF UpstreamReplies
  <2> QED BY <1>6, <2>2 DEF UpstreamReplies, ends, UpTraffic, DownTraffic, Follows
<1>7. CASE Deliver
  <2>1. delivered' \o down' = delivered \o down
    BY <1>7, Wires, WireDelivers DEF Deliver
  <2> QED BY <1>7, <2>1 DEF Deliver, ends, UpTraffic, DownTraffic, Follows
<1> QED BY <1>1, <1>2, <1>3, <1>4, <1>5, <1>6, <1>7 DEF Next

\* Nothing happens on a connection that is closed.
LEMMA OverStep == Over /\ Next => FALSE
BY DEF Over, Still, Next, Handshake, Dial, Break, LosePacket, SendInfo, ReadResponse,
       Decode, Answer, UserSends, Forward, UpstreamReplies, Deliver

\* A connection that neither end wraps is piped from the start.
LEMMA UndialedStep == TypeOK /\ Undialed /\ ~writes /\ ~reads /\ Next => Piping'
<1> SUFFICES ASSUME TypeOK, Undialed, ~writes, ~reads, Next PROVE Piping'
  OBVIOUS
<1>1. Dial
  BY DEF Undialed, Still, Next, Handshake, Break, LosePacket, SendInfo, ReadResponse,
         Decode, Answer, UserSends, Forward, UpstreamReplies, Deliver
<1>2. /\ client' = "piping" /\ server' = "piping"
      /\ up' = <<>> /\ down' = <<>> /\ forwarded' = <<>> /\ delivered' = <<>>
      /\ sent' = 0 /\ replied' = 0
  BY <1>1 DEF Dial, Undialed, Still, Quiet, traffic
<1>3. Follows(<<>> \o <<>>, Payload, 0)' /\ Follows(<<>> \o <<>>, Reply, 0)'
  BY NothingEmbeds, <<>> \o <<>> = <<>>, Len(<<>>) = 0 DEF Follows
<1> QED BY <1>2, <1>3 DEF Piping, UpTraffic, DownTraffic

\* From the info to the answer nothing is on its way.
LEMMA AnsweringStep ==
    ASSUME TypeOK, Next, Answering PROVE Answered' \/ Over'
<1>1. CASE Break
  BY <1>1, BreakEnds DEF Break
<1>2. CASE Answer
  <2>1. /\ client' = "waiting" /\ server' = "piping" /\ down' = OK
        /\ up' = <<>> /\ sent' = 0 /\ forwarded' = <<>> /\ delivered' = <<>> /\ replied' = 0
        /\ packets' = packets
    <3>1. <<>> \o OK = OK
      BY InUnits, ConcatEmptySeq
    <3> QED BY <1>2, <3>1 DEF Answer, Answering, Still, Quiet, setup, traffic
  <2>2. OK' = OK /\ OK = OK \o <<>>
    BY <2>1, InUnits, ConcatEmptySeq DEF OK
  <2>3. Follows(<<>>, Reply, 0)'
    BY NothingEmbeds, Len(<<>>) = 0 DEF Follows
  <2>4. <<>> \in Seq(Units)
    OBVIOUS
  <2>5. \E rest \in Seq(Units) : (down = OK \o rest /\ Follows(rest, Reply, replied))'
    BY <2>1, <2>2, <2>3, <2>4
  <2> QED BY <2>1, <2>5 DEF Answered
<1>3. CASE \/ Dial \/ LosePacket \/ SendInfo \/ UserSends \/ Forward \/ UpstreamReplies \/ Deliver
           \/ \E k \in 1..Len(up) : Decode(k)
           \/ \E k \in 1..Len(down) : ReadResponse(k)
  BY <1>3 DEF Answering, Still, Dial, LosePacket, SendInfo, UserSends, Forward,
              UpstreamReplies, Deliver, Decode, ReadResponse, ReadSizes
<1> QED BY <1>1, <1>2, <1>3 DEF Next, Handshake

\* What a client that waits reads first is its OK or no OK at all.
LEMMA ReadsOK ==
    ASSUME TypeOK, NEW rest \in Seq(Units), down = OK \o rest,
           NEW k \in 1..Len(down), Taken(down, k) = OK
    PROVE  Left(down, k) = rest
<1>1. OK \in Seq(Units) /\ down \in Seq(Units)
  BY InUnits, Wires
<1>2. Len(Taken(down, k)) = k
  BY <1>1, TakenAndLeft
<1>3. Len(OK) = k
  BY <1>2
<1>4. /\ Left(down, k) \in Seq(Units) /\ Len(Left(down, k)) = Len(down) - k
      /\ \A i \in 1..(Len(down) - k) : Left(down, k)[i] = down[k + i]
  BY <1>1, TakenAndLeft
<1>5. /\ Len(down) = Len(OK) + Len(rest) /\ Len(rest) \in Nat
      /\ \A i \in 1..Len(rest) : down[Len(OK) + i] = rest[i]
  BY <1>1, WirePlaces
<1>6. Len(Left(down, k)) = Len(rest)
  BY <1>3, <1>4, <1>5
<1>7. ASSUME NEW i \in 1..Len(rest) PROVE Left(down, k)[i] = rest[i]
  <2>1. Left(down, k)[i] = down[k + i]
    BY <1>4, <1>6
  <2>2. down[Len(OK) + i] = rest[i]
    BY <1>5
  <2> QED BY <1>3, <2>1, <2>2
<1> QED BY <1>4, <1>6, <1>7, SeqEqual

LEMMA ReadsNoOK ==
    ASSUME TypeOK, packets, Embeds(down, Reply, replied), NEW k \in ReadSizes(down, 2)
    PROVE  Taken(down, k) # OK
<1>1. k = 1 /\ k \in 1..Len(down) /\ down \in Seq(Units)
  BY Wires DEF ReadSizes
<1>2. PICK place \in [1..Len(down) -> 1..replied] :
         \A i \in 1..Len(down) : down[i] = Reply[place[i]]
  BY DEF Embeds
<1>3. place[1] \in 1..Len(Reply) /\ Reply \in Seq(Units)
  <2>1. 1 \in 1..Len(down)
    BY <1>1
  <2>2. place[1] \in 1..replied
    BY <1>2, <2>1
  <2>3. replied \in Nat /\ replied <= Len(Reply) /\ Len(Reply) \in Nat /\ Reply \in Seq(Units)
    BY Wires, InUnits
  <2> QED BY <2>2, <2>3
<1>4. down[1] \notin Signs
  BY <1>1, <1>2, <1>3, ClientContextAssumption DEF ClientContextAssumption
<1>5. Taken(down, k)[1] = down[1]
  BY <1>1, TakenAndLeft
<1>6. OK[1] \in Signs
  BY DEF OK, Signs
<1> QED BY <1>4, <1>5, <1>6

\* Until the client has its OK it sends nothing and delivers nothing.
LEMMA AnsweredStep ==
    ASSUME TypeOK, Next, Answered PROVE Answered' \/ Piping' \/ Over'
<1> DEFINE Behind(rest) == down = OK \o rest /\ Follows(rest, Reply, replied)
           Instead == packets /\ lost /\ Follows(down, Reply, replied)
<1>0. /\ client = "waiting" /\ server = "piping"
      /\ up = <<>> /\ sent = 0 /\ forwarded = <<>> /\ delivered = <<>>
      /\ (\E rest \in Seq(Units) : Behind(rest)) \/ Instead
  BY DEF Answered
<1>1. CASE Break
  BY <1>1, BreakEnds DEF Break
<1>2. CASE LosePacket
  <2>1. /\ UNCHANGED <<client, server, up, sent, forwarded, delivered, replied, packets>>
        /\ packets /\ lost' /\ down # <<>> /\ down' = Tail(down)
    BY <1>0, <1>2 DEF LosePacket, ends, traffic, setup
  <2>2. CASE Instead
    <3>1. Embeds(<<>> \o Tail(down), Reply, replied)
      <4>1. <<>> \o down = down
        BY Wires, ConcatEmptySeq
      <4>2. Embeds(<<>> \o down, Reply, replied)
        BY <2>2, <4>1 DEF Follows
      <4>3. <<>> \in Seq(Units)
        OBVIOUS
      <4> QED BY <2>1, <4>2, <4>3, Wires, WireLoses
    <3>2. <<>> \o Tail(down) = Tail(down)
      BY <2>1, Wires, ConcatEmptySeq, HeadTailProperties
    <3> QED BY <1>0, <2>1, <3>1, <3>2 DEF Answered, Follows
  <2>3. ASSUME NEW rest \in Seq(Units), Behind(rest) PROVE Answered'
    <3>1. OK = <<"OK">>
      BY <2>1 DEF OK
    <3>2. Tail(down) = rest
      BY <2>3, <3>1
    <3>3. Embeds(rest, Reply, replied)
      BY <2>3 DEF Follows
    <3> QED BY <1>0, <2>1, <3>2, <3>3 DEF Answered, Follows
  <2> QED BY <1>0, <2>2, <2>3
<1>3. ASSUME NEW k \in 1..Len(down), ReadResponse(k) PROVE Piping' \/ Over'
  <2>1. k \in ReadSizes(down, 2)
    BY <1>3 DEF ReadResponse
  <2>2. CASE Taken(down, k) # OK
    BY <1>3, <2>2, BreakEnds DEF ReadResponse
  <2>3. CASE Taken(down, k) = OK
    <3>1. /\ client' = "piping" /\ server' = "piping" /\ down' = Left(down, k)
          /\ UNCHANGED <<up, sent, forwarded, delivered, replied, lost>>
      BY <1>0, <1>3, <2>3 DEF ReadResponse, traffic
    <3>2. PICK rest \in Seq(Units) : Behind(rest)
      BY <1>0, <2>1, <2>3, ReadsNoOK DEF Follows
    <3>3. down' = rest
      BY <2>3, <3>1, <3>2, ReadsOK
    <3>4. <<>> \o rest = rest /\ <<>> \o <<>> = <<>>
      BY ConcatEmptySeq
    <3>5. DownTraffic'
      BY <1>0, <3>1, <3>2, <3>3, <3>4 DEF DownTraffic, Follows
    <3>6. UpTraffic'
      BY <1>0, <3>1, <3>4, NothingEmbeds, Len(<<>>) = 0 DEF UpTraffic, Follows
    <3> QED BY <3>1, <3>5, <3>6 DEF Piping
  <2> QED BY <2>2, <2>3
<1>4. CASE UpstreamReplies
  <2>1. /\ UNCHANGED <<client, server, up, sent, forwarded, delivered, packets, lost>>
        /\ replied < Len(Reply) /\ replied' = replied + 1
        /\ down' = Append(down, Reply[replied + 1])
    BY <1>4 DEF UpstreamReplies, ends, setup
  <2>a. PICK x : x = Reply[replied + 1]
    OBVIOUS
  <2>2. ASSUME NEW rest \in Seq(Units), Follows(rest, Reply, replied)
        PROVE  /\ Append(rest, x) \in Seq(Units)
               /\ Embeds(Append(rest, x), Reply, replied + 1)
               /\ ~lost => /\ Copies(Append(rest, x), Reply)
                           /\ Len(Append(rest, x)) = replied + 1
    BY <1>0, <2>1, <2>a, <2>2, Wires, AloneGrows DEF Follows
  <2>3. CASE Instead
    <3>1. Embeds(Append(down, x), Reply, replied + 1)
      BY <2>2, <2>3, Wires
    <3>2. Embeds(down, Reply, replied)'
      BY <2>1, <2>a, <3>1
    <3> QED BY <1>0, <2>1, <2>3, <3>2 DEF Answered, Follows
  <2>4. ASSUME NEW rest \in Seq(Units), Behind(rest) PROVE Answered'
    <3>1. x \in Units /\ OK \in Seq(Units)
      BY <2>1, <2>a, InUnits, Wires
    <3>2. /\ Append(OK \o rest, x) = (OK \o rest) \o <<x>>
          /\ Append(rest, x) = rest \o <<x>>
          /\ <<x>> \in Seq(Units) /\ OK \o rest \in Seq(Units)
      BY <3>1, AppendIsConcat, ConcatProperties
    <3>3. Append(OK \o rest, x) = OK \o Append(rest, x)
      BY <3>1, <3>2, ConcatAssociative
    <3>4. down' = OK' \o Append(rest, x)
      BY <2>1, <2>4, <2>a, <3>3 DEF OK
    <3>5. Append(rest, x) \in Seq(Units)
      BY <2>2, <2>4
    <3>6. Follows(Append(rest, x), Reply, replied)'
      BY <2>1, <2>2, <2>4 DEF Follows
    <3> QED BY <1>0, <2>1, <3>4, <3>5, <3>6 DEF Answered
  <2> QED BY <1>0, <2>3, <2>4
<1>5. CASE \/ Dial \/ SendInfo \/ Answer \/ UserSends \/ Forward \/ Deliver
           \/ \E k \in 1..Len(up) : Decode(k)
  BY <1>0, <1>5 DEF Dial, SendInfo, Answer, UserSends, Forward, Deliver, Decode
<1> QED BY <1>1, <1>2, <1>3, <1>4, <1>5 DEF Next, Handshake

\* When both ends use the tracker the server learns the info before anything else
\* is under way, and it is the last thing under way.
LEMMA DecodeEnds ==
    ASSUME TypeOK, IInv, Stages, writes, reads, NEW k \in 1..Len(up), Decode(k)
    PROVE  Quiet' /\ (info' => Answering')
<1>1. ~info /\ Waiting /\ Quiet /\ server = "reading"
  BY DEF Decode, IInv, Stages
<1>2. Quiet'
  BY <1>1 DEF Decode, Quiet
<1>3. client = "waiting" /\ Between /\ down = <<>>
  BY <1>1 DEF Waiting, Decode, ReadSizes
<1>4. ASSUME info' PROVE up' = <<>>
  BY <1>3, <1>4, Wires, DecodePart DEF Decode
<1> QED BY <1>1, <1>2, <1>3, <1>4 DEF Decode, Answering, Still

\* Each step takes a connection whose ends agree to the same stage or a later one.
THEOREM StagesKept == TypeOK /\ IInv /\ Stages /\ [Next]_vars => Stages'
<1> SUFFICES ASSUME TypeOK, IInv, Stages, [Next]_vars PROVE Stages'
  OBVIOUS
<1>1. CASE UNCHANGED vars
  BY <1>1 DEF vars, Stages, Quiet, Answering, Still, Answered, Piping, Over, Undialed,
              UpTraffic, DownTraffic, Follows, OK
<1>2. CASE Next
  <2>1. writes' = writes /\ reads' = reads
    BY <1>2 DEF Next, Handshake, Dial, Break, Closed, LosePacket, SendInfo, ReadResponse,
                Decode, Answer, UserSends, Forward, UpstreamReplies, Deliver
  <2>2. CASE ~writes /\ ~reads
    <3>1. Piping' \/ Over'
      BY <1>2, <2>2, PipingStep, OverStep, UndialedStep DEF Stages
    <3> QED BY <2>1, <2>2, <3>1 DEF Stages
  <2>3. CASE writes /\ reads /\ info
    <3>1. Answering' \/ Answered' \/ Piping' \/ Over'
      BY <1>2, <2>3, AnsweringStep, AnsweredStep, PipingStep, OverStep DEF Stages
    <3>2. info'
      <4>1. server # "reading"
        BY <2>3 DEF IInv
      <4> QED BY <1>2, <2>3, <4>1 DEF Next, Handshake, Dial, Break, Closed, LosePacket,
              SendInfo, ReadResponse, Decode, Answer, UserSends, Forward, UpstreamReplies,
              Deliver
    <3> QED BY <2>1, <2>3, <3>1, <3>2 DEF Stages
  <2>4. CASE writes /\ reads /\ ~info
    <3>1. Waiting /\ Quiet
      BY <2>4 DEF IInv, Stages
    <3>2. ASSUME NEW k \in 1..Len(up), Decode(k) PROVE Stages'
      BY <2>1, <2>4, <3>2, DecodeEnds DEF Stages
    <3>3. ASSUME NEW k \in 1..Len(down), ReadResponse(k) PROVE FALSE
      BY <3>1, <3>3 DEF Waiting, ReadResponse, ReadSizes
    <3>4. CASE Dial \/ Break \/ LosePacket \/ SendInfo
      BY <2>1, <2>4, <3>1, <3>4
         DEF Dial, Break, Closed, LosePacket, SendInfo, Stages, Quiet
    <3>5. CASE Answer \/ UserSends \/ Forward \/ UpstreamReplies \/ Deliver
      BY <3>1, <3>5 DEF Answer, UserSends, Forward, UpstreamReplies, Deliver, Waiting
    <3> QED BY <1>2, <3>2, <3>3, <3>4, <3>5 DEF Next, Handshake
  <2>5. CASE ~(writes /\ reads) /\ ~(~writes /\ ~reads)
    BY <2>1, <2>5 DEF Stages
  <2> QED BY <2>2, <2>3, <2>4, <2>5
<1> QED BY <1>1, <1>2

\* Before the client dials no unit has been sent.
THEOREM InitStages == Init => Stages
BY DEF Init, Stages, Undialed, Still, Quiet

\* What was got is what is left of what was sent.
LEMMA GotInOrder ==
    ASSUME NEW got \in Seq(Units), NEW t \in Seq(Units), NEW n \in Nat, n <= Len(t),
           Embeds(got, t, n)
    PROVE  InOrder(got, t) /\ (Copies(got, t) => IsPrefix(got, t))
<1>1. PICK place \in [1..Len(got) -> 1..n] :
         /\ \A i, j \in 1..Len(got) : i < j => place[i] < place[j]
         /\ \A i \in 1..Len(got) : got[i] = t[place[i]]
  BY DEF Embeds
<1>2. Len(got) \in Nat /\ Len(t) \in Nat /\ DOMAIN got = 1..Len(got) /\ DOMAIN t = 1..Len(t)
  OBVIOUS
<1>3. Len(got) <= Len(t)
  BY <1>2 DEF Embeds
<1>4. InOrder(got, t)
  <2>1. place \in [DOMAIN got -> DOMAIN t]
    BY <1>1, <1>2
  <2> QED BY <1>1, <1>2, <2>1 DEF InOrder
<1>5. ASSUME Copies(got, t) PROVE IsPrefix(got, t)
  <2>1. /\ SubSeq(t, 1, Len(got)) \in Seq(Units) /\ Len(SubSeq(t, 1, Len(got))) = Len(got)
        /\ \A i \in 1..Len(got) : SubSeq(t, 1, Len(got))[i] = t[i]
    BY <1>2, <1>3, SubSeqProperties
  <2>2. got = SubSeq(t, 1, Len(got))
    BY <1>5, <2>1, SeqEqual DEF Copies
  <2> QED BY <1>3, <2>2 DEF IsPrefix
<1> QED BY <1>4, <1>5

\* The same of what was got, with something still on the wire.
LEMMA WireInOrder ==
    ASSUME NEW got \in Seq(Units), NEW wire \in Seq(Units), NEW t \in Seq(Units),
           NEW n \in Nat, n <= Len(t), Follows(got \o wire, t, n)
    PROVE  InOrder(got, t) /\ (~lost => IsPrefix(got, t))
<1>1. Embeds(got \o <<>>, t, n) /\ (~lost => Copies(got \o <<>>, t))
  BY WireBreaks DEF Follows
<1>2. got \o <<>> = got
  BY ConcatEmptySeq
<1> QED BY <1>1, <1>2, GotInOrder

\* When both sides use the tracker, or neither does, upstream and user get what the
\* other sent and no more: neither the info nor the OK gets into the traffic, and
\* nothing of the traffic is read with them (tracker.go:183-191, 222-233).
THEOREM TrafficKept == Spec => []TrafficIntact
<1>1. TypeOK /\ Stages => TrafficIntact
  <2> SUFFICES ASSUME TypeOK, Stages, Agree PROVE /\ InOrder(forwarded, Payload)
                                                  /\ InOrder(delivered, Reply)
                                                  /\ ~lost => /\ IsPrefix(forwarded, Payload)
                                                              /\ IsPrefix(delivered, Reply)
    BY DEF TrafficIntact
  <2>1. CASE Piping \/ Over
    <3>1. UpTraffic /\ DownTraffic
      BY <2>1 DEF Piping, Over
    <3> QED BY <3>1, Wires, WireInOrder DEF UpTraffic, DownTraffic
  <2>2. CASE forwarded = <<>> /\ delivered = <<>>
    <3>1. Embeds(<<>>, Payload, 0) /\ Embeds(<<>>, Reply, 0)
      BY NothingEmbeds
    <3>2. Copies(<<>>, Payload) /\ Copies(<<>>, Reply) /\ 0 \in Nat
      BY NothingEmbeds
    <3>3. 0 <= Len(Payload) /\ 0 <= Len(Reply)
      BY InUnits
    <3> QED BY <2>2, <3>1, <3>2, <3>3, Wires, GotInOrder
  <2>3. \/ writes /\ reads /\ ~info
        \/ writes /\ reads /\ info
        \/ ~writes /\ ~reads
    BY Wires DEF Agree
  <2>4. Piping \/ Over \/ (forwarded = <<>> /\ delivered = <<>>)
    BY <2>3 DEF Stages, Quiet, Undialed, Answering, Answered
  <2> QED BY <2>1, <2>2, <2>4
<1> QED BY InitIInv, Inductive, InitTypes, TypesKept, InitStages, StagesKept, <1>1, PTL DEF Spec
=============================================================================
