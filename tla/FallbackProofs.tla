--------------------------- MODULE FallbackProofs ---------------------------
(***************************************************************************)
(* Proofs about Fallback, for any number of callers and destinations: each *)
(* WATER connection is told its own destination and announces it once and  *)
(* first, no side of the ALGeneva exchange reads too much, a dial returns  *)
(* only when the inbound has upgraded its connection, and what the counter *)
(* of connections counts.                                                  *)
(***************************************************************************)
EXTENDS Fallback, FiniteSetTheorems, TLAPS

-----------------------------------------------------------------------------
(* WATER *)

Places ==
    {"idle", "failed", "done", "water", "water.share", "water.new", "water.dial",
     "outline", "outline.create", "outline.dial",
     "algeneva", "alg.write", "alg.read", "alg.upgrade"}

Kinds == {"none", "water", "outline", "algeneva"}

\* Both sets are visible to every proof.
USE DEF Places, Kinds

Types ==
    /\ at \in [Callers -> Places]
    /\ conn \in [Callers -> [via : Kinds, told : SUBSET (Dests \union {Nobody})]]
    /\ config \in [Callers -> Dests \union {Nobody}]
    /\ want \in [Callers -> Dests]
    /\ remote \in Dests \union {Nobody}
    /\ primary \in {"water", "outline"}

\* The places between WaterLock and the end of the dial.
Inside == {"water.share", "water.new", "water.dial"}

\* The map and the configuration belong to the holder of dialMutex.
Mine(c) ==
    /\ at[c] \in Inside => dialMutex = c
    /\ at[c] = "water.new" /\ shared => remote = AddrPort(want[c])
    /\ at[c] = "water.dial" /\ shared => config[c] = AddrPort(want[c])
    /\ conn[c].via = "water" => conn[c].told \subseteq {want[c], AddrPort(want[c])}

WaterInv == Types /\ \A c \in Callers : Mine(c)

\* The state after Start satisfies the invariant.
THEOREM InitWater == Init => WaterInv
<1> SUFFICES ASSUME Init PROVE WaterInv
  OBVIOUS
<1>1. Types
  BY DEF Init, WaterInit, Types, NoConn
<1> QED BY <1>1 DEF Init, WaterInv, Mine, Inside, NoConn

\* A step that leaves the map and the mutex alone, and takes a caller anywhere
\* but behind the mutex, keeps the invariant.
LEMMA OutsideKeeps ==
    ASSUME WaterInv, NEW c \in Callers,
           UNCHANGED <<want, dialMutex, shared, remote, config, primary>>,
           at' = at \/ \E place \in Places \ Inside : at' = [at EXCEPT ![c] = place],
           conn' = conn \/ \E via \in Kinds \ {"water"}, host \in Dests \union {Nobody} :
              conn' = [conn EXCEPT ![c] = [via |-> via, told |-> {host}]]
    PROVE  WaterInv'
<1>1. Types'
  <2>1. at' \in [Callers -> Places]
    BY DEF WaterInv, Types
  <2>2. conn' \in [Callers -> [via : Kinds, told : SUBSET (Dests \union {Nobody})]]
    <3>1. CASE conn' = conn
      BY <3>1 DEF WaterInv, Types
    <3>2. ASSUME NEW via \in Kinds, NEW host \in Dests \union {Nobody},
                 conn' = [conn EXCEPT ![c] = [via |-> via, told |-> {host}]]
          PROVE  conn' \in [Callers -> [via : Kinds, told : SUBSET (Dests \union {Nobody})]]
      BY <3>2 DEF WaterInv, Types
    <3> QED BY <3>1, <3>2
  <2> QED BY <2>1, <2>2 DEF WaterInv, Types
<1>2. ASSUME NEW d \in Callers PROVE Mine(d)'
  <2>1. Mine(d)
    BY <1>2 DEF WaterInv
  <2>2. at'[d] = at[d] \/ at'[d] \notin Inside
    BY DEF WaterInv, Types
  <2>3. conn'[d] = conn[d] \/ conn'[d].via # "water"
    BY DEF WaterInv, Types
  <2> QED BY <2>1, <2>2, <2>3 DEF Mine, Inside, AddrPort
<1> QED BY <1>1, <1>2 DEF WaterInv

\* The steps of a dial through a WATER outbound keep it, because no two callers
\* hold dialMutex.
LEMMA WaterKeeps ==
    ASSUME WaterInv, NEW c \in Callers, WaterStep(c), UNCHANGED primary PROVE WaterInv'
<1>1. CASE WaterLock(c)
  <2>1. Types'
    BY <1>1 DEF WaterLock, GoTo, WaterInv, Types
  <2> QED
    BY <1>1, <2>1, DialingAssumption
    DEF WaterLock, GoTo, WaterInv, Types, Mine, Inside, AddrPort
<1>2. CASE WaterShare(c)
  <2>1. Types'
    BY <1>2 DEF WaterShare, GoTo, WaterInv, Types, AddrPort
  <2> QED
    BY <1>2, <2>1 DEF WaterShare, GoTo, WaterInv, Types, Mine, Inside, AddrPort
<1>3. CASE WaterNew(c)
  <2>1. Types'
    BY <1>3 DEF WaterNew, GoTo, Fail, WaterInv, Types
  <2> QED
    BY <1>3, <2>1 DEF WaterNew, GoTo, Fail, WaterInv, Types, Mine, Inside, AddrPort
<1>4. CASE WaterDial(c)
  <2>1. ASSUME Succeed(c, "water", (IF shared THEN {config[c]} ELSE {})
                               \union (IF skip THEN {} ELSE {want[c]}))
        PROVE  Types' /\ (conn'[c].via = "water" => conn'[c].told \subseteq {want[c], AddrPort(want[c])})
    BY <1>4, <2>1 DEF WaterDial, Succeed, WaterInv, Types, Mine, AddrPort
  <2>2. ASSUME Fail(c)
        PROVE  Types' /\ (conn'[c].via = "water" => conn'[c].told \subseteq {want[c], AddrPort(want[c])})
    BY <1>4, <2>2 DEF WaterDial, Fail, WaterInv, Types, Mine, AddrPort
  <2>3. Types' /\ (conn'[c].via = "water" => conn'[c].told \subseteq {want[c], AddrPort(want[c])})
    BY <1>4, <2>1, <2>2 DEF WaterDial
  <2>4. at'[c] \notin Inside /\ UNCHANGED <<want, remote, config, shared>>
    BY <1>4 DEF WaterDial, Succeed, Fail, Inside, WaterInv, Types
  <2>5. ASSUME NEW d \in Callers, d # c PROVE Mine(d)'
    <3>1. at'[d] = at[d] /\ conn'[d] = conn[d] /\ at[d] \notin Inside
      BY <1>4, <2>5 DEF WaterDial, Succeed, Fail, WaterInv, Types, Mine, Inside
    <3> QED BY <3>1, <2>4, <2>5 DEF WaterInv, Mine, Inside, AddrPort
  <2>6. Mine(c)'
    BY <2>3, <2>4 DEF Mine, Inside, AddrPort
  <2> QED BY <2>3, <2>5, <2>6 DEF WaterInv
<1> QED BY <1>1, <1>2, <1>3, <1>4 DEF WaterStep

\* Every step keeps the invariant.
THEOREM WaterInductive == WaterInv /\ [Next]_vars => WaterInv'
<1> SUFFICES ASSUME WaterInv, [Next]_vars PROVE WaterInv'
  OBVIOUS
<1>1. CASE UNCHANGED vars
  BY <1>1 DEF vars, dialing, water, WaterInv, Types, Mine, AddrPort
<1>2. ASSUME NEW c \in Callers, Dial(c) PROVE WaterInv'
  <2>1. \E place \in Places \ Inside : at' = [at EXCEPT ![c] = place]
    BY <1>2 DEF Dial, GoTo, Inside, WaterInv, Types
  <2> QED BY <1>2, <2>1, OutsideKeeps DEF Dial, GoTo, water
<1>3. ASSUME NEW c \in Callers, DialStep(c) PROVE WaterInv'
  <2>1. CASE Retry(c)
    <3>1. \E place \in Places \ Inside : at' = [at EXCEPT ![c] = place]
      BY <2>1 DEF Retry, Inside
    <3> QED BY <2>1, <3>1, OutsideKeeps DEF Retry, water
  <2>2. CASE WaterStep(c) /\ UNCHANGED primary
    BY <2>2, WaterKeeps
  <2>3. CASE OutlineStep(c) /\ UNCHANGED <<water, primary>>
    <3>1. /\ \E place \in Places \ Inside : at' = [at EXCEPT ![c] = place]
          /\ \/ conn' = conn
             \/ \E host \in {want[c], Nobody} :
                   conn' = [conn EXCEPT ![c] = [via |-> "outline", told |-> {host}]]
          /\ UNCHANGED want
      BY <2>3
      DEF OutlineStep, OutlineLock, OutlineCreate, OutlineDial, GoTo, Succeed, Fail, Inside
    <3>2. {want[c], Nobody} \subseteq Dests \union {Nobody}
      BY DEF WaterInv, Types
    <3> QED BY <2>3, <3>1, <3>2, OutsideKeeps DEF water
  <2>4. CASE AlgStep(c) /\ UNCHANGED <<water, primary>>
    <3>1. /\ \E place \in Places \ Inside : at' = [at EXCEPT ![c] = place]
          /\ conn' = conn \/ conn' = [conn EXCEPT ![c] = [via |-> "algeneva", told |-> {want[c]}]]
          /\ UNCHANGED want
      BY <2>4
      DEF AlgStep, AlgDial, AlgWrite, AlgRead, AlgUpgraded, AlgBreaks, GoTo, Succeed, Fail, Inside
    <3>2. want[c] \in Dests \union {Nobody}
      BY DEF WaterInv, Types
    <3> QED BY <2>4, <3>1, <3>2, OutsideKeeps DEF water
  <2> QED BY <1>3, <2>1, <2>2, <2>3, <2>4 DEF DialStep
<1>4. ASSUME NEW c \in Callers, InboundStep(c) /\ UNCHANGED <<dialing, water, primary>> PROVE WaterInv'
  BY <1>4, OutsideKeeps DEF dialing, water
<1>5. ASSUME NEW c \in Callers, NEW w \in Writers, WriteStep(c, w) /\ UNCHANGED <<dialing, primary>>
      PROVE  WaterInv'
  BY <1>5, OutsideKeeps
  DEF WriteStep, WriteLock, WriteAddress, WritePayload, dialing, dialer
<1>6. ASSUME NEW tag, Unregister(tag) PROVE WaterInv'
  BY <1>6 DEF Unregister, dialing, water, WaterInv, Types, Mine, AddrPort
<1> QED BY <1>1, <1>2, <1>3, <1>4, <1>5, <1>6 DEF Next

\* Each WATER connection is told the destination of the dial that made it,
\* however many dials share the map (water/outbound.go:125-142, 146-162).
THEOREM ToldItsOwn == Spec => []OwnDestination
<1>1. WaterInv => OwnDestination
  BY DEF WaterInv, Mine, OwnDestination
<1> QED BY <1>1, InitWater, WaterInductive, PTL DEF Spec

-----------------------------------------------------------------------------
(* ALGeneva *)

AlgPlaces == {"algeneva", "alg.write", "alg.read", "alg.upgrade"}

AlgTypes ==
    /\ at \in [Callers -> Places]
    /\ leg \in [Callers -> {"primary", "fallback"}]
    /\ conn \in [Callers -> [via : Kinds, told : SUBSET (Dests \union {Nobody})]]
    /\ inbound \in [Callers -> {"none", "dialed", "request", "upgrade", "serving", "rejected",
                                "closed", "gone"}]
    /\ up \in [Callers -> Seq({"connect", "unreadable", "upgrade"})]
    /\ down \in [Callers -> Seq({"ok", "switched"})]
    /\ want \in [Callers -> Dests]
    /\ primary \in {"water", "outline"}

\* How far the two sides of an exchange may be apart.
Exchange(c) ==
    /\ at[c] \in Places \ (AlgPlaces \union {"done"}) => leg[c] = "primary"
    /\ at[c] \in Places \ ((AlgPlaces \ {"algeneva"}) \union {"done"}) => inbound[c] = "none"
    /\ at[c] \in AlgPlaces => leg[c] = "fallback"
    /\ at[c] # "done" => conn[c].via = "none"
    /\ inbound[c] = "none" \/ at[c] = "alg.write" => up[c] = <<>>
    /\ inbound[c] \in {"none", "dialed", "request"} =>
         down[c] = <<>> /\ at[c] # "alg.upgrade" /\ Len(up[c]) <= 1
    /\ at[c] = "alg.read" /\ inbound[c] \notin {"none", "dialed", "request"} => up[c] = <<>>
    /\ at[c] = "alg.write" => inbound[c] \in {"dialed", "request"}
    /\ inbound[c] = "upgrade" => Len(up[c]) <= 1 /\ Len(down[c]) <= 1
    /\ at[c] = "alg.upgrade" /\ down[c] # <<>> => inbound[c] \in {"serving", "closed"}
    /\ conn[c].via = "algeneva" => inbound[c] \in {"serving", "closed"}

AlgInv == AlgTypes /\ \A c \in Callers : Exchange(c)

\* The state after Start satisfies the invariant.
THEOREM InitAlg == Init => AlgInv
<1> SUFFICES ASSUME Init PROVE AlgInv
  OBVIOUS
<1>1. AlgTypes
  BY DEF Init, AlgInit, AlgTypes, NoConn
<1>2. ASSUME NEW c \in Callers PROVE Exchange(c)
  BY DEF Init, AlgInit, Exchange, AlgPlaces, NoConn
<1> QED BY <1>1, <1>2 DEF AlgInv

\* A dial of the primary changes nothing of an exchange.
LEMMA PrimaryKeeps ==
    ASSUME AlgInv, NEW c \in Callers, UNCHANGED <<leg, want, algeneva, primary>>,
           at[c] \in Places \ (AlgPlaces \union {"done"}),
           \/ /\ conn' = conn
              /\ \E place \in Places \ AlgPlaces : at' = [at EXCEPT ![c] = place]
           \/ /\ at' = [at EXCEPT ![c] = "done"]
              /\ \E via \in {"water", "outline"}, told \in SUBSET (Dests \union {Nobody}) :
                    conn' = [conn EXCEPT ![c] = [via |-> via, told |-> told]]
    PROVE  AlgInv'
<1>1. AlgTypes'
  <2>1. at' \in [Callers -> Places]
    BY DEF AlgInv, AlgTypes
  <2>2. conn' \in [Callers -> [via : Kinds, told : SUBSET (Dests \union {Nobody})]]
    <3>1. CASE conn' = conn
      BY <3>1 DEF AlgInv, AlgTypes
    <3>2. ASSUME NEW via \in {"water", "outline"}, NEW told \in SUBSET (Dests \union {Nobody}),
                 conn' = [conn EXCEPT ![c] = [via |-> via, told |-> told]]
          PROVE  conn' \in [Callers -> [via : Kinds, told : SUBSET (Dests \union {Nobody})]]
      BY <3>2 DEF AlgInv, AlgTypes
    <3> QED BY <3>1, <3>2
  <2> QED BY <2>1, <2>2 DEF AlgInv, AlgTypes, algeneva
<1>2. ASSUME NEW d \in Callers PROVE Exchange(d)'
  <2>1. Exchange(d)
    BY DEF AlgInv
  <2>2. CASE d = c
    <3>1. leg[c] = "primary" /\ inbound[c] = "none" /\ up[c] = <<>> /\ down[c] = <<>>
      BY <2>1, <2>2 DEF Exchange, AlgPlaces, AlgInv, AlgTypes
    <3>2. at'[c] \in Places \ AlgPlaces /\ (at'[c] # "done" => conn'[c].via = "none")
      BY <2>1, <2>2 DEF Exchange, AlgPlaces, AlgInv, AlgTypes
    <3>3. conn'[c].via # "algeneva"
      BY <2>1, <2>2 DEF Exchange, AlgPlaces, AlgInv, AlgTypes
    <3> QED BY <2>2, <3>1, <3>2, <3>3 DEF Exchange, AlgPlaces, algeneva
  <2>3. CASE d # c
    <3>1. at'[d] = at[d] /\ conn'[d] = conn[d]
      BY <2>3 DEF AlgInv, AlgTypes
    <3> QED BY <2>1, <3>1 DEF Exchange, algeneva
  <2> QED BY <2>2, <2>3
<1> QED BY <1>1, <1>2 DEF AlgInv

\* What a step of one caller leaves alone in the exchange of another.
Alike(d) ==
    /\ at'[d] = at[d] /\ leg'[d] = leg[d] /\ conn'[d] = conn[d]
    /\ inbound'[d] = inbound[d] /\ up'[d] = up[d] /\ down'[d] = down[d]

\* An exchange is a matter of its own caller.
LEMMA AlikeKeeps == ASSUME NEW d \in Callers, Exchange(d), Alike(d) PROVE Exchange(d)'
BY DEF Alike, Exchange

\* The steps of the outbound keep the exchange.
LEMMA AlgKeeps ==
    ASSUME AlgInv, NEW c \in Callers, AlgStep(c), UNCHANGED primary PROVE AlgInv'
<1>1. CASE AlgDial(c)
  <2>1. AlgTypes'
    BY <1>1 DEF AlgDial, GoTo, Fail, Inbound, AlgInv, AlgTypes
  <2>2. Exchange(c)'
    BY <1>1 DEF AlgDial, GoTo, Fail, Inbound, AlgInv, AlgTypes, Exchange, AlgPlaces
  <2>3. ASSUME NEW d \in Callers, d # c PROVE Alike(d)
    BY <1>1, <2>3 DEF AlgDial, GoTo, Fail, Inbound, AlgInv, AlgTypes, Alike
  <2> QED BY <2>1, <2>2, <2>3, AlikeKeeps DEF AlgInv
<1>2. CASE AlgWrite(c)
  <2>1. AlgTypes'
    <3>1. ASSUME NEW request \in {"connect", "unreadable"}
          PROVE  Put(up, c, request) \in [Callers -> Seq({"connect", "unreadable", "upgrade"})]
      BY DEF Put, AlgInv, AlgTypes
    <3>2. up' \in [Callers -> Seq({"connect", "unreadable", "upgrade"})]
      BY <1>2, <3>1 DEF AlgWrite, AlgInv, AlgTypes
    <3> QED BY <1>2, <3>2 DEF AlgWrite, GoTo, Fail, AlgInv, AlgTypes
  <2>2. Exchange(c)'
    BY <1>2 DEF AlgWrite, GoTo, Fail, Put, AlgInv, AlgTypes, Exchange, AlgPlaces
  <2>3. ASSUME NEW d \in Callers, d # c PROVE Alike(d)
    BY <1>2, <2>3 DEF AlgWrite, GoTo, Fail, Put, AlgInv, AlgTypes, Alike
  <2> QED BY <2>1, <2>2, <2>3, AlikeKeeps DEF AlgInv
<1>3. CASE AlgRead(c)
  <2>1. AlgTypes'
    BY <1>3 DEF AlgRead, GoTo, Drain, Put, AlgInv, AlgTypes
  <2>2. Exchange(c)'
    BY <1>3 DEF AlgRead, GoTo, Drain, Put, AlgInv, AlgTypes, Exchange, AlgPlaces
  <2>3. ASSUME NEW d \in Callers, d # c PROVE Alike(d)
    BY <1>3, <2>3 DEF AlgRead, GoTo, Drain, Put, AlgInv, AlgTypes, Alike
  <2> QED BY <2>1, <2>2, <2>3, AlikeKeeps DEF AlgInv
<1>4. CASE AlgUpgraded(c)
  <2>1. AlgTypes'
    <3>1. down' \in [Callers -> Seq({"ok", "switched"})]
      BY <1>4 DEF AlgUpgraded, Drain, AlgInv, AlgTypes
    <3>2. CASE Succeed(c, "algeneva", {want[c]})
      BY <1>4, <3>1, <3>2 DEF AlgUpgraded, Succeed, AlgInv, AlgTypes
    <3>3. CASE Fail(c)
      BY <1>4, <3>1, <3>3 DEF AlgUpgraded, Fail, AlgInv, AlgTypes
    <3> QED BY <1>4, <3>2, <3>3 DEF AlgUpgraded
  <2>2. Exchange(c)'
    BY <1>4 DEF AlgUpgraded, Succeed, Fail, Drain, AlgInv, AlgTypes, Exchange, AlgPlaces
  <2>3. ASSUME NEW d \in Callers, d # c PROVE Alike(d)
    BY <1>4, <2>3 DEF AlgUpgraded, Succeed, Fail, Drain, AlgInv, AlgTypes, Alike
  <2> QED BY <2>1, <2>2, <2>3, AlikeKeeps DEF AlgInv
<1>5. CASE AlgBreaks(c)
  <2>1. AlgTypes'
    BY <1>5 DEF AlgBreaks, Fail, algeneva, AlgInv, AlgTypes
  <2>2. Exchange(c)'
    BY <1>5 DEF AlgBreaks, Fail, algeneva, AlgInv, AlgTypes, Exchange, AlgPlaces
  <2>3. ASSUME NEW d \in Callers, d # c PROVE Alike(d)
    BY <1>5, <2>3 DEF AlgBreaks, Fail, algeneva, AlgInv, AlgTypes, Alike
  <2> QED BY <2>1, <2>2, <2>3, AlikeKeeps DEF AlgInv
<1> QED BY <1>1, <1>2, <1>3, <1>4, <1>5 DEF AlgStep

\* The steps of the inbound keep the exchange.
LEMMA InboundKeeps ==
    ASSUME AlgInv, NEW c \in Callers, InboundStep(c), UNCHANGED <<dialing, primary>>
    PROVE  AlgInv'
<1> USE DEF dialing
<1>1. CASE InboundAccept(c)
  <2>1. AlgTypes'
    BY <1>1 DEF InboundAccept, Inbound, AlgInv, AlgTypes
  <2>2. Exchange(c)'
    BY <1>1 DEF InboundAccept, Inbound, AlgInv, AlgTypes, Exchange, AlgPlaces
  <2>3. ASSUME NEW d \in Callers, d # c PROVE Alike(d)
    BY <1>1, <2>3 DEF InboundAccept, Inbound, AlgInv, AlgTypes, Alike
  <2> QED BY <2>1, <2>2, <2>3, AlikeKeeps DEF AlgInv
<1>2. CASE InboundRead(c)
  <2>1. AlgTypes'
    <3>1. Put(down, c, "ok") \in [Callers -> Seq({"ok", "switched"})]
      BY DEF Put, AlgInv, AlgTypes
    <3>2. Drain(up, c) \in [Callers -> Seq({"connect", "unreadable", "upgrade"})]
      BY DEF Drain, AlgInv, AlgTypes
    <3>3. down' \in [Callers -> Seq({"ok", "switched"})]
      BY <1>2, <3>1 DEF InboundRead, AlgInv, AlgTypes
    <3> QED BY <1>2, <3>2, <3>3 DEF InboundRead, Inbound, AlgInv, AlgTypes
  <2>2. Exchange(c)'
    <3>1. up'[c] = <<>> /\ inbound[c] \in {"request", "upgrade"} /\ at[c] # "alg.write"
      BY <1>2 DEF InboundRead, Drain, AlgInv, AlgTypes, Exchange
    <3>2. CASE inbound'[c] = "upgrade" /\ down'[c] = Append(down[c], "ok")
      <4>1. inbound[c] = "request" /\ down[c] = <<>> /\ UNCHANGED dialing /\ at[c] # "alg.upgrade"
        BY <1>2 DEF InboundRead, AlgInv, Exchange
      <4>2. Len(down'[c]) = 1
        BY <3>2, <4>1
      <4>3. conn[c].via # "algeneva"
        BY <4>1 DEF AlgInv, Exchange
      <4>4. at[c] \in {"alg.read", "done"} \/ inbound[c] # "request"
        BY <1>2, <3>1 DEF AlgInv, AlgTypes, Exchange, AlgPlaces
      <4>5. at' = at /\ leg' = leg /\ conn' = conn /\ Exchange(c)
        BY <4>1 DEF AlgInv
      <4> QED BY <3>1, <3>2, <4>1, <4>2, <4>3, <4>4, <4>5 DEF Exchange, AlgPlaces
    <3>3. CASE inbound'[c] = "rejected" /\ down'[c] = down[c]
      BY <1>2, <3>1, <3>3 DEF InboundRead, AlgInv, AlgTypes, Exchange, AlgPlaces
    <3> QED BY <1>2, <3>2, <3>3 DEF InboundRead, Inbound, Put, AlgInv, AlgTypes
  <2>3. ASSUME NEW d \in Callers, d # c PROVE Alike(d)
    BY <1>2, <2>3 DEF InboundRead, Inbound, Drain, Put, AlgInv, AlgTypes, Alike
  <2> QED BY <2>1, <2>2, <2>3, AlikeKeeps DEF AlgInv
<1>3. CASE InboundUpgrade(c)
  <2>1. AlgTypes'
    <3>1. Put(down, c, "switched") \in [Callers -> Seq({"ok", "switched"})]
      BY DEF Put, AlgInv, AlgTypes
    <3>2. Drain(up, c) \in [Callers -> Seq({"connect", "unreadable", "upgrade"})]
      BY DEF Drain, AlgInv, AlgTypes
    <3>3. down' \in [Callers -> Seq({"ok", "switched"})]
      BY <1>3, <3>1 DEF InboundUpgrade, AlgInv, AlgTypes
    <3> QED BY <1>3, <3>2, <3>3 DEF InboundUpgrade, Inbound, AlgInv, AlgTypes
  <2>2. Exchange(c)'
    <3>1. up'[c] = <<>> /\ inbound[c] \in {"request", "upgrade"} /\ at[c] # "alg.write"
      BY <1>3 DEF InboundUpgrade, Drain, AlgInv, AlgTypes, Exchange
    <3>2. CASE inbound'[c] = "serving" /\ down'[c] = Append(down[c], "switched")
      BY <1>3, <3>1, <3>2 DEF InboundUpgrade, AlgInv, AlgTypes, Exchange, AlgPlaces
    <3>3. CASE inbound'[c] = "rejected" /\ down'[c] = down[c]
      BY <1>3, <3>1, <3>3 DEF InboundUpgrade, AlgInv, AlgTypes, Exchange, AlgPlaces
    <3> QED BY <1>3, <3>2, <3>3 DEF InboundUpgrade, Inbound, Put, AlgInv, AlgTypes
  <2>3. ASSUME NEW d \in Callers, d # c PROVE Alike(d)
    BY <1>3, <2>3 DEF InboundUpgrade, Inbound, Drain, Put, AlgInv, AlgTypes, Alike
  <2> QED BY <2>1, <2>2, <2>3, AlikeKeeps DEF AlgInv
<1>4. CASE InboundClose(c)
  <2>1. AlgTypes'
    BY <1>4 DEF InboundClose, Inbound, AlgInv, AlgTypes
  <2>2. Exchange(c)'
    BY <1>4 DEF InboundClose, Inbound, AlgInv, AlgTypes, Exchange, AlgPlaces
  <2>3. ASSUME NEW d \in Callers, d # c PROVE Alike(d)
    BY <1>4, <2>3 DEF InboundClose, Inbound, AlgInv, AlgTypes, Alike
  <2> QED BY <2>1, <2>2, <2>3, AlikeKeeps DEF AlgInv
<1>5. CASE InboundVanishes(c)
  <2>1. AlgTypes'
    BY <1>5 DEF InboundVanishes, Inbound, AlgInv, AlgTypes
  <2>2. Exchange(c)'
    BY <1>5 DEF InboundVanishes, Inbound, AlgInv, AlgTypes, Exchange, AlgPlaces
  <2>3. ASSUME NEW d \in Callers, d # c PROVE Alike(d)
    BY <1>5, <2>3 DEF InboundVanishes, Inbound, AlgInv, AlgTypes, Alike
  <2> QED BY <2>1, <2>2, <2>3, AlikeKeeps DEF AlgInv
<1> QED BY <1>1, <1>2, <1>3, <1>4, <1>5 DEF InboundStep

\* Every step keeps the exchange.
THEOREM AlgInductive == WaterInv /\ AlgInv /\ [Next]_vars => AlgInv'
<1> SUFFICES ASSUME WaterInv, AlgInv, [Next]_vars PROVE AlgInv'
  OBVIOUS
<1>1. CASE UNCHANGED vars
  BY <1>1 DEF vars, dialing, algeneva, AlgInv, AlgTypes, Exchange
<1>2. ASSUME NEW c \in Callers, Dial(c) PROVE AlgInv'
  <2>1. \E place \in Places \ AlgPlaces : at' = [at EXCEPT ![c] = place]
    BY <1>2 DEF Dial, GoTo, AlgPlaces, AlgInv, AlgTypes
  <2> QED BY <1>2, <2>1, PrimaryKeeps DEF Dial, GoTo, AlgPlaces
<1>3. ASSUME NEW c \in Callers, DialStep(c) PROVE AlgInv'
  <2>1. CASE Retry(c)
    <3>1. AlgTypes'
      BY <2>1 DEF Retry, algeneva, AlgInv, AlgTypes
    <3>2. Exchange(c)'
      BY <2>1 DEF Retry, algeneva, AlgInv, AlgTypes, Exchange, AlgPlaces
    <3>3. ASSUME NEW d \in Callers, d # c PROVE Alike(d)
      BY <2>1, <3>3 DEF Retry, algeneva, AlgInv, AlgTypes, Alike
    <3> QED BY <3>1, <3>2, <3>3, AlikeKeeps DEF AlgInv
  <2>2. CASE WaterStep(c) /\ UNCHANGED <<algeneva, primary>>
    <3>1. at[c] \in Places \ (AlgPlaces \union {"done"}) /\ UNCHANGED <<leg, want>>
      BY <2>2
      DEF WaterStep, WaterLock, WaterShare, WaterNew, WaterDial, GoTo, Fail, Succeed, AlgPlaces
    <3>2. CASE WaterLock(c) \/ WaterShare(c) \/ WaterNew(c)
      <4>1. conn' = conn /\ \E place \in Places \ AlgPlaces : at' = [at EXCEPT ![c] = place]
        BY <3>2 DEF WaterLock, WaterShare, WaterNew, GoTo, Fail, AlgPlaces
      <4> QED BY <2>2, <3>1, <4>1, PrimaryKeeps
    <3>3. CASE WaterDial(c)
      <4> DEFINE told == (IF shared THEN {config[c]} ELSE {}) \union (IF skip THEN {} ELSE {want[c]})
      <4>1. told \in SUBSET (Dests \union {Nobody})
        BY DEF WaterInv, Types
      <4>2. CASE Succeed(c, "water", told)
        <5> HIDE DEF told
        <5>1. /\ at' = [at EXCEPT ![c] = "done"]
              /\ conn' = [conn EXCEPT ![c] = [via |-> "water", told |-> told]]
          BY <4>2 DEF Succeed
        <5> QED BY <2>2, <3>1, <4>1, <5>1, PrimaryKeeps
      <4>3. CASE Fail(c)
        <5>1. leg[c] = "primary"
          BY <3>1 DEF AlgInv, Exchange
        <5>2. conn' = conn /\ at' = [at EXCEPT ![c] = "failed"]
          BY <4>3, <5>1 DEF Fail
        <5>3. "failed" \in Places \ AlgPlaces
          BY DEF AlgPlaces
        <5> QED BY <2>2, <3>1, <5>2, <5>3, PrimaryKeeps
      <4> QED BY <3>3, <4>2, <4>3 DEF WaterDial
    <3> QED BY <2>2, <3>2, <3>3 DEF WaterStep
  <2>3. CASE OutlineStep(c) /\ UNCHANGED <<algeneva, primary>>
    <3>1. at[c] \in Places \ (AlgPlaces \union {"done"}) /\ UNCHANGED <<leg, want>>
      BY <2>3
      DEF OutlineStep, OutlineLock, OutlineCreate, OutlineDial, GoTo, Fail, Succeed, AlgPlaces
    <3>2. CASE conn' = conn
      <4>1. \E place \in Places \ AlgPlaces : at' = [at EXCEPT ![c] = place]
        BY <2>3
        DEF OutlineStep, OutlineLock, OutlineCreate, OutlineDial, GoTo, Fail, Succeed, AlgPlaces
      <4> QED BY <2>3, <3>1, <3>2, <4>1, PrimaryKeeps
    <3>3. ASSUME NEW host \in {want[c], Nobody}, Succeed(c, "outline", {host}) PROVE AlgInv'
      <4>1. {host} \in SUBSET (Dests \union {Nobody})
        BY DEF AlgInv, AlgTypes
      <4> QED BY <2>3, <3>1, <3>3, <4>1, PrimaryKeeps DEF Succeed
    <3>4. conn' = conn \/ \E host \in {want[c], Nobody} : Succeed(c, "outline", {host})
      BY <2>3 DEF OutlineStep, OutlineLock, OutlineCreate, OutlineDial, GoTo, Fail
    <3> QED BY <3>2, <3>3, <3>4
  <2>4. CASE AlgStep(c) /\ UNCHANGED primary
    BY <2>4, AlgKeeps
  <2> QED BY <1>3, <2>1, <2>2, <2>3, <2>4 DEF DialStep
<1>4. ASSUME NEW c \in Callers, InboundStep(c) /\ UNCHANGED <<dialing, primary>> PROVE AlgInv'
  BY <1>4, InboundKeeps
<1>5. ASSUME UNCHANGED <<dialing, algeneva, primary>> PROVE AlgInv'
  BY <1>5 DEF dialing, algeneva, AlgInv, AlgTypes, Exchange
<1>6. ASSUME NEW tag, Unregister(tag) PROVE AlgInv'
  BY <1>5, <1>6 DEF Unregister
<1> QED BY <1>1, <1>2, <1>3, <1>4, <1>5, <1>6 DEF Next

\* Neither side reads more than the message it waits for, so nothing is lost
\* with the buffers that are thrown away (algeneva/outbound.go:138, 148).
THEOREM ReadsOneMessage == Spec => []NothingOverread
<1>1. AlgInv => NothingOverread
  BY DEF AlgInv, Exchange, NothingOverread
<1> QED BY <1>1, InitWater, WaterInductive, InitAlg, AlgInductive, PTL DEF Spec

\* A dial returns a connection through ALGeneva only when the inbound serves
\* it (algeneva/outbound.go:134-152).
THEOREM UpgradedOnBothSides == Spec => []BothEstablished
<1>1. AlgInv => BothEstablished
  BY DEF AlgInv, Exchange, BothEstablished
<1> QED BY <1>1, InitWater, WaterInductive, InitAlg, AlgInductive, PTL DEF Spec

-----------------------------------------------------------------------------
(* The address in front of the payload of a WATER connection *)

Pieces == {"address", "part", "payload"}
WriterPlaces == {"idle", "address", "payload"}

StreamTypes ==
    /\ skip \in BOOLEAN
    /\ handshake \in [Callers -> BOOLEAN]
    /\ stream \in [Callers -> Seq(Pieces)]
    /\ writer \in [Callers -> [Writers -> WriterPlaces]]

\* WATERConn.mu lets one writer in, and what that one is about to write is
\* decided by handshake, which nobody else changes meanwhile.
OneWriter(c) ==
    /\ \A v, w \in Writers : writer[c][v] # "idle" /\ writer[c][w] # "idle" => v = w
    /\ \A w \in Writers : /\ writer[c][w] = "payload" => handshake[c]
                          /\ writer[c][w] = "address" => ~handshake[c]

\* handshake says whether the stream has the address; until then it has parts of
\* it only.
AddressAt(s, k) ==
    /\ s[k] = "address"
    /\ \A i \in DOMAIN s : /\ s[i] = "address" => i = k
                           /\ s[i] = "payload" => k < i

Announced(c) ==
    IF handshake[c] THEN \E k \in DOMAIN stream[c] : AddressAt(stream[c], k)
    ELSE \A i \in DOMAIN stream[c] : stream[c][i] = "part"

StreamInv == StreamTypes /\ \A c \in Callers : OneWriter(c) /\ (~skip => Announced(c))

\* A connection is made with nothing written.
THEOREM InitStream == Init => StreamInv
BY DEF Init, WaterInit, StreamInv, StreamTypes, OneWriter, Announced, WriterPlaces

\* What a piece more makes of a stream: the parts stay parts, the first address
\* is the only one, and a payload comes behind it.
LEMMA OnePieceMore ==
    ASSUME NEW s \in Seq(Pieces), NEW piece \in Pieces
    PROVE  LET t == Append(s, piece) IN
           /\ t \in Seq(Pieces) /\ Len(t) = Len(s) + 1
           /\ DOMAIN s = 1..Len(s) /\ DOMAIN t = 1..Len(t) /\ Len(s) \in Nat
           /\ t[Len(t)] = piece /\ \A i \in DOMAIN s : t[i] = s[i]
OBVIOUS

LEMMA PartMore ==
    ASSUME NEW s \in Seq(Pieces), \A i \in DOMAIN s : s[i] = "part"
    PROVE  \A i \in DOMAIN Append(s, "part") : Append(s, "part")[i] = "part"
BY OnePieceMore DEF Pieces

LEMMA AddressComes ==
    ASSUME NEW s \in Seq(Pieces), \A i \in DOMAIN s : s[i] = "part"
    PROVE  \E k \in DOMAIN Append(s, "address") : AddressAt(Append(s, "address"), k)
<1>1. Len(s) + 1 \in DOMAIN Append(s, "address")
  BY OnePieceMore DEF Pieces
<1>2. AddressAt(Append(s, "address"), Len(s) + 1)
  BY OnePieceMore DEF Pieces, AddressAt
<1> QED BY <1>1, <1>2

LEMMA PayloadMore ==
    ASSUME NEW s \in Seq(Pieces), NEW k \in DOMAIN s, AddressAt(s, k)
    PROVE  \E n \in DOMAIN Append(s, "payload") : AddressAt(Append(s, "payload"), n)
<1>1. k \in DOMAIN Append(s, "payload")
  BY OnePieceMore DEF Pieces
<1>2. AddressAt(Append(s, "payload"), k)
  BY OnePieceMore DEF Pieces, AddressAt
<1> QED BY <1>1, <1>2

\* A step that leaves the connections' streams and writers alone keeps it.
LEMMA StreamElsewhere ==
    StreamInv /\ UNCHANGED <<skip, writing>> => StreamInv'
BY DEF writing, StreamInv, StreamTypes, OneWriter, Announced

\* A write touches one connection, through the one writer that is in it.
LEMMA WriteKeeps ==
    ASSUME StreamInv, NEW c \in Callers, NEW w \in Writers, WriteStep(c, w)
    PROVE  StreamInv'
<1>1. CASE WriteLock(c, w)
  <2>1. StreamTypes'
    BY <1>1 DEF WriteLock, MoveWriter, StreamInv, StreamTypes, WriterPlaces
  <2>2. ASSUME NEW d \in Callers PROVE OneWriter(d)'
    BY <1>1 DEF WriteLock, MoveWriter, StreamInv, StreamTypes, OneWriter, WriterPlaces
  <2>3. ASSUME NEW d \in Callers, ~skip' PROVE Announced(d)'
    BY <1>1, <2>3 DEF WriteLock, StreamInv, Announced
  <2> QED BY <2>1, <2>2, <2>3 DEF StreamInv
<1>2. CASE WriteAddress(c, w)
  <2>1. /\ ~handshake[c] /\ stream[c] \in Seq(Pieces) /\ skip' = skip
        /\ \A v \in Writers : v # w => writer[c][v] = "idle"
    BY <1>2 DEF WriteAddress, StreamInv, StreamTypes, OneWriter
  <2>2. CASE /\ Send(c, "address")
             /\ handshake' = [handshake EXCEPT ![c] = TRUE]
             /\ MoveWriter(c, w, "payload")
    <3>1. StreamTypes'
      BY <2>1, <2>2, OnePieceMore
      DEF Send, MoveWriter, StreamInv, StreamTypes, Pieces, WriterPlaces
    <3>2. ASSUME NEW d \in Callers PROVE OneWriter(d)'
      BY <2>1, <2>2 DEF MoveWriter, StreamInv, StreamTypes, OneWriter
    <3>3. ASSUME ~skip PROVE Announced(c)'
      <4>1. handshake'[c] /\ stream'[c] = Append(stream[c], "address")
        BY <2>2 DEF Send, StreamInv, StreamTypes
      <4>2. \A i \in DOMAIN stream[c] : stream[c][i] = "part"
        BY <2>1, <3>3 DEF StreamInv, Announced
      <4> QED BY <2>1, <4>1, <4>2, AddressComes DEF Announced
    <3>4. ASSUME NEW d \in Callers, d # c, ~skip PROVE Announced(d)'
      <4>1. handshake'[d] = handshake[d] /\ stream'[d] = stream[d] /\ Announced(d)
        BY <2>2, <3>4 DEF Send, StreamInv, StreamTypes
      <4> QED BY <4>1 DEF Announced
    <3> QED BY <2>1, <3>1, <3>2, <3>3, <3>4 DEF StreamInv
  <2>3. CASE /\ Send(c, "part") \/ UNCHANGED stream
             /\ UNCHANGED handshake
             /\ MoveWriter(c, w, "idle")
    <3>1. StreamTypes'
      <4>1. stream' \in [Callers -> Seq(Pieces)]
        <5>1. Append(stream[c], "part") \in Seq(Pieces)
          BY <2>1, OnePieceMore DEF Pieces
        <5> QED BY <2>3, <5>1 DEF Send, StreamInv, StreamTypes
      <4>2. writer' \in [Callers -> [Writers -> WriterPlaces]]
        BY <2>3 DEF MoveWriter, StreamInv, StreamTypes, WriterPlaces
      <4> QED BY <2>1, <2>3, <4>1, <4>2 DEF StreamInv, StreamTypes
    <3>2. ASSUME NEW d \in Callers PROVE OneWriter(d)'
      BY <2>1, <2>3 DEF MoveWriter, StreamInv, StreamTypes, OneWriter
    <3>3. ASSUME ~skip PROVE Announced(c)'
      <4>1. handshake'[c] = handshake[c] /\ stream'[c] \in {stream[c], Append(stream[c], "part")}
        BY <2>3 DEF Send, StreamInv, StreamTypes
      <4>2. \A i \in DOMAIN stream[c] : stream[c][i] = "part"
        BY <2>1, <3>3 DEF StreamInv, Announced
      <4> QED BY <2>1, <4>1, <4>2, PartMore DEF Announced
    <3>4. ASSUME NEW d \in Callers, d # c, ~skip PROVE Announced(d)'
      <4>1. handshake'[d] = handshake[d] /\ stream'[d] = stream[d] /\ Announced(d)
        BY <2>3, <3>4 DEF Send, StreamInv, StreamTypes
      <4> QED BY <4>1 DEF Announced
    <3> QED BY <2>1, <3>1, <3>2, <3>3, <3>4 DEF StreamInv
  <2> QED BY <1>2, <2>2, <2>3 DEF WriteAddress
<1>3. CASE WritePayload(c, w)
  <2>1. /\ handshake[c] /\ stream[c] \in Seq(Pieces) /\ UNCHANGED <<skip, handshake>>
        /\ \A v \in Writers : v # w => writer[c][v] = "idle"
    BY <1>3 DEF WritePayload, StreamInv, StreamTypes, OneWriter
  <2>2. StreamTypes'
    <3>1. stream' \in [Callers -> Seq(Pieces)]
      <4>1. Append(stream[c], "payload") \in Seq(Pieces)
        BY <2>1, OnePieceMore DEF Pieces
      <4> QED BY <1>3, <4>1 DEF WritePayload, Send, StreamInv, StreamTypes
    <3>2. writer' \in [Callers -> [Writers -> WriterPlaces]]
      BY <1>3 DEF WritePayload, MoveWriter, StreamInv, StreamTypes, WriterPlaces
    <3> QED BY <1>3, <2>1, <3>1, <3>2 DEF WritePayload, StreamInv, StreamTypes
  <2>3. ASSUME NEW d \in Callers PROVE OneWriter(d)'
    BY <1>3, <2>1 DEF WritePayload, MoveWriter, StreamInv, StreamTypes, OneWriter
  <2>4. ASSUME ~skip PROVE Announced(c)'
    <3>1. stream'[c] \in {stream[c], Append(stream[c], "payload")}
      BY <1>3 DEF WritePayload, Send, StreamInv, StreamTypes
    <3>2. PICK k \in DOMAIN stream[c] : AddressAt(stream[c], k)
      BY <2>1, <2>4 DEF StreamInv, Announced
    <3> QED BY <2>1, <3>1, <3>2, PayloadMore DEF Announced
  <2>5. ASSUME NEW d \in Callers, d # c, ~skip PROVE Announced(d)'
    <3>1. stream'[d] = stream[d] /\ Announced(d)
      BY <1>3, <2>5 DEF WritePayload, Send, StreamInv, StreamTypes
    <3> QED BY <2>1, <3>1 DEF Announced
  <2> QED BY <2>1, <2>2, <2>3, <2>4, <2>5 DEF StreamInv
<1> QED BY <1>1, <1>2, <1>3 DEF WriteStep

\* Every step keeps it: dials and the exchange with ALGeneva write no stream.
THEOREM StreamInductive == StreamInv /\ [Next]_vars => StreamInv'
<1> SUFFICES ASSUME StreamInv, [Next]_vars PROVE StreamInv'
  OBVIOUS
<1>1. ASSUME NEW c \in Callers, NEW w \in Writers, WriteStep(c, w) PROVE StreamInv'
  BY <1>1, WriteKeeps
<1>2. ASSUME NEW c \in Callers, DialStep(c) PROVE StreamInv'
  <2>1. CASE WaterStep(c)
    BY <2>1, StreamElsewhere
    DEF WaterStep, WaterLock, WaterShare, WaterNew, WaterDial
  <2> QED BY <1>2, <2>1, StreamElsewhere DEF DialStep, Retry, water, writing
<1>3. ASSUME NEW c \in Callers, Dial(c) \/ (InboundStep(c) /\ UNCHANGED water) PROVE StreamInv'
  BY <1>3, StreamElsewhere DEF Dial, water, writing
<1>4. ASSUME NEW tag, Unregister(tag) PROVE StreamInv'
  BY <1>4, StreamElsewhere DEF Unregister, water, writing
<1>5. CASE UNCHANGED vars
  BY <1>5, StreamElsewhere DEF vars, water, writing
<1> QED BY <1>1, <1>2, <1>3, <1>4, <1>5 DEF Next

\* The address goes out whole, once and before any payload, however many
\* goroutines write and however often a write fails (water/conn.go:34-47).
THEOREM AnnouncedOnce == Spec => []AddressFirst
<1>1. ASSUME StreamInv PROVE AddressFirst
  <2> SUFFICES ASSUME NEW c \in Callers, ~skip
               PROVE  LET s == stream[c] IN
                      /\ \A i \in DOMAIN s : s[i] = "payload" =>
                            \E j \in 1 .. (i - 1) : s[j] = "address"
                      /\ Cardinality({i \in DOMAIN s : s[i] = "address"}) <= 1
    BY DEF AddressFirst
  <2> DEFINE s == stream[c]
             A == {i \in DOMAIN s : s[i] = "address"}
  <2>1. s \in Seq(Pieces) /\ DOMAIN s = 1..Len(s) /\ Len(s) \in Nat
    BY <1>1 DEF StreamInv, StreamTypes
  <2>2. CASE handshake[c]
    <3>1. PICK k \in DOMAIN s : AddressAt(s, k)
      BY <1>1, <2>2 DEF StreamInv, Announced
    <3>2. A = {k}
      BY <3>1 DEF AddressAt
    <3>3. Cardinality(A) = 1
      BY <3>2, FS_Singleton
    <3>4. \A i \in DOMAIN s : s[i] = "payload" => \E j \in 1 .. (i - 1) : s[j] = "address"
      BY <2>1, <3>1 DEF AddressAt
    <3> QED BY <3>3, <3>4
  <2>3. CASE ~handshake[c]
    <3>1. \A i \in DOMAIN s : s[i] = "part"
      BY <1>1, <2>3 DEF StreamInv, Announced
    <3>2. A = {}
      BY <3>1
    <3>3. Cardinality(A) = 0
      BY <3>2, FS_EmptySet
    <3> QED BY <3>1, <3>3
  <2> QED BY <2>2, <2>3
<1> QED BY <1>1, InitStream, StreamInductive, PTL DEF Spec

-----------------------------------------------------------------------------
(* The count of metrics/conn.go *)

\* A connection has been closed exactly if it is "closed", so that a first close
\* is one of an open connection.  The sets are finite at any time, whatever
\* Callers is.
CountInv ==
    /\ conns \in Int
    /\ closes \in [Callers -> 0 .. MaxCloses]
    /\ \A c \in Callers : inbound[c] = "closed" <=> closes[c] > 0
    /\ IsFiniteSet(OpenConns) /\ IsFiniteSet(GoneConns) /\ IsFiniteSet(Recloses)
    /\ CountsOpen

\* Nothing is open and nothing counted after Start.
THEOREM InitCount == Init => CountInv
<1> SUFFICES ASSUME Init PROVE CountInv
  OBVIOUS
<1> USE ClosesAssumption
<1>1. OpenConns = {} /\ GoneConns = {}
  BY DEF Init, AlgInit, OpenConns, GoneConns, Open
<1>2. conns = 0 /\ \A c \in Callers : inbound[c] = "none" /\ closes[c] = 0
  BY DEF Init, AlgInit
<1>3. closes \in [Callers -> 0 .. MaxCloses]
  BY DEF Init, AlgInit
<1>4. Recloses = {}
  <2>1. ASSUME NEW r \in Callers \X (2 .. MaxCloses) PROVE ~(r[2] <= closes[r[1]])
    <3>1. closes[r[1]] = 0 /\ r[2] >= 2
      BY <1>2
    <3> QED BY <3>1
  <2> QED BY <2>1 DEF Recloses
<1>5. /\ Cardinality({}) = 0 /\ IsFiniteSet({})
  BY FS_EmptySet
<1>6. CountsOpen
  BY <1>1, <1>2, <1>4, <1>5 DEF CountsOpen
<1>7. \A c \in Callers : inbound[c] = "closed" <=> closes[c] > 0
  BY <1>2
<1> QED BY <1>1, <1>2, <1>3, <1>4, <1>5, <1>6, <1>7 DEF CountInv

\* A step after which the same connections are open and gone, and as many are
\* counted, keeps the count.
LEMMA SameOpen ==
    ASSUME CountInv, UNCHANGED <<conns, closes>>,
           \A c \in Callers : /\ Open(c)' <=> Open(c)
                              /\ inbound'[c] = "closed" <=> inbound[c] = "closed"
                              /\ inbound'[c] = "gone" <=> inbound[c] = "gone"
    PROVE  CountInv'
<1>1. OpenConns' = OpenConns /\ GoneConns' = GoneConns /\ Recloses' = Recloses
  BY DEF OpenConns, GoneConns, Recloses
<1> QED BY <1>1 DEF CountInv, CountsOpen

\* The steps of the inbound keep the count: it goes up with the connection that
\* is accepted and down with each close, the first of which is of an open one.
LEMMA InboundCounts ==
    ASSUME AlgInv, CountInv, NEW c \in Callers, InboundStep(c) PROVE CountInv'
<1> USE DEF Inbound
<1>1. CASE InboundAccept(c)
  <2>1. OpenConns' = OpenConns \union {c} /\ c \notin OpenConns
    BY <1>1 DEF InboundAccept, OpenConns, Open, AlgInv, AlgTypes
  <2>2. IsFiniteSet(OpenConns') /\ Cardinality(OpenConns') = Cardinality(OpenConns) + 1
    BY <2>1, FS_AddElement DEF CountInv
  <2>3. conns' = conns + 1 /\ closes' = closes
    BY <1>1 DEF InboundAccept
  <2>4. \A d \in Callers : /\ inbound'[d] = "closed" <=> inbound[d] = "closed"
                           /\ inbound'[d] = "gone" <=> inbound[d] = "gone"
    BY <1>1 DEF InboundAccept, AlgInv, AlgTypes
  <2>5. GoneConns' = GoneConns /\ Recloses' = Recloses
    BY <2>3, <2>4 DEF GoneConns, Recloses
  <2>6. CountsOpen'
    BY <2>2, <2>3, <2>5, FS_CardinalityType DEF CountInv, CountsOpen
  <2> QED BY <2>2, <2>3, <2>4, <2>5, <2>6 DEF CountInv
<1>2. CASE InboundRead(c) \/ InboundUpgrade(c)
  <2>1. inbound[c] \in {"request", "upgrade"} /\ UNCHANGED <<conns, closes>>
    BY <1>2 DEF InboundRead, InboundUpgrade
  <2>2. \E place \in {"upgrade", "serving", "rejected"} :
           inbound' = [inbound EXCEPT ![c] = place]
    BY <1>2 DEF InboundRead, InboundUpgrade
  <2>3. \A d \in Callers : /\ Open(d)' <=> Open(d)
                           /\ inbound'[d] = "closed" <=> inbound[d] = "closed"
                           /\ inbound'[d] = "gone" <=> inbound[d] = "gone"
    BY <2>1, <2>2 DEF Open, AlgInv, AlgTypes
  <2> QED BY <2>1, <2>3, SameOpen
<1>3. CASE InboundClose(c)
  <2> USE ClosesAssumption
  <2>1. /\ inbound' = [inbound EXCEPT ![c] = "closed"]
        /\ closes' = [closes EXCEPT ![c] = @ + 1] /\ conns' = conns - 1
        /\ inbound[c] \in {"serving", "closed"} /\ closes[c] < MaxCloses
    BY <1>3 DEF InboundClose
  <2>2. OpenConns' = OpenConns \ {c} /\ GoneConns' = GoneConns
    BY <2>1 DEF OpenConns, GoneConns, Open, AlgInv, AlgTypes
  <2>3. /\ IsFiniteSet(OpenConns')
        /\ c \in OpenConns => Cardinality(OpenConns') = Cardinality(OpenConns) - 1
        /\ c \notin OpenConns => Cardinality(OpenConns') = Cardinality(OpenConns)
    BY <2>2, FS_RemoveElement DEF CountInv
  <2>4. closes' \in [Callers -> 0 .. MaxCloses] /\ conns' \in Int
    BY <2>1 DEF CountInv
  <2>5. \A d \in Callers : inbound'[d] = "closed" <=> closes'[d] > 0
    BY <2>1 DEF CountInv, AlgInv, AlgTypes
  <2>6. CASE closes[c] = 0
    <3>1. c \in OpenConns
      BY <2>1, <2>6 DEF CountInv, OpenConns, Open
    <3>2. ASSUME NEW r \in Callers \X (2 .. MaxCloses)
          PROVE  r[2] <= closes'[r[1]] <=> r[2] <= closes[r[1]]
      BY <2>1, <2>6 DEF CountInv
    <3>3. Recloses' = Recloses
      BY <3>2 DEF Recloses
    <3>4. CountsOpen'
      BY <2>1, <2>2, <2>3, <3>1, <3>3, FS_CardinalityType DEF CountInv, CountsOpen
    <3> QED BY <2>2, <2>3, <2>4, <2>5, <3>3, <3>4 DEF CountInv
  <2>7. CASE closes[c] > 0
    <3>1. c \notin OpenConns
      BY <2>7 DEF CountInv, OpenConns, Open
    <3> DEFINE new == <<c, closes[c] + 1>>
    <3>2. new \in Callers \X (2 .. MaxCloses) /\ new[1] = c /\ new[2] = closes[c] + 1
      BY <2>1, <2>7 DEF CountInv
    <3>3. ASSUME NEW r \in Callers \X (2 .. MaxCloses)
          PROVE  r[2] <= closes'[r[1]] <=> r[2] <= closes[r[1]] \/ r = new
      <4>1. r[1] \in Callers /\ r[2] \in Int /\ r = <<r[1], r[2]>>
        OBVIOUS
      <4>2. CASE r[1] = c
        <5>1. closes'[r[1]] = closes[c] + 1 /\ closes[c] \in Int
          BY <2>1, <4>2 DEF CountInv
        <5>2. r = new <=> r[2] = closes[c] + 1
          BY <4>1, <4>2
        <5> QED BY <4>1, <4>2, <5>1, <5>2
      <4>3. CASE r[1] # c
        BY <2>1, <4>1, <4>3 DEF CountInv
      <4> QED BY <4>2, <4>3
    <3>4. ~(new[2] <= closes[new[1]])
      BY <3>2 DEF CountInv
    <3>5. Recloses' = Recloses \union {new} /\ new \notin Recloses
      <4> HIDE DEF new
      <4> QED BY <3>2, <3>3, <3>4 DEF Recloses
    <3>6. IsFiniteSet(Recloses') /\ Cardinality(Recloses') = Cardinality(Recloses) + 1
      BY <3>5, FS_AddElement DEF CountInv
    <3>7. CountsOpen'
      BY <2>1, <2>2, <2>3, <3>1, <3>6, FS_CardinalityType DEF CountInv, CountsOpen
    <3> QED BY <2>2, <2>3, <2>4, <2>5, <3>6, <3>7 DEF CountInv
  <2>8. closes[c] = 0 \/ closes[c] > 0
    BY DEF CountInv
  <2> QED BY <2>6, <2>7, <2>8
<1>4. CASE InboundVanishes(c)
  <2>1. inbound[c] = "rejected" /\ inbound' = [inbound EXCEPT ![c] = "gone"]
        /\ UNCHANGED <<conns, closes>>
    BY <1>4 DEF InboundVanishes
  <2>2. /\ OpenConns' = OpenConns \ {c} /\ c \in OpenConns
        /\ GoneConns' = GoneConns \union {c} /\ c \notin GoneConns
    BY <2>1 DEF OpenConns, GoneConns, Open, AlgInv, AlgTypes
  <2>3. /\ IsFiniteSet(OpenConns') /\ Cardinality(OpenConns') = Cardinality(OpenConns) - 1
        /\ IsFiniteSet(GoneConns') /\ Cardinality(GoneConns') = Cardinality(GoneConns) + 1
    BY <2>2, FS_AddElement, FS_RemoveElement DEF CountInv
  <2>4. Recloses' = Recloses
    BY <2>1 DEF Recloses
  <2>5. CountsOpen'
    BY <2>1, <2>3, <2>4, FS_CardinalityType DEF CountInv, CountsOpen
  <2>6. \A d \in Callers : inbound'[d] = "closed" <=> closes'[d] > 0
    BY <2>1 DEF CountInv, AlgInv, AlgTypes
  <2> QED BY <2>1, <2>3, <2>4, <2>5, <2>6 DEF CountInv
<1> QED BY <1>1, <1>2, <1>3, <1>4 DEF InboundStep

\* Every step keeps the count.  AlgDial is the only other step that moves the
\* inbound, and only for a caller that has no connection yet (AlgInv).
THEOREM CountInductive == AlgInv /\ CountInv /\ [Next]_vars => CountInv'
<1> SUFFICES ASSUME AlgInv, CountInv, [Next]_vars PROVE CountInv'
  OBVIOUS
<1>1. ASSUME UNCHANGED <<inbound, conns, closes>> PROVE CountInv'
  BY <1>1, SameOpen DEF Open
<1>2. ASSUME NEW c \in Callers, AlgStep(c) PROVE CountInv'
  <2>1. CASE AlgDial(c)
    <3>1. inbound[c] = "none"
      BY <2>1 DEF AlgDial, AlgInv, AlgTypes, Exchange, AlgPlaces
    <3>2. \A d \in Callers : /\ Open(d)' <=> Open(d)
                             /\ inbound'[d] = "closed" <=> inbound[d] = "closed"
                             /\ inbound'[d] = "gone" <=> inbound[d] = "gone"
      BY <2>1, <3>1 DEF AlgDial, Inbound, Open, AlgInv, AlgTypes
    <3> QED BY <2>1, <3>2, SameOpen DEF AlgDial
  <2>2. CASE AlgWrite(c) \/ AlgRead(c) \/ AlgUpgraded(c) \/ AlgBreaks(c)
    BY <2>2, <1>1 DEF AlgWrite, AlgRead, AlgUpgraded, AlgBreaks, algeneva
  <2> QED BY <1>2, <2>1, <2>2 DEF AlgStep
<1>3. ASSUME NEW c \in Callers, Dial(c) \/ DialStep(c) PROVE CountInv'
  BY <1>1, <1>2, <1>3 DEF Dial, DialStep, Retry, algeneva
<1>4. ASSUME NEW c \in Callers, InboundStep(c) PROVE CountInv'
  BY <1>4, InboundCounts
<1>5. ASSUME UNCHANGED algeneva PROVE CountInv'
  BY <1>1, <1>5 DEF algeneva
<1>6. ASSUME NEW tag, Unregister(tag) PROVE CountInv'
  BY <1>5, <1>6 DEF Unregister
<1>7. CASE UNCHANGED vars
  BY <1>5, <1>7 DEF vars
<1> QED BY <1>3, <1>4, <1>5, <1>6, <1>7 DEF Next

\* metrics.conns is, however many connections there are, the number of the open
\* ones and of the rejected ones that are gone, less each close of a connection
\* after its first (metrics/conn.go:21-29, 50-55).
THEOREM CountIsExact == Spec => []CountsOpen
<1>1. CountInv => CountsOpen
  BY DEF CountInv
<1> QED BY <1>1, InitWater, WaterInductive, InitAlg, AlgInductive,
           InitCount, CountInductive, PTL DEF Spec
=============================================================================
