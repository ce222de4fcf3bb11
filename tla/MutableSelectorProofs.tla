------------------------ MODULE MutableSelectorProofs ------------------------
(***************************************************************************)
(* Proofs about MutableSelector, for every set of tags, callers and dials. *)
(***************************************************************************)
EXTENDS MutableSelector, TLAPS

\* At most one caller is inside mu.
OneInside == \A c, d \in Callers : caller[c] # Free /\ caller[d] # Free => c = d

\* What a caller is about to store is the selection in use.  A selection that is
\* no member is one that the Remove under way has deleted.
SelectionKnown ==
    /\ \A c \in Callers : caller[c].pc \in {"store", "interrupt"}
                              => caller[c].tag = selected /\ selected \in outbounds
    /\ \A c \in Callers : caller[c].pc = "removing"
                              => selected \in outbounds \union caller[c].tags \union {Nil}
    /\ MuFree => selected \in outbounds \union {Nil}

\* Between the store and the interrupt the cache file is already right, and
\* before a Remove reselects it still is.
StoredFirst ==
    \A c \in Callers :
        caller[c].pc \in {"interrupt", "removing"} /\ origin = "saved" => cache = selected

\* Before a Remove reselects, what the last selection interrupted is still gone.
RidersKnown ==
    \A c \in Callers : caller[c].pc = "removing" /\ selected # Nil =>
        \A k \in Conns : conn[k].pc = "open" /\ conn[k].out # selected => conn[k].straddled

\* Nothing of a stopped program is left.
Stopped == ~up => /\ outbounds = {}
                  /\ selected = Nil
                  /\ \A c \in Callers : caller[c] = Free
                  /\ \A k \in Conns : conn[k] = NoConn

IInv == /\ OneInside /\ SelectionKnown /\ StoredFirst /\ RidersKnown /\ Stopped
        /\ CacheFollows /\ NoOldRiders
-----------------------------------------------------------------------------
LEMMA InitType == Init => TypeOK
BY DEF Init, TypeOK, Caller, Conn

LEMMA NextType == TypeOK /\ [Next]_vars => TypeOK'
<1> SUFFICES ASSUME TypeOK, [Next]_vars PROVE TypeOK'
  OBVIOUS
<1> USE DEF TypeOK
<1>1. CASE Start
  BY <1>1, MutableSelectorAssumption DEF Start
<1>2. CASE Crash
  BY <1>2 DEF Crash, Caller, Conn
<1>3. ASSUME NEW tags \in SUBSET Tags, Add(tags) PROVE TypeOK'
  BY <1>3 DEF Add
<1>4. ASSUME NEW c \in Callers, NEW t \in Tags, Swap(c, t)
      PROVE  caller' \in [Callers -> Caller] /\ selected' \in Tags
  BY <1>4 DEF Swap, Caller
<1>5. ASSUME NEW c \in Callers, NEW t \in Tags, SelectOutbound(c, t) PROVE TypeOK'
  BY <1>4, <1>5 DEF SelectOutbound
<1>6. ASSUME NEW c \in Callers, NEW tags \in SUBSET Tags, Remove(c, tags)
      PROVE  TypeOK'
  BY <1>6 DEF Remove, Caller
<1>14. ASSUME NEW c \in Callers, Reselect(c) PROVE TypeOK'
  <2>1. CASE UNCHANGED selected /\ caller' = [caller EXCEPT ![c] = Free] /\ UNCHANGED origin
    BY <1>14, <2>1 DEF Reselect, Caller
  <2>2. CASE selected' = Nil /\ caller' = [caller EXCEPT ![c] = Free] /\ origin' = "none"
    BY <1>14, <2>2 DEF Reselect, Caller
  <2>3. CASE (\E t \in outbounds : Swap(c, t)) /\ UNCHANGED origin
    BY <1>4, <1>14, <2>3 DEF Reselect
  <2> QED BY <1>14, <2>1, <2>2, <2>3 DEF Reselect
<1>7. ASSUME NEW c \in Callers, NEW ok \in BOOLEAN, Store(c, ok) PROVE TypeOK'
  <2>1. caller[c].tag \in Tags
    BY <1>7 DEF Store, Caller, Free
  <2> QED BY <1>7, <2>1 DEF Store, Caller
<1>8. ASSUME NEW c \in Callers, Interrupt(c) PROVE TypeOK'
  BY <1>8 DEF Interrupt, Caller, Conn
<1>9. ASSUME NEW k \in Conns, Load(k) PROVE TypeOK'
  BY <1>9 DEF Load, Conn
<1>10. ASSUME NEW k \in Conns, Register(k) PROVE TypeOK'
  <2>1. conn[k].out \in Tags
    BY <1>10 DEF Register, Conn, NoConn
  <2>2. (conn[k].out # selected) \in BOOLEAN
    OBVIOUS
  <2> QED BY <1>10, <2>1, <2>2 DEF Register, Conn
<1>11. ASSUME NEW k \in Conns, End(k) PROVE TypeOK'
  BY <1>11 DEF End, Conn
<1>12. ASSUME NEW k \in Conns, Route(k) PROVE TypeOK'
  BY <1>12 DEF Route, Conn
<1>13. CASE UNCHANGED vars
  BY <1>13 DEF vars
<1> QED BY <1>1, <1>2, <1>3, <1>5, <1>6, <1>7, <1>8, <1>9, <1>10, <1>11, <1>12,
         <1>13, <1>14
        DEF Next

\* Every variable keeps its type.
THEOREM TypeCorrect == Spec => []TypeOK
BY InitType, NextType, PTL DEF Spec
-----------------------------------------------------------------------------
\* What a call that moves the selection does to the invariant: it is the one
\* inside mu, or mu is free.
LEMMA SwapStep ==
  ASSUME TypeOK, IInv, up, up', NEW c \in Callers, NEW t \in outbounds,
         \A d \in Callers : d # c => caller[d] = Free,
         caller[c].pc \in {"free", "removing"}, selected = t => caller[c] = Free,
         Swap(c, t), UNCHANGED <<outbounds, cache, conn, origin>>
  PROVE  IInv'
<1>1. CASE selected = t
  BY <1>1 DEF TypeOK, IInv, OneInside, SelectionKnown, StoredFirst, RidersKnown, Stopped,
     CacheFollows, NoOldRiders, MuFree, Swap
<1>2. CASE selected # t
  <2>1. caller' = [caller EXCEPT ![c] = [pc |-> "store", tag |-> t]] /\ selected' = t
    BY <1>2 DEF Swap
  <2>2. caller'[c] = [pc |-> "store", tag |-> t]
    BY <2>1 DEF TypeOK
  <2>3. \A d \in Callers : d # c => caller'[d] = Free
    BY <2>1 DEF TypeOK
  <2>4. ~MuFree'
    BY <2>2 DEF MuFree, Free
  <2>5. OneInside'
    BY <2>3 DEF OneInside
  <2>6. StoredFirst' /\ RidersKnown'
    BY <2>2, <2>3 DEF StoredFirst, RidersKnown, Free
  <2>7. SelectionKnown'
    BY <2>1, <2>2, <2>3, <2>4 DEF SelectionKnown, Free
  <2> QED BY <2>4, <2>5, <2>6, <2>7 DEF IInv, Stopped, CacheFollows, NoOldRiders
<1> QED BY <1>1, <1>2

LEMMA IInvStep == TypeOK /\ IInv /\ [Next]_vars => IInv'
<1> SUFFICES ASSUME TypeOK, IInv, [Next]_vars PROVE IInv'
  OBVIOUS
<1> USE DEF IInv, OneInside, SelectionKnown, StoredFirst, RidersKnown, Stopped, CacheFollows,
            NoOldRiders, MuFree
<1>1. CASE Start
  BY <1>1, MutableSelectorAssumption DEF Start, Free, NoConn
<1>2. CASE Crash
  BY <1>2 DEF Crash, Free
<1>3. ASSUME NEW tags \in SUBSET Tags, Add(tags) PROVE IInv'
  BY <1>3 DEF Add, Free
<1>4. ASSUME NEW c \in Callers, NEW t \in Tags, SelectOutbound(c, t) PROVE IInv'
  BY <1>4, SwapStep DEF SelectOutbound, Free
<1>5. ASSUME NEW c \in Callers, NEW tags \in SUBSET Tags, Remove(c, tags)
      PROVE  IInv'
  <2>1. caller'[c] = [pc |-> "removing", tags |-> tags]
    BY <1>5 DEF Remove, TypeOK
  <2>2. \A d \in Callers : d # c => caller'[d] = Free
    BY <1>5 DEF Remove, TypeOK
  <2>3. ~MuFree'
    BY <2>1 DEF Free
  <2>4. selected \in outbounds' \union tags \union {Nil}
    BY <1>5 DEF Remove
  <2>5. SelectionKnown'
    BY <1>5, <2>1, <2>2, <2>3, <2>4 DEF Remove, Free
  <2> QED BY <1>5, <2>1, <2>2, <2>3, <2>5 DEF Remove, Free
<1>13. ASSUME NEW c \in Callers, Reselect(c) PROVE IInv'
  <2>1. caller[c].pc = "removing" /\ caller[c] # Free
    BY <1>13 DEF Reselect, Free
  <2>2. \A d \in Callers : d # c => caller[d] = Free
    BY <2>1
  <2>3. up
    BY <2>1
  <2>4. CASE selected \in outbounds /\ caller' = [caller EXCEPT ![c] = Free]
             /\ UNCHANGED <<selected, origin>>
    <3>1. \A d \in Callers : caller'[d] = Free
      BY <2>2, <2>4 DEF TypeOK
    <3>2. SelectionKnown' /\ OneInside' /\ StoredFirst' /\ RidersKnown' /\ Stopped'
      BY <1>13, <2>3, <2>4, <3>1 DEF Reselect, Free
    <3>3. CacheFollows' /\ NoOldRiders'
      BY <1>13, <2>1, <2>4, <3>1 DEF Reselect, Free
    <3> QED BY <3>2, <3>3
  <2>5. CASE outbounds = {} /\ caller' = [caller EXCEPT ![c] = Free]
             /\ selected' = Nil /\ origin' = "none"
    <3>1. \A d \in Callers : caller'[d] = Free
      BY <2>2, <2>5 DEF TypeOK
    <3> QED BY <1>13, <2>3, <2>5, <3>1 DEF Reselect, Free
  <2>6. CASE selected \notin outbounds /\ UNCHANGED origin
             /\ \E t \in outbounds : Swap(c, t)
    BY <1>13, <2>1, <2>2, <2>3, <2>6, SwapStep DEF Reselect
  <2> QED BY <1>13, <2>4, <2>5, <2>6 DEF Reselect
<1>6. ASSUME NEW c \in Callers, NEW ok \in BOOLEAN, Store(c, ok) PROVE IInv'
  <2>1. caller[c].tag = selected /\ caller[c] # Free /\ selected \in outbounds
    BY <1>6 DEF Store, Free
  <2>2. \A d \in Callers : d # c => caller'[d] = Free
    BY <1>6, <2>1 DEF Store, TypeOK
  <2>3. caller'[c] = [pc |-> "interrupt", tag |-> selected]
    BY <1>6, <2>1 DEF Store, TypeOK
  <2> QED BY <1>6, <2>1, <2>2, <2>3 DEF Store, Free
<1>7. ASSUME NEW c \in Callers, Interrupt(c) PROVE IInv'
  <2>1. \A d \in Callers : d # c => caller[d] = Free
    BY <1>7 DEF Interrupt, Free
  <2>2. \A k \in Conns : conn'[k].pc # "open"
    BY <1>7 DEF Interrupt, NoConn
  <2>3. \A d \in Callers : caller'[d] = Free
    BY <1>7, <2>1 DEF Interrupt, TypeOK
  <2>4. selected \in outbounds
    BY <1>7 DEF Interrupt
  <2> QED BY <1>7, <2>1, <2>2, <2>3, <2>4 DEF Interrupt, Free
<1>8. ASSUME NEW k \in Conns, Load(k) PROVE IInv'
  BY <1>8 DEF Load, TypeOK
<1>9. ASSUME NEW k \in Conns, Register(k) PROVE IInv'
  <2>1. up
    BY <1>9 DEF Register, NoConn
  <2>2. \A j \in Conns : j # k => conn'[j] = conn[j]
    BY <1>9 DEF Register, TypeOK
  <2>3. conn'[k].straddled = (conn'[k].out # selected)
    BY <1>9 DEF Register, TypeOK
  <2>4. UNCHANGED <<up, outbounds, selected, cache, caller, origin>>
    BY <1>9 DEF Register
  <2> QED BY <2>1, <2>2, <2>3, <2>4
<1>10. ASSUME NEW k \in Conns, End(k) PROVE IInv'
  BY <1>10 DEF End, TypeOK, NoConn
<1>11. ASSUME NEW k \in Conns, Route(k) PROVE IInv'
  BY <1>11 DEF Route, TypeOK
<1>12. CASE UNCHANGED vars
  BY <1>12 DEF vars
<1> QED BY <1>1, <1>2, <1>3, <1>4, <1>5, <1>6, <1>7, <1>8, <1>9, <1>10, <1>11,
         <1>12, <1>13
        DEF Next

LEMMA InitIInv == Init => IInv
BY DEF Init, IInv, OneInside, SelectionKnown, StoredFirst, RidersKnown, Stopped, CacheFollows,
       NoOldRiders, MuFree, Free

\* The inductive invariant.
THEOREM Inductive == Spec => [](TypeOK /\ IInv)
<1>1. TypeOK /\ IInv /\ [Next]_vars => TypeOK' /\ IInv'
  BY NextType, IInvStep
<1> QED BY <1>1, InitType, InitIInv, PTL DEF Spec

\* What dials load without a lock is a member of the group or nil or, in the
\* middle of a Remove, one of the tags it is taking out.
THEOREM SelectionIsMember == Spec => []SelectedIsMember
<1>1. TypeOK /\ IInv => SelectedIsMember
  <2> SUFFICES ASSUME TypeOK, IInv PROVE SelectedIsMember
    OBVIOUS
  <2> USE DEF IInv, SelectionKnown, SelectedIsMember
  <2>1. CASE MuFree
    BY <2>1
  <2>2. ASSUME NEW c \in Callers, caller[c] # Free PROVE SelectedIsMember
    <3>1. caller[c].pc \in {"store", "interrupt", "removing"}
      BY <2>2 DEF TypeOK, Caller
    <3>2. CASE caller[c].pc = "removing"
      BY <3>2 DEF Leaving
    <3> QED BY <3>1, <3>2
  <2> QED BY <2>1, <2>2 DEF MuFree
<1> QED BY <1>1, Inductive, PTL

\* The cache file is never left with an older selection than the one in use.
THEOREM CacheIsCurrent == Spec => []CacheFollows
<1>1. IInv => CacheFollows
  BY DEF IInv
<1> QED BY <1>1, Inductive, PTL

\* A finished selection leaves no connection of the one before.
THEOREM RidersInterrupted == Spec => []NoOldRiders
<1>1. IInv => NoOldRiders
  BY DEF IInv
<1> QED BY <1>1, Inductive, PTL
-----------------------------------------------------------------------------
LEMMA KeptStep ==
  TypeOK /\ IInv /\ [Next]_vars =>
    (up /\ up' /\ selected # Nil /\ outbounds' # {} => selected' # Nil)
<1> SUFFICES ASSUME TypeOK, IInv, [Next]_vars, up, up', selected # Nil, outbounds' # {}
             PROVE  selected' # Nil
  OBVIOUS
<1>1. ASSUME NEW c \in Callers, NEW t \in Tags, Swap(c, t) PROVE selected' # Nil
  BY <1>1, MutableSelectorAssumption DEF Swap
<1>2. ASSUME NEW c \in Callers, Reselect(c) PROVE selected' # Nil
  BY <1>1, <1>2 DEF Reselect, TypeOK
<1>3. ASSUME NEW c \in Callers, NEW t \in Tags, SelectOutbound(c, t)
      PROVE  selected' # Nil
  BY <1>1, <1>3 DEF SelectOutbound
<1>4. CASE UNCHANGED selected
  BY <1>4
<1>5. CASE Start \/ Crash
  BY <1>5 DEF Start, Crash
<1> QED BY <1>2, <1>3, <1>4, <1>5
        DEF Next, Add, Remove, Store, Interrupt, Load, Register, Route, End, vars

\* No call leaves a group that had a selection with members and none.
THEOREM SelectionNeverLost == Spec => SelectionKept
<1>1. TypeOK /\ IInv /\ [Next]_vars
      => [up /\ up' /\ selected # Nil /\ outbounds' # {} => selected' # Nil]_vars
  BY KeptStep
<1> QED BY <1>1, Inductive, PTL DEF Spec, SelectionKept
=============================================================================
