------------------------- MODULE GroupManagerProofs -------------------------
(***************************************************************************)
(* Proofs about GroupManager, for every set of groups, tags and goroutine  *)
(* names and every forceAfter.                                             *)
(***************************************************************************)
EXTENDS GroupManager, TLAPS

\* While a goroutine holds rq.mu to remove, what it still has to remove is
\* queued: nobody else can take it off the queue.
TodoIsQueued == \A l \in Loops : At(l, "remove") => todo[l] \subseteq Queued

\* A call that is about to enqueue has found an outbound that is not a group.
InsertsPlain == call.pc \in {"endpoint", "enqueue", "insert"} => call.tag \notin NestedGroups

\* No group is queued.
QueueIsPlain == Queued \intersect NestedGroups = {}

IInv == SingleLoop /\ TodoIsQueued /\ InsertsPlain /\ QueueIsPlain
-----------------------------------------------------------------------------
LEMMA PartialIntro ==
  ASSUME NEW V, NEW S \in SUBSET Tags, NEW f \in [S -> V]
  PROVE  f \in Partial(V)
BY DEF Partial

LEMMA PartialElim ==
  ASSUME NEW V, NEW f \in Partial(V)
  PROVE  /\ DOMAIN f \in SUBSET Tags
         /\ f \in [DOMAIN f -> V]
         /\ \A t \in DOMAIN f : f[t] \in V
BY DEF Partial

LEMMA OlderType ==
  ASSUME NEW age \in Ages
  PROVE  Older(age) \in Ages /\ Older(age) >= age
BY GroupManagerAssumption DEF Ages, Older, Expired

LEMMA InitType == Init => TypeOK
<1> SUFFICES ASSUME Init PROVE TypeOK
  OBVIOUS
<1>1. pending \in Partial(Item)
  <2>1. pending \in [{} -> Item]
    BY DEF Init
  <2> QED BY <2>1, PartialIntro
<1>2. snap \in [Loops -> Partial(Ages)]
  <2>1. EmptyCopy \in [{} -> Ages]
    BY DEF EmptyCopy
  <2> QED BY <2>1, PartialIntro DEF Init
<1>3. loop \in [Loops -> LoopPC] /\ todo \in [Loops -> SUBSET Tags]
  BY DEF Init, LoopPC
<1>4. members \in [Groups -> SUBSET Tags]
  BY DEF Init
<1> QED BY <1>1, <1>2, <1>3, <1>4 DEF Init, TypeOK

\* Every step keeps the types.
LEMMA NextType == TypeOK /\ [Next]_vars => TypeOK'
<1> SUFFICES ASSUME TypeOK, [Next]_vars PROVE TypeOK'
  OBVIOUS
<1> USE DEF vars, registry, environment, queue, loops
<1>1. ASSUME NEW g \in Groups, NEW t \in Tags, NEW e \in BOOLEAN,
             CreateForGroup(g, t, e)
      PROVE  TypeOK'
  BY <1>1 DEF TypeOK, CreateForGroup, Enter, Call
<1>2. ASSUME NEW g \in Groups, NEW t \in Tags, AddToGroup(g, t)
      PROVE  TypeOK'
  BY <1>2 DEF TypeOK, AddToGroup, Enter, Call
<1>3. ASSUME NEW g \in Groups, NEW t \in Tags, RemoveFromGroup(g, t)
      PROVE  TypeOK'
  BY <1>3 DEF TypeOK, RemoveFromGroup, Enter, Call
<1>4. CASE AddMember
  BY <1>4 DEF TypeOK, AddMember, Return, Call, NoCall
<1>5. CASE Dequeue
  <2>1. pending' \in Partial(Item)
    <3>1. pending' \in [Queued \ {call.tag} -> Item]
      BY <1>5, PartialElim DEF TypeOK, Dequeue, Queued
    <3> QED BY <3>1, PartialIntro, PartialElim DEF TypeOK, Queued
  <2> QED BY <1>5, <2>1 DEF TypeOK, Dequeue, Return
<1>6. CASE LookupRemoved
  <2>1. call \in Call
    BY <1>6 DEF TypeOK, LookupRemoved, LookupOutbound, LookupEndpoint,
       TestDone, Steps, NoCall
  <2>2. (call.tag \in eps) \in BOOLEAN
    OBVIOUS
  <2>3. call' \in Call \union {NoCall}
    BY <1>6, <2>1, <2>2 DEF LookupRemoved, LookupOutbound, LookupEndpoint,
       TestDone, Steps, Return, Call
  <2> QED BY <1>6, <2>3 DEF TypeOK, LookupRemoved, LookupOutbound, LookupEndpoint, TestDone, Steps
<1>7. CASE Insert
  <2>1. call.tag \in Tags /\ call.isEndpoint \in BOOLEAN
    BY <1>7 DEF TypeOK, Insert, Call, NoCall
  <2>2. pending' \in Partial(Item)
    <3>1. CASE call.tag \in Queued
      BY <3>1, <1>7 DEF TypeOK, Insert
    <3>2. CASE call.tag \notin Queued
      <4>1. [isEndpoint |-> call.isEndpoint, age |-> 0] \in Item
        BY <2>1, GroupManagerAssumption DEF Item, Ages
      <4>2. pending' \in [Queued \union {call.tag} -> Item]
        BY <4>1, <3>2, <1>7, PartialElim DEF TypeOK, Insert, Queued
      <4>3. Queued \union {call.tag} \in SUBSET Tags
        BY <2>1, PartialElim DEF TypeOK, Queued
      <4> QED BY <4>2, <4>3, PartialIntro
    <3> QED BY <3>1, <3>2
  <2>3. loop' \in [Loops -> LoopPC]
    BY <1>7 DEF TypeOK, Insert, LoopPC
  <2> QED BY <1>7, <2>2, <2>3 DEF TypeOK, Insert, Return
<1>8. CASE Close
  BY <1>8 DEF TypeOK, Close
<1>9. CASE CloseQueue
  BY <1>9 DEF TypeOK, CloseQueue
<1>10. ASSUME NEW l \in Loops, LoopStep(l) PROVE TypeOK'
  <2> USE DEF At, GoTo, LoopPC
  <2>1. CASE StartLoop(l)
    <3>1. CASE running
      BY <3>1, <2>1 DEF TypeOK, StartLoop
    <3>2. CASE ~running
      BY <3>2, <2>1 DEF TypeOK, StartLoop
    <3> QED BY <3>1, <3>2
  <2>2. CASE Snapshot(l)
    <3>1. \A t \in Queued : pending[t].age \in Ages
      <4>1. \A t \in Queued : pending[t] \in Item
        BY PartialElim DEF TypeOK, Queued
      <4> QED BY <4>1 DEF Item
    <3>2. [t \in Queued |-> pending[t].age] \in Partial(Ages)
      BY <3>1, PartialIntro, PartialElim DEF TypeOK, Queued
    <3> QED BY <3>2, <2>2 DEF TypeOK, Snapshot
  <2>3. CASE Decide(l)
    <3>1. EmptyCopy \in Partial(Ages)
      <4>1. EmptyCopy \in [{} -> Ages]
        BY DEF EmptyCopy
      <4> QED BY <4>1, PartialIntro
    <3>2. Decision(l) \in SUBSET Tags
      BY PartialElim DEF TypeOK, Decision
    <3> QED BY <3>1, <3>2, <2>3 DEF TypeOK, Decide
  <2>4. CASE LockForRemoval(l)
    BY <2>4 DEF TypeOK, LockForRemoval
  <2>5. ASSUME NEW t \in Tags, RemoveOne(l, t) PROVE TypeOK'
    <3>1. pending' \in Partial(Item)
      <4>1. pending' \in [Queued \ {t} -> Item]
        BY <2>5, PartialElim DEF TypeOK, RemoveOne, Queued
      <4> QED BY <4>1, PartialIntro, PartialElim DEF TypeOK, Queued
    <3> QED BY <3>1, <2>5 DEF TypeOK, RemoveOne
  <2>6. CASE UnlockAfterRemoval(l)
    BY <2>6 DEF TypeOK, UnlockAfterRemoval
  <2>7. CASE Poll(l)
    BY <2>7 DEF TypeOK, Poll
  <2>8. CASE PollTick(l)
    BY <2>8 DEF TypeOK, PollTick
  <2>9. CASE StopOnDone(l)
    BY <2>9 DEF TypeOK, StopOnDone
  <2>10. CASE ExitLoop(l)
    BY <2>10 DEF TypeOK, ExitLoop
  <2> QED BY <1>10, <2>1, <2>2, <2>3, <2>4, <2>5, <2>6, <2>7, <2>8, <2>9, <2>10
          DEF LoopStep
<1>11. ASSUME NEW t \in Tags, OpenConn(t) \/ CloseConn(t) PROVE TypeOK'
  BY <1>11 DEF TypeOK, OpenConn, CloseConn
<1>12. CASE Tick
  <2>1. pending' \in Partial(Item)
    <3>1. ASSUME NEW t \in Queued
          PROVE  [pending[t] EXCEPT !.age = Older(@)] \in Item
      <4>1. pending[t] \in Item
        BY PartialElim DEF TypeOK, Queued
      <4>2. Older(pending[t].age) \in Ages
        BY <4>1, OlderType DEF Item
      <4> QED BY <4>1, <4>2 DEF Item
    <3>2. pending' \in [Queued -> Item]
      BY <3>1, <1>12 DEF Tick
    <3> QED BY <3>2, PartialIntro, PartialElim DEF TypeOK, Queued
  <2>2. snap' \in [Loops -> Partial(Ages)]
    <3> SUFFICES ASSUME NEW l \in Loops
                 PROVE  [t \in DOMAIN snap[l] |-> Older(snap[l][t])] \in Partial(Ages)
      BY <1>12 DEF Tick
    <3>1. snap[l] \in Partial(Ages)
      BY DEF TypeOK
    <3>2. [t \in DOMAIN snap[l] |-> Older(snap[l][t])] \in [DOMAIN snap[l] -> Ages]
      BY <3>1, PartialElim, OlderType
    <3> QED BY <3>1, <3>2, PartialIntro, PartialElim
  <2> QED BY <1>12, <2>1, <2>2 DEF TypeOK, Tick
<1>13. CASE UNCHANGED vars
  BY <1>13 DEF TypeOK
<1> QED BY <1>1, <1>2, <1>3, <1>4, <1>5, <1>6, <1>7, <1>8, <1>9, <1>10, <1>11,
           <1>12, <1>13 DEF Next, CallContinues

\* Every variable keeps its type.
THEOREM TypeCorrect == Spec => []TypeOK
BY InitType, NextType, PTL DEF Spec
-----------------------------------------------------------------------------
\* What a step does to one goroutine's place, as SingleLoop sees it.
LEMMA SingleLoopStep == TypeOK /\ SingleLoop /\ [Next]_vars => SingleLoop'
<1> SUFFICES ASSUME TypeOK, SingleLoop, [Next]_vars PROVE SingleLoop'
  OBVIOUS
<1> USE DEF vars, queue, loops, SingleLoop, Active
<1>1. CASE UNCHANGED <<running, loop>>
  BY <1>1
<1>2. CASE Insert
  <2>1. CASE UNCHANGED loop
    BY <1>2, <2>1 DEF Insert
  <2>2. ASSUME NEW l \in Loops, loop[l] = "none", loop' = [loop EXCEPT ![l] = "start"]
        PROVE  SingleLoop'
    BY <1>2, <2>2 DEF Insert, TypeOK
  <2> QED BY <1>2, <2>1, <2>2 DEF Insert
<1>3. ASSUME NEW l \in Loops, LoopStep(l) PROVE SingleLoop'
  <2> USE DEF At, GoTo
  <2>1. CASE StartLoop(l)
    <3>1. CASE running
      BY <2>1, <3>1 DEF StartLoop, TypeOK
    <3>2. CASE ~running
      BY <2>1, <3>2 DEF StartLoop, TypeOK
    <3> QED BY <3>1, <3>2
  <2>2. CASE ExitLoop(l)
    BY <2>2 DEF ExitLoop, TypeOK
  <2>3. ASSUME NEW pc \in LoopPC \ {"none", "start"},
               Active(l), loop' = [loop EXCEPT ![l] = pc], UNCHANGED running
        PROVE  SingleLoop'
    BY <2>3 DEF TypeOK
  <2>4. CASE Snapshot(l) \/ LockForRemoval(l) \/ UnlockAfterRemoval(l)
             \/ PollTick(l) \/ StopOnDone(l)
    BY <2>4, <2>3 DEF Snapshot, LockForRemoval, UnlockAfterRemoval, PollTick,
                      StopOnDone, LoopPC
  <2>5. CASE Decide(l)
    BY <2>5, <2>3 DEF Decide, LoopPC
  <2>6. CASE Poll(l)
    BY <2>6, <2>3 DEF Poll, LoopPC
  <2>7. ASSUME NEW t \in Tags, RemoveOne(l, t) PROVE SingleLoop'
    BY <2>7 DEF RemoveOne
  <2> QED BY <1>3, <2>1, <2>2, <2>4, <2>5, <2>6, <2>7 DEF LoopStep
<1>4. CASE \E g \in Groups, t \in Tags :
              \/ \E e \in BOOLEAN : CreateForGroup(g, t, e)
              \/ AddToGroup(g, t)
              \/ RemoveFromGroup(g, t)
  BY <1>1, <1>4 DEF CreateForGroup, AddToGroup, RemoveFromGroup
<1>5. CASE AddMember \/ Dequeue \/ LookupRemoved
  BY <1>1, <1>5 DEF AddMember, Dequeue, LookupRemoved, LookupOutbound, LookupEndpoint,
       TestDone, Steps
<1>6. CASE Close \/ CloseQueue \/ Tick
  BY <1>1, <1>6 DEF Close, CloseQueue, Tick
<1>7. CASE \E t \in Tags : OpenConn(t) \/ CloseConn(t)
  BY <1>1, <1>7 DEF OpenConn, CloseConn
<1> QED BY <1>1, <1>2, <1>3, <1>4, <1>5, <1>6, <1>7 DEF Next, CallContinues

LEMMA TodoStep ==
  TypeOK /\ SingleLoop /\ TodoIsQueued /\ [Next]_vars => TodoIsQueued'
<1> SUFFICES ASSUME TypeOK, SingleLoop, TodoIsQueued, [Next]_vars,
                    NEW m \in Loops, loop'[m] = "remove"
             PROVE  todo'[m] \subseteq Queued'
  BY DEF TodoIsQueued, At
<1> USE DEF vars, queue, loops, At, GoTo, Queued, TodoIsQueued
<1>1. CASE UNCHANGED <<loop, todo>> /\ DOMAIN pending' = DOMAIN pending
  BY <1>1
<1>2. CASE Dequeue
  BY <1>2 DEF Dequeue, QueueFree
<1>3. CASE Insert
  <2>1. loop[m] = "remove"
    BY <1>3 DEF Insert, TypeOK
  <2> QED BY <1>3, <2>1 DEF Insert, QueueFree
<1>4. CASE Tick
  BY <1>4, <1>1 DEF Tick
<1>5. ASSUME NEW l \in Loops, LoopStep(l) PROVE todo'[m] \subseteq Queued'
  <2>1. CASE StartLoop(l) \/ ExitLoop(l) \/ Snapshot(l) \/ UnlockAfterRemoval(l)
             \/ Poll(l) \/ PollTick(l) \/ StopOnDone(l)
    BY <2>1 DEF StartLoop, ExitLoop, Snapshot, UnlockAfterRemoval, Poll, PollTick,
                StopOnDone, TypeOK
  <2>2. CASE Decide(l)
    BY <2>2 DEF Decide, TypeOK
  <2>3. CASE LockForRemoval(l)
    BY <2>3 DEF LockForRemoval, TypeOK
  <2>4. ASSUME NEW t \in Tags, RemoveOne(l, t) PROVE todo'[m] \subseteq Queued'
    <3>1. m = l
      BY <2>4 DEF RemoveOne, SingleLoop, Active
    <3> QED BY <2>4, <3>1 DEF RemoveOne, TypeOK
  <2> QED BY <1>5, <2>1, <2>2, <2>3, <2>4 DEF LoopStep
<1>6. CASE \E g \in Groups, t \in Tags :
              \/ \E e \in BOOLEAN : CreateForGroup(g, t, e)
              \/ AddToGroup(g, t)
              \/ RemoveFromGroup(g, t)
  BY <1>1, <1>6 DEF CreateForGroup, AddToGroup, RemoveFromGroup
<1>7. CASE AddMember \/ LookupRemoved
  BY <1>1, <1>7 DEF AddMember, LookupRemoved, LookupOutbound, LookupEndpoint, TestDone, Steps
<1>8. CASE Close \/ CloseQueue
  BY <1>1, <1>8 DEF Close, CloseQueue
<1>9. CASE \E t \in Tags : OpenConn(t) \/ CloseConn(t)
  BY <1>1, <1>9 DEF OpenConn, CloseConn
<1>10. CASE UNCHANGED vars
  BY <1>10
<1> QED BY <1>2, <1>3, <1>4, <1>5, <1>6, <1>7, <1>8, <1>9, <1>10
        DEF Next, CallContinues

LEMMA PlainStep ==
  TypeOK /\ InsertsPlain /\ QueueIsPlain /\ [Next]_vars
    => InsertsPlain' /\ QueueIsPlain'
<1> SUFFICES ASSUME TypeOK, InsertsPlain, QueueIsPlain, [Next]_vars
             PROVE  InsertsPlain' /\ QueueIsPlain'
  OBVIOUS
<1> USE DEF vars, queue, loops, Queued, InsertsPlain, QueueIsPlain
<1>1. CASE UNCHANGED call /\ DOMAIN pending' \subseteq DOMAIN pending
  BY <1>1
<1>2. CASE LookupRemoved
  <2>1. call \in Call
    BY <1>2 DEF LookupRemoved, LookupOutbound, LookupEndpoint, TestDone, TypeOK, NoCall
  <2>2. UNCHANGED pending
    BY <1>2 DEF LookupRemoved, LookupOutbound, LookupEndpoint, TestDone
  <2>3. CASE LookupOutbound
    <3>1. Removable(call.tag) => call'.tag = call.tag
      BY <2>1, <2>3 DEF LookupOutbound, Steps, Call
    <3> QED BY <2>2, <2>3, <3>1 DEF LookupOutbound, Removable, Return, NoCall
  <2>4. CASE LookupEndpoint \/ TestDone
    <3>1. ASSUME NEW e, call' = [call EXCEPT !.pc = "enqueue", !.isEndpoint = e]
          PROVE  call'.tag = call.tag
      BY <2>1, <3>1 DEF Call
    <3>2. call'.tag = call.tag \/ call' = NoCall
      <4>1. CASE LookupEndpoint
        BY <3>1, <4>1 DEF LookupEndpoint
      <4>2. CASE TestDone
        BY <2>1, <4>2 DEF TestDone, Steps, Return, Call
      <4> QED BY <2>4, <4>1, <4>2
    <3> QED BY <2>2, <2>4, <3>2 DEF LookupEndpoint, TestDone, NoCall
  <2> QED BY <1>2, <2>3, <2>4 DEF LookupRemoved
<1>3. CASE Insert
  BY <1>3 DEF Insert, Return, NoCall
<1>4. CASE AddMember
  <2>1. call \in Call
    BY <1>4 DEF AddMember, TypeOK, NoCall
  <2>2. call'.pc \notin {"endpoint", "enqueue", "insert"}
    BY <1>4, <2>1 DEF AddMember, Return, NoCall, Call
  <2> QED BY <1>4, <2>2 DEF AddMember
<1>5. CASE Dequeue
  BY <1>5 DEF Dequeue, Return, NoCall
<1>6. CASE \E g \in Groups, t \in Tags :
              \/ \E e \in BOOLEAN : CreateForGroup(g, t, e)
              \/ AddToGroup(g, t)
              \/ RemoveFromGroup(g, t)
  BY <1>6 DEF CreateForGroup, AddToGroup, RemoveFromGroup, Enter
<1>7. ASSUME NEW l \in Loops, LoopStep(l)
      PROVE  UNCHANGED call /\ DOMAIN pending' \subseteq DOMAIN pending
  BY <1>7 DEF LoopStep, StartLoop, Snapshot, Decide, LockForRemoval, RemoveOne,
              UnlockAfterRemoval, Poll, PollTick, StopOnDone, ExitLoop
<1>8. CASE Close \/ CloseQueue \/ Tick
  BY <1>1, <1>8 DEF Close, CloseQueue, Tick
<1>9. CASE \E t \in Tags : OpenConn(t) \/ CloseConn(t)
  BY <1>1, <1>9 DEF OpenConn, CloseConn
<1>10. CASE UNCHANGED vars
  BY <1>10
<1> QED BY <1>1, <1>2, <1>3, <1>4, <1>5, <1>6, <1>7, <1>8, <1>9, <1>10
        DEF Next, CallContinues

LEMMA InitIInv == Init => IInv
BY DEF Init, IInv, SingleLoop, Active, TodoIsQueued, At, InsertsPlain, QueueIsPlain,
       Queued, NoCall

\* The inductive invariant.
THEOREM Inductive == Spec => [](TypeOK /\ IInv)
<1>1. TypeOK /\ IInv /\ [Next]_vars => TypeOK' /\ IInv'
  BY NextType, SingleLoopStep, TodoStep, PlainStep DEF IInv
<1> QED BY <1>1, InitType, InitIInv, PTL DEF Spec

\* At most one checkLoop is past its CompareAndSwap, and running says so.
THEOREM LoopExclusive == Spec => []SingleLoop
<1>1. IInv => SingleLoop
  BY DEF IInv
<1> QED BY <1>1, Inductive, PTL
-----------------------------------------------------------------------------
(* The registries change only as DelayedRemoval allows. *)

LEMMA PromiseInit == Init => Promise!Init
BY DEF Init, Promise!Init, Queued

LEMMA PromiseStep ==
  TypeOK /\ IInv /\ [Next]_vars => [Promise!Next]_Promise!vars
<1> SUFFICES ASSUME TypeOK, IInv, [Next]_vars
             PROVE  [Promise!Next]_Promise!vars
  OBVIOUS
<1> USE DEF vars, registry, queue, loops, Queued, Promise!vars
<1>1. CASE UNCHANGED <<outs, eps>> /\ DOMAIN pending' = DOMAIN pending
  BY <1>1
<1>2. ASSUME NEW g \in Groups, NEW t \in Tags, NEW e \in BOOLEAN,
             CreateForGroup(g, t, e)
      PROVE  [Promise!Next]_Promise!vars
  BY <1>2 DEF CreateForGroup, Promise!Next, Promise!Register
<1>3. CASE Dequeue
  <2>1. call.tag \in Tags
    BY <1>3 DEF Dequeue, TypeOK, Call, NoCall
  <2>2. Promise!Cancel(call.tag)
    BY <1>3 DEF Dequeue, Promise!Cancel
  <2> QED BY <2>1, <2>2 DEF Promise!Next
<1>4. CASE Insert
  <2>1. call.tag \in Tags
    BY <1>4 DEF Insert, TypeOK, Call, NoCall
  <2>2. CASE call.tag \in Queued
    BY <1>1, <1>4, <2>2 DEF Insert
  <2>3. CASE call.tag \notin Queued
    <3>1. Promise!Queue(call.tag)
      BY <1>4, <2>3 DEF Insert, Promise!Queue, IInv, InsertsPlain
    <3> QED BY <2>1, <3>1 DEF Promise!Next
  <2> QED BY <2>2, <2>3
<1>5. ASSUME NEW l \in Loops, LoopStep(l)
      PROVE  [Promise!Next]_Promise!vars
  <2>1. ASSUME NEW t \in Tags, RemoveOne(l, t)
        PROVE  [Promise!Next]_Promise!vars
    <3>1. t \in Queued
      BY <2>1 DEF RemoveOne, IInv, TodoIsQueued
    <3>2. Promise!Remove(t)
      BY <2>1, <3>1 DEF RemoveOne, Promise!Remove
    <3> QED BY <3>2 DEF Promise!Next
  <2>2. CASE StartLoop(l) \/ Snapshot(l) \/ Decide(l) \/ LockForRemoval(l)
             \/ UnlockAfterRemoval(l) \/ Poll(l) \/ PollTick(l) \/ StopOnDone(l)
             \/ ExitLoop(l)
    BY <1>1, <2>2 DEF StartLoop, Snapshot, Decide, LockForRemoval,
       UnlockAfterRemoval, Poll, PollTick, StopOnDone, ExitLoop
  <2> QED BY <1>5, <2>1, <2>2 DEF LoopStep
<1>6. CASE \E g \in Groups, t \in Tags : AddToGroup(g, t) \/ RemoveFromGroup(g, t)
  BY <1>1, <1>6 DEF AddToGroup, RemoveFromGroup
<1>7. CASE AddMember \/ LookupRemoved
  BY <1>1, <1>7 DEF AddMember, LookupRemoved, LookupOutbound, LookupEndpoint, TestDone, Steps
<1>8. CASE Close \/ CloseQueue \/ Tick
  BY <1>1, <1>8 DEF Close, CloseQueue, Tick
<1>9. CASE \E t \in Tags : OpenConn(t) \/ CloseConn(t)
  BY <1>1, <1>9 DEF OpenConn, CloseConn
<1>10. CASE UNCHANGED vars
  BY <1>1, <1>10
<1> QED BY <1>2, <1>3, <1>4, <1>5, <1>6, <1>7, <1>8, <1>9, <1>10
        DEF Next, CallContinues

\* GroupManager implements DelayedRemoval: nothing leaves a registry that was
\* not queued at that instant, and a group is never queued.
THEOREM Implements == Spec => OnlyQueuedRemoved
<1>1. Spec => [](TypeOK /\ IInv)
  BY Inductive
<1>2. Spec => Promise!Init /\ [][Promise!Next]_Promise!vars
  BY <1>1, PromiseInit, PromiseStep, PTL DEF Spec
<1> QED BY <1>2 DEF OnlyQueuedRemoved, Promise!Spec
-----------------------------------------------------------------------------
(* The deadline of a queued item. *)

LEMMA DeadlineStep ==
  TypeOK /\ [Next]_vars
    => \A t \in Queued \intersect Queued' : pending'[t].age >= pending[t].age
<1> SUFFICES ASSUME TypeOK, [Next]_vars, NEW t \in Queued, t \in Queued'
             PROVE  pending'[t].age >= pending[t].age
  OBVIOUS
<1> USE DEF vars, queue, loops, Queued
<1>1. pending[t].age \in Ages /\ pending[t].age \in Int
  <2>1. pending[t] \in Item
    BY PartialElim DEF TypeOK
  <2> QED BY <2>1 DEF Item, Ages
<1>2. CASE pending'[t] = pending[t]
  BY <1>1, <1>2
<1>3. CASE Dequeue
  BY <1>2, <1>3 DEF Dequeue
<1>4. CASE Insert
  BY <1>2, <1>4 DEF Insert
<1>5. CASE Tick
  <2>1. pending[t] \in Item
    BY PartialElim DEF TypeOK
  <2>2. pending'[t].age = Older(pending[t].age)
    BY <1>5, <2>1 DEF Tick, Item
  <2> QED BY <1>1, <2>2, OlderType
<1>6. ASSUME NEW l \in Loops, LoopStep(l) PROVE pending'[t].age >= pending[t].age
  BY <1>2, <1>6 DEF LoopStep, StartLoop, Snapshot, Decide, LockForRemoval, RemoveOne,
                    UnlockAfterRemoval, Poll, PollTick, StopOnDone, ExitLoop
<1>7. CASE \E g \in Groups, s \in Tags :
              \/ \E e \in BOOLEAN : CreateForGroup(g, s, e)
              \/ AddToGroup(g, s)
              \/ RemoveFromGroup(g, s)
  BY <1>2, <1>7 DEF CreateForGroup, AddToGroup, RemoveFromGroup
<1>8. CASE AddMember \/ LookupRemoved \/ Close \/ CloseQueue
  BY <1>2, <1>8 DEF AddMember, LookupRemoved, LookupOutbound, LookupEndpoint,
       TestDone, Steps, Close, CloseQueue
<1>9. CASE \E s \in Tags : OpenConn(s) \/ CloseConn(s)
  BY <1>2, <1>9 DEF OpenConn, CloseConn
<1>10. CASE UNCHANGED vars
  BY <1>2, <1>10
<1> QED BY <1>3, <1>4, <1>5, <1>6, <1>7, <1>8, <1>9, <1>10 DEF Next, CallContinues

\* No step moves the deadline of an item that stays queued.
THEOREM DeadlineNeverMoves == Spec => DeadlineKept
<1>1. TypeOK /\ [Next]_vars
      => [\A t \in Queued \intersect Queued' : pending'[t].age >= pending[t].age]_vars
  BY DeadlineStep
<1> QED BY <1>1, TypeCorrect, PTL DEF Spec, DeadlineKept
-----------------------------------------------------------------------------
(* What is queued has left a group. *)

\* What a call is about to enqueue has left the group of that call.
CallHasLeft ==
    call.pc \in {"lookup", "endpoint", "enqueue", "insert"} => call.tag \notin members[call.group]

\* What is queued has left some group, or is being taken off the queue.
QueuedHasLeft ==
    \A t \in Queued : \/ call.pc = "dequeue" /\ call.tag = t
                      \/ \E g \in Groups : t \notin members[g]

LEMMA HasLeftStep ==
  TypeOK /\ CallHasLeft /\ QueuedHasLeft /\ [Next]_vars => (CallHasLeft /\ QueuedHasLeft)'
<1> SUFFICES ASSUME TypeOK, CallHasLeft, QueuedHasLeft, [Next]_vars
             PROVE  (CallHasLeft /\ QueuedHasLeft)'
  OBVIOUS
<1> USE DEF vars, queue, loops, registry, environment, Queued, CallHasLeft, QueuedHasLeft
<1>1. ASSUME UNCHANGED <<members, call>>, Queued' \subseteq Queued
      PROVE  (CallHasLeft /\ QueuedHasLeft)'
  BY <1>1
<1>2. ASSUME NEW g \in Groups, NEW t \in Tags, NEW e \in BOOLEAN, CreateForGroup(g, t, e)
      PROVE  (CallHasLeft /\ QueuedHasLeft)'
  BY <1>2 DEF CreateForGroup, Enter, Idle
<1>3. ASSUME NEW g \in Groups, NEW t \in Tags, AddToGroup(g, t)
      PROVE  (CallHasLeft /\ QueuedHasLeft)'
  BY <1>3 DEF AddToGroup, Enter, Idle
<1>4. ASSUME NEW g \in Groups, NEW t \in Tags, RemoveFromGroup(g, t)
      PROVE  (CallHasLeft /\ QueuedHasLeft)'
  BY <1>4 DEF RemoveFromGroup, Enter, Idle, TypeOK
<1>5. CASE AddMember
  <2>1. call \in Call
    BY <1>5 DEF AddMember, TypeOK, NoCall
  <2>2. CASE call' = NoCall /\ UNCHANGED members
    BY <1>5, <2>2 DEF AddMember, NoCall
  <2>3. CASE /\ members' = [members EXCEPT ![call.group] = @ \union {call.tag}]
             /\ call' = [call EXCEPT !.pc = "dequeue"]
    <3>1. call'.pc = "dequeue" /\ call'.tag = call.tag
      BY <2>1, <2>3 DEF Call
    <3>2. ASSUME NEW t \in Queued, NEW g \in Groups, t \notin members[g], t # call.tag
          PROVE  t \notin members'[g]
      BY <2>1, <2>3, <3>2 DEF TypeOK, Call
    <3>3. UNCHANGED pending /\ call.pc = "add"
      BY <1>5 DEF AddMember
    <3> QED BY <3>1, <3>2, <3>3
  <2> QED BY <1>5, <2>2, <2>3 DEF AddMember, Return
<1>6. CASE Dequeue
  BY <1>6 DEF Dequeue, Return, NoCall
<1>7. CASE LookupRemoved
  <2>1. call \in Call
    BY <1>7 DEF LookupRemoved, LookupOutbound, LookupEndpoint,
       TestDone, Steps, TypeOK, NoCall
  <2>2. /\ call.pc \in {"lookup", "endpoint", "enqueue"}
        /\ UNCHANGED <<pending, members>>
    BY <1>7 DEF LookupRemoved, LookupOutbound, LookupEndpoint, TestDone
  <2>3. call' = NoCall \/ (call'.tag = call.tag /\ call'.group = call.group)
    BY <1>7, <2>1 DEF LookupRemoved, LookupOutbound, LookupEndpoint,
       TestDone, Steps, Return, Call
  <2> QED BY <2>2, <2>3 DEF NoCall
<1>8. CASE Insert
  <2>1. call \in Call
    BY <1>8 DEF Insert, TypeOK, NoCall
  <2> QED BY <1>8, <2>1 DEF Insert, Return, NoCall, Call
<1>9. CASE Close \/ CloseQueue
  BY <1>1, <1>9 DEF Close, CloseQueue
<1>10. ASSUME NEW l \in Loops, LoopStep(l) PROVE (CallHasLeft /\ QueuedHasLeft)'
  BY <1>1, <1>10 DEF LoopStep, StartLoop, Snapshot, Decide, LockForRemoval, RemoveOne,
                     UnlockAfterRemoval, Poll, PollTick, StopOnDone, ExitLoop
<1>11. ASSUME NEW t \in Tags, OpenConn(t) \/ CloseConn(t) PROVE (CallHasLeft /\ QueuedHasLeft)'
  BY <1>1, <1>11 DEF OpenConn, CloseConn
<1>12. CASE Tick
  BY <1>1, <1>12 DEF Tick
<1>13. CASE UNCHANGED vars
  BY <1>1, <1>13
<1> QED BY <1>2, <1>3, <1>4, <1>5, <1>6, <1>7, <1>8, <1>9, <1>10, <1>11, <1>12, <1>13
        DEF Next, CallContinues

\* No outbound goes while its tag is in every group, but for the window of the
\* call that adds it again.
THEOREM MembersStay == Spec => RemovedHasLeft
<1>1. Init => CallHasLeft /\ QueuedHasLeft
  BY DEF Init, NoCall, CallHasLeft, QueuedHasLeft, Queued
<1>2. TypeOK /\ IInv /\ QueuedHasLeft /\ [Next]_vars
      => [\A t \in Tags :
           /\ Resolvable(t) /\ t \notin outs' \union eps'
           /\ ~(call.pc = "dequeue" /\ call.tag = t)
           => \E g \in Groups : t \notin members[g]]_vars
  <2> SUFFICES ASSUME TypeOK, IInv, QueuedHasLeft, [Next]_vars, NEW t \in Tags, Resolvable(t),
                      t \notin outs' \union eps', ~(call.pc = "dequeue" /\ call.tag = t)
               PROVE  \E g \in Groups : t \notin members[g]
    OBVIOUS
  <2>1. Promise!Next \/ UNCHANGED Promise!vars
    BY PromiseStep
  <2>2. t \in Queued
    BY <2>1 DEF Promise!Next, Promise!vars, Promise!Register, Promise!Queue, Promise!Cancel,
                Promise!Remove, Resolvable
  <2> QED BY <2>2 DEF QueuedHasLeft
<1> QED BY <1>1, <1>2, Inductive, HasLeftStep, PTL DEF Spec, RemovedHasLeft
=============================================================================
