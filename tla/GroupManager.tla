---------------------------- MODULE GroupManager ----------------------------
(***************************************************************************)
(* adapter/groups/manager.go: MutableGroupManager and its removalQueue.    *)
(*                                                                         *)
(* Three kinds of goroutine interleave here:                               *)
(*   - the caller inside MutableGroupManager.mu (at most one: "call");     *)
(*   - the checkLoop goroutines that enqueue starts ("loop");              *)
(*   - Close, which takes no lock.                                         *)
(* A step is what happens between two points where another goroutine can   *)
(* be seen: a critical section of removalQueue.mu, one call into a         *)
(* registry, group or connection manager, one atomic operation.  The time  *)
(* an item has been queued is counted in ticks up to the first that        *)
(* exceeds forceAfter.                                                     *)
(***************************************************************************)
EXTENDS Integers

CONSTANTS Groups,        \* the mutable groups the manager was built with
          Tags,          \* the tags of outbounds and endpoints
          NestedGroups,  \* the tags that name an outbound that is itself a group
          Loops,         \* names for checkLoop goroutines (bounds how many exist)
          ForceAfter     \* removalQueue.forceAfter, in ticks

ASSUME GroupManagerAssumption ==
    /\ NestedGroups \subseteq Tags
    /\ ForceAfter \in Nat

VARIABLES
    members,   \* for each group the tags it holds
    outs,      \* the tags registered with the outbound manager
    eps,       \* the tags registered with the endpoint manager
    conns,     \* the tags that have an open tracked connection
    closed,    \* MutableGroupManager.closed
    done,      \* removalQueue.done has been closed
    call,      \* the call that holds MutableGroupManager.mu
    pending,   \* removalQueue.pending: a function on the queued tags
    running,   \* removalQueue.running
    loop,      \* where each checkLoop goroutine is
    snap,      \* checkPending's copy of pending: the age of each copied item
    todo       \* checkPending's toRemove

registry == <<outs, eps>>
queue == <<pending, running>>
loops == <<loop, snap, todo>>
environment == <<conns, closed, done>>
vars == <<members, registry, environment, call, queue, loops>>

-----------------------------------------------------------------------------
(* State *)

Ages == 0 .. (ForceAfter + 1)          \* ForceAfter + 1: any longer time
Item == [isEndpoint : BOOLEAN, age : Ages]
Partial(V) == UNION {[S -> V] : S \in SUBSET Tags}

Expired(age) == age > ForceAfter

Older(age) == IF Expired(age) THEN age ELSE age + 1

Queued == DOMAIN pending

\* OutboundManager.Outbound also finds the endpoints.
Resolvable(t) == t \in outs \union eps

NoCall == [pc |-> "idle"]
Call == [pc : {"add", "dequeue", "lookup", "endpoint", "enqueue", "insert"},
         group : Groups, tag : Tags, isEndpoint : BOOLEAN]

LoopPC == {"none",      \* not started, or returned
           "start",     \* spawned, before the CompareAndSwap
           "snapshot",  \* about to copy pending
           "decide",    \* has the copy, about to read the connections
           "lock",      \* toRemove is not empty, waiting for rq.mu
           "remove",    \* holds rq.mu and removes item by item
           "poll",      \* about to look at len(pending)
           "select",    \* waits for the ticker or for done
           "exit"}      \* returning: running is still true

TypeOK ==
    /\ members \in [Groups -> SUBSET Tags]
    /\ outs \subseteq Tags
    /\ eps \subseteq Tags
    /\ conns \subseteq Tags
    /\ closed \in BOOLEAN
    /\ done \in BOOLEAN
    /\ call \in Call \union {NoCall}
    /\ pending \in Partial(Item)
    /\ running \in BOOLEAN
    /\ loop \in [Loops -> LoopPC]
    /\ snap \in [Loops -> Partial(Ages)]
    /\ todo \in [Loops -> SUBSET Tags]

\* Some goroutine is inside the one critical section of rq.mu that takes
\* several steps.
QueueFree == \A l \in Loops : loop[l] # "remove"

EmptyCopy == [t \in {} |-> 0]

\* A manager on the configured outbounds and groups; a group holds only tags
\* its Start resolved.
Init ==
    /\ outs \in {S \in SUBSET Tags : NestedGroups \subseteq S}
    /\ eps \in SUBSET (Tags \ outs)
    /\ members \in [Groups -> SUBSET (outs \union eps)]
    /\ conns = {}
    /\ closed = FALSE
    /\ done = FALSE
    /\ call = NoCall
    /\ pending = [t \in {} |-> [isEndpoint |-> FALSE, age |-> 0]]
    /\ running = FALSE
    /\ loop = [l \in Loops |-> "none"]
    /\ snap = [l \in Loops |-> EmptyCopy]
    /\ todo = [l \in Loops |-> {}]

-----------------------------------------------------------------------------
(* The calls that hold MutableGroupManager.mu *)

Idle == call.pc = "idle"
Enter(pc, g, t) ==
    call' = [pc |-> pc, group |-> g, tag |-> t, isEndpoint |-> FALSE]
Return == call' = NoCall

\* CreateOutboundForGroup and CreateEndpointForGroup up to mgr.Create, which
\* registers the tag (replacing what had it).  A Create that fails changes
\* nothing.
CreateForGroup(g, t, isEndpoint) ==
    /\ Idle
    /\ ~closed
    /\ IF isEndpoint
       THEN t \notin NestedGroups /\ eps' = eps \union {t} /\ UNCHANGED outs
       ELSE outs' = outs \union {t} /\ UNCHANGED eps
    /\ Enter("add", g, t)
    /\ UNCHANGED <<members, environment, queue, loops>>

AddToGroup(g, t) ==
    /\ Idle
    /\ ~closed
    /\ Enter("add", g, t)
    /\ UNCHANGED <<members, registry, environment, queue, loops>>

\* outGroup.Add(tag): an error when the tag is there already or when the
\* outbound manager does not know it.
AddMember ==
    /\ call.pc = "add"
    /\ IF call.tag \in members[call.group] \/ ~Resolvable(call.tag)
       THEN Return /\ UNCHANGED members
       ELSE /\ members' = [members EXCEPT ![call.group] = @ \union {call.tag}]
            /\ call' = [call EXCEPT !.pc = "dequeue"]
    /\ UNCHANGED <<registry, environment, queue, loops>>

\* Returns without a look at the queue.
ForgetfulDequeue ==
    /\ call.pc = "dequeue"
    /\ Return
    /\ UNCHANGED <<members, registry, environment, queue, loops>>

\* removalQueue.dequeue.
Dequeue ==
    /\ call.pc = "dequeue"
    /\ QueueFree
    /\ pending' = [t \in Queued \ {call.tag} |-> pending[t]]
    /\ Return
    /\ UNCHANGED <<members, registry, environment, running, loops>>

\* RemoveFromGroup up to groupObj.Remove; a tag that is not in the group is an
\* error that changes nothing.
RemoveFromGroup(g, t) ==
    /\ Idle
    /\ ~closed
    /\ t \in members[g]
    /\ members' = [members EXCEPT ![g] = @ \ {t}]
    /\ Enter("lookup", g, t)
    /\ UNCHANGED <<registry, environment, queue, loops>>

\* A known outbound that is not itself a group.
Removable(t) == Resolvable(t) /\ t \notin NestedGroups

Steps(pc) == call' = [call EXCEPT !.pc = pc]

LookupOutbound ==
    /\ call.pc = "lookup"
    /\ IF Removable(call.tag) THEN Steps("endpoint") ELSE Return
    /\ UNCHANGED <<members, registry, environment, queue, loops>>

\* A checkPending may have removed the tag since the outbound manager knew it.
LookupEndpoint ==
    /\ call.pc = "endpoint"
    /\ call' = [call EXCEPT !.pc = "enqueue", !.isEndpoint = call.tag \in eps]
    /\ UNCHANGED <<members, registry, environment, queue, loops>>

\* enqueue looks at done before it takes rq.mu.
TestDone ==
    /\ call.pc = "enqueue"
    /\ IF done THEN Return ELSE Steps("insert")
    /\ UNCHANGED <<members, registry, environment, queue, loops>>

LookupRemoved == LookupOutbound \/ LookupEndpoint \/ TestDone

\* An enqueue that starts the item's time again when the tag is queued.
RestartingInsert ==
    /\ call.pc = "insert"
    /\ QueueFree
    /\ LET fresh == [isEndpoint |-> call.isEndpoint, age |-> 0]
       IN  pending' = [t \in Queued \union {call.tag} |->
                          IF t = call.tag THEN fresh ELSE pending[t]]
    /\ IF running
       THEN UNCHANGED loop
       ELSE \E l \in Loops : loop[l] = "none" /\ loop' = [loop EXCEPT ![l] = "start"]
    /\ Return
    /\ UNCHANGED <<members, registry, environment, running, snap, todo>>

\* The critical section of enqueue: a tag that is queued keeps its item and
\* no goroutine is started for it.  Bound: a goroutine name must be free.
Insert ==
    /\ call.pc = "insert"
    /\ QueueFree
    /\ IF call.tag \in Queued
       THEN UNCHANGED <<pending, loop>>
       ELSE /\ pending' = [t \in Queued \union {call.tag} |->
                              IF t \in Queued THEN pending[t]
                              ELSE [isEndpoint |-> call.isEndpoint, age |-> 0]]
            /\ IF running
               THEN UNCHANGED loop
               ELSE \E l \in Loops : /\ loop[l] = "none"
                                     /\ loop' = [loop EXCEPT ![l] = "start"]
    /\ Return
    /\ UNCHANGED <<members, registry, environment, running, snap, todo>>

CallContinues == AddMember \/ Dequeue \/ LookupRemoved \/ Insert

-----------------------------------------------------------------------------
(* Close *)

Close ==
    /\ ~closed
    /\ closed' = TRUE
    /\ UNCHANGED <<members, registry, conns, done, call, queue, loops>>

\* removalQueue.close.
CloseQueue ==
    /\ closed
    /\ ~done
    /\ done' = TRUE
    /\ UNCHANGED <<members, registry, conns, closed, call, queue, loops>>

-----------------------------------------------------------------------------
(* removalQueue.checkLoop and checkPending *)

At(l, pc) == loop[l] = pc
GoTo(l, pc) == loop' = [loop EXCEPT ![l] = pc]

\* A load and a store in place of the CompareAndSwap.
UnguardedStart(l) ==
    /\ At(l, "start")
    /\ running' = TRUE
    /\ GoTo(l, "snapshot")
    /\ UNCHANGED <<members, registry, environment, call, pending, snap, todo>>

\* running.CompareAndSwap(false, true).
StartLoop(l) ==
    /\ At(l, "start")
    /\ running' = TRUE
    /\ GoTo(l, IF running THEN "none" ELSE "snapshot")
    /\ UNCHANGED <<members, registry, environment, call, pending, snap, todo>>

Snapshot(l) ==
    /\ At(l, "snapshot")
    /\ QueueFree
    /\ snap' = [snap EXCEPT ![l] = [t \in Queued |-> pending[t].age]]
    /\ GoTo(l, "decide")
    /\ UNCHANGED <<members, registry, environment, call, queue, todo>>

\* Does not look at the time in the queue.
PatientDecision(l) == {t \in DOMAIN snap[l] : t \notin conns}

\* toRemove: the copied items with no open connection or queued too long.
Decision(l) == {t \in DOMAIN snap[l] : t \notin conns \/ Expired(snap[l][t])}

\* Connections() and the loop over the copy.  The copy is not used again.
Decide(l) ==
    /\ At(l, "decide")
    /\ todo' = [todo EXCEPT ![l] = Decision(l)]
    /\ snap' = [snap EXCEPT ![l] = EmptyCopy]
    /\ GoTo(l, IF Decision(l) = {} THEN "poll" ELSE "lock")
    /\ UNCHANGED <<members, registry, environment, call, queue>>

\* rq.mu.Lock: items dequeued since the copy was made are passed over.
LockForRemoval(l) ==
    /\ At(l, "lock")
    /\ QueueFree
    /\ todo' = [todo EXCEPT ![l] = @ \intersect Queued]
    /\ GoTo(l, "remove")
    /\ UNCHANGED <<members, registry, environment, call, queue, snap>>

\* Calls dequeue, which waits for the rq.mu that this goroutine holds.
RelockingRemove(l, t) ==
    /\ At(l, "remove")
    /\ t \in todo[l]
    /\ QueueFree
    /\ IF pending[t].isEndpoint
       THEN eps' = eps \ {t} /\ UNCHANGED outs
       ELSE outs' = outs \ {t} /\ UNCHANGED eps
    /\ pending' = [s \in Queued \ {t} |-> pending[s]]
    /\ todo' = [todo EXCEPT ![l] = @ \ {t}]
    /\ UNCHANGED <<members, environment, call, running, loop, snap>>

\* Without delete(rq.pending, tag).
UndeletedRemove(l, t) ==
    /\ At(l, "remove")
    /\ t \in todo[l]
    /\ IF pending[t].isEndpoint
       THEN eps' = eps \ {t} /\ UNCHANGED outs
       ELSE outs' = outs \ {t} /\ UNCHANGED eps
    /\ todo' = [todo EXCEPT ![l] = @ \ {t}]
    /\ UNCHANGED <<members, environment, call, queue, loop, snap>>

\* One round of the removal loop.  The manager that is asked is the one the
\* queued item names; a tag it does not know is an error nobody looks at.
RemoveOne(l, t) ==
    /\ At(l, "remove")
    /\ t \in todo[l]
    /\ IF pending[t].isEndpoint
       THEN eps' = eps \ {t} /\ UNCHANGED outs
       ELSE outs' = outs \ {t} /\ UNCHANGED eps
    /\ pending' = [s \in Queued \ {t} |-> pending[s]]
    /\ todo' = [todo EXCEPT ![l] = @ \ {t}]
    /\ UNCHANGED <<members, environment, call, running, loop, snap>>

UnlockAfterRemoval(l) ==
    /\ At(l, "remove")
    /\ todo[l] = {}
    /\ GoTo(l, "poll")
    /\ UNCHANGED <<members, registry, environment, call, queue, snap, todo>>

Poll(l) ==
    /\ At(l, "poll")
    /\ QueueFree
    /\ GoTo(l, IF Queued = {} THEN "exit" ELSE "select")
    /\ UNCHANGED <<members, registry, environment, call, queue, snap, todo>>

\* select: the ticker.
PollTick(l) ==
    /\ At(l, "select")
    /\ GoTo(l, "snapshot")
    /\ UNCHANGED <<members, registry, environment, call, queue, snap, todo>>

\* select: done is closed.
StopOnDone(l) ==
    /\ At(l, "select")
    /\ done
    /\ GoTo(l, "exit")
    /\ UNCHANGED <<members, registry, environment, call, queue, snap, todo>>

\* The deferred running.Store(false).
ExitLoop(l) ==
    /\ At(l, "exit")
    /\ running' = FALSE
    /\ GoTo(l, "none")
    /\ UNCHANGED <<members, registry, environment, call, pending, snap, todo>>

LoopStep(l) ==
    \/ StartLoop(l)
    \/ Snapshot(l)
    \/ Decide(l)
    \/ LockForRemoval(l)
    \/ \E t \in Tags : RemoveOne(l, t)
    \/ UnlockAfterRemoval(l)
    \/ Poll(l)
    \/ PollTick(l)
    \/ StopOnDone(l)
    \/ ExitLoop(l)

-----------------------------------------------------------------------------
(* The environment *)

\* Traffic is routed to a registered outbound, by a group or by a rule; the
\* tracker files a connection under the outbound at the end of the chain of
\* groups, never under a group.
OpenConn(t) ==
    /\ Removable(t)
    /\ conns' = conns \union {t}
    /\ UNCHANGED <<members, registry, closed, done, call, queue, loops>>

CloseConn(t) ==
    /\ conns' = conns \ {t}
    /\ UNCHANGED <<members, registry, closed, done, call, queue, loops>>

\* Time passes for the queued items and for the copies of them.
Tick ==
    /\ pending' = [t \in Queued |-> [pending[t] EXCEPT !.age = Older(@)]]
    /\ snap' = [l \in Loops |-> [t \in DOMAIN snap[l] |-> Older(snap[l][t])]]
    /\ UNCHANGED <<members, registry, environment, call, running, loop, todo>>

Next ==
    \/ \E g \in Groups, t \in Tags :
          \/ \E isEndpoint \in BOOLEAN : CreateForGroup(g, t, isEndpoint)
          \/ AddToGroup(g, t)
          \/ RemoveFromGroup(g, t)
    \/ CallContinues
    \/ Close
    \/ CloseQueue
    \/ \E l \in Loops : LoopStep(l)
    \/ \E t \in Tags : OpenConn(t) \/ CloseConn(t)
    \/ Tick

Spec == Init /\ [][Next]_vars

\* A goroutine that can run runs; a call that was entered goes on; time
\* passes.  A loop that is back at its select while done is closed does not
\* choose the ticker for ever: Go chooses uniformly among the ready cases.
Fairness ==
    /\ WF_vars(CallContinues)
    /\ WF_vars(CloseQueue)
    /\ WF_vars(Tick)
    /\ \A l \in Loops : WF_vars(LoopStep(l)) /\ SF_vars(StopOnDone(l))

FairSpec == Spec /\ Fairness

-----------------------------------------------------------------------------
(* Properties *)

Active(l) == loop[l] \notin {"none", "start"}

\* However many goroutines enqueue has started before one of them set
\* running, exactly one is between its CompareAndSwap and its deferred Store
\* when running is true, and none when it is false: no two checkPending ever
\* run against each other (manager.go:250-265).
SingleLoop ==
    /\ running <=> \E l \in Loops : Active(l)
    /\ \A l, m \in Loops : Active(l) /\ Active(m) => l = m

\* The registries change only as the abstract specification allows: what
\* checkPending takes out of a manager was queued at that instant, whatever it
\* decided on an older copy (manager.go:309-323), and never names a group
\* (manager.go:185-186).
Promise == INSTANCE DelayedRemoval WITH queued <- Queued
OnlyQueuedRemoved == Promise!Spec

\* The deadline of a queued item does not move: a second RemoveFromGroup of a
\* tag that is already queued leaves its addedAt alone, so an outbound in use
\* cannot be kept for ever by removing it again (manager.go:242-244).
DeadlineKept ==
    [][\A t \in Queued \intersect Queued' : pending'[t].age >= pending[t].age]_vars

\* Some goroutine will look at the queue again before it returns.
Watched == \E l \in Loops : Active(l) /\ loop[l] # "exit"

\* A queued item that a loop watches leaves the queue, however long it is in
\* use, unless the manager is closed first (manager.go:286-287, forceAfter).
WatchedIsRemoved ==
    \A t \in Tags : (t \in Queued /\ Watched) ~> (t \notin Queued \/ done)

\* Once the queue is closed every goroutine it started returns, the one too
\* that an enqueue past its test of done starts afterwards
\* (manager.go:234-238, 280-281).
CloseStopsLoops == done ~> [](\A l \in Loops : loop[l] = "none")

\* "removalQueue handles delayed removal of outbounds/endpoints"
\* (manager.go:193): what is queued leaves the queue unless the manager is
\* closed.  The code does not keep this: see QueuedIsRemoved in the README.
QueuedIsRemoved == \A t \in Tags : t \in Queued ~> (t \notin Queued \/ done)

\* A tag loses its outbound only while some group it could be in does not have
\* it: with one group, never while it is a member.  The exception is the call
\* that has put it back and has not yet taken it off the queue, during which
\* checkPending may still remove it; the call then returns nil for a tag that
\* is in the group and gone, though manager_test.go:88 expects that the "tag
\* should still be present after re-adding" (manager.go:148-157, 309-323).
RemovedHasLeft ==
    [][\A t \in Tags :
         /\ Resolvable(t) /\ t \notin outs' \union eps'
         /\ ~(call.pc = "dequeue" /\ call.tag = t)
         => \E g \in Groups : t \notin members[g]]_vars
=============================================================================
