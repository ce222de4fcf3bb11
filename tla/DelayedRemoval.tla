--------------------------- MODULE DelayedRemoval ---------------------------
(***************************************************************************)
(* What adapter/groups/manager.go promises the rest of the program about   *)
(* the outbound and endpoint registries, with nothing of how it is done:   *)
(* a tag may be registered at any time, be queued for removal, have its    *)
(* removal cancelled, and be removed; nothing leaves a registry that was   *)
(* not queued at that moment, a removed tag is off the queue in the same   *)
(* step, and a tag that names an outbound group is never queued.           *)
(***************************************************************************)
CONSTANTS Tags,         \* the tags of outbounds and endpoints
          NestedGroups  \* the tags among them that name an outbound group

VARIABLES outs,   \* the tags in the outbound registry
          eps,    \* the tags in the endpoint registry
          queued  \* the tags waiting to be removed

vars == <<outs, eps, queued>>

Init ==
    /\ outs \in SUBSET Tags
    /\ eps \in SUBSET (Tags \ NestedGroups)
    /\ NestedGroups \subseteq outs
    /\ queued = {}

\* Creating an outbound or an endpoint registers its tag.
Register(t) ==
    /\ \/ outs' = outs \union {t} /\ UNCHANGED eps
       \/ eps' = eps \union {t} /\ t \notin NestedGroups /\ UNCHANGED outs
    /\ UNCHANGED queued

\* Leaving a group puts a tag on the queue.
Queue(t) ==
    /\ t \notin queued \union NestedGroups
    /\ queued' = queued \union {t}
    /\ UNCHANGED <<outs, eps>>

\* Joining a group takes the tag off the queue again.
Cancel(t) ==
    /\ queued' = queued \ {t}
    /\ UNCHANGED <<outs, eps>>

\* The removal itself, from one of the two registries.
Remove(t) ==
    /\ t \in queued
    /\ queued' = queued \ {t}
    /\ \/ outs' = outs \ {t} /\ UNCHANGED eps
       \/ eps' = eps \ {t} /\ UNCHANGED outs

Next == \E t \in Tags : Register(t) \/ Queue(t) \/ Cancel(t) \/ Remove(t)

Spec == Init /\ [][Next]_vars
=============================================================================
