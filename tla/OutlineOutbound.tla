-------------------------- MODULE OutlineOutbound --------------------------
(***************************************************************************)
(* protocol/outline/outbound.go: the smart dialer is made by the first     *)
(* dial, while the others wait, and only once: an error is kept.           *)
(***************************************************************************)
EXTENDS Dialing

VARIABLES
    dialerMutex,  \* who holds it
    once,         \* createDialer, a sync.OnceValues: "no", "made" or "failed"
    smart         \* Outbound.dialer is set

outline == <<dialerMutex, once, smart>>

OutlineInit ==
    /\ dialerMutex = Nobody
    /\ once = "no"
    /\ smart = FALSE

OutlineLock(c) ==
    /\ at[c] = "outline"
    /\ dialerMutex = Nobody
    /\ IF smart
       THEN GoTo(c, "outline.dial") /\ UNCHANGED dialerMutex
       ELSE GoTo(c, "outline.create") /\ dialerMutex' = c
    /\ UNCHANGED <<once, smart>>

\* Returns the error with the mutex held.
LockedCreate(c) ==
    /\ at[c] = "outline.create"
    /\ once' \in IF once = "no" THEN {"made", "failed"} ELSE {once}
    /\ IF once' = "made"
       THEN smart' = TRUE /\ GoTo(c, "outline.dial") /\ dialerMutex' = Nobody
       ELSE UNCHANGED <<smart, dialerMutex>> /\ Fail(c)

\* createDialer: the search for a strategy, or what it came to the first time.
OutlineCreate(c) ==
    /\ at[c] = "outline.create"
    /\ once' \in IF once = "no" THEN {"made", "failed"} ELSE {once}
    /\ dialerMutex' = Nobody
    /\ IF once' = "made"
       THEN smart' = TRUE /\ GoTo(c, "outline.dial")
       ELSE UNCHANGED smart /\ Fail(c)

\* o.dialer is read again, without the mutex.  The host it is told is md.Domain,
\* which is empty (Nobody) unless something has set it.
OutlineDial(c) ==
    /\ at[c] = "outline.dial"
    /\ smart
    /\ \/ \E host \in {want[c], Nobody} : Succeed(c, "outline", {host})
       \/ Fail(c)
    /\ UNCHANGED outline

OutlineStep(c) == OutlineLock(c) \/ OutlineCreate(c) \/ OutlineDial(c)
=============================================================================
