---------------------------- MODULE URLTestGroup ----------------------------
(***************************************************************************)
(* protocol/group/mutableurltest.go: the members, the url test history and *)
(* the selection of a urlTestGroup.                                        *)
(*                                                                         *)
(* Add and Remove hold access.  The checks (urlTest, kept single by the    *)
(* flag checking), the test goroutines of a check, its updateSelected and  *)
(* the dials hold nothing: they meet Add and Remove in the history and in  *)
(* the selection.  TCP and UDP each have a selection, picked by the same   *)
(* code from the members that support them; one of the two is modelled.    *)
(* The loop that starts checks is left to the environment: a check may     *)
(* start at any time.                                                      *)
(***************************************************************************)
EXTENDS URLTestDelay, FiniteSets

CONSTANTS Nested,    \* the tags that name a group; the rest name real outbounds
          Dead,      \* the outbounds every test and every dial fails through
          Good,      \* those none fails through; the rest fail now and then
          Measured,  \* the delays that tests measure
          Checkers   \* goroutines that call urlTest

ASSUME URLTestGroupAssumption ==
    /\ IsFiniteSet(Tags)
    /\ Nested \subseteq Tags
    /\ Dead \subseteq Tags \ Nested
    /\ Good \subseteq Tags \ (Nested \union Dead)
    /\ Measured \subseteq Delays

VARIABLES
    members,   \* the tags in urlTestGroup.outbounds (and, but for Remove, in tags)
    history,   \* for each real outbound its delay in the history storage, or Nil
    now,       \* for each nested group what its Now returns
    selected,  \* selectedOutboundTCP
    checking,  \* urlTestGroup.checking
    checker,   \* where each goroutine is in urlTest
    testing,   \* the outbounds it is testing
    removing,  \* how far Remove has got with access held
    update,    \* each updateSelected between its pick and its store
    dial,      \* the outbound a dial goes through, Nil without a dial
    sawEmpty   \* (history) a check found tags empty

check == <<checking, checker, testing>>
vars == <<members, history, now, selected, check, removing, update, dial, sawEmpty>>

Plain == Tags \ Nested
RealTag(t) == IF t = Nil THEN Nil ELSE IF t \in Nested THEN now[t] ELSE t
Delay(t) == IF RealTag(t) = Nil THEN Nil ELSE history[RealTag(t)]

\* Who runs updateSelected: a check, or Remove ("remove").
Updaters == Checkers \union {"remove"}
NoUpdate == [pc |-> "none"]
Update == [pc : {"store"}, best : Tags \union {Nil}, keep : BOOLEAN]

TypeOK ==
    /\ members \subseteq Tags
    /\ history \in [Plain -> Delays \union {Nil}]
    /\ now \in [Nested -> Plain \union {Nil}]
    /\ selected \in Tags \union {Nil}
    /\ checking \in BOOLEAN
    /\ checker \in [Checkers -> {"idle", "entered", "testing", "leaving"}]
    /\ testing \in [Checkers -> SUBSET Plain]
    /\ removing \in {"no", "deleted", "emptied", "filled"}
    /\ update \in [Updaters -> Update \union {NoUpdate}]
    /\ dial \in Tags \union {Nil}
    /\ sawEmpty \in BOOLEAN

-----------------------------------------------------------------------------
(* pickBestOutbound *)

Candidates == {t \in members : RealTag(t) # Nil}

\* What pickBestOutbound may return when it starts from current, the delays and the
\* members being what they are now (see PickBestOutbound for the loop step by step).
Picks(current) == PicksFrom([t \in Tags |-> Delay(t)], Candidates, current)

\* Start has run on the configured members; the history may be shared with
\* other groups and hold anything.
Init ==
    /\ members \in SUBSET Tags \ {{}}
    /\ history \in [Plain -> Measured \union {Nil}]
    /\ now \in [Nested -> Plain \union {Nil}]
    /\ selected \in Picks(Nil)
    /\ checking = FALSE
    /\ checker = [c \in Checkers |-> "idle"]
    /\ testing = [c \in Checkers |-> {}]
    /\ removing = "no"
    /\ update = [u \in Updaters |-> NoUpdate]
    /\ dial = Nil
    /\ sawEmpty = FALSE

-----------------------------------------------------------------------------
(* updateSelected *)

\* len(g.tags) = 0: Remove empties tags and fills it again, in the sight of the
\* checks, which hold no lock; before that tags still has what is deleted.
LooksEmpty == removing = "emptied" \/ (removing # "deleted" /\ members = {})

\* The selection is loaded and the best picked, or, when the group looks empty,
\* none; a later step stores the pick.  The histories, which the loop reads one
\* after the other without a lock, are read in this one step.
BeginUpdate(u) ==
    \/ /\ LooksEmpty
       /\ update' = [update EXCEPT ![u] = [pc |-> "store", best |-> Nil, keep |-> FALSE]]
    \/ /\ ~LooksEmpty
       /\ \E best \in Picks(selected) :
             update' = [update EXCEPT ![u] =
                           [pc |-> "store", best |-> best, keep |-> best = selected]]

EndUpdate(u) ==
    /\ selected' = IF update[u].keep THEN selected ELSE update[u].best
    /\ update' = [update EXCEPT ![u] = NoUpdate]

-----------------------------------------------------------------------------
(* Add and Remove *)

AccessFree == removing = "no" /\ update["remove"] = NoUpdate

\* Adds what the outbound manager returned without looking at found.
BlindAdd(found) ==
    /\ AccessFree
    /\ members' = members \union found \union {Nil}
    /\ UNCHANGED <<history, now, selected, check, removing, update, dial, sawEmpty>>

\* Add(tags): those the outbound manager knows.
Add(found) ==
    /\ AccessFree
    /\ members' = members \union found
    /\ UNCHANGED <<history, now, selected, check, removing, update, dial, sawEmpty>>

\* Remove(tags) up to the end of its deletions: the history is deleted under the
\* tags themselves, which for a nested group is not the tag its history is filed
\* under.
Remove(tags) ==
    /\ AccessFree
    /\ members # {}
    /\ members' = members \ tags
    /\ history' = [t \in Plain |-> IF t \in tags \intersect members THEN Nil
                                   ELSE history[t]]
    /\ removing' = "deleted"
    /\ UNCHANGED <<now, selected, check, update, dial, sawEmpty>>

\* g.tags = g.tags[:0], and the appending of what is left.
RemoveEmpties ==
    /\ removing = "deleted"
    /\ removing' = "emptied"
    /\ UNCHANGED <<members, history, now, selected, check, update, dial, sawEmpty>>

RemoveFills ==
    /\ removing = "emptied"
    /\ removing' = "filled"
    /\ UNCHANGED <<members, history, now, selected, check, update, dial, sawEmpty>>

RemoveUpdates ==
    /\ removing = "filled"
    /\ removing' = "no"
    /\ BeginUpdate("remove")
    /\ UNCHANGED <<members, history, now, selected, check, dial, sawEmpty>>

RemoveReturns ==
    /\ update["remove"] # NoUpdate
    /\ EndUpdate("remove")
    /\ UNCHANGED <<members, history, now, check, removing, dial, sawEmpty>>

-----------------------------------------------------------------------------
(* urlTest *)

At(c, pc) == checker[c] = pc
GoTo(c, pc) == checker' = [checker EXCEPT ![c] = pc]

\* Does not look at the flag.
CarelessEnter(c) ==
    /\ At(c, "idle")
    /\ checking' = TRUE
    /\ GoTo(c, "entered")
    /\ UNCHANGED <<members, history, now, selected, testing, removing, update, dial,
                   sawEmpty>>

\* checking.Swap(true); a check that finds it true returns.
Enter(c) ==
    /\ At(c, "idle")
    /\ ~checking
    /\ checking' = TRUE
    /\ GoTo(c, "entered")
    /\ UNCHANGED <<members, history, now, selected, testing, removing, update, dial,
                   sawEmpty>>

\* The return on a group that is empty, or looks so, leaves checking true.
FindEmpty(c) ==
    /\ At(c, "entered")
    /\ LooksEmpty
    /\ sawEmpty' = TRUE
    /\ GoTo(c, "idle")
    /\ UNCHANGED <<members, history, now, selected, checking, testing, removing,
                   update, dial>>

\* Members that are url test groups are told to test themselves, and a member
\* without a real tag is skipped.
ToTest == {RealTag(t) : t \in Candidates}

\* The tests are started, but for those with a history that is recent enough
\* (unless forced) or with a real tag that is not registered: skip.
Collect(c, skip) ==
    /\ At(c, "entered")
    /\ ~LooksEmpty
    /\ skip \subseteq ToTest
    /\ testing' = [testing EXCEPT ![c] = ToTest \ skip]
    /\ GoTo(c, "testing")
    /\ UNCHANGED <<members, history, now, selected, checking, removing, update, dial,
                   sawEmpty>>

TestOutcomes(t) == (IF t \in Dead THEN {} ELSE Measured) \union
                   (IF t \in Good THEN {} ELSE {Nil})

\* Keeps the last known delay of an outbound that fails its test.
ForgivingTest(c, t, delay) ==
    /\ t \in testing[c]
    /\ delay \in TestOutcomes(t)
    /\ history' = [history EXCEPT ![t] = IF delay = Nil THEN @ ELSE delay]
    /\ testing' = [testing EXCEPT ![c] = @ \ {t}]
    /\ UNCHANGED <<members, now, selected, checking, checker, removing, update, dial,
                   sawEmpty>>

\* A test stores the delay, or deletes the history when it fails (Nil).
Test(c, t, delay) ==
    /\ t \in testing[c]
    /\ delay \in TestOutcomes(t)
    /\ history' = [history EXCEPT ![t] = delay]
    /\ testing' = [testing EXCEPT ![c] = @ \ {t}]
    /\ UNCHANGED <<members, now, selected, checking, checker, removing, update, dial,
                   sawEmpty>>

\* All tests have ended.
CheckUpdates(c) ==
    /\ At(c, "testing")
    /\ testing[c] = {}
    /\ BeginUpdate(c)
    /\ GoTo(c, "leaving")
    /\ UNCHANGED <<members, history, now, selected, checking, testing, removing, dial,
                   sawEmpty>>

CheckStores(c) ==
    /\ At(c, "leaving")
    /\ update[c] # NoUpdate
    /\ EndUpdate(c)
    /\ UNCHANGED <<members, history, now, check, removing, dial, sawEmpty>>

\* Leaves the flag set.
ForgetfulLeave(c) ==
    /\ At(c, "leaving")
    /\ update[c] = NoUpdate
    /\ GoTo(c, "idle")
    /\ UNCHANGED <<members, history, now, selected, checking, testing, removing,
                   update, dial, sawEmpty>>

\* The deferred checking.Store(false).
Leave(c) ==
    /\ At(c, "leaving")
    /\ update[c] = NoUpdate
    /\ checking' = FALSE
    /\ GoTo(c, "idle")
    /\ UNCHANGED <<members, history, now, selected, testing, removing, update, dial,
                   sawEmpty>>

CheckStep(c) ==
    \/ FindEmpty(c)
    \/ \E skip \in SUBSET Plain : Collect(c, skip)
    \/ \E t \in Plain, delay \in Measured \union {Nil} : Test(c, t, delay)
    \/ CheckUpdates(c)
    \/ CheckStores(c)
    \/ Leave(c)

-----------------------------------------------------------------------------
(* DialContext and ListenPacket *)

\* selectOutbound: what is selected, or a pick that is not kept.
Dial ==
    /\ dial = Nil
    /\ dial' \in IF selected # Nil THEN {selected} ELSE Picks(Nil)
    /\ UNCHANGED <<members, history, now, selected, check, removing, update, sawEmpty>>

\* A failed dial deletes the history filed under the outbound's own tag.
DialEnds(failed) ==
    /\ dial # Nil
    /\ RealTag(dial) \in Dead => failed
    /\ RealTag(dial) \in Good => ~failed
    /\ history' = IF failed /\ dial \in Plain THEN [history EXCEPT ![dial] = Nil]
                  ELSE history
    /\ dial' = Nil
    /\ UNCHANGED <<members, now, selected, check, removing, update, sawEmpty>>

\* A nested group moves its own selection.
NestedMoves(n, t) ==
    /\ now' = [now EXCEPT ![n] = t]
    /\ UNCHANGED <<members, history, selected, check, removing, update, dial, sawEmpty>>

Next ==
    \/ \E tags \in SUBSET Tags : Add(tags) \/ Remove(tags)
    \/ RemoveEmpties
    \/ RemoveFills
    \/ RemoveUpdates
    \/ RemoveReturns
    \/ \E c \in Checkers : Enter(c) \/ CheckStep(c)
    \/ Dial
    \/ \E failed \in BOOLEAN : DialEnds(failed)
    \/ \E n \in Nested, t \in Plain \union {Nil} : NestedMoves(n, t)

Spec == Init /\ [][Next]_vars

\* A check starts a test of t.
Tests(t) ==
    /\ t \in ToTest
    /\ \E c \in Checkers, skip \in SUBSET (Plain \ {t}) : Collect(c, skip)

\* Goroutines run; the ticker keeps starting checks; a dial ends.  An outbound
\* that is there to be tested is tested again and again, though no check need
\* test them all: each has its own time, and is tested by the first check after
\* its history is older than the interval (465-467), here or in the url test
\* group that is nested and files its history in the same storage.
Fairness ==
    /\ WF_vars(RemoveEmpties \/ RemoveFills \/ RemoveUpdates \/ RemoveReturns)
    /\ WF_vars(\E failed \in BOOLEAN : DialEnds(failed))
    /\ \A c \in Checkers : WF_vars(Enter(c)) /\ WF_vars(CheckStep(c))
    /\ \A t \in Plain : SF_vars(Tests(t))

FairSpec == Spec /\ Fairness

-----------------------------------------------------------------------------
(* Properties *)

Inside(c) == checker[c] # "idle"

\* Checks do not overlap, however many goroutines ask for one
\* (mutableurltest.go:440).
OneCheck == \A c, d \in Checkers : Inside(c) /\ Inside(d) => c = d

\* The flag is true only while a check runs, or for good after a check that
\* found tags empty, which a group with members shows in the middle of a Remove:
\* no other way out of a check leaves it set (mutableurltest.go:440-447).
FlagHeldOnlyByCheck == checking => sawEmpty \/ \E c \in Checkers : Inside(c)

\* The group does not stay on a member that leads to an outbound every test
\* fails through while another member works, whatever is added, removed,
\* dialled or moved meanwhile (mutableurltest.go:480-484, 497, 518-545), unless a
\* check has found tags empty, in an empty group or in the middle of a Remove
\* (368-371), and checks have stopped for good (443-445).
DeadIsLeft ==
    []<>(\/ RealTag(selected) \notin Dead
         \/ selected \notin members
         \/ members \intersect Good = {}
         \/ sawEmpty)

\* "Remove removes the given outbound tags from the group"
\* (mutableurltest.go:123): with no call and no check under way the group's
\* selection, which it dials through, is one of its members.
RemovedNotSelected ==
    AccessFree /\ (\A c \in Checkers : ~Inside(c)) => selected \in members \union {Nil}
=============================================================================
