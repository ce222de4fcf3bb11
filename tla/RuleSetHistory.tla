---------------------------- MODULE RuleSetHistory ----------------------------
(***************************************************************************)
(* RuleSet with history variables that remember what its properties refer  *)
(* to.  They restrict no step.                                             *)
(***************************************************************************)
EXTENDS RuleSet, FiniteSets

VARIABLES
    before,    \* the filter each call found
    calm,      \* nobody else has changed the filter or the file since
    unsaved,   \* a failed call has changed the filter, and no file event since
    overtaken  \* Start has set older filters than the callback had

history == <<before, calm, unsaved, overtaken>>

HistoryTypeOK ==
    /\ TypeOK
    /\ before \in [Callers -> Lists]
    /\ calm \in [Callers -> BOOLEAN]
    /\ unsaved \in BOOLEAN
    /\ overtaken \in BOOLEAN

HistoryInit ==
    /\ Init
    /\ before = [c \in Callers |-> <<>>]
    /\ calm = [c \in Callers |-> TRUE]
    /\ unsaved = FALSE
    /\ overtaken = FALSE

Begins(c) == pc[c] = "idle" /\ pc'[c] # "idle"
Returns(c) == pc[c] # "idle" /\ pc'[c] = "idle"
Idle(c) == pc[c] = "idle"

Touches(c) == pc'[c] = "opened" \/ pc[c] = "opened"
Spoils(c) == pc[c] = "failed" \/ (pc[c] = "copied" /\ pc'[c] \in {"idle", "failed"})
Moves(c) == pc'[c] # pc[c]
CallbackSets == loader["watcher"] = "sets" /\ loader'["watcher"] = "off"

Observe ==
    /\ before' = [c \in Callers |-> IF Begins(c) THEN Filter
                                    ELSE IF Idle(c)' THEN <<>> ELSE before[c]]
    /\ calm' = [c \in Callers |->
                   Idle(c)' \/ (calm[c] /\ (Moves(c) \/ (Filter' = Filter /\ file' = file)))]
    /\ unsaved' = IF \E c \in Callers : Moves(c) /\ Spoils(c) THEN TRUE
                  ELSE IF \E c \in Callers : Moves(c) /\ Touches(c) THEN FALSE
                  ELSE unsaved
    /\ overtaken' = IF CallbackSets
                    THEN loader["start"] = "sets" /\ read["start"] # read["watcher"]
                    ELSE overtaken

HistoryNext == Next /\ Observe
HistorySpec == HistoryInit /\ [][HistoryNext]_<<vars, history>>
FairHistorySpec == HistorySpec /\ Fairness

-----------------------------------------------------------------------------
(* Properties *)

Count(s, x) == Cardinality({k \in DOMAIN s : s[k] = x})
SameItems(s, t) == \A x \in Items : Count(s, x) = Count(t, x)

\* What a call should make of the list s, up to order: an add has every item
\* once more; a removal of one item has it once less, and a removal of several
\* has none of them left.
Honours(call, s, t) ==
    IF call.op \in AddOps THEN SameItems(t, s \o call.batch)
    ELSE \A x \in Items :
            Count(t, x) = IF ~Contains(call.batch, x) \/ Count(s, x) = 0 THEN Count(s, x)
                          ELSE IF Len(call.batch) = 1 THEN Count(s, x) - 1
                          ELSE 0

Saved(c) == pc[c] = "opened" /\ file' = content[c]

\* A call during which nobody else changed the filter or the file does what it
\* says: it has changed the list as asked and saved what it made of it, or it
\* is an AddItem that failed and has left the filter as it found it
\* (rule.go:165-200).
CalmCallsKeepTheirWord ==
    [][\A c \in Callers : Returns(c) /\ calm[c] =>
          /\ Saved(c) => Filter' = file' /\ Honours(job[c], before[c], file')
          /\ pc[c] = "failed" => Filter' = before[c]]_<<vars, history>>

\* When calls cease with a rule file that the local rule set can use, the filter and
\* the rules in use come to be what the file holds, unless a failed call has left the
\* filter changed or Start has set filters older than those the callback had set.
InSync ==
    <>[](/\ \A c \in Callers : Idle(c)
         /\ registered /\ Loadable /\ ~unsaved /\ ~overtaken)
    => <>[](Filter = file /\ active = file)

\* "AddItem adds a new item to the filter [...] It returns an error if [...] it
\* fails to update the rule file" (rule.go:163-164): an AddItem without error
\* has written its item.
AddIsWritten ==
    [][\A c \in Callers : Returns(c) /\ Saved(c) /\ job[c].op = "AddItem" =>
          Contains(content[c], job[c].batch[1])]_<<vars, history>>
=============================================================================
