------------------------------- MODULE RuleSet -------------------------------
(***************************************************************************)
(* ruleset/rule.go: a MutableRuleSet, its rule file, and the local rule    *)
(* set of the router that watches the file and calls back.                 *)
(*                                                                         *)
(* The calls that add and remove items change the filter under filterMu    *)
(* and save it after they have let go of the lock; the watcher's callback  *)
(* replaces the filter by what it reads from the file.  Nothing orders     *)
(* the two, nor the saves of two calls.                                    *)
(*                                                                         *)
(* One of the six lists of a filter is modelled, the other five are empty: *)
(* the code treats them alike.  The list is a Go slice, an array and a length, because remove   *)
(* overwrites the array in place while saveToFile may be reading it.       *)
(***************************************************************************)
EXTENDS Integers, Sequences, SequencesExt

CONSTANTS Items,    \* what the list may hold
          Batches,  \* the items of one call
          Callers,  \* goroutines that add and remove items
          MaxLen,   \* bound: no call makes the list longer
          MaxCalls, \* bound: calls in all
          Empty,    \* a rule file that is truncated and not yet written
          Garbage   \* a rule file that holds no rule set

ASSUME RuleSetAssumption ==
    /\ \A b \in Batches : b \in Seq(Items) /\ b # <<>>
    /\ MaxLen \in Nat /\ MaxCalls \in Nat
    /\ Empty # Garbage
    /\ {Empty, Garbage} \intersect Seq(Items) = {}

VARIABLES
    array, size,  \* MutableRuleSet.filter: the list is the first size cells
    file,         \* the rule file
    event,        \* it has changed since the watcher read it
    active,       \* the rules the local rule set matches with
    registered,   \* loadFilters is registered with the local rule set
    loader,       \* where the two callers of loadFilters are
    read,         \* what each of them has read
    pc, job,      \* where each caller is in which call
    seen,         \* what its saveToFile may find in each cell of its copy
    shared,       \* its copy has the array in common with the filter
    content,      \* what it is about to write
    calls         \* calls made so far

list == <<array, size>>
disk == <<file, event>>
local == <<active, registered>>
load == <<loader, read>>
save == <<seen, shared, content>>
vars == <<list, disk, local, load, pc, job, save, calls>>

Lists == UNION {[1..n -> Items] : n \in 0..MaxLen}
Broken == {Empty, Garbage}
Filter == SubSeq(array, 1, size)

\* The local rule set takes a file for its rules.  It refuses one whose rule has no
\* conditions: the rule of a filter that is empty.
Loadable == file \notin Broken \union {<<>>}

\* Who runs loadFilters: the watcher's callback, and Start.
Loaders == {"watcher", "start"}
AddOps == {"AddItem", "AddItems"}
RemoveOps == {"RemoveItem", "RemoveItems"}
NoJob == [op |-> "none", batch |-> <<>>]
Jobs == [op : AddOps \union RemoveOps, batch : Batches] \union {NoJob}

TypeOK ==
    /\ array \in Lists
    /\ size \in 0..Len(array)
    /\ file \in Lists \union Broken
    /\ event \in BOOLEAN
    /\ active \in Lists
    /\ registered \in BOOLEAN
    /\ loader \in [Loaders -> {"off", "reads", "sets"}]
    /\ read \in [Loaders -> Lists]
    /\ pc \in [Callers -> {"idle", "modified", "copied", "opened", "failed"}]
    /\ job \in [Callers -> Jobs]
    /\ seen \in [Callers -> Seq(SUBSET Items)]
    /\ \A c \in Callers : Len(seen[c]) <= MaxLen
    /\ shared \in [Callers -> BOOLEAN]
    /\ content \in [Callers -> Lists]
    /\ calls \in 0..MaxCalls

\* newMutableRuleSet: the filter is empty whatever the file holds, and the
\* local rule set was made from the file.
Init ==
    /\ array = <<>> /\ size = 0
    /\ file \in Lists /\ Loadable
    /\ event = FALSE
    /\ active = file
    /\ registered = FALSE
    /\ loader = [l \in Loaders |-> "off"]
    /\ read = [l \in Loaders |-> <<>>]
    /\ pc = [c \in Callers |-> "idle"]
    /\ job = [c \in Callers |-> NoJob]
    /\ seen = [c \in Callers |-> <<>>]
    /\ shared = [c \in Callers |-> FALSE]
    /\ content = [c \in Callers |-> <<>>]
    /\ calls = 0

GoTo(c, at) == pc' = [pc EXCEPT ![c] = at]

-----------------------------------------------------------------------------
(* merge and remove: what becomes of the array, and of the copies of it *)

\* Copies that share the array may be read before or after the change.
Seen(c, cells) ==
    IF shared[c] THEN [k \in DOMAIN seen[c] |-> seen[c][k] \union {cells[k]}]
    ELSE seen[c]

ChangeInPlace(cells, n) ==
    /\ array' = cells
    /\ size' = n
    /\ seen' = [c \in Callers |-> Seen(c, cells)]
    /\ UNCHANGED shared

\* The filter gets an array of its own.
NewArray(cells) ==
    /\ array' = cells
    /\ size' = Len(cells)
    /\ shared' = [c \in Callers |-> FALSE]
    /\ UNCHANGED seen

\* append: in place when the array has room, and else in a new array; beyond
\* the cells that were ever used there may be room or not.
merge(batch) ==
    LET cells == Filter \o batch
    IN  /\ Len(cells) <= MaxLen
        /\ \/ ChangeInPlace(cells \o SubSeq(array, Len(cells) + 1, Len(array)), Len(cells))
           \/ Len(cells) > Len(array) /\ NewArray(cells)

\* One turn of the swapping loop of remove: the cells before i stay, those after
\* j are gone.
Turn(batch, s) ==
    IF Contains(batch, s.cells[s.i])
    THEN [cells |-> [s.cells EXCEPT ![s.i] = s.cells[s.j]], i |-> s.i, j |-> s.j - 1]
    ELSE [s EXCEPT !.i = @ + 1]

\* The loop, while i <= j: every turn has one cell less to look at.
Turns(batch) ==
    LET Loop[k \in 0..size] == IF k = 0 THEN [cells |-> array, i |-> 1, j |-> size]
                               ELSE Turn(batch, Loop[k - 1])
    IN  Loop

\* While i < j: does not look at the last cell that is left.
HastySweep(batch) ==
    LET last == Turns(batch)[IF size = 0 THEN 0 ELSE size - 1]
    IN  [cells |-> last.cells, n |-> last.j]

Sweep(batch) ==
    LET last == Turns(batch)[size] IN [cells |-> last.cells, n |-> last.i - 1]

\* Shortens the list without looking whether the item was found.
BlindTakeOne(item) ==
    LET found == {k \in 1..size : array[k] = item}
    IN  [cells |-> IF found = {} THEN array ELSE [array EXCEPT ![Min(found)] = array[size]],
         n |-> size - 1]

\* remove of a single item: the last cell takes the place of its first copy.
TakeOne(item) ==
    LET found == {k \in 1..size : array[k] = item}
    IN  IF found = {} THEN [cells |-> array, n |-> size]
        ELSE [cells |-> [array EXCEPT ![Min(found)] = array[size]], n |-> size - 1]

remove(batch) ==
    LET kept == IF Len(batch) = 1 THEN TakeOne(batch[1]) ELSE Sweep(batch)
    IN  ChangeInPlace(kept.cells, kept.n)

-----------------------------------------------------------------------------
(* AddItem, RemoveItem, AddItems and RemoveItems *)

\* modify and patch, under filterMu.
Call(c, op, batch) ==
    /\ pc[c] = "idle"
    /\ calls < MaxCalls
    /\ calls' = calls + 1
    /\ op \in {"AddItem", "RemoveItem"} => Len(batch) = 1
    /\ IF op \in AddOps THEN merge(batch) ELSE remove(batch)
    /\ job' = [job EXCEPT ![c] = [op |-> op, batch |-> batch]]
    /\ GoTo(c, "modified")
    /\ UNCHANGED <<disk, local, load, content>>

\* saveToFile copies the filter, the slice and not the array, under filterMu.
Copy(c) ==
    /\ pc[c] = "modified"
    /\ seen' = [seen EXCEPT ![c] = [k \in 1..size |-> {array[k]}]]
    /\ shared' = [shared EXCEPT ![c] = TRUE]
    /\ GoTo(c, "copied")
    /\ UNCHANGED <<list, disk, local, load, job, content, calls>>

\* The copy is marshalled without the lock and the file opened, truncating it.
Open(c) ==
    /\ pc[c] = "copied"
    /\ \E cells \in Lists :
          /\ DOMAIN cells = DOMAIN seen[c]
          /\ \A k \in DOMAIN cells : cells[k] \in seen[c][k]
          /\ content' = [content EXCEPT ![c] = cells]
    /\ file' = Empty
    /\ event' = TRUE
    /\ seen' = [seen EXCEPT ![c] = <<>>]
    /\ shared' = [shared EXCEPT ![c] = FALSE]
    /\ GoTo(c, "opened")
    /\ UNCHANGED <<list, local, load, job, calls>>

Ended(c) ==
    /\ GoTo(c, "idle")
    /\ job' = [job EXCEPT ![c] = NoJob]

\* A call that fails to save: AddItem takes its item out again, the others
\* return the error as they are.
Fails(c) ==
    IF job[c].op = "AddItem" THEN GoTo(c, "failed") /\ UNCHANGED job ELSE Ended(c)

OpenFails(c) ==
    /\ pc[c] = "copied"
    /\ Fails(c)
    /\ seen' = [seen EXCEPT ![c] = <<>>]
    /\ shared' = [shared EXCEPT ![c] = FALSE]
    /\ UNCHANGED <<list, disk, local, load, content, calls>>

\* A file that another call has written meanwhile may keep its longer tail.
Write(c) ==
    /\ pc[c] = "opened"
    /\ file' \in {content[c]} \union (IF file = Empty THEN {} ELSE {Garbage})
    /\ event' = TRUE
    /\ content' = [content EXCEPT ![c] = <<>>]
    /\ Ended(c)
    /\ UNCHANGED <<list, local, load, seen, shared, calls>>

WriteFails(c) ==
    /\ pc[c] = "opened"
    /\ file' \in {file, Garbage}
    /\ event' = TRUE
    /\ content' = [content EXCEPT ![c] = <<>>]
    /\ Fails(c)
    /\ UNCHANGED <<list, local, load, seen, shared, calls>>

Undo(c) ==
    /\ pc[c] = "failed"
    /\ remove(job[c].batch)
    /\ Ended(c)
    /\ UNCHANGED <<disk, local, load, content, calls>>

-----------------------------------------------------------------------------
(* Start, the watcher and loadFilters *)

\* Leaves it to the callback to load the filters.
LazyRegister ==
    /\ ~registered
    /\ registered' = TRUE
    /\ UNCHANGED <<list, disk, active, load, pc, job, save, calls>>

Register ==
    /\ ~registered
    /\ registered' = TRUE
    /\ loader' = [loader EXCEPT !["start"] = "reads"]
    /\ UNCHANGED <<list, disk, active, read, pc, job, save, calls>>

\* The local rule set reads the changed file.  If it can use it, it calls back;
\* otherwise it goes on with the rules it has.
Reload ==
    /\ event
    /\ loader["watcher"] = "off"
    /\ event' = FALSE
    /\ active' = IF Loadable THEN file ELSE active
    /\ loader' = [loader EXCEPT !["watcher"] =
                     IF Loadable /\ registered THEN "reads" ELSE @]
    /\ UNCHANGED <<list, file, registered, read, pc, job, save, calls>>

\* loadFilters reads the file again and ignores all errors.
LoadReads(l) ==
    /\ loader[l] = "reads"
    /\ read' = [read EXCEPT ![l] = IF file \in Broken THEN <<>> ELSE file]
    /\ loader' = [loader EXCEPT ![l] = "sets"]
    /\ UNCHANGED <<list, disk, local, pc, job, save, calls>>

\* It replaces the filter, under filterMu.
LoadSets(l) ==
    /\ loader[l] = "sets"
    /\ NewArray(read[l])
    /\ loader' = [loader EXCEPT ![l] = "off"]
    /\ read' = [read EXCEPT ![l] = <<>>]
    /\ UNCHANGED <<disk, local, pc, job, content, calls>>

Saves(c) ==
    Copy(c) \/ Open(c) \/ OpenFails(c) \/ Write(c) \/ WriteFails(c) \/ Undo(c)
Watches == Reload \/ LoadReads("watcher") \/ LoadSets("watcher")
Starts == Register \/ LoadReads("start") \/ LoadSets("start")

Next ==
    \/ \E c \in Callers :
          \/ \E op \in AddOps \union RemoveOps, batch \in Batches : Call(c, op, batch)
          \/ Saves(c)
    \/ Watches
    \/ Starts

Spec == Init /\ [][Next]_vars

\* Calls and Start run to their end; the watcher is told of every change.
Fairness == /\ \A c \in Callers : WF_vars(Saves(c))
            /\ WF_vars(Watches)
            /\ WF_vars(Starts)
=============================================================================
