--------------------------- MODULE MutableSelector ---------------------------
(***************************************************************************)
(* protocol/group/mutableselector.go: a group that dials through the one   *)
(* outbound it has selected.                                               *)
(*                                                                         *)
(* SelectOutbound, Add and Remove run under mu; a call that changes the    *)
(* selection swaps it, stores it in the cache file and interrupts the      *)
(* group's connections, and Remove takes the outbounds out before that:    *)
(* steps that dials see, because a dial takes no lock.  It loads the       *)
(* selection, dials, and registers its connection with the interrupt       *)
(* group.  The process may crash at any step; only the  *)
(* cache file survives.                                                    *)
(***************************************************************************)
EXTENDS FiniteSets

CONSTANTS Tags,        \* tags of outbounds
          Configured,  \* the tags in the group's options
          Default,     \* the first of them
          Callers,     \* goroutines that call SelectOutbound, Add and Remove
          Conns,       \* dials, each with the connection it makes
          HasCache,    \* whether the program has a cache file
          Nil          \* no outbound

ASSUME MutableSelectorAssumption ==
    /\ Configured \subseteq Tags
    /\ Configured # {} => Default \in Configured
    /\ HasCache \in BOOLEAN
    /\ Nil \notin Tags

VARIABLES
    up,        \* the program runs and Start has returned
    outbounds, \* the tags in MutableSelector.outbounds (and in tags)
    selected,  \* MutableSelector.selected
    cache,     \* what the cache file holds for the group
    caller,    \* what each caller has still to do
    conn,      \* each dial and its connection
    origin     \* (history) how the selection came about

vars == <<up, outbounds, selected, cache, caller, conn, origin>>

Free == [pc |-> "free"]
Caller == {Free} \union [pc : {"store", "interrupt"}, tag : Tags]
                 \union [pc : {"removing"}, tags : SUBSET Tags]

NoConn == [pc |-> "none"]
\* straddled: the selection had changed between the load and the registration.
\* routed: handed on to the outbound without the interrupt group.
Conn == {NoConn} \union [pc : {"dialing", "routed"}, out : Tags]
                 \union [pc : {"open"}, out : Tags, straddled : BOOLEAN]

TypeOK ==
    /\ up \in BOOLEAN
    /\ outbounds \subseteq Tags
    /\ selected \in Tags \union {Nil}
    /\ cache \in Tags \union {Nil}
    /\ caller \in [Callers -> Caller]
    /\ conn \in [Conns -> Conn]
    /\ origin \in {"none", "start", "saved", "unsaved"}

MuFree == \A c \in Callers : caller[c] = Free

\* The program is not running yet; the cache file may hold anything.
Init ==
    /\ up = FALSE
    /\ outbounds = {}
    /\ selected = Nil
    /\ cache \in IF HasCache THEN Tags \union {Nil} ELSE {Nil}
    /\ caller = [c \in Callers |-> Free]
    /\ conn = [k \in Conns |-> NoConn]
    /\ origin = "none"

-----------------------------------------------------------------------------
(* Start and crash *)

\* Start: the cached selection if it is configured, else the first tag.  When
\* an outbound is missing Start fails and the program does not come up.
Start ==
    /\ ~up
    /\ up' = TRUE
    /\ outbounds' = Configured
    /\ selected' = IF Configured = {} THEN Nil
                   ELSE IF cache \in Configured THEN cache ELSE Default
    /\ origin' = IF Configured = {} THEN "none" ELSE "start"
    /\ UNCHANGED <<cache, caller, conn>>

Crash ==
    /\ up
    /\ up' = FALSE
    /\ outbounds' = {}
    /\ selected' = Nil
    /\ caller' = [c \in Callers |-> Free]
    /\ conn' = [k \in Conns |-> NoConn]
    /\ origin' = "none"
    /\ UNCHANGED cache

-----------------------------------------------------------------------------
(* The calls that hold mu *)

\* selectOutbound(tag) up to its Swap; an unchanged selection returns there.
Swap(c, t) ==
    /\ selected' = t
    /\ caller' = IF selected = t THEN caller
                 ELSE [caller EXCEPT ![c] = [pc |-> "store", tag |-> t]]

\* Does not take mu.
UnlockedSelect(c, t) ==
    /\ up
    /\ caller[c] = Free
    /\ t \in outbounds
    /\ Swap(c, t)
    /\ UNCHANGED <<up, outbounds, cache, conn, origin>>

\* SelectOutbound(tag); an unknown tag changes nothing.
SelectOutbound(c, t) ==
    /\ up
    /\ MuFree
    /\ t \in outbounds
    /\ Swap(c, t)
    /\ UNCHANGED <<up, outbounds, cache, conn, origin>>

\* Add(tags...): the outbound manager knows some of them; the selection does
\* not change, not even when there is none.
Add(found) ==
    /\ up
    /\ MuFree
    /\ outbounds' = outbounds \union found
    /\ UNCHANGED <<up, selected, cache, caller, conn, origin>>

\* Remove(tags...) up to the end of its deletions; an empty group returns at once.
Remove(c, tags) ==
    /\ up
    /\ MuFree
    /\ outbounds # {}
    /\ outbounds' = outbounds \ tags
    /\ caller' = [caller EXCEPT ![c] = [pc |-> "removing", tags |-> tags]]
    /\ UNCHANGED <<up, selected, cache, conn, origin>>

\* Removing forgets to look at the selection.
CarelessReselect(c) ==
    /\ caller[c].pc = "removing"
    /\ caller' = [caller EXCEPT ![c] = Free]
    /\ UNCHANGED <<up, outbounds, selected, cache, conn, origin>>

\* The selection is cleared instead of moved.
ClearingReselect(c) ==
    /\ caller[c].pc = "removing"
    /\ selected' = IF selected \in outbounds THEN selected ELSE Nil
    /\ caller' = [caller EXCEPT ![c] = Free]
    /\ UNCHANGED <<up, outbounds, cache, conn, origin>>

\* The rest of Remove: a selection that is gone (or was nil) moves to a tag the
\* map's iteration happens to give first, and to nil, with nothing interrupted
\* and nothing stored, when none is left.
Reselect(c) ==
    /\ caller[c].pc = "removing"
    /\ \/ /\ selected \in outbounds
          /\ caller' = [caller EXCEPT ![c] = Free]
          /\ UNCHANGED <<selected, origin>>
       \/ /\ outbounds = {}
          /\ caller' = [caller EXCEPT ![c] = Free]
          /\ selected' = Nil /\ origin' = "none"
       \/ /\ selected \notin outbounds
          /\ \E t \in outbounds : Swap(c, t)
          /\ UNCHANGED origin
    /\ UNCHANGED <<up, outbounds, cache, conn>>

\* A store that fails returns before the interrupt.
ImpatientStore(c, ok) ==
    /\ caller[c].pc = "store"
    /\ LET t == caller[c].tag IN
         /\ cache' = IF HasCache /\ ok THEN t ELSE cache
         /\ origin' = IF HasCache /\ ok THEN "saved" ELSE "unsaved"
         /\ caller' = [caller EXCEPT ![c] = IF ok THEN [pc |-> "interrupt", tag |-> t]
                                            ELSE Free]
    /\ UNCHANGED <<up, outbounds, selected, conn>>

\* cacheFile.StoreSelected; its error is logged and nothing more.
Store(c, ok) ==
    /\ caller[c].pc = "store"
    /\ LET t == caller[c].tag IN
         /\ cache' = IF HasCache /\ ok THEN t ELSE cache
         /\ origin' = IF HasCache /\ ok THEN "saved" ELSE "unsaved"
         /\ caller' = [caller EXCEPT ![c] = [pc |-> "interrupt", tag |-> t]]
    /\ UNCHANGED <<up, outbounds, selected, conn>>

\* interruptGroup.Interrupt(true) closes every registered connection; then mu
\* is released.
Interrupt(c) ==
    /\ caller[c].pc = "interrupt"
    /\ conn' = [k \in Conns |-> IF conn[k].pc = "open" THEN NoConn ELSE conn[k]]
    /\ caller' = [caller EXCEPT ![c] = Free]
    /\ UNCHANGED <<up, outbounds, selected, cache, origin>>

-----------------------------------------------------------------------------
(* Dials and routed connections, which hold no lock *)

\* Does not look whether there is a selection.
LoadUnchecked(k) ==
    /\ up
    /\ conn[k] = NoConn
    /\ conn' = [conn EXCEPT ![k] = [pc |-> "dialing", out |-> selected]]
    /\ UNCHANGED <<up, outbounds, selected, cache, caller, origin>>

\* selected.Load(); without a selection the dial fails.
Load(k) ==
    /\ up
    /\ conn[k] = NoConn
    /\ selected # Nil
    /\ conn' = [conn EXCEPT ![k] = [pc |-> "dialing", out |-> selected]]
    /\ UNCHANGED <<up, outbounds, selected, cache, caller, origin>>

\* interruptGroup.NewConn after a dial that succeeded.
Register(k) ==
    /\ conn[k].pc = "dialing"
    /\ conn' = [conn EXCEPT ![k] = [pc |-> "open", out |-> conn[k].out,
                                    straddled |-> conn[k].out # selected]]
    /\ UNCHANGED <<up, outbounds, selected, cache, caller, origin>>

\* NewConnectionEx and NewPacketConnectionEx load the selection and hand it the
\* connection; without a selection the connection is closed.
Route(k) ==
    /\ up
    /\ conn[k] = NoConn
    /\ selected # Nil
    /\ conn' = [conn EXCEPT ![k] = [pc |-> "routed", out |-> selected]]
    /\ UNCHANGED <<up, outbounds, selected, cache, caller, origin>>

\* The dial fails, or the connection is closed by one of its ends.
End(k) ==
    /\ conn[k] # NoConn
    /\ conn' = [conn EXCEPT ![k] = NoConn]
    /\ UNCHANGED <<up, outbounds, selected, cache, caller, origin>>

Next ==
    \/ Start
    \/ Crash
    \/ \E tags \in SUBSET Tags : Add(tags)
    \/ \E c \in Callers :
          \/ \E t \in Tags : SelectOutbound(c, t)
          \/ \E tags \in SUBSET Tags : Remove(c, tags)
          \/ Reselect(c)
          \/ \E ok \in BOOLEAN : Store(c, ok)
          \/ Interrupt(c)
    \/ \E k \in Conns : Load(k) \/ Register(k) \/ Route(k) \/ End(k)

Spec == Init /\ [][Next]_vars

-----------------------------------------------------------------------------
(* Properties *)

\* What Removes under way are taking out of the group.
Leaving == UNION {caller[c].tags : c \in {d \in Callers : caller[d].pc = "removing"}}

\* The selection, which dials read without mu, is a member of the group or nil,
\* but for the time between the deletions of a Remove and its reselection: then
\* it may be one of the tags that Remove is taking out, and never another
\* (mutableselector.go:179-194).  So nothing that mu's holders do one after the
\* other leaves dials with an outbound that left in an earlier call.
SelectedIsMember == selected \in outbounds \union Leaving \union {Nil}

\* A selection is lost only when the group is emptied: no sequence of calls
\* leaves a group that had a selection with members and none
\* (mutableselector.go:179-194).
SelectionKept ==
    [][up /\ up' /\ selected # Nil /\ outbounds' # {} => selected' # Nil]_vars

\* Two calls cannot leave the cache file with an older selection than the one
\* in use: once mu is free, a selection that was stored is what the file holds
\* (mutableselector.go:98-116).
CacheFollows == up /\ MuFree /\ origin = "saved" => cache = selected

\* Once a selection is complete no connection is left in the interrupt group
\* on another outbound, but for one whose dial was under way when the
\* selection changed (mutableselector.go:109-117, 207-219).  Routed connections
\* never were in the group.
NoOldRiders ==
    MuFree /\ selected # Nil =>
        \A k \in Conns : conn[k].pc = "open" /\ conn[k].out # selected => conn[k].straddled
=============================================================================
