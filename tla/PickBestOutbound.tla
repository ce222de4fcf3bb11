-------------------------- MODULE PickBestOutbound --------------------------
(***************************************************************************)
(* protocol/group/mutableurltest.go: one run of pickBestOutbound, with the *)
(* outbounds in whatever order the map yields them, against a history that *)
(* does not change meanwhile.                                              *)
(***************************************************************************)
EXTENDS URLTestDelay

VARIABLES
    delays,      \* for each outbound the delay filed under its real tag, or Nil
    candidates,  \* the group's outbounds for this network that have a real tag
    current,     \* the outbound selected so far, member or not, or Nil
    todo,        \* the candidates the loop has not looked at
    minDelay,
    minOutbound,
    done,        \* pickBestOutbound has returned
    result       \* what it returned

input == <<delays, candidates, current>>
loopVars == <<input, todo, minDelay, minOutbound, done, result>>

HasHistory(t) == delays[t] # Nil

LoopTypeOK ==
    /\ delays \in [Tags -> Delays \union {Nil}]
    /\ candidates \subseteq Tags
    /\ current \in Tags \union {Nil}
    /\ todo \subseteq candidates
    /\ minDelay \in Delays
    /\ minOutbound \in Tags \union {Nil}
    /\ done \in BOOLEAN
    /\ result \in Tags \union {Nil}

\* The current outbound starts as the best if it has a history.
LoopInit ==
    /\ delays \in [Tags -> Delays \union {Nil}]
    /\ candidates \in SUBSET Tags
    /\ current \in Tags \union {Nil}
    /\ todo = candidates
    /\ LET keep == current # Nil /\ HasHistory(current) IN
         /\ minOutbound = IF keep THEN current ELSE Nil
         /\ minDelay = IF keep THEN delays[current] ELSE 0
    /\ done = FALSE
    /\ result = Nil

Look(t) ==
    /\ ~done
    /\ t \in todo
    /\ todo' = todo \ {t}
    /\ IF HasHistory(t) /\ Beats(delays[t], minDelay)
       THEN minDelay' = delays[t] /\ minOutbound' = t
       ELSE UNCHANGED <<minDelay, minOutbound>>
    /\ UNCHANGED <<input, done, result>>

\* Only a tested candidate will do.
HopelessPick == {minOutbound}

\* Without a history to go by any candidate will do.
Pick == IF minOutbound # Nil THEN {minOutbound}
        ELSE IF candidates # {} THEN candidates ELSE {Nil}

Return ==
    /\ ~done
    /\ todo = {}
    /\ done' = TRUE
    /\ result' \in Pick
    /\ UNCHANGED <<input, todo, minDelay, minOutbound>>

LoopNext == Return \/ \E t \in Tags : Look(t)

LoopSpec == LoopInit /\ [][LoopNext]_loopVars

-----------------------------------------------------------------------------
(* Properties *)

\* The inputs on which 16 bits are enough and 0 is not a delay.
Sane == \A t \in Tags : HasHistory(t) =>
            delays[t] > 0 /\ delays[t] + Tolerance < DelayRange

\* Whatever the order, no candidate is better than the result by more than the
\* tolerance (mutableurltest.go:529-545).
NoneMuchBetter ==
    done /\ Sane => \A t \in candidates :
        HasHistory(t) => HasHistory(result) /\ delays[result] <= delays[t] + Tolerance

\* Whatever the order, the selection moves away from a tested outbound only to
\* one that is better by more than the tolerance, so equal outbounds do not
\* take turns (mutableurltest.go:523-528, 541).
MovesForGain ==
    done /\ Sane /\ current # Nil /\ result # current =>
        (HasHistory(current) => HasHistory(result) /\ delays[result] + Tolerance < delays[current])

\* A group with an outbound to use always yields one, tested or not; an
\* untested one only when nothing was tested (mutableurltest.go:546-554).
FindsOne ==
    done => /\ candidates # {} => result # Nil
            /\ result # Nil /\ ~HasHistory(result)
                 => \A t \in candidates : ~HasHistory(t)

\* What the loop returns is what the url test group takes it to return in one step
\* (mutableurltest.go:508-515).
IsAPick == done => result \in PicksFrom(delays, candidates, current)
=============================================================================
