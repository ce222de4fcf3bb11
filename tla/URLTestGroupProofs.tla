-------------------------- MODULE URLTestGroupProofs --------------------------
(***************************************************************************)
(* Proofs about URLTestGroup and PickBestOutbound, for every set of        *)
(* outbounds, every history, every tolerance and every width of a delay:   *)
(* the choice of pickBestOutbound, the checks and the types of the group.  *)
(***************************************************************************)
EXTENDS URLTestGroup, PickBestOutbound, FiniteSetTheorems, WellFoundedInduction, TLAPS

-----------------------------------------------------------------------------
(* The loop of pickBestOutbound, step by step *)

\* The best so far is an outbound with a history, and minDelay is its delay.
BestHasHistory ==
    IF minOutbound = Nil
    THEN minDelay = 0
    ELSE HasHistory(minOutbound) /\ minDelay = delays[minOutbound]

\* What the loop has looked at is not much better than the best so far.
LookedAt ==
    \A t \in candidates \ todo : HasHistory(t) =>
        minOutbound # Nil /\ (Sane => minDelay <= delays[t] + Tolerance)

\* The best so far is the current outbound or better by more than the tolerance.
Gained ==
    current # Nil /\ HasHistory(current) =>
        /\ minOutbound # Nil
        /\ Sane => minOutbound = current \/ minDelay + Tolerance < delays[current]

Returned == done => todo = {} /\ result \in Pick

LoopInv == LoopTypeOK /\ BestHasHistory /\ LookedAt /\ Gained /\ Returned

\* A sum that fits the delay's width is not wrapped.
LEMMA NoWrap ==
  ASSUME NEW d \in Delays, d + Tolerance < DelayRange
  PROVE  (d + Tolerance) % DelayRange = d + Tolerance
BY URLTestAssumption DEF Delays

LEMMA LoopStarts == LoopInit => LoopInv
<1> SUFFICES ASSUME LoopInit PROVE LoopInv
  OBVIOUS
<1> USE URLTestAssumption DEF LoopInit, HasHistory
<1>1. LoopTypeOK
  <2>1. delays \in [Tags -> Delays \union {Nil}] /\ current \in Tags \union {Nil}
    OBVIOUS
  <2>2. 0 \in Delays
    BY DEF Delays
  <2>3. CASE current # Nil /\ delays[current] # Nil
    BY <2>1, <2>3 DEF LoopTypeOK
  <2>4. CASE ~(current # Nil /\ delays[current] # Nil)
    BY <2>1, <2>2, <2>4 DEF LoopTypeOK
  <2> QED BY <2>3, <2>4
<1>2. BestHasHistory /\ LookedAt /\ Returned
  BY DEF BestHasHistory, LookedAt, Returned
<1>3. Gained
  BY DEF Gained
<1> QED BY <1>1, <1>2, <1>3 DEF LoopInv

LEMMA LookStep ==
  ASSUME LoopInv, NEW t \in Tags, Look(t)
  PROVE  LoopInv'
<1> USE URLTestAssumption DEF LoopInv, Look, input, HasHistory
<1>1. LoopTypeOK'
  BY DEF LoopTypeOK
<1>2. BestHasHistory'
  BY DEF BestHasHistory, LoopTypeOK
<1>3. Sane' = Sane
  BY DEF Sane
<1>4. ASSUME HasHistory(t), Sane
      PROVE  /\ delays[t] \in Delays /\ delays[t] \in Int
             /\ delays[t] > 0
             /\ (delays[t] + Tolerance) % DelayRange = delays[t] + Tolerance
  BY <1>4, NoWrap DEF Sane, LoopTypeOK, Delays
<1>5. minDelay \in Int /\ (Sane /\ minOutbound # Nil => minDelay > 0)
  BY DEF LoopTypeOK, Delays, BestHasHistory, Sane
<1>6. \A s \in Tags : HasHistory(s) => delays[s] \in Int
  BY DEF LoopTypeOK, Delays
<1>7. CASE HasHistory(t) /\ Beats(delays[t], minDelay)
  <2>1. minDelay' = delays[t] /\ minOutbound' = t /\ t # Nil
    BY <1>7
  <2>2. Sane => minOutbound = Nil \/ minDelay > delays[t] + Tolerance
    BY <1>7, <1>4, <1>5 DEF Beats, BestHasHistory
  <2>3. LookedAt'
    BY <1>3, <1>4, <1>5, <1>6, <2>1, <2>2 DEF LookedAt, LoopTypeOK
  <2>4. Gained'
    <3>1. SUFFICES ASSUME current # Nil, HasHistory(current), Sane, t # current
                   PROVE  delays[t] + Tolerance < delays[current]
      BY <1>3, <2>1 DEF Gained
    <3>2. minOutbound # Nil
      BY <3>1 DEF Gained
    <3>3. minDelay <= delays[current]
      BY <3>1, <3>2, <1>5, <1>6 DEF Gained, BestHasHistory, LoopTypeOK
    <3>4. delays[t] \in Int /\ delays[current] \in Int /\ Tolerance \in Int
      BY <3>1, <1>6, <1>7 DEF LoopTypeOK
    <3>5. minDelay > delays[t] + Tolerance
      BY <2>2, <3>1, <3>2
    <3> QED BY ONLY <3>3, <3>4, <3>5, <1>5
  <2> QED BY <1>1, <1>2, <2>3, <2>4 DEF Returned
<1>8. CASE ~(HasHistory(t) /\ Beats(delays[t], minDelay))
  <2>1. UNCHANGED <<minDelay, minOutbound>>
    BY <1>8
  <2>2. HasHistory(t) => minOutbound # Nil
    BY <1>8 DEF Beats, BestHasHistory
  <2>3. HasHistory(t) /\ Sane => minDelay <= delays[t] + Tolerance
    BY <1>8, <1>4, <1>5 DEF Beats
  <2>4. LookedAt'
    BY <1>3, <2>1, <2>2, <2>3 DEF LookedAt
  <2>5. Gained'
    BY <1>3, <2>1 DEF Gained
  <2> QED BY <1>1, <1>2, <2>4, <2>5 DEF Returned
<1> QED BY <1>7, <1>8

LEMMA LoopStep == LoopInv /\ [LoopNext]_loopVars => LoopInv'
<1> SUFFICES ASSUME LoopInv, [LoopNext]_loopVars PROVE LoopInv'
  OBVIOUS
<1>1. CASE Return
  <2>1. LoopTypeOK'
    BY <1>1 DEF Return, Pick, LoopInv, LoopTypeOK, input
  <2>2. UNCHANGED <<delays, candidates, current, todo, minDelay, minOutbound>>
    BY <1>1 DEF Return, input
  <2>3. Returned'
    BY <1>1, <2>2 DEF Return, Returned, Pick
  <2> QED BY <2>1, <2>2, <2>3
          DEF LoopInv, BestHasHistory, LookedAt, Gained, Sane, HasHistory
<1>2. CASE UNCHANGED loopVars
  BY <1>2 DEF loopVars, input, LoopInv, LoopTypeOK, BestHasHistory, LookedAt, Gained, Returned,
              Sane, HasHistory, Pick
<1> QED BY <1>1, <1>2, LookStep DEF LoopNext

\* The loop invariant.
THEOREM LoopInductive == LoopSpec => []LoopInv
BY LoopStarts, LoopStep, PTL DEF LoopSpec

LEMMA AtReturn == LoopInv => NoneMuchBetter /\ MovesForGain /\ FindsOne
<1> SUFFICES ASSUME LoopInv, done PROVE NoneMuchBetter /\ MovesForGain /\ FindsOne
  BY DEF NoneMuchBetter, MovesForGain, FindsOne
<1> USE URLTestAssumption DEF LoopInv
<1>1. todo = {} /\ result \in Pick
  BY DEF Returned
<1>2. minOutbound # Nil => result = minOutbound /\ minDelay = delays[result] /\ HasHistory(result)
  BY <1>1 DEF Pick, BestHasHistory
<1>3. NoneMuchBetter
  BY <1>1, <1>2 DEF NoneMuchBetter, LookedAt
<1>4. MovesForGain
  BY <1>2 DEF MovesForGain, Gained
<1>5. FindsOne
  BY <1>1, <1>2 DEF FindsOne, Pick, LookedAt, LoopTypeOK
<1> QED BY <1>3, <1>4, <1>5

\* Whatever the order of the map, the result is within the tolerance of the best.
THEOREM WithinTolerance == LoopSpec => []NoneMuchBetter
BY LoopInductive, AtReturn, PTL

\* The selection moves only for a gain of more than the tolerance.
THEOREM NoFlapping == LoopSpec => []MovesForGain
BY LoopInductive, AtReturn, PTL

\* A group with an outbound to use yields one.
THEOREM AlwaysFindsOne == LoopSpec => []FindsOne
BY LoopInductive, AtReturn, PTL

-----------------------------------------------------------------------------
(* The loop in one step: what Outcomes is made of *)

\* Induction, of the numbers in a set.
LEMMA AllNumbers ==
    ASSUME NEW H, 0 \in H, \A n \in Nat : n \in H => n + 1 \in H
    PROVE  \A n \in Nat : n \in H
<1> DEFINE Others == {n \in Nat : n \notin H}
<1>1. SUFFICES ASSUME Others # {} PROVE FALSE
  OBVIOUS
<1>2. PICK n \in Others : \A k \in Others : ~(<<k, n>> \in OpToRel(<, Nat))
  <2>1. Others \subseteq Nat
    OBVIOUS
  <2> HIDE DEF Others
  <2> QED BY ONLY <1>1, <2>1, WFMin, NatLessThanWellFounded
<1>3. n \in Nat /\ n \notin H /\ n # 0
  OBVIOUS
<1>4. n - 1 \in Nat /\ (n - 1) + 1 = n /\ <<n - 1, n>> \in OpToRel(<, Nat)
  BY <1>3 DEF OpToRel
<1>5. n - 1 \in H
  BY <1>2, <1>4
<1> QED BY <1>3, <1>4, <1>5

\* The loop over the sets of D.
LoopOn(d, D, f) ==
    f = [S \in D |-> [m \in Tags \union {Nil} |->
            IF S = {} THEN {m} ELSE UNION {f[S \ {t}][BestOf(d, m, t)] : t \in S}]]
Small(n) == {S \in SUBSET Tags : Cardinality(S) <= n}

LEMMA OutcomesExist == ASSUME NEW d PROVE \E f : LoopOn(d, SUBSET Tags, f)
<1> DEFINE H == {n \in Nat : \E f : LoopOn(d, Small(n), f)}
<1>1. \A S \in SUBSET Tags : IsFiniteSet(S) /\ Cardinality(S) \in Nat
         /\ Cardinality(S) <= Cardinality(Tags) /\ (S = {} <=> Cardinality(S) = 0)
  BY URLTestGroupAssumption, FS_Subset, FS_CardinalityType, FS_EmptySet
<1>2. 0 \in H
  <2> DEFINE f == [S \in Small(0) |-> [m \in Tags \union {Nil} |-> {m}]]
  <2>1. \A S \in Small(0) : S = {}
    BY <1>1 DEF Small
  <2>2. LoopOn(d, Small(0), f)
    BY <2>1 DEF LoopOn
  <2> QED BY <2>2
<1>3. ASSUME NEW n \in Nat, n \in H PROVE n + 1 \in H
  <2>1. PICK f : LoopOn(d, Small(n), f)
    BY <1>3
  <2> DEFINE g == [S \in Small(n + 1) |-> [m \in Tags \union {Nil} |->
                     IF S = {} THEN {m} ELSE UNION {f[S \ {t}][BestOf(d, m, t)] : t \in S}]]
  <2>2. ASSUME NEW S \in Small(n + 1), NEW t \in S
        PROVE  S \ {t} \in Small(n) /\ S \ {t} \in Small(n + 1)
    <3>1. S \in SUBSET Tags /\ S \ {t} \in SUBSET Tags /\ Cardinality(S) <= n + 1
      BY DEF Small
    <3>2. Cardinality(S \ {t}) = Cardinality(S) - 1
      BY <1>1, <3>1, FS_RemoveElement
    <3> QED BY <1>1, <3>1, <3>2 DEF Small
  <2>3. \A S \in Small(n) : g[S] = f[S]
    <3>1. \A S \in Small(n) : S \in Small(n + 1)
      BY <1>1 DEF Small
    <3> QED BY <2>1, <3>1 DEF LoopOn
  <2>4. LoopOn(d, Small(n + 1), g)
    <3>1. \A S \in Small(n + 1), m \in Tags \union {Nil} :
            {f[S \ {t}][BestOf(d, m, t)] : t \in S} = {g[S \ {t}][BestOf(d, m, t)] : t \in S}
      BY <2>2, <2>3
    <3> QED BY <3>1 DEF LoopOn
  <2> QED BY <2>4
<1>4. Cardinality(Tags) \in H
  <2>1. Cardinality(Tags) \in Nat
    BY <1>1
  <2> HIDE DEF H
  <2> QED BY <1>2, <1>3, <2>1, AllNumbers
<1>5. Small(Cardinality(Tags)) = SUBSET Tags
  BY <1>1 DEF Small
<1> QED BY <1>4, <1>5

LEMMA OutcomesUnfold ==
    ASSUME NEW d, NEW S \in SUBSET Tags, NEW m \in Tags \union {Nil}
    PROVE  /\ S = {} => Outcomes(d)[S][m] = {m}
           /\ S # {} => Outcomes(d)[S][m] =
                           UNION {Outcomes(d)[S \ {t}][BestOf(d, m, t)] : t \in S}
<1>1. LoopOn(d, SUBSET Tags, CHOOSE f : LoopOn(d, SUBSET Tags, f))
  BY OutcomesExist
<1>2. Outcomes(d) = CHOOSE f : LoopOn(d, SUBSET Tags, f)
  BY DEF Outcomes, LoopOn
<1>3. LoopOn(d, SUBSET Tags, Outcomes(d))
  BY <1>1, <1>2
<1>4. Outcomes(d)[S] = [k \in Tags \union {Nil} |->
                        IF S = {} THEN {k} ELSE UNION {Outcomes(d)[S \ {t}][BestOf(d, k, t)] : t \in S}]
  BY ONLY S \in SUBSET Tags, <1>3 DEF LoopOn
<1> QED BY <1>4

\* In the end the best is what it was before or an outbound that was looked at.
LEMMA EndsWithin ==
    ASSUME NEW d, NEW S \in SUBSET Tags, NEW m \in Tags \union {Nil}
    PROVE  Outcomes(d)[S][m] \subseteq S \union {m}
<1> DEFINE Within(T) == \A k \in Tags \union {Nil} : Outcomes(d)[T][k] \subseteq T \union {k}
           H == {n \in Nat : \A T \in SUBSET Tags : Cardinality(T) = n => Within(T)}
<1>1. \A T \in SUBSET Tags : IsFiniteSet(T) /\ Cardinality(T) \in Nat
         /\ (T = {} <=> Cardinality(T) = 0)
  BY URLTestGroupAssumption, FS_Subset, FS_CardinalityType, FS_EmptySet
<1>2. 0 \in H
  <2>1. ASSUME NEW T \in SUBSET Tags, Cardinality(T) = 0, NEW k \in Tags \union {Nil}
        PROVE  Outcomes(d)[T][k] = {k}
    BY <1>1, <2>1, OutcomesUnfold
  <2> QED BY <2>1
<1>3. ASSUME NEW n \in Nat, n \in H PROVE n + 1 \in H
  <2> SUFFICES ASSUME NEW T \in SUBSET Tags, Cardinality(T) = n + 1,
                      NEW k \in Tags \union {Nil}
               PROVE  Outcomes(d)[T][k] \subseteq T \union {k}
    OBVIOUS
  <2>1. T # {} /\ IsFiniteSet(T) /\ Cardinality(T) = n + 1 /\ k \in Tags \union {Nil}
    BY <1>1
  <2>2. Outcomes(d)[T][k] = UNION {Outcomes(d)[T \ {t}][BestOf(d, k, t)] : t \in T}
    BY <2>1, OutcomesUnfold
  <2>3. ASSUME NEW t \in T PROVE Outcomes(d)[T \ {t}][BestOf(d, k, t)] \subseteq T \union {k}
    <3>1. T \ {t} \in SUBSET Tags /\ Cardinality(T \ {t}) = n
      <4>1. Cardinality(T \ {t}) = Cardinality(T) - 1
        BY <2>1, FS_RemoveElement
      <4> QED BY <2>1, <4>1
    <3>2. BestOf(d, k, t) \in {k, t} /\ BestOf(d, k, t) \in Tags \union {Nil}
      BY DEF BestOf
    <3>3. Outcomes(d)[T \ {t}][BestOf(d, k, t)] \subseteq (T \ {t}) \union {BestOf(d, k, t)}
      BY <1>3, <3>1, <3>2
    <3> QED BY <3>2, <3>3
  <2> QED BY <2>2, <2>3
<1>4. Cardinality(S) \in H
  <2>1. Cardinality(S) \in Nat
    BY <1>1
  <2> HIDE DEF H
  <2> QED BY <1>2, <1>3, <2>1, AllNumbers
<1> QED BY <1>4

\* A pick is a candidate, the outbound it starts from, or none.
LEMMA PicksWithin ==
    ASSUME NEW d, NEW S \in SUBSET Tags, NEW from \in Tags \union {Nil}
    PROVE  PicksFrom(d, S, from) \subseteq S \union {from, Nil}
BY EndsWithin DEF PicksFrom

-----------------------------------------------------------------------------
(* The loop does what its one step says *)

\* Whatever the rest of the loop may still end with is among what the whole loop
\* may end with.
Start == IF current # Nil /\ HasHistory(current) THEN current ELSE Nil
WithinOutcomes == Outcomes(delays)[todo][minOutbound] \subseteq Outcomes(delays)[candidates][Start]

LEMMA OutcomesKept ==
    ASSUME LoopInv, LoopInv', WithinOutcomes, [LoopNext]_loopVars PROVE WithinOutcomes'
<1>1. CASE UNCHANGED loopVars
  BY <1>1 DEF WithinOutcomes, Start, HasHistory, loopVars, input
<1>2. CASE Return
  BY <1>2 DEF WithinOutcomes, Start, HasHistory, Return, input
<1>3. ASSUME NEW t \in Tags, Look(t) PROVE WithinOutcomes'
  <2>1. /\ t \in todo /\ todo' = todo \ {t} /\ todo \in SUBSET Tags
        /\ UNCHANGED <<delays, candidates, current>> /\ minOutbound \in Tags \union {Nil}
    BY <1>3 DEF Look, input, LoopInv, LoopTypeOK
  <2>2. minOutbound' = BestOf(delays, minOutbound, t)
    BY <1>3 DEF Look, BestOf, HasHistory, LoopInv, BestHasHistory
  <2>3. Outcomes(delays)[todo'][minOutbound'] \subseteq Outcomes(delays)[todo][minOutbound]
    <3>1. todo # {}
      BY <2>1
    <3>2. Outcomes(delays)[todo][minOutbound] =
             UNION {Outcomes(delays)[todo \ {s}][BestOf(delays, minOutbound, s)] : s \in todo}
      BY <2>1, <3>1, OutcomesUnfold
    <3>3. Outcomes(delays)[todo \ {t}][BestOf(delays, minOutbound, t)]
             \subseteq Outcomes(delays)[todo][minOutbound]
      BY <2>1, <3>2
    <3> QED BY <2>1, <2>2, <3>3
  <2>4. (Outcomes(delays)[todo][minOutbound])' = Outcomes(delays)[todo'][minOutbound']
    BY <2>1
  <2>5. Start' = Start /\ Outcomes(delays)' = Outcomes(delays)
    BY <2>1 DEF Start, HasHistory
  <2> QED BY <2>1, <2>3, <2>4, <2>5 DEF WithinOutcomes
<1> QED BY <1>1, <1>2, <1>3 DEF LoopNext

\* What the loop returns, step by step and in whatever order, is what the url test
\* group takes pickBestOutbound to return in one step (mutableurltest.go:508-555).
THEOREM LoopPicks == LoopSpec => []IsAPick
<1>1. LoopInit => WithinOutcomes
  BY DEF LoopInit, WithinOutcomes, Start
<1>2. LoopInv /\ WithinOutcomes => IsAPick
  <2> SUFFICES ASSUME LoopInv, WithinOutcomes, done
               PROVE  result \in PicksFrom(delays, candidates, current)
    BY DEF IsAPick
  <2>1. todo = {} /\ result \in Pick /\ minOutbound \in Tags \union {Nil}
    BY DEF LoopInv, Returned, LoopTypeOK
  <2>2. Outcomes(delays)[{}][minOutbound] = {minOutbound}
    BY <2>1, OutcomesUnfold
  <2>3. minOutbound \in Outcomes(delays)[candidates][Start]
    BY <2>1, <2>2 DEF WithinOutcomes
  <2> QED BY <2>1, <2>3 DEF PicksFrom, Pick, Start, HasHistory
<1> QED BY LoopInductive, OutcomesKept, <1>1, <1>2, PTL DEF LoopSpec

-----------------------------------------------------------------------------
(* Checks *)

CheckerPC == {"idle", "entered", "testing", "leaving"}

\* OneCheck needs that whoever is inside has set the flag: Enter lets nobody in
\* while it is set, and the only one inside resets it.
IInv ==
    /\ checker \in [Checkers -> CheckerPC]
    /\ checking \in BOOLEAN
    /\ \A c \in Checkers : Inside(c) => checking
    /\ OneCheck
    /\ FlagHeldOnlyByCheck

THEOREM InitCheck == Init => IInv
BY DEF Init, IInv, CheckerPC, Inside, OneCheck, FlagHeldOnlyByCheck

\* A step that leaves flag, places and sawEmpty alone keeps the invariant.
LEMMA Elsewhere ==
    IInv /\ UNCHANGED <<checking, checker, sawEmpty>> => IInv'
BY DEF IInv, Inside, OneCheck, FlagHeldOnlyByCheck

\* A check that stays inside keeps it too.
LEMMA StaysInside ==
    ASSUME NEW c \in Checkers, NEW pc \in CheckerPC \ {"idle"},
           IInv, Inside(c), GoTo(c, pc), UNCHANGED <<checking, sawEmpty>>
    PROVE  IInv'
<1>1. checker' \in [Checkers -> CheckerPC] /\ checking' \in BOOLEAN
  BY DEF IInv, GoTo
<1>2. \A d \in Checkers : Inside(d)' <=> Inside(d)
  BY DEF IInv, GoTo, Inside
<1> QED BY <1>1, <1>2 DEF IInv, OneCheck, FlagHeldOnlyByCheck

\* Every step keeps the invariant: Enter lets in a goroutine that finds nobody
\* inside, Leave and FindEmpty let out the only one.
THEOREM Inductive == IInv /\ [Next]_vars => IInv'
<1> SUFFICES ASSUME IInv, [Next]_vars PROVE IInv'
  OBVIOUS
<1>1. ASSUME NEW c \in Checkers, Enter(c) PROVE IInv'
  <2>1. checker' \in [Checkers -> CheckerPC] /\ checking' = TRUE /\ sawEmpty' = sawEmpty
    BY <1>1 DEF IInv, Enter, GoTo, CheckerPC
  <2>2. \A d \in Checkers : ~Inside(d)
    BY <1>1 DEF IInv, Enter
  <2>3. \A d \in Checkers : Inside(d)' <=> d = c
    BY <1>1, <2>2 DEF IInv, Enter, GoTo, Inside, CheckerPC
  <2> QED BY <2>1, <2>3 DEF IInv, OneCheck, FlagHeldOnlyByCheck
<1>2. ASSUME NEW c \in Checkers, FindEmpty(c) PROVE IInv'
  <2>1. checker' \in [Checkers -> CheckerPC] /\ checking' = checking /\ sawEmpty' = TRUE
    BY <1>2 DEF IInv, FindEmpty, GoTo, CheckerPC
  <2>2. \A d \in Checkers : Inside(d)' => Inside(d) /\ d # c
    BY <1>2 DEF IInv, FindEmpty, GoTo, Inside
  <2> QED BY <2>1, <2>2 DEF IInv, OneCheck, FlagHeldOnlyByCheck
<1>3. ASSUME NEW c \in Checkers, Leave(c) PROVE IInv'
  <2>1. checker' \in [Checkers -> CheckerPC] /\ checking' = FALSE /\ sawEmpty' = sawEmpty
    BY <1>3 DEF IInv, Leave, GoTo, CheckerPC
  <2>2. Inside(c)
    BY <1>3 DEF Leave, At, Inside
  <2>3. \A d \in Checkers : ~Inside(d)'
    BY <1>3, <2>2 DEF IInv, OneCheck, Leave, GoTo, Inside
  <2> QED BY <2>1, <2>3 DEF IInv, OneCheck, FlagHeldOnlyByCheck
<1>4. ASSUME NEW c \in Checkers, NEW skip \in SUBSET Plain, Collect(c, skip) PROVE IInv'
  BY <1>4, StaysInside DEF Collect, At, Inside, CheckerPC
<1>5. ASSUME NEW c \in Checkers, CheckUpdates(c) PROVE IInv'
  BY <1>5, StaysInside DEF CheckUpdates, At, Inside, CheckerPC
<1>6. ASSUME NEW c \in Checkers, CheckStores(c) PROVE IInv'
  BY <1>6, Elsewhere DEF CheckStores, check
<1>7. ASSUME NEW c \in Checkers, NEW t \in Plain, NEW delay \in Measured \union {Nil},
             Test(c, t, delay)
      PROVE  IInv'
  BY <1>7, Elsewhere DEF Test
<1>8. ASSUME NEW tags \in SUBSET Tags, Add(tags) \/ Remove(tags) PROVE IInv'
  BY <1>8, Elsewhere DEF Add, Remove, check
<1>9. CASE RemoveEmpties \/ RemoveFills \/ RemoveUpdates \/ RemoveReturns
  BY <1>9, Elsewhere DEF RemoveEmpties, RemoveFills, RemoveUpdates, RemoveReturns, check
<1>10. ASSUME Dial \/ \E failed \in BOOLEAN : DialEnds(failed) PROVE IInv'
  BY <1>10, Elsewhere DEF Dial, DialEnds, check
<1>11. ASSUME NEW n \in Nested, NEW t \in Plain \union {Nil}, NestedMoves(n, t) PROVE IInv'
  BY <1>11, Elsewhere DEF NestedMoves, check
<1>12. CASE UNCHANGED vars
  BY <1>12, Elsewhere DEF vars, check
<1> QED BY <1>1, <1>2, <1>3, <1>4, <1>5, <1>6, <1>7, <1>8, <1>9, <1>10, <1>11, <1>12
        DEF Next, CheckStep

\* Checks of one group never overlap (mutableurltest.go:440).
THEOREM ChecksExclude == Spec => []OneCheck
<1>1. IInv => OneCheck
  BY DEF IInv
<1> QED BY InitCheck, Inductive, <1>1, PTL DEF Spec

\* The flag is left set by nothing but a check that found tags empty
\* (mutableurltest.go:440-447).
THEOREM FlagIsReleased == Spec => []FlagHeldOnlyByCheck
<1>1. IInv => FlagHeldOnlyByCheck
  BY DEF IInv
<1> QED BY InitCheck, Inductive, <1>1, PTL DEF Spec

-----------------------------------------------------------------------------
(* Types *)

\* What a dial or an update picks is a tag, or none.
LEMMA PicksAreTags ==
    ASSUME TypeOK, NEW from \in Tags \union {Nil} PROVE Picks(from) \subseteq Tags \union {Nil}
<1>1. Candidates \in SUBSET Tags
  BY DEF Candidates, TypeOK
<1> QED BY <1>1, PicksWithin DEF Picks

LEMMA UpdateBegins ==
    ASSUME TypeOK, NEW u \in Updaters, BeginUpdate(u)
    PROVE  update' \in [Updaters -> Update \union {NoUpdate}]
<1>1. \A best \in Picks(selected) :
        [pc |-> "store", best |-> best, keep |-> best = selected] \in Update
  BY PicksAreTags DEF TypeOK, Update
<1>2. [pc |-> "store", best |-> Nil, keep |-> FALSE] \in Update
  BY DEF Update
<1> QED BY <1>1, <1>2 DEF BeginUpdate, TypeOK

LEMMA UpdateEnds ==
    ASSUME TypeOK, NEW u \in Updaters, update[u] # NoUpdate, EndUpdate(u)
    PROVE  selected' \in Tags \union {Nil} /\ update' \in [Updaters -> Update \union {NoUpdate}]
<1>1. update[u] \in Update
  BY DEF TypeOK
<1>2. update[u].best \in Tags \union {Nil}
  BY <1>1 DEF Update
<1> QED BY <1>2 DEF EndUpdate, TypeOK

LEMMA GoesTo ==
    ASSUME TypeOK, NEW c \in Checkers, NEW pc \in CheckerPC, GoTo(c, pc)
    PROVE  checker' \in [Checkers -> CheckerPC]
BY DEF TypeOK, GoTo, CheckerPC

\* The group as it is started has its types.
THEOREM InitTypes == Init => TypeOK
<1> SUFFICES ASSUME Init PROVE TypeOK
  OBVIOUS
<1>1. members \in SUBSET Tags /\ Candidates \in SUBSET Tags
  BY DEF Init, Candidates
<1>2. selected \in Tags \union {Nil}
  BY <1>1, PicksWithin DEF Init, Picks
<1>3. history \in [Plain -> Delays \union {Nil}]
  BY URLTestGroupAssumption DEF Init
<1> QED BY <1>1, <1>2, <1>3 DEF Init, TypeOK

\* Every step keeps them: no update and no dial picks anything but a tag.
THEOREM TypesKept == TypeOK /\ [Next]_vars => TypeOK'
<1> SUFFICES ASSUME TypeOK, [Next]_vars PROVE TypeOK'
  OBVIOUS
<1> USE DEF check
<1>1. ASSUME NEW tags \in SUBSET Tags, Add(tags) \/ Remove(tags) PROVE TypeOK'
  BY <1>1 DEF Add, Remove, TypeOK
<1>15. CASE RemoveEmpties \/ RemoveFills
  BY <1>15 DEF RemoveEmpties, RemoveFills, TypeOK
<1>2. CASE RemoveUpdates
  <2>1. "remove" \in Updaters
    BY DEF Updaters
  <2> QED BY <1>2, <2>1, UpdateBegins DEF RemoveUpdates, TypeOK
<1>3. CASE RemoveReturns
  <2>1. "remove" \in Updaters
    BY DEF Updaters
  <2> QED BY <1>3, <2>1, UpdateEnds DEF RemoveReturns, TypeOK
<1>4. ASSUME NEW c \in Checkers, Enter(c) PROVE TypeOK'
  BY <1>4, GoesTo DEF Enter, TypeOK, CheckerPC
<1>5. ASSUME NEW c \in Checkers, FindEmpty(c) PROVE TypeOK'
  BY <1>5, GoesTo DEF FindEmpty, TypeOK, CheckerPC
<1>6. ASSUME NEW c \in Checkers, NEW skip \in SUBSET Plain, Collect(c, skip) PROVE TypeOK'
  <2>1. ToTest \subseteq Plain
    BY DEF ToTest, Candidates, RealTag, TypeOK, Plain
  <2>2. testing' \in [Checkers -> SUBSET Plain]
    BY <1>6, <2>1 DEF Collect, TypeOK
  <2> QED BY <1>6, <2>2, GoesTo DEF Collect, TypeOK, CheckerPC
<1>7. ASSUME NEW c \in Checkers, NEW t \in Plain, NEW delay \in Measured \union {Nil},
             Test(c, t, delay)
      PROVE  TypeOK'
  <2>1. delay \in Delays \union {Nil}
    BY URLTestGroupAssumption
  <2> QED BY <1>7, <2>1 DEF Test, TypeOK
<1>8. ASSUME NEW c \in Checkers, CheckUpdates(c) PROVE TypeOK'
  <2>1. c \in Updaters
    BY DEF Updaters
  <2> QED BY <1>8, <2>1, UpdateBegins, GoesTo DEF CheckUpdates, TypeOK, CheckerPC
<1>9. ASSUME NEW c \in Checkers, CheckStores(c) PROVE TypeOK'
  <2>1. c \in Updaters
    BY DEF Updaters
  <2> QED BY <1>9, <2>1, UpdateEnds DEF CheckStores, TypeOK
<1>10. ASSUME NEW c \in Checkers, Leave(c) PROVE TypeOK'
  BY <1>10, GoesTo DEF Leave, TypeOK, CheckerPC
<1>11. CASE Dial
  <2>1. dial' \in Tags \union {Nil}
    BY <1>11, PicksAreTags DEF Dial, TypeOK
  <2> QED BY <1>11, <2>1 DEF Dial, TypeOK
<1>12. ASSUME NEW failed \in BOOLEAN, DialEnds(failed) PROVE TypeOK'
  BY <1>12 DEF DialEnds, TypeOK
<1>13. ASSUME NEW n \in Nested, NEW t \in Plain \union {Nil}, NestedMoves(n, t) PROVE TypeOK'
  BY <1>13 DEF NestedMoves, TypeOK
<1>14. CASE UNCHANGED vars
  BY <1>14 DEF vars, TypeOK
<1> QED BY <1>1, <1>2, <1>3, <1>4, <1>5, <1>6, <1>7, <1>8, <1>9, <1>10, <1>11, <1>12, <1>13,
           <1>14, <1>15 DEF Next, CheckStep

\* The group's variables keep their types; its selection, an update's pick and the
\* outbound of a dial are tags that the configuration or Add have named, or none.
THEOREM TypeCorrect == Spec => []TypeOK
BY InitTypes, TypesKept, PTL DEF Spec
=============================================================================
