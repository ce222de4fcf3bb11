---------------------------- MODULE URLTestDelay ----------------------------
(***************************************************************************)
(* protocol/group/mutableurltest.go: the delays a url test measures, in    *)
(* 16-bit milliseconds, the comparison that decides between two, and what  *)
(* pickBestOutbound may return.                                            *)
(***************************************************************************)
EXTENDS Integers

CONSTANTS DelayRange,  \* the number of delays (65536 in the code)
          Tolerance,   \* urlTestGroup.tolerance
          Tags,        \* tags of outbounds
          Nil          \* no tag, no outbound, no history

ASSUME URLTestAssumption ==
    /\ DelayRange \in Nat \ {0}
    /\ Tolerance \in 0 .. DelayRange - 1
    /\ Nil \notin Tags
    /\ Nil \notin Nat

Delays == 0 .. DelayRange - 1

\* Without the tolerance, and with it twice.
EagerBeats(delay, minDelay) == minDelay = 0 \/ minDelay > delay
TimidBeats(delay, minDelay) ==
    minDelay = 0 \/ minDelay > (delay + 2 * Tolerance) % DelayRange

\* Whether an outbound with this delay takes the place of the best so far; a
\* best so far of 0 stands for none, and the sum is a uint16.
Beats(delay, minDelay) ==
    minDelay = 0 \/ minDelay > (delay + Tolerance) % DelayRange

\* The loop of pickBestOutbound, with the delays filed under the real tags: the
\* best so far, m, after a look at t.
BestOf(delays, m, t) ==
    IF delays[t] # Nil /\ Beats(delays[t], IF m = Nil THEN 0 ELSE delays[m]) THEN t ELSE m

\* The best after a look at the outbounds of S in any order, m being the best before.
Outcomes(delays) ==
    LET Loop[S \in SUBSET Tags] ==
            [m \in Tags \union {Nil} |->
                IF S = {} THEN {m}
                ELSE UNION {Loop[S \ {t}][BestOf(delays, m, t)] : t \in S}]
    IN  Loop

\* What pickBestOutbound may return: the best, or any candidate if there is none.
\* The outbound to start from counts if it has a history.
PicksFrom(delays, candidates, current) ==
    LET best == Outcomes(delays)[candidates]
                    [IF current # Nil /\ delays[current] # Nil THEN current ELSE Nil]
    IN  (best \ {Nil}) \union
        (IF Nil \notin best THEN {} ELSE IF candidates # {} THEN candidates ELSE {Nil})
=============================================================================
