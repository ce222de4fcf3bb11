---------------------------- MODULE RuleSetProofs ----------------------------
(***************************************************************************)
(* Proofs about RuleSetHistory, for lists of any length and any number of  *)
(* callers: what merge and remove make of a list, the types, and that a    *)
(* call that nobody disturbs does what it says.                            *)
(***************************************************************************)
EXTENDS RuleSetHistory, SequenceTheorems, FiniteSetTheorems, WellFoundedInduction, TLAPS

-----------------------------------------------------------------------------
(* Numbers, lists and what they hold *)

\* Induction over the numbers in a set, and the least of them.
LEMMA LeastNumber ==
    ASSUME NEW S \in SUBSET Nat, S # {} PROVE \E n \in S : \A k \in S : n <= k
<1>1. PICK n \in S : \A k \in S : ~(<<k, n>> \in OpToRel(<, Nat))
  BY ONLY S \in SUBSET Nat, S # {}, WFMin, NatLessThanWellFounded
<1>2. ASSUME NEW k \in S, k < n PROVE FALSE
  BY <1>1, <1>2 DEF OpToRel
<1> QED BY <1>2

LEMMA AllNumbers ==
    ASSUME NEW H, NEW N \in Nat, 0 \in H,
           \A n \in 0..N : n \in H /\ n < N => n + 1 \in H
    PROVE  \A n \in 0..N : n \in H
<1> DEFINE Others == {n \in 0..N : n \notin H}
<1>1. SUFFICES ASSUME Others # {} PROVE FALSE
  OBVIOUS
<1>2. PICK n \in Others : \A k \in Others : n <= k
  <2>1. Others \in SUBSET Nat
    OBVIOUS
  <2> HIDE DEF Others
  <2> QED BY <1>1, <2>1, LeastNumber
<1>3. n \in 0..N /\ n \notin H /\ n # 0
  OBVIOUS
<1>4. n - 1 \in 0..N /\ (n - 1) + 1 = n /\ n - 1 < N
  BY <1>3
<1>5. n - 1 \in H
  BY <1>2, <1>4
<1> QED BY <1>3, <1>4, <1>5

\* The lists are the sequences of items that are not too long.
LEMMA ListsAre == \A s : s \in Lists <=> s \in Seq(Items) /\ Len(s) <= MaxLen
<1>1. ASSUME NEW s \in Lists PROVE s \in Seq(Items) /\ Len(s) <= MaxLen
  <2>1. PICK n \in 0..MaxLen : s \in [1..n -> Items]
    BY DEF Lists
  <2>2. n \in Nat /\ s \in Seq(Items)
    BY <2>1, SeqDef, RuleSetAssumption DEF RuleSetAssumption
  <2>3. Len(s) = n
    BY <2>1, <2>2, LenProperties
  <2> QED BY <2>2, <2>3
<1>2. ASSUME NEW s \in Seq(Items), Len(s) <= MaxLen PROVE s \in Lists
  <2>1. Len(s) \in Nat /\ s \in [1..Len(s) -> Items]
    BY LenProperties
  <2>2. Len(s) \in 0..MaxLen
    BY <1>2, <2>1
  <2> QED BY <2>1, <2>2 DEF Lists
<1> QED BY <1>1, <1>2

\* How many of the first n cells hold x.
Cells(cells, n, x) == {k \in 1..n : cells[k] = x}
Held(cells, n, x) == Cardinality(Cells(cells, n, x))

LEMMA CellsFinite ==
    ASSUME NEW cells, NEW n \in Nat, NEW x
    PROVE  IsFiniteSet(Cells(cells, n, x)) /\ Held(cells, n, x) \in Nat
<1>1. IsFiniteSet(1..n) /\ Cells(cells, n, x) \in SUBSET (1..n)
  BY FS_Interval DEF Cells
<1>2. IsFiniteSet(Cells(cells, n, x))
  BY <1>1, FS_Subset
<1> QED BY <1>2, FS_CardinalityType DEF Held

\* The last cell moves to the place of a cell and the list is shorter by one: of what
\* the cell held there is one less, of everything else as much as before.
LEMMA CellGoes ==
    ASSUME NEW cells \in Seq(Items), NEW j \in 1..Len(cells), NEW i \in 1..j, NEW x
    PROVE  LET kept == [cells EXCEPT ![i] = cells[j]]
           IN  Held(kept, j - 1, x) = IF x = cells[i] THEN Held(cells, j, x) - 1
                                      ELSE Held(cells, j, x)
<1> DEFINE kept == [cells EXCEPT ![i] = cells[j]]
           S == Cells(cells, j, x)
           T == Cells(kept, j - 1, x)
<1>1. \A k \in 1..Len(cells) : kept[k] = IF k = i THEN cells[j] ELSE cells[k]
  OBVIOUS
<1>2. j \in Nat /\ j - 1 \in Nat /\ j <= Len(cells) /\ i <= j /\ i \in Nat /\ i >= 1
  OBVIOUS
<1>3. IsFiniteSet(S) /\ Cardinality(S) \in Nat /\ IsFiniteSet(T)
  BY <1>2, CellsFinite DEF Held
<1>4. \A k : k \in S <=> k \in 1..j /\ cells[k] = x
  BY DEF Cells
<1>5. \A k : k \in T <=> k \in 1..(j - 1) /\ (IF k = i THEN cells[j] ELSE cells[k]) = x
  BY <1>1, <1>2 DEF Cells
<1>6. SUFFICES Cardinality(T) = IF x = cells[i] THEN Cardinality(S) - 1 ELSE Cardinality(S)
  BY DEF Held
<1> HIDE DEF kept, S, T
<1>7. CASE cells[j] = x /\ cells[i] = x
  <2>1. T = S \ {j} /\ j \in S
    BY <1>2, <1>4, <1>5, <1>7
  <2> QED BY <1>3, <1>7, <2>1, FS_RemoveElement
<1>8. CASE cells[j] = x /\ cells[i] # x
  <2>1. T = (S \ {j}) \union {i} /\ j \in S /\ i \notin S \ {j}
    BY <1>2, <1>4, <1>5, <1>8
  <2>2. IsFiniteSet(S \ {j}) /\ Cardinality(S \ {j}) = Cardinality(S) - 1
    BY <1>3, <2>1, FS_RemoveElement
  <2>3. Cardinality(T) = Cardinality(S \ {j}) + 1
    BY <2>1, <2>2, FS_AddElement
  <2> QED BY <1>3, <1>8, <2>2, <2>3
<1>9. CASE cells[j] # x /\ cells[i] = x
  <2>1. T = S \ {i} /\ i \in S
    BY <1>2, <1>4, <1>5, <1>9
  <2> QED BY <1>3, <1>9, <2>1, FS_RemoveElement
<1>10. CASE cells[j] # x /\ cells[i] # x
  <2>1. \A k : k \in T <=> k \in S
    BY <1>2, <1>4, <1>5, <1>10
  <2>2. T = S
    BY <2>1
  <2> QED BY <1>10, <2>2
<1> QED BY <1>7, <1>8, <1>9, <1>10

-----------------------------------------------------------------------------
(* What remove makes of the filter *)

\* What the types say of the filter.
LEMMA FilterIs ==
    ASSUME TypeOK
    PROVE  /\ array \in Seq(Items) /\ Len(array) \in Nat /\ Len(array) <= MaxLen
           /\ size \in Nat /\ size <= Len(array) /\ MaxLen \in Nat
           /\ Filter \in Seq(Items) /\ Len(Filter) = size
           /\ \A k \in 1..size : Filter[k] = array[k] /\ array[k] \in Items
<1>1. array \in Seq(Items) /\ Len(array) <= MaxLen /\ Len(array) \in Nat
  BY ListsAre, LenProperties DEF TypeOK
<1>2. size \in Nat /\ size <= Len(array) /\ MaxLen \in Nat
  BY <1>1, RuleSetAssumption DEF TypeOK, RuleSetAssumption
<1>3. \A k \in 1..size : array[k] \in Items
  BY <1>1, <1>2
<1>4. /\ Filter \in Seq(Items)
      /\ Len(Filter) = IF 1 <= size THEN size - 1 + 1 ELSE 0
      /\ \A k \in 1..(size - 1 + 1) : Filter[k] = array[1 + k - 1]
  BY <1>2, <1>3, SubSeqProperties DEF Filter
<1> QED BY <1>1, <1>2, <1>3, <1>4

\* What a removal should leave: cells of the same array, and of each item of the batch
\* one less, if the batch is that one item, or else none.
Kept(batch, kept) ==
    /\ kept.cells \in Seq(Items) /\ Len(kept.cells) = Len(array) /\ kept.n \in 0..size
    /\ \A x : Held(kept.cells, kept.n, x) =
                 IF ~Contains(batch, x) \/ Held(array, size, x) = 0 THEN Held(array, size, x)
                 ELSE IF Len(batch) = 1 THEN Held(array, size, x) - 1
                 ELSE 0

\* The removal of one item (rule.go:262-270).
LEMMA Takes ==
    ASSUME TypeOK, NEW batch, Len(batch) = 1
    PROVE  Kept(batch, TakeOne(batch[1]))
<1> DEFINE item == batch[1]
           found == {k \in 1..size : array[k] = item}
<1>1. \A x : Contains(batch, x) <=> x = item
  BY DEF Contains
<1>2. found = Cells(array, size, item) /\ IsFiniteSet(found)
  <2>1. found = Cells(array, size, item)
    BY DEF Cells
  <2>2. IsFiniteSet(Cells(array, size, item))
    BY FilterIs, CellsFinite
  <2> QED BY <2>1, <2>2
<1>3. Held(array, size, item) = 0 <=> found = {}
  BY <1>2, FS_EmptySet DEF Held
<1>4. CASE found = {}
  <2>1. TakeOne(item) = [cells |-> array, n |-> size]
    BY <1>4 DEF TakeOne
  <2> QED BY <1>1, <1>3, <1>4, <2>1, FilterIs DEF Kept
<1>5. CASE found # {}
  <2> DEFINE i == Min(found)
  <2>1. i \in found
    <3>1. found \in SUBSET Nat
      OBVIOUS
    <3> HIDE DEF found
    <3>2. \E k \in found : \A l \in found : k <= l
      BY <1>5, <3>1, LeastNumber
    <3> QED BY <3>2 DEF Min
  <2>2. i \in 1..size /\ array[i] = item /\ size \in 1..Len(array)
    BY <2>1, FilterIs
  <2>3. TakeOne(item) = [cells |-> [array EXCEPT ![i] = array[size]], n |-> size - 1]
    BY <1>5 DEF TakeOne
  <2> HIDE DEF i, found
  <2>4. ASSUME NEW x
        PROVE  Held([array EXCEPT ![i] = array[size]], size - 1, x) =
                  IF x = item THEN Held(array, size, x) - 1 ELSE Held(array, size, x)
    <3>1. array \in Seq(Items) /\ i \in 1..size /\ size \in 1..Len(array)
      BY <2>2, FilterIs
    <3>2. Held([array EXCEPT ![i] = array[size]], size - 1, x) =
             IF x = array[i] THEN Held(array, size, x) - 1 ELSE Held(array, size, x)
      BY <3>1, CellGoes
    <3> QED BY <2>2, <3>2
  <2>5. [array EXCEPT ![i] = array[size]] \in Seq(Items)
        /\ Len([array EXCEPT ![i] = array[size]]) = Len(array) /\ size - 1 \in 0..size
    BY <2>2, FilterIs, ExceptSeq
  <2>6. TakeOne(item).cells = [array EXCEPT ![i] = array[size]] /\ TakeOne(item).n = size - 1
    BY <2>3
  <2>7. ASSUME NEW x
        PROVE  Held(TakeOne(item).cells, TakeOne(item).n, x) =
                  IF ~Contains(batch, x) \/ Held(array, size, x) = 0 THEN Held(array, size, x)
                  ELSE IF Len(batch) = 1 THEN Held(array, size, x) - 1
                  ELSE 0
    BY <1>1, <1>3, <1>5, <2>4, <2>6
  <2> QED BY <2>5, <2>6, <2>7 DEF Kept
<1> QED BY <1>4, <1>5

\* The loop has its turns.
LoopOn(batch, N, f) ==
    f = [k \in 0..N |-> IF k = 0 THEN [cells |-> array, i |-> 1, j |-> size]
                        ELSE Turn(batch, f[k - 1])]

LEMMA TurnsExist == ASSUME NEW batch, size \in Nat PROVE \E f : LoopOn(batch, size, f)
<1> DEFINE H == {n \in Nat : \E f : LoopOn(batch, n, f)}
<1>1. 0 \in H
  <2> DEFINE f == [k \in 0..0 |-> [cells |-> array, i |-> 1, j |-> size]]
  <2>1. LoopOn(batch, 0, f)
    BY DEF LoopOn
  <2> QED BY <2>1
<1>2. ASSUME NEW n \in 0..size, n \in H PROVE n + 1 \in H
  <2>1. PICK f : LoopOn(batch, n, f)
    BY <1>2
  <2> DEFINE g == [k \in 0..(n + 1) |-> IF k = 0 THEN [cells |-> array, i |-> 1, j |-> size]
                                        ELSE Turn(batch, f[k - 1])]
  <2>2. \A k \in 0..n : g[k] = f[k]
    BY <2>1 DEF LoopOn
  <2>3. \A k \in 0..(n + 1) : k # 0 => k - 1 \in 0..n
    OBVIOUS
  <2>4. LoopOn(batch, n + 1, g)
    BY <2>2, <2>3 DEF LoopOn
  <2> QED BY <2>4
<1> HIDE DEF H
<1>3. size \in H
  BY <1>1, <1>2, AllNumbers
<1> QED BY <1>3 DEF H

LEMMA TurnsAre ==
    ASSUME NEW batch, size \in Nat
    PROVE  /\ Turns(batch)[0] = [cells |-> array, i |-> 1, j |-> size]
           /\ \A k \in 1..size : Turns(batch)[k] = Turn(batch, Turns(batch)[k - 1])
<1>1. LoopOn(batch, size, CHOOSE f : LoopOn(batch, size, f))
  BY TurnsExist
<1>2. Turns(batch) = CHOOSE f : LoopOn(batch, size, f)
  BY DEF Turns, LoopOn
<1>3. LoopOn(batch, size, Turns(batch))
  BY <1>1, <1>2
<1> HIDE DEF Turns
<1> QED BY <1>3 DEF LoopOn

\* After k turns: nothing before i is to go, and of what is to stay the cells up to j
\* hold as much as ever.
Swept(batch, k, t) ==
    /\ t \in [cells : Seq(Items), i : 1..(size + 1), j : 0..size]
    /\ Len(t.cells) = Len(array)
    /\ t.i + size = t.j + k + 1
    /\ \A m \in 1..(t.i - 1) : ~Contains(batch, t.cells[m])
    /\ \A x : ~Contains(batch, x) => Held(t.cells, t.j, x) = Held(array, size, x)

LEMMA TurnSweeps ==
    ASSUME TypeOK, NEW batch, NEW k \in 0..size, k < size, NEW t, Swept(batch, k, t)
    PROVE  Swept(batch, k + 1, Turn(batch, t))
<1> DEFINE c == t.cells
           i == t.i
           j == t.j
<1>1. /\ t = [cells |-> c, i |-> i, j |-> j]
      /\ c \in Seq(Items) /\ i \in 1..(size + 1) /\ j \in 0..size
      /\ Len(c) = Len(array) /\ i + size = j + k + 1
      /\ \A m \in 1..(i - 1) : ~Contains(batch, c[m])
      /\ \A x : ~Contains(batch, x) => Held(c, j, x) = Held(array, size, x)
  BY DEF Swept
<1>2. size \in Nat /\ size <= Len(array) /\ Len(array) \in Nat
  BY FilterIs
<1>3. Turn(batch, t) = IF Contains(batch, c[i])
                       THEN [cells |-> [c EXCEPT ![i] = c[j]], i |-> i, j |-> j - 1]
                       ELSE [cells |-> c, i |-> i + 1, j |-> j]
  BY <1>1 DEF Turn
<1> HIDE DEF c, i, j
<1>4. i <= j /\ i \in 1..j /\ j \in 1..Len(c) /\ i \in 1..Len(c)
  BY <1>1, <1>2
<1>5. CASE Contains(batch, c[i])
  <2> DEFINE d == [c EXCEPT ![i] = c[j]]
  <2>1. /\ d \in Seq(Items) /\ Len(d) = Len(c)
        /\ \A m \in 1..Len(c) : m # i => d[m] = c[m]
    BY <1>1, <1>4
  <2>2. \A m \in 1..(i - 1) : ~Contains(batch, d[m])
    BY <1>1, <1>4, <2>1
  <2>3. ASSUME NEW x, ~Contains(batch, x) PROVE Held(d, j - 1, x) = Held(array, size, x)
    <3>1. Held(d, j - 1, x) = IF x = c[i] THEN Held(c, j, x) - 1 ELSE Held(c, j, x)
      BY <1>1, <1>4, CellGoes
    <3> QED BY <1>1, <1>5, <2>3, <3>1
  <2>4. Turn(batch, t) = [cells |-> d, i |-> i, j |-> j - 1]
    BY <1>3, <1>5
  <2> HIDE DEF d
  <2>5. i + size = (j - 1) + (k + 1) + 1 /\ j - 1 \in 0..size
    BY <1>1, <1>2, <1>4
  <2> QED BY <1>1, <2>1, <2>2, <2>3, <2>4, <2>5 DEF Swept
<1>6. CASE ~Contains(batch, c[i])
  <2>1. Turn(batch, t) = [cells |-> c, i |-> i + 1, j |-> j]
    BY <1>3, <1>6
  <2>2. (i + 1) + size = j + (k + 1) + 1 /\ i + 1 \in 1..(size + 1)
    BY <1>1, <1>2, <1>4
  <2>3. ASSUME NEW m \in 1..((i + 1) - 1) PROVE ~Contains(batch, c[m])
    <3>1. m = i \/ m \in 1..(i - 1)
      BY <1>4
    <3> QED BY <1>1, <1>6, <3>1
  <2> QED BY <1>1, <2>1, <2>2, <2>3 DEF Swept
<1> QED BY <1>5, <1>6

\* The removal of several items (rule.go:272-288).
LEMMA Sweeps ==
    ASSUME TypeOK, NEW batch, Len(batch) # 1
    PROVE  Kept(batch, Sweep(batch))
<1>1. size \in Nat /\ size <= Len(array) /\ Len(array) \in Nat /\ array \in Seq(Items)
  BY FilterIs
<1> DEFINE H == {k \in Nat : Swept(batch, k, Turns(batch)[k])}
           t == Turns(batch)[size]
<1>2. 0 \in H
  <2>1. Turns(batch)[0] = [cells |-> array, i |-> 1, j |-> size]
    BY <1>1, TurnsAre
  <2>2. Swept(batch, 0, [cells |-> array, i |-> 1, j |-> size])
    BY <1>1 DEF Swept
  <2> QED BY <2>1, <2>2
<1>3. ASSUME NEW k \in 0..size, k \in H, k < size PROVE k + 1 \in H
  <2>1. k + 1 \in 1..size /\ (k + 1) - 1 = k
    BY <1>1, <1>3
  <2>2. Turns(batch)[k + 1] = Turn(batch, Turns(batch)[k])
    BY <1>1, <2>1, TurnsAre
  <2>3. Swept(batch, k + 1, Turn(batch, Turns(batch)[k]))
    BY <1>3, TurnSweeps
  <2> QED BY <2>1, <2>2, <2>3
<1>4. Swept(batch, size, t)
  <2> HIDE DEF H
  <2>1. \A k \in 0..size : k \in H /\ k < size => k + 1 \in H
    BY <1>3
  <2>2. \A k \in 0..size : k \in H
    BY <1>1, <1>2, <2>1, AllNumbers
  <2>3. size \in 0..size
    BY <1>1
  <2> QED BY <2>2, <2>3 DEF H
<1>5. Sweep(batch).cells = t.cells /\ Sweep(batch).n = t.i - 1
  BY DEF Sweep
<1> HIDE DEF t
<1>6. /\ t.cells \in Seq(Items) /\ Len(t.cells) = Len(array)
      /\ t.i - 1 \in 0..size /\ t.j = t.i - 1
  BY <1>1, <1>4 DEF Swept
<1>7. ASSUME NEW x, ~Contains(batch, x) PROVE Held(t.cells, t.i - 1, x) = Held(array, size, x)
  BY <1>4, <1>6, <1>7 DEF Swept
<1>8. ASSUME NEW x, Contains(batch, x) PROVE Held(t.cells, t.i - 1, x) = 0
  <2>1. \A m \in 1..(t.i - 1) : t.cells[m] # x
    BY <1>4, <1>8 DEF Swept
  <2>2. Cells(t.cells, t.i - 1, x) = {}
    BY <2>1 DEF Cells
  <2> QED BY <2>2, FS_EmptySet DEF Held
<1> QED BY <1>5, <1>6, <1>7, <1>8 DEF Kept

LEMMA Removes == ASSUME TypeOK, NEW batch PROVE \E kept : Kept(batch, kept)
                                                  /\ (remove(batch) <=> ChangeInPlace(kept.cells, kept.n))
<1>1. CASE Len(batch) = 1
  <2>1. remove(batch) <=> ChangeInPlace(TakeOne(batch[1]).cells, TakeOne(batch[1]).n)
    BY <1>1 DEF remove
  <2> HIDE DEF TakeOne, ChangeInPlace
  <2> QED BY <1>1, <2>1, Takes
<1>2. CASE Len(batch) # 1
  <2>1. remove(batch) <=> ChangeInPlace(Sweep(batch).cells, Sweep(batch).n)
    BY <1>2 DEF remove
  <2> QED BY <1>2, <2>1, Sweeps
<1> QED BY <1>1, <1>2

-----------------------------------------------------------------------------
(* Types *)

\* A copy of the filter does not reach beyond the array it shares, which never gets
\* shorter.
CopiesFit == \A c \in Callers : shared[c] => Len(seen[c]) <= Len(array)

\* The part of the types that the changes of the list are about.
ListTypes ==
    /\ array \in Lists /\ size \in 0..Len(array)
    /\ seen \in [Callers -> Seq(SUBSET Items)]
    /\ \A c \in Callers : Len(seen[c]) <= MaxLen
    /\ shared \in [Callers -> BOOLEAN]
    /\ CopiesFit

LEMMA InPlaceTypes ==
    ASSUME ListTypes, NEW cells \in Lists, Len(array) <= Len(cells), NEW n \in 0..Len(cells),
           ChangeInPlace(cells, n)
    PROVE  ListTypes'
<1>1. cells \in Seq(Items) /\ Len(cells) \in Nat /\ array \in Seq(Items) /\ Len(array) \in Nat
  BY ListsAre, LenProperties DEF ListTypes
<1>2. ASSUME NEW c \in Callers
      PROVE  Seen(c, cells) \in Seq(SUBSET Items) /\ Len(Seen(c, cells)) = Len(seen[c])
  <2>1. /\ seen[c] \in [1..Len(seen[c]) -> SUBSET Items] /\ DOMAIN seen[c] = 1..Len(seen[c])
        /\ seen[c] \in Seq(SUBSET Items) /\ Len(seen[c]) \in Nat
    BY LenProperties DEF ListTypes
  <2>2. CASE ~shared[c]
    BY <2>1, <2>2 DEF Seen
  <2>3. CASE shared[c]
    <3> DEFINE s == [k \in 1..Len(seen[c]) |-> seen[c][k] \union {cells[k]}]
    <3>1. Seen(c, cells) = s
      BY <2>1, <2>3 DEF Seen
    <3>2. \A k \in 1..Len(seen[c]) : cells[k] \in Items /\ seen[c][k] \in SUBSET Items
      BY <1>1, <2>1, <2>3 DEF ListTypes, CopiesFit
    <3>3. s \in [1..Len(seen[c]) -> SUBSET Items]
      BY <3>2
    <3> HIDE DEF s
    <3>4. s \in Seq(SUBSET Items)
      BY <2>1, <3>3, SeqDef
    <3>5. Len(s) = Len(seen[c])
      BY <2>1, <3>3, <3>4, LenProperties
    <3> QED BY <3>1, <3>4, <3>5
  <2> QED BY <2>2, <2>3
<1>3. seen' = [c \in Callers |-> Seen(c, cells)] /\ array' = cells /\ size' = n /\ shared' = shared
  BY DEF ChangeInPlace
<1>4. seen' \in [Callers -> Seq(SUBSET Items)] /\ \A c \in Callers : Len(seen'[c]) = Len(seen[c])
  BY <1>2, <1>3
<1>5. CopiesFit'
  <2> SUFFICES ASSUME NEW c \in Callers, shared[c] PROVE Len(seen'[c]) <= Len(cells)
    BY <1>3 DEF CopiesFit
  <2>1. Len(seen[c]) \in Nat /\ Len(seen[c]) <= Len(array)
    BY LenProperties DEF ListTypes, CopiesFit
  <2> QED BY <1>1, <1>4, <2>1
<1> QED BY <1>3, <1>4, <1>5 DEF ListTypes

LEMMA NewArrayTypes ==
    ASSUME ListTypes, NEW cells \in Lists, NewArray(cells) PROVE ListTypes'
<1>1. Len(cells) \in Nat
  BY ListsAre, LenProperties
<1> QED BY <1>1 DEF NewArray, ListTypes, CopiesFit

LEMMA RemoveTypes == ASSUME TypeOK, CopiesFit, NEW batch, remove(batch) PROVE ListTypes'
<1>1. PICK kept : Kept(batch, kept) /\ (remove(batch) <=> ChangeInPlace(kept.cells, kept.n))
  BY Removes
<1>2. kept.cells \in Lists /\ kept.n \in 0..Len(kept.cells) /\ Len(array) <= Len(kept.cells)
  BY <1>1, ListsAre, FilterIs DEF Kept
<1>3. ListTypes
  BY DEF ListTypes, TypeOK
<1> QED BY <1>1, <1>2, <1>3, InPlaceTypes

\* What append makes of the array when it has room.
LEMMA Merged ==
    ASSUME TypeOK, NEW batch \in Seq(Items), Len(Filter \o batch) <= MaxLen
    PROVE  LET cells == Filter \o batch
               all == cells \o SubSeq(array, Len(cells) + 1, Len(array))
           IN  /\ cells \in Lists /\ all \in Lists /\ Len(array) <= Len(all)
               /\ Len(cells) \in Nat /\ Len(cells) <= Len(all)
               /\ \A k \in 1..Len(cells) : all[k] = cells[k]
<1> DEFINE cells == Filter \o batch
           rest == SubSeq(array, Len(cells) + 1, Len(array))
           all == cells \o rest
<1>1. cells \in Seq(Items) /\ Len(cells) \in Nat /\ Len(cells) <= MaxLen
  BY FilterIs, ConcatProperties
<1> HIDE DEF cells
<1>2. /\ rest \in Seq(Items)
      /\ Len(rest) = IF Len(cells) + 1 <= Len(array) THEN Len(array) - (Len(cells) + 1) + 1 ELSE 0
  <2>1. \A k \in (Len(cells) + 1)..Len(array) : array[k] \in Items
    BY <1>1, FilterIs
  <2> QED BY <1>1, <2>1, FilterIs, SubSeqProperties
<1> HIDE DEF rest
<1>3. /\ all \in Seq(Items) /\ Len(all) = Len(cells) + Len(rest)
      /\ \A k \in 1..(Len(cells) + Len(rest)) :
            all[k] = IF k <= Len(cells) THEN cells[k] ELSE rest[k - Len(cells)]
  BY <1>1, <1>2, ConcatProperties
<1>4. Len(rest) \in Nat
  BY <1>2, LenProperties
<1> HIDE DEF all
<1>5. \A k \in 1..Len(cells) : all[k] = cells[k]
  BY <1>1, <1>3, <1>4
<1>6. Len(all) <= MaxLen /\ Len(array) <= Len(all) /\ Len(cells) <= Len(all)
  BY <1>1, <1>2, <1>3, <1>4, FilterIs
<1> QED BY <1>1, <1>3, <1>5, <1>6, ListsAre DEF cells, rest, all

LEMMA MergeTypes ==
    ASSUME TypeOK, CopiesFit, NEW batch \in Seq(Items), merge(batch) PROVE ListTypes'
<1> DEFINE cells == Filter \o batch
           all == cells \o SubSeq(array, Len(cells) + 1, Len(array))
<1>1. Len(cells) <= MaxLen /\ (ChangeInPlace(all, Len(cells)) \/ NewArray(cells))
  BY DEF merge
<1>2. cells \in Lists /\ all \in Lists /\ Len(array) <= Len(all) /\ Len(cells) \in 0..Len(all)
  <2>1. /\ cells \in Lists /\ all \in Lists /\ Len(array) <= Len(all)
        /\ Len(cells) \in Nat /\ Len(cells) <= Len(all)
    BY <1>1, Merged
  <2> HIDE DEF cells, all
  <2>2. Len(all) \in Nat
    BY <2>1, ListsAre, LenProperties
  <2> QED BY <2>1, <2>2
<1>3. ListTypes
  BY DEF ListTypes, TypeOK
<1> HIDE DEF cells, all
<1> QED BY <1>1, <1>2, <1>3, InPlaceTypes, NewArrayTypes

LEMMA EmptyList == <<>> \in Lists /\ <<>> \in Seq(SUBSET Items) /\ Len(<<>>) = 0 /\ MaxLen \in Nat
<1>1. <<>> \in Seq(Items) /\ <<>> \in Seq(SUBSET Items) /\ Len(<<>>) = 0 /\ MaxLen \in Nat
  BY EmptySeq, RuleSetAssumption DEF RuleSetAssumption
<1>2. <<>> \in Seq(Items) /\ Len(<<>>) <= MaxLen
  BY <1>1
<1> QED BY <1>1, <1>2, ListsAre

\* Before the first call nothing is wrong.
THEOREM InitTypes == HistoryInit => HistoryTypeOK /\ CopiesFit
<1> SUFFICES ASSUME HistoryInit PROVE HistoryTypeOK /\ CopiesFit
  OBVIOUS
<1>1. 0 \in 0..Len(<<>>) /\ 0 \in 0..MaxCalls /\ 0 <= MaxLen
  BY EmptyList, RuleSetAssumption DEF RuleSetAssumption
<1>2. NoJob \in Jobs
  BY DEF Jobs
<1> QED BY <1>1, <1>2, EmptyList DEF HistoryInit, Init, HistoryTypeOK, TypeOK, CopiesFit

\* The steps of RuleSet keep the types; merge and remove keep them by the lemmas above.
LEMMA NextTypes == ASSUME TypeOK, CopiesFit, Next PROVE TypeOK' /\ CopiesFit'
<1> USE DEF list, disk, local, load, save
<1>1. ListTypes
  BY DEF ListTypes, TypeOK
<1>2. ASSUME NEW c \in Callers, NEW op \in AddOps \union RemoveOps, NEW batch \in Batches,
             Call(c, op, batch)
      PROVE  TypeOK' /\ CopiesFit'
  <2>1. ListTypes'
    <3>1. batch \in Seq(Items)
      BY RuleSetAssumption DEF RuleSetAssumption
    <3> QED BY <1>2, <3>1, MergeTypes, RemoveTypes DEF Call
  <2>2. [op |-> op, batch |-> batch] \in Jobs
    BY DEF Jobs
  <2>3. job' \in [Callers -> Jobs]
    BY <1>2, <2>2 DEF Call, TypeOK
  <2>4. calls' \in 0..MaxCalls
    BY <1>2, RuleSetAssumption DEF Call, TypeOK, RuleSetAssumption
  <2>5. pc' \in [Callers -> {"idle", "modified", "copied", "opened", "failed"}]
    BY <1>2 DEF Call, GoTo, TypeOK
  <2> QED BY <1>2, <2>1, <2>3, <2>4, <2>5 DEF Call, TypeOK, ListTypes
<1>3. ASSUME NEW c \in Callers, Copy(c) PROVE TypeOK' /\ CopiesFit'
  <2> DEFINE copy == [k \in 1..size |-> {array[k]}]
  <2>1. size \in Nat /\ size <= Len(array) /\ size <= MaxLen
    BY FilterIs
  <2>2. copy \in [1..size -> SUBSET Items]
    BY FilterIs
  <2>3. seen' = [seen EXCEPT ![c] = copy] /\ shared' = [shared EXCEPT ![c] = TRUE]
    BY <1>3 DEF Copy
  <2> HIDE DEF copy
  <2>4. copy \in Seq(SUBSET Items)
    BY <2>1, <2>2, SeqDef
  <2>5. Len(copy) = size
    BY <2>1, <2>2, <2>4, LenProperties
  <2>6. ListTypes'
    BY <1>1, <1>3, <2>1, <2>3, <2>4, <2>5 DEF Copy, ListTypes, CopiesFit
  <2> QED BY <1>3, <2>6 DEF Copy, GoTo, TypeOK, ListTypes
<1>4. ASSUME NEW c \in Callers, Open(c) PROVE TypeOK' /\ CopiesFit'
  <2>1. content' \in [Callers -> Lists]
    BY <1>4 DEF Open, TypeOK
  <2>2. ListTypes'
    BY <1>1, <1>4, EmptyList DEF Open, ListTypes, CopiesFit
  <2>3. file' \in Broken
    BY <1>4 DEF Open, Broken
  <2> QED BY <1>4, <2>1, <2>2, <2>3 DEF Open, GoTo, TypeOK, ListTypes
<1>5. ASSUME NEW c \in Callers, Ended(c) \/ Fails(c)
      PROVE  /\ pc' \in [Callers -> {"idle", "modified", "copied", "opened", "failed"}]
             /\ job' \in [Callers -> Jobs]
  <2>1. NoJob \in Jobs
    BY DEF Jobs
  <2> QED BY <1>5, <2>1 DEF Ended, Fails, GoTo, TypeOK
<1>6. ASSUME NEW c \in Callers, OpenFails(c) PROVE TypeOK' /\ CopiesFit'
  <2>1. ListTypes'
    BY <1>1, <1>6, EmptyList DEF OpenFails, ListTypes, CopiesFit
  <2> QED BY <1>5, <1>6, <2>1 DEF OpenFails, TypeOK, ListTypes
<1>7. ASSUME NEW c \in Callers, Write(c) \/ WriteFails(c) PROVE TypeOK' /\ CopiesFit'
  <2>1. file' \in Lists \union Broken
    BY <1>7 DEF Write, WriteFails, TypeOK, Broken
  <2>2. content' \in [Callers -> Lists]
    BY <1>7, EmptyList DEF Write, WriteFails, TypeOK
  <2>3. event' \in BOOLEAN
    BY <1>7 DEF Write, WriteFails
  <2>4. ListTypes'
    BY <1>1, <1>7 DEF Write, WriteFails, ListTypes, CopiesFit
  <2>5. /\ pc' \in [Callers -> {"idle", "modified", "copied", "opened", "failed"}]
        /\ job' \in [Callers -> Jobs]
    BY <1>5, <1>7 DEF Write, WriteFails
  <2> QED BY <1>7, <2>1, <2>2, <2>3, <2>4, <2>5 DEF Write, WriteFails, TypeOK, ListTypes
<1>8. ASSUME NEW c \in Callers, Undo(c) PROVE TypeOK' /\ CopiesFit'
  <2>1. ListTypes'
    BY <1>8, RemoveTypes DEF Undo
  <2> QED BY <1>5, <1>8, <2>1 DEF Undo, TypeOK, ListTypes
<1>9. CASE Register
  BY <1>1, <1>9 DEF Register, TypeOK, ListTypes, CopiesFit, Loaders
<1>10. CASE Reload
  <2>1. active' \in Lists
    BY <1>10 DEF Reload, Loadable, TypeOK
  <2>2. loader' \in [Loaders -> {"off", "reads", "sets"}]
    BY <1>10 DEF Reload, TypeOK, Loaders
  <2> QED BY <1>10, <2>1, <2>2 DEF Reload, TypeOK, CopiesFit
<1>11. ASSUME NEW l \in Loaders, LoadReads(l) PROVE TypeOK' /\ CopiesFit'
  <2>1. read' \in [Loaders -> Lists]
    BY <1>11, EmptyList DEF LoadReads, TypeOK
  <2> QED BY <1>11, <2>1 DEF LoadReads, TypeOK, CopiesFit
<1>12. ASSUME NEW l \in Loaders, LoadSets(l) PROVE TypeOK' /\ CopiesFit'
  <2>1. ListTypes'
    BY <1>1, <1>12, NewArrayTypes DEF LoadSets, TypeOK
  <2>2. read' \in [Loaders -> Lists]
    BY <1>12, EmptyList DEF LoadSets, TypeOK
  <2> QED BY <1>12, <2>1, <2>2 DEF LoadSets, TypeOK, ListTypes
<1> QED BY <1>2, <1>3, <1>4, <1>6, <1>7, <1>8, <1>9, <1>10, <1>11, <1>12
        DEF Next, Saves, Watches, Starts, Loaders

\* So do the history variables.
THEOREM TypesKept ==
    HistoryTypeOK /\ CopiesFit /\ [HistoryNext]_<<vars, history>> => HistoryTypeOK' /\ CopiesFit'
<1> SUFFICES ASSUME HistoryTypeOK, CopiesFit, [HistoryNext]_<<vars, history>>
             PROVE  HistoryTypeOK' /\ CopiesFit'
  OBVIOUS
<1>1. CASE UNCHANGED <<vars, history>>
  BY <1>1 DEF vars, list, disk, local, load, save, history, HistoryTypeOK, TypeOK, CopiesFit
<1>2. CASE HistoryNext
  <2>1. TypeOK' /\ CopiesFit'
    BY <1>2, NextTypes DEF HistoryNext, HistoryTypeOK
  <2>2. Filter \in Lists /\ <<>> \in Lists
    BY FilterIs, ListsAre, EmptyList DEF HistoryTypeOK
  <2>3. before' \in [Callers -> Lists]
    BY <1>2, <2>2 DEF HistoryNext, Observe, HistoryTypeOK
  <2>4. calm' \in [Callers -> BOOLEAN]
    BY <1>2 DEF HistoryNext, Observe, HistoryTypeOK, Idle, Moves
  <2>5. unsaved' \in BOOLEAN
    BY <1>2 DEF HistoryNext, Observe, HistoryTypeOK
  <2>6. overtaken' \in BOOLEAN
    BY <1>2 DEF HistoryNext, Observe, HistoryTypeOK
  <2> QED BY <2>1, <2>3, <2>4, <2>5, <2>6 DEF HistoryTypeOK
<1> QED BY <1>1, <1>2

\* Types: the filter, the file, the rules in use and what is on its way between them
\* are lists; and no copy reaches beyond the array that it shares with the filter.
THEOREM TypeCorrect == HistorySpec => [](HistoryTypeOK /\ CopiesFit)
BY InitTypes, TypesKept, PTL DEF HistorySpec
-----------------------------------------------------------------------------
(* A call that nobody disturbs *)

\* The first n cells of an array, and how many of them hold an item.
LEMMA CutIs ==
    ASSUME NEW a \in Seq(Items), NEW n \in 0..Len(a)
    PROVE  LET s == SubSeq(a, 1, n)
           IN  /\ s \in Seq(Items) /\ Len(s) = n
               /\ \A k \in 1..n : s[k] = a[k]
               /\ \A x : Count(s, x) = Held(a, n, x)
<1> DEFINE s == SubSeq(a, 1, n)
<1>1. Len(a) \in Nat /\ n \in Nat /\ n <= Len(a) /\ \A k \in 1..n : a[k] \in Items
  BY LenProperties
<1>2. /\ s \in Seq(Items)
      /\ Len(s) = IF 1 <= n THEN n - 1 + 1 ELSE 0
      /\ \A k \in 1..(n - 1 + 1) : s[k] = a[1 + k - 1]
  BY <1>1, SubSeqProperties
<1> HIDE DEF s
<1>3. Len(s) = n /\ \A k \in 1..n : s[k] = a[k]
  BY <1>1, <1>2
<1>4. DOMAIN s = 1..n
  BY <1>2, <1>3, LenProperties
<1>5. ASSUME NEW x PROVE Count(s, x) = Held(a, n, x)
  <2>1. {k \in DOMAIN s : s[k] = x} = Cells(a, n, x)
    BY <1>3, <1>4 DEF Cells
  <2> QED BY <2>1 DEF Count, Held
<1> QED BY <1>2, <1>3, <1>5 DEF s

\* Sequences that are cut off at the same place and have the same items are the same.
LEMMA SameCut ==
    ASSUME NEW a \in Seq(Items), NEW n \in 0..Len(a), NEW t \in Seq(Items), Len(t) = n,
           \A k \in 1..n : t[k] = a[k]
    PROVE  SubSeq(a, 1, n) = t
<1> DEFINE s == SubSeq(a, 1, n)
<1>1. s \in Seq(Items) /\ Len(s) = n /\ \A k \in 1..n : s[k] = a[k]
  BY CutIs
<1> HIDE DEF s
<1>2. s = t
  BY <1>1, SeqEqual
<1> QED BY <1>2 DEF s

\* Until it returns, a call that nobody has disturbed has made of the filter what it
\* was asked to, and it has copied, and is about to write, just that.
Faithful(c) ==
    /\ Honours(job[c], before[c], Filter)
    /\ job[c].op \in AddOps => Filter = before[c] \o job[c].batch
    /\ pc[c] = "copied" => Len(seen[c]) = size /\ \A k \in 1..size : seen[c][k] = {array[k]}
    /\ pc[c] = "opened" => content[c] = Filter

Promise(c) ==
    /\ Idle(c) => calm[c]
    /\ job[c].op = "AddItem" => Len(job[c].batch) = 1
    /\ pc[c] = "failed" => job[c].op = "AddItem"
    /\ calm[c] /\ ~Idle(c) => Faithful(c)

Promises == \A c \in Callers : Promise(c)

\* A step of somebody else leaves a caller where it is, with its copy.
Waits(c) ==
    /\ pc'[c] = pc[c] /\ job'[c] = job[c] /\ content'[c] = content[c]
    /\ seen'[c] = seen[c] \/ seen'[c] = Seen(c, array')

Calls(c) == \E op \in AddOps \union RemoveOps, batch \in Batches : Call(c, op, batch)

LEMMA OthersWait ==
    ASSUME TypeOK, Next, NEW c \in Callers, ~Calls(c), ~Saves(c) PROVE Waits(c)
<1> USE DEF list, disk, local, load, save
<1>1. ASSUME NEW cells, NEW n, ChangeInPlace(cells, n)
      PROVE  seen'[c] = Seen(c, array')
  BY <1>1 DEF ChangeInPlace
<1>2. ASSUME NEW batch, remove(batch) PROVE seen'[c] = Seen(c, array')
  BY <1>1, <1>2 DEF remove
<1>3. ASSUME NEW batch, merge(batch) PROVE seen'[c] = seen[c] \/ seen'[c] = Seen(c, array')
  BY <1>1, <1>3 DEF merge, NewArray
<1> HIDE DEF remove, merge
<1>4. ASSUME NEW d \in Callers, NEW op \in AddOps \union RemoveOps, NEW batch \in Batches,
             Call(d, op, batch)
      PROVE  Waits(c)
  <2>1. d # c
    BY <1>4 DEF Calls
  <2> QED BY <1>2, <1>3, <1>4, <2>1 DEF Call, GoTo, TypeOK, Waits
<1>5. ASSUME NEW d \in Callers, Saves(d) PROVE Waits(c)
  <2>1. d # c
    BY <1>5
  <2>2. CASE Copy(d)
    BY <2>1, <2>2 DEF Copy, GoTo, TypeOK, Waits
  <2>3. CASE Open(d)
    BY <2>1, <2>3 DEF Open, GoTo, TypeOK, Waits
  <2>4. CASE OpenFails(d)
    BY <2>1, <2>4 DEF OpenFails, Fails, Ended, GoTo, TypeOK, Waits
  <2>5. CASE Write(d)
    BY <2>1, <2>5 DEF Write, Ended, GoTo, TypeOK, Waits
  <2>6. CASE WriteFails(d)
    BY <2>1, <2>6 DEF WriteFails, Fails, Ended, GoTo, TypeOK, Waits
  <2>7. CASE Undo(d)
    BY <1>2, <2>1, <2>7 DEF Undo, Ended, GoTo, TypeOK, Waits
  <2> QED BY <1>5, <2>2, <2>3, <2>4, <2>5, <2>6, <2>7 DEF Saves
<1>6. CASE Register \/ Reload
  BY <1>6 DEF Register, Reload, Waits
<1>7. ASSUME NEW l, LoadReads(l) \/ LoadSets(l) PROVE Waits(c)
  BY <1>7 DEF LoadReads, LoadSets, NewArray, Waits
<1> QED BY <1>4, <1>5, <1>6, <1>7 DEF Next, Watches, Starts

\* A caller that waits stays undisturbed only if the filter is what it was; what its
\* copy may find in a cell is then no other item.
LEMMA WaitKeeps ==
    ASSUME TypeOK, TypeOK', Observe, NEW c \in Callers, Promise(c), Waits(c)
    PROVE  Promise(c)'
<1>1. /\ before'[c] = IF Begins(c) THEN Filter ELSE IF Idle(c)' THEN <<>> ELSE before[c]
      /\ calm'[c] = (Idle(c)' \/ (calm[c] /\ (Moves(c) \/ (Filter' = Filter /\ file' = file))))
  BY DEF Observe
<1>2. pc'[c] = pc[c] /\ job'[c] = job[c] /\ content'[c] = content[c]
  BY DEF Waits
<1>3. (calm[c] /\ ~Idle(c) => Faithful(c))
  BY DEF Promise
<1>4. ASSUME calm'[c], ~Idle(c)' PROVE Faithful(c)'
  <2>1. calm[c] /\ Filter' = Filter /\ before'[c] = before[c] /\ Faithful(c)
    BY <1>1, <1>2, <1>3, <1>4 DEF Begins, Moves, Idle
  <2>2. Honours(job'[c], before'[c], Filter')
    BY <1>2, <2>1 DEF Faithful
  <2>3. job'[c].op \in AddOps => Filter' = before'[c] \o job'[c].batch
    BY <1>2, <2>1 DEF Faithful
  <2>4. pc'[c] = "opened" => content'[c] = Filter'
    BY <1>2, <2>1 DEF Faithful
  <2>5. ASSUME pc'[c] = "copied"
        PROVE  Len(seen'[c]) = size' /\ \A k \in 1..size' : seen'[c][k] = {array'[k]}
    <3>1. /\ array \in Seq(Items) /\ size \in 0..Len(array)
          /\ array' \in Seq(Items) /\ size' \in 0..Len(array')
      BY ListsAre DEF TypeOK
    <3>2. /\ Len(Filter) = size /\ \A k \in 1..size : Filter[k] = array[k]
          /\ Len(Filter') = size' /\ \A k \in 1..size' : Filter'[k] = array'[k]
      BY <3>1, CutIs DEF Filter
    <3>3. size' = size /\ \A k \in 1..size : array'[k] = array[k]
      BY <2>1, <3>2
    <3>4. Len(seen[c]) = size /\ \A k \in 1..size : seen[c][k] = {array[k]}
      BY <1>2, <2>1, <2>5 DEF Faithful
    <3>5. seen[c] \in Seq(SUBSET Items) /\ DOMAIN seen[c] = 1..size
          /\ seen'[c] \in Seq(SUBSET Items)
      BY <3>4, LenProperties DEF TypeOK
    <3>6. CASE seen'[c] = seen[c]
      BY <3>3, <3>4, <3>6
    <3>7. CASE seen'[c] # seen[c]
      <4>1. seen'[c] = [k \in 1..size |-> seen[c][k] \union {array'[k]}]
        BY <3>5, <3>7 DEF Waits, Seen
      <4>2. \A k \in 1..size : seen'[c][k] = {array'[k]}
        BY <3>3, <3>4, <4>1
      <4>3. DOMAIN seen'[c] = 1..size
        BY <4>1
      <4>4. DOMAIN seen'[c] = 1..Len(seen'[c]) /\ Len(seen'[c]) \in Nat /\ size \in Nat
        BY <3>1, <3>5, LenProperties
      <4>5. Len(seen'[c]) = size
        BY <4>3, <4>4
      <4> QED BY <3>3, <4>2, <4>5
    <3> QED BY <3>6, <3>7
  <2> QED BY <2>2, <2>3, <2>4, <2>5 DEF Faithful
<1> QED BY <1>1, <1>2, <1>4 DEF Promise, Idle

\* The call: an add puts its items after the others, a removal leaves what Kept says.
LEMMA CallPromises ==
    ASSUME TypeOK, TypeOK', Observe, NEW c \in Callers, Promise(c), Calls(c)
    PROVE  Promise(c)'
<1> USE DEF list, disk, local, load, save
<1>1. PICK op \in AddOps \union RemoveOps, batch \in Batches : Call(c, op, batch)
  BY DEF Calls
<1>2. /\ pc'[c] = "modified" /\ job'[c] = [op |-> op, batch |-> batch] /\ pc[c] = "idle"
      /\ op \in {"AddItem", "RemoveItem"} => Len(batch) = 1
  BY <1>1 DEF Call, GoTo, TypeOK
<1>3. before'[c] = Filter
  BY <1>2 DEF Observe, Begins
<1>4. array' \in Seq(Items) /\ size' \in 0..Len(array') /\ batch \in Seq(Items)
  BY ListsAre, RuleSetAssumption DEF TypeOK, RuleSetAssumption
<1>5. CASE op \in AddOps
  <2> DEFINE cells == Filter \o batch
             all == cells \o SubSeq(array, Len(cells) + 1, Len(array))
  <2>1. Len(cells) <= MaxLen /\ (ChangeInPlace(all, Len(cells)) \/ NewArray(cells))
    BY <1>1, <1>5 DEF Call, merge
  <2>2. /\ cells \in Seq(Items) /\ Len(cells) \in Nat
        /\ \A k \in 1..Len(cells) : all[k] = cells[k]
    BY <1>4, <2>1, Merged, ListsAre
  <2> HIDE DEF cells, all
  <2>3. size' = Len(cells) /\ \A k \in 1..Len(cells) : array'[k] = cells[k]
    BY <2>1, <2>2 DEF ChangeInPlace, NewArray
  <2>4. Filter' = cells
    BY <1>4, <2>2, <2>3, SameCut DEF Filter
  <2>5. Filter' = before'[c] \o job'[c].batch
    BY <1>2, <1>3, <2>4 DEF cells
  <2>6. Honours(job'[c], before'[c], Filter')
    BY <1>2, <1>5, <2>5 DEF Honours, SameItems
  <2> QED BY <1>2, <2>5, <2>6 DEF Promise, Faithful, Idle
<1>6. CASE op \notin AddOps
  <2>1. PICK kept : Kept(batch, kept) /\ ChangeInPlace(kept.cells, kept.n)
    BY <1>1, <1>6, Removes DEF Call
  <2>2. array' = kept.cells /\ size' = kept.n
    BY <2>1 DEF ChangeInPlace
  <2>3. array \in Seq(Items) /\ size \in 0..Len(array)
    BY ListsAre DEF TypeOK
  <2>4. \A x : Count(Filter, x) = Held(array, size, x)
    BY <2>3, CutIs DEF Filter
  <2>5. \A x : Count(Filter', x) = Held(kept.cells, kept.n, x)
    BY <1>4, <2>2, CutIs DEF Filter
  <2>6. \A x : Count(Filter', x) =
                  IF ~Contains(batch, x) \/ Count(Filter, x) = 0 THEN Count(Filter, x)
                  ELSE IF Len(batch) = 1 THEN Count(Filter, x) - 1
                  ELSE 0
    BY <2>1, <2>4, <2>5 DEF Kept
  <2>7. Honours(job'[c], before'[c], Filter')
    BY <1>2, <1>3, <1>6, <2>6 DEF Honours
  <2> QED BY <1>2, <1>6, <2>7 DEF Promise, Faithful, Idle, AddOps
<1> QED BY <1>5, <1>6

\* Undo: of a filter that still ends with the item, the item goes and all else stays.
LEMMA UndoRestores ==
    ASSUME TypeOK, TypeOK', NEW c \in Callers, HistoryTypeOK, Promise(c), calm[c], Undo(c)
    PROVE  Filter' = before[c]
<1> DEFINE batch == job[c].batch
           old == before[c]
           item == batch[1]
           found == {k \in 1..size : array[k] = item}
<1>1. pc[c] = "failed" /\ Len(batch) = 1 /\ Faithful(c) /\ job[c].op = "AddItem"
  BY DEF Undo, Promise, Idle
<1>2. batch \in Seq(Items)
  <2>1. job[c] \in Jobs
    BY DEF TypeOK
  <2>2. batch \in Batches \/ batch = <<>>
    BY <2>1 DEF Jobs, NoJob
  <2> HIDE DEF batch
  <2> QED BY <2>2, EmptySeq, RuleSetAssumption DEF RuleSetAssumption
<1>3. old \in Seq(Items) /\ Len(old) \in Nat
  BY ListsAre, LenProperties DEF HistoryTypeOK
<1>4. Filter = old \o batch
  BY <1>1 DEF Faithful, AddOps
<1>5. remove(batch)
  BY DEF Undo
<1> HIDE DEF batch, old
<1>6. /\ array \in Seq(Items) /\ size \in Nat /\ size <= Len(array) /\ Len(array) \in Nat
      /\ Len(Filter) = size /\ \A k \in 1..size : Filter[k] = array[k]
  BY FilterIs
<1>7. /\ Len(Filter) = Len(old) + 1
      /\ \A k \in 1..(Len(old) + 1) :
            Filter[k] = IF k <= Len(old) THEN old[k] ELSE batch[k - Len(old)]
  BY <1>1, <1>2, <1>3, <1>4, ConcatProperties
<1>8. size = Len(old) + 1
  BY <1>6, <1>7
<1>9. \A k \in 1..Len(old) : array[k] = old[k]
  BY <1>3, <1>6, <1>7, <1>8
<1>10. array[size] = item /\ size \in found
  <2>1. size \in 1..(Len(old) + 1) /\ ~(size <= Len(old)) /\ size - Len(old) = 1 /\ size \in 1..size
    BY <1>3, <1>8
  <2>2. array[size] = Filter[size] /\ Filter[size] = batch[size - Len(old)]
    BY <1>6, <1>7, <2>1
  <2> QED BY <2>1, <2>2
<1>11. Min(found) \in found
  <2>1. found \in SUBSET Nat /\ found # {}
    BY <1>10
  <2> HIDE DEF found
  <2>2. \E k \in found : \A l \in found : k <= l
    BY <2>1, LeastNumber
  <2> QED BY <2>2 DEF Min
<1>12. TakeOne(item) = [cells |-> [array EXCEPT ![Min(found)] = array[size]], n |-> size - 1]
  BY <1>10 DEF TakeOne
<1>13. ChangeInPlace(TakeOne(item).cells, TakeOne(item).n)
  BY <1>1, <1>5 DEF remove
<1>14. array[Min(found)] = array[size] /\ Min(found) \in 1..Len(array)
  BY <1>6, <1>10, <1>11
<1> HIDE DEF found, item
<1>15. [array EXCEPT ![Min(found)] = array[size]] = array
  BY <1>6, <1>14
<1>16. array' = array /\ size' = Len(old)
  BY <1>3, <1>8, <1>12, <1>13, <1>15 DEF ChangeInPlace
<1>17. Len(old) \in 0..Len(array)
  BY <1>3, <1>6, <1>8
<1>18. SubSeq(array, 1, Len(old)) = old
  BY <1>3, <1>6, <1>9, <1>17, SameCut
<1> QED BY <1>16, <1>18 DEF Filter, old

\* The steps of a call once it has changed the filter.
LEMMA SavePromises ==
    ASSUME HistoryTypeOK, TypeOK', Observe, NEW c \in Callers, Promise(c), Saves(c)
    PROVE  Promise(c)'
<1> USE DEF list, disk, local, load, save
<1>1. TypeOK /\ ~Idle(c)
  BY DEF HistoryTypeOK, Saves, Copy, Open, OpenFails, Write, WriteFails, Undo, Idle
<1>2. /\ before'[c] = IF Idle(c)' THEN <<>> ELSE before[c]
      /\ calm'[c] => Idle(c)' \/ calm[c]
  BY <1>1 DEF Observe, Begins, Idle
<1>3. CASE Idle(c)' /\ job'[c] = NoJob
  <2>1. calm'[c] = (Idle(c)' \/ (calm[c] /\ (Moves(c) \/ (Filter' = Filter /\ file' = file))))
    BY DEF Observe
  <2>2. calm'[c]
    BY ONLY <1>3, <2>1, Zenon
  <2>3. pc'[c] = "idle" /\ job'[c].op = "none"
    BY <1>3 DEF NoJob, Idle
  <2> QED BY <2>2, <2>3 DEF Promise, Idle
<1>4. CASE Copy(c)
  <2> DEFINE copy == [k \in 1..size |-> {array[k]}]
  <2>1. size \in Nat
    BY <1>1, FilterIs
  <2>2. copy \in [1..size -> SUBSET Items]
    BY <1>1, FilterIs
  <2>3. /\ seen'[c] = copy /\ pc'[c] = "copied" /\ job' = job /\ array' = array /\ size' = size
        /\ pc[c] = "modified"
    BY <1>1, <1>4 DEF Copy, GoTo, TypeOK
  <2>4. \A k \in 1..size : copy[k] = {array[k]}
    OBVIOUS
  <2> HIDE DEF copy
  <2>5. Len(copy) = size
    BY <2>1, <2>2, SeqDef, LenProperties
  <2>6. Filter' = Filter
    BY <2>3 DEF Filter
  <2>7. calm'[c] => Faithful(c)'
    BY <1>1, <1>2, <2>3, <2>4, <2>5, <2>6 DEF Promise, Faithful, Idle
  <2> QED BY <2>3, <2>7 DEF Promise, Idle
<1>5. CASE Open(c)
  <2>1. PICK cells \in Lists :
           /\ DOMAIN cells = DOMAIN seen[c]
           /\ \A k \in DOMAIN cells : cells[k] \in seen[c][k]
           /\ content' = [content EXCEPT ![c] = cells]
    BY <1>5 DEF Open
  <2>2. /\ content'[c] = cells /\ pc'[c] = "opened" /\ pc[c] = "copied"
        /\ job' = job /\ array' = array /\ size' = size
    BY <1>1, <1>5, <2>1 DEF Open, GoTo, TypeOK
  <2>3. Filter' = Filter
    BY <2>2 DEF Filter
  <2>4. ASSUME calm'[c] PROVE Faithful(c)'
    <3>1. Faithful(c) /\ before'[c] = before[c]
      BY <1>1, <1>2, <2>2, <2>4 DEF Promise, Idle
    <3>2. Len(seen[c]) = size /\ \A k \in 1..size : seen[c][k] = {array[k]}
      BY <2>2, <3>1 DEF Faithful
    <3>3. seen[c] \in Seq(SUBSET Items) /\ DOMAIN seen[c] = 1..size
      BY <1>1, <3>2, LenProperties DEF TypeOK
    <3>4. cells \in Seq(Items) /\ DOMAIN cells = 1..Len(cells) /\ Len(cells) \in Nat
      BY ListsAre, LenProperties
    <3>5. size \in Nat /\ size \in 0..Len(array) /\ array \in Seq(Items)
      BY <1>1, FilterIs
    <3>6. Len(cells) = size /\ \A k \in 1..size : cells[k] = array[k]
      BY <2>1, <3>2, <3>3, <3>4, <3>5
    <3>7. Filter = cells
      BY <3>4, <3>5, <3>6, SameCut DEF Filter
    <3> QED BY <2>2, <2>3, <3>1, <3>7 DEF Faithful
  <2> QED BY <2>2, <2>4 DEF Promise, Idle
<1>6. CASE Undo(c) \/ Write(c)
  <2>1. Ended(c)
    BY <1>6 DEF Undo, Write
  <2>2. Idle(c)' /\ job'[c] = NoJob
    BY <1>1, <2>1 DEF Ended, GoTo, TypeOK, Idle
  <2> QED BY <1>3, <2>2
<1>7. CASE OpenFails(c) \/ WriteFails(c)
  <2>1. Fails(c) /\ array' = array /\ size' = size
    BY <1>7 DEF OpenFails, WriteFails
  <2>2. CASE job[c].op # "AddItem"
    <3>1. Idle(c)' /\ job'[c] = NoJob
      BY <1>1, <2>1, <2>2 DEF Fails, Ended, GoTo, TypeOK, Idle
    <3> QED BY <1>3, <3>1
  <2>3. CASE job[c].op = "AddItem"
    <3>1. pc'[c] = "failed" /\ job' = job
      BY <1>1, <2>1, <2>3 DEF Fails, GoTo, TypeOK
    <3>2. Filter' = Filter
      BY <2>1 DEF Filter
    <3> QED BY <1>1, <1>2, <2>3, <3>1, <3>2 DEF Promise, Faithful, Idle
  <2> QED BY <2>2, <2>3
<1> QED BY <1>4, <1>5, <1>6, <1>7 DEF Saves

\* Before the first call there is nothing to keep.
THEOREM InitPromises == HistoryInit => Promises
BY DEF HistoryInit, Init, Promises, Promise, Idle, NoJob

\* Every step keeps the promises.
THEOREM PromisesKept ==
    HistoryTypeOK /\ CopiesFit /\ Promises /\ [HistoryNext]_<<vars, history>> => Promises'
<1> SUFFICES ASSUME HistoryTypeOK, CopiesFit, Promises, [HistoryNext]_<<vars, history>>,
                    NEW c \in Callers
             PROVE  Promise(c)'
  BY DEF Promises
<1>1. HistoryTypeOK' /\ Promise(c)
  BY TypesKept DEF Promises
<1>2. CASE UNCHANGED <<vars, history>>
  BY <1>1, <1>2 DEF vars, list, disk, local, load, save, history, Promise, Faithful, Idle, Filter
<1>3. CASE HistoryNext
  <2>1. TypeOK /\ TypeOK' /\ Next /\ Observe
    BY <1>1, <1>3 DEF HistoryTypeOK, HistoryNext
  <2>2. CASE Calls(c)
    BY <1>1, <2>1, <2>2, CallPromises
  <2>3. CASE Saves(c)
    BY <1>1, <2>1, <2>3, SavePromises
  <2>4. CASE ~Calls(c) /\ ~Saves(c)
    BY <1>1, <2>1, <2>4, OthersWait, WaitKeeps
  <2> QED BY <2>2, <2>3, <2>4
<1> QED BY <1>2, <1>3

\* A call during which nobody else changed the filter or the file does what it says: when
\* it has saved, the file and the filter hold what it was asked to make of the list,
\* and an AddItem that failed has left the filter as it found it.
THEOREM CallsKeepTheirWord == HistorySpec => CalmCallsKeepTheirWord
<1>1. HistoryTypeOK /\ CopiesFit /\ Promises /\ [HistoryNext]_<<vars, history>> =>
         [\A c \in Callers : Returns(c) /\ calm[c] =>
             /\ Saved(c) => Filter' = file' /\ Honours(job[c], before[c], file')
             /\ pc[c] = "failed" => Filter' = before[c]]_<<vars, history>>
  <2> SUFFICES ASSUME HistoryTypeOK, CopiesFit, Promises, HistoryNext, NEW c \in Callers,
                      Returns(c), calm[c]
               PROVE  /\ Saved(c) => Filter' = file' /\ Honours(job[c], before[c], file')
                      /\ pc[c] = "failed" => Filter' = before[c]
    OBVIOUS
  <2>1. TypeOK /\ TypeOK' /\ Promise(c) /\ Next
    BY TypesKept DEF HistoryTypeOK, HistoryNext, Promises
  <2>2. Saves(c)
    <3>1. ~Waits(c)
      BY DEF Waits, Returns
    <3>2. ~Calls(c)
      BY DEF Calls, Call, Returns
    <3> QED BY <2>1, <3>1, <3>2, OthersWait
  <2>3. ASSUME Saved(c) PROVE Filter' = file' /\ Honours(job[c], before[c], file')
    <3>1. Write(c) \/ WriteFails(c)
      BY <2>2, <2>3 DEF Saved, Saves, Copy, Open, OpenFails, Undo
    <3>2. Filter' = Filter
      BY <3>1 DEF Write, WriteFails, list, Filter
    <3>3. Faithful(c)
      BY <2>1, <2>3 DEF Promise, Idle, Saved
    <3> QED BY <2>3, <3>2, <3>3 DEF Faithful, Saved
  <2>4. ASSUME pc[c] = "failed" PROVE Filter' = before[c]
    <3>1. Undo(c)
      BY <2>2, <2>4 DEF Saves, Copy, Open, OpenFails, Write, WriteFails
    <3> QED BY <2>1, <3>1, UndoRestores
  <2> QED BY <2>3, <2>4
<1> QED BY <1>1, InitTypes, TypesKept, InitPromises, PromisesKept, PTL
        DEF HistorySpec, CalmCallsKeepTheirWord
=============================================================================
