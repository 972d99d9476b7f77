-------------------------- MODULE EmbedBatchProofs --------------------------
(***************************************************************************)
(* Theorems about EmbedSlices, for groups of any size with text lists of   *)
(* any length, and about EmbedBatch, for every set of requests, every text *)
(* list, any callers going away and any malformed bodies.                  *)
(*                                                                         *)
(* The invariants, each kept by every step under those before it: TypeOK,  *)
(* then OwnVectors and DoorAttended; StrandedOnlyInABrokenGroup together   *)
(* with Bookkeeping; and Custody, which names the holder of every request. *)
(***************************************************************************)
EXTENDS EmbedBatch, FiniteSetTheorems, FunctionTheorems, SequenceTheorems,
        WellFoundedInduction, TLAPS

(***************************************************************************)
(* Splitting a merged pass gives every request exactly its own vectors.    *)
(* The argument counts slots: the rows of different requests are disjoint, *)
(* so the running `start` grows by len(texts) from one request to the next *)
(* and no two slots share a position of `flat`.                            *)
(***************************************************************************)

\* An interval from 1 has as many elements as its bound says.
LEMMA IntervalCount ==
    ASSUME NEW n \in Nat
    PROVE  IsFiniteSet(1 .. n) /\ Cardinality(1 .. n) = n
<1>1. /\ IsFiniteSet(1 .. n)
      /\ Cardinality(1 .. n) = IF 1 > n THEN 0 ELSE n - 1 + 1
    BY FS_Interval
<1>2. QED
    BY <1>1

\* A row has as many slots as its request has texts.
LEMMA RowCount ==
    ASSUME NEW S, NEW bs \in Seq(Seq(S)), NEW j \in 1 .. Len(bs)
    PROVE  /\ IsFiniteSet(Row(bs, j))
           /\ Cardinality(Row(bs, j)) = Len(bs[j])
<1>1. bs[j] \in Seq(S) /\ Len(bs[j]) \in Nat
    OBVIOUS
<1>2. /\ IsFiniteSet(1 .. Len(bs[j]))
      /\ Cardinality(1 .. Len(bs[j])) = Len(bs[j])
    BY <1>1, IntervalCount
<1>3. IsFiniteSet({j}) /\ Cardinality({j}) = 1
    BY FS_Singleton
<1>4. /\ IsFiniteSet({j} \X (1 .. Len(bs[j])))
      /\ Cardinality({j} \X (1 .. Len(bs[j])))
            = Cardinality({j}) * Cardinality(1 .. Len(bs[j]))
    BY <1>2, <1>3, FS_Product
<1>5. QED
    BY <1>1, <1>2, <1>3, <1>4 DEF Row

\* A group has finitely many slots.
LEMMA SlotsFinite ==
    ASSUME NEW S, NEW bs \in Seq(Seq(S)), NEW n \in 0 .. Len(bs)
    PROVE  IsFiniteSet(Slots(bs, n)) /\ Cardinality(Slots(bs, n)) \in Nat
<1> DEFINE Rows == { Row(bs, j) : j \in 1 .. n }
           row  == [j \in 1 .. n |-> Row(bs, j)]
<1>1. row \in Surjection(1 .. n, Rows)
    BY DEF Surjection
<1>2. IsFiniteSet(1 .. n)
    BY FS_Interval
<1>3. IsFiniteSet(Rows)
    <2> HIDE DEF Rows, row
    <2> QED BY <1>1, <1>2, FS_Surjection
<1>4. \A R \in Rows : IsFiniteSet(R)
    BY RowCount
<1>5. IsFiniteSet(UNION Rows)
    <2> HIDE DEF Rows
    <2> QED BY <1>3, <1>4, FS_UNION
<1>6. QED
    BY <1>5, FS_CardinalityType DEF Slots

\* The loop's `start = end`: the next request starts where this one ends.
LEMMA StartAdvances ==
    ASSUME NEW S, NEW bs \in Seq(Seq(S)), NEW i \in 1 .. Len(bs)
    PROVE  /\ Start(bs, i) \in Nat
           /\ Start(bs, i + 1) = Start(bs, i) + Len(bs[i])
<1>1. Slots(bs, i) = Slots(bs, i - 1) \cup Row(bs, i)
    <2>1. 1 .. i = (1 .. (i - 1)) \cup {i}
        OBVIOUS
    <2> QED BY <2>1 DEF Slots
<1>2. Slots(bs, i - 1) \cap Row(bs, i) = {}
    BY DEF Slots, Row
<1>3. IsFiniteSet(Slots(bs, i - 1)) /\ Cardinality(Slots(bs, i - 1)) \in Nat
    BY SlotsFinite
<1>4. IsFiniteSet(Row(bs, i)) /\ Cardinality(Row(bs, i)) = Len(bs[i])
    BY RowCount
<1>5. Cardinality(Slots(bs, i))
        = Cardinality(Slots(bs, i - 1)) + Cardinality(Row(bs, i))
            - Cardinality(Slots(bs, i - 1) \cap Row(bs, i))
    BY <1>1, <1>3, <1>4, FS_Union
<1>6. Cardinality(Slots(bs, i - 1) \cap Row(bs, i)) = 0
    BY <1>2, FS_EmptySet
<1>7. Len(bs[i]) \in Nat
    OBVIOUS
<1>8. Start(bs, i) \in Nat
    BY <1>3 DEF Start
<1>9. Start(bs, i + 1) = Cardinality(Slots(bs, i))
    <2>1. (i + 1) - 1 = i
        OBVIOUS
    <2> QED BY <2>1 DEF Start
<1>10. Start(bs, i) = Cardinality(Slots(bs, i - 1))
    BY DEF Start
<1>11. QED
    BY <1>3, <1>4, <1>5, <1>6, <1>7, <1>8, <1>9, <1>10

\* A request never ends after a later one starts, nor after the end of flat.
LEMMA StartMonotone ==
    ASSUME NEW S, NEW bs \in Seq(Seq(S)),
           NEW m \in 1 .. Len(bs) + 1, NEW n \in 1 .. Len(bs) + 1, m <= n
    PROVE  /\ Start(bs, m) \in Nat /\ Start(bs, n) \in Nat
           /\ Start(bs, m) <= Start(bs, n)
<1>1. /\ IsFiniteSet(Slots(bs, m - 1)) /\ Cardinality(Slots(bs, m - 1)) \in Nat
      /\ IsFiniteSet(Slots(bs, n - 1)) /\ Cardinality(Slots(bs, n - 1)) \in Nat
    BY SlotsFinite
<1>2. Slots(bs, m - 1) \subseteq Slots(bs, n - 1)
    BY DEF Slots
<1>3. QED
    BY <1>1, <1>2, FS_Subset DEF Start

\* The position of a slot lies in flat, and no other slot has it.
LEMMA PositionOfSlot ==
    ASSUME NEW S, NEW bs \in Seq(Seq(S)),
           NEW i \in 1 .. Len(bs), NEW k \in 1 .. Len(bs[i])
    PROVE  /\ Start(bs, i) + k \in 1 .. Total(bs)
           /\ SlotAt(bs, Start(bs, i) + k) = <<i, k>>
<1>1. \A j \in 1 .. Len(bs) :
          /\ Start(bs, j) \in Nat /\ Len(bs[j]) \in Nat
          /\ Start(bs, j + 1) = Start(bs, j) + Len(bs[j])
    <2> TAKE j \in 1 .. Len(bs)
    <2> QED BY StartAdvances
<1>2. \A m, n \in 1 .. Len(bs) + 1 : m <= n => Start(bs, m) <= Start(bs, n)
    BY StartMonotone
<1>3. Total(bs) = Start(bs, Len(bs) + 1) /\ Total(bs) \in Nat
    BY SlotsFinite DEF Total, Start
<1>4. Start(bs, i) + k \in 1 .. Total(bs)
    <2>1. Start(bs, i + 1) <= Start(bs, Len(bs) + 1)
        BY <1>2
    <2> QED BY <2>1, <1>1, <1>3
<1>5. ASSUME NEW s \in Slots(bs, Len(bs)),
             Start(bs, s[1]) + s[2] = Start(bs, i) + k
      PROVE  s = <<i, k>>
    <2>1. PICK j \in 1 .. Len(bs) : s \in Row(bs, j)
        BY DEF Slots
    <2>2. s = <<j, s[2]>> /\ s[1] = j /\ s[2] \in 1 .. Len(bs[j])
        BY <2>1 DEF Row
    <2>3. ~(j < i)
        <3> SUFFICES ASSUME j < i PROVE FALSE
            OBVIOUS
        <3>1. j + 1 \in 1 .. Len(bs) + 1 /\ i \in 1 .. Len(bs) + 1 /\ j + 1 <= i
            OBVIOUS
        <3>2. Start(bs, j + 1) <= Start(bs, i)
            BY <3>1, <1>2
        <3>3. /\ Start(bs, j) + s[2] = Start(bs, i) + k
              /\ Start(bs, j) + Len(bs[j]) <= Start(bs, i)
            BY <3>2, <2>2, <1>1, <1>5
        <3>4. /\ Start(bs, j) \in Nat /\ Start(bs, i) \in Nat /\ Len(bs[j]) \in Nat
              /\ s[2] \in Nat /\ s[2] <= Len(bs[j]) /\ k \in Nat /\ k >= 1
            BY <2>2, <1>1
        <3> QED BY <3>3, <3>4
    <2>4. ~(i < j)
        <3> SUFFICES ASSUME i < j PROVE FALSE
            OBVIOUS
        <3>1. i + 1 \in 1 .. Len(bs) + 1 /\ j \in 1 .. Len(bs) + 1 /\ i + 1 <= j
            OBVIOUS
        <3>2. Start(bs, i + 1) <= Start(bs, j)
            BY <3>1, <1>2
        <3>3. /\ Start(bs, j) + s[2] = Start(bs, i) + k
              /\ Start(bs, i) + Len(bs[i]) <= Start(bs, j)
            BY <3>2, <2>2, <1>1, <1>5
        <3>4. /\ Start(bs, j) \in Nat /\ Start(bs, i) \in Nat /\ Len(bs[i]) \in Nat
              /\ s[2] \in Nat /\ s[2] >= 1 /\ k \in Nat /\ k <= Len(bs[i])
            BY <2>2, <1>1
        <3> QED BY <3>3, <3>4
    <2>5. j = i
        BY <2>3, <2>4
    <2>6. s[2] = k
        BY <2>5, <2>2, <1>1, <1>5
    <2> QED BY <2>2, <2>5, <2>6
<1>6. <<i, k>> \in Slots(bs, Len(bs))
    BY DEF Slots, Row
<1>7. QED
    BY <1>4, <1>5, <1>6 DEF SlotAt

\* A share of the encoded pass is the encoding of the request's own texts,
\* in their order: requests share a pass but never see each other's results.
THEOREM ShareIsOwn ==
    ASSUME NEW S, NEW V, NEW E \in [S -> V],
           NEW bs \in Seq(Seq(S)), NEW i \in 1 .. Len(bs)
    PROVE  /\ Share(bs, EncodeAll(E, Flat(bs)), i) = EncodeAll(E, bs[i])
           /\ EncodeAll(E, bs[i]) \in Seq(V)
<1> DEFINE vectors == EncodeAll(E, Flat(bs))
<1>1. Total(bs) \in Nat /\ Start(bs, i) \in Nat /\ Len(bs[i]) \in Nat
    BY SlotsFinite, StartAdvances DEF Total
<1>2. Start(bs, i) + Len(bs[i]) <= Total(bs)
    <2>1. Start(bs, i + 1) <= Start(bs, Len(bs) + 1)
        BY StartMonotone
    <2> QED BY <2>1, StartAdvances DEF Total, Start
<1>3. Len(Flat(bs)) = Total(bs)
    BY <1>1 DEF Flat
<1>4. vectors = [p \in 1 .. Total(bs) |-> E[Flat(bs)[p]]]
    BY <1>3 DEF EncodeAll
<1>5. ASSUME NEW k \in 1 .. Len(bs[i])
      PROVE  vectors[Start(bs, i) + k] = E[bs[i][k]]
    BY <1>4, PositionOfSlot DEF Flat
<1>6. Share(bs, vectors, i)
        = [k \in 1 .. Len(bs[i]) |-> vectors[Start(bs, i) + k]]
    BY <1>1 DEF Share
<1>7. Share(bs, vectors, i) = EncodeAll(E, bs[i])
    BY <1>5, <1>6 DEF EncodeAll
<1>8. EncodeAll(E, bs[i]) \in Seq(V)
    BY <1>1 DEF EncodeAll
<1>9. QED
    BY <1>7, <1>8

\* A piece of the merged list, cut where the loop cuts it, is the list that
\* went in.
LEMMA ShareIsAPiece ==
    ASSUME NEW S, NEW bs \in Seq(Seq(S)), NEW i \in 1 .. Len(bs)
    PROVE  Share(bs, Flat(bs), i) = bs[i]
<1>1. Total(bs) \in Nat /\ Start(bs, i) \in Nat /\ bs[i] \in Seq(S) /\ Len(bs[i]) \in Nat
    BY SlotsFinite, StartAdvances DEF Total
<1>2. \A k \in 1 .. Len(bs[i]) : Flat(bs)[Start(bs, i) + k] = bs[i][k]
    BY PositionOfSlot DEF Flat
<1> DEFINE flat == Flat(bs)
           b    == bs[i]
<1> HIDE DEF flat
<1>3. Share(bs, flat, i) = [k \in 1 .. Len(b) |-> flat[Start(bs, i) + k]]
    <2> DEFINE from == Start(bs, i)
    <2>1. from \in Nat /\ Len(b) \in Nat
        BY <1>1
    <2> HIDE DEF from, b
    <2>2. SubSeq(flat, from + 1, from + Len(b)) = [k \in 1 .. Len(b) |-> flat[from + k]]
        BY <2>1
    <2> QED BY <2>2 DEF Share, from, b
<1>4. [k \in 1 .. Len(b) |-> flat[Start(bs, i) + k]] = [k \in 1 .. Len(b) |-> b[k]]
    BY <1>2 DEF flat
<1>5. b \in Seq(S)
    OBVIOUS
<1> HIDE DEF b
<1>6. b = [k \in 1 .. Len(b) |-> b[k]]
    BY <1>5
<1> QED BY <1>3, <1>4, <1>6 DEF flat, b

\* Induction over the natural numbers, from the least number outside of S.
LEMMA SetInduction ==
    ASSUME NEW S \in SUBSET Nat, 0 \in S, \A n \in S : n + 1 \in S
    PROVE  S = Nat
<1>1. SUFFICES ASSUME Nat \ S # {} PROVE FALSE
    OBVIOUS
<1>2. \E x \in Nat \ S : \A y \in Nat \ S : ~ (<<y, x>> \in OpToRel(<, Nat))
    BY <1>1, WFMin, NatLessThanWellFounded
<1>3. PICK x \in Nat \ S : \A y \in Nat \ S : ~ (y < x)
    BY <1>2 DEF OpToRel
<1>4. x - 1 \in Nat /\ x - 1 < x /\ (x - 1) + 1 = x
    BY <1>3
<1> QED BY <1>3, <1>4

\* The concatenations of the first lists, up to the n-th.
ConcatUpTo(bs, n, f) ==
    f = [i \in 1 .. n |-> IF i = 1 THEN bs[i] ELSE f[i - 1] \o bs[i]]

\* FlattenSeq is the last value of a function that satisfies it.
LEMMA FlattenExists ==
    ASSUME NEW bs, Len(bs) \in Nat \ {0}
    PROVE  \E f : ConcatUpTo(bs, Len(bs), f) /\ Lists!FlattenSeq(bs) = f[Len(bs)]
<1> DEFINE N == { n \in Nat : \E f : ConcatUpTo(bs, n, f) }
<1>1. 0 \in N
    <2>1. ConcatUpTo(bs, 0, [i \in 1 .. 0 |-> <<>>])
        BY DEF ConcatUpTo
    <2> QED BY <2>1
<1>2. ASSUME NEW n \in N PROVE n + 1 \in N
    <2>1. PICK f : ConcatUpTo(bs, n, f)
        OBVIOUS
    <2> DEFINE last == IF n + 1 = 1 THEN bs[n + 1] ELSE f[n] \o bs[n + 1]
               h == [i \in 1 .. n + 1 |-> IF i = n + 1 THEN last ELSE f[i]]
    <2>2. \A i \in 1 .. n : f[i] = IF i = 1 THEN bs[i] ELSE f[i - 1] \o bs[i]
        BY <2>1 DEF ConcatUpTo
    <2>3. ASSUME NEW i \in 1 .. n + 1
          PROVE  h[i] = IF i = 1 THEN bs[i] ELSE h[i - 1] \o bs[i]
        <3>1. CASE i = n + 1
            <4>1. i # 1 => i - 1 = n /\ n \in 1 .. n + 1 /\ n # n + 1
                BY <3>1
            <4> QED BY <3>1, <4>1
        <3>2. CASE i \in 1 .. n
            <4>1. i # 1 => i - 1 \in 1 .. n /\ i - 1 # n + 1
                BY <3>2
            <4> QED BY <2>2, <3>2, <4>1
        <3> QED BY <3>1, <3>2
    <2>4. h = [i \in 1 .. n + 1 |-> h[i]]
        OBVIOUS
    <2> HIDE DEF h
    <2>5. ConcatUpTo(bs, n + 1, h)
        BY <2>3, <2>4 DEF ConcatUpTo
    <2> QED BY <2>5
<1>3. N = Nat
    <2> HIDE DEF N
    <2> QED BY <1>1, <1>2, SetInduction DEF N
<1>4. Len(bs) \in N
    <2> HIDE DEF N
    <2> QED BY <1>3
<1> QED
    BY <1>4 DEF Lists!FlattenSeq, ConcatUpTo

\* The merged list is the concatenation of the lists of the group.
THEOREM FlatIsConcatenation ==
    ASSUME NEW S, NEW bs \in Seq(Seq(S))
    PROVE  Flat(bs) = Lists!FlattenSeq(bs)
<1>1. Total(bs) \in Nat /\ Len(bs) \in Nat /\ Total(bs) = Start(bs, Len(bs) + 1)
    BY SlotsFinite DEF Total, Start
<1>2. Start(bs, 1) = 0
    BY FS_EmptySet DEF Start, Slots
<1>3. CASE Len(bs) = 0
    <2>1. Flat(bs) = <<>> /\ bs = <<>>
        BY <1>1, <1>2, <1>3 DEF Flat
    <2> QED BY <1>3, <2>1 DEF Lists!FlattenSeq
<1>4. CASE Len(bs) # 0
    <2>1. PICK f : ConcatUpTo(bs, Len(bs), f) /\ Lists!FlattenSeq(bs) = f[Len(bs)]
        BY <1>1, <1>4, FlattenExists
    <2>2. \A i \in 1 .. Len(bs) : f[i] = IF i = 1 THEN bs[i] ELSE f[i - 1] \o bs[i]
        BY <2>1 DEF ConcatUpTo
    \* The n-th concatenation is the list up to where request n + 1 starts.
    <2> DEFINE Reaches(n) ==
                  /\ f[n] \in Seq(S) /\ Len(f[n]) = Start(bs, n + 1)
                  /\ \A p \in 1 .. Len(f[n]) : f[n][p] = Flat(bs)[p]
               N == { n \in Nat : n \in 1 .. Len(bs) => Reaches(n) }
    <2>3. 0 \in N
        OBVIOUS
    <2>4. ASSUME NEW n \in N PROVE n + 1 \in N
        <3> SUFFICES ASSUME n + 1 \in 1 .. Len(bs) PROVE Reaches(n + 1)
            OBVIOUS
        <3> DEFINE b == bs[n + 1]
        <3>1. /\ b \in Seq(S) /\ Len(b) \in Nat /\ Start(bs, n + 1) \in Nat
              /\ Start(bs, (n + 1) + 1) = Start(bs, n + 1) + Len(b)
            BY StartAdvances
        <3>2. \A k \in 1 .. Len(b) : Flat(bs)[Start(bs, n + 1) + k] = b[k]
            BY PositionOfSlot DEF Flat
        <3>3. CASE n = 0
            <4>1. f[n + 1] = b
                BY <2>2, <3>3
            <4> QED BY <1>2, <3>1, <3>2, <3>3, <4>1
        <3>4. CASE n # 0
            <4>0. n \in 1 .. Len(bs) /\ Reaches(n)
                BY <3>4
            <4>1. Reaches(n) /\ f[n + 1] = f[n] \o b
                <5>1. (n + 1) - 1 = n /\ n + 1 # 1
                    BY <3>4
                <5> HIDE DEF Reaches
                <5> QED BY <2>2, <4>0, <5>1
            <4> HIDE DEF b
            <4>2. /\ f[n + 1] \in Seq(S) /\ Len(f[n + 1]) = Len(f[n]) + Len(b)
                  /\ \A p \in 1 .. Len(f[n + 1]) :
                        f[n + 1][p] = IF p <= Len(f[n]) THEN f[n][p] ELSE b[p - Len(f[n])]
                BY <3>1, <4>1, ConcatProperties
            <4>3. ASSUME NEW p \in 1 .. Len(f[n + 1]) PROVE f[n + 1][p] = Flat(bs)[p]
                <5>1. CASE p <= Len(f[n])
                    BY <4>1, <4>2, <5>1
                <5>2. CASE p > Len(f[n])
                    <6>1. /\ p - Len(f[n]) \in 1 .. Len(b)
                          /\ Start(bs, n + 1) + (p - Len(f[n])) = p
                        BY <3>1, <4>1, <4>2, <5>2
                    <6>2. Flat(bs)[p] = b[p - Len(f[n])]
                        BY <3>2, <6>1
                    <6> QED BY <4>2, <5>2, <6>2
                <5> QED BY <3>1, <4>1, <4>2, <5>1, <5>2
            <4> QED BY <3>1, <4>1, <4>2, <4>3
        <3> QED BY <3>3, <3>4
    <2>5. N = Nat
        <3> HIDE DEF N
        <3> QED BY <2>3, <2>4, SetInduction DEF N
    <2>6. Reaches(Len(bs))
        BY <1>1, <1>4, <2>5
    <2>7. f[Len(bs)] = [p \in 1 .. Total(bs) |-> Flat(bs)[p]]
        BY <1>1, <2>6
    <2>8. Flat(bs) = [p \in 1 .. Total(bs) |-> Flat(bs)[p]]
        BY DEF Flat
    <2> QED BY <2>1, <2>7, <2>8
<1> QED BY <1>3, <1>4

-----------------------------------------------------------------------------
\* The text lists of a group are lists of texts.
LEMMA BodiesOfType ==
    ASSUME TypeOK, NEW g \in Seq(Request)
    PROVE  /\ BodiesOf(g) \in Seq(Seq(Text)) /\ Len(BodiesOf(g)) = Len(g)
           /\ \A i \in 1 .. Len(g) : BodiesOf(g)[i] = texts[g[i]]
<1>1. Len(g) \in Nat /\ \A i \in 1 .. Len(g) : g[i] \in Request
    OBVIOUS
<1>2. \A i \in 1 .. Len(g) : texts[g[i]] \in Seq(Text)
    BY <1>1 DEF TypeOK
<1>3. QED
    BY <1>1, <1>2 DEF BodiesOf

\* Delivering a pass gives each request it reaches the encoding of that
\* request's own texts, and touches no other container.
LEMMA DeliverGivesOwn ==
    ASSUME TypeOK, NEW c \in Request, NEW g \in Seq(Request),
           DeliverResults(c, g), NEW r \in Request
    PROVE  /\ payload'[r] = IF r \in Reached(g)
                            THEN EncodeAll(Encode, texts[r]) ELSE payload[r]
           /\ payload'[r] \in Seq(Vector)
<1>1. CASE r \notin Reached(g)
    BY <1>1 DEF DeliverResults, TypeOK
<1>2. CASE r \in Reached(g)
    <2> DEFINE i == CHOOSE i \in 1 .. Len(g) : g[i] = r
    <2>1. i \in 1 .. Len(g) /\ g[i] = r
        BY <1>2 DEF Reached
    <2>2. payload'[r] = Share(BodiesOf(g), EncodeAll(Encode, Flat(BodiesOf(g))), i)
        BY <1>2 DEF DeliverResults
    <2> HIDE DEF i
    <2>3. BodiesOf(g) \in Seq(Seq(Text)) /\ Len(BodiesOf(g)) = Len(g)
        BY BodiesOfType
    <2>4. BodiesOf(g)[i] = texts[r]
        BY <2>1, BodiesOfType
    <2>5. i \in 1 .. Len(BodiesOf(g))
        BY <2>1, <2>3
    <2>6. /\ payload'[r] = EncodeAll(Encode, BodiesOf(g)[i])
          /\ payload'[r] \in Seq(Vector)
        <3> DEFINE bs == BodiesOf(g)
        <3>1. bs \in Seq(Seq(Text)) /\ i \in 1 .. Len(bs)
            BY <2>3, <2>5
        <3> HIDE DEF bs
        <3>2. /\ Share(bs, EncodeAll(Encode, Flat(bs)), i)
                   = EncodeAll(Encode, bs[i])
              /\ EncodeAll(Encode, bs[i]) \in Seq(Vector)
            BY <3>1, ShareIsOwn, EncodeAssumption
        <3> QED BY <3>2, <2>2 DEF bs
    <2> QED BY <2>4, <2>6, <1>2
<1>3. QED
    BY <1>1, <1>2

\* A delivery keeps the types of all it writes.
LEMMA DeliverType ==
    ASSUME TypeOK, NEW c \in Request, NEW g \in Seq(Request),
           DeliverResults(c, g)
    PROVE  /\ payload' \in [Request -> Seq(Vector)]
           /\ future' \in [Request -> {"none", "waiting", "result",
                                       "exception", "cancelled"}]
           /\ task' \in [Request -> {"none", "sleeping", "encoding", "done",
                                     "died"}]
<1>1. payload' = [r \in Request |-> payload'[r]]
    BY DEF DeliverResults
<1>2. \A r \in Request : payload'[r] \in Seq(Vector)
    BY DeliverGivesOwn
<1>3. payload' \in [Request -> Seq(Vector)]
    BY <1>1, <1>2
<1>4. QED
    BY <1>3 DEF DeliverResults, TypeOK

\* The module's type invariant.
THEOREM TypeCorrect == Spec => []TypeOK
<1>1. Init => TypeOK
    BY RequestAssumption DEF Init, TypeOK
<1>2. TypeOK /\ [Next]_vars => TypeOK'
    <2> SUFFICES ASSUME TypeOK, [Next]_vars PROVE TypeOK'
        OBVIOUS
    <2>1. ASSUME NEW r \in Request, NEW ts \in Seq(Text), EmbedInGroup(r, ts)
          PROVE  TypeOK'
        <3>1. pending' \in Seq(Request)
            BY <2>1, AppendProperties DEF TypeOK, EmbedInGroup
        <3>2. /\ collector' \in Request \cup {NoTask}
              /\ task' \in [Request -> {"none", "sleeping", "encoding", "done",
                                        "died"}]
            BY <2>1 DEF TypeOK, EmbedInGroup
        <3>3. /\ texts' \in [Request -> Seq(Text)]
              /\ call' \in [Request -> {"new", "parked", "returned", "raised",
                                        "cancelled"}]
              /\ future' \in [Request -> {"none", "waiting", "result",
                                          "exception", "cancelled"}]
            BY <2>1 DEF TypeOK, EmbedInGroup
        <3> QED BY <3>1, <3>2, <3>3, <2>1 DEF TypeOK, EmbedInGroup
    <2>2. ASSUME NEW c \in Request, CloseDoor(c) PROVE TypeOK'
        BY <2>2 DEF TypeOK, CloseDoor, TakeGroup
    <2>3. ASSUME NEW c \in Request, CloseDoorEmpty(c) PROVE TypeOK'
        <3>1. pending \in Seq(Request) /\ DeliverResults(c, pending)
            BY <2>3 DEF TypeOK, CloseDoorEmpty
        <3> QED BY <3>1, <2>3, DeliverType DEF TypeOK, CloseDoorEmpty, TakeGroup
    <2>4. ASSUME NEW c \in Request, CloseDoorRaises(c) PROVE TypeOK'
        BY <2>4 DEF TypeOK, CloseDoorRaises, TakeGroup
    <2>5. ASSUME NEW c \in Request, EncodeReturns(c) PROVE TypeOK'
        <3>1. group[c] \in Seq(Request) /\ DeliverResults(c, group[c])
            BY <2>5 DEF TypeOK, EncodeReturns
        <3> QED BY <3>1, <2>5, DeliverType DEF TypeOK, EncodeReturns
    <2>6. ASSUME NEW c \in Request, EncodeRaises(c) PROVE TypeOK'
        BY <2>6 DEF TypeOK, EncodeRaises, DeliverError
    <2>7. ASSUME NEW r \in Request, Resume(r) PROVE TypeOK'
        BY <2>7 DEF TypeOK, Resume
    <2>8. ASSUME NEW r \in Request, Cancel(r) PROVE TypeOK'
        BY <2>8 DEF TypeOK, Cancel
    <2>9. CASE UNCHANGED vars
        BY <2>9 DEF TypeOK, vars
    <2> QED
        BY <2>1, <2>2, <2>3, <2>4, <2>5, <2>6, <2>7, <2>8, <2>9,
           BodiesAssumption, RequestAssumption DEF Next, Collect, Finish
<1>3. QED
    BY <1>1, <1>2, PTL DEF Spec

\* An answered request holds one vector per text of its own body, in order,
\* whatever shared its pass: the slices of _collect_group_then_encode.
THEOREM AnswersAreOwn == Spec => []OwnVectors
<1>1. Init => OwnVectors
    BY DEF Init, OwnVectors
<1>2. TypeOK /\ OwnVectors /\ [Next]_vars => OwnVectors'
    <2> SUFFICES ASSUME TypeOK, OwnVectors, [Next]_vars PROVE OwnVectors'
        OBVIOUS
    <2>1. ASSUME NEW r \in Request, NEW ts, EmbedInGroup(r, ts)
          PROVE  OwnVectors'
        BY <2>1 DEF OwnVectors, TypeOK, EmbedInGroup, EncodeAll
    <2>2. ASSUME NEW c \in Request, CloseDoor(c) \/ CloseDoorRaises(c)
          PROVE  OwnVectors'
        BY <2>2 DEF OwnVectors, CloseDoor, CloseDoorRaises
    <2>3. ASSUME NEW c \in Request, NEW g \in Seq(Request),
                 DeliverResults(c, g), UNCHANGED texts
          PROVE  OwnVectors'
        <3> SUFFICES ASSUME NEW r \in Request, future'[r] = "result"
                     PROVE  payload'[r] = EncodeAll(Encode, texts[r])
            BY <2>3 DEF OwnVectors
        <3>1. CASE r \in Reached(g)
            BY <3>1, <2>3, DeliverGivesOwn
        <3>2. CASE r \notin Reached(g)
            <4>1. future[r] = "result"
                BY <3>2, <2>3 DEF DeliverResults
            <4>2. payload'[r] = payload[r]
                BY <3>2, <2>3, DeliverGivesOwn
            <4> QED BY <4>1, <4>2 DEF OwnVectors
        <3> QED BY <3>1, <3>2
    <2>4. ASSUME NEW c \in Request, CloseDoorEmpty(c) PROVE OwnVectors'
        <3>1. pending \in Seq(Request) /\ DeliverResults(c, pending)
            BY <2>4 DEF TypeOK, CloseDoorEmpty
        <3> QED BY <3>1, <2>3, <2>4 DEF CloseDoorEmpty
    <2>5. ASSUME NEW c \in Request, EncodeReturns(c) PROVE OwnVectors'
        <3>1. group[c] \in Seq(Request) /\ DeliverResults(c, group[c])
            BY <2>5 DEF TypeOK, EncodeReturns
        <3> QED BY <3>1, <2>3, <2>5 DEF EncodeReturns
    <2>6. ASSUME NEW c \in Request, EncodeRaises(c) PROVE OwnVectors'
        BY <2>6 DEF OwnVectors, EncodeRaises, DeliverError
    <2>7. ASSUME NEW r \in Request, Resume(r) \/ Cancel(r)
          PROVE  OwnVectors'
        BY <2>7 DEF OwnVectors, TypeOK, Resume, Cancel
    <2>8. CASE UNCHANGED vars
        BY <2>8 DEF OwnVectors, vars
    <2> QED
        BY <2>1, <2>2, <2>4, <2>5, <2>6, <2>7, <2>8, RequestAssumption
        DEF Next, Collect, Finish
<1>3. QED
    BY <1>1, <1>2, TypeCorrect, PTL DEF Spec

\* The pass encodes the texts of its group and no others, in arrival order, and
\* what is cut out for a request is its list: the merge and the split of
\* _collect_group_then_encode.
THEOREM MergeIsConcatenation == Spec => []MergeConcatenates
<1>1. TypeOK => MergeConcatenates
    <2> SUFFICES ASSUME TypeOK, NEW c \in Request
                 PROVE  /\ Flat(BodiesOf(group[c])) = Lists!FlattenSeq(BodiesOf(group[c]))
                        /\ \A i \in 1 .. Len(BodiesOf(group[c])) :
                              Share(BodiesOf(group[c]), Flat(BodiesOf(group[c])), i)
                                  = BodiesOf(group[c])[i]
        BY DEF MergeConcatenates
    <2>1. BodiesOf(group[c]) \in Seq(Seq(Text))
        BY BodiesOfType DEF TypeOK
    <2> HIDE DEF BodiesOf
    <2> QED BY <2>1, FlatIsConcatenation, ShareIsAPiece
<1> QED
    BY <1>1, TypeCorrect, PTL

\* Requests wait in the room exactly while one collector holds its door.
THEOREM DoorIsAttended == Spec => []DoorAttended
<1>1. Init => DoorAttended
    BY RequestAssumption DEF Init, DoorAttended
<1>2. TypeOK /\ DoorAttended /\ [Next]_vars => DoorAttended'
    <2> SUFFICES ASSUME TypeOK, DoorAttended, [Next]_vars PROVE DoorAttended'
        OBVIOUS
    <2>1. ASSUME NEW r \in Request, NEW ts, EmbedInGroup(r, ts)
          PROVE  DoorAttended'
        <3>1. pending' # <<>>
            BY <2>1, AppendProperties DEF TypeOK, EmbedInGroup
        <3>2. collector' # NoTask
            BY <2>1, RequestAssumption DEF EmbedInGroup
        <3>3. \A c \in Request : (task'[c] = "sleeping") = (c = collector')
            <4>1. task \in [Request -> {"none", "sleeping", "encoding", "done",
                                       "died"}]
                BY DEF TypeOK
            <4>2. CASE collector = NoTask
                BY <4>1, <4>2, <2>1, RequestAssumption
                DEF DoorAttended, EmbedInGroup
            <4>3. CASE collector # NoTask
                BY <4>3, <2>1 DEF DoorAttended, EmbedInGroup
            <4> QED BY <4>2, <4>3
        <3> QED BY <3>1, <3>2, <3>3 DEF DoorAttended
    <2>2. ASSUME NEW c \in Request, TakeGroup(c),
                 \A d \in Request \ {c} : task'[d] = task[d],
                 task'[c] # "sleeping"
          PROVE  DoorAttended'
        <3>1. pending' = <<>> /\ collector' = NoTask
            BY <2>2 DEF TakeGroup
        <3>2. c = collector
            BY <2>2 DEF DoorAttended, TakeGroup
        <3>3. \A d \in Request : task'[d] # "sleeping" /\ d # NoTask
            BY <2>2, <3>2, RequestAssumption DEF DoorAttended
        <3> QED BY <3>1, <3>3 DEF DoorAttended
    <2>3. ASSUME NEW c \in Request, Collect(c) PROVE DoorAttended'
        <3>1. /\ TakeGroup(c) /\ task'[c] # "sleeping"
              /\ \A d \in Request \ {c} : task'[d] = task[d]
            BY <2>3 DEF TypeOK, Collect, CloseDoor, CloseDoorEmpty,
                        CloseDoorRaises, DeliverResults
        <3> QED BY <3>1, <2>2
    <2>4. ASSUME NEW c \in Request, Finish(c) PROVE DoorAttended'
        <3>1. task[c] # "sleeping" /\ task'[c] # "sleeping"
            BY <2>4 DEF TypeOK, Finish, EncodeReturns, EncodeRaises,
                        DeliverResults, DeliverError
        <3>2. \A d \in Request \ {c} : task'[d] = task[d]
            BY <2>4 DEF TypeOK, Finish, EncodeReturns, EncodeRaises,
                        DeliverResults, DeliverError
        <3>3. UNCHANGED <<pending, collector>>
            BY <2>4 DEF Finish, EncodeReturns, EncodeRaises
        <3> QED BY <3>1, <3>2, <3>3 DEF DoorAttended
    <2>5. ASSUME NEW r \in Request, Resume(r) \/ Cancel(r)
          PROVE  DoorAttended'
        BY <2>5 DEF DoorAttended, Resume, Cancel
    <2>6. CASE UNCHANGED vars
        BY <2>6 DEF DoorAttended, vars
    <2> QED
        BY <2>1, <2>3, <2>4, <2>5, <2>6, RequestAssumption DEF Next
<1>3. QED
    BY <1>1, <1>2, TypeCorrect, PTL DEF Spec

-----------------------------------------------------------------------------
\* What StrandedOnlyInABrokenGroup rests on: a request that has not arrived is
\* nowhere and has started no collector; a collector has no group before it
\* closes the door; no container is filled while its request still waits to
\* be encoded; and an answered request keeps its result.
Bookkeeping ==
    /\ \A r \in Request : call[r] = "new" =>
          r \notin InRoom /\ task[r] = "none" /\ \A c \in Request : r \notin InGroup(c)
    /\ \A c \in Request : task[c] \in {"none", "sleeping"} => group[c] = <<>>
    /\ \A r \in InRoom : future[r] \in {"waiting", "cancelled"}
    /\ \A c \in Request : task[c] = "encoding" =>
          \A r \in InGroup(c) : future[r] \in {"waiting", "cancelled"}
    /\ \A r \in Request : call[r] = "returned" => future[r] = "result"

\* The strengthened invariant of the theorem below.
IInv == TypeOK /\ Bookkeeping /\ StrandedOnlyInABrokenGroup

\* The holders hold requests.
LEMMA HoldersHoldRequests ==
    ASSUME TypeOK
    PROVE  /\ InRoom \subseteq Request
           /\ \A c \in Request : /\ InGroup(c) \subseteq Request
                                 /\ group[c] \in Seq(Request)
                                 /\ \A i \in 1 .. Len(group[c]) :
                                       group[c][i] \in InGroup(c)
<1>1. \A i \in 1 .. Len(pending) : pending[i] \in Request
    BY ElementOfSeq DEF TypeOK
<1>2. ASSUME NEW c \in Request
      PROVE  /\ group[c] \in Seq(Request)
             /\ \A i \in 1 .. Len(group[c]) : group[c][i] \in Request
    <2>1. group[c] \in Seq(Request)
        BY DEF TypeOK
    <2> QED BY <2>1, ElementOfSeq
<1>3. QED
    BY <1>1, <1>2 DEF InRoom, InGroup

\* Who waits where, after a request joins the room.
LEMMA RoomAfterJoin ==
    ASSUME TypeOK, NEW r \in Request, NEW ts, EmbedInGroup(r, ts)
    PROVE  /\ InRoom' = InRoom \cup {r}
           /\ \A c \in Request : InGroup(c)' = InGroup(c)
<1>1. /\ Len(pending') = Len(pending) + 1 /\ Len(pending) \in Nat
      /\ \A i \in 1 .. Len(pending) : pending'[i] = pending[i]
      /\ pending'[Len(pending) + 1] = r
    BY AppendProperties DEF TypeOK, EmbedInGroup
<1>2. InRoom' = InRoom \cup {r}
    BY <1>1 DEF InRoom
<1>3. QED
    BY <1>2 DEF EmbedInGroup, InGroup

\* Who waits where, after a collector closes the door.
LEMMA RoomAfterTake ==
    ASSUME TypeOK, NEW c \in Request, TakeGroup(c)
    PROVE  /\ InRoom' = {} /\ InGroup(c)' = InRoom
           /\ \A d \in Request \ {c} : InGroup(d)' = InGroup(d)
           /\ group'[c] = pending
           /\ \A d \in Request \ {c} : group'[d] = group[d]
<1>1. /\ pending' = <<>> /\ group'[c] = pending
      /\ \A d \in Request \ {c} : group'[d] = group[d]
    BY DEF TypeOK, TakeGroup
<1>2. InRoom' = {}
    BY <1>1 DEF InRoom
<1>3. InGroup(c)' = InRoom
    BY <1>1 DEF InGroup, InRoom
<1>4. \A d \in Request \ {c} : InGroup(d)' = InGroup(d)
    BY <1>1 DEF InGroup
<1>5. QED
    BY <1>1, <1>2, <1>3, <1>4

\* What a delivery loop does to the containers, with results or an error: it
\* fills those it reaches, and one of the group is left waiting only behind
\* a cancelled one, at which the collector died.
LEMMA DeliverEffect ==
    ASSUME TypeOK, NEW c \in Request, NEW g \in Seq(Request),
           DeliverResults(c, g) \/ DeliverError(c, g)
    PROVE  /\ \A r \in Request \ Reached(g) : future'[r] = future[r]
           /\ \A r \in Reached(g) : /\ future'[r] \in {"result", "exception"}
                                    /\ future[r] # "cancelled"
                                    /\ \E i \in 1 .. Len(g) : g[i] = r
           /\ task'[c] \in {"done", "died"}
           /\ \A d \in Request \ {c} : task'[d] = task[d]
           /\ \A j \in 1 .. Len(g) : future'[g[j]] = "waiting" =>
                 /\ task'[c] = "died"
                 /\ \E i \in 1 .. Len(g) : i < j /\ future'[g[i]] = "cancelled"
<1>1. \A i \in 1 .. Len(g) : g[i] \in Request
    OBVIOUS
<1>2. /\ \A r \in Request \ Reached(g) : future'[r] = future[r]
      /\ \A r \in Reached(g) : future'[r] \in {"result", "exception"}
    BY <1>1 DEF DeliverResults, DeliverError, Reached
<1>3. \A r \in Reached(g) : /\ future[r] # "cancelled"
                            /\ \E i \in 1 .. Len(g) : g[i] = r
    BY DEF Reached
<1>4. /\ task'[c] = IF AllReached(g) THEN "done" ELSE "died"
      /\ \A d \in Request \ {c} : task'[d] = task[d]
    BY DEF TypeOK, DeliverResults, DeliverError
<1>5. ASSUME NEW j \in 1 .. Len(g), future'[g[j]] = "waiting"
      PROVE  /\ task'[c] = "died"
             /\ \E i \in 1 .. Len(g) : i < j /\ future'[g[i]] = "cancelled"
    <2>1. g[j] \notin Reached(g) /\ future[g[j]] = "waiting"
        BY <1>1, <1>2, <1>5
    <2>2. PICK i \in 1 .. j : future[g[i]] = "cancelled"
        BY <2>1 DEF Reached
    <2>3. i \in 1 .. Len(g) /\ i < j
        BY <2>1, <2>2
    <2>4. future'[g[i]] = "cancelled"
        BY <1>1, <1>2, <1>3, <2>2, <2>3
    <2>5. ~AllReached(g)
        BY <2>2, <2>3 DEF AllReached
    <2> QED BY <1>4, <2>3, <2>4, <2>5
<1>6. QED
    BY <1>2, <1>3, <1>4, <1>5

\* The inductive step of the strengthened invariant.
LEMMA IInvStep == IInv /\ TypeOK' /\ [Next]_vars => IInv'
<1> SUFFICES ASSUME IInv, TypeOK', [Next]_vars
             PROVE  Bookkeeping' /\ StrandedOnlyInABrokenGroup'
    BY DEF IInv
<1> USE DEF IInv
<1>0. /\ \A r \in Request : future[r] \in {"none", "waiting", "result",
                                            "exception", "cancelled"}
      /\ InRoom \subseteq Request
      /\ \A c \in Request : /\ InGroup(c) \subseteq Request
                            /\ \A i \in 1 .. Len(group[c]) :
                                  group[c][i] \in InGroup(c)
    BY HoldersHoldRequests DEF TypeOK
<1>1. ASSUME NEW q \in Request, NEW ts, EmbedInGroup(q, ts)
      PROVE  Bookkeeping' /\ StrandedOnlyInABrokenGroup'
    <2>1. /\ InRoom' = InRoom \cup {q}
          /\ \A c \in Request : InGroup(c)' = InGroup(c)
        BY <1>1, RoomAfterJoin
    <2>2. /\ call[q] = "new" /\ group' = group
          /\ call'[q] = "parked" /\ future'[q] = "waiting"
          /\ \A r \in Request \ {q} : /\ call'[r] = call[r]
                                      /\ future'[r] = future[r]
                                      /\ task'[r] = task[r]
          /\ task'[q] = task[q] \/ task'[q] = "sleeping"
        BY <1>1 DEF TypeOK, EmbedInGroup
    <2>3. /\ q \notin InRoom /\ task[q] = "none" /\ group[q] = <<>>
          /\ \A c \in Request : q \notin InGroup(c)
        BY <2>2 DEF Bookkeeping
    <2>4. Bookkeeping'
        BY <1>0, <2>1, <2>2, <2>3 DEF Bookkeeping
    <2>5. ASSUME NEW r \in Request, future'[r] = "waiting"
          PROVE  \/ WaitsInRoom(r)'
                 \/ \E c \in Request :
                       /\ WaitsInGroup(r, c)'
                       /\ task'[c] = "encoding" \/ BrokenBefore(r, c)'
        <3>1. CASE r = q
            BY <3>1, <2>1, <2>3 DEF WaitsInRoom
        <3>2. CASE r # q /\ WaitsInRoom(r)
            BY <3>2, <2>1 DEF WaitsInRoom
        <3>3. ASSUME r # q, NEW c \in Request, WaitsInGroup(r, c),
                     task[c] = "encoding" \/ BrokenBefore(r, c)
              PROVE  /\ WaitsInGroup(r, c)'
                     /\ task'[c] = "encoding" \/ BrokenBefore(r, c)'
            <4>1. WaitsInGroup(r, c)'
                BY <3>3, <2>1 DEF WaitsInGroup
            <4>2. c # q
                BY <3>3, <2>3 DEF BrokenBefore
            <4>3. \A i \in 1 .. Len(group[c]) :
                      group[c][i] \in Request \ {q}
                BY <2>3, <1>0
            <4>4. BrokenBefore(r, c) => BrokenBefore(r, c)'
                BY <4>2, <4>3, <2>2 DEF BrokenBefore
            <4> QED BY <4>1, <4>2, <4>4, <3>3, <2>2
        <3>4. future[r] = "waiting" \/ r = q
            BY <2>2, <2>5
        <3> QED
            BY <3>1, <3>2, <3>3, <3>4 DEF StrandedOnlyInABrokenGroup
    <2> QED BY <2>4, <2>5 DEF StrandedOnlyInABrokenGroup
\* A sleeping collector holds nothing yet.
<1>2. ASSUME NEW c \in Request, TakeGroup(c)
      PROVE  /\ InGroup(c) = {} /\ InRoom' = {} /\ InGroup(c)' = InRoom
             /\ \A d \in Request \ {c} : InGroup(d)' = InGroup(d)
             /\ group'[c] = pending
             /\ \A d \in Request \ {c} : group'[d] = group[d]
             /\ call[c] # "new"
    <2>1. task[c] = "sleeping"
        BY <1>2 DEF TakeGroup
    <2>2. group[c] = <<>> /\ call[c] # "new"
        BY <2>1 DEF Bookkeeping
    <2>3. InGroup(c) = {}
        BY <2>2 DEF InGroup
    <2> QED BY <1>2, <2>2, <2>3, RoomAfterTake
<1>3. ASSUME NEW c \in Request, CloseDoor(c) \/ CloseDoorRaises(c)
      PROVE  Bookkeeping' /\ StrandedOnlyInABrokenGroup'
    <2>1. /\ TakeGroup(c) /\ UNCHANGED <<call, future>>
          /\ \A d \in Request \ {c} : task'[d] = task[d]
          /\ \/ task'[c] = "encoding"
             \/ /\ task'[c] = "died"
                /\ \E i \in 1 .. Len(pending) : pending[i] \in Malformed
        BY <1>3 DEF TypeOK, CloseDoor, CloseDoorRaises
    <2>2. /\ InGroup(c) = {} /\ InRoom' = {} /\ InGroup(c)' = InRoom
          /\ \A d \in Request \ {c} : InGroup(d)' = InGroup(d)
          /\ group'[c] = pending
          /\ \A d \in Request \ {c} : group'[d] = group[d]
          /\ call[c] # "new"
        BY <2>1, <1>2
    <2>3. Bookkeeping'
        BY <1>0, <2>1, <2>2 DEF Bookkeeping
    <2>4. ASSUME NEW r \in Request, WaitsInRoom(r)
          PROVE  /\ WaitsInGroup(r, c)'
                 /\ task'[c] = "encoding" \/ BrokenBefore(r, c)'
        BY <2>1, <2>2, <2>4 DEF WaitsInRoom, WaitsInGroup, BrokenBefore
    <2>5. ASSUME NEW r \in Request, NEW d \in Request, WaitsInGroup(r, d),
                 task[d] = "encoding" \/ BrokenBefore(r, d)
          PROVE  /\ WaitsInGroup(r, d)'
                 /\ task'[d] = "encoding" \/ BrokenBefore(r, d)'
        <3>1. d # c
            BY <2>2, <2>5 DEF WaitsInGroup
        <3>2. WaitsInGroup(r, d)'
            BY <3>1, <2>2, <2>5 DEF WaitsInGroup
        <3>3. BrokenBefore(r, d) => BrokenBefore(r, d)'
            BY <3>1, <2>1, <2>2 DEF BrokenBefore
        <3> QED BY <3>1, <3>2, <3>3, <2>1, <2>5
    <2> QED
        BY <2>1, <2>3, <2>4, <2>5 DEF StrandedOnlyInABrokenGroup
<1>4. ASSUME NEW c \in Request, CloseDoorEmpty(c)
      PROVE  Bookkeeping' /\ StrandedOnlyInABrokenGroup'
    <2>1. /\ TakeGroup(c) /\ UNCHANGED call
          /\ pending \in Seq(Request) /\ DeliverResults(c, pending)
        BY <1>4 DEF TypeOK, CloseDoorEmpty
    <2>2. /\ InGroup(c) = {} /\ InRoom' = {} /\ InGroup(c)' = InRoom
          /\ \A d \in Request \ {c} : InGroup(d)' = InGroup(d)
          /\ group'[c] = pending
          /\ \A d \in Request \ {c} : group'[d] = group[d]
          /\ call[c] # "new"
        BY <2>1, <1>2
    <2>3. /\ \A r \in Request \ Reached(pending) : future'[r] = future[r]
          /\ \A r \in Reached(pending) :
                /\ future'[r] \in {"result", "exception"}
                /\ future[r] # "cancelled" /\ r \in InRoom
          /\ task'[c] \in {"done", "died"}
          /\ \A d \in Request \ {c} : task'[d] = task[d]
          /\ \A j \in 1 .. Len(pending) : future'[pending[j]] = "waiting" =>
                /\ task'[c] = "died"
                /\ \E i \in 1 .. Len(pending) :
                      i < j /\ future'[pending[i]] = "cancelled"
        BY <2>1, DeliverEffect DEF InRoom
    \* What the loop fills was waiting in the room and nowhere else.
    <2>4. ASSUME NEW r \in Reached(pending)
          PROVE  future[r] = "waiting" /\ \A d \in Request : r \notin InGroup(d)
        <3>1. r \in Request /\ r \in InRoom /\ future[r] = "waiting"
            BY <2>3, <1>0 DEF Bookkeeping
        <3> QED BY <3>1 DEF StrandedOnlyInABrokenGroup, WaitsInRoom, WaitsInGroup
    <2>5. Bookkeeping'
        <3>1. \A r \in Request : call'[r] = "new" =>
                  /\ r \notin InRoom' /\ task'[r] = "none"
                  /\ \A d \in Request : r \notin InGroup(d)'
            BY <2>1, <2>2, <2>3 DEF Bookkeeping
        <3>2. \A d \in Request : task'[d] \in {"none", "sleeping"} =>
                  group'[d] = <<>>
            BY <2>2, <2>3 DEF Bookkeeping
        <3>3. \A d \in Request : task'[d] = "encoding" =>
                  \A r \in InGroup(d)' : future'[r] \in {"waiting", "cancelled"}
            BY <1>0, <2>2, <2>3, <2>4 DEF Bookkeeping
        <3>4. \A r \in Request : call'[r] = "returned" => future'[r] = "result"
            BY <2>1, <2>3, <2>4 DEF Bookkeeping
        <3> QED BY <3>1, <3>2, <3>3, <3>4, <2>2 DEF Bookkeeping
    <2>6. ASSUME NEW r \in Request, WaitsInRoom(r), future'[r] = "waiting"
          PROVE  WaitsInGroup(r, c)' /\ BrokenBefore(r, c)'
        <3>1. PICK j \in 1 .. Len(pending) : pending[j] = r
            BY <2>6 DEF WaitsInRoom, InRoom
        <3>2. WaitsInGroup(r, c)'
            BY <2>2, <2>6 DEF WaitsInRoom, WaitsInGroup
        <3> QED BY <3>1, <3>2, <2>2, <2>3, <2>6 DEF BrokenBefore
    <2>7. ASSUME NEW r \in Request, NEW d \in Request, WaitsInGroup(r, d),
                 task[d] = "encoding" \/ BrokenBefore(r, d)
          PROVE  /\ WaitsInGroup(r, d)'
                 /\ task'[d] = "encoding" \/ BrokenBefore(r, d)'
        <3>1. d # c
            BY <2>2, <2>7 DEF WaitsInGroup
        <3>2. WaitsInGroup(r, d)'
            BY <3>1, <2>2, <2>7 DEF WaitsInGroup
        <3>3. BrokenBefore(r, d) => BrokenBefore(r, d)'
            BY <3>1, <1>0, <2>2, <2>3 DEF BrokenBefore
        <3> QED BY <3>1, <3>2, <3>3, <2>3, <2>7
    <2>8. \A r \in Request : future'[r] = "waiting" => future[r] = "waiting"
        BY <2>3
    <2> QED
        BY <2>5, <2>6, <2>7, <2>8 DEF StrandedOnlyInABrokenGroup
<1>5. ASSUME NEW c \in Request, Finish(c)
      PROVE  Bookkeeping' /\ StrandedOnlyInABrokenGroup'
    <2>1. /\ UNCHANGED <<call, pending, group>> /\ task[c] = "encoding"
          /\ group[c] \in Seq(Request)
          /\ DeliverResults(c, group[c]) \/ DeliverError(c, group[c])
        BY <1>5 DEF TypeOK, Finish, EncodeReturns, EncodeRaises
    <2>2. InRoom' = InRoom /\ \A d \in Request : InGroup(d)' = InGroup(d)
        BY <2>1 DEF InRoom, InGroup
    <2>3. /\ \A r \in Request \ Reached(group[c]) : future'[r] = future[r]
          /\ \A r \in Reached(group[c]) :
                /\ future'[r] \in {"result", "exception"}
                /\ future[r] # "cancelled" /\ r \in InGroup(c)
          /\ task'[c] \in {"done", "died"}
          /\ \A d \in Request \ {c} : task'[d] = task[d]
          /\ \A j \in 1 .. Len(group[c]) : future'[group[c][j]] = "waiting" =>
                /\ task'[c] = "died"
                /\ \E i \in 1 .. Len(group[c]) :
                      i < j /\ future'[group[c][i]] = "cancelled"
        BY <2>1, DeliverEffect DEF InGroup
    \* What the loop fills was waiting in this group and nowhere else.
    <2>4. ASSUME NEW r \in Reached(group[c])
          PROVE  /\ future[r] = "waiting" /\ r \notin InRoom
                 /\ \A d \in Request \ {c} : r \notin InGroup(d)
        <3>1. r \in Request /\ r \in InGroup(c) /\ future[r] = "waiting"
            BY <2>1, <2>3, <1>0 DEF Bookkeeping
        <3> QED BY <3>1 DEF StrandedOnlyInABrokenGroup, WaitsInRoom, WaitsInGroup
    <2>5. Bookkeeping'
        <3>1. \A r \in Request : call'[r] = "new" =>
                  /\ r \notin InRoom' /\ task'[r] = "none"
                  /\ \A d \in Request : r \notin InGroup(d)'
            BY <2>1, <2>2, <2>3 DEF Bookkeeping
        <3>2. \A d \in Request : task'[d] \in {"none", "sleeping"} =>
                  group'[d] = <<>>
            BY <2>1, <2>3 DEF Bookkeeping
        <3>3. \A d \in Request : task'[d] = "encoding" =>
                  \A r \in InGroup(d)' : future'[r] \in {"waiting", "cancelled"}
            BY <1>0, <2>2, <2>3, <2>4 DEF Bookkeeping
        <3>4. \A r \in Request : call'[r] = "returned" => future'[r] = "result"
            BY <2>1, <2>3, <2>4 DEF Bookkeeping
        <3>5. \A r \in InRoom' : future'[r] \in {"waiting", "cancelled"}
            BY <1>0, <2>2, <2>3, <2>4 DEF Bookkeeping
        <3> QED BY <3>1, <3>2, <3>3, <3>4, <3>5 DEF Bookkeeping
    <2>6. ASSUME NEW r \in Request, WaitsInRoom(r)
          PROVE  WaitsInRoom(r)'
        BY <2>2, <2>6 DEF WaitsInRoom
    <2>7. ASSUME NEW r \in Request, NEW d \in Request, WaitsInGroup(r, d),
                 task[d] = "encoding" \/ BrokenBefore(r, d),
                 future'[r] = "waiting"
          PROVE  /\ WaitsInGroup(r, d)'
                 /\ task'[d] = "encoding" \/ BrokenBefore(r, d)'
        <3>1. WaitsInGroup(r, d)'
            BY <2>2, <2>7 DEF WaitsInGroup
        <3>2. CASE d # c
            <4>1. BrokenBefore(r, d) => BrokenBefore(r, d)'
                BY <3>2, <1>0, <2>1, <2>3 DEF BrokenBefore
            <4> QED BY <3>1, <3>2, <4>1, <2>3, <2>7
        <3>3. CASE d = c
            <4>1. PICK j \in 1 .. Len(group[c]) : group[c][j] = r
                BY <3>3, <2>7 DEF WaitsInGroup, InGroup
            <4> QED BY <3>1, <3>3, <4>1, <2>1, <2>3, <2>7 DEF BrokenBefore
        <3> QED BY <3>2, <3>3
    <2>8. \A r \in Request : future'[r] = "waiting" => future[r] = "waiting"
        BY <2>3
    <2> QED
        BY <2>5, <2>6, <2>7, <2>8 DEF StrandedOnlyInABrokenGroup
<1>6. ASSUME NEW q \in Request, Resume(q) \/ Cancel(q)
      PROVE  Bookkeeping' /\ StrandedOnlyInABrokenGroup'
    <2>1. /\ UNCHANGED <<pending, task, group>> /\ call[q] = "parked"
          /\ \A r \in Request : call'[r] = "new" => call[r] = "new"
          /\ \A r \in Request : call'[r] = "returned" =>
                call[r] = "returned" \/ (r = q /\ future[r] = "result")
          /\ \A r \in Request : \/ future'[r] = future[r]
                                \/ /\ future[r] = "waiting"
                                   /\ future'[r] = "cancelled"
        BY <1>6 DEF TypeOK, Resume, Cancel
    <2>2. InRoom' = InRoom /\ \A d \in Request : InGroup(d)' = InGroup(d)
        BY <2>1 DEF InRoom, InGroup
    <2>3. Bookkeeping'
        <3>1. \A r \in Request : call'[r] = "returned" => future'[r] = "result"
            BY <2>1 DEF Bookkeeping
        <3> QED BY <3>1, <1>0, <2>1, <2>2 DEF Bookkeeping
    <2>4. ASSUME NEW r \in Request, NEW c \in Request, BrokenBefore(r, c)
          PROVE  BrokenBefore(r, c)'
        BY <2>1, <2>4, <1>0 DEF BrokenBefore
    <2> QED
        BY <2>1, <2>2, <2>3, <2>4
        DEF StrandedOnlyInABrokenGroup, WaitsInRoom, WaitsInGroup
<1>7. CASE UNCHANGED vars
    BY <1>7 DEF vars, Bookkeeping, StrandedOnlyInABrokenGroup, WaitsInRoom,
                WaitsInGroup, BrokenBefore, InRoom, InGroup
<1> QED
    BY <1>1, <1>3, <1>4, <1>5, <1>6, <1>7, RequestAssumption DEF Next, Collect

\* The strengthened invariant holds throughout.
LEMMA IInvCorrect == Spec => []IInv
<1>1. Init => IInv
    <2> SUFFICES ASSUME Init PROVE IInv
        OBVIOUS
    <2>1. TypeOK
        BY RequestAssumption DEF Init, TypeOK
    <2>2. Bookkeeping
        BY DEF Init, Bookkeeping, InRoom, InGroup
    <2>3. StrandedOnlyInABrokenGroup
        BY DEF Init, StrandedOnlyInABrokenGroup
    <2> QED BY <2>1, <2>2, <2>3 DEF IInv
<1>2. QED
    BY <1>1, IInvStep, TypeCorrect, PTL DEF Spec

\* A parked request is in the room or in one group that will be delivered,
\* unless its group was broken by a caller that went away before it or by a
\* malformed body: the only ways to wait forever.
THEOREM StrandingNeedsABrokenGroup == Spec => []StrandedOnlyInABrokenGroup
BY IInvCorrect, PTL DEF IInv

-----------------------------------------------------------------------------
\* The pass of collector c is over.
Closed(c) == task[c] \in {"done", "died"}

\* Who answers for a request: one that has arrived is in the room or in the
\* group of exactly one collector, a container is filled only by the collector
\* that has closed its group, and only an exception is raised.
Custody ==
    /\ \A r \in Request : IF call[r] = "new" THEN future[r] = "none"
                          ELSE r \in InRoom \/ \E c \in Request : r \in InGroup(c)
    /\ \A c \in Request : \A r \in InRoom : r \notin InGroup(c)
    /\ \A c, d \in Request : \A r \in InGroup(c) : r \in InGroup(d) => c = d
    /\ \A r \in Request : future[r] \in {"result", "exception"} =>
          \E c \in Request : Closed(c) /\ r \in InGroup(c)
    /\ \A r \in Request : call[r] = "raised" => future[r] = "exception"

\* What a step does to the groups and the containers.  A request joins:
Joins(q) ==
    /\ call[q] = "new" /\ task[q] = "none" /\ InRoom' = InRoom \cup {q}
    /\ call'[q] = "parked" /\ future'[q] = "waiting"
    /\ task'[q] \in {"none", "sleeping"}
    /\ \A r \in Request \ {q} :
          /\ call'[r] = call[r] /\ future'[r] = future[r]
          /\ texts'[r] = texts[r] /\ task'[r] = task[r]
    /\ \A c \in Request : InGroup(c)' = InGroup(c) /\ q \notin InGroup(c)

\* a collector takes the room for its group, or goes on with the one it has,
Gathers(c) ==
    \/ /\ task[c] = "sleeping" /\ InGroup(c) = {}
       /\ InGroup(c)' = InRoom /\ InRoom' = {}
    \/ /\ task[c] = "encoding"
       /\ InGroup(c)' = InGroup(c) /\ InRoom' = InRoom

\* and fills containers of the group if its pass is over;
Works(c) ==
    /\ Gathers(c) /\ UNCHANGED <<texts, call>>
    /\ \A d \in Request \ {c} : InGroup(d)' = InGroup(d) /\ task'[d] = task[d]
    /\ task'[c] = "encoding" \/ Closed(c)'
    /\ task'[c] = "died" =>
          \E r \in InGroup(c)' : future[r] = "cancelled" \/ r \in Malformed
    /\ \A r \in Request : future'[r] # future[r] =>
          /\ r \in InGroup(c)' /\ Closed(c)'
          /\ future[r] = "waiting" /\ future'[r] \in {"result", "exception"}

\* or a parked request ends.
Ends(q) ==
    /\ call[q] = "parked" /\ UNCHANGED <<texts, task>>
    /\ InRoom' = InRoom /\ \A c \in Request : InGroup(c)' = InGroup(c)
    /\ \A r \in Request \ {q} : call'[r] = call[r] /\ future'[r] = future[r]
    /\ \/ /\ future'[q] = future[q]
          /\ \/ call'[q] = "returned" /\ future[q] = "result"
             \/ call'[q] = "raised" /\ future[q] = "exception"
       \/ /\ Cancel(q) /\ call'[q] = "cancelled"
          /\ future'[q] = IF future[q] = "waiting" THEN "cancelled" ELSE future[q]

LEMMA Moves ==
    ASSUME IInv, Next
    PROVE  (\E q \in Request : Joins(q) \/ Works(q) \/ Ends(q))
<1>0. TypeOK /\ Bookkeeping
    BY DEF IInv
<1>1. ASSUME NEW q \in Request, NEW ts, EmbedInGroup(q, ts)
      PROVE  Joins(q)
    <2>1. /\ InRoom' = InRoom \cup {q}
          /\ \A c \in Request : InGroup(c)' = InGroup(c)
        BY <1>0, <1>1, RoomAfterJoin
    <2>2. call[q] = "new" /\ task[q] = "none" /\ \A c \in Request : q \notin InGroup(c)
        BY <1>0, <1>1 DEF EmbedInGroup, Bookkeeping
    <2>3. /\ call'[q] = "parked" /\ future'[q] = "waiting"
          /\ task'[q] \in {"none", "sleeping"}
          /\ \A r \in Request \ {q} :
                /\ call'[r] = call[r] /\ future'[r] = future[r]
                /\ texts'[r] = texts[r] /\ task'[r] = task[r]
        BY <1>0, <1>1, <2>2 DEF TypeOK, EmbedInGroup
    <2> QED BY <2>1, <2>2, <2>3 DEF Joins
\* A sleeping collector holds nothing yet, and takes the whole room.
<1>2. ASSUME NEW c \in Request, TakeGroup(c)
      PROVE  /\ Gathers(c)
             /\ InGroup(c)' = InRoom
             /\ \A d \in Request \ {c} : InGroup(d)' = InGroup(d)
             /\ pending \in Seq(Request)
             /\ \A i \in 1 .. Len(pending) : pending[i] \in InGroup(c)'
    <2>1. /\ InRoom' = {} /\ InGroup(c)' = InRoom
          /\ \A d \in Request \ {c} : InGroup(d)' = InGroup(d)
        BY <1>0, <1>2, RoomAfterTake
    <2>2. task[c] = "sleeping" /\ group[c] = <<>>
        BY <1>0, <1>2 DEF TakeGroup, Bookkeeping
    <2>3. InGroup(c) = {}
        BY <2>2 DEF InGroup
    <2>4. pending \in Seq(Request) /\ \A i \in 1 .. Len(pending) : pending[i] \in InRoom
        BY <1>0 DEF TypeOK, InRoom
    <2> QED BY <2>1, <2>2, <2>3, <2>4 DEF Gathers
<1>3. ASSUME NEW c \in Request, CloseDoor(c) \/ CloseDoorRaises(c)
      PROVE  Works(c)
    <2>1. /\ TakeGroup(c) /\ UNCHANGED <<texts, call, future>>
          /\ \A d \in Request \ {c} : task'[d] = task[d]
          /\ \/ task'[c] = "encoding"
             \/ /\ task'[c] = "died"
                /\ \E i \in 1 .. Len(pending) : pending[i] \in Malformed
        BY <1>0, <1>3 DEF TypeOK, CloseDoor, CloseDoorRaises
    <2>2. Closed(c)' <=> task'[c] \in {"done", "died"}
        BY DEF Closed
    <2> QED BY <2>1, <2>2, <1>2 DEF Works
\* The delivery loop over the group it has or has just taken.
<1>4. ASSUME NEW c \in Request, NEW g \in Seq(Request), Gathers(c),
             UNCHANGED <<texts, call>>,
             \A d \in Request \ {c} : InGroup(d)' = InGroup(d),
             \A i \in 1 .. Len(g) : g[i] \in InGroup(c)',
             \A r \in InGroup(c)' : future[r] \in {"waiting", "cancelled"},
             DeliverResults(c, g) \/ DeliverError(c, g)
      PROVE  Works(c)
    <2>1. /\ \A r \in Request \ Reached(g) : future'[r] = future[r]
          /\ \A r \in Reached(g) : /\ future'[r] \in {"result", "exception"}
                                   /\ future[r] # "cancelled"
                                   /\ \E i \in 1 .. Len(g) : g[i] = r
          /\ task'[c] \in {"done", "died"}
          /\ \A d \in Request \ {c} : task'[d] = task[d]
        BY <1>0, <1>4, DeliverEffect
    <2>2. task'[c] = "died" => \E r \in InGroup(c)' : future[r] = "cancelled"
        <3>1. task'[c] = "died" => ~AllReached(g)
            BY <1>0, <1>4 DEF TypeOK, DeliverResults, DeliverError
        <3> QED BY <3>1, <1>4 DEF AllReached
    <2>3. \A r \in Reached(g) : r \in InGroup(c)' /\ future[r] = "waiting"
        BY <2>1, <1>4
    <2>4. Closed(c)'
        BY <2>1 DEF Closed
    <2> QED BY <2>1, <2>2, <2>3, <2>4, <1>4 DEF Works
<1>5. ASSUME NEW c \in Request, CloseDoorEmpty(c)
      PROVE  Works(c)
    <2>1. TakeGroup(c) /\ UNCHANGED <<texts, call>> /\ DeliverResults(c, pending)
        BY <1>5 DEF CloseDoorEmpty
    <2>2. \A r \in InGroup(c)' : future[r] \in {"waiting", "cancelled"}
        BY <2>1, <1>0, <1>2 DEF Bookkeeping
    <2> QED BY <2>1, <2>2, <1>2, <1>4
<1>6. ASSUME NEW c \in Request, Finish(c)
      PROVE  Works(c)
    <2>1. /\ UNCHANGED <<texts, call, pending, group>> /\ task[c] = "encoding"
          /\ DeliverResults(c, group[c]) \/ DeliverError(c, group[c])
        BY <1>6 DEF Finish, EncodeReturns, EncodeRaises
    <2>2. InRoom' = InRoom /\ \A d \in Request : InGroup(d)' = InGroup(d)
        BY <2>1 DEF InRoom, InGroup
    <2>3. Gathers(c)
        BY <2>1, <2>2 DEF Gathers
    <2>4. /\ group[c] \in Seq(Request)
          /\ \A i \in 1 .. Len(group[c]) : group[c][i] \in InGroup(c)
        BY <1>0, HoldersHoldRequests
    <2>5. \A r \in InGroup(c) : future[r] \in {"waiting", "cancelled"}
        BY <1>0, <2>1 DEF Bookkeeping
    <2> QED BY <2>1, <2>2, <2>3, <2>4, <2>5, <1>4
<1>7. ASSUME NEW q \in Request, Resume(q) \/ Cancel(q)
      PROVE  Ends(q)
    <2>1. UNCHANGED <<texts, pending, task, group>> /\ call[q] = "parked"
        BY <1>7 DEF Resume, Cancel
    <2>2. InRoom' = InRoom /\ \A c \in Request : InGroup(c)' = InGroup(c)
        BY <2>1 DEF InRoom, InGroup
    <2>3. CASE Resume(q)
        BY <2>1, <2>2, <2>3, <1>0 DEF TypeOK, Resume, Ends
    <2>4. CASE Cancel(q)
        <3>1. /\ call'[q] = "cancelled"
              /\ future'[q] = IF future[q] = "waiting" THEN "cancelled" ELSE future[q]
              /\ \A r \in Request \ {q} : call'[r] = call[r] /\ future'[r] = future[r]
            BY <2>4, <1>0 DEF TypeOK, Cancel
        <3> QED BY <2>1, <2>2, <2>4, <3>1 DEF Ends
    <2> QED BY <1>7, <2>3, <2>4
<1> QED
    BY <1>1, <1>3, <1>5, <1>6, <1>7, RequestAssumption DEF Next, Collect

\* Custody is inductive.
LEMMA CustodyCorrect == Spec => []Custody
<1>1. Init => Custody
    BY DEF Init, Custody, InRoom, InGroup
<1>2. IInv /\ Custody /\ [Next]_vars => Custody'
    <2> SUFFICES ASSUME IInv, Custody, [Next]_vars PROVE Custody'
        OBVIOUS
    <2>0. /\ InRoom \subseteq Request
          /\ \A c \in Request : InGroup(c) \subseteq Request
        BY HoldersHoldRequests DEF IInv
    <2>1. ASSUME NEW q \in Request, Joins(q) PROVE Custody'
        <3>1. \A c \in Request : Closed(c) => Closed(c)'
            BY <2>1 DEF Joins, Closed
        <3>2. \A r \in Request : future'[r] \in {"result", "exception"} =>
                  \E c \in Request : Closed(c)' /\ r \in InGroup(c)'
            BY <2>1, <3>1 DEF Joins, Custody
        <3>3. \A r \in Request : IF call'[r] = "new" THEN future'[r] = "none"
                  ELSE r \in InRoom' \/ \E c \in Request : r \in InGroup(c)'
            BY <2>1 DEF Joins, Custody
        <3>4. \A c \in Request : \A r \in InRoom' : r \notin InGroup(c)'
            BY <2>1 DEF Joins, Custody
        <3>5. \A c, d \in Request : \A r \in InGroup(c)' : r \in InGroup(d)' => c = d
            BY <2>1 DEF Joins, Custody
        <3>6. \A r \in Request : call'[r] = "raised" => future'[r] = "exception"
            BY <2>1 DEF Joins, Custody
        <3> QED BY <3>2, <3>3, <3>4, <3>5, <3>6 DEF Custody
    <2>2. ASSUME NEW c \in Request, Works(c) PROVE Custody'
        <3>1. ASSUME NEW d \in Request, Closed(d)
              PROVE  Closed(d)' /\ InGroup(d)' = InGroup(d) /\ d # c
            BY <2>2, <3>1 DEF Works, Gathers, Closed
        <3>2. \A r \in Request : future'[r] \in {"result", "exception"} =>
                  \E d \in Request : Closed(d)' /\ r \in InGroup(d)'
            BY <2>2, <3>1 DEF Works, Custody
        <3>3. \A r \in Request : IF call'[r] = "new" THEN future'[r] = "none"
                  ELSE r \in InRoom' \/ \E d \in Request : r \in InGroup(d)'
            BY <2>2 DEF Works, Gathers, Custody
        <3>4. \A d \in Request : \A r \in InRoom' : r \notin InGroup(d)'
            BY <2>2 DEF Works, Gathers, Custody
        <3>5. \A d, e \in Request : \A r \in InGroup(d)' : r \in InGroup(e)' => d = e
            BY <2>2 DEF Works, Gathers, Custody
        <3>6. \A r \in Request : call'[r] = "raised" => future'[r] = "exception"
            BY <2>2 DEF Works, Custody
        <3> QED BY <3>2, <3>3, <3>4, <3>5, <3>6 DEF Custody
    <2>3. ASSUME NEW q \in Request, Ends(q) PROVE Custody'
        <3>1. \A c \in Request : Closed(c)' <=> Closed(c)
            BY <2>3 DEF Ends, Closed
        <3>2. \A r \in Request : future'[r] = future[r] \/ future'[r] = "cancelled"
            BY <2>3 DEF Ends
        <3>3. \A r \in Request : IF call'[r] = "new" THEN future'[r] = "none"
                  ELSE r \in InRoom' \/ \E c \in Request : r \in InGroup(c)'
            BY <2>3 DEF Ends, Custody
        <3>4. \A r \in Request : call'[r] = "raised" => future'[r] = "exception"
            BY <2>3 DEF Ends, Custody
        <3> QED BY <2>3, <3>1, <3>2, <3>3, <3>4 DEF Ends, Custody
    <2>4. CASE UNCHANGED vars
        BY <2>4 DEF vars, Custody, Closed, InRoom, InGroup
    <2> QED BY <2>1, <2>2, <2>3, <2>4, Moves
<1> QED
    BY <1>1, <1>2, IInvCorrect, PTL DEF Spec

\* What no step changes: a group whose pass is over keeps its members, and
\* all that can still happen to their containers is a caller going away; a
\* cancelled container stays so, and only its own caller cancels it; and the
\* collector that dies is one whose group had a container cancelled already, or
\* a malformed body.
Lasting ==
    /\ \A c \in Request : Closed(c) =>
          /\ task'[c] = task[c] /\ InGroup(c)' = InGroup(c)
          /\ \A r \in InGroup(c) :
                future'[r] = future[r] \/ (future[r] = "waiting" /\ Cancel(r))
    /\ \A r \in Request : future[r] = "cancelled" => future'[r] = "cancelled"
    /\ \A r \in Request : future'[r] = "cancelled" => future[r] = "cancelled" \/ Cancel(r)
    /\ \A c \in Request : task'[c] = "died" =>
          \/ task[c] = "died"
          \/ \E r \in InGroup(c)' : future[r] = "cancelled" \/ r \in Malformed
    /\ \A r \in Request : call[r] # "new" => texts'[r] = texts[r] /\ call'[r] # "new"
    /\ \A r \in Request : call[r] \notin {"new", "parked"} => call'[r] = call[r]
    /\ \A r \in Request : call[r] = "parked" /\ call'[r] # "parked" =>
          future[r] # "waiting" \/ Cancel(r)
    /\ \A c \in Request : InGroup(c)' = InGroup(c) \/ InGroup(c)' = InRoom

LEMMA StepsLast ==
    ASSUME IInv, Custody, [Next]_vars
    PROVE  Lasting
<1>1. ASSUME NEW q \in Request, Joins(q) PROVE Lasting
    <2>1. future[q] = "none"
        BY <1>1 DEF Joins, Custody
    <2>2. \A c \in Request : Closed(c) => c # q
        BY <1>1 DEF Joins, Closed
    <2>3. \A c \in Request : InGroup(c) \subseteq Request
        BY HoldersHoldRequests DEF IInv
    <2> QED BY <1>1, <2>1, <2>2, <2>3 DEF Joins, Lasting
<1>2. ASSUME NEW c \in Request, Works(c) PROVE Lasting
    <2>1. \A d \in Request : Closed(d) => d # c
        BY <1>2 DEF Works, Gathers, Closed
    <2>2. ASSUME NEW d \in Request, Closed(d), NEW r \in InGroup(d)
          PROVE  future'[r] = future[r]
        <3>1. InGroup(d)' = InGroup(d) /\ d # c /\ r \in Request
            BY <2>1, <2>2, <1>2, HoldersHoldRequests DEF Works, IInv
        <3>2. r \notin InGroup(c)'
            BY <3>1, <2>2, <1>2 DEF Works, Gathers, Custody
        <3> QED BY <3>1, <3>2, <1>2 DEF Works
    <2> QED BY <1>2, <2>1, <2>2 DEF Works, Gathers, Lasting
<1>3. ASSUME NEW q \in Request, Ends(q) PROVE Lasting
    <2>1. \A c \in Request : InGroup(c) \subseteq Request
        BY HoldersHoldRequests DEF IInv
    <2> QED BY <1>3, <2>1 DEF Ends, Lasting
<1>4. CASE UNCHANGED vars
    BY <1>4 DEF vars, Lasting, InGroup
<1> QED BY <1>1, <1>2, <1>3, <1>4, Moves

-----------------------------------------------------------------------------
\* What a caller of the batching sees is a run of the unbatched service.
THEOREM Refinement == Spec => ImplementsService
<1> DEFINE reply == [r \in Request |-> IF call[r] = "returned" THEN payload[r]
                                                              ELSE <<>>]
<1>1. Init => Service!Init
    BY DEF Init, Service!Init
<1>2. IInv /\ OwnVectors /\ OwnVectors' /\ [Next]_vars
        => [Service!Next]_(Service!vars)
    <2> SUFFICES ASSUME IInv, OwnVectors, OwnVectors', [Next]_vars
                 PROVE  Service!Next \/ UNCHANGED Service!vars
        OBVIOUS
    <2> USE DEF Service!vars
    <2>0. TypeOK
        BY DEF IInv
    <2>1. ASSUME NEW r \in Request, NEW ts \in Bodies, EmbedInGroup(r, ts)
          PROVE  Service!Submit(r, ts)
        <3>1. /\ call[r] = "new" /\ call' = [call EXCEPT ![r] = "parked"]
              /\ texts' = [texts EXCEPT ![r] = ts] /\ payload' = payload
            BY <2>1 DEF EmbedInGroup
        <3>2. \A q \in Request : call'[q] = "returned" <=> call[q] = "returned"
            BY <3>1, <2>0 DEF TypeOK
        <3>3. reply' = reply
            BY <3>1, <3>2
        <3> QED BY <3>1, <3>3 DEF Service!Submit
    <2>2. ASSUME NEW r \in Request, Resume(r)
          PROVE  Service!Return(r) \/ Service!Raise(r)
        <3>1. CASE future[r] = "result"
            <4>1. /\ call[r] = "parked" /\ call' = [call EXCEPT ![r] = "returned"]
                  /\ UNCHANGED <<texts, payload>>
                BY <3>1, <2>2 DEF Resume
            <4>2. payload[r] = EncodeAll(Encode, texts[r])
                BY <3>1 DEF OwnVectors
            <4>3. reply' = [reply EXCEPT ![r] = payload[r]]
                BY <4>1, <2>0 DEF TypeOK
            <4>4. EncodeAll(Encode, texts[r]) = Service!EncodeAll(Encode, texts[r])
                BY DEF EncodeAll, Service!EncodeAll
            <4> QED BY <4>1, <4>2, <4>3, <4>4 DEF Service!Return
        <3>2. CASE future[r] = "exception"
            <4>1. /\ call[r] = "parked" /\ call' = [call EXCEPT ![r] = "raised"]
                  /\ UNCHANGED <<texts, payload>>
                BY <3>2, <2>2 DEF Resume
            <4>2. \A q \in Request : call'[q] = "returned" <=> call[q] = "returned"
                BY <4>1, <2>0 DEF TypeOK
            <4>3. reply' = reply
                BY <4>1, <4>2
            <4> QED BY <4>1, <4>3 DEF Service!Raise
        <3> QED BY <3>1, <3>2, <2>2 DEF Resume
    <2>3. ASSUME NEW r \in Request, Cancel(r) PROVE Service!Abandon(r)
        <3>1. /\ call[r] = "parked" /\ call' = [call EXCEPT ![r] = "cancelled"]
              /\ r \in Cancellable /\ UNCHANGED <<texts, payload>>
            BY <2>3 DEF Cancel
        <3>2. \A q \in Request : call'[q] = "returned" <=> call[q] = "returned"
            BY <3>1, <2>0 DEF TypeOK
        <3>3. reply' = reply
            BY <3>1, <3>2
        <3> QED BY <3>1, <3>3 DEF Service!Abandon
    \* Closing a door and delivering a pass change no answer already given:
    \* a container that is overwritten is overwritten with the same vectors.
    <2>4. ASSUME NEW c \in Request, NEW g \in Seq(Request),
                 DeliverResults(c, g), UNCHANGED <<texts, call>>
          PROVE  UNCHANGED Service!vars
        <3>1. ASSUME NEW r \in Request, call[r] = "returned"
              PROVE  payload'[r] = payload[r]
            <4>1. future[r] = "result"
                BY <3>1 DEF IInv, Bookkeeping
            <4>2. payload[r] = EncodeAll(Encode, texts[r])
                BY <4>1 DEF OwnVectors
            <4> QED BY <4>2, <2>0, <2>4, DeliverGivesOwn
        <3>2. reply' = reply
            BY <3>1, <2>4
        <3> QED BY <3>2, <2>4
    <2>5. ASSUME NEW c \in Request, Collect(c) \/ Finish(c)
          PROVE  UNCHANGED Service!vars
        <3>1. CASE CloseDoor(c) \/ CloseDoorRaises(c)
            BY <3>1 DEF CloseDoor, CloseDoorRaises
        <3>2. CASE CloseDoorEmpty(c)
            BY <3>2, <2>0, <2>4 DEF CloseDoorEmpty, TypeOK
        <3>3. CASE EncodeReturns(c)
            BY <3>3, <2>0, <2>4 DEF EncodeReturns, TypeOK
        <3>4. CASE EncodeRaises(c)
            BY <3>4 DEF EncodeRaises, DeliverError
        <3> QED BY <2>5, <3>1, <3>2, <3>3, <3>4 DEF Collect, Finish
    <2>6. CASE UNCHANGED vars
        BY <2>6 DEF vars
    <2>7. ASSUME NEW r \in Malformed, EmbedInGroup(r, <<>>)
          PROVE  Service!Next
        BY <2>7, <2>1, BodiesAssumption, RequestAssumption DEF Service!Next
    <2> QED
        BY <2>1, <2>2, <2>3, <2>5, <2>6, <2>7 DEF Next, Service!Next
<1>3. QED
    BY <1>1, <1>2, IInvCorrect, AnswersAreOwn, PTL
    DEF Spec, ImplementsService, Service!Spec
=============================================================================
