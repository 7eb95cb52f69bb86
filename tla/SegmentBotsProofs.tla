------------------------- MODULE SegmentBotsProofs --------------------------
(***************************************************************************)
(* What the segment bots promise about the margin they share, for any      *)
(* number of bots, symbols and declarations and any order of kills, torn   *)
(* rows, compactions and edits.                                            *)
(***************************************************************************)
EXTENDS Integers, SegmentBots, LineLogProofs, FiniteSetTheorems

-----------------------------------------------------------------------------
(* Lines in their order: the nth of a set of line numbers.                 *)

Before(I, i) == {j \in I : j < i}
Rank(I, i) == Cardinality(Before(I, i))
Nth(I, n) == CHOOSE i \in I : Rank(I, i) = n - 1

LEMMA Counts ==
    ASSUME NEW m \in Nat, NEW I \in SUBSET (1 .. m)
    PROVE  /\ I \subseteq Nat /\ IsFiniteSet(I) /\ Cardinality(I) \in Nat
           /\ \A J \in SUBSET I : IsFiniteSet(J) /\ Cardinality(J) \in Nat
                                    /\ Cardinality(J) <= Cardinality(I)
<1>1. IsFiniteSet(1 .. m) /\ I \subseteq Nat
    BY FS_Interval
<1>2. IsFiniteSet(I)
    BY <1>1, FS_Subset
<1>3. \A J \in SUBSET I : IsFiniteSet(J) /\ Cardinality(J) <= Cardinality(I)
    BY <1>2, FS_Subset
<1>4. Cardinality(I) \in Nat /\ \A J \in SUBSET I : Cardinality(J) \in Nat
    BY <1>2, <1>3, FS_CardinalityType
<1> QED BY <1>1, <1>2, <1>3, <1>4

LEMMA RankGrows ==
    ASSUME NEW m \in Nat, NEW I \in SUBSET (1 .. m)
    PROVE  /\ \A i \in I : /\ Rank(I, i) \in Nat /\ Rank(I, i) + 1 <= Cardinality(I)
                           /\ i \notin Before(I, i) /\ IsFiniteSet(Before(I, i))
           /\ \A i, j \in I : j < i => Rank(I, j) + 1 <= Rank(I, i)
<1>1. I \subseteq Nat /\ IsFiniteSet(I) /\ Cardinality(I) \in Nat
    BY Counts, Zenon
<1>2. \A k \in I : Before(I, k) \in SUBSET I /\ k \notin Before(I, k)
    BY <1>1 DEF Before
<1>3. \A J \in SUBSET I : IsFiniteSet(J) /\ Cardinality(J) \in Nat
                            /\ Cardinality(J) <= Cardinality(I)
    BY Counts, Zenon
<1>4. \A k \in I : IsFiniteSet(Before(I, k)) /\ Rank(I, k) \in Nat
    BY <1>2, <1>3, Zenon DEF Rank
<1>5. \A k \in I : Cardinality(Before(I, k) \union {k}) = Rank(I, k) + 1
    BY <1>2, <1>4, FS_AddElement DEF Rank
<1>6. \A k \in I : Rank(I, k) + 1 <= Cardinality(I)
    <2>1. \A k \in I : Before(I, k) \union {k} \in SUBSET I
        BY <1>2
    <2> QED BY <2>1, <1>3, <1>5
<1>7. ASSUME NEW i \in I, NEW j \in I, j < i PROVE Rank(I, j) + 1 <= Rank(I, i)
    <2>1. \A k \in I : k < j => k < i
        BY <1>1, <1>7
    <2>2. Before(I, j) \union {j} \subseteq Before(I, i)
        BY <1>7, <2>1 DEF Before
    <2>3. Cardinality(Before(I, j) \union {j}) <= Cardinality(Before(I, i))
        BY <1>4, <2>2, FS_Subset
    <2> QED BY <2>3, <1>5 DEF Rank
<1> QED BY <1>2, <1>4, <1>6, <1>7

(* No rank is left out below that of an element: the first element whose   *)
(* rank is n or more has rank n, for the one before it has one less.       *)
LEMMA RankTaken ==
    ASSUME NEW m \in Nat, NEW I \in SUBSET (1 .. m), NEW n \in Nat, n < Cardinality(I)
    PROVE  \E i \in I : Rank(I, i) = n
<1> DEFINE High == {i \in I : Rank(I, i) >= n}
<1>1. I \subseteq Nat /\ IsFiniteSet(I) /\ Cardinality(I) \in Nat
    BY Counts, Zenon
<1>2. /\ \A i \in I : Rank(I, i) \in Nat /\ i \notin Before(I, i) /\ IsFiniteSet(Before(I, i))
      /\ \A i, j \in I : j < i => Rank(I, j) + 1 <= Rank(I, i)
    BY RankGrows, Zenon
<1>3. I # {}
    BY <1>1, FS_EmptySet
<1>4. PICK l \in I : \A j \in I : j <= l
    BY <1>3, LastIn
<1>5. l \in High
    <2>1. \A j \in I : j < l \/ j = l
        BY <1>1, <1>4
    <2>2. I = Before(I, l) \union {l}
        BY <2>1 DEF Before
    <2>3. Cardinality(Before(I, l) \union {l}) = Rank(I, l) + 1
        BY <1>2, <1>4, FS_AddElement DEF Rank
    <2>4. Cardinality(I) = Rank(I, l) + 1
        BY <2>2, <2>3
    <2> QED BY <1>1, <1>2, <1>4, <2>4
<1>6. PICK i \in High : \A j \in High : i <= j
    <2>1. High \subseteq Nat /\ High # {}
        BY <1>1, <1>5
    <2> HIDE DEF High
    <2>2. PICK i \in High : \A j \in High : ~(<<j, i>> \in OpToRel(<, Nat))
        BY <2>1, NatLessThanWellFounded, WFMin
    <2>3. \A j \in High : ~(j < i)
        BY <2>1, <2>2 DEF OpToRel
    <2> QED BY <2>1, <2>3
<1>7. CASE Before(I, i) = {}
    <2>1. Rank(I, i) = 0
        BY <1>7, FS_EmptySet DEF Rank
    <2> QED BY <1>6, <2>1
<1>8. CASE Before(I, i) # {}
    <2>1. Before(I, i) \in SUBSET (1 .. m)
        BY DEF Before
    <2>2. PICK p \in Before(I, i) : \A j \in Before(I, i) : j <= p
        BY <1>8, <2>1, LastIn
    <2>3. p \in I /\ p < i /\ \A j \in I : j < i <=> (j < p \/ j = p)
        BY <1>1, <1>6, <2>2 DEF Before
    <2>4. Before(I, i) = Before(I, p) \union {p}
        BY <2>3 DEF Before
    <2>5. Rank(I, i) = Rank(I, p) + 1
        BY <1>2, <2>3, <2>4, FS_AddElement DEF Rank
    <2>6. p \notin High
        BY <1>1, <1>6, <2>3
    <2>7. ~(Rank(I, p) >= n) /\ Rank(I, i) >= n
        BY <1>6, <2>3, <2>6
    <2> QED BY <1>2, <1>6, <2>3, <2>5, <2>7
<1> QED BY <1>7, <1>8

LEMMA NthIn ==
    ASSUME NEW m \in Nat, NEW I \in SUBSET (1 .. m)
    PROVE  /\ \A n \in 1 .. Cardinality(I) : Nth(I, n) \in I /\ Rank(I, Nth(I, n)) = n - 1
           /\ \A i \in I : Rank(I, i) + 1 \in 1 .. Cardinality(I)
                              /\ Nth(I, Rank(I, i) + 1) = i
<1>1. I \subseteq Nat /\ Cardinality(I) \in Nat
    BY Counts, Zenon
<1>2. /\ \A i \in I : Rank(I, i) \in Nat /\ Rank(I, i) + 1 <= Cardinality(I)
      /\ \A i, j \in I : j < i => Rank(I, j) + 1 <= Rank(I, i)
    BY RankGrows, Zenon
<1>3. ASSUME NEW n \in 1 .. Cardinality(I)
      PROVE  Nth(I, n) \in I /\ Rank(I, Nth(I, n)) = n - 1
    <2>1. PICK k \in Nat : k = n - 1 /\ k < Cardinality(I)
        BY <1>1
    <2>2. \E i \in I : Rank(I, i) = n - 1
        BY <2>1, RankTaken
    <2> QED BY <2>2 DEF Nth
<1>4. ASSUME NEW i \in I
      PROVE  /\ Rank(I, i) + 1 \in 1 .. Cardinality(I)
             /\ Nth(I, Rank(I, i) + 1) = i
    <2>1. Rank(I, i) + 1 \in 1 .. Cardinality(I)
        BY <1>1, <1>2
    <2>2. PICK n \in 1 .. Cardinality(I) : n = Rank(I, i) + 1
        BY <2>1
    <2>3. Nth(I, n) \in I /\ Rank(I, Nth(I, n)) = n - 1
        BY <1>3, Zenon
    <2>4. n - 1 = Rank(I, i)
        BY <1>2, <2>2
    <2>5. PICK j \in I : j = Nth(I, Rank(I, i) + 1) /\ Rank(I, j) = Rank(I, i)
        BY <2>2, <2>3, <2>4
    <2>6. ~(j < i) /\ ~(i < j)
        BY <1>1, <1>2, <2>5
    <2> QED BY <1>1, <2>1, <2>5, <2>6
<1> QED BY <1>3, <1>4

(* The rows of l at the lines in I, in their order: all of them, each once.*)
Lists(c, l, I) ==
    /\ Len(c) = Cardinality(I) /\ DOMAIN c = 1 .. Cardinality(I)
    /\ \A n \in DOMAIN c : Nth(I, n) \in I /\ c[n] = l[Nth(I, n)]
    /\ \A n, p \in DOMAIN c : Nth(I, n) = Nth(I, p) => n = p
    /\ \A i \in I : \E n \in DOMAIN c : Nth(I, n) = i

LEMMA InOrderLists ==
    ASSUME NEW S, NEW l \in Seq(S), NEW I \in SUBSET DOMAIN l, NEW R,
           \A i \in I : l[i] \in R
    PROVE  InOrder(l, I) \in Seq(R) /\ Lists(InOrder(l, I), l, I)
<1> DEFINE c == InOrder(l, I)
           N == Cardinality(I)
<1>1. Len(l) \in Nat /\ I \in SUBSET (1 .. Len(l))
    BY LenProperties
<1>2. N \in Nat
    BY <1>1, Counts, Zenon
<1>3. /\ \A n \in 1 .. N : Nth(I, n) \in I /\ Rank(I, Nth(I, n)) = n - 1
      /\ \A i \in I : Rank(I, i) + 1 \in 1 .. N /\ Nth(I, Rank(I, i) + 1) = i
    BY <1>1, NthIn, Zenon
<1>4. c = [n \in 1 .. N |-> l[Nth(I, n)]]
    BY DEF InOrder, Nth, Rank, Before
<1> HIDE DEF c, N
<1>5. \A n \in 1 .. N : c[n] = l[Nth(I, n)] /\ c[n] \in R
    BY <1>3, <1>4
<1>6. c \in [1 .. N -> R]
    BY <1>4, <1>5
<1>7. c \in Seq(R) /\ Len(c) = N /\ DOMAIN c = 1 .. N
    BY <1>2, <1>6
<1>8. \A n, p \in 1 .. N : Nth(I, n) = Nth(I, p) => n = p
    BY <1>2, <1>3
<1>9. \A i \in I : \E n \in 1 .. N : Nth(I, n) = i
    BY <1>3, Zenon
<1> QED BY <1>3, <1>5, <1>7, <1>8, <1>9, Zenon DEF Lists, c, N

-----------------------------------------------------------------------------
(* What a replay of the ledger reads.                                      *)

Line == Row \union {Torn}
Margins == [Keys -> 0 .. MaxUsdt]
Glue(l) == [l EXCEPT ![Len(l)] = Torn]

LEMMA RowFacts ==
    /\ MaxUsdt \in Nat
    /\ \A x \in Row : x.event # "TORN" /\ x.key \in Keys /\ x.margin \in 0 .. MaxUsdt
    /\ Torn \in Line /\ Row \subseteq Line /\ Torn.event = "TORN" /\ Torn \notin Row
    /\ \A x \in Line : x.event # "TORN" => x \in Row
BY DeclarationsAssumption DEF Row, Line, Torn

LEMMA SeqOfRows ==
    ASSUME NEW l \in Seq(Row)
    PROVE  l \in Seq(Line)
BY SeqMonotonic, RowFacts

(* The row that decides on a key.                                          *)
Decides(l, k, i) == i \in About(l, k) /\ \A j \in About(l, k) : j <= i

LEMMA AboutLines ==
    ASSUME NEW l \in Seq(Line), NEW k \in Keys
    PROVE  /\ Len(l) \in Nat /\ DOMAIN l = 1 .. Len(l)
           /\ About(l, k) \in SUBSET (1 .. Len(l))
           /\ \A i \in About(l, k) : l[i] \in Row /\ l[i].key = k
           /\ \A i \in DOMAIN l : l[i] \in Line
           /\ \A i \in DOMAIN l : l[i] \in Row /\ l[i].key = k => i \in About(l, k)
<1>1. Len(l) \in Nat /\ DOMAIN l = 1 .. Len(l) /\ \A i \in DOMAIN l : l[i] \in Line
    BY LenProperties, ElementOfSeq
<1>2. \A i \in About(l, k) : i \in DOMAIN l /\ l[i] \in Row /\ l[i].key = k
    BY <1>1, RowFacts DEF About
<1>3. \A i \in DOMAIN l : l[i] \in Row /\ l[i].key = k => i \in About(l, k)
    BY RowFacts DEF About
<1> QED BY <1>1, <1>2, <1>3

LEMMA ReplayReads ==
    ASSUME NEW l \in Seq(Line), NEW k \in Keys
    PROVE  /\ Replay(l)[k] \in 0 .. MaxUsdt
           /\ About(l, k) = {} => Replay(l)[k] = 0
           /\ About(l, k) # {} => /\ Decides(l, k, Last(About(l, k)))
                                  /\ Last(About(l, k)) \in DOMAIN l
           /\ \A i : Decides(l, k, i) => Replay(l)[k] = l[i].margin
<1>1. Replay(l)[k] = IF About(l, k) = {} THEN 0 ELSE l[Last(About(l, k))].margin
    BY DEF Replay
<1>2. /\ Len(l) \in Nat /\ About(l, k) \in SUBSET (1 .. Len(l)) /\ DOMAIN l = 1 .. Len(l)
      /\ \A i \in About(l, k) : l[i] \in Row
    BY AboutLines, Zenon
<1>3. ASSUME About(l, k) # {}
      PROVE  Decides(l, k, Last(About(l, k))) /\ Last(About(l, k)) \in DOMAIN l
    BY <1>2, <1>3, LastIn DEF Decides
<1>4. ASSUME NEW i, Decides(l, k, i) PROVE Replay(l)[k] = l[i].margin
    <2>1. About(l, k) # {} /\ Decides(l, k, Last(About(l, k)))
        BY <1>3, <1>4 DEF Decides
    <2>2. i = Last(About(l, k))
        BY <1>2, <1>4, <2>1 DEF Decides
    <2> QED BY <1>1, <2>1, <2>2
<1>5. Replay(l)[k] \in 0 .. MaxUsdt
    <2>1. CASE About(l, k) = {}
        BY <1>1, <2>1, RowFacts
    <2>2. CASE About(l, k) # {}
        BY <1>1, <1>2, <1>3, <2>2, RowFacts DEF Decides
    <2> QED BY <2>1, <2>2
<1> QED BY <1>1, <1>3, <1>4, <1>5

LEMMA ReplayType ==
    ASSUME NEW l \in Seq(Line)
    PROVE  Replay(l) \in Margins /\ Replay(l) = [k \in Keys |-> Replay(l)[k]]
<1>1. \A k \in Keys : Replay(l)[k] \in 0 .. MaxUsdt
    BY ReplayReads
<1>2. Replay(l) = [k \in Keys |-> Replay(l)[k]]
    BY DEF Replay
<1> QED BY <1>1, <1>2 DEF Margins

(* Two files whose rows about a key agree are read alike, ...              *)
LEMMA SameReplay ==
    ASSUME NEW l \in Seq(Line), NEW m \in Seq(Line), NEW k \in Keys,
           About(m, k) = About(l, k), \A i \in About(l, k) : m[i] = l[i]
    PROVE  Replay(m)[k] = Replay(l)[k]
<1>1. CASE About(l, k) = {}
    BY <1>1, ReplayReads
<1>2. CASE About(l, k) # {}
    <2>1. PICK i : Decides(l, k, i)
        BY <1>2, ReplayReads
    <2>2. Decides(m, k, i) /\ m[i] = l[i]
        BY <2>1 DEF Decides
    <2>3. Replay(l)[k] = l[i].margin /\ Replay(m)[k] = m[i].margin
        BY <2>1, <2>2, ReplayReads, Zenon
    <2> QED BY <2>2, <2>3
<1> QED BY <1>1, <1>2

(* ... a row that is appended decides on its key and on no other, ...      *)
LEMMA ReplayAppend ==
    ASSUME NEW l \in Seq(Line), NEW row \in Row
    PROVE  /\ Append(l, row) \in Seq(Line)
           /\ Replay(Append(l, row)) = [Replay(l) EXCEPT ![row.key] = row.margin]
<1> DEFINE m == Append(l, row)
<1>1. Len(l) \in Nat /\ DOMAIN l = 1 .. Len(l)
    BY LenProperties
<1>2. /\ m \in Seq(Line) /\ DOMAIN m = DOMAIN l \union {Len(l) + 1}
      /\ m[Len(l) + 1] = row /\ \A i \in DOMAIN l : m[i] = l[i]
    BY <1>1, RowFacts
<1>3. row.event # "TORN" /\ row.key \in Keys
    BY RowFacts
<1> HIDE DEF m
<1>4. \A k \in Keys \ {row.key} : Replay(m)[k] = Replay(l)[k]
    <2> SUFFICES ASSUME NEW k \in Keys \ {row.key} PROVE Replay(m)[k] = Replay(l)[k]
        OBVIOUS
    <2>1. About(m, k) = About(l, k) /\ \A i \in About(l, k) : m[i] = l[i]
        BY <1>2 DEF About
    <2> QED BY <1>2, <2>1, SameReplay
<1>5. Replay(m)[row.key] = row.margin
    <2>1. Len(l) + 1 \in About(m, row.key)
        BY <1>2, <1>3, Zenon DEF About
    <2>2. \A j \in DOMAIN m : j <= Len(l) + 1
        BY <1>1, <1>2
    <2>3. Decides(m, row.key, Len(l) + 1)
        BY <2>1, <2>2 DEF Decides, About
    <2>4. Replay(m)[row.key] = m[Len(l) + 1].margin
        BY <1>2, <1>3, <2>3, ReplayReads, ZenonT(60)
    <2> QED BY <1>2, <2>4
<1>6. Replay(m) \in Margins /\ Replay(l) \in Margins
    BY <1>2, ReplayType
<1>7. Replay(m) = [Replay(l) EXCEPT ![row.key] = row.margin]
    BY <1>3, <1>4, <1>5, <1>6 DEF Margins
<1> QED BY <1>2, <1>7 DEF m

(* ... and a torn one on none.                                             *)
LEMMA ReplayTorn ==
    ASSUME NEW l \in Seq(Line)
    PROVE  Append(l, Torn) \in Seq(Line) /\ Replay(Append(l, Torn)) = Replay(l)
<1> DEFINE m == Append(l, Torn)
<1>1. Len(l) \in Nat /\ DOMAIN l = 1 .. Len(l)
    BY LenProperties
<1>2. /\ m \in Seq(Line) /\ DOMAIN m = DOMAIN l \union {Len(l) + 1}
      /\ m[Len(l) + 1] = Torn /\ \A i \in DOMAIN l : m[i] = l[i]
    BY <1>1, RowFacts
<1> HIDE DEF m
<1>3. \A k \in Keys : Replay(m)[k] = Replay(l)[k]
    <2> SUFFICES ASSUME NEW k \in Keys PROVE Replay(m)[k] = Replay(l)[k]
        OBVIOUS
    <2>1. About(m, k) = About(l, k) /\ \A i \in About(l, k) : m[i] = l[i]
        BY <1>2, RowFacts DEF About
    <2> QED BY <1>2, <2>1, SameReplay
<1>4. Replay(m) = Replay(l)
    BY <1>2, <1>3, ReplayType
<1> QED BY <1>2, <1>4 DEF m

(* A row glued to the last line takes that line with it, whichever row it  *)
(* is.                                                                     *)
LEMMA GlueIs ==
    ASSUME NEW l \in Seq(Line), NEW x \in Line
    PROVE  /\ Append(l, x) # <<>>
           /\ Glue(Append(l, x)) = Append(l, Torn)
           /\ l # <<>> => /\ Glue(l) \in Seq(Line) /\ Glue(l) # <<>>
                          /\ Glue(Glue(l)) = Glue(l)
<1>1. Append(l, x) # <<>>
    BY SMTT(60)
<1>2. Glue(Append(l, x)) = Append(l, Torn)
    <2>1. /\ Append(l, x) \in Seq(Line) /\ Append(l, Torn) \in Seq(Line)
          /\ Len(Append(l, x)) = Len(l) + 1 /\ Len(Append(l, Torn)) = Len(l) + 1
          /\ Append(l, Torn)[Len(l) + 1] = Torn /\ Len(l) \in Nat
          /\ \A j \in 1 .. Len(l) : Append(l, x)[j] = l[j] /\ Append(l, Torn)[j] = l[j]
        BY RowFacts
    <2>2. /\ Glue(Append(l, x)) \in Seq(Line)
          /\ Len(Glue(Append(l, x))) = Len(l) + 1
          /\ Glue(Append(l, x))[Len(l) + 1] = Torn
          /\ \A j \in 1 .. Len(l) + 1 : j # Len(l) + 1 => Glue(Append(l, x))[j] = Append(l, x)[j]
        <3> DEFINE a == Append(l, x)
        <3>1. a \in Seq(Line) /\ a # <<>> /\ Len(a) = Len(l) + 1
            BY <1>1, <2>1
        <3> HIDE DEF a
        <3>2. /\ Glue(a) \in Seq(Line) /\ Len(Glue(a)) = Len(a) /\ Glue(a)[Len(a)] = Torn
              /\ \A j \in 1 .. Len(a) : j # Len(a) => Glue(a)[j] = a[j]
            BY <3>1, Glued, RowFacts, Zenon DEF Glue
        <3> QED BY <3>1, <3>2, Zenon DEF a
    <2>3. \A j \in 1 .. Len(l) + 1 : Glue(Append(l, x))[j] = Append(l, Torn)[j]
        BY <2>1, <2>2
    <2> QED BY <2>1, <2>2, <2>3, SeqEqual
<1>3. ASSUME l # <<>>
      PROVE  Glue(l) \in Seq(Line) /\ Glue(l) # <<>> /\ Glue(Glue(l)) = Glue(l)
    <2>1. /\ Glue(l) \in Seq(Line) /\ Glue(l) # <<>> /\ Len(Glue(l)) = Len(l)
          /\ Glue(l)[Len(l)] = Torn
        BY <1>3, Glued, RowFacts, Zenon DEF Glue
    <2>2. /\ Glue(Glue(l)) \in Seq(Line) /\ Len(Glue(Glue(l))) = Len(l)
          /\ Glue(Glue(l))[Len(l)] = Torn
          /\ \A j \in 1 .. Len(l) : j # Len(l) => Glue(Glue(l))[j] = Glue(l)[j]
        <3> DEFINE g == Glue(l)
        <3>1. g \in Seq(Line) /\ g # <<>> /\ Len(g) = Len(l)
            BY <2>1
        <3> HIDE DEF g
        <3> QED BY <3>1, Glued, RowFacts, Zenon DEF Glue, g
    <2>3. \A j \in 1 .. Len(l) : Glue(Glue(l))[j] = Glue(l)[j]
        BY <2>1, <2>2
    <2> QED BY <2>1, <2>2, <2>3, SeqEqual
<1> QED BY <1>1, <1>2, <1>3

-----------------------------------------------------------------------------
(* Rows with a key each.                                                   *)

Simple(c) == \A i, j \in DOMAIN c : c[i].key = c[j].key => i = j

LEMMA SimpleReads ==
    ASSUME NEW c \in Seq(Row), Simple(c)
    PROVE  /\ \A i \in DOMAIN c : c[i].key \in Keys /\ Replay(c)[c[i].key] = c[i].margin
           /\ \A k \in Keys : (\A i \in DOMAIN c : c[i].key # k) => Replay(c)[k] = 0
<1>1. c \in Seq(Line) /\ Len(c) \in Nat /\ DOMAIN c = 1 .. Len(c)
    BY SeqOfRows, LenProperties
<1>2. \A i \in DOMAIN c : c[i] \in Row
    BY <1>1, ElementOfSeq
<1>3. ASSUME NEW i \in DOMAIN c PROVE c[i].key \in Keys /\ Replay(c)[c[i].key] = c[i].margin
    <2>1. c[i].key \in Keys
        BY <1>2, RowFacts
    <2>2. i \in About(c, c[i].key)
        BY <1>2, RowFacts DEF About
    <2>3. \A j \in About(c, c[i].key) : j = i
        BY DEF About, Simple
    <2>4. Decides(c, c[i].key, i)
        BY <1>1, <2>2, <2>3 DEF Decides
    <2> QED BY <1>1, <2>1, <2>4, ReplayReads, Zenon
<1>4. ASSUME NEW k \in Keys, \A i \in DOMAIN c : c[i].key # k PROVE Replay(c)[k] = 0
    <2>1. About(c, k) = {}
        BY <1>4 DEF About
    <2> QED BY <1>1, <2>1, ReplayReads, Zenon
<1> QED BY <1>3, <1>4

AtMost(r, q) == \A k \in Keys : r[k] <= q[k]

(* What a compaction has written so far reserves no more than all of it    *)
(* will.                                                                   *)
LEMMA PartReservesLess ==
    ASSUME NEW c \in Seq(Row), NEW d \in Seq(Row), Simple(c \o d)
    PROVE  /\ c \o d \in Seq(Row) /\ Simple(c)
           /\ AtMost(Replay(c), Replay(c \o d))
<1> DEFINE e == c \o d
<1>1. /\ Len(c) \in Nat /\ DOMAIN c = 1 .. Len(c)
      /\ Len(d) \in Nat /\ DOMAIN d = 1 .. Len(d)
    BY LenProperties
<1>2. e \in Seq(Row) /\ Len(e) = Len(c) + Len(d)
      /\ \A i \in 1 .. Len(c) + Len(d) : e[i] = IF i <= Len(c) THEN c[i] ELSE d[i - Len(c)]
    BY ConcatProperties
<1>3. DOMAIN e = 1 .. Len(e) /\ Simple(e)
    BY <1>2, LenProperties
<1> HIDE DEF e
<1>4. \A i \in DOMAIN c : i \in DOMAIN e /\ e[i] = c[i]
    BY <1>1, <1>2, <1>3
<1>5. Simple(c)
    BY <1>4 DEF Simple, e
<1>6. ASSUME NEW k \in Keys PROVE Replay(c)[k] <= Replay(e)[k]
    <2>1. Replay(e)[k] \in 0 .. MaxUsdt
        BY <1>2, SeqOfRows, ReplayReads
    <2>2. CASE \E i \in DOMAIN c : c[i].key = k
        <3>1. PICK i \in DOMAIN c : c[i].key = k
            BY <2>2
        <3>2. Replay(c)[k] = c[i].margin
            BY <1>5, <3>1, SimpleReads
        <3>3. Replay(e)[k] = e[i].margin
            BY <1>2, <1>3, <1>4, <3>1, SimpleReads
        <3> QED BY <1>4, <2>1, <3>2, <3>3, RowFacts
    <2>3. CASE ~\E i \in DOMAIN c : c[i].key = k
        <3>1. Replay(c)[k] = 0
            BY <1>5, <2>3, SimpleReads
        <3> QED BY <2>1, <3>1, RowFacts
    <2> QED BY <2>2, <2>3
<1> QED BY <1>2, <1>5, <1>6 DEF AtMost, e

(* The next row of a compaction moves from what is to be written to what   *)
(* is.                                                                     *)
LEMMA RowMoves ==
    ASSUME NEW S, NEW c \in Seq(S), NEW d \in Seq(S), d # <<>>
    PROVE  /\ Head(d) \in S /\ Tail(d) \in Seq(S) /\ Append(c, Head(d)) \in Seq(S)
           /\ Append(c, Head(d)) \o Tail(d) = c \o d
<1>1. /\ Head(d) \in S /\ Tail(d) \in Seq(S) /\ Head(d) = d[1] /\ Append(c, Head(d)) \in Seq(S)
      /\ Len(Tail(d)) = Len(d) - 1 /\ \A i \in 1 .. Len(Tail(d)) : Tail(d)[i] = d[i + 1]
    BY HeadTailProperties
<1>2. Len(c) \in Nat /\ Len(d) \in Nat /\ Len(d) # 0
    BY EmptySeq, LenProperties
<1> DEFINE a == Append(c, Head(d))
           t == Tail(d)
<1>3. /\ a \in Seq(S) /\ Len(a) = Len(c) + 1 /\ a[Len(c) + 1] = d[1]
      /\ \A i \in 1 .. Len(c) : a[i] = c[i]
    BY <1>1
<1>4. t \in Seq(S) /\ Len(t) = Len(d) - 1 /\ \A i \in 1 .. Len(d) - 1 : t[i] = d[i + 1]
    BY <1>1
<1> HIDE DEF a, t
<1>5. /\ a \o t \in Seq(S) /\ Len(a \o t) = Len(a) + Len(t)
      /\ \A i \in 1 .. Len(a) + Len(t) : (a \o t)[i] = IF i <= Len(a) THEN a[i] ELSE t[i - Len(a)]
    BY <1>3, <1>4, ConcatProperties
<1>6. /\ c \o d \in Seq(S) /\ Len(c \o d) = Len(c) + Len(d)
      /\ \A i \in 1 .. Len(c) + Len(d) : (c \o d)[i] = IF i <= Len(c) THEN c[i] ELSE d[i - Len(c)]
    BY ConcatProperties
<1>7. ASSUME NEW i \in 1 .. Len(c) + Len(d) PROVE (a \o t)[i] = (c \o d)[i]
    <2>1. PICK m \in Nat, p \in Nat : m = Len(c) /\ p = Len(d) /\ p # 0 /\ i \in 1 .. m + p
        BY <1>2, <1>7
    <2>2. /\ (a \o t)[i] = IF i <= m + 1 THEN a[i] ELSE t[i - (m + 1)]
          /\ (c \o d)[i] = IF i <= m THEN c[i] ELSE d[i - m]
        <3>1. Len(a) = m + 1 /\ Len(t) = p - 1 /\ i \in 1 .. Len(a) + Len(t) /\ i \in 1 .. m + p
            BY <1>3, <1>4, <2>1
        <3> QED BY <1>5, <1>6, <2>1, <3>1, Zenon
    <2>3. CASE i <= m
        <3>1. i <= m + 1 /\ i \in 1 .. m
            BY <2>1, <2>3
        <3>2. a[i] = c[i]
            BY <1>3, <2>1, <3>1
        <3> QED BY <2>2, <2>3, <3>1, <3>2
    <2>4. CASE i = m + 1
        <3>1. i <= m + 1 /\ ~(i <= m) /\ i - m = 1
            BY <2>1, <2>4
        <3>2. a[i] = d[1]
            BY <1>3, <2>1, <2>4
        <3> QED BY <2>2, <3>1, <3>2
    <2>5. CASE i > m + 1
        <3>1. ~(i <= m + 1) /\ ~(i <= m)
            BY <2>1, <2>5
        <3>2. i - (m + 1) \in 1 .. p - 1 /\ (i - (m + 1)) + 1 = i - m
            BY <2>1, <2>5
        <3>3. t[i - (m + 1)] = d[i - m]
            BY <1>4, <2>1, <3>2
        <3> QED BY <2>2, <3>1, <3>3
    <2>6. i <= m \/ i = m + 1 \/ i > m + 1
        BY <2>1
    <2> QED BY <2>3, <2>4, <2>5, <2>6, Zenon
<1>8. a \o t = c \o d
    <2>1. Len(a \o t) = Len(c) + Len(d)
        BY <1>2, <1>3, <1>4, <1>5
    <2>2. Len(a \o t) = Len(c \o d) /\ \A i \in 1 .. Len(a \o t) : (a \o t)[i] = (c \o d)[i]
        BY <1>6, <1>7, <2>1
    <2> QED BY <1>5, <1>6, <2>2, SeqEqual, Zenon
<1> QED BY <1>1, <1>8 DEF a, t

(* A compaction keeps what is reserved.                                    *)
LEMMA LiveLines ==
    ASSUME NEW l \in Seq(Line)
    PROVE  /\ \A i \in LiveRows(l) : /\ i \in DOMAIN l /\ l[i] \in Row
                                    /\ l[i].key \in LiveKeys(l) /\ l[i].key \in Keys
                                    /\ i = Last(About(l, l[i].key))
                                    /\ Replay(l)[l[i].key] = l[i].margin
                                    /\ Replay(l)[l[i].key] > 0
           /\ \A k \in LiveKeys(l) : /\ k \in Keys /\ Last(About(l, k)) \in LiveRows(l)
                                     /\ l[Last(About(l, k))].key = k
<1>1. ASSUME NEW k \in LiveKeys(l)
      PROVE  /\ k \in Keys /\ Last(About(l, k)) \in LiveRows(l)
             /\ l[Last(About(l, k))].key = k /\ Last(About(l, k)) \in DOMAIN l
             /\ l[Last(About(l, k))] \in Row
             /\ Replay(l)[k] = l[Last(About(l, k))].margin /\ Replay(l)[k] > 0
    <2>1. k \in Keys /\ Replay(l)[k] > 0
        BY DEF LiveKeys
    <2>2. About(l, k) # {}
        BY <2>1, ReplayReads
    <2>3. Decides(l, k, Last(About(l, k))) /\ Last(About(l, k)) \in DOMAIN l
        BY <2>1, <2>2, ReplayReads, Zenon
    <2>4. Replay(l)[k] = l[Last(About(l, k))].margin
        BY <2>1, <2>3, ReplayReads, Zenon
    <2>5. l[Last(About(l, k))].key = k /\ l[Last(About(l, k))] \in Row
        BY <2>1, <2>3, AboutLines, Zenon DEF Decides
    <2> QED BY <2>1, <2>3, <2>4, <2>5, Zenon DEF LiveRows
<1>2. ASSUME NEW i \in LiveRows(l)
      PROVE  /\ i \in DOMAIN l /\ l[i] \in Row /\ l[i].key \in LiveKeys(l) /\ l[i].key \in Keys
             /\ i = Last(About(l, l[i].key))
             /\ Replay(l)[l[i].key] = l[i].margin /\ Replay(l)[l[i].key] > 0
    <2>1. PICK k \in LiveKeys(l) : i = Last(About(l, k))
        BY DEF LiveRows
    <2> QED BY <1>1, <2>1, Zenon
<1> QED BY <1>1, <1>2, Zenon

LEMMA CompactedReads ==
    ASSUME NEW l \in Seq(Line)
    PROVE  /\ Compacted(l) \in Seq(Row) /\ Simple(Compacted(l))
           /\ Replay(Compacted(l)) = Replay(l)
<1> DEFINE c == Compacted(l)
           I == LiveRows(l)
<1>1. /\ \A i \in I : /\ i \in DOMAIN l /\ l[i] \in Row /\ l[i].key \in LiveKeys(l)
                      /\ l[i].key \in Keys /\ i = Last(About(l, l[i].key))
                      /\ Replay(l)[l[i].key] = l[i].margin
      /\ \A k \in LiveKeys(l) : Last(About(l, k)) \in I /\ l[Last(About(l, k))].key = k
    BY LiveLines, Zenon
<1>2. I \in SUBSET DOMAIN l
    BY <1>1, Zenon
<1>3. c \in Seq(Row) /\ Lists(c, l, I)
    BY <1>1, <1>2, InOrderLists, Zenon DEF Compacted
<1> HIDE DEF c, I
<1>4. Simple(c)
    <2> SUFFICES ASSUME NEW n \in DOMAIN c, NEW p \in DOMAIN c, c[n].key = c[p].key
                 PROVE  n = p
        BY DEF Simple
    <2>1. /\ Nth(I, n) \in I /\ c[n] = l[Nth(I, n)]
          /\ Nth(I, p) \in I /\ c[p] = l[Nth(I, p)]
        BY <1>3, Zenon DEF Lists
    <2>2. /\ Nth(I, n) = Last(About(l, l[Nth(I, n)].key))
          /\ Nth(I, p) = Last(About(l, l[Nth(I, p)].key))
        BY <1>1, <2>1, Zenon
    <2>3. Nth(I, n) = Nth(I, p)
        BY <2>1, <2>2
    <2> QED BY <1>3, <2>3, Zenon DEF Lists
<1>5. ASSUME NEW k \in Keys PROVE Replay(c)[k] = Replay(l)[k]
    <2>1. CASE k \in LiveKeys(l)
        <3>1. PICK n \in DOMAIN c : Nth(I, n) = Last(About(l, k))
            BY <1>1, <1>3, <2>1, Zenon DEF Lists
        <3>2. c[n] = l[Nth(I, n)]
            BY <1>3, Zenon DEF Lists
        <3>3. c[n] = l[Last(About(l, k))] /\ Last(About(l, k)) \in I
            BY <1>1, <2>1, <3>1, <3>2
        <3>4. c[n].key = k /\ c[n].margin = Replay(l)[k]
            BY <1>1, <2>1, <3>3
        <3> QED BY <1>3, <1>4, <3>4, SimpleReads
    <2>2. CASE k \notin LiveKeys(l)
        <3>1. \A n \in DOMAIN c : c[n].key # k
            <4>1. \A n \in DOMAIN c : Nth(I, n) \in I /\ c[n] = l[Nth(I, n)]
                BY <1>3, Zenon DEF Lists
            <4>2. \A n \in DOMAIN c : c[n].key \in LiveKeys(l)
                BY <1>1, <4>1
            <4> QED BY <2>2, <4>2
        <3>2. Replay(c)[k] = 0
            BY <1>3, <1>4, <3>1, SimpleReads
        <3>3. Replay(l)[k] \in 0 .. MaxUsdt /\ ~(Replay(l)[k] > 0)
            BY <2>2, ReplayReads DEF LiveKeys
        <3> QED BY <3>2, <3>3, RowFacts
    <2> QED BY <2>1, <2>2
<1>6. c \in Seq(Line)
    BY <1>3, SeqOfRows
<1>7. Replay(c) = Replay(l)
    BY <1>5, <1>6, ReplayType
<1> QED BY <1>3, <1>4, <1>7 DEF c

-----------------------------------------------------------------------------
(* Margin that fits a declaration.                                         *)

LEMMA KeysFacts ==
    /\ IsFiniteSet(Keys)
    /\ \A k \in Keys : k = <<k[1], k[2]>> /\ k[1] \in Bots /\ k[2] \in Symbols
                         /\ k[2] \in Universe[k[1]]
    /\ \A b \in Bots : \A s \in Universe[b] : <<b, s>> \in Keys /\ s \in Symbols
<1>1. IsFiniteSet(Bots \X Symbols)
    BY UniverseAssumption, FS_Product
<1>2. Keys \in SUBSET (Bots \X Symbols)
    BY DEF Keys
<1>3. IsFiniteSet(Keys)
    BY <1>1, <1>2, FS_Subset
<1>4. \A k \in Keys : k = <<k[1], k[2]>> /\ k[1] \in Bots /\ k[2] \in Symbols
                         /\ k[2] \in Universe[k[1]]
    BY DEF Keys
<1>5. \A b \in Bots : \A s \in Universe[b] : <<b, s>> \in Keys /\ s \in Symbols
    BY UniverseAssumption DEF Keys
<1> QED BY <1>3, <1>4, <1>5

LEMMA UnitsAreFinite ==
    ASSUME NEW r
    PROVE  /\ IsFiniteSet(Units(r)) /\ Held(r) \in Nat
           /\ \A b : IsFiniteSet(UnitsOf(r, b)) /\ HeldBy(r, b) \in Nat
<1>1. IsFiniteSet(Keys \X Amounts)
    <2>1. MaxUsdt \in Int /\ 1 \in Int
        BY RowFacts
    <2>2. IsFiniteSet(Amounts)
        BY <2>1, FS_Interval, Zenon DEF Amounts
    <2> QED BY <2>2, KeysFacts, FS_Product, Zenon
<1>2. Units(r) \in SUBSET (Keys \X Amounts)
    BY DEF Units
<1>3. IsFiniteSet(Units(r))
    BY <1>1, <1>2, FS_Subset
<1>4. \A b : UnitsOf(r, b) \in SUBSET Units(r)
    BY DEF UnitsOf
<1>5. \A b : IsFiniteSet(UnitsOf(r, b))
    BY <1>3, <1>4, FS_Subset
<1> QED BY <1>3, <1>5, FS_CardinalityType DEF Held, HeldBy

LEMMA FitsLess ==
    ASSUME NEW r \in Margins, NEW q \in Margins, AtMost(r, q), Fits(q)
    PROVE  Fits(r)
<1>1. Units(r) \subseteq Units(q)
    <2> SUFFICES ASSUME NEW u \in Units(r) PROVE u \in Units(q)
        OBVIOUS
    <2>1. u \in Keys \X Amounts /\ u[1] \in Keys /\ u[2] \in Nat /\ u[2] <= r[u[1]]
        BY RowFacts DEF Units, Amounts
    <2>2. r[u[1]] \in Nat /\ q[u[1]] \in Nat /\ r[u[1]] <= q[u[1]]
        BY <2>1, RowFacts DEF Margins, AtMost
    <2>3. u[2] <= q[u[1]]
        BY <2>1, <2>2
    <2> QED BY <2>1, <2>3 DEF Units
<1>2. \A b : UnitsOf(r, b) \subseteq UnitsOf(q, b)
    BY <1>1 DEF UnitsOf
<1>3. Held(r) \in Nat /\ Held(q) \in Nat /\ Held(r) <= Held(q)
    BY <1>1, UnitsAreFinite, FS_Subset DEF Held
<1>4. \A b : HeldBy(r, b) \in Nat /\ HeldBy(q, b) \in Nat /\ HeldBy(r, b) <= HeldBy(q, b)
    BY <1>2, UnitsAreFinite, FS_Subset DEF HeldBy
<1>5. \A d \in Declarations : d.portfolio \in Nat /\ d.cap \in Nat
    BY DeclarationsAssumption DEF IsDeclaration, Amounts
<1>6. ASSUME Units(r) # {} PROVE \E d \in Declarations : Held(r) <= d.portfolio
    <2>1. PICK d \in Declarations : Held(q) <= d.portfolio
        BY <1>1, <1>6 DEF Fits
    <2> QED BY <1>3, <1>5, <2>1
<1>7. ASSUME NEW b \in Bots, UnitsOf(r, b) # {} PROVE \E d \in Declarations : HeldBy(r, b) <= d.cap
    <2>1. UnitsOf(q, b) # {}
        BY <1>2, <1>7
    <2>2. PICK d \in Declarations : HeldBy(q, b) <= d.cap
        BY <2>1 DEF Fits
    <2> QED BY <1>4, <1>5, <2>2
<1> QED BY <1>6, <1>7 DEF Fits

(* What a grant adds is counted once, in the total and for its bot.        *)
LEMMA FitsGrant ==
    ASSUME NEW r \in Margins, Fits(r), NEW k \in Keys, NEW d \in Declarations, r[k] = 0,
           Held(r) + d.most <= d.portfolio, HeldBy(r, k[1]) + d.most <= d.cap
    PROVE  Fits([r EXCEPT ![k] = d.most])
<1> DEFINE q == [r EXCEPT ![k] = d.most]
           New == {<<k, n>> : n \in 1 .. d.most}
<1>1. d.most \in Nat /\ d.portfolio \in Nat /\ d.cap \in Nat
    BY DeclarationsAssumption DEF IsDeclaration, Amounts
<1>2. IsFiniteSet(New) /\ Cardinality(New) \in Nat /\ Cardinality(New) <= d.most
    <2>1. IsFiniteSet(1 .. d.most) /\ Cardinality(1 .. d.most) = d.most
        <3>1. PICK m \in Nat : m = d.most
            BY <1>1
        <3>2. IsFiniteSet(1 .. m) /\ Cardinality(1 .. m) = IF 1 > m THEN 0 ELSE m - 1 + 1
            <4>1. 1 \in Int /\ m \in Int
                OBVIOUS
            <4> QED BY <4>1, FS_Interval, Zenon
        <3> QED BY <3>1, <3>2
    <2> DEFINE f == [n \in 1 .. d.most |-> <<k, n>>]
    <2>2. f \in Surjection(1 .. d.most, New)
        BY DEF Surjection
    <2> HIDE DEF f, New
    <2>3. IsFiniteSet(New) /\ Cardinality(New) <= Cardinality(1 .. d.most)
        BY <2>1, <2>2, FS_Surjection
    <2> QED BY <2>1, <2>3, FS_CardinalityType
<1>3. \A m \in Keys : q[m] = IF m = k THEN d.most ELSE r[m]
    BY DEF Margins
<1> HIDE DEF q
<1>4. Units(q) \subseteq Units(r) \union New
    <2> SUFFICES ASSUME NEW u \in Units(q), u \notin Units(r) PROVE u \in New
        OBVIOUS
    <2>1. u \in Keys \X Amounts /\ u[1] \in Keys /\ u[2] \in Amounts /\ u = <<u[1], u[2]>>
          /\ u[2] <= q[u[1]] /\ ~(u[2] <= r[u[1]])
        BY DEF Units
    <2>2. u[1] = k /\ u[2] <= d.most
        BY <1>3, <2>1
    <2>3. u[2] \in 1 .. d.most
        BY <1>1, <2>1, <2>2, RowFacts DEF Amounts
    <2> QED BY <2>1, <2>2, <2>3
<1>5. \A b \in Bots : UnitsOf(q, b) \subseteq UnitsOf(r, b) \union New
    BY <1>4 DEF UnitsOf
<1>6. \A b \in Bots : b # k[1] => UnitsOf(q, b) \subseteq UnitsOf(r, b)
    BY <1>4 DEF UnitsOf
<1> HIDE DEF New
<1>7. Held(q) <= d.portfolio
    <2>1. IsFiniteSet(Units(r) \union New)
          /\ Cardinality(Units(r) \union New)
               = Held(r) + Cardinality(New) - Cardinality(Units(r) \intersect New)
        BY <1>2, UnitsAreFinite, FS_Union DEF Held
    <2>2. Held(q) <= Cardinality(Units(r) \union New)
        BY <1>4, <2>1, FS_Subset DEF Held
    <2>3. Cardinality(Units(r) \intersect New) \in Nat
        BY <1>2, FS_Subset, FS_CardinalityType
    <2> QED BY <1>1, <1>2, <2>1, <2>2, <2>3, UnitsAreFinite
<1>8. HeldBy(q, k[1]) <= d.cap
    <2> DEFINE b == k[1]
    <2>1. b \in Bots
        BY KeysFacts
    <2> HIDE DEF b
    <2>2. /\ IsFiniteSet(UnitsOf(r, b) \union New)
          /\ Cardinality(UnitsOf(r, b) \union New)
               = HeldBy(r, b) + Cardinality(New) - Cardinality(UnitsOf(r, b) \intersect New)
        BY <1>2, UnitsAreFinite, FS_Union DEF HeldBy
    <2>3. HeldBy(q, b) <= Cardinality(UnitsOf(r, b) \union New)
        BY <1>5, <2>1, <2>2, FS_Subset DEF HeldBy
    <2>4. Cardinality(UnitsOf(r, b) \intersect New) \in Nat
        BY <1>2, FS_Subset, FS_CardinalityType
    <2>5. HeldBy(q, b) \in Nat /\ HeldBy(r, b) \in Nat
        BY UnitsAreFinite, Zenon
    <2>6. HeldBy(q, b) <= HeldBy(r, b) + d.most
        BY <1>1, <1>2, <2>2, <2>3, <2>4, <2>5
    <2>7. HeldBy(r, b) + d.most <= d.cap
        BY DEF b
    <2> QED BY <1>1, <2>5, <2>6, <2>7 DEF b
<1>9. ASSUME NEW b \in Bots, UnitsOf(q, b) # {} PROVE \E e \in Declarations : HeldBy(q, b) <= e.cap
    <2>1. CASE b = k[1]
        BY <1>8, <2>1
    <2>2. CASE b # k[1]
        <3>1. UnitsOf(r, b) # {} /\ HeldBy(q, b) <= HeldBy(r, b)
            BY <1>6, <1>9, <2>2, UnitsAreFinite, FS_Subset DEF HeldBy
        <3>2. PICK e \in Declarations : HeldBy(r, b) <= e.cap
            BY <3>1 DEF Fits
        <3>3. e.cap \in Nat
            BY DeclarationsAssumption DEF IsDeclaration, Amounts
        <3> QED BY <3>1, <3>2, <3>3, UnitsAreFinite
    <2> QED BY <2>1, <2>2
<1> QED BY <1>7, <1>9 DEF Fits, q

-----------------------------------------------------------------------------
(* The shape of the state: who holds the lock and what for, what a         *)
(* compaction still has to write, and what an entry or a close in progress *)
(* is about.                                                               *)

LockPlaces == {"reclaiming", "compacting"}
EntryPlaces == {"sized", "compacting", "reserved"}
Compacting == holder # NoBot /\ botAt[holder] = "compacting"

LockInv ==
    /\ holder = NoBot => buffer = <<>>
    /\ \A b \in Bots : botAt[b] \in LockPlaces <=> holder = b

CompactInv ==
    Compacting => ~unended /\ poolLog \in Seq(Row) /\ Simple(poolLog \o buffer)

EntryOf(b) ==
    /\ botAt[b] \in EntryPlaces => using[b] \in Declarations
    /\ botAt[b] \in EntryPlaces \union {"released"} =>
          what[b] \in Universe[b] /\ positions[b][what[b]] = 0
    /\ botAt[b] \notin EntryPlaces \union {"released"} => what[b] = NoSymbol
EntryInv == \A b \in Bots : EntryOf(b)

ShapeInv == BotsTypeOK /\ LockInv /\ CompactInv /\ EntryInv

LEMMA DeclarationFacts ==
    ASSUME NEW d \in Declarations
    PROVE  /\ d.most \in Nat /\ d.most > 0 /\ d.most \in 0 .. MaxUsdt
           /\ d.portfolio \in Nat /\ d.cap \in Nat
BY DeclarationsAssumption DEF IsDeclaration, Amounts

LEMMA RowsReleased ==
    ASSUME NEW k \in Keys
    PROVE  ReleaseRow(k) \in Row
BY RowFacts DEF ReleaseRow, Row

LEMMA RowsReserved ==
    ASSUME NEW k \in Keys, NEW d \in Declarations
    PROVE  ReserveRow(k, d.most) \in Row
BY DeclarationFacts DEF ReserveRow, Row

(* A step of a bot that is not in the lock and leaves the pool alone.      *)
LEMMA OutsideLock ==
    ASSUME ShapeInv, NEW b \in Bots, NEW place \in BotPlaces, UNCHANGED poolVars,
           botAt[b] \notin LockPlaces, place \notin LockPlaces, Goes(b, place)
    PROVE  LockInv' /\ CompactInv' /\ PoolTypeOK' /\ botAt' \in [Bots -> BotPlaces]
<1>1. /\ botAt \in [Bots -> BotPlaces] /\ PoolTypeOK /\ holder # b
      /\ poolLog' = poolLog /\ unended' = unended /\ holder' = holder /\ buffer' = buffer
      /\ botAt' = [botAt EXCEPT ![b] = place]
    BY DEF ShapeInv, BotsTypeOK, LockInv, poolVars, Goes
<1>2. holder \in Bots \union {NoBot} /\ PoolTypeOK'
    BY <1>1 DEF PoolTypeOK
<1>3. LockInv'
    BY <1>1 DEF ShapeInv, LockInv
<1>4. CompactInv'
    BY <1>1, <1>2 DEF ShapeInv, CompactInv, Compacting
<1> QED BY <1>1, <1>2, <1>3, <1>4

(* The lines of an ended or unended file after another one is written.     *)
LEMMA PutLines ==
    ASSUME PoolTypeOK, NEW row \in Line
    PROVE  /\ Put(poolLog, unended, row) \in Seq(Line) /\ Put(poolLog, unended, row) # <<>>
           /\ poolLog \in Seq(Line)
           /\ ~unended => Put(poolLog, unended, row) = Append(poolLog, row)
           /\ unended => Put(poolLog, unended, row) = Glue(poolLog) /\ poolLog # <<>>
<1>1. poolLog \in Seq(Line) /\ unended \in BOOLEAN /\ (unended => poolLog # <<>>)
    BY Zenon DEF PoolTypeOK, Line
<1>2. Put(poolLog, unended, row) \in Seq(Line) /\ Put(poolLog, unended, row) # <<>>
    BY <1>1, PutIsSeq, RowFacts, Zenon
<1> QED BY <1>1, <1>2, Zenon DEF Put, Glue

(* Names for the rows a sweep writes.                                      *)
LEMMA SweepRows ==
    ASSUME ShapeInv, NEW b \in Bots, NEW open
    PROVE  LET rows == InOrder(poolLog, OrphanRows(b, open)) IN
           /\ rows \in Seq(Row) /\ Lists(rows, poolLog, OrphanRows(b, open))
           /\ [n \in DOMAIN rows |-> ReleaseRow(rows[n].key)] \in Seq(Row)
<1> DEFINE I == OrphanRows(b, open)
           rows == InOrder(poolLog, I)
           bf == [n \in DOMAIN rows |-> ReleaseRow(rows[n].key)]
<1>1. poolLog \in Seq(Line)
    BY Zenon DEF ShapeInv, BotsTypeOK, PoolTypeOK, Line
<1>2. \A i \in I : i \in DOMAIN poolLog /\ poolLog[i] \in Row
    BY <1>1, LiveLines, Zenon DEF OrphanRows
<1>3. rows \in Seq(Row) /\ Lists(rows, poolLog, I)
    BY <1>1, <1>2, InOrderLists, Zenon
<1> HIDE DEF rows, I
<1>4. Len(rows) \in Nat /\ DOMAIN rows = 1 .. Len(rows) /\ \A n \in DOMAIN rows : rows[n] \in Row
    BY <1>3, LenProperties, ElementOfSeq
<1>5. \A n \in DOMAIN rows : ReleaseRow(rows[n].key) \in Row
    BY <1>4, RowFacts DEF ReleaseRow, Row
<1>6. bf \in [1 .. Len(rows) -> Row]
    BY <1>4, <1>5
<1>7. bf \in Seq(Row)
    BY <1>4, <1>6
<1> QED BY <1>3, <1>7 DEF rows, I

LEMMA ShapeInit == BotsInit => ShapeInv
<1> SUFFICES ASSUME BotsInit PROVE ShapeInv
    OBVIOUS
<1>1. BotsTypeOK
    <2>1. PoolTypeOK
        BY EmptySeq DEF BotsInit, PoolTypeOK
    <2>2. /\ botAt \in [Bots -> BotPlaces]
          /\ positions \in [Bots -> [Symbols -> 0 .. MaxUsdt]]
          /\ what \in [Bots -> Symbols \union {NoSymbol}]
          /\ using \in [Bots -> Declarations \union {NoDeclaration}]
          /\ refusals \in [Bots -> SUBSET Symbols]
        BY RowFacts DEF BotsInit, BotPlaces
    <2>3. declared \in Declarations /\ journal = positions /\ damaged \in BOOLEAN
        BY DEF BotsInit
    <2>4. kills \in 0 .. MaxKills
        BY BotsAssumption DEF BotsInit
    <2> QED BY <2>1, <2>2, <2>3, <2>4 DEF BotsTypeOK
<1>2. LockInv /\ CompactInv
    BY PoolAssumption DEF BotsInit, LockInv, CompactInv, Compacting, LockPlaces
<1>3. EntryInv
    BY DEF BotsInit, EntryInv, EntryOf, EntryPlaces
<1> QED BY <1>1, <1>2, <1>3 DEF ShapeInv

(* The typing of the state by parts.                                       *)
LEMMA ShapeParts ==
    ASSUME ShapeInv
    PROVE  /\ PoolTypeOK /\ poolLog \in Seq(Line) /\ buffer \in Seq(Row)
           /\ declared \in Declarations /\ botAt \in [Bots -> BotPlaces]
           /\ positions \in [Bots -> [Symbols -> 0 .. MaxUsdt]]
           /\ journal \in [Bots -> [Symbols -> 0 .. MaxUsdt]]
           /\ what \in [Bots -> Symbols \union {NoSymbol}]
           /\ using \in [Bots -> Declarations \union {NoDeclaration}]
           /\ refusals \in [Bots -> SUBSET Symbols]
           /\ damaged \in BOOLEAN /\ kills \in 0 .. MaxKills
           /\ LockInv /\ CompactInv /\ EntryInv /\ \A b \in Bots : EntryOf(b)
           /\ holder \in Bots \union {NoBot} /\ NoBot \notin Bots
BY PoolAssumption DEF ShapeInv, BotsTypeOK, PoolTypeOK, EntryInv, Line

LEMMA RecoverShape ==
    ASSUME ShapeInv, NEW b \in Bots, Recover(b) PROVE ShapeInv'
<1> USE ShapeParts
<1>1. LockInv' /\ CompactInv' /\ PoolTypeOK' /\ botAt' \in [Bots -> BotPlaces]
    BY OutsideLock DEF Recover, BotPlaces, LockPlaces
<1>2. BotsTypeOK'
    BY <1>1 DEF Recover, BotsTypeOK
<1>3. EntryInv'
    BY DEF Recover, Goes, EntryInv, EntryOf, EntryPlaces
<1> QED BY <1>1, <1>2, <1>3 DEF ShapeInv

LEMMA JournalCloseShape ==
    ASSUME ShapeInv, NEW b \in Bots, JournalClose(b) PROVE ShapeInv'
<1> USE ShapeParts
<1>1. LockInv' /\ CompactInv' /\ PoolTypeOK' /\ botAt' \in [Bots -> BotPlaces]
    BY OutsideLock DEF JournalClose, BotPlaces, LockPlaces
<1>2. BotsTypeOK'
    <2>1. what[b] \in Universe[b]
        BY DEF JournalClose, EntryOf
    <2>2. what[b] \in Symbols
        BY <2>1, UniverseAssumption
    <2>3. what[b] \in Symbols /\ 0 \in 0 .. MaxUsdt
        BY <2>2, RowFacts
    <2>4. journal' \in [Bots -> [Symbols -> 0 .. MaxUsdt]]
        BY <2>3 DEF JournalClose
    <2> QED BY <1>1, <2>4 DEF JournalClose, BotsTypeOK
<1>3. EntryInv'
    BY DEF JournalClose, Goes, EntryInv, EntryOf, EntryPlaces
<1> QED BY <1>1, <1>2, <1>3 DEF ShapeInv

LEMMA SizeShape ==
    ASSUME ShapeInv, NEW b \in Bots, NEW s \in Universe[b], Size(b, s) PROVE ShapeInv'
<1> USE ShapeParts
<1>1. LockInv' /\ CompactInv' /\ PoolTypeOK' /\ botAt' \in [Bots -> BotPlaces]
    BY OutsideLock DEF Size, BotPlaces, LockPlaces
<1>2. s \in Symbols
    BY KeysFacts
<1>3. BotsTypeOK'
    BY <1>1, <1>2 DEF Size, BotsTypeOK
<1>4. positions[b][s] = 0
    BY <1>2, RowFacts DEF Size, Open
<1>5. EntryInv'
    BY <1>4 DEF Size, Goes, EntryInv, EntryOf, EntryPlaces
<1> QED BY <1>1, <1>3, <1>5 DEF ShapeInv

(* The end of an entry, with or without a position.                        *)
LEMMA EntryEndsShape ==
    ASSUME ShapeInv, NEW b \in Bots, EntryEnds(b), botAt[b] \notin LockPlaces
    PROVE  /\ LockInv' /\ CompactInv' /\ PoolTypeOK' /\ botAt' \in [Bots -> BotPlaces]
           /\ declared' = declared /\ damaged' = damaged /\ kills' = kills
           /\ what' \in [Bots -> Symbols \union {NoSymbol}]
           /\ using' \in [Bots -> Declarations \union {NoDeclaration}]
           /\ \A c \in Bots : IF c = b THEN botAt'[c] = "polling" /\ what'[c] = NoSymbol
                              ELSE /\ botAt'[c] = botAt[c] /\ what'[c] = what[c]
                                   /\ using'[c] = using[c]
<1> USE ShapeParts
<1>1. LockInv' /\ CompactInv' /\ PoolTypeOK' /\ botAt' \in [Bots -> BotPlaces]
    BY OutsideLock DEF EntryEnds, BotPlaces, LockPlaces
<1> QED BY <1>1 DEF EntryEnds, Goes

LEMMA CapitalRefusedShape ==
    ASSUME ShapeInv, NEW b \in Bots, CapitalRefused(b) PROVE ShapeInv'
<1> USE ShapeParts
<1>1. EntryEnds(b) /\ botAt[b] \notin LockPlaces
    BY DEF CapitalRefused, LockPlaces
<1>2. BotsTypeOK'
    BY <1>1, EntryEndsShape DEF CapitalRefused, BotsTypeOK
<1>3. EntryInv'
    BY <1>1, EntryEndsShape DEF CapitalRefused, EntryInv, EntryOf, EntryPlaces
<1> QED BY <1>1, <1>2, <1>3, EntryEndsShape DEF ShapeInv

LEMMA GateRefusesShape ==
    ASSUME ShapeInv, NEW b \in Bots, GateRefuses(b) PROVE ShapeInv'
<1> USE ShapeParts
<1>1. EntryEnds(b) /\ botAt[b] \notin LockPlaces
    BY DEF GateRefuses, LockPlaces
<1>2. what[b] \in Symbols
    BY KeysFacts DEF GateRefuses, EntryOf, EntryPlaces
<1>3. BotsTypeOK'
    BY <1>1, <1>2, EntryEndsShape DEF GateRefuses, BotsTypeOK
<1>4. EntryInv'
    BY <1>1, EntryEndsShape DEF GateRefuses, EntryInv, EntryOf, EntryPlaces
<1> QED BY <1>1, <1>3, <1>4, EntryEndsShape DEF ShapeInv

LEMMA OpenPositionShape ==
    ASSUME ShapeInv, NEW b \in Bots, OpenPosition(b) PROVE ShapeInv'
<1> USE ShapeParts
<1>1. EntryEnds(b) /\ botAt[b] \notin LockPlaces
    BY DEF OpenPosition, LockPlaces
<1>2. what[b] \in Symbols /\ using[b].most \in 0 .. MaxUsdt
    BY KeysFacts, DeclarationFacts DEF OpenPosition, EntryOf, EntryPlaces
<1>3. BotsTypeOK'
    BY <1>1, <1>2, EntryEndsShape DEF OpenPosition, BotsTypeOK
<1>4. \A c \in Bots : c # b => positions'[c] = positions[c]
    BY DEF OpenPosition
<1>5. EntryInv'
    BY <1>1, <1>4, EntryEndsShape DEF EntryInv, EntryOf, EntryPlaces
<1> QED BY <1>1, <1>3, <1>5, EntryEndsShape DEF ShapeInv

LEMMA SweepShape ==
    ASSUME ShapeInv, NEW b \in Bots, SweepOrphans(b) PROVE ShapeInv'
<1> USE ShapeParts
<1>1. buffer' \in Seq(Row) /\ poolLog' = poolLog /\ unended' = unended /\ holder' = b
    BY SweepRows, ZenonT(60) DEF SweepOrphans, StartReclaim
<1>2. BotsTypeOK'
    BY <1>1 DEF SweepOrphans, Goes, BotPlaces, BotsTypeOK, PoolTypeOK
<1>3. LockInv' /\ CompactInv'
    BY <1>1 DEF SweepOrphans, LockIsFree, Goes, LockInv, LockPlaces, CompactInv, Compacting
<1>4. EntryInv'
    BY DEF SweepOrphans, Goes, EntryInv, EntryOf, EntryPlaces
<1> QED BY <1>2, <1>3, <1>4 DEF ShapeInv

LEMMA LeaveLockShape ==
    ASSUME ShapeInv, NEW b \in Bots, LeaveLock(b) PROVE ShapeInv'
<1> USE ShapeParts
<1>1. holder = b /\ botAt[b] \in LockPlaces /\ buffer = <<>>
    BY DEF LeaveLock, GiveUpLock, LockInv
<1>2. PoolTypeOK' /\ holder' = NoBot
    BY DEF LeaveLock, GiveUpLock, PoolTypeOK
<1>3. BotsTypeOK'
    BY <1>2 DEF LeaveLock, Goes, BotPlaces, BotsTypeOK
<1>4. LockInv' /\ CompactInv'
    BY <1>1, <1>2 DEF LeaveLock, GiveUpLock, Goes, LockInv, LockPlaces, CompactInv, Compacting
<1>5. EntryInv'
    BY <1>1 DEF LeaveLock, Goes, LockPlaces, EntryInv, EntryOf, EntryPlaces
<1> QED BY <1>3, <1>4, <1>5 DEF ShapeInv

(* One row of those that are to be written under the lock.                 *)
LEMMA WriteNextShape ==
    ASSUME ShapeInv, WriteNext
    PROVE  /\ PoolTypeOK' /\ Head(buffer) \in Row /\ holder' = holder
           /\ Compacting => /\ poolLog' = Append(poolLog, Head(buffer)) /\ poolLog' \in Seq(Row)
                            /\ poolLog' \o buffer' = poolLog \o buffer
<1> USE ShapeParts
<1>1. /\ buffer # <<>> /\ poolLog' = Put(poolLog, unended, Head(buffer)) /\ unended' = FALSE
      /\ buffer' = Tail(buffer) /\ holder' = holder
    BY DEF WriteNext, Write
<1>2. Head(buffer) \in Row /\ Tail(buffer) \in Seq(Row)
    BY <1>1, HeadTailProperties
<1>3. Put(poolLog, unended, Head(buffer)) \in Seq(Line)
      /\ (~unended => Put(poolLog, unended, Head(buffer)) = Append(poolLog, Head(buffer)))
    BY <1>2, PutLines, RowFacts
<1>4. PoolTypeOK'
    BY <1>1, <1>2, <1>3 DEF PoolTypeOK, Line
<1>5. ASSUME Compacting
      PROVE  /\ poolLog' = Append(poolLog, Head(buffer)) /\ poolLog' \in Seq(Row)
             /\ poolLog' \o buffer' = poolLog \o buffer
    <2>1. ~unended /\ poolLog \in Seq(Row)
        BY <1>5 DEF CompactInv
    <2>2. poolLog' = Append(poolLog, Head(buffer))
        BY <1>1, <1>3, <2>1
    <2>3. /\ Append(poolLog, Head(buffer)) \in Seq(Row)
          /\ Append(poolLog, Head(buffer)) \o Tail(buffer) = poolLog \o buffer
        <3>1. poolLog \in Seq(Row) /\ buffer \in Seq(Row) /\ buffer # <<>>
            BY <1>1, <2>1
        <3> QED BY <3>1, RowMoves, SMTT(60)
    <2> QED BY <1>1, <2>2, <2>3, Zenon
<1> QED BY <1>1, <1>2, <1>4, <1>5

LEMMA WriteUnderLockShape ==
    ASSUME ShapeInv, NEW b \in Bots, WriteUnderLock(b) PROVE ShapeInv'
<1> USE ShapeParts
<1>1. WriteNext /\ holder = b
    BY DEF WriteUnderLock
<1>2. BotsTypeOK'
    BY <1>1, WriteNextShape DEF WriteUnderLock, memory, BotsTypeOK
<1>3. LockInv' /\ EntryInv'
    BY <1>1, WriteNextShape DEF WriteUnderLock, memory, LockInv, EntryInv, EntryOf
<1>4. CompactInv'
    <2> SUFFICES ASSUME Compacting' PROVE CompactInv'
        BY DEF CompactInv
    <2>1. Compacting
        BY <1>1, WriteNextShape DEF WriteUnderLock, memory, Compacting
    <2>2. unended' = FALSE
        BY <1>1 DEF WriteNext, Write
    <2> QED BY <1>1, <2>1, <2>2, WriteNextShape DEF CompactInv
<1> QED BY <1>2, <1>3, <1>4 DEF ShapeInv

LEMMA CloseAndReleaseShape ==
    ASSUME ShapeInv, NEW b \in Bots, NEW s \in Universe[b], CloseAndRelease(b, s)
    PROVE  ShapeInv'
<1> USE ShapeParts
<1>1. s \in Symbols /\ <<b, s>> \in Keys
    BY KeysFacts
<1>2. PoolTypeOK' /\ holder' = NoBot /\ buffer' = <<>> /\ holder = NoBot
    <2>1. holder = NoBot /\ buffer = <<>>
        BY DEF CloseAndRelease, LockIsFree, LockInv
    <2>2. CASE UNCHANGED poolVars
        BY <2>1, <2>2 DEF poolVars, PoolTypeOK
    <2>3. CASE Write(ReleaseRow(<<b, s>>)) /\ UNCHANGED <<holder, buffer>>
        <3>1. ReleaseRow(<<b, s>>) \in Line
            BY <1>1, RowsReleased, RowFacts
        <3> QED BY <2>1, <2>3, <3>1, PutLines DEF Write, PoolTypeOK, Line
    <2> QED BY <2>2, <2>3 DEF CloseAndRelease, Release
<1>3. BotsTypeOK'
    BY <1>1, <1>2, RowFacts DEF CloseAndRelease, Goes, BotPlaces, BotsTypeOK
<1>4. LockInv' /\ CompactInv'
    BY <1>2 DEF CloseAndRelease, Goes, LockInv, LockPlaces, CompactInv, Compacting
<1>5. EntryInv'
    BY <1>1 DEF CloseAndRelease, Goes, EntryInv, EntryOf, EntryPlaces
<1> QED BY <1>3, <1>4, <1>5 DEF ShapeInv

(* What a grant leaves of the ledger, compacted or not.                    *)
Granted(b) == Put(poolLog, unended, ReserveRow(<<b, what[b]>>, using[b].most))

LEMMA Grants ==
    ASSUME ShapeInv, NEW b \in Bots, ReserveMargin(b)
    PROVE  /\ <<b, what[b]>> \in Keys /\ using[b] \in Declarations
           /\ ReserveRow(<<b, what[b]>>, using[b].most) \in Row
           /\ Granted(b) \in Seq(Line) /\ Granted(b) # <<>>
           /\ unended' = FALSE /\ holder = NoBot /\ buffer = <<>>
           /\ \/ /\ poolLog' = <<>> /\ holder' = b /\ buffer' = Compacted(Granted(b))
                 /\ Goes(b, "compacting")
              \/ /\ poolLog' = Granted(b) /\ holder' = NoBot /\ buffer' = <<>>
                 /\ Goes(b, "reserved")
<1> USE ShapeParts
<1>1. what[b] \in Universe[b] /\ using[b] \in Declarations
    BY DEF ReserveMargin, EntryOf, EntryPlaces
<1>2. <<b, what[b]>> \in Keys /\ ReserveRow(<<b, what[b]>>, using[b].most) \in Row
    BY <1>1, KeysFacts, RowsReserved
<1>3. Granted(b) \in Seq(Line) /\ Granted(b) # <<>>
    BY <1>2, PutLines, RowFacts DEF Granted
<1>4. holder = NoBot /\ buffer = <<>>
    BY DEF ReserveMargin, LockIsFree, LockInv
<1>5. Reserve(b, what[b], using[b]) /\ Goes(b, IF holder' = b THEN "compacting" ELSE "reserved")
    BY DEF ReserveMargin
<1>6. \/ /\ poolLog' = <<>> /\ unended' = FALSE /\ holder' = b /\ buffer' = Compacted(Granted(b))
      \/ /\ poolLog' = Granted(b) /\ unended' = FALSE /\ holder' = holder /\ buffer' = buffer
    BY <1>5, Zenon DEF Reserve, Granted
<1>7. CASE poolLog' = <<>> /\ unended' = FALSE /\ holder' = b /\ buffer' = Compacted(Granted(b))
    BY <1>1, <1>2, <1>3, <1>4, <1>5, <1>7
<1>8. CASE poolLog' = Granted(b) /\ unended' = FALSE /\ holder' = holder /\ buffer' = buffer
    BY <1>1, <1>2, <1>3, <1>4, <1>5, <1>8
<1> QED BY <1>6, <1>7, <1>8

LEMMA ReserveMarginShape ==
    ASSUME ShapeInv, NEW b \in Bots, ReserveMargin(b) PROVE ShapeInv'
<1> USE ShapeParts
<1>1. CASE /\ poolLog' = <<>> /\ holder' = b /\ buffer' = Compacted(Granted(b))
           /\ Goes(b, "compacting")
    <2>1. Compacted(Granted(b)) \in Seq(Row) /\ Simple(Compacted(Granted(b)))
        BY Grants, CompactedReads
    <2>2. poolLog' \in Seq(Row) /\ poolLog' \o buffer' = Compacted(Granted(b))
        BY <1>1, <2>1, EmptySeq, ConcatEmptySeq
    <2>3. PoolTypeOK'
        BY <1>1, <2>1, <2>2, Grants, EmptySeq DEF PoolTypeOK
    <2>4. BotsTypeOK'
        BY <1>1, <2>3 DEF ReserveMargin, Goes, BotPlaces, BotsTypeOK
    <2>5. LockInv'
        BY <1>1, Grants DEF Goes, LockInv, LockPlaces
    <2>6. CompactInv'
        BY <2>1, <2>2, Grants DEF CompactInv
    <2>7. EntryInv'
        BY <1>1 DEF ReserveMargin, Goes, EntryInv, EntryOf, EntryPlaces
    <2> QED BY <2>4, <2>5, <2>6, <2>7 DEF ShapeInv
<1>2. CASE /\ poolLog' = Granted(b) /\ holder' = NoBot /\ buffer' = <<>>
           /\ Goes(b, "reserved")
    <2>1. PoolTypeOK'
        BY <1>2, Grants, EmptySeq DEF PoolTypeOK, Line
    <2>2. BotsTypeOK'
        BY <1>2, <2>1 DEF ReserveMargin, Goes, BotPlaces, BotsTypeOK
    <2>3. LockInv' /\ CompactInv'
        BY <1>2, Grants DEF Goes, LockInv, LockPlaces, CompactInv, Compacting
    <2>4. EntryInv'
        BY <1>2 DEF ReserveMargin, Goes, EntryInv, EntryOf, EntryPlaces
    <2> QED BY <2>2, <2>3, <2>4 DEF ShapeInv
<1> QED BY <1>1, <1>2, Grants

(* A death anywhere.                                                       *)
LEMMA DieShape ==
    ASSUME ShapeInv, NEW b \in Bots, Die(b), damaged' \in BOOLEAN,
           poolLog' \in Seq(Line), unended' \in BOOLEAN, unended' => poolLog' # <<>>,
           holder # b => (poolLog' = poolLog /\ unended' = unended) \/ holder = NoBot
    PROVE  ShapeInv'
<1> USE ShapeParts
<1>1. /\ holder' = IF holder = b THEN NoBot ELSE holder
      /\ buffer' = IF holder = b THEN <<>> ELSE buffer
    BY DEF Die, DieInLock
<1>2. PoolTypeOK'
    BY <1>1, EmptySeq DEF PoolTypeOK, Line
<1>3. BotsTypeOK'
    <2>1. kills' \in 0 .. MaxKills
        BY BotsAssumption DEF Die
    <2>2. /\ botAt' \in [Bots -> BotPlaces]
          /\ positions' \in [Bots -> [Symbols -> 0 .. MaxUsdt]]
          /\ what' \in [Bots -> Symbols \union {NoSymbol}]
          /\ using' \in [Bots -> Declarations \union {NoDeclaration}]
          /\ refusals' \in [Bots -> SUBSET Symbols]
        BY RowFacts DEF Die, Goes, BotPlaces
    <2>3. declared' \in Declarations /\ journal' \in [Bots -> [Symbols -> 0 .. MaxUsdt]]
        BY DEF Die
    <2> QED BY <1>2, <2>1, <2>2, <2>3 DEF BotsTypeOK
<1>4. LockInv'
    BY <1>1 DEF Die, Goes, LockInv, LockPlaces
<1>5. CompactInv'
    <2> SUFFICES ASSUME Compacting' PROVE CompactInv'
        BY DEF CompactInv
    <2>1. holder # b /\ holder' = holder /\ holder # NoBot /\ holder \in Bots /\ Compacting
        BY <1>1 DEF Compacting, Die, Goes
    <2> QED BY <1>1, <2>1 DEF CompactInv
<1>6. EntryInv'
    BY DEF Die, Goes, EntryInv, EntryOf, EntryPlaces
<1> QED BY <1>3, <1>4, <1>5, <1>6 DEF ShapeInv

LEMMA KillShape ==
    ASSUME ShapeInv, NEW b \in Bots, KillBot(b) PROVE ShapeInv'
<1> USE ShapeParts
<1>1. Die(b) /\ poolLog' = poolLog /\ unended' = unended /\ damaged' \in BOOLEAN
    BY DEF KillBot, MidCompaction
<1> QED BY <1>1, DieShape DEF PoolTypeOK

LEMMA WritingRows ==
    ASSUME ShapeInv, NEW b \in Bots, NEW row \in Writing(b)
    PROVE  /\ row \in Row
           /\ holder = b \/ holder = NoBot
           /\ holder = b => buffer # <<>> /\ row = Head(buffer)
           /\ holder = NoBot =>
                \/ /\ row = ReserveRow(<<b, what[b]>>, using[b].most) /\ botAt[b] = "sized"
                   /\ ~Refusal(b, what[b], using[b])
                \/ \E s \in Universe[b] : row = ReleaseRow(<<b, s>>)
<1> USE ShapeParts
<1>1. CASE holder = b
    <2>1. 1 \in DOMAIN buffer /\ row = buffer[1]
        BY <1>1 DEF Writing
    <2>2. Len(buffer) \in Nat /\ DOMAIN buffer = 1 .. Len(buffer)
        BY LenProperties
    <2>3. buffer # <<>> /\ row \in Row
        BY <2>1, <2>2, EmptySeq, ElementOfSeq
    <2>4. row = Head(buffer)
        BY <2>1, <2>3, HeadTailProperties
    <2> QED BY <1>1, <2>3, <2>4
<1>2. CASE holder # b
    <2>1. holder = NoBot
        BY <1>2 DEF Writing, LockIsFree
    <2>2. \/ /\ row = ReserveRow(<<b, what[b]>>, using[b].most) /\ botAt[b] = "sized"
             /\ ~Refusal(b, what[b], using[b])
          \/ \E s \in Universe[b] : row = ReleaseRow(<<b, s>>)
        <3> DEFINE A == {ReserveRow(<<b, what[b]>>, using[b].most) :
                            x \in {y \in {b} : botAt[y] = "sized" /\ ~Refusal(y, what[y], using[y])}}
                   B == {ReleaseRow(<<b, s>>) :
                            s \in {t \in Open(b) \intersect Reserved(b) : botAt[b] = "polling"}}
        <3>1. row \in A \union B
            BY <1>2, <2>1, Zenon DEF Writing, LockIsFree
        <3>2. ASSUME row \in A
              PROVE  /\ row = ReserveRow(<<b, what[b]>>, using[b].most) /\ botAt[b] = "sized"
                     /\ ~Refusal(b, what[b], using[b])
            <4>1. PICK x \in {b} : /\ botAt[x] = "sized" /\ ~Refusal(x, what[x], using[x])
                                   /\ row = ReserveRow(<<b, what[b]>>, using[b].most)
                BY <3>2, Zenon
            <4>2. x = b
                OBVIOUS
            <4> QED BY <4>1, <4>2, Zenon
        <3>3. ASSUME row \in B
              PROVE  \E s \in Universe[b] : row = ReleaseRow(<<b, s>>)
            BY <3>3, Zenon DEF Reserved
        <3> QED BY <3>1, <3>2, <3>3, Zenon
    <2>3. row \in Row
        <3>1. CASE row = ReserveRow(<<b, what[b]>>, using[b].most) /\ botAt[b] = "sized"
            BY <3>1, KeysFacts, RowsReserved DEF EntryOf, EntryPlaces
        <3>2. CASE \E s \in Universe[b] : row = ReleaseRow(<<b, s>>)
            BY <3>2, KeysFacts, RowsReleased
        <3> QED BY <2>2, <3>1, <3>2
    <2> QED BY <1>2, <2>1, <2>2, <2>3
<1> QED BY <1>1, <1>2

LEMMA KillInWriteShape ==
    ASSUME ShapeInv, NEW b \in Bots, KillInWrite(b) PROVE ShapeInv'
<1> USE ShapeParts
<1>1. Die(b) /\ damaged' = TRUE
    BY DEF KillInWrite
<1>2. PICK row \in Writing(b) : TornWrite(row)
    BY DEF KillInWrite
<1>3. PICK left \in PartOf(row) : poolLog' = Put(poolLog, unended, left)
    BY <1>2 DEF TornWrite
<1>4. left \in Line
    BY <1>3, WritingRows, RowFacts DEF PartOf
<1>5. poolLog' \in Seq(Line) /\ poolLog' # <<>> /\ unended' = TRUE
    BY <1>2, <1>3, <1>4, PutLines DEF TornWrite
<1>6. holder = b \/ holder = NoBot
    BY WritingRows
<1> QED BY <1>1, <1>5, <1>6, DieShape

LEMMA ShapeStep == ShapeInv /\ [BotsNext]_botsVars => ShapeInv'
<1> SUFFICES ASSUME ShapeInv, [BotsNext]_botsVars PROVE ShapeInv'
    OBVIOUS
<1>1. ASSUME NEW b \in Bots, NEW s \in Universe[b], CloseAndRelease(b, s) \/ Size(b, s)
      PROVE  ShapeInv'
    BY <1>1, CloseAndReleaseShape, SizeShape
<1>2. ASSUME NEW b \in Bots,
             \/ Recover(b) \/ SweepOrphans(b) \/ WriteUnderLock(b) \/ LeaveLock(b)
             \/ JournalClose(b) \/ ReserveMargin(b) \/ CapitalRefused(b)
             \/ GateRefuses(b) \/ OpenPosition(b) \/ KillBot(b) \/ KillInWrite(b)
      PROVE  ShapeInv'
    BY <1>2, RecoverShape, SweepShape, WriteUnderLockShape, LeaveLockShape, JournalCloseShape,
       ReserveMarginShape, CapitalRefusedShape, GateRefusesShape, OpenPositionShape, KillShape,
       KillInWriteShape
<1>3. CASE EditDeclaration \/ UNCHANGED botsVars
    <2>1. /\ UNCHANGED <<poolVars, memory, journal, damaged, kills>>
          /\ declared' \in Declarations
        BY <1>3, ShapeParts DEF EditDeclaration, botsVars
    <2>2. BotsTypeOK' /\ LockInv' /\ CompactInv' /\ EntryInv'
        BY <2>1, ShapeParts DEF ShapeInv, BotsTypeOK, PoolTypeOK, LockInv, CompactInv, Compacting,
           EntryInv, EntryOf, poolVars, memory
    <2> QED BY <2>2 DEF ShapeInv
<1> QED BY <1>1, <1>2, <1>3, Zenon DEF BotsNext

(* Every variable is always of its type: what the pool hands to a bot, and *)
(* a bot to its journal, is a declared margin of a key of its universe.    *)
THEOREM Typed == BotsSpec => []BotsTypeOK
<1>1. ShapeInv => BotsTypeOK
    BY DEF ShapeInv
<1> QED BY <1>1, ShapeInit, ShapeStep, PTL DEF BotsSpec

-----------------------------------------------------------------------------
(* The journal and the memory of a bot.                                    *)

LEMMA JournalInit == BotsInit => JournalIsMemory
BY DEF BotsInit, JournalIsMemory

LEMMA JournalStep == ShapeInv /\ JournalIsMemory /\ [BotsNext]_botsVars => JournalIsMemory'
<1> SUFFICES ASSUME ShapeInv, JournalIsMemory, [BotsNext]_botsVars PROVE JournalIsMemory'
    OBVIOUS
<1>1. /\ botAt \in [Bots -> BotPlaces] /\ what \in [Bots -> Symbols \union {NoSymbol}]
      /\ positions \in [Bots -> [Symbols -> 0 .. MaxUsdt]]
      /\ journal \in [Bots -> [Symbols -> 0 .. MaxUsdt]]
      /\ \A b \in Bots : EntryOf(b)
      /\ \A b \in Bots : Universe[b] \subseteq Symbols
    BY ShapeParts, UniverseAssumption
<1>2. ASSUME NEW b \in Bots, Recover(b) PROVE JournalIsMemory'
    BY <1>1, <1>2 DEF Recover, Goes, JournalIsMemory
<1>3. ASSUME NEW b \in Bots, JournalClose(b) PROVE JournalIsMemory'
    <2>1. what[b] \in Universe[b] /\ positions[b][what[b]] = 0 /\ botAt[b] = "released"
        BY <1>1, <1>3 DEF JournalClose, EntryOf
    <2>2. /\ \A s \in Symbols : journal'[b][s] = IF s = what[b] THEN 0 ELSE journal[b][s]
          /\ \A c \in Bots \ {b} : /\ journal'[c] = journal[c] /\ botAt'[c] = botAt[c]
                                   /\ what'[c] = what[c]
          /\ positions' = positions
        BY <1>1, <1>3, <2>1 DEF JournalClose, Goes
    <2>3. \A s \in Universe[b] : positions'[b][s] = journal'[b][s]
        BY <1>1, <2>1, <2>2 DEF JournalIsMemory
    <2> QED BY <2>2, <2>3 DEF JournalIsMemory
<1>4. ASSUME NEW b \in Bots, NEW s \in Universe[b], CloseAndRelease(b, s) PROVE JournalIsMemory'
    BY <1>1, <1>4 DEF CloseAndRelease, Goes, JournalIsMemory
<1>5. ASSUME NEW b \in Bots, NEW s \in Universe[b], Size(b, s) PROVE JournalIsMemory'
    BY <1>1, <1>5 DEF Size, Goes, JournalIsMemory
<1>6. ASSUME NEW b \in Bots, SweepOrphans(b) \/ LeaveLock(b) \/ ReserveMargin(b)
      PROVE  JournalIsMemory'
    <2>1. /\ botAt[b] # "down" /\ botAt[b] # "released" /\ positions' = positions /\ journal' = journal
          /\ what' = what /\ \A c \in Bots : c # b => botAt'[c] = botAt[c]
        BY <1>1, <1>6, ShapeParts DEF SweepOrphans, LeaveLock, ReserveMargin, Goes, LockInv, LockPlaces
    <2> QED BY <2>1 DEF JournalIsMemory
<1>7. ASSUME NEW b \in Bots, CapitalRefused(b) \/ GateRefuses(b) PROVE JournalIsMemory'
    BY <1>1, <1>7, SMTT(60) DEF CapitalRefused, GateRefuses, EntryEnds, Goes, JournalIsMemory
<1>8. ASSUME NEW b \in Bots, OpenPosition(b) PROVE JournalIsMemory'
    <2>1. what[b] \in Symbols /\ botAt[b] = "reserved"
        BY <1>1, <1>8 DEF OpenPosition, EntryOf, EntryPlaces
    <2>2. /\ \A s \in Symbols : s # what[b] => /\ journal'[b][s] = journal[b][s]
                                             /\ positions'[b][s] = positions[b][s]
          /\ journal'[b][what[b]] = using[b].most /\ positions'[b][what[b]] = using[b].most
          /\ \A c \in Bots \ {b} : /\ journal'[c] = journal[c] /\ botAt'[c] = botAt[c]
                                   /\ what'[c] = what[c] /\ positions'[c] = positions[c]
        BY <1>1, <1>8, <2>1 DEF OpenPosition, EntryEnds, Goes
    <2>3. \A s \in Universe[b] : positions'[b][s] = journal'[b][s]
        BY <1>1, <2>1, <2>2 DEF JournalIsMemory
    <2> QED BY <2>2, <2>3 DEF JournalIsMemory
<1>9. ASSUME NEW b \in Bots, KillBot(b) \/ KillInWrite(b) PROVE JournalIsMemory'
    <2>1. Die(b)
        BY <1>9 DEF KillBot, KillInWrite
    <2> QED BY <1>1, <2>1 DEF Die, Goes, JournalIsMemory
<1>10. ASSUME NEW b \in Bots, WriteUnderLock(b) PROVE JournalIsMemory'
    BY <1>10 DEF WriteUnderLock, memory, JournalIsMemory
<1>11. CASE EditDeclaration \/ UNCHANGED botsVars
    BY <1>11 DEF EditDeclaration, botsVars, memory, JournalIsMemory
<1> QED BY <1>2, <1>4, <1>5, <1>6, <1>7, <1>8, <1>9, <1>10, <1>11, <1>3, Zenon DEF BotsNext

(* A bot that restarts outside a close or an entry finds in its journal    *)
(* the positions it held, with the margin each was opened with.            *)
THEOREM JournalsAreMemories == BotsSpec => []JournalIsMemory
BY ShapeInit, ShapeStep, JournalInit, JournalStep, PTL DEF BotsSpec

-----------------------------------------------------------------------------
(* What a sweep still has to write releases margin of its own bot that no  *)
(* position of that bot needs.                                             *)

SweepRow(b, row) ==
    \E s \in Universe[b] : row = ReleaseRow(<<b, s>>) /\ positions[b][s] = 0

SweepOf(b) == \A i \in DOMAIN buffer : SweepRow(b, buffer[i])
SweepInv == \A b \in Bots : holder = b /\ botAt[b] = "reclaiming" => SweepOf(b)

LEMMA SweepInit == BotsInit => SweepInv
BY PoolAssumption DEF BotsInit, SweepInv

LEMMA SweepStarts ==
    ASSUME ShapeInv, NEW b \in Bots, StartReclaim(b, Open(b))
    PROVE  /\ \A i \in DOMAIN buffer' : SweepRow(b, buffer'[i])
           /\ \A s \in Universe[b] : Replay(poolLog)[<<b, s>>] > 0 =>
                 s \in Open(b) \/ \E i \in DOMAIN buffer' : buffer'[i].key = <<b, s>>
<1> DEFINE I == OrphanRows(b, Open(b))
           rows == InOrder(poolLog, I)
<1>1. poolLog \in Seq(Line)
    BY ShapeParts
<1>2. rows \in Seq(Row) /\ Lists(rows, poolLog, I)
    BY SweepRows, Zenon
<1>3. buffer' = [n \in DOMAIN rows |-> ReleaseRow(rows[n].key)]
    BY Zenon DEF StartReclaim
<1> HIDE DEF rows
<1>4. \A i \in I : /\ i \in LiveRows(poolLog) /\ poolLog[i].key[1] = b
                   /\ poolLog[i].key[2] \notin Open(b)
    BY DEF OrphanRows
<1>5. \A i \in I : poolLog[i].key \in Keys
    BY <1>1, <1>4, LiveLines
<1>6. ASSUME NEW n \in DOMAIN rows PROVE SweepRow(b, ReleaseRow(rows[n].key))
    <2>1. Nth(I, n) \in I /\ rows[n] = poolLog[Nth(I, n)]
        BY <1>2, Zenon DEF Lists
    <2>2. PICK s \in Universe[b] : rows[n].key = <<b, s>> /\ s \notin Open(b) /\ s \in Symbols
        BY <1>4, <1>5, <2>1, KeysFacts
    <2>3. positions[b][s] = 0
        BY <2>2, ShapeParts, RowFacts DEF Open
    <2> QED BY <2>2, <2>3 DEF SweepRow
<1>7. \A i \in DOMAIN buffer' : SweepRow(b, buffer'[i])
    BY <1>3, <1>6
<1>8. ASSUME NEW s \in Universe[b], Replay(poolLog)[<<b, s>>] > 0, s \notin Open(b)
      PROVE  \E i \in DOMAIN buffer' : buffer'[i].key = <<b, s>>
    <2>1. <<b, s>> \in LiveKeys(poolLog)
        BY <1>8, KeysFacts DEF LiveKeys
    <2>2. PICK i \in LiveRows(poolLog) : poolLog[i].key = <<b, s>>
        BY <1>1, <2>1, LiveLines
    <2>3. i \in I
        BY <1>8, <2>2 DEF OrphanRows
    <2>4. PICK n \in DOMAIN rows : Nth(I, n) = i
        BY <1>2, <2>3, Zenon DEF Lists
    <2>5. rows[n] = poolLog[Nth(I, n)]
        BY <1>2, Zenon DEF Lists
    <2>6. buffer'[n].key = <<b, s>> /\ n \in DOMAIN buffer'
        BY <1>3, <2>2, <2>4, <2>5 DEF ReleaseRow
    <2> QED BY <2>6
<1> QED BY <1>7, <1>8

LEMMA SweepStep == ShapeInv /\ SweepInv /\ [BotsNext]_botsVars => SweepInv'
<1> SUFFICES ASSUME ShapeInv, SweepInv, [BotsNext]_botsVars,
                    NEW c \in Bots, holder' = c, botAt'[c] = "reclaiming"
             PROVE  SweepOf(c)'
    BY DEF SweepInv
<1> USE ShapeParts
<1>1. ASSUME holder = c, botAt[c] = "reclaiming", positions'[c] = positions[c], buffer' = buffer
      PROVE  SweepOf(c)'
    <2>1. SweepOf(c)
        BY <1>1 DEF SweepInv
    <2>2. \A i \in DOMAIN buffer : SweepRow(c, buffer[i])
        BY <2>1 DEF SweepOf
    <2>3. \A i \in DOMAIN buffer : SweepRow(c, buffer[i])'
        BY <1>1, <2>2, Zenon DEF SweepRow
    <2> QED BY <1>1, <2>3, Zenon DEF SweepOf
<1>2. ASSUME NEW b \in Bots, SweepOrphans(b)
      PROVE  SweepOf(c)'
    <2>1. b = c /\ positions' = positions /\ StartReclaim(b, Open(b))
        BY <1>2 DEF SweepOrphans, StartReclaim
    <2>2. \A i \in DOMAIN buffer' : SweepRow(c, buffer'[i])
        BY <2>1, SweepStarts
    <2>3. \A i \in DOMAIN buffer' : SweepRow(c, buffer[i])'
        BY <2>1, <2>2, Zenon DEF SweepRow
    <2> QED BY <2>3, Zenon DEF SweepOf
<1>3. ASSUME NEW b \in Bots, WriteUnderLock(b)
      PROVE  SweepOf(c)'
    <2>1. /\ buffer # <<>> /\ buffer' = Tail(buffer) /\ holder = c /\ botAt[c] = "reclaiming"
          /\ positions' = positions
        BY <1>3 DEF WriteUnderLock, WriteNext, memory
    <2>2. /\ Len(buffer) \in Nat /\ DOMAIN buffer = 1 .. Len(buffer)
          /\ buffer' \in Seq(Row) /\ Len(buffer') = Len(buffer) - 1
          /\ \A i \in 1 .. Len(buffer') : buffer'[i] = buffer[i + 1]
        BY <2>1, HeadTailProperties, LenProperties
    <2>3. \A i \in DOMAIN buffer' : i + 1 \in DOMAIN buffer /\ buffer'[i] = buffer[i + 1]
        <3>1. DOMAIN buffer' = 1 .. Len(buffer')
            BY <2>2, LenProperties
        <3>2. \A i \in 1 .. Len(buffer') : i + 1 \in 1 .. Len(buffer)
            BY <2>2
        <3> QED BY <2>2, <3>1, <3>2
    <2>4. \A i \in DOMAIN buffer : SweepRow(c, buffer[i])
        BY <2>1 DEF SweepInv, SweepOf
    <2>5. \A i \in DOMAIN buffer' : SweepRow(c, buffer'[i])
        BY <2>3, <2>4
    <2>6. \A row : SweepRow(c, row) => SweepRow(c, row)'
        BY <2>1, Zenon DEF SweepRow
    <2>7. ASSUME NEW i \in DOMAIN buffer'
          PROVE  \E s \in Universe[c] : buffer'[i] = ReleaseRow(<<c, s>>) /\ positions'[c][s] = 0
        <3>1. PICK row : row = buffer'[i]
            OBVIOUS
        <3> QED BY <2>5, <2>6, <3>1 DEF SweepRow
    <2> QED BY <2>7, Zenon DEF SweepOf, SweepRow
<1>4. ASSUME NEW b \in Bots, LeaveLock(b) \/ ReserveMargin(b) PROVE FALSE
    <2>1. CASE LeaveLock(b)
        BY <2>1 DEF LeaveLock, GiveUpLock
    <2>2. CASE ReserveMargin(b)
        BY <2>2, Grants DEF Goes
    <2> QED BY <1>4, <2>1, <2>2
<1>5. ASSUME NEW b \in Bots, NEW s \in Universe[b], CloseAndRelease(b, s)
      PROVE  FALSE
    BY <1>5 DEF CloseAndRelease, LockIsFree, Release, poolVars
<1>6. ASSUME NEW b \in Bots, \/ Recover(b) \/ JournalClose(b) \/ CapitalRefused(b)
                             \/ GateRefuses(b) \/ OpenPosition(b)
      PROVE  SweepOf(c)'
    <2>1. holder = c /\ buffer' = buffer
        BY <1>6 DEF Recover, JournalClose, CapitalRefused, GateRefuses, OpenPosition, EntryEnds, poolVars
    <2>2. botAt[b] \notin LockPlaces /\ c # b
        BY <1>6, <2>1 DEF Recover, JournalClose, CapitalRefused, GateRefuses, OpenPosition,
           LockInv, LockPlaces
    <2>3. botAt[c] = "reclaiming" /\ positions'[c] = positions[c]
        BY <1>6, <2>2 DEF Recover, JournalClose, CapitalRefused, GateRefuses, OpenPosition,
           EntryEnds, Goes
    <2> QED BY <1>1, <2>1, <2>3
<1>7. ASSUME NEW b \in Bots, NEW s \in Universe[b], Size(b, s)
      PROVE  SweepOf(c)'
    BY <1>1, <1>7 DEF Size, Goes, poolVars
<1>8. ASSUME NEW b \in Bots, KillBot(b) \/ KillInWrite(b)
      PROVE  SweepOf(c)'
    BY <1>1, <1>8 DEF KillBot, KillInWrite, Die, DieInLock, Goes
<1>9. CASE EditDeclaration \/ UNCHANGED botsVars
    BY <1>1, <1>9 DEF EditDeclaration, botsVars, memory, poolVars
<1> QED BY <1>2, <1>3, <1>4, <1>5, <1>6, <1>7, <1>8, <1>9, Zenon DEF BotsNext

-----------------------------------------------------------------------------
(* What each step does to the margin that is reserved.                     *)

LEMMA ReservationsAre ==
    ASSUME ShapeInv
    PROVE  /\ Reservations \in Margins
           /\ ~Compacting => Reservations = Replay(poolLog)
           /\ Compacting => /\ Reservations = Replay(poolLog \o buffer)
                            /\ poolLog \o buffer \in Seq(Row)
                            /\ AtMost(Replay(poolLog), Reservations)
           /\ Replay(poolLog) \in Margins
<1> USE ShapeParts
<1>1. CASE Compacting
    <2>1. poolLog \in Seq(Row) /\ buffer \in Seq(Row) /\ Simple(poolLog \o buffer)
        BY <1>1 DEF CompactInv
    <2>2. poolLog \o buffer \in Seq(Row) /\ AtMost(Replay(poolLog), Replay(poolLog \o buffer))
        BY <2>1, PartReservesLess
    <2>3. Reservations = Replay(poolLog \o buffer)
        BY <1>1 DEF Reservations, Compacting
    <2>4. poolLog \o buffer \in Seq(Line)
        BY <2>2, SeqOfRows
    <2> QED BY <1>1, <2>2, <2>3, <2>4, ReplayType
<1>2. CASE ~Compacting
    <2>1. Reservations = Replay(poolLog)
        BY <1>2 DEF Reservations, Compacting
    <2> QED BY <1>2, <2>1, ReplayType
<1> QED BY <1>1, <1>2

LEMMA NextReservationsAre ==
    ASSUME ShapeInv'
    PROVE  Reservations' \in Margins
<1>1. /\ poolLog' \in Seq(Line) /\ buffer' \in Seq(Row)
      /\ Compacting' => poolLog' \in Seq(Row) /\ Simple(poolLog' \o buffer')
    BY Zenon DEF ShapeInv, BotsTypeOK, PoolTypeOK, CompactInv, Line
<1>2. CASE Compacting'
    <2>1. poolLog' \o buffer' \in Seq(Row)
        BY <1>1, <1>2, PartReservesLess
    <2>2. Reservations' = Replay(poolLog' \o buffer') /\ poolLog' \o buffer' \in Seq(Line)
        BY <1>2, <2>1, SeqOfRows DEF Reservations, Compacting
    <2> QED BY <2>2, ReplayType
<1>3. CASE ~Compacting'
    <2>1. Reservations' = Replay(poolLog')
        BY <1>3 DEF Reservations, Compacting
    <2> QED BY <1>1, <2>1, ReplayType
<1> QED BY <1>2, <1>3

LEMMA OutsideKeeps ==
    ASSUME ShapeInv, NEW b \in Bots, NEW place \in BotPlaces, UNCHANGED poolVars,
           botAt[b] \notin LockPlaces, place \notin LockPlaces, Goes(b, place)
    PROVE  Reservations' = Reservations
<1>1. /\ botAt \in [Bots -> BotPlaces] /\ holder # b /\ holder \in Bots \union {NoBot}
      /\ poolLog' = poolLog /\ holder' = holder /\ buffer' = buffer
      /\ botAt' = [botAt EXCEPT ![b] = place]
    BY ShapeParts DEF LockInv, poolVars, Goes
<1>2. holder # NoBot => botAt'[holder] = botAt[holder]
    BY <1>1
<1> QED BY <1>1, <1>2, Zenon DEF Reservations

LEMMA SweepKeeps ==
    ASSUME ShapeInv, NEW b \in Bots, SweepOrphans(b)
    PROVE  Reservations' = Reservations /\ Reservations = Replay(poolLog)
<1>1. poolLog' = poolLog /\ holder' = b /\ holder = NoBot /\ botAt'[b] = "reclaiming"
    BY ShapeParts DEF SweepOrphans, StartReclaim, LockIsFree, Goes
<1>2. Reservations = Replay(poolLog) /\ Reservations' = Replay(poolLog')
    BY <1>1 DEF Reservations
<1> QED BY <1>1, <1>2

LEMMA LeaveKeeps ==
    ASSUME ShapeInv, NEW b \in Bots, LeaveLock(b)
    PROVE  Reservations' = Reservations
<1>1. poolLog' = poolLog /\ holder' = NoBot /\ holder = b /\ buffer = <<>> /\ poolLog \in Seq(Line)
    BY ShapeParts DEF LeaveLock, GiveUpLock
<1>2. poolLog \o buffer = poolLog
    BY <1>1, ConcatEmptySeq
<1>3. Reservations' = Replay(poolLog') /\ Reservations = Replay(poolLog)
    BY <1>1, <1>2 DEF Reservations
<1> QED BY <1>1, <1>3

Frees(k) == Reservations' = [Reservations EXCEPT ![k] = 0]

(* A write to a file whose last line is unended loses that line and its    *)
(* own.                                                                    *)
LosesTheTail == unended /\ ~unended' /\ Reservations' = Replay(Glue(poolLog))

LEMMA CloseFrees ==
    ASSUME ShapeInv, NEW b \in Bots, NEW s \in Universe[b], CloseAndRelease(b, s)
    PROVE  /\ Frees(<<b, s>>) \/ LosesTheTail
           /\ unended' => unended /\ poolLog' = poolLog
           /\ ~unended => Frees(<<b, s>>)
<1> DEFINE k == <<b, s>>
<1>1. k \in Keys /\ holder = NoBot /\ holder' = NoBot
    BY KeysFacts DEF CloseAndRelease, LockIsFree, Release, poolVars
<1>2. Reservations = Replay(poolLog) /\ Reservations' = Replay(poolLog')
    BY <1>1 DEF Reservations
<1>3. ReleaseRow(k) \in Row /\ ReleaseRow(k).key = k /\ ReleaseRow(k).margin = 0
    BY <1>1, RowsReleased DEF ReleaseRow
<1>4. Replay(poolLog) \in Margins /\ PoolTypeOK /\ poolLog \in Seq(Line) /\ unended \in BOOLEAN
    BY ReservationsAre, ShapeParts DEF PoolTypeOK
<1> HIDE DEF k
<1>5. CASE k \in LiveKeys(poolLog)
    <2>1. poolLog' = Put(poolLog, unended, ReleaseRow(k)) /\ unended' = FALSE
        BY <1>5, Zenon DEF CloseAndRelease, Release, Write, k
    <2>2. CASE unended
        <3>1. poolLog' = Glue(poolLog)
            BY <1>3, <1>4, <2>1, <2>2, PutLines, RowFacts
        <3> QED BY <1>2, <2>1, <2>2, <3>1 DEF LosesTheTail
    <2>3. CASE ~unended
        <3>1. poolLog' = Append(poolLog, ReleaseRow(k))
            BY <1>3, <1>4, <2>1, <2>3, PutLines, RowFacts
        <3>2. Replay(poolLog') = [Replay(poolLog) EXCEPT ![k] = 0]
            BY <1>3, <1>4, <3>1, ReplayAppend
        <3>3. Frees(k)
            BY <1>2, <3>2, Zenon DEF Frees
        <3> QED BY <2>1, <2>3, <3>3 DEF k
    <2> QED BY <1>4, <2>2, <2>3
<1>6. CASE k \notin LiveKeys(poolLog)
    <2>1. poolLog' = poolLog /\ unended' = unended
        BY <1>6 DEF CloseAndRelease, Release, poolVars, k
    <2>2. Replay(poolLog)[k] = 0
        <3>1. Replay(poolLog)[k] \in 0 .. MaxUsdt /\ ~(Replay(poolLog)[k] > 0)
            BY <1>1, <1>4, <1>6 DEF LiveKeys, Margins
        <3> QED BY <3>1, RowFacts
    <2>3. [Replay(poolLog) EXCEPT ![k] = 0] = Replay(poolLog)
        BY <1>4, <2>2 DEF Margins
    <2>4. Frees(k)
        BY <1>2, <2>1, <2>3 DEF Frees
    <2> QED BY <2>1, <2>4, Zenon DEF k
<1> QED BY <1>5, <1>6

LEMMA WriteFrees ==
    ASSUME ShapeInv, SweepInv, NEW b \in Bots, WriteUnderLock(b)
    PROVE  /\ unended' = FALSE
           /\ \/ Compacting /\ Reservations' = Reservations
              \/ LosesTheTail
              \/ /\ botAt[b] = "reclaiming" /\ holder = b /\ Reservations = Replay(poolLog) /\ ~unended
                 /\ Reservations' = Replay(poolLog')
                 /\ \E s \in Universe[b] : /\ positions[b][s] = 0 /\ Frees(<<b, s>>)
                                           /\ Head(buffer) = ReleaseRow(<<b, s>>)
<1> USE ShapeParts
<1>1. /\ holder = b /\ holder' = b /\ botAt' = botAt /\ WriteNext /\ unended' = FALSE /\ buffer # <<>>
      /\ poolLog' = Put(poolLog, unended, Head(buffer)) /\ buffer' = Tail(buffer)
    BY DEF WriteUnderLock, WriteNext, Write, memory
<1>2. CASE Compacting
    <2>1. poolLog' \o buffer' = poolLog \o buffer
        BY <1>1, <1>2, WriteNextShape
    <2> QED BY <1>1, <1>2, <2>1 DEF Reservations, Compacting
<1>3. CASE ~Compacting
    <2>1. botAt[b] = "reclaiming" /\ Reservations = Replay(poolLog) /\ Reservations' = Replay(poolLog')
        BY <1>1, <1>3 DEF LockInv, LockPlaces, Compacting, Reservations
    <2>2. Head(buffer) = buffer[1] /\ 1 \in DOMAIN buffer
        <3>1. Len(buffer) \in Nat /\ Len(buffer) # 0 /\ DOMAIN buffer = 1 .. Len(buffer)
            BY <1>1, EmptySeq, LenProperties
        <3> QED BY <1>1, <3>1, HeadTailProperties
    <2>3. PICK s \in Universe[b] : Head(buffer) = ReleaseRow(<<b, s>>) /\ positions[b][s] = 0
        <3>1. SweepOf(b)
            BY <1>1, <2>1 DEF SweepInv
        <3>2. SweepRow(b, buffer[1])
            BY <2>2, <3>1, Zenon DEF SweepOf
        <3> QED BY <2>2, <3>2, Zenon DEF SweepRow
    <2>4. <<b, s>> \in Keys
        BY KeysFacts
    <2>5. /\ Head(buffer) \in Row /\ Head(buffer) \in Line
          /\ Head(buffer).key = <<b, s>> /\ Head(buffer).margin = 0
        <3>1. /\ ReleaseRow(<<b, s>>) \in Row /\ ReleaseRow(<<b, s>>) \in Line
              /\ ReleaseRow(<<b, s>>).key = <<b, s>> /\ ReleaseRow(<<b, s>>).margin = 0
            BY <2>4, RowsReleased, RowFacts DEF ReleaseRow
        <3> QED BY <2>3, <3>1, Zenon
    <2>6. CASE unended
        <3>1. poolLog' = Glue(poolLog)
            BY <1>1, <2>5, <2>6, PutLines
        <3> QED BY <1>1, <2>1, <2>6, <3>1 DEF LosesTheTail
    <2>7. CASE ~unended
        <3>1. poolLog' = Append(poolLog, Head(buffer))
            BY <1>1, <2>5, <2>7, PutLines
        <3>2. Replay(poolLog') = [Replay(poolLog) EXCEPT ![<<b, s>>] = 0]
            BY <2>5, <3>1, ReplayAppend
        <3>3. Frees(<<b, s>>)
            BY <2>1, <3>2, Zenon DEF Frees
        <3> QED BY <1>1, <2>1, <2>3, <2>7, <3>3
    <2> QED BY <2>6, <2>7
<1> QED BY <1>2, <1>3

(* A grant fits the declaration it was sized by together with all that is  *)
(* reserved.                                                               *)
GrantFits(k, d) ==
    /\ Reservations[k] = 0
    /\ Held(Reservations) + d.most <= d.portfolio
    /\ HeldBy(Reservations, k[1]) + d.most <= d.cap

LEMMA NoRefusal ==
    ASSUME ShapeInv, NEW b \in Bots, holder = NoBot, botAt[b] = "sized",
           ~Refusal(b, what[b], using[b])
    PROVE  /\ <<b, what[b]>> \in Keys /\ using[b] \in Declarations
           /\ Reservations = Replay(poolLog) /\ GrantFits(<<b, what[b]>>, using[b])
<1> DEFINE k == <<b, what[b]>>
<1>1. k \in Keys /\ using[b] \in Declarations
    BY ShapeParts, KeysFacts DEF EntryOf, EntryPlaces
<1>2. Reservations = Replay(poolLog) /\ Reservations \in Margins
    BY ReservationsAre DEF Compacting
<1>3. /\ ~(Reservations[k] > 0)
      /\ ~(Held(Reservations) + using[b].most > using[b].portfolio)
      /\ ~(HeldBy(Reservations, b) + using[b].most > using[b].cap)
    BY <1>2, Zenon DEF Refusal
<1>4. /\ Held(Reservations) \in Nat /\ HeldBy(Reservations, b) \in Nat
      /\ using[b].most \in Nat /\ using[b].portfolio \in Nat /\ using[b].cap \in Nat
    BY <1>1, UnitsAreFinite, DeclarationFacts
<1>5. Reservations[k] \in 0 .. MaxUsdt
    BY <1>1, <1>2 DEF Margins
<1>6. Reservations[k] = 0
    BY <1>3, <1>5, RowFacts
<1>7. k[1] = b
    OBVIOUS
<1> HIDE DEF k
<1>8. GrantFits(k, using[b])
    BY <1>3, <1>4, <1>6, <1>7 DEF GrantFits
<1> QED BY <1>1, <1>2, <1>8 DEF k

LEMMA ReserveGrants ==
    ASSUME ShapeInv, NEW b \in Bots, ReserveMargin(b)
    PROVE  /\ <<b, what[b]>> \in Keys /\ using[b] \in Declarations
           /\ GrantFits(<<b, what[b]>>, using[b]) /\ unended' = FALSE
           /\ LosesTheTail \/ (~unended /\ Reservations' =
                   [Reservations EXCEPT ![<<b, what[b]>>] = using[b].most])
<1> DEFINE k == <<b, what[b]>>
           row == ReserveRow(k, using[b].most)
<1>1. /\ k \in Keys /\ using[b] \in Declarations /\ GrantFits(k, using[b])
      /\ Reservations = Replay(poolLog)
    BY NoRefusal DEF ReserveMargin, LockIsFree
<1>2. /\ row \in Row /\ row.key = k /\ row.margin = using[b].most
      /\ Granted(b) \in Seq(Line) /\ unended' = FALSE /\ Granted(b) = Put(poolLog, unended, row)
    BY Grants DEF ReserveRow, Granted
<1>3. PoolTypeOK /\ poolLog \in Seq(Line) /\ unended \in BOOLEAN
    BY ShapeParts DEF PoolTypeOK
<1> HIDE DEF k, row
<1>4. Reservations' = Replay(Granted(b))
    <2>1. CASE poolLog' = <<>> /\ holder' = b /\ buffer' = Compacted(Granted(b)) /\ Goes(b, "compacting")
        <3>1. Compacted(Granted(b)) \in Seq(Row) /\ Replay(Compacted(Granted(b))) = Replay(Granted(b))
            BY <1>2, CompactedReads
        <3>2. poolLog' \o buffer' = Compacted(Granted(b))
            BY <2>1, <3>1, ConcatEmptySeq
        <3>3. holder' # NoBot /\ botAt'[holder'] = "compacting"
            BY <2>1, ShapeParts DEF Goes
        <3> QED BY <3>1, <3>2, <3>3 DEF Reservations
    <2>2. CASE poolLog' = Granted(b) /\ holder' = NoBot
        BY <2>2 DEF Reservations
    <2> QED BY <2>1, <2>2, Grants
<1>5. CASE unended
    <2>1. Granted(b) = Glue(poolLog)
        BY <1>2, <1>3, <1>5, PutLines, RowFacts
    <2> QED BY <1>1, <1>2, <1>4, <1>5, <2>1 DEF LosesTheTail, k
<1>6. CASE ~unended
    <2>1. Granted(b) = Append(poolLog, row)
        BY <1>2, <1>3, <1>6, PutLines, RowFacts
    <2>2. Replay(Granted(b)) = [Replay(poolLog) EXCEPT ![k] = using[b].most]
        BY <1>2, <1>3, <2>1, ReplayAppend
    <2>3. Reservations' = [Reservations EXCEPT ![k] = using[b].most]
        BY <1>1, <1>4, <2>2
    <2> QED BY <1>1, <1>2, <1>6, <2>3 DEF k
<1> QED BY <1>5, <1>6

(* A bot that dies takes nothing with it but what a compaction had still   *)
(* to write.                                                               *)
LEMMA KillKeeps ==
    ASSUME ShapeInv, NEW b \in Bots, KillBot(b)
    PROVE  /\ poolLog' = poolLog /\ unended' = unended
           /\ AtMost(Reservations', Reservations)
           /\ damaged' \/ (Reservations' = Reservations /\ ~damaged)
<1> USE ShapeParts
<1>1. /\ poolLog' = poolLog /\ unended' = unended /\ Die(b)
      /\ damaged' <=> (damaged \/ MidCompaction(b))
    BY DEF KillBot
<1>2. /\ holder' = IF holder = b THEN NoBot ELSE holder
      /\ buffer' = IF holder = b THEN <<>> ELSE buffer
      /\ botAt' = [botAt EXCEPT ![b] = "down"]
    BY <1>1 DEF Die, DieInLock, Goes
<1>3. \A k \in Keys : Reservations[k] \in Nat
    BY ReservationsAre, RowFacts DEF Margins
<1>4. CASE holder = b /\ botAt[b] = "compacting"
    <2>1. Compacting /\ Reservations = Replay(poolLog \o buffer) /\ AtMost(Replay(poolLog), Reservations)
        BY <1>4, ReservationsAre DEF Compacting
    <2>2. Reservations' = Replay(poolLog)
        BY <1>1, <1>2, <1>4 DEF Reservations
    <2>3. CASE buffer = <<>>
        <3>1. poolLog \o buffer = poolLog
            BY <2>3, ConcatEmptySeq
        <3>2. ~MidCompaction(b)
            BY <2>3 DEF MidCompaction
        <3> QED BY <1>1, <2>1, <2>2, <3>1, <3>2
    <2>4. CASE buffer # <<>>
        BY <1>1, <1>4, <2>1, <2>2, <2>4 DEF MidCompaction
    <2> QED BY <2>3, <2>4
<1>5. CASE ~(holder = b /\ botAt[b] = "compacting")
    <2>1. ~MidCompaction(b)
        BY <1>5 DEF MidCompaction, LockInv, LockPlaces
    <2>2. Reservations' = Reservations
        <3>1. CASE holder = b
            BY <1>1, <1>2, <1>5, <3>1 DEF Reservations
        <3>2. CASE holder # b
            <4>1. holder' = holder /\ buffer' = buffer /\ (holder # NoBot => botAt'[holder] = botAt[holder])
                BY <1>2, <3>2
            <4> QED BY <1>1, <4>1, Zenon DEF Reservations
        <3> QED BY <3>1, <3>2
    <2>3. AtMost(Reservations', Reservations)
        BY <1>3, <2>2 DEF AtMost
    <2> QED BY <1>1, <2>1, <2>2, <2>3
<1> QED BY <1>4, <1>5

-----------------------------------------------------------------------------
(* What is reserved fits a declaration: also what is left of it when the   *)
(* next row is glued to an unended one.                                    *)

FitsInv == Fits(Reservations) /\ (unended => Fits(Replay(Glue(poolLog))))

LEMMA FitsFreed ==
    ASSUME NEW r \in Margins, Fits(r), NEW k \in Keys
    PROVE  Fits([r EXCEPT ![k] = 0])
<1>1. [r EXCEPT ![k] = 0] \in Margins /\ AtMost([r EXCEPT ![k] = 0], r)
    BY RowFacts DEF Margins, AtMost
<1> QED BY <1>1, FitsLess

LEMMA FitsPart ==
    ASSUME ShapeInv, Fits(Reservations)
    PROVE  Fits(Replay(poolLog))
<1>1. CASE Compacting
    BY <1>1, ReservationsAre, FitsLess
<1>2. CASE ~Compacting
    BY <1>2, ReservationsAre
<1> QED BY <1>1, <1>2

LEMMA FitsInit == BotsInit => FitsInv
<1> SUFFICES ASSUME BotsInit PROVE FitsInv
    OBVIOUS
<1>1. Reservations = Replay(<<>>)
    BY DEF BotsInit, Reservations
<1>2. \A k \in Keys : Replay(<<>>)[k] = 0
    <2>1. \A k \in Keys : About(<<>>, k) = {}
        BY DEF About
    <2> QED BY <2>1, EmptySeq, ReplayReads
<1>3. Units(Replay(<<>>)) = {}
    <2> SUFFICES ASSUME NEW u \in Units(Replay(<<>>)) PROVE FALSE
        OBVIOUS
    <2>1. u[1] \in Keys /\ u[2] \in Amounts /\ u[2] <= Replay(<<>>)[u[1]]
        BY DEF Units
    <2> QED BY <1>2, <2>1, RowFacts DEF Amounts
<1>4. \A b : UnitsOf(Replay(<<>>), b) = {}
    BY <1>3 DEF UnitsOf
<1> QED BY <1>1, <1>3, <1>4 DEF Fits, FitsInv, BotsInit

(* What a kill inside the write of a row leaves to be read, now and once   *)
(* the next row is glued to it.                                            *)
LEMMA TornFits ==
    ASSUME NEW l \in Seq(Line), Fits(Replay(l)), NEW u \in BOOLEAN, NEW row \in Row,
           u => l # <<>> /\ Fits(Replay(Glue(l))),
           ~u => Fits(Replay(Append(l, row))), NEW left \in PartOf(row)
    PROVE  Fits(Replay(Put(l, u, left))) /\ Fits(Replay(Glue(Put(l, u, left))))
<1>1. left = Torn \/ left = row
    BY DEF PartOf
<1>2. left \in Line
    BY <1>1, RowFacts
<1>3. CASE u
    <2>1. Put(l, u, left) = Glue(l) /\ Glue(Glue(l)) = Glue(l)
        BY <1>2, <1>3, GlueIs, Zenon DEF Put, Glue
    <2> QED BY <1>3, <2>1
<1>4. CASE ~u
    <2>1. Put(l, u, left) = Append(l, left)
        BY <1>4 DEF Put
    <2>2. Glue(Append(l, left)) = Append(l, Torn) /\ Replay(Append(l, Torn)) = Replay(l)
        BY <1>2, GlueIs, ReplayTorn, Zenon
    <2>3. Fits(Replay(Append(l, left)))
        BY <1>1, <1>4, <2>2, Zenon
    <2> QED BY <2>1, <2>2, <2>3
<1> QED BY <1>3, <1>4

LEMMA KillInWriteFits ==
    ASSUME ShapeInv, SweepInv, FitsInv, NEW b \in Bots, KillInWrite(b)
    PROVE  FitsInv'
<1> USE ShapeParts
<1>1. PICK row \in Writing(b) : TornWrite(row)
    BY DEF KillInWrite
<1>2. PICK left \in PartOf(row) : poolLog' = Put(poolLog, unended, left)
    BY <1>1 DEF TornWrite
<1>3. row \in Row /\ poolLog \in Seq(Line) /\ unended \in BOOLEAN /\ (unended => poolLog # <<>>)
    BY WritingRows DEF PoolTypeOK
<1>4. holder' = NoBot
    BY WritingRows DEF KillInWrite, Die, DieInLock
<1>5. Reservations' = Replay(poolLog')
    BY <1>4 DEF Reservations
<1>6. Fits(Replay(poolLog)) /\ Replay(poolLog) \in Margins
    BY FitsPart, ReservationsAre DEF FitsInv
<1>7. ASSUME ~unended PROVE Fits(Replay(Append(poolLog, row)))
    <2>1. Replay(Append(poolLog, row)) = [Replay(poolLog) EXCEPT ![row.key] = row.margin]
        BY <1>3, ReplayAppend
    <2>2. CASE Compacting
        <3>1. holder = b /\ buffer # <<>> /\ row = Head(buffer)
            BY <2>2, WritingRows DEF Compacting
        <3>2. poolLog \in Seq(Row) /\ Simple(poolLog \o buffer) /\ Reservations = Replay(poolLog \o buffer)
            BY <2>2, ReservationsAre DEF CompactInv
        <3>3. /\ Append(poolLog, row) \in Seq(Row) /\ Tail(buffer) \in Seq(Row)
              /\ Append(poolLog, row) \o Tail(buffer) = poolLog \o buffer
            BY <3>1, <3>2, RowMoves, SMTT(60)
        <3>4. AtMost(Replay(Append(poolLog, row)), Reservations)
            BY <3>2, <3>3, PartReservesLess
        <3>5. Replay(Append(poolLog, row)) \in Margins /\ Reservations \in Margins
            BY <3>3, SeqOfRows, ReplayType, ReservationsAre
        <3> QED BY <3>4, <3>5, FitsLess DEF FitsInv
    <2>3. ASSUME NEW k \in Keys, row = ReleaseRow(k) PROVE Fits(Replay(Append(poolLog, row)))
        <3>1. row.key = k /\ row.margin = 0
            BY <2>3 DEF ReleaseRow
        <3>2. Fits([Replay(poolLog) EXCEPT ![k] = 0])
            BY <1>6, FitsFreed
        <3> QED BY <2>1, <3>1, <3>2
    <2>4. CASE holder = b /\ ~Compacting
        <3>1. botAt[b] = "reclaiming" /\ SweepOf(b) /\ buffer # <<>> /\ row = Head(buffer)
            BY <2>4, WritingRows DEF LockInv, LockPlaces, Compacting, SweepInv
        <3>2. row = buffer[1] /\ 1 \in DOMAIN buffer
            <4>1. Len(buffer) \in Nat /\ Len(buffer) # 0 /\ DOMAIN buffer = 1 .. Len(buffer)
                BY <3>1, EmptySeq, LenProperties
            <4> QED BY <3>1, <4>1, HeadTailProperties
        <3>3. SweepRow(b, buffer[1])
            BY <3>1, <3>2, Zenon DEF SweepOf
        <3>4. PICK s \in Universe[b] : row = ReleaseRow(<<b, s>>)
            BY <3>2, <3>3, Zenon DEF SweepRow
        <3> QED BY <2>3, <3>4, KeysFacts
    <2>5. CASE holder = NoBot
        <3>1. CASE \E s \in Universe[b] : row = ReleaseRow(<<b, s>>)
            BY <2>3, <3>1, KeysFacts
        <3>2. CASE /\ row = ReserveRow(<<b, what[b]>>, using[b].most) /\ botAt[b] = "sized"
                   /\ ~Refusal(b, what[b], using[b])
            <4>1. /\ <<b, what[b]>> \in Keys /\ using[b] \in Declarations
                  /\ Reservations = Replay(poolLog) /\ GrantFits(<<b, what[b]>>, using[b])
                BY <2>5, <3>2, NoRefusal
            <4>2. row.key = <<b, what[b]>> /\ row.margin = using[b].most
                BY <3>2 DEF ReserveRow
            <4>3. Fits([Replay(poolLog) EXCEPT ![<<b, what[b]>>] = using[b].most])
                BY <1>6, <4>1, FitsGrant DEF GrantFits
            <4> QED BY <2>1, <4>2, <4>3
        <3> QED BY <2>5, <3>1, <3>2, WritingRows
    <2> QED BY <2>2, <2>4, <2>5, WritingRows
<1>8. unended => poolLog # <<>> /\ Fits(Replay(Glue(poolLog)))
    BY <1>3 DEF FitsInv
<1>9. Fits(Replay(poolLog')) /\ Fits(Replay(Glue(poolLog')))
    BY <1>2, <1>3, <1>6, <1>7, <1>8, TornFits
<1> QED BY <1>5, <1>9 DEF FitsInv

LEMMA FitsStep == ShapeInv /\ SweepInv /\ FitsInv /\ [BotsNext]_botsVars => FitsInv'
<1> SUFFICES ASSUME ShapeInv, SweepInv, FitsInv, [BotsNext]_botsVars PROVE FitsInv'
    OBVIOUS
<1>1. Reservations \in Margins /\ Fits(Reservations)
    BY ReservationsAre DEF FitsInv
<1>2. ASSUME Reservations' = Reservations, poolLog' = poolLog, unended' = unended PROVE FitsInv'
    BY <1>2 DEF FitsInv, Glue
<1>3. ASSUME LosesTheTail PROVE FitsInv'
    BY <1>3 DEF FitsInv, LosesTheTail
<1>4. ASSUME NEW k \in Keys, Frees(k) PROVE Fits(Reservations')
    BY <1>1, <1>4, FitsFreed DEF Frees
<1>5. ASSUME NEW b \in Bots, \/ Recover(b) \/ JournalClose(b) \/ CapitalRefused(b)
                             \/ GateRefuses(b) \/ OpenPosition(b)
      PROVE  FitsInv'
    <2>1. PICK place \in BotPlaces : /\ UNCHANGED poolVars /\ place \notin LockPlaces /\ Goes(b, place)
                                     /\ botAt[b] \notin LockPlaces
        BY <1>5 DEF Recover, JournalClose, CapitalRefused, GateRefuses, OpenPosition, EntryEnds,
           LockPlaces, BotPlaces
    <2> QED BY <1>2, <2>1, OutsideKeeps DEF poolVars
<1>6. ASSUME NEW b \in Bots, NEW s \in Universe[b], Size(b, s) PROVE FitsInv'
    <2>1. /\ UNCHANGED poolVars /\ "sized" \in BotPlaces \ LockPlaces /\ Goes(b, "sized")
          /\ botAt[b] \notin LockPlaces
        BY <1>6 DEF Size, LockPlaces, BotPlaces
    <2> QED BY <1>2, <2>1, OutsideKeeps DEF poolVars
<1>7. ASSUME NEW b \in Bots, SweepOrphans(b) \/ LeaveLock(b) PROVE FitsInv'
    <2>1. poolLog' = poolLog /\ unended' = unended
        BY <1>7 DEF SweepOrphans, StartReclaim, LeaveLock, GiveUpLock
    <2> QED BY <1>2, <1>7, <2>1, SweepKeeps, LeaveKeeps
<1>8. ASSUME NEW b \in Bots, NEW s \in Universe[b], CloseAndRelease(b, s) PROVE FitsInv'
    <2>1. <<b, s>> \in Keys
        BY KeysFacts
    <2>2. CASE LosesTheTail
        BY <1>3, <2>2
    <2>3. CASE Frees(<<b, s>>)
        <3>1. Fits(Reservations')
            BY <1>4, <2>1, <2>3
        <3>2. unended' => unended /\ poolLog' = poolLog
            BY <1>8, CloseFrees
        <3> QED BY <3>1, <3>2 DEF FitsInv, Glue
    <2> QED BY <1>8, <2>2, <2>3, CloseFrees
<1>9. ASSUME NEW b \in Bots, WriteUnderLock(b) PROVE FitsInv'
    <2>1. unended' = FALSE
        BY <1>9, WriteFrees
    <2>2. CASE Reservations' = Reservations
        BY <1>1, <2>1, <2>2 DEF FitsInv
    <2>3. CASE LosesTheTail
        BY <1>3, <2>3
    <2>4. CASE \E s \in Universe[b] : Frees(<<b, s>>)
        BY <1>4, <2>1, <2>4, KeysFacts DEF FitsInv
    <2> QED BY <1>9, <2>2, <2>3, <2>4, WriteFrees
<1>10. ASSUME NEW b \in Bots, ReserveMargin(b) PROVE FitsInv'
    <2>1. /\ <<b, what[b]>> \in Keys /\ using[b] \in Declarations
          /\ GrantFits(<<b, what[b]>>, using[b]) /\ unended' = FALSE
          /\ LosesTheTail \/ Reservations' = [Reservations EXCEPT ![<<b, what[b]>>] = using[b].most]
        BY <1>10, ReserveGrants
    <2>2. CASE LosesTheTail
        BY <1>3, <2>2
    <2>3. CASE Reservations' = [Reservations EXCEPT ![<<b, what[b]>>] = using[b].most]
        <3>1. Fits([Reservations EXCEPT ![<<b, what[b]>>] = using[b].most])
            BY <1>1, <2>1, FitsGrant DEF GrantFits
        <3> QED BY <2>1, <2>3, <3>1 DEF FitsInv
    <2> QED BY <2>1, <2>2, <2>3
<1>11. ASSUME NEW b \in Bots, KillBot(b) PROVE FitsInv'
    <2>1. poolLog' = poolLog /\ unended' = unended /\ AtMost(Reservations', Reservations)
        BY <1>11, KillKeeps
    <2>2. Reservations' \in Margins
        BY <1>11, KillShape, NextReservationsAre
    <2>3. Fits(Reservations')
        BY <1>1, <2>1, <2>2, FitsLess
    <2> QED BY <2>1, <2>3 DEF FitsInv, Glue
<1>12. ASSUME NEW b \in Bots, KillInWrite(b) PROVE FitsInv'
    BY <1>12, KillInWriteFits
<1>13. CASE EditDeclaration \/ UNCHANGED botsVars
    BY <1>2, <1>13 DEF EditDeclaration, botsVars, memory, poolVars, Reservations
<1> QED BY <1>5, <1>6, <1>7, <1>8, <1>9, <1>10, <1>11, <1>12, <1>13, Zenon DEF BotsNext

-----------------------------------------------------------------------------
(* Where the margin that is reserved belongs, while no row has been lost:  *)
(* of a bot that sweeps, to a position or to a row it still has to write;  *)
(* of a close in progress, nowhere; of an entry that is refused because    *)
(* its symbol is reserved already, to an entry the gate refused.           *)

Swept(b, s) == \E i \in DOMAIN buffer : buffer[i].key = <<b, s>>
Settled == {"down", "recovered", "reclaiming"}

AccountOf(b) ==
    /\ botAt[b] = "reclaiming" =>
          \A s \in Universe[b] : Reservations[<<b, s>>] > 0 => s \in Open(b) \/ Swept(b, s)
    /\ botAt[b] = "released" => Reservations[<<b, what[b]>>] = 0
    /\ botAt[b] = "sized" /\ Reservations[<<b, what[b]>>] > 0 => what[b] \in refusals[b]
    /\ botAt[b] \notin Settled =>
          \A s \in Universe[b] : Reservations[<<b, s>>] > 0 =>
              s \in Open(b) \union {what[b]} \union refusals[b]

AccountInv == damaged \/ (~unended /\ \A b \in Bots : AccountOf(b))

LEMMA AccountInit == BotsInit => AccountInv
BY DEF BotsInit, AccountInv, AccountOf, Settled

LEMMA HeldBelongs == AccountInv => HeldIsAccounted
BY DEF AccountInv, AccountOf, HeldIsAccounted, Settled

(* A step in which nothing of a bot changes.                               *)
Untouched(c) ==
    /\ botAt'[c] = botAt[c] /\ what'[c] = what[c] /\ refusals'[c] = refusals[c]
    /\ positions'[c] = positions[c]
    /\ \A s \in Universe[c] : Reservations'[<<c, s>>] = Reservations[<<c, s>>]
    /\ holder = c => buffer' = buffer

LEMMA UntouchedAccount ==
    ASSUME ShapeInv, NEW c \in Bots, AccountOf(c), Untouched(c)
    PROVE  AccountOf(c)'
<1>1. botAt[c] \in {"released", "sized"} => what[c] \in Universe[c]
    BY ShapeParts DEF EntryOf, EntryPlaces
<1>2. botAt[c] = "reclaiming" => holder = c
    BY ShapeParts DEF LockInv, LockPlaces
<1>3. Open(c)' = Open(c)
    BY DEF Open, Untouched
<1>4. botAt[c] = "reclaiming" =>
         \A s \in Universe[c] : Reservations'[<<c, s>>] > 0 => s \in Open(c)' \/ Swept(c, s)'
    BY <1>2, <1>3 DEF Untouched, Swept, AccountOf
<1>5. botAt[c] = "released" => Reservations'[<<c, what[c]>>] = 0
    BY <1>1 DEF Untouched, AccountOf
<1>6. botAt[c] = "sized" /\ Reservations'[<<c, what[c]>>] > 0 => what[c] \in refusals[c]
    BY <1>1 DEF Untouched, AccountOf
<1>7. botAt[c] \notin Settled =>
         \A s \in Universe[c] : Reservations'[<<c, s>>] > 0 =>
              s \in Open(c)' \union {what[c]} \union refusals[c]
    BY <1>3 DEF Untouched, AccountOf
<1> QED BY <1>4, <1>5, <1>6, <1>7 DEF Untouched, AccountOf

(* The bots other than the one that moves.                                 *)
LEMMA OthersUntouched ==
    ASSUME ShapeInv, NEW b \in Bots, NEW c \in Bots \ {b}, NEW place, Goes(b, place),
           \A s \in Universe[c] : Reservations'[<<c, s>>] = Reservations[<<c, s>>],
           holder = c => buffer' = buffer,
           positions'[c] = positions[c], what'[c] = what[c], refusals'[c] = refusals[c]
    PROVE  Untouched(c)
BY ShapeParts DEF Goes, Untouched

Clean == ~damaged /\ ~unended /\ \A c \in Bots : AccountOf(c)
CleanNext == ~unended' /\ \A c \in Bots : AccountOf(c)'

LEMMA RecoverAccount ==
    ASSUME ShapeInv, Clean, NEW b \in Bots, Recover(b) PROVE CleanNext
<1>1. Reservations' = Reservations /\ unended' = unended /\ buffer' = buffer /\ Goes(b, "recovered")
    BY OutsideKeeps DEF Recover, LockPlaces, BotPlaces, poolVars
<1>2. AccountOf(b)'
    BY <1>1, ShapeParts DEF Goes, AccountOf, Settled
<1>3. \A c \in Bots \ {b} : Untouched(c)
    BY <1>1, OthersUntouched, ShapeParts DEF Recover
<1> QED BY <1>1, <1>2, <1>3, UntouchedAccount DEF Clean, CleanNext

LEMMA SweepAccount ==
    ASSUME ShapeInv, Clean, NEW b \in Bots, SweepOrphans(b) PROVE CleanNext
<1>1. /\ Reservations' = Reservations /\ Reservations = Replay(poolLog) /\ unended' = unended
      /\ Goes(b, "reclaiming") /\ holder = NoBot /\ positions' = positions
      /\ StartReclaim(b, Open(b))
    BY SweepKeeps DEF SweepOrphans, StartReclaim, LockIsFree
<1>2. botAt'[b] = "reclaiming" /\ Open(b)' = Open(b)
    BY <1>1, ShapeParts DEF Goes, Open
<1>3. \A s \in Universe[b] : Replay(poolLog)[<<b, s>>] > 0 => s \in Open(b) \/ Swept(b, s)'
    BY <1>1, SweepStarts DEF Swept
<1>4. AccountOf(b)'
    BY <1>1, <1>2, <1>3 DEF AccountOf, Settled
<1>5. \A c \in Bots \ {b} : Untouched(c)
    BY <1>1, OthersUntouched, ShapeParts DEF SweepOrphans
<1> QED BY <1>1, <1>4, <1>5, UntouchedAccount DEF Clean, CleanNext

LEMMA LeaveLockAccount ==
    ASSUME ShapeInv, Clean, NEW b \in Bots, LeaveLock(b) PROVE CleanNext
<1>1. /\ Reservations' = Reservations /\ unended' = unended /\ buffer' = buffer /\ buffer = <<>>
      /\ botAt[b] \in LockPlaces /\ positions' = positions /\ what' = what /\ refusals' = refusals
      /\ Goes(b, IF botAt[b] = "reclaiming" THEN "polling" ELSE "reserved")
    BY LeaveKeeps, ShapeParts DEF LeaveLock, GiveUpLock, LockInv
<1>2. ~\E s : Swept(b, s)
    BY <1>1 DEF Swept
<1>3. AccountOf(b) /\ Open(b)' = Open(b)
    BY <1>1 DEF Clean, Open
<1>4. \A s \in Universe[b] : Reservations[<<b, s>>] > 0 =>
         s \in Open(b) \union {what[b]} \union refusals[b]
    BY <1>1, <1>2, <1>3 DEF AccountOf, LockPlaces, Settled
<1>5. botAt'[b] \in {"polling", "reserved"}
    BY <1>1, ShapeParts DEF Goes
<1>6. AccountOf(b)'
    BY <1>1, <1>3, <1>4, <1>5 DEF AccountOf, Settled
<1>7. \A c \in Bots \ {b} : Untouched(c)
    BY <1>1, OthersUntouched
<1> QED BY <1>1, <1>6, <1>7, UntouchedAccount DEF Clean, CleanNext

LEMMA WriteAccount ==
    ASSUME ShapeInv, SweepInv, Clean, NEW b \in Bots, WriteUnderLock(b) PROVE CleanNext
<1> USE ShapeParts
<1>1. /\ holder = b /\ botAt' = botAt /\ what' = what /\ refusals' = refusals /\ positions' = positions
      /\ unended' = FALSE /\ buffer # <<>> /\ buffer' = Tail(buffer) /\ ~unended
    BY DEF WriteUnderLock, WriteNext, Write, memory, Clean
<1>2. AccountOf(b) /\ Open(b)' = Open(b)
    BY <1>1 DEF Clean, Open
<1>3. CASE Compacting /\ Reservations' = Reservations
    <2>1. botAt[b] = "compacting"
        BY <1>1, <1>3 DEF Compacting
    <2>2. AccountOf(b)'
        BY <1>1, <1>2, <1>3, <2>1 DEF AccountOf
    <2>3. \A c \in Bots \ {b} : Untouched(c)
        BY <1>1, <1>3 DEF Untouched
    <2> QED BY <1>1, <2>2, <2>3, UntouchedAccount DEF Clean, CleanNext
<1>4. CASE botAt[b] = "reclaiming" /\ \E s \in Universe[b] : /\ Frees(<<b, s>>)
                                                         /\ Head(buffer) = ReleaseRow(<<b, s>>)
    <2>1. PICK s \in Universe[b] : Frees(<<b, s>>) /\ Head(buffer) = ReleaseRow(<<b, s>>)
        BY <1>4
    <2>2. Reservations \in [Keys -> 0 .. MaxUsdt] /\ <<b, s>> \in Keys
        BY ReservationsAre, KeysFacts DEF Margins
    <2>3. \A k \in Keys : Reservations'[k] = IF k = <<b, s>> THEN 0 ELSE Reservations[k]
        BY <2>1, <2>2 DEF Frees
    <2>4. ASSUME NEW t \in Universe[b], Reservations'[<<b, t>>] > 0
          PROVE  t \in Open(b) \/ Swept(b, t)'
        <3>1. <<b, t>> \in Keys
            BY KeysFacts
        <3>2. t # s /\ Reservations[<<b, t>>] > 0
            <4>1. t = s => Reservations'[<<b, t>>] = 0
                BY <2>2, <2>3
            <4>2. t # s
                BY <2>4, <4>1
            <4>3. <<b, t>> # <<b, s>>
                BY <4>2
            <4> QED BY <2>3, <2>4, <3>1, <4>2, <4>3
        <3>3. CASE t \in Open(b)
            BY <3>3
        <3>4. CASE Swept(b, t)
            <4>1. PICK i \in DOMAIN buffer : buffer[i].key = <<b, t>>
                BY <3>4 DEF Swept
            <4>2. /\ Len(buffer) \in Nat /\ DOMAIN buffer = 1 .. Len(buffer)
                  /\ Len(buffer') = Len(buffer) - 1 /\ buffer' \in Seq(Row)
                  /\ \A j \in 1 .. Len(buffer') : buffer'[j] = buffer[j + 1]
                  /\ Head(buffer) = buffer[1]
                BY <1>1, HeadTailProperties, LenProperties
            <4>3. i # 1
                BY <2>1, <3>2, <4>1, <4>2 DEF ReleaseRow
            <4>4. i - 1 \in 1 .. Len(buffer') /\ (i - 1) + 1 = i
                BY <4>2, <4>3
            <4>5. buffer'[i - 1] = buffer[i] /\ i - 1 \in DOMAIN buffer'
                BY <4>2, <4>4, LenProperties
            <4>6. buffer'[i - 1].key = <<b, t>>
                BY <4>1, <4>5
            <4> QED BY <4>5, <4>6, Zenon DEF Swept
        <3> QED BY <1>2, <1>4, <3>2, <3>3, <3>4 DEF AccountOf
    <2>5. AccountOf(b)'
        BY <1>1, <1>2, <1>4, <2>4 DEF AccountOf, Settled
    <2>6. \A c \in Bots \ {b} : Untouched(c)
        BY <1>1, <2>3, KeysFacts DEF Untouched
    <2> QED BY <1>1, <2>5, <2>6, UntouchedAccount DEF Clean, CleanNext
<1> QED BY <1>1, <1>3, <1>4, WriteFrees DEF LosesTheTail

LEMMA CloseAccount ==
    ASSUME ShapeInv, Clean, NEW b \in Bots, NEW s \in Universe[b], CloseAndRelease(b, s)
    PROVE  CleanNext
<1> USE ShapeParts
<1>1. /\ Goes(b, "released") /\ what' = [what EXCEPT ![b] = s] /\ refusals' = refusals
      /\ positions' = [positions EXCEPT ![b][s] = 0] /\ botAt[b] = "polling" /\ holder = NoBot
      /\ what[b] = NoSymbol
    BY DEF CloseAndRelease, LockIsFree, EntryOf, EntryPlaces
<1>2. Frees(<<b, s>>) /\ ~unended' /\ <<b, s>> \in Keys /\ s \in Symbols
    BY CloseFrees, KeysFacts DEF Clean
<1>3. \A k \in Keys : Reservations'[k] = IF k = <<b, s>> THEN 0 ELSE Reservations[k]
    BY <1>2, ReservationsAre DEF Frees, Margins
<1>4. AccountOf(b) /\ \A t \in Universe[b] : t \in Symbols /\ t # NoSymbol /\ <<b, t>> \in Keys
    BY KeysFacts, BotsAssumption DEF Clean
<1>5. botAt'[b] = "released" /\ what'[b] = s /\ \A t \in Symbols : t # s => positions'[b][t] = positions[b][t]
    BY <1>1, <1>2 DEF Goes
<1>6. \A t \in Universe[b] : Reservations'[<<b, t>>] > 0 => t \in Open(b)' \union {s} \union refusals[b]
    <2> SUFFICES ASSUME NEW t \in Universe[b], Reservations'[<<b, t>>] > 0, t # s, t \notin refusals[b]
                 PROVE  t \in Open(b)'
        OBVIOUS
    <2>1. Reservations[<<b, t>>] > 0
        BY <1>3, <1>4
    <2>2. t \in Open(b)
        BY <1>1, <1>4, <2>1 DEF AccountOf, Settled
    <2> QED BY <1>4, <1>5, <2>2 DEF Open
<1>7. AccountOf(b)'
    BY <1>1, <1>2, <1>3, <1>5, <1>6 DEF AccountOf, Settled
<1>8. \A c \in Bots \ {b} : Untouched(c)
    <2> SUFFICES ASSUME NEW c \in Bots \ {b} PROVE Untouched(c)
        OBVIOUS
    <2>1. positions'[c] = positions[c] /\ what'[c] = what[c] /\ refusals'[c] = refusals[c] /\ holder # c
        BY <1>1
    <2>2. \A t \in Universe[c] : Reservations'[<<c, t>>] = Reservations[<<c, t>>]
        BY <1>3, KeysFacts
    <2> QED BY <1>1, <2>1, <2>2, OthersUntouched
<1> QED BY <1>2, <1>7, <1>8, UntouchedAccount DEF Clean, CleanNext

LEMMA JournalCloseAccount ==
    ASSUME ShapeInv, Clean, NEW b \in Bots, JournalClose(b) PROVE CleanNext
<1> USE ShapeParts
<1>1. /\ Reservations' = Reservations /\ unended' = unended /\ buffer' = buffer
      /\ Goes(b, "polling") /\ what' = [what EXCEPT ![b] = NoSymbol]
      /\ positions' = positions /\ refusals' = refusals /\ botAt[b] = "released"
    BY OutsideKeeps DEF JournalClose, LockPlaces, BotPlaces, poolVars
<1>2. AccountOf(b) /\ Open(b)' = Open(b) /\ botAt'[b] = "polling" /\ what'[b] = NoSymbol
    BY <1>1 DEF Clean, Open, Goes
<1>3. \A s \in Universe[b] : Reservations[<<b, s>>] > 0 => s \in Open(b) \union refusals[b]
    <2>1. Reservations[<<b, what[b]>>] = 0
        BY <1>1, <1>2 DEF AccountOf
    <2>2. \A s \in Universe[b] : Reservations[<<b, s>>] > 0 =>
             s \in Open(b) \union {what[b]} \union refusals[b]
        BY <1>1, <1>2 DEF AccountOf, Settled
    <2>3. ASSUME NEW s \in Universe[b], Reservations[<<b, s>>] > 0 PROVE s # what[b]
        <3>1. ~(Reservations[<<b, what[b]>>] > 0)
            BY <2>1
        <3> QED BY <2>3, <3>1, Zenon
    <2> QED BY <2>2, <2>3
<1>4. AccountOf(b)'
    BY <1>1, <1>2, <1>3 DEF AccountOf
<1>5. \A c \in Bots \ {b} : Untouched(c)
    BY <1>1, OthersUntouched
<1> QED BY <1>1, <1>4, <1>5, UntouchedAccount DEF Clean, CleanNext

LEMMA SizeAccount ==
    ASSUME ShapeInv, Clean, NEW b \in Bots, NEW s \in Universe[b], Size(b, s) PROVE CleanNext
<1> USE ShapeParts
<1>1. /\ Reservations' = Reservations /\ unended' = unended /\ buffer' = buffer
      /\ Goes(b, "sized") /\ what' = [what EXCEPT ![b] = s] /\ s \notin Open(b)
      /\ positions' = positions /\ refusals' = refusals /\ botAt[b] = "polling"
    BY OutsideKeeps DEF Size, LockPlaces, BotPlaces, poolVars
<1>2. /\ AccountOf(b) /\ Open(b)' = Open(b) /\ botAt'[b] = "sized" /\ what'[b] = s
      /\ what[b] = NoSymbol
    BY <1>1 DEF Clean, Open, Goes, EntryOf, EntryPlaces
<1>3. \A t \in Universe[b] : Reservations[<<b, t>>] > 0 => t \in Open(b) \union refusals[b]
    <2>1. NoSymbol \notin Universe[b]
        BY KeysFacts, BotsAssumption
    <2> QED BY <1>1, <1>2, <2>1 DEF AccountOf, Settled
<1>4. AccountOf(b)'
    BY <1>1, <1>2, <1>3 DEF AccountOf
<1>5. \A c \in Bots \ {b} : Untouched(c)
    BY <1>1, OthersUntouched
<1> QED BY <1>1, <1>4, <1>5, UntouchedAccount DEF Clean, CleanNext

LEMMA ReserveAccount ==
    ASSUME ShapeInv, Clean, NEW b \in Bots, ReserveMargin(b) PROVE CleanNext
<1> USE ShapeParts
<1>1. /\ <<b, what[b]>> \in Keys /\ unended' = FALSE /\ botAt[b] = "sized" /\ holder = NoBot
      /\ Reservations' = [Reservations EXCEPT ![<<b, what[b]>>] = using[b].most]
      /\ positions' = positions /\ refusals' = refusals /\ what' = what
    BY ReserveGrants DEF ReserveMargin, LockIsFree, LosesTheTail, Clean
<1>2. PICK place \in {"compacting", "reserved"} : Goes(b, place)
    BY Grants
<1>3. AccountOf(b) /\ Open(b)' = Open(b) /\ botAt'[b] = place
    BY <1>1, <1>2 DEF Clean, Open, Goes
<1>4. \A k \in Keys : k # <<b, what[b]>> => Reservations'[k] = Reservations[k]
    BY <1>1, ReservationsAre DEF Margins
<1>5. \A s \in Universe[b] : Reservations'[<<b, s>>] > 0 =>
         s \in Open(b) \union {what[b]} \union refusals[b]
    <2> SUFFICES ASSUME NEW s \in Universe[b], Reservations'[<<b, s>>] > 0, s # what[b]
                 PROVE  s \in Open(b) \union refusals[b]
        OBVIOUS
    <2>1. <<b, s>> \in Keys /\ <<b, s>> # <<b, what[b]>>
        BY KeysFacts
    <2>2. Reservations[<<b, s>>] > 0
        BY <1>4, <2>1
    <2> QED BY <1>1, <1>3, <2>2 DEF AccountOf, Settled
<1>6. AccountOf(b)'
    BY <1>1, <1>3, <1>5 DEF AccountOf
<1>7. \A c \in Bots \ {b} : Untouched(c)
    <2> SUFFICES ASSUME NEW c \in Bots \ {b} PROVE Untouched(c)
        OBVIOUS
    <2>1. \A s \in Universe[c] : <<c, s>> \in Keys /\ <<c, s>> # <<b, what[b]>>
        BY KeysFacts
    <2>2. \A s \in Universe[c] : Reservations'[<<c, s>>] = Reservations[<<c, s>>]
        BY <1>4, <2>1
    <2> QED BY <1>1, <1>2, <2>2, OthersUntouched
<1> QED BY <1>1, <1>6, <1>7, UntouchedAccount DEF Clean, CleanNext

LEMMA EntryEndsAccount ==
    ASSUME ShapeInv, Clean, NEW b \in Bots, EntryEnds(b), botAt[b] \in {"sized", "reserved"},
           \A c \in Bots \ {b} : positions'[c] = positions[c] /\ refusals'[c] = refusals[c],
           \A s \in Universe[b] : Reservations[<<b, s>>] > 0 => s \in Open(b)' \union refusals'[b]
    PROVE  CleanNext
<1> USE ShapeParts
<1>1. /\ Reservations' = Reservations /\ unended' = unended /\ buffer' = buffer
      /\ Goes(b, "polling") /\ what' = [what EXCEPT ![b] = NoSymbol]
    BY OutsideKeeps DEF EntryEnds, LockPlaces, BotPlaces, poolVars
<1>2. botAt'[b] = "polling"
    BY <1>1 DEF Goes
<1>3. AccountOf(b)'
    BY <1>1, <1>2 DEF AccountOf
<1>4. \A c \in Bots \ {b} : Untouched(c)
    BY <1>1, OthersUntouched
<1> QED BY <1>1, <1>3, <1>4, UntouchedAccount DEF Clean, CleanNext

LEMMA EntryAccount ==
    ASSUME ShapeInv, Clean, NEW b \in Bots,
           CapitalRefused(b) \/ GateRefuses(b) \/ OpenPosition(b)
    PROVE  CleanNext
<1> USE ShapeParts
<1>1. EntryEnds(b) /\ botAt[b] \in {"sized", "reserved"} /\ AccountOf(b)
    BY DEF CapitalRefused, GateRefuses, OpenPosition, Clean
<1>2. \A s \in Universe[b] : Reservations[<<b, s>>] > 0 =>
         s \in Open(b) \union {what[b]} \union refusals[b]
    BY <1>1 DEF AccountOf, Settled
<1>3. CASE CapitalRefused(b)
    <2>1. positions' = positions /\ refusals' = refusals /\ Open(b)' = Open(b) /\ botAt[b] = "sized"
        BY <1>3 DEF CapitalRefused, Open
    <2>2. Reservations[<<b, what[b]>>] > 0 => what[b] \in refusals[b]
        BY <1>1, <2>1 DEF AccountOf
    <2>3. \A s \in Universe[b] : Reservations[<<b, s>>] > 0 => s \in Open(b)' \union refusals'[b]
        BY <1>2, <2>1, <2>2
    <2> QED BY <1>1, <2>1, <2>3, EntryEndsAccount
<1>4. CASE GateRefuses(b)
    <2>1. positions' = positions /\ Open(b)' = Open(b)
          /\ refusals' = [refusals EXCEPT ![b] = @ \union {what[b]}]
        BY <1>4 DEF GateRefuses, Open
    <2>2. refusals'[b] = refusals[b] \union {what[b]} /\ \A c \in Bots \ {b} : refusals'[c] = refusals[c]
        BY <2>1
    <2> QED BY <1>1, <1>2, <2>1, <2>2, EntryEndsAccount
<1>5. CASE OpenPosition(b)
    <2>1. positions' = [positions EXCEPT ![b][what[b]] = using[b].most] /\ refusals' = refusals
          /\ botAt[b] = "reserved"
        BY <1>5 DEF OpenPosition
    <2>2. what[b] \in Symbols /\ using[b].most > 0
        BY <2>1, KeysFacts, DeclarationFacts DEF EntryOf, EntryPlaces
    <2>3. /\ positions'[b][what[b]] = using[b].most
          /\ \A s \in Symbols : s # what[b] => positions'[b][s] = positions[b][s]
          /\ \A c \in Bots \ {b} : positions'[c] = positions[c]
        BY <2>1, <2>2
    <2>4. Open(b) \union {what[b]} \subseteq Open(b)'
        BY <2>2, <2>3 DEF Open
    <2>5. \A s \in Universe[b] : Reservations[<<b, s>>] > 0 => s \in Open(b)' \union refusals'[b]
        BY <1>2, <2>1, <2>4
    <2> QED BY <1>1, <2>1, <2>3, <2>5, EntryEndsAccount
<1> QED BY <1>3, <1>4, <1>5

LEMMA KillAccount ==
    ASSUME ShapeInv, Clean, NEW b \in Bots, KillBot(b), ~damaged' PROVE CleanNext
<1> USE ShapeParts
<1>1. Reservations' = Reservations /\ unended' = unended /\ Die(b)
    BY KillKeeps DEF KillBot
<1>2. botAt'[b] = "down"
    BY <1>1 DEF Die, Goes
<1>3. AccountOf(b)'
    BY <1>2 DEF AccountOf, Settled
<1>4. \A c \in Bots \ {b} : Untouched(c)
    <2> SUFFICES ASSUME NEW c \in Bots \ {b} PROVE Untouched(c)
        OBVIOUS
    <2>1. /\ Goes(b, "down") /\ positions'[c] = positions[c] /\ what'[c] = what[c]
          /\ refusals'[c] = refusals[c] /\ (holder = c => buffer' = buffer)
        BY <1>1 DEF Die, DieInLock
    <2> QED BY <1>1, <2>1, OthersUntouched
<1> QED BY <1>1, <1>3, <1>4, UntouchedAccount DEF Clean, CleanNext

(* What is lost is never found again.                                      *)
LEMMA DamageLasts ==
    ASSUME [BotsNext]_botsVars, ~damaged'
    PROVE  ~damaged
<1>1. EditDeclaration \/ UNCHANGED botsVars => ~damaged
    BY DEF EditDeclaration, botsVars
<1>2. ASSUME NEW b \in Bots, NEW s \in Universe[b], CloseAndRelease(b, s) \/ Size(b, s)
      PROVE  ~damaged
    BY <1>2 DEF CloseAndRelease, Size
<1>3. ASSUME NEW b \in Bots,
             \/ Recover(b) \/ SweepOrphans(b) \/ WriteUnderLock(b) \/ LeaveLock(b)
             \/ JournalClose(b) \/ ReserveMargin(b) \/ CapitalRefused(b)
             \/ GateRefuses(b) \/ OpenPosition(b) \/ KillBot(b) \/ KillInWrite(b)
      PROVE  ~damaged
    BY <1>3 DEF Recover, SweepOrphans, WriteUnderLock, LeaveLock, JournalClose,
       ReserveMargin, CapitalRefused, GateRefuses, OpenPosition, EntryEnds, KillBot, KillInWrite
<1> QED BY <1>1, <1>2, <1>3, Zenon DEF BotsNext

LEMMA AccountStep ==
    ShapeInv /\ SweepInv /\ AccountInv /\ [BotsNext]_botsVars => AccountInv'
<1> SUFFICES ASSUME ShapeInv, SweepInv, AccountInv, [BotsNext]_botsVars, ~damaged'
             PROVE  CleanNext
    BY DEF AccountInv, CleanNext
<1>1. ~damaged
    BY DamageLasts
<1>2. Clean
    BY <1>1 DEF AccountInv, Clean
<1>3. ASSUME NEW b \in Bots, NEW s \in Universe[b], CloseAndRelease(b, s) \/ Size(b, s)
      PROVE  CleanNext
    BY <1>2, <1>3, CloseAccount, SizeAccount
<1>4. ASSUME NEW b \in Bots, \/ Recover(b) \/ SweepOrphans(b) \/ WriteUnderLock(b) \/ LeaveLock(b)
                             \/ JournalClose(b) \/ ReserveMargin(b)
      PROVE  CleanNext
    BY <1>2, <1>4, RecoverAccount, SweepAccount, WriteAccount, LeaveLockAccount,
       JournalCloseAccount, ReserveAccount
<1>5. ASSUME NEW b \in Bots, CapitalRefused(b) \/ GateRefuses(b) \/ OpenPosition(b) PROVE CleanNext
    BY <1>2, <1>5, EntryAccount
<1>6. ASSUME NEW b \in Bots, KillBot(b) \/ KillInWrite(b) PROVE CleanNext
    BY <1>2, <1>6, KillAccount DEF KillInWrite
<1>7. CASE EditDeclaration \/ UNCHANGED botsVars
    <2>1. Reservations' = Reservations
        BY <1>7 DEF EditDeclaration, botsVars, memory, poolVars, Reservations
    <2>2. \A c \in Bots : Untouched(c)
        BY <1>7, <2>1 DEF EditDeclaration, botsVars, memory, poolVars, Untouched
    <2>3. unended' = unended
        BY <1>7 DEF EditDeclaration, botsVars, poolVars
    <2> QED BY <1>2, <2>2, <2>3, UntouchedAccount DEF Clean, CleanNext
<1> QED BY <1>3, <1>4, <1>5, <1>6, <1>7, Zenon DEF BotsNext

(* What all that is proved of the bots rests on.                           *)
BotsInv == ShapeInv /\ JournalIsMemory /\ SweepInv /\ FitsInv /\ AccountInv

LEMMA BotsInvInit == BotsInit => BotsInv
BY ShapeInit, JournalInit, SweepInit, FitsInit, AccountInit DEF BotsInv

LEMMA BotsInvStep == BotsInv /\ [BotsNext]_botsVars => BotsInv'
BY ShapeStep, JournalStep, SweepStep, FitsStep, AccountStep DEF BotsInv

(* Whatever is killed, torn or edited, the margin reserved by all bots     *)
(* together fits a declared portfolio and each bot's a declared cap; and   *)
(* as long as no row was lost, each reservation of a polling bot belongs   *)
(* to a position, to the entry in progress or to one the gate refused.     *)
THEOREM MarginsAccounted == BotsSpec => []MarginsAreAccounted
<1>1. BotsInv => MarginsAreAccounted
    BY HeldBelongs DEF BotsInv, FitsInv, MarginsAreAccounted, HeldFits
<1> QED BY <1>1, BotsInvInit, BotsInvStep, PTL DEF BotsSpec

-----------------------------------------------------------------------------
(* The pool implements the budget: while no row is lost, a step leaves     *)
(* what is reserved alone, frees one key or makes a grant that fits.       *)

Makes(k, d) ==
    GrantFits(k, d) /\ Reservations' = [Reservations EXCEPT ![k] = d.most]

LEMMA CleanMoves ==
    ASSUME ShapeInv, SweepInv, Clean, [BotsNext]_botsVars, ~damaged'
    PROVE  \/ Reservations' = Reservations
           \/ \E k \in Keys : Frees(k)
           \/ \E k \in Keys : \E d \in Declarations : Makes(k, d)
<1>1. ASSUME NEW b \in Bots, \/ Recover(b) \/ JournalClose(b) \/ CapitalRefused(b)
                             \/ GateRefuses(b) \/ OpenPosition(b)
      PROVE  Reservations' = Reservations
    <2>1. PICK place \in BotPlaces : /\ UNCHANGED poolVars /\ place \notin LockPlaces /\ Goes(b, place)
                                     /\ botAt[b] \notin LockPlaces
        BY <1>1 DEF Recover, JournalClose, CapitalRefused, GateRefuses, OpenPosition, EntryEnds,
           LockPlaces, BotPlaces
    <2> QED BY <2>1, OutsideKeeps
<1>2. ASSUME NEW b \in Bots, NEW s \in Universe[b], Size(b, s) PROVE Reservations' = Reservations
    BY <1>2, OutsideKeeps DEF Size, LockPlaces, BotPlaces
<1>3. ASSUME NEW b \in Bots, SweepOrphans(b) \/ LeaveLock(b) PROVE Reservations' = Reservations
    BY <1>3, SweepKeeps, LeaveKeeps
<1>4. ASSUME NEW b \in Bots, NEW s \in Universe[b], CloseAndRelease(b, s)
      PROVE  \E k \in Keys : Frees(k)
    BY <1>4, CloseFrees, KeysFacts DEF Clean
<1>5. ASSUME NEW b \in Bots, WriteUnderLock(b)
      PROVE  Reservations' = Reservations \/ \E k \in Keys : Frees(k)
    BY <1>5, WriteFrees, KeysFacts DEF Clean, LosesTheTail
<1>6. ASSUME NEW b \in Bots, ReserveMargin(b)
      PROVE  \E k \in Keys : \E d \in Declarations : Makes(k, d)
    BY <1>6, ReserveGrants DEF Clean, LosesTheTail, Makes
<1>7. ASSUME NEW b \in Bots, KillBot(b) \/ KillInWrite(b) PROVE Reservations' = Reservations
    BY <1>7, KillKeeps DEF KillInWrite
<1>8. CASE EditDeclaration \/ UNCHANGED botsVars
    BY <1>8 DEF EditDeclaration, botsVars, memory, poolVars, Reservations
<1> QED BY <1>1, <1>2, <1>3, <1>4, <1>5, <1>6, <1>7, <1>8, Zenon DEF BotsNext

(* The vocabulary of the budget is that of the pool.                       *)
LEMMA SameWords ==
    /\ PoolBudget!Keys = Keys
    /\ \A r : PoolBudget!Held(r) = Held(r)
    /\ \A r, b : PoolBudget!HeldBy(r, b) = HeldBy(r, b)
<1>1. PoolBudget!Keys = Keys /\ PoolBudget!Amounts = Amounts
    BY Zenon DEF PoolBudget!Keys, Keys, PoolBudget!Amounts, Amounts
<1>2. \A r : PoolBudget!Units(r) = Units(r)
    BY <1>1, Zenon DEF PoolBudget!Units, Units
<1>3. \A r, b : PoolBudget!UnitsOf(r, b) = UnitsOf(r, b)
    BY <1>2, Zenon DEF PoolBudget!UnitsOf, UnitsOf
<1>4. \A S : PoolBudget!Cardinality(S) = Cardinality(S)
    BY Zenon DEF PoolBudget!Cardinality, Cardinality, PoolBudget!IsFiniteSet, IsFiniteSet
<1> QED BY <1>1, <1>2, <1>3, <1>4, Zenon
        DEF PoolBudget!Held, Held, PoolBudget!HeldBy, HeldBy

LEMMA BudgetInit == BotsInit => PoolBudget!Init
<1> SUFFICES ASSUME BotsInit PROVE PoolBudget!Init
    OBVIOUS
<1>1. Reservations = Replay(<<>>) /\ damaged = FALSE
    BY DEF BotsInit, Reservations
<1>2. \A k \in Keys : Replay(<<>>)[k] = 0
    <2>1. \A k \in Keys : About(<<>>, k) = {}
        BY DEF About
    <2> QED BY <2>1, EmptySeq, ReplayReads
<1>3. Replay(<<>>) = [k \in Keys |-> Replay(<<>>)[k]]
    BY EmptySeq, ReplayType
<1>4. Reservations = [k \in Keys |-> 0]
    BY <1>1, <1>2, <1>3
<1> QED BY <1>1, <1>4, SameWords DEF PoolBudget!Init

LEMMA BudgetStep ==
    BotsInv /\ BotsInv' /\ [BotsNext]_botsVars => [PoolBudget!Next]_<<Reservations, damaged>>
<1> SUFFICES ASSUME BotsInv, BotsInv', [BotsNext]_botsVars
             PROVE  [PoolBudget!Next]_<<Reservations, damaged>>
    OBVIOUS
<1> USE DEF BotsInv
<1>1. CASE damaged'
    <2>1. damaged' = TRUE /\ Reservations' \in [Keys -> 0 .. MaxUsdt]
        BY <1>1, NextReservationsAre DEF ShapeInv, BotsTypeOK, Margins
    <2>2. PoolBudget!Damage
        BY <2>1, SameWords DEF PoolBudget!Damage
    <2> QED BY <2>2 DEF PoolBudget!Next
<1>2. CASE ~damaged'
    <2>1. Clean
        <3>1. AccountInv
            OBVIOUS
        <3>2. ~damaged
            BY <1>2, DamageLasts
        <3> QED BY <3>1, <3>2 DEF AccountInv, Clean
    <2>2. damaged' = damaged
        BY <1>2, <2>1 DEF Clean, ShapeInv, BotsTypeOK
    <2>3. CASE Reservations' = Reservations
        BY <2>2, <2>3
    <2>4. ASSUME NEW k \in Keys, Frees(k) PROVE [PoolBudget!Next]_<<Reservations, damaged>>
        <3>1. Reservations \in Margins /\ Reservations[k] \in Nat
            BY ReservationsAre, RowFacts DEF Margins
        <3>2. CASE Reservations[k] = 0
            <4>1. [Reservations EXCEPT ![k] = 0] = Reservations
                BY <3>1, <3>2 DEF Margins
            <4> QED BY <2>2, <2>4, <4>1 DEF Frees
        <3>3. CASE Reservations[k] > 0
            <4>1. PoolBudget!GiveBack(k)
                BY <2>2, <2>4, <3>3 DEF PoolBudget!GiveBack, Frees
            <4> QED BY <4>1, SameWords DEF PoolBudget!Next
        <3> QED BY <3>1, <3>2, <3>3
    <2>5. ASSUME NEW k \in Keys, NEW d \in Declarations, Makes(k, d)
          PROVE  [PoolBudget!Next]_<<Reservations, damaged>>
        <3>1. PoolBudget!Grant(k, d)
            BY <2>2, <2>5, SameWords DEF PoolBudget!Grant, Makes, GrantFits
        <3> QED BY <3>1, SameWords DEF PoolBudget!Next
    <2> QED BY <1>2, <2>1, <2>3, <2>4, <2>5, CleanMoves, Zenon
<1> QED BY <1>1, <1>2

(* The pool is the budget it claims to be: every grant fits together with  *)
(* all that is reserved, and a margin goes only when it is given back.     *)
THEOREM BudgetKept == BotsSpec => PoolIsABudget
<1>1. BotsInit => PoolBudget!Init
    BY BudgetInit
<1>2. BotsInit => BotsInv
    BY BotsInvInit
<1>3. BotsInv /\ [BotsNext]_botsVars => BotsInv'
    BY BotsInvStep
<1>4. BotsInv /\ BotsInv' /\ [BotsNext]_botsVars => [PoolBudget!Next]_<<Reservations, damaged>>
    BY BudgetStep
<1> QED BY <1>1, <1>2, <1>3, <1>4, PTL DEF BotsSpec, PoolIsABudget, PoolBudget!Spec

-----------------------------------------------------------------------------
(* A position that is funded stays funded.                                 *)

LEMMA FundingStep ==
    ASSUME BotsInv, [BotsNext]_botsVars, NEW b \in Bots, NEW s \in Universe[b], ~damaged',
           Funded(b, s), journal'[b][s] > 0, ~(botAt[b] = "polling" /\ what'[b] = s)
    PROVE  Funded(b, s)'
<1> USE DEF BotsInv
<1> USE ShapeParts
<1>1. Clean
    BY DamageLasts DEF AccountInv, Clean
<1>2. /\ <<b, s>> \in Keys /\ s \in Symbols /\ \A c \in Bots : Universe[c] \subseteq Symbols
      /\ Reservations \in [Keys -> 0 .. MaxUsdt] /\ journal[b][s] > 0
      /\ Reservations[<<b, s>>] = journal[b][s]
    BY KeysFacts, ReservationsAre DEF Margins, Funded
<1>3. ASSUME journal'[b][s] = journal[b][s], Reservations'[<<b, s>>] = Reservations[<<b, s>>]
      PROVE  Funded(b, s)'
    BY <1>2, <1>3 DEF Funded
<1>4. ASSUME NEW k \in Keys, Frees(k), k # <<b, s>>, journal' = journal PROVE Funded(b, s)'
    <2>1. Reservations'[<<b, s>>] = Reservations[<<b, s>>]
        BY <1>2, <1>4 DEF Frees
    <2> QED BY <1>3, <1>4, <2>1
<1>5. ASSUME NEW c \in Bots, JournalClose(c) PROVE Funded(b, s)'
    <2>1. Reservations' = Reservations
        BY <1>5, OutsideKeeps DEF JournalClose, LockPlaces, BotPlaces
    <2>2. what[c] \in Symbols /\ journal' = [journal EXCEPT ![c][what[c]] = 0]
        BY <1>2, <1>5 DEF JournalClose, EntryOf
    <2>3. journal'[b][s] = journal[b][s] \/ journal'[b][s] = 0
        BY <1>2, <2>2
    <2>4. journal'[b][s] # 0
        OBVIOUS
    <2> QED BY <1>3, <2>1, <2>3, <2>4
<1>6. ASSUME NEW c \in Bots, OpenPosition(c) PROVE Funded(b, s)'
    <2>1. Reservations' = Reservations
        BY <1>6, OutsideKeeps DEF OpenPosition, EntryEnds, LockPlaces, BotPlaces
    <2>2. /\ what[c] \in Universe[c] /\ positions[c][what[c]] = 0 /\ botAt[c] = "reserved"
          /\ journal' = [journal EXCEPT ![c][what[c]] = using[c].most]
        BY <1>6 DEF OpenPosition, EntryOf, EntryPlaces
    <2>3. journal[c][what[c]] = 0
        BY <2>2 DEF JournalIsMemory
    <2>4. ~(c = b /\ what[c] = s)
        BY <1>2, <2>3
    <2>5. journal'[b][s] = journal[b][s]
        BY <1>2, <2>2, <2>4
    <2> QED BY <1>3, <2>1, <2>5
<1>7. ASSUME NEW c \in Bots, Recover(c) \/ CapitalRefused(c) \/ GateRefuses(c) PROVE Funded(b, s)'
    <2>1. PICK place \in BotPlaces : /\ UNCHANGED poolVars /\ place \notin LockPlaces /\ Goes(c, place)
                                     /\ botAt[c] \notin LockPlaces /\ journal' = journal
        BY <1>7 DEF Recover, CapitalRefused, GateRefuses, EntryEnds, LockPlaces, BotPlaces
    <2>2. Reservations' = Reservations
        BY <2>1, OutsideKeeps
    <2> QED BY <1>3, <2>1, <2>2
<1>8. ASSUME NEW c \in Bots, NEW t \in Universe[c], Size(c, t) PROVE Funded(b, s)'
    <2>1. Reservations' = Reservations /\ journal' = journal
        BY <1>8, OutsideKeeps DEF Size, LockPlaces, BotPlaces
    <2> QED BY <1>3, <2>1
<1>9. ASSUME NEW c \in Bots, SweepOrphans(c) \/ LeaveLock(c) \/ KillBot(c) PROVE Funded(b, s)'
    <2>1. Reservations' = Reservations /\ journal' = journal
        BY <1>9, SweepKeeps, LeaveKeeps, KillKeeps DEF SweepOrphans, LeaveLock, KillBot, Die
    <2> QED BY <1>3, <2>1
<1>10. ASSUME NEW c \in Bots, NEW t \in Universe[c], CloseAndRelease(c, t) PROVE Funded(b, s)'
    <2>1. Frees(<<c, t>>) /\ <<c, t>> \in Keys
        BY <1>1, <1>10, CloseFrees, KeysFacts DEF Clean
    <2>2. journal' = journal /\ botAt[c] = "polling" /\ what'[c] = t
        BY <1>10 DEF CloseAndRelease
    <2>3. <<c, t>> # <<b, s>>
        BY <2>2
    <2> QED BY <1>4, <2>1, <2>2, <2>3
<1>11. ASSUME NEW c \in Bots, WriteUnderLock(c) PROVE Funded(b, s)'
    <2>1. journal' = journal
        BY <1>11 DEF WriteUnderLock
    <2>2. CASE Reservations' = Reservations
        BY <1>3, <2>1, <2>2
    <2>3. ASSUME NEW t \in Universe[c], botAt[c] = "reclaiming", positions[c][t] = 0, Frees(<<c, t>>)
          PROVE  Funded(b, s)'
        <3>1. journal[c][t] = 0
            BY <2>3 DEF JournalIsMemory
        <3>2. <<c, t>> # <<b, s>> /\ <<c, t>> \in Keys
            BY <1>2, <3>1, KeysFacts, SMTT(60)
        <3> QED BY <1>4, <2>1, <2>3, <3>2
    <2> QED BY <1>1, <1>11, <2>2, <2>3, WriteFrees DEF Clean, LosesTheTail
<1>12. ASSUME NEW c \in Bots, ReserveMargin(c) PROVE Funded(b, s)'
    <2>1. /\ Reservations[<<c, what[c]>>] = 0 /\ <<c, what[c]>> \in Keys /\ journal' = journal
          /\ Reservations' = [Reservations EXCEPT ![<<c, what[c]>>] = using[c].most]
        BY <1>1, <1>12, ReserveGrants DEF GrantFits, Clean, LosesTheTail, ReserveMargin
    <2>2. ASSUME <<c, what[c]>> = <<b, s>> PROVE FALSE
        <3>1. Reservations[<<b, s>>] = 0
            BY <2>1, <2>2, Zenon
        <3> QED BY <1>2, <3>1
    <2>3. Reservations'[<<b, s>>] = Reservations[<<b, s>>]
        BY <1>2, <2>1, <2>2
    <2> QED BY <1>3, <2>1, <2>3
<1>13. ASSUME NEW c \in Bots, KillInWrite(c) PROVE FALSE
    BY <1>13 DEF KillInWrite
<1>14. CASE EditDeclaration \/ UNCHANGED botsVars
    <2>1. Reservations' = Reservations /\ journal' = journal
        BY <1>14 DEF EditDeclaration, botsVars, memory, poolVars, Reservations
    <2> QED BY <1>3, <2>1
<1> QED BY <1>5, <1>6, <1>7, <1>8, <1>9, <1>10, <1>11, <1>12, <1>13, <1>14, Zenon DEF BotsNext

(* No sweep, no compaction and no other bot takes the margin of a position *)
(* that is in a journal: only the bot's own close of it does.              *)
THEOREM FundingKeeps == BotsSpec => FundingIsKept
<1> DEFINE Kept == \A b \in Bots : \A s \in Universe[b] :
                      Funded(b, s) /\ journal'[b][s] > 0 =>
                          \/ Funded(b, s)'
                          \/ botAt[b] = "polling" /\ what'[b] = s
                          \/ damaged'
<1>1. BotsInv /\ [BotsNext]_botsVars => Kept
    BY FundingStep
<1>2. BotsInv /\ [BotsNext]_botsVars => [Kept]_botsVars
    BY <1>1
<1> HIDE DEF Kept
<1>3. BotsSpec => [][Kept]_botsVars
    BY <1>2, BotsInvInit, BotsInvStep, PTL DEF BotsSpec
<1> QED BY <1>3 DEF Kept, FundingIsKept

=============================================================================
