--------------------------- MODULE LineLogProofs ----------------------------
(***************************************************************************)
(* Lemmas about the lines of a LineLog: what appending a row leaves, what  *)
(* can be read back, and that a set of line numbers has a last one.        *)
(***************************************************************************)
EXTENDS LineLog, TLAPS, NaturalsInduction, WellFoundedInduction, SequenceTheorems

(* A non-empty set of line numbers below a bound has a last element.       *)
LEMMA LastIn ==
    ASSUME NEW n \in Nat, NEW I \in SUBSET (1..n), I # {}
    PROVE  Last(I) \in I /\ \A j \in I : j <= Last(I)
<1> DEFINE T == {n - i : i \in I}
<1>1. T \subseteq Nat
    OBVIOUS
<1>2. T # {}
    OBVIOUS
<1>3. \E x \in T : \A y \in T : ~(<<y, x>> \in OpToRel(<, Nat))
    <2> HIDE DEF T
    <2> QED BY <1>1, <1>2, NatLessThanWellFounded, WFMin
<1>4. PICK x \in T : \A y \in T : ~(<<y, x>> \in OpToRel(<, Nat))
    BY <1>3
<1>5. \A y \in T : ~(y < x)
    BY <1>1, <1>4 DEF OpToRel
<1>6. PICK i \in I : x = n - i
    OBVIOUS
<1>7. \A j \in I : j <= i
    <2> SUFFICES ASSUME NEW j \in I PROVE j <= i
        OBVIOUS
    <2>1. n - j \in T
        OBVIOUS
    <2>2. ~(n - j < n - i)
        BY <2>1, <1>5, <1>6
    <2> QED BY <2>2
<1>8. QED
    BY <1>7 DEF Last

(* Gluing a row to the last line breaks that line and no other.            *)
LEMMA Glued ==
    ASSUME NEW S, NEW l \in Seq(S), l # <<>>, Torn \in S
    PROVE  /\ [l EXCEPT ![Len(l)] = Torn] \in Seq(S)
           /\ [l EXCEPT ![Len(l)] = Torn] # <<>>
           /\ Len([l EXCEPT ![Len(l)] = Torn]) = Len(l)
           /\ [l EXCEPT ![Len(l)] = Torn][Len(l)] = Torn
           /\ \A j \in 1..Len(l) : j # Len(l) => [l EXCEPT ![Len(l)] = Torn][j] = l[j]
<1>1. Len(l) \in Nat /\ Len(l) > 0 /\ DOMAIN l = 1..Len(l)
    BY EmptySeq, LenProperties
<1>2. /\ [l EXCEPT ![Len(l)] = Torn] \in Seq(S)
      /\ Len([l EXCEPT ![Len(l)] = Torn]) = Len(l)
    BY <1>1
<1> DEFINE n == Len(l)
<1>3. l \in [1..n -> S] /\ n \in 1..n /\ n # 0
    BY <1>1, LenProperties
<1> HIDE DEF n
<1>4. /\ [l EXCEPT ![n] = Torn][n] = Torn
      /\ \A j \in 1..n : j # n => [l EXCEPT ![n] = Torn][j] = l[j]
    BY <1>3, Zenon
<1>5. [l EXCEPT ![n] = Torn] # <<>>
    <2>1. [l EXCEPT ![n] = Torn] \in Seq(S) /\ Len([l EXCEPT ![n] = Torn]) # 0
        BY <1>2, <1>3, Zenon DEF n
    <2> QED BY <2>1, EmptySeq, Zenon
<1> QED BY <1>2, <1>4, <1>5, Zenon DEF n

(* Appending a row leaves a file of rows, ...                              *)
LEMMA PutIsSeq ==
    ASSUME NEW S, NEW l \in Seq(S), NEW u \in BOOLEAN, u => l # <<>>,
           NEW row \in S, Torn \in S
    PROVE  Put(l, u, row) \in Seq(S) /\ Put(l, u, row) # <<>>
<1>1. CASE u
    BY <1>1, Glued, Zenon DEF Put
<1>2. CASE ~u
    BY <1>2 DEF Put
<1> QED BY <1>1, <1>2

(* ... one line longer unless the last one was unended, ...                *)
LEMMA PutLen ==
    ASSUME NEW S, NEW l \in Seq(S), NEW u \in BOOLEAN, u => l # <<>>,
           NEW row \in S, Torn \in S
    PROVE  Len(Put(l, u, row)) = IF u THEN Len(l) ELSE Len(l) + 1
<1>1. CASE u
    BY <1>1, Glued, Zenon DEF Put
<1>2. CASE ~u
    BY <1>2 DEF Put
<1> QED BY <1>1, <1>2

(* ... which ends in the row, or in what it was glued to, ...              *)
LEMMA PutEnd ==
    ASSUME NEW S, NEW l \in Seq(S), NEW u \in BOOLEAN, u => l # <<>>,
           NEW row \in S, Torn \in S
    PROVE  Put(l, u, row)[Len(Put(l, u, row))] = IF u THEN Torn ELSE row
<1>1. CASE u
    BY <1>1, Glued, Zenon DEF Put
<1>2. CASE ~u
    <2>1. Append(l, row)[Len(Append(l, row))] = row
        OBVIOUS
    <2> QED BY <1>2, <2>1, Zenon DEF Put
<1> QED BY <1>1, <1>2

(* ... and has every other line as it was.                                 *)
LEMMA PutRest ==
    ASSUME NEW S, NEW l \in Seq(S), NEW u \in BOOLEAN, u => l # <<>>,
           NEW row \in S, Torn \in S
    PROVE  \A j \in 1..Len(l) :
                j < Len(Put(l, u, row)) => Put(l, u, row)[j] = l[j]
<1>1. CASE u
    <2>1. \A j \in 1..Len(l) : j < Len(l) => j # Len(l)
        OBVIOUS
    <2> QED BY <1>1, <2>1, Glued, Zenon DEF Put
<1>2. CASE ~u
    <2>1. \A j \in 1..Len(l) : Append(l, row)[j] = l[j]
        OBVIOUS
    <2> QED BY <1>2, <2>1, Zenon DEF Put
<1> QED BY <1>1, <1>2

(* The rows that can be read back, and the lines that cannot.              *)
WholeRows(l) == {l[i] : i \in {j \in DOMAIN l : l[j] # Torn}}
TornLines(l) == {i \in DOMAIN l : l[i] = Torn}

(* A line that is appended to an ended file adds itself, and one that is   *)
(* glued to an unended line takes that line with it.                       *)
AddsItself(l, row, m) ==
    /\ WholeRows(m) = WholeRows(l) \union ({row} \ {Torn})
    /\ TornLines(m) = TornLines(l) \union (IF row = Torn THEN {Len(l) + 1} ELSE {})

TakesTheLast(l, m) ==
    /\ WholeRows(m) \subseteq WholeRows(l)
    /\ \A o \in WholeRows(l) : o # l[Len(l)] => o \in WholeRows(m)
    /\ TornLines(m) = TornLines(l) \union {Len(l)}

LEMMA PutReads ==
    ASSUME NEW S, NEW l \in Seq(S), NEW u \in BOOLEAN, u => l # <<>>,
           NEW row \in S, Torn \in S
    PROVE  /\ Put(l, u, row) \in Seq(S) /\ Put(l, u, row) # <<>>
           /\ Put(l, u, row)[Len(Put(l, u, row))] = IF u THEN Torn ELSE row
           /\ ~u => AddsItself(l, row, Put(l, u, row))
           /\ u => TakesTheLast(l, Put(l, u, row))
<1> DEFINE m == Put(l, u, row)
<1>1. m \in Seq(S) /\ m # <<>>
    BY PutIsSeq, Zenon
<1>2. /\ Len(m) = IF u THEN Len(l) ELSE Len(l) + 1
      /\ m[Len(m)] = IF u THEN Torn ELSE row
      /\ \A j \in 1 .. Len(l) : j < Len(m) => m[j] = l[j]
    <2>1. Len(m) = IF u THEN Len(l) ELSE Len(l) + 1
        BY PutLen, Zenon
    <2>2. m[Len(m)] = IF u THEN Torn ELSE row
        BY PutEnd, Zenon
    <2>3. \A j \in 1 .. Len(l) : j < Len(m) => m[j] = l[j]
        BY PutRest, Zenon
    <2> QED BY <2>1, <2>2, <2>3
<1>3. DOMAIN m = 1 .. Len(m) /\ DOMAIN l = 1 .. Len(l) /\ Len(l) \in Nat
    BY <1>1, LenProperties
<1> HIDE DEF m
<1>4. ASSUME ~u
      PROVE  AddsItself(l, row, m)
    <2>1. /\ DOMAIN m = DOMAIN l \union {Len(l) + 1} /\ m[Len(l) + 1] = row
          /\ \A j \in DOMAIN l : m[j] = l[j]
        BY <1>2, <1>3, <1>4
    <2> QED BY <2>1, ZenonT(60) DEF WholeRows, TornLines, AddsItself
<1>5. ASSUME u
      PROVE  TakesTheLast(l, m)
    <2>1. Len(l) # 0
        BY <1>5, EmptySeq, LenProperties
    <2>2. /\ DOMAIN m = DOMAIN l /\ Len(l) \in DOMAIN l /\ m[Len(l)] = Torn
          /\ \A j \in DOMAIN l : j # Len(l) => m[j] = l[j]
        BY <1>2, <1>3, <1>5, <2>1
    <2> QED BY <2>2, Zenon DEF WholeRows, TornLines, TakesTheLast
<1> QED BY <1>1, <1>2, <1>4, <1>5, Zenon DEF m
=============================================================================
