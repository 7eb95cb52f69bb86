--------------------------- MODULE RawHourProofs ----------------------------
(***************************************************************************)
(* Proofs about RawHour, for every bound, every set of faults and either   *)
(* kind of compressor.                                                     *)
(*                                                                         *)
(* Most steps only move lines from a compressor to its file, and leave     *)
(* AllRaw and AllIdx as they were; the invariant is therefore stated of    *)
(* those two sequences.  Three kinds of step change them: an append, which *)
(* extends both by one; a crash or a failed boundary, which cuts each to a *)
(* prefix; and a repair, which rebuilds the index from the raw lines.      *)
(***************************************************************************)
EXTENDS RawHour, SequenceTheorems, TLAPS

-----------------------------------------------------------------------------
(* Files and compressors.                                                  *)

(* The lines a spill takes from a compressor, and those it leaves, are the *)
(* lines the compressor held.                                              *)
LEMMA TakenLeft ==
    ASSUME NEW S, NEW buf \in Seq(S), NEW k \in 0 .. Len(buf)
    PROVE  /\ Taken(buf, k) \in Seq(S) /\ Left(buf, k) \in Seq(S)
           /\ Taken(buf, k) \o Left(buf, k) = buf
<1>1. Len(buf) \in Nat /\ \A i \in 1 .. Len(buf) : buf[i] \in S
  BY LenProperties, ElementOfSeq
<1>2. Taken(buf, k) \in Seq(S)
  BY <1>1, SubSeqProperties DEF Taken
<1>3. Left(buf, k) \in Seq(S)
  BY <1>1, SubSeqProperties DEF Left
<1>4. Taken(buf, k) \o Left(buf, k) = SubSeq(buf, 1, Len(buf))
  <2>1. 1 \in 1 .. Len(buf) + 1 /\ k \in 1 - 1 .. Len(buf) /\ Len(buf) \in k .. Len(buf)
    BY <1>1
  <2> QED BY <2>1, ConcatAdjacentSubSeq DEF Taken, Left
<1> QED BY <1>2, <1>3, <1>4, SubSeqFull

(* A spill moves lines: file and compressor together hold what they held.  *)
LEMMA SpillMoves ==
    ASSUME NEW S, NEW file \in FileOf(S), file.safe <= Len(file.lines),
           NEW buf \in Seq(S), NEW k \in 0 .. Len(buf)
    PROVE  /\ Spill(file, Taken(buf, k)) \in FileOf(S)
           /\ Spill(file, Taken(buf, k)).safe <= Len(Spill(file, Taken(buf, k)).lines)
           /\ Left(buf, k) \in Seq(S)
           /\ Spill(file, Taken(buf, k)).lines \o Left(buf, k) = file.lines \o buf
           /\ Spill(file, Taken(buf, k)).lines = file.lines \o Taken(buf, k)
           /\ Spill(file, Taken(buf, k)).safe = file.safe
<1> DEFINE t == Taken(buf, k)
           b == Left(buf, k)
           f == Spill(file, t)
<1>1. t \in Seq(S) /\ b \in Seq(S) /\ t \o b = buf
  BY TakenLeft
<1>2. file.lines \in Seq(S) /\ file.safe \in Nat /\ file.ends \in SUBSET Nat
  BY DEF FileOf
<1>3. /\ f = [lines |-> file.lines \o t, safe |-> file.safe,
              ends |-> file.ends, torn |-> TRUE]
  BY DEF Spill
<1> HIDE DEF t, b, f
<1>4. file.lines \o t \in Seq(S) /\ Len(file.lines \o t) = Len(file.lines) + Len(t)
  BY <1>1, <1>2, ConcatProperties
<1>5. Len(file.lines) \in Nat /\ Len(t) \in Nat
  BY <1>1, <1>2, LenProperties
<1>6. f \in FileOf(S) /\ f.safe <= Len(f.lines)
  BY <1>2, <1>3, <1>4, <1>5 DEF FileOf
<1>7. f.lines \o b = file.lines \o buf
  <2>1. f.lines = file.lines \o t
    BY <1>3
  <2>2. \A x, y, z \in Seq(S) : (x \o y) \o z = x \o (y \o z)
    BY ConcatAssociative, SMTT(60)
  <2>3. (file.lines \o t) \o b = file.lines \o (t \o b)
    BY <1>1, <1>2, <2>2, ZenonT(60)
  <2> QED BY <1>1, <2>1, <2>3
<1>8. f.lines = file.lines \o t /\ f.safe = file.safe
  BY <1>3
<1> QED BY <1>1, <1>6, <1>7, <1>8, Zenon DEF t, b, f

(* So does a frame boundary, which empties the compressor.                 *)
LEMMA BoundaryMoves ==
    ASSUME NEW S, NEW file \in FileOf(S), file.safe <= Len(file.lines),
           NEW buf \in Seq(S)
    PROVE  LET f == Boundary(file, buf)
           IN  /\ f \in FileOf(S) /\ f.safe <= Len(f.lines)
               /\ f.lines = file.lines \o buf
               /\ f.lines \o <<>> = file.lines \o buf
               /\ f.safe = file.safe
<1> DEFINE f == Boundary(file, buf)
<1>1. file.lines \in Seq(S) /\ file.safe \in Nat /\ file.ends \in SUBSET Nat
  BY DEF FileOf
<1>2. /\ f = [lines |-> file.lines \o buf, safe |-> file.safe,
              ends |-> file.ends \union {Len(file.lines) + Len(buf)}, torn |-> FALSE]
  BY DEF Boundary
<1> HIDE DEF f
<1>3. /\ file.lines \o buf \in Seq(S)
      /\ Len(file.lines \o buf) = Len(file.lines) + Len(buf)
  BY <1>1, ConcatProperties
<1>4. Len(file.lines) \in Nat /\ Len(buf) \in Nat
  BY <1>1, LenProperties
<1>5. f \in FileOf(S) /\ f.safe <= Len(f.lines)
  BY <1>1, <1>2, <1>3, <1>4 DEF FileOf
<1>6. f.lines \o <<>> = file.lines \o buf
  BY <1>2, <1>3, ConcatEmptySeq
<1>7. f.lines = file.lines \o buf /\ f.safe = file.safe
  BY <1>2
<1> QED BY <1>5, <1>6, <1>7, Zenon DEF f

LEMMA SyncedKeeps ==
    ASSUME NEW S, NEW file \in FileOf(S)
    PROVE  LET f == Synced(file)
           IN  /\ f \in FileOf(S) /\ f.safe = Len(f.lines) /\ f.lines = file.lines
BY LenProperties DEF FileOf, Synced

LEMMA RewrittenHolds ==
    ASSUME NEW S, NEW lines \in Seq(S)
    PROVE  LET f == Rewritten(lines)
           IN  /\ f \in FileOf(S) /\ f.safe = Len(f.lines) /\ f.lines = lines
BY LenProperties DEF FileOf, Rewritten

(* What survives a power loss is a prefix with every durable line.         *)
LEMMA SurvivorsArePrefixes ==
    ASSUME NEW S, NEW file \in FileOf(S), NEW f \in Survivors(file)
    PROVE  /\ f \in FileOf(S)
           /\ \E k \in file.safe .. Len(file.lines) :
                f.lines = SubSeq(file.lines, 1, k) /\ f.safe = k /\ Len(f.lines) = k
<1>1. /\ file.lines \in Seq(S) /\ file.safe \in Nat /\ file.ends \in SUBSET Nat
      /\ Len(file.lines) \in Nat /\ \A i \in 1 .. Len(file.lines) : file.lines[i] \in S
  BY LenProperties, ElementOfSeq DEF FileOf
<1>2. PICK p \in (file.safe .. Len(file.lines)) \X BOOLEAN :
         f = [lines |-> SubSeq(file.lines, 1, p[1]), safe |-> p[1],
              ends |-> {b \in file.ends : b <= p[1]}, torn |-> p[2]]
  BY Zenon DEF Survivors
<1>3. p[1] \in file.safe .. Len(file.lines) /\ p[2] \in BOOLEAN
  OBVIOUS
<1>4. /\ SubSeq(file.lines, 1, p[1]) \in Seq(S)
      /\ Len(SubSeq(file.lines, 1, p[1])) = p[1]
  BY <1>1, <1>3, SubSeqProperties
<1>5. {b \in file.ends : b <= p[1]} \in SUBSET Nat
  BY <1>1
<1>6. f \in FileOf(S)
  BY <1>1, <1>2, <1>3, <1>4, <1>5 DEF FileOf
<1> QED BY <1>2, <1>3, <1>4, <1>6

-----------------------------------------------------------------------------
(* The two sequences of the invariant.                                     *)

LEMMA AllType ==
    ASSUME TypeOK
    PROVE  /\ AllRaw \in Seq(Nat) /\ Len(AllRaw) = Len(raw.lines) + Len(rawBuf)
           /\ AllIdx \in Seq(Entry) /\ Len(AllIdx) = Len(idx.lines) + Len(idxBuf)
           /\ Len(raw.lines) \in Nat /\ Len(rawBuf) \in Nat
           /\ Len(idx.lines) \in Nat /\ Len(idxBuf) \in Nat
           /\ \A i \in 1 .. Len(raw.lines) : AllRaw[i] = raw.lines[i]
           /\ \A i \in 1 .. Len(idx.lines) : AllIdx[i] = idx.lines[i]
<1>1. raw.lines \in Seq(Nat) /\ rawBuf \in Seq(Nat)
  BY DEF TypeOK, FileOf
<1>2. idx.lines \in Seq(Entry) /\ idxBuf \in Seq(Entry)
  BY DEF TypeOK, FileOf
<1>3. /\ Len(raw.lines) \in Nat /\ Len(rawBuf) \in Nat
      /\ Len(idx.lines) \in Nat /\ Len(idxBuf) \in Nat
  BY <1>1, <1>2, LenProperties
<1>4. /\ AllRaw \in Seq(Nat) /\ Len(AllRaw) = Len(raw.lines) + Len(rawBuf)
      /\ \A i \in 1 .. Len(raw.lines) : AllRaw[i] = raw.lines[i]
  BY <1>1, <1>3, ConcatProperties DEF AllRaw
<1>5. /\ AllIdx \in Seq(Entry) /\ Len(AllIdx) = Len(idx.lines) + Len(idxBuf)
      /\ \A i \in 1 .. Len(idx.lines) : AllIdx[i] = idx.lines[i]
  BY <1>2, <1>3, ConcatProperties DEF AllIdx
<1> QED BY <1>3, <1>4, <1>5

(* With both compressors empty the two sequences are the files.            *)
LEMMA AllWhenEmpty ==
    ASSUME TypeOK
    PROVE  /\ rawBuf = <<>> => AllRaw = raw.lines
           /\ idxBuf = <<>> => AllIdx = idx.lines
BY ConcatEmptySeq DEF TypeOK, FileOf, AllRaw, AllIdx

(* A step that cuts each sequence, or leaves it, keeps what is true of     *)
(* their elements.                                                         *)
LEMMA CutKeeps ==
    ASSUME Contiguous, Truthful,
           Len(AllRaw) \in Nat, Len(AllIdx) \in Nat,
           Len(AllRaw') \in Nat, Len(AllIdx') \in Nat,
           Len(AllRaw') <= Len(AllRaw), Len(AllIdx') <= Len(AllIdx),
           \A i \in 1 .. Len(AllRaw') : AllRaw'[i] = AllRaw[i],
           \A i \in 1 .. Len(AllIdx') : AllIdx'[i] = AllIdx[i]
    PROVE  Contiguous' /\ Truthful'
<1>1. Contiguous'
  BY SMTT(60) DEF Contiguous
<1>2. Truthful'
  <2> SUFFICES ASSUME NEW i \in 1 .. Len(AllIdx'), i <= Len(AllRaw')
               PROVE  AllIdx'[i].frame \in {AllRaw'[i], Recovered}
    BY DEF Truthful
  <2>1. i \in 1 .. Len(AllIdx) /\ i <= Len(AllRaw)
    OBVIOUS
  <2>2. AllIdx[i].frame \in {AllRaw[i], Recovered}
    BY <2>1 DEF Truthful
  <2>3. AllIdx'[i] = AllIdx[i] /\ AllRaw'[i] = AllRaw[i]
    OBVIOUS
  <2> QED BY <2>2, <2>3
<1> QED BY <1>1, <1>2

LEMMA StayKeeps ==
    ASSUME Contiguous, Truthful, AllRaw' = AllRaw, AllIdx' = AllIdx
    PROVE  Contiguous' /\ Truthful'
BY DEF Contiguous, Truthful

-----------------------------------------------------------------------------
LEMMA InitIInv == Init => IInv
<1> SUFFICES ASSUME Init PROVE IInv
  OBVIOUS
<1>1. NewFile \in FileOf(Nat) /\ NewFile \in FileOf(Entry)
  BY EmptySeq DEF NewFile, FileOf
<1>2. NewFile.safe = 0 /\ NewFile.lines = <<>>
  BY DEF NewFile
<1>3. TypeOK
  BY <1>1, <1>2, EmptySeq DEF Init, TypeOK, Places
<1>4. AllRaw = <<>> /\ AllIdx = <<>>
  BY <1>2, <1>3, AllWhenEmpty DEF Init
<1>5. Contiguous /\ Truthful
  BY <1>4, EmptySeq DEF Contiguous, Truthful
<1>6. BuffersEmptied /\ ReasonFits /\ BothExact /\ RememberedIsLevel
  BY DEF Init, BuffersEmptied, ReasonFits, BothExact, RememberedIsLevel, IsOpen
<1> QED BY <1>3, <1>5, <1>6 DEF IInv

(* Steps of a recorder with the hour closed, or of the pass before it,     *)
(* that touch neither file.                                                *)
LEMMA QuietStep ==
    ASSUME IInv, RepairSkips \/ Refuse
    PROVE  IInv'
<1>1. /\ UNCHANGED <<raw, idx, rawBuf, idxBuf, n, why, closed, quar, arrived, failures>>
      /\ pc \in {"down", "closed"} /\ pc' \in {"closed", "refused"}
  BY DEF RepairSkips, Refuse, files, bufs
<1>2. TypeOK'
  BY <1>1 DEF IInv, TypeOK, Places
<1>3. AllRaw' = AllRaw /\ AllIdx' = AllIdx
  BY <1>1 DEF AllRaw, AllIdx
<1>4. Contiguous' /\ Truthful'
  BY <1>3, StayKeeps DEF IInv
<1>5. (BuffersEmptied /\ ReasonFits /\ BothExact /\ RememberedIsLevel)'
  BY <1>1 DEF IInv, BuffersEmptied, ReasonFits, BothExact, RememberedIsLevel, IsOpen
<1> QED BY <1>2, <1>4, <1>5 DEF IInv

(* The rebuilt index has one entry per raw line, each in its place.        *)
LEMMA Rebuilding ==
    ASSUME IInv, pc = "down"
    PROVE  /\ RebuiltIndex \in Seq(Entry)
           /\ Len(RebuiltIndex) = Len(raw.lines)
           /\ \A i \in 1 .. Len(raw.lines) :
                /\ RebuiltIndex[i].n = i - 1
                /\ RebuiltIndex[i].frame \in {raw.lines[i], Recovered}
<1>1. TypeOK /\ rawBuf = <<>> /\ idxBuf = <<>>
  BY DEF IInv, BuffersEmptied, IsOpen
<1>2. AllRaw = raw.lines /\ AllIdx = idx.lines
  BY <1>1, AllWhenEmpty
<1>3. /\ Len(raw.lines) \in Nat /\ Len(idx.lines) \in Nat
      /\ idx.lines \in Seq(Entry)
  BY <1>1, AllType DEF TypeOK, FileOf
<1>4. ASSUME NEW i \in 1 .. Len(raw.lines)
      PROVE  /\ EntryFor(i - 1) \in Entry
             /\ EntryFor(i - 1).n = i - 1
             /\ EntryFor(i - 1).frame \in {raw.lines[i], Recovered}
  <2>1. CASE \E j \in 1 .. Len(idx.lines) : idx.lines[j].n = i - 1
    <3> DEFINE j == CHOOSE j \in 1 .. Len(idx.lines) : idx.lines[j].n = i - 1
    <3>1. j \in 1 .. Len(idx.lines) /\ idx.lines[j].n = i - 1
      BY <2>1
    <3>2. EntryFor(i - 1) = idx.lines[j]
      BY <2>1 DEF EntryFor
    <3> HIDE DEF j
    <3>3. idx.lines[j].n = j - 1
      BY <1>2, <3>1 DEF IInv, Contiguous
    <3>4. j = i
      BY <1>3, <3>1, <3>3
    <3>5. idx.lines[j].frame \in {raw.lines[i], Recovered}
      BY <1>2, <1>3, <3>1, <3>4 DEF IInv, Truthful
    <3>6. idx.lines[j] \in Entry
      BY <1>3, <3>1, ElementOfSeq
    <3> QED BY <3>1, <3>2, <3>5, <3>6
  <2>2. CASE ~\E j \in 1 .. Len(idx.lines) : idx.lines[j].n = i - 1
    <3>1. EntryFor(i - 1) = [n |-> i - 1, frame |-> Recovered]
      BY <2>2 DEF EntryFor
    <3>2. i - 1 \in Nat
      BY <1>3
    <3> QED BY <3>1, <3>2 DEF Entry
  <2> QED BY <2>1, <2>2
<1>5. RebuiltIndex \in [1 .. Len(raw.lines) -> Entry]
  BY <1>4 DEF RebuiltIndex
<1>6. RebuiltIndex \in Seq(Entry) /\ Len(RebuiltIndex) = Len(raw.lines)
  BY <1>3, <1>5, SeqDef, LenProperties
<1>7. \A i \in 1 .. Len(raw.lines) : RebuiltIndex[i] = EntryFor(i - 1)
  BY DEF RebuiltIndex
<1> QED BY <1>4, <1>6, <1>7

LEMMA RepairIndexStep ==
    ASSUME IInv, RepairIndex
    PROVE  IInv'
<1>1. /\ pc = "down" /\ pc' \in {"repairing", "closed"}
      /\ idx' = Rewritten(RebuiltIndex)
      /\ quar' = quar \union {idx.lines[i] : i \in 1 .. Len(idx.lines)}
      /\ UNCHANGED <<raw, rawBuf, idxBuf, n, why, closed, arrived, failures>>
  BY DEF RepairIndex, bufs
<1>2. /\ TypeOK /\ rawBuf = <<>> /\ idxBuf = <<>> /\ why = "flush"
  BY <1>1 DEF IInv, BuffersEmptied, ReasonFits, IsOpen
<1>3. /\ idx' \in FileOf(Entry) /\ idx'.safe = Len(idx'.lines)
      /\ idx'.lines = RebuiltIndex
  BY <1>1, Rebuilding, RewrittenHolds
<1>4. Len(idx'.lines) \in Nat
  BY <1>3, LenProperties DEF FileOf
<1>5. quar' \subseteq Entry
  <2>1. idx.lines \in Seq(Entry) /\ quar \subseteq Entry
    BY <1>2 DEF TypeOK, FileOf
  <2> QED BY <1>1, <2>1, ElementOfSeq
<1>6. TypeOK'
  BY <1>1, <1>2, <1>3, <1>4, <1>5 DEF TypeOK, Places
<1>7. AllRaw' = raw.lines /\ AllIdx' = RebuiltIndex
  <2>1. AllRaw' = raw'.lines \o rawBuf' /\ AllIdx' = idx'.lines \o idxBuf'
    BY DEF AllRaw, AllIdx
  <2>2. raw'.lines \in Seq(Nat) /\ idx'.lines \in Seq(Entry)
    BY <1>6 DEF TypeOK, FileOf
  <2> QED BY <1>1, <1>2, <1>3, <2>1, <2>2, ConcatEmptySeq
<1>8. Contiguous' /\ Truthful'
  BY <1>1, <1>7, Rebuilding DEF Contiguous, Truthful
<1>9. (BuffersEmptied /\ ReasonFits /\ BothExact /\ RememberedIsLevel)'
  BY <1>1, <1>2 DEF IInv, BuffersEmptied, ReasonFits, BothExact, RememberedIsLevel, IsOpen
<1> QED BY <1>6, <1>8, <1>9 DEF IInv

LEMMA RepairRawStep ==
    ASSUME IInv, RepairRaw
    PROVE  IInv'
<1>1. /\ pc = "repairing" /\ pc' = "closed" /\ raw' = Rewritten(raw.lines)
      /\ UNCHANGED <<idx, rawBuf, idxBuf, n, why, closed, quar, arrived, failures>>
  BY DEF RepairRaw, bufs
<1>2. TypeOK
  BY DEF IInv
<1>3. raw' \in FileOf(Nat) /\ raw'.safe = Len(raw'.lines) /\ raw'.lines = raw.lines
  <2>1. raw.lines \in Seq(Nat)
    BY <1>2 DEF TypeOK, FileOf
  <2> QED BY <1>1, <2>1, RewrittenHolds
<1>4. Len(raw'.lines) \in Nat
  BY <1>3, LenProperties DEF FileOf
<1>5. TypeOK'
  BY <1>1, <1>2, <1>3, <1>4 DEF TypeOK, Places
<1>6. AllRaw' = AllRaw /\ AllIdx' = AllIdx
  BY <1>1, <1>3 DEF AllRaw, AllIdx
<1>7. Contiguous' /\ Truthful'
  BY <1>6, StayKeeps DEF IInv
<1>8. (BuffersEmptied /\ ReasonFits /\ BothExact /\ RememberedIsLevel)'
  BY <1>1 DEF IInv, BuffersEmptied, ReasonFits, BothExact, RememberedIsLevel, IsOpen
<1> QED BY <1>5, <1>7, <1>8 DEF IInv

-----------------------------------------------------------------------------
(* Appending.                                                              *)

(* Wherever the writer stands when it accepts a frame, both files are      *)
(* level with that position.                                               *)
LEMMA PositionIsLevel ==
    ASSUME IInv, Accepts
    PROVE  /\ Position \in Nat
           /\ Position = Len(AllRaw) /\ Position = Len(AllIdx)
           /\ why = "flush" /\ pc \in {"open", "closed"}
<1>1. TypeOK
  BY DEF IInv
<1>2. CASE pc = "open"
  <2>1. Position = n /\ IsOpen /\ why = "flush"
    BY <1>2 DEF Position, IsOpen, IInv, ReasonFits
  <2> QED BY <1>1, <1>2, <2>1 DEF IInv, BothExact, TypeOK
<1>3. CASE pc = "closed"
  <2>1. rawBuf = <<>> /\ idxBuf = <<>> /\ why = "flush"
    BY <1>3 DEF IInv, BuffersEmptied, ReasonFits, IsOpen
  <2>2. AllRaw = raw.lines /\ AllIdx = idx.lines
    BY <1>1, <2>1, AllWhenEmpty
  <2>3. Len(raw.lines) \in Nat
    BY <1>1, AllType
  <2>4. Position = ResumePosition /\ (Remembered \/ Appendable)
    BY <1>3 DEF Accepts, Position
  <2>5. ResumePosition = Len(raw.lines) /\ Len(raw.lines) = Len(idx.lines)
    <3>1. CASE Remembered
      BY <3>1 DEF IInv, RememberedIsLevel, Remembered, ResumePosition
    <3>2. CASE ~Remembered
      BY <2>4, <3>2 DEF ResumePosition, Appendable
    <3> QED BY <3>1, <3>2
  <2> QED BY <1>3, <2>1, <2>2, <2>3, <2>4, <2>5
<1> QED BY <1>2, <1>3 DEF Accepts

LEMMA AppendConcat ==
    ASSUME NEW S, NEW s \in Seq(S), NEW t \in Seq(S), NEW e \in S
    PROVE  s \o Append(t, e) = Append(s \o t, e)
<1>1. Append(t, e) = t \o <<e>> /\ <<e>> \in Seq(S)
  BY AppendIsConcat
<1>2. Append(s \o t, e) = (s \o t) \o <<e>>
  BY ConcatProperties, AppendIsConcat
<1>3. (s \o t) \o <<e>> = s \o (t \o <<e>>)
  BY <1>1, ConcatAssociative
<1> QED BY <1>1, <1>2, <1>3

(* One more frame, and one more entry that names it, at the same place.    *)
LEMMA GrowKeeps ==
    ASSUME Contiguous, Truthful,
           AllRaw \in Seq(Nat), AllIdx \in Seq(Entry),
           Len(AllRaw) = Len(AllIdx), NEW f \in Nat,
           AllRaw' = Append(AllRaw, f),
           AllIdx' = Append(AllIdx, [n |-> Len(AllIdx), frame |-> f])
    PROVE  Contiguous' /\ Truthful'
<1> DEFINE e == [n |-> Len(AllIdx), frame |-> f]
<1>1. Len(AllIdx) \in Nat /\ e \in Entry
  BY LenProperties DEF Entry
<1>2. /\ Len(AllIdx') = Len(AllIdx) + 1
      /\ \A i \in 1 .. Len(AllIdx) : AllIdx'[i] = AllIdx[i]
      /\ AllIdx'[Len(AllIdx) + 1] = e
  BY <1>1, AppendProperties
<1>3. /\ Len(AllRaw') = Len(AllRaw) + 1
      /\ \A i \in 1 .. Len(AllRaw) : AllRaw'[i] = AllRaw[i]
      /\ AllRaw'[Len(AllRaw) + 1] = f
  BY AppendProperties
<1> SUFFICES ASSUME NEW i \in 1 .. Len(AllIdx')
             PROVE  /\ AllIdx'[i].n = i - 1
                    /\ AllIdx'[i].frame \in {AllRaw'[i], Recovered}
  BY DEF Contiguous, Truthful
<1>4. CASE i \in 1 .. Len(AllIdx)
  <2>1. AllIdx'[i] = AllIdx[i] /\ AllRaw'[i] = AllRaw[i]
    BY <1>2, <1>3, <1>4
  <2>2. AllIdx[i].n = i - 1 /\ AllIdx[i].frame \in {AllRaw[i], Recovered}
    BY <1>1, <1>4 DEF Contiguous, Truthful
  <2> QED BY <2>1, <2>2
<1>5. CASE i = Len(AllIdx) + 1
  <2>1. AllIdx'[i] = e /\ AllRaw'[i] = f
    BY <1>2, <1>3, <1>5
  <2> QED BY <1>1, <1>5, <2>1
<1> QED BY <1>1, <1>2, <1>4, <1>5

(* A write leaves the old lines and the new one, in order, in the file and *)
(* its compressor.                                                         *)
LEMMA RawTakesOne ==
    ASSUME TypeOK, NEW line \in Nat, RawTakes(line)
    PROVE  /\ raw' \in FileOf(Nat) /\ raw'.safe <= Len(raw'.lines) /\ rawBuf' \in Seq(Nat)
           /\ AllRaw' = Append(AllRaw, line)
<1> DEFINE buf == Append(rawBuf, line)
<1>1. /\ raw \in FileOf(Nat) /\ raw.safe <= Len(raw.lines)
      /\ raw.lines \in Seq(Nat) /\ rawBuf \in Seq(Nat)
  BY DEF TypeOK, FileOf
<1>2. buf \in Seq(Nat)
  BY <1>1, AppendProperties
<1>3. \A s, t \in Seq(Nat), f \in Nat : s \o Append(t, f) = Append(s \o t, f)
  BY AppendConcat
<1>4. raw.lines \o buf = Append(AllRaw, line)
  BY <1>1, <1>3 DEF AllRaw
<1>5. AllRaw' = raw'.lines \o rawBuf'
  BY DEF AllRaw
<1> HIDE DEF buf
<1>6. CASE raw' = raw /\ rawBuf' = buf
  BY <1>1, <1>2, <1>4, <1>5, <1>6
<1>7. ASSUME NEW k \in 0 .. Len(buf), raw' = Spill(raw, Taken(buf, k)), rawBuf' = Left(buf, k)
      PROVE  /\ raw' \in FileOf(Nat) /\ raw'.safe <= Len(raw'.lines) /\ rawBuf' \in Seq(Nat)
             /\ raw'.lines \o rawBuf' = raw.lines \o buf
  BY <1>1, <1>2, <1>7, SpillMoves
<1> QED BY <1>4, <1>5, <1>6, <1>7 DEF RawTakes, buf

LEMMA IdxTakesOne ==
    ASSUME TypeOK, NEW e \in Entry, IdxTakes(e)
    PROVE  /\ idx' \in FileOf(Entry) /\ idx'.safe <= Len(idx'.lines) /\ idxBuf' \in Seq(Entry)
           /\ AllIdx' = Append(AllIdx, e)
<1> DEFINE buf == Append(idxBuf, e)
<1>1. /\ idx \in FileOf(Entry) /\ idx.safe <= Len(idx.lines)
      /\ idx.lines \in Seq(Entry) /\ idxBuf \in Seq(Entry)
  BY DEF TypeOK, FileOf
<1>2. buf \in Seq(Entry)
  BY <1>1, AppendProperties
<1>3. \A s, t \in Seq(Entry), f \in Entry : s \o Append(t, f) = Append(s \o t, f)
  BY AppendConcat
<1>4. idx.lines \o buf = Append(AllIdx, e)
  BY <1>1, <1>3 DEF AllIdx
<1>5. AllIdx' = idx'.lines \o idxBuf'
  BY DEF AllIdx
<1> HIDE DEF buf
<1>6. CASE idx' = idx /\ idxBuf' = buf
  BY <1>1, <1>2, <1>4, <1>5, <1>6
<1>7. ASSUME NEW k \in 0 .. Len(buf), idx' = Spill(idx, Taken(buf, k)), idxBuf' = Left(buf, k)
      PROVE  /\ idx' \in FileOf(Entry) /\ idx'.safe <= Len(idx'.lines) /\ idxBuf' \in Seq(Entry)
             /\ idx'.lines \o idxBuf' = idx.lines \o buf
  BY <1>1, <1>2, <1>7, SpillMoves
<1> QED BY <1>4, <1>5, <1>6, <1>7 DEF IdxTakes, buf

LEMMA AppendFrameStep ==
    ASSUME IInv, AppendFrame
    PROVE  IInv'
<1>1. /\ Accepts /\ arrived' = arrived + 1 /\ n' = Position + 1 /\ pc' = "open"
      /\ UNCHANGED <<why, closed, quar, failures>>
      /\ RawTakes(arrived') /\ IdxTakes([n |-> Position, frame |-> arrived'])
  BY DEF AppendFrame
<1>2. TypeOK
  BY DEF IInv
<1>3. /\ Position \in Nat /\ Position = Len(AllRaw) /\ Position = Len(AllIdx)
      /\ why = "flush"
  BY <1>1, PositionIsLevel
<1> DEFINE e == [n |-> Position, frame |-> arrived']
<1>4. arrived' \in Nat /\ e \in Entry
  BY <1>1, <1>2, <1>3 DEF TypeOK, Entry
<1>5. /\ raw' \in FileOf(Nat) /\ raw'.safe <= Len(raw'.lines) /\ rawBuf' \in Seq(Nat)
      /\ AllRaw' = Append(AllRaw, arrived')
  BY <1>1, <1>2, <1>4, RawTakesOne
<1>6. /\ idx' \in FileOf(Entry) /\ idx'.safe <= Len(idx'.lines) /\ idxBuf' \in Seq(Entry)
      /\ AllIdx' = Append(AllIdx, e)
  BY <1>1, <1>2, <1>4, IdxTakesOne
<1>10. AllRaw \in Seq(Nat) /\ AllIdx \in Seq(Entry)
  BY <1>2, AllType
<1>11. /\ Len(AllRaw') = Len(AllRaw) + 1
       /\ Len(AllIdx') = Len(AllIdx) + 1
  BY <1>4, <1>5, <1>6, <1>10, AppendProperties
<1>12. TypeOK'
  BY <1>1, <1>2, <1>3, <1>4, <1>5, <1>6 DEF TypeOK, Places
<1>13. Contiguous' /\ Truthful'
  <2>1. AllIdx' = Append(AllIdx, [n |-> Len(AllIdx), frame |-> arrived'])
    BY <1>3, <1>6
  <2> QED BY <1>3, <1>4, <1>5, <1>10, <2>1, GrowKeeps DEF IInv
<1>14. (BuffersEmptied /\ ReasonFits /\ BothExact /\ RememberedIsLevel)'
  BY <1>1, <1>3, <1>11
  DEF IInv, BuffersEmptied, ReasonFits, BothExact, RememberedIsLevel, IsOpen
<1> QED BY <1>12, <1>13, <1>14 DEF IInv

(* The failed write costs the index what its compressor held; raw has the  *)
(* frame, one past the last entry the index can still show.                *)
LEMMA AppendFailsStep ==
    ASSUME IInv, AppendFails
    PROVE  IInv'
<1>1. /\ Accepts /\ arrived' = arrived + 1 /\ n' = Position + 1 /\ pc' = "failing"
      /\ rawBuf' = Append(rawBuf, arrived') /\ idx' = Spill(idx, <<>>) /\ idxBuf' = <<>>
      /\ failures' = failures + 1
      /\ UNCHANGED <<raw, why, closed, quar>>
  BY DEF AppendFails
<1>2. TypeOK
  BY DEF IInv
<1>3. /\ Position \in Nat /\ Position = Len(AllRaw) /\ Position = Len(AllIdx)
      /\ why = "flush"
  BY <1>1, PositionIsLevel
<1>4. arrived' \in Nat /\ failures' \in Nat
  BY <1>1, <1>2 DEF TypeOK
<1>5. /\ raw.lines \in Seq(Nat) /\ rawBuf \in Seq(Nat) /\ rawBuf' \in Seq(Nat)
      /\ idx \in FileOf(Entry) /\ idx.lines \in Seq(Entry) /\ idx.safe <= Len(idx.lines)
  BY <1>1, <1>2, <1>4, AppendProperties DEF TypeOK, FileOf
<1>6. AllRaw' = Append(AllRaw, arrived')
  <2>1. \A s, t \in Seq(Nat), f \in Nat : s \o Append(t, f) = Append(s \o t, f)
    BY AppendConcat, SMTT(60)
  <2> QED BY <1>1, <1>4, <1>5, <2>1 DEF AllRaw
<1>7. /\ idx' \in FileOf(Entry) /\ idx'.lines = idx.lines /\ idx'.safe = idx.safe
  <2>1. idx.lines \o <<>> = idx.lines
    BY <1>5, ConcatEmptySeq
  <2> QED BY <1>1, <1>5, <2>1 DEF Spill, FileOf
<1>8. TypeOK'
  BY <1>1, <1>2, <1>3, <1>4, <1>5, <1>7, EmptySeq DEF TypeOK, Places
<1>9. AllIdx' = idx.lines
  BY <1>1, <1>7, <1>8, AllWhenEmpty, ConcatEmptySeq, <1>5 DEF AllIdx
<1>10. /\ AllRaw \in Seq(Nat) /\ Len(AllRaw) \in Nat
       /\ Len(idx.lines) \in Nat /\ Len(idx.lines) <= Len(AllIdx)
       /\ \A i \in 1 .. Len(idx.lines) : AllIdx[i] = idx.lines[i]
  BY <1>2, AllType, LenProperties
<1>11. /\ Len(AllRaw') = Len(AllRaw) + 1
       /\ \A i \in 1 .. Len(AllRaw) : AllRaw'[i] = AllRaw[i]
  BY <1>4, <1>6, <1>10, AppendProperties
<1>12. Contiguous' /\ Truthful'
  <2> SUFFICES ASSUME NEW i \in 1 .. Len(idx.lines)
               PROVE  /\ idx.lines[i].n = i - 1
                      /\ idx.lines[i].frame \in {AllRaw'[i], Recovered}
    BY <1>9 DEF Contiguous, Truthful
  <2>1. i \in 1 .. Len(AllIdx) /\ i \in 1 .. Len(AllRaw)
    BY <1>3, <1>10
  <2>2. AllIdx[i].n = i - 1 /\ AllIdx[i].frame \in {AllRaw[i], Recovered}
    BY <2>1, <1>10 DEF IInv, Contiguous, Truthful
  <2> QED BY <1>10, <1>11, <2>1, <2>2
<1>13. (BuffersEmptied /\ ReasonFits /\ BothExact /\ RememberedIsLevel)'
  BY <1>1, <1>3, <1>11
  DEF IInv, BuffersEmptied, ReasonFits, BothExact, RememberedIsLevel, IsOpen
<1> QED BY <1>8, <1>12, <1>13 DEF IInv

-----------------------------------------------------------------------------
(* Boundaries.                                                             *)

LEMMA RawWriteStartsStep ==
    ASSUME IInv, RawWriteStarts
    PROVE  IInv'
<1>1. /\ pc \in {"open", "failing"} /\ pc' = "rawWriting"
      /\ why' \in {"flush", "release", "exit", "broken"}
      /\ why' = "broken" <=> pc = "failing"
      /\ UNCHANGED <<idx, idxBuf, n, closed, quar, arrived, failures>>
  BY DEF RawWriteStarts
<1>2. TypeOK
  BY DEF IInv
<1>3. PICK k \in WholeLines(rawBuf) :
        raw' = Spill(raw, Taken(rawBuf, k)) /\ rawBuf' = Left(rawBuf, k)
  BY DEF RawWriteStarts
<1>4. /\ raw \in FileOf(Nat) /\ raw.safe <= Len(raw.lines) /\ rawBuf \in Seq(Nat)
      /\ k \in 0 .. Len(rawBuf)
  BY <1>2, LenProperties DEF TypeOK, WholeLines
<1>5. /\ raw' \in FileOf(Nat) /\ raw'.safe <= Len(raw'.lines) /\ rawBuf' \in Seq(Nat)
      /\ raw'.lines \o rawBuf' = raw.lines \o rawBuf
  BY <1>3, <1>4, SpillMoves
<1>6. AllRaw' = AllRaw /\ AllIdx' = AllIdx
  BY <1>1, <1>5 DEF AllRaw, AllIdx
<1>7. TypeOK'
  BY <1>1, <1>2, <1>5 DEF TypeOK, Places
<1>8. Contiguous' /\ Truthful'
  BY <1>6, StayKeeps DEF IInv
<1>9. (BuffersEmptied /\ ReasonFits /\ BothExact /\ RememberedIsLevel)'
  BY <1>1, <1>6
  DEF IInv, BuffersEmptied, ReasonFits, BothExact, RememberedIsLevel, IsOpen
<1> QED BY <1>7, <1>8, <1>9 DEF IInv

LEMMA RawWriteEndsStep ==
    ASSUME IInv, RawWriteEnds
    PROVE  IInv'
<1>1. /\ pc = "rawWriting" /\ pc' = "rawWritten"
      /\ raw' = Boundary(raw, rawBuf) /\ rawBuf' = <<>>
      /\ UNCHANGED <<idx, idxBuf, n, why, closed, quar, arrived, failures>>
  BY DEF RawWriteEnds
<1>2. TypeOK
  BY DEF IInv
<1>3. /\ raw' \in FileOf(Nat) /\ raw'.safe <= Len(raw'.lines)
      /\ raw'.lines \o <<>> = raw.lines \o rawBuf
  BY <1>1, <1>2, BoundaryMoves DEF TypeOK
<1>4. AllRaw' = AllRaw /\ AllIdx' = AllIdx
  BY <1>1, <1>3 DEF AllRaw, AllIdx
<1>5. TypeOK'
  BY <1>1, <1>2, <1>3, EmptySeq DEF TypeOK, Places
<1>6. Contiguous' /\ Truthful'
  BY <1>4, StayKeeps DEF IInv
<1>7. (BuffersEmptied /\ ReasonFits /\ BothExact /\ RememberedIsLevel)'
  BY <1>1, <1>4
  DEF IInv, BuffersEmptied, ReasonFits, BothExact, RememberedIsLevel, IsOpen
<1> QED BY <1>5, <1>6, <1>7 DEF IInv

LEMMA RawSyncsStep ==
    ASSUME IInv, RawSyncs
    PROVE  IInv'
<1>1. /\ pc = "rawWritten" /\ pc' = "rawSynced" /\ raw' = Synced(raw)
      /\ UNCHANGED <<idx, rawBuf, idxBuf, n, why, closed, quar, arrived, failures>>
  BY DEF RawSyncs, bufs
<1>2. TypeOK
  BY DEF IInv
<1>3. raw' \in FileOf(Nat) /\ raw'.safe = Len(raw'.lines) /\ raw'.lines = raw.lines
  BY <1>1, <1>2, SyncedKeeps DEF TypeOK
<1>4. Len(raw'.lines) \in Nat
  BY <1>3, LenProperties DEF FileOf
<1>5. AllRaw' = AllRaw /\ AllIdx' = AllIdx
  BY <1>1, <1>3 DEF AllRaw, AllIdx
<1>6. TypeOK'
  BY <1>1, <1>2, <1>3, <1>4 DEF TypeOK, Places
<1>7. Contiguous' /\ Truthful'
  BY <1>5, StayKeeps DEF IInv
<1>8. (BuffersEmptied /\ ReasonFits /\ BothExact /\ RememberedIsLevel)'
  BY <1>1, <1>5
  DEF IInv, BuffersEmptied, ReasonFits, BothExact, RememberedIsLevel, IsOpen
<1> QED BY <1>6, <1>7, <1>8 DEF IInv

LEMMA IdxWriteStartsStep ==
    ASSUME IInv, IdxWriteStarts
    PROVE  IInv'
<1>1. /\ pc = "rawSynced" /\ why # "broken" /\ pc' = "idxWriting"
      /\ UNCHANGED <<raw, rawBuf, n, why, closed, quar, arrived, failures>>
  BY DEF IdxWriteStarts
<1>2. TypeOK
  BY DEF IInv
<1>3. PICK k \in WholeLines(idxBuf) :
        idx' = Spill(idx, Taken(idxBuf, k)) /\ idxBuf' = Left(idxBuf, k)
  BY DEF IdxWriteStarts
<1>4. /\ idx \in FileOf(Entry) /\ idx.safe <= Len(idx.lines) /\ idxBuf \in Seq(Entry)
      /\ k \in 0 .. Len(idxBuf)
  BY <1>2, LenProperties DEF TypeOK, WholeLines
<1>5. /\ idx' \in FileOf(Entry) /\ idx'.safe <= Len(idx'.lines) /\ idxBuf' \in Seq(Entry)
      /\ idx'.lines \o idxBuf' = idx.lines \o idxBuf
  BY <1>3, <1>4, SpillMoves
<1>6. AllRaw' = AllRaw /\ AllIdx' = AllIdx
  BY <1>1, <1>5 DEF AllRaw, AllIdx
<1>7. TypeOK'
  BY <1>1, <1>2, <1>5 DEF TypeOK, Places
<1>8. Contiguous' /\ Truthful'
  BY <1>6, StayKeeps DEF IInv
<1>9. (BuffersEmptied /\ ReasonFits /\ BothExact /\ RememberedIsLevel)'
  BY <1>1, <1>6
  DEF IInv, BuffersEmptied, ReasonFits, BothExact, RememberedIsLevel, IsOpen
<1> QED BY <1>7, <1>8, <1>9 DEF IInv

LEMMA IdxWriteEndsStep ==
    ASSUME IInv, IdxWriteEnds
    PROVE  IInv'
<1>1. /\ pc = "idxWriting" /\ pc' = "idxWritten"
      /\ idx' = Boundary(idx, idxBuf) /\ idxBuf' = <<>>
      /\ UNCHANGED <<raw, rawBuf, n, why, closed, quar, arrived, failures>>
  BY DEF IdxWriteEnds
<1>2. TypeOK
  BY DEF IInv
<1>3. /\ idx' \in FileOf(Entry) /\ idx'.safe <= Len(idx'.lines)
      /\ idx'.lines \o <<>> = idx.lines \o idxBuf
  BY <1>1, <1>2, BoundaryMoves DEF TypeOK
<1>4. AllRaw' = AllRaw /\ AllIdx' = AllIdx
  BY <1>1, <1>3 DEF AllRaw, AllIdx
<1>5. TypeOK'
  BY <1>1, <1>2, <1>3, EmptySeq DEF TypeOK, Places
<1>6. Contiguous' /\ Truthful'
  BY <1>4, StayKeeps DEF IInv
<1>7. (BuffersEmptied /\ ReasonFits /\ BothExact /\ RememberedIsLevel)'
  BY <1>1, <1>4
  DEF IInv, BuffersEmptied, ReasonFits, BothExact, RememberedIsLevel, IsOpen
<1> QED BY <1>5, <1>6, <1>7 DEF IInv

(* A clean close remembers a level pair, because both compressors are      *)
(* empty and both sequences end at n.                                      *)
LEMMA IdxSyncsStep ==
    ASSUME IInv, IdxSyncs
    PROVE  IInv'
<1>1. /\ pc = "idxWritten" /\ idx' = Synced(idx) /\ pc' = After(why) /\ why' = "flush"
      /\ closed' = CASE why = "flush"   -> closed
                     [] why = "release" -> <<n, Len(raw.lines), Len(idx.lines)>>
                     [] OTHER           -> None
      /\ UNCHANGED <<raw, rawBuf, idxBuf, n, quar, arrived, failures>>
  BY DEF IdxSyncs, bufs
<1>2. /\ TypeOK /\ why \in {"flush", "release", "exit"}
      /\ rawBuf = <<>> /\ idxBuf = <<>> /\ n = Len(AllRaw) /\ n = Len(AllIdx)
  BY <1>1 DEF IInv, ReasonFits, TypeOK, BuffersEmptied, BothExact, IsOpen
<1>3. idx' \in FileOf(Entry) /\ idx'.safe = Len(idx'.lines) /\ idx'.lines = idx.lines
  BY <1>1, <1>2, SyncedKeeps DEF TypeOK
<1>4. n = Len(raw.lines) /\ n = Len(idx.lines) /\ n \in Nat
  BY <1>2, AllWhenEmpty DEF TypeOK
<1>5. /\ closed' \in (Nat \X Nat \X Nat) \union {None}
      /\ RememberedIsLevel'
  <2>1. CASE why = "flush"
    BY <1>1, <1>2, <2>1 DEF TypeOK, IInv, RememberedIsLevel
  <2>2. CASE why = "release"
    <3>1. closed' = <<n, n, n>>
      BY <1>1, <1>4, <2>2
    <3> QED BY <1>4, <3>1 DEF RememberedIsLevel
  <2>3. CASE why = "exit"
    BY <1>1, <2>3 DEF RememberedIsLevel
  <2> QED BY <1>2, <2>1, <2>2, <2>3
<1>6. pc' \in {"open", "closed", "down"}
  BY <1>1, <1>2 DEF After
<1>7. TypeOK'
  <2>1. Len(idx'.lines) \in Nat
    BY <1>3, LenProperties DEF FileOf
  <2> QED BY <1>1, <1>2, <1>3, <1>5, <1>6, <2>1 DEF TypeOK, Places
<1>8. AllRaw' = AllRaw /\ AllIdx' = AllIdx
  BY <1>1, <1>3 DEF AllRaw, AllIdx
<1>9. Contiguous' /\ Truthful'
  BY <1>8, StayKeeps DEF IInv
<1>10. (BuffersEmptied /\ ReasonFits /\ BothExact)'
  BY <1>1, <1>2, <1>6, <1>8 DEF BuffersEmptied, ReasonFits, BothExact, IsOpen
<1> QED BY <1>5, <1>7, <1>9, <1>10 DEF IInv

-----------------------------------------------------------------------------
(* Losing what the compressors held.                                       *)

(* The process is gone or has given the hour up, and each file is what it  *)
(* was, or a prefix of it.                                                 *)
LEMMA LossKeeps ==
    ASSUME IInv,
           raw' \in FileOf(Nat), idx' \in FileOf(Entry),
           raw'.safe <= Len(raw'.lines), idx'.safe <= Len(idx'.lines),
           NEW j \in 0 .. Len(raw.lines), NEW k \in 0 .. Len(idx.lines),
           raw'.lines = SubSeq(raw.lines, 1, j), idx'.lines = SubSeq(idx.lines, 1, k),
           rawBuf' = <<>>, idxBuf' = <<>>, closed' = None, why' = "flush",
           pc' \in {"down", "closed"}, n' \in Nat, failures' \in Nat,
           UNCHANGED <<quar, arrived>>
    PROVE  IInv'
<1>1. TypeOK
  BY DEF IInv
<1>2. TypeOK'
  BY <1>1, EmptySeq DEF TypeOK, Places
<1>3. AllRaw' = raw'.lines /\ AllIdx' = idx'.lines
  <2>1. raw'.lines \in Seq(Nat) /\ idx'.lines \in Seq(Entry)
    BY DEF FileOf
  <2>2. AllRaw' = raw'.lines \o rawBuf' /\ AllIdx' = idx'.lines \o idxBuf'
    BY DEF AllRaw, AllIdx
  <2> QED BY <2>1, <2>2, ConcatEmptySeq
<1>4. /\ Len(AllRaw) \in Nat /\ Len(AllIdx) \in Nat
      /\ Len(raw.lines) \in Nat /\ Len(idx.lines) \in Nat
      /\ Len(raw.lines) <= Len(AllRaw) /\ Len(idx.lines) <= Len(AllIdx)
      /\ \A i \in 1 .. Len(raw.lines) : AllRaw[i] = raw.lines[i]
      /\ \A i \in 1 .. Len(idx.lines) : AllIdx[i] = idx.lines[i]
  BY <1>1, AllType, LenProperties, SMTT(60)
<1>5. /\ Len(raw'.lines) = j /\ \A i \in 1 .. j : raw'.lines[i] = raw.lines[i]
      /\ Len(idx'.lines) = k /\ \A i \in 1 .. k : idx'.lines[i] = idx.lines[i]
  <2>1. /\ \A i \in 1 .. Len(raw.lines) : raw.lines[i] \in Nat
        /\ \A i \in 1 .. Len(idx.lines) : idx.lines[i] \in Entry
    BY <1>1, ElementOfSeq DEF TypeOK, FileOf
  <2> QED BY <1>4, <2>1, SubSeqProperties
<1>6. Contiguous' /\ Truthful'
  <2>1. /\ Len(AllRaw') \in Nat /\ Len(AllRaw') <= Len(AllRaw)
        /\ \A i \in 1 .. Len(AllRaw') : AllRaw'[i] = AllRaw[i]
    BY <1>3, <1>4, <1>5
  <2>2. /\ Len(AllIdx') \in Nat /\ Len(AllIdx') <= Len(AllIdx)
        /\ \A i \in 1 .. Len(AllIdx') : AllIdx'[i] = AllIdx[i]
    BY <1>3, <1>4, <1>5
  <2> QED BY <1>4, <2>1, <2>2, CutKeeps DEF IInv
<1>7. (BuffersEmptied /\ ReasonFits /\ BothExact /\ RememberedIsLevel)'
  BY DEF BuffersEmptied, ReasonFits, BothExact, RememberedIsLevel, IsOpen
<1> QED BY <1>2, <1>6, <1>7 DEF IInv

(* A boundary given up, a recorder that ends, and a kill leave both files. *)
LEMMA MemoryLossStep ==
    ASSUME IInv, BoundaryFails \/ BrokenCloseEnds \/ Stop \/ Kill
    PROVE  IInv'
<1>1. TypeOK
  BY DEF IInv
<1>2. UNCHANGED <<raw, idx, quar, arrived>> /\ closed' = None /\ why' = "flush"
  BY DEF BoundaryFails, BrokenCloseEnds, Stop, Kill, ProcessEnds, files
<1>3. pc' \in {"down", "closed"} /\ n' \in Nat /\ failures' \in Nat
  BY <1>1 DEF BoundaryFails, BrokenCloseEnds, Stop, Kill, ProcessEnds, TypeOK
<1>4. rawBuf' = <<>> /\ idxBuf' = <<>>
  <2>1. CASE BrokenCloseEnds
    BY <2>1 DEF BrokenCloseEnds, bufs, IInv, BuffersEmptied
  <2>2. CASE BoundaryFails \/ Stop \/ Kill
    BY <2>2 DEF BoundaryFails, Stop, Kill, ProcessEnds
  <2> QED BY <2>1, <2>2
<1>5. /\ raw.lines \in Seq(Nat) /\ idx.lines \in Seq(Entry)
      /\ raw' \in FileOf(Nat) /\ idx' \in FileOf(Entry)
      /\ raw'.safe <= Len(raw'.lines) /\ idx'.safe <= Len(idx'.lines)
  BY <1>1, <1>2 DEF TypeOK, FileOf
<1>6. /\ Len(raw.lines) \in 0 .. Len(raw.lines) /\ Len(idx.lines) \in 0 .. Len(idx.lines)
      /\ raw'.lines = SubSeq(raw.lines, 1, Len(raw.lines))
      /\ idx'.lines = SubSeq(idx.lines, 1, Len(idx.lines))
  BY <1>2, <1>5, SubSeqFull, LenProperties
<1> QED BY <1>2, <1>3, <1>4, <1>5, <1>6, LossKeeps

LEMMA PowerLossStep ==
    ASSUME IInv, PowerLoss
    PROVE  IInv'
<1>1. TypeOK
  BY DEF IInv
<1>2. /\ raw' \in Survivors(raw) /\ idx' \in Survivors(idx)
      /\ pc' = "down" /\ why' = "flush" /\ n' = 0 /\ closed' = None
      /\ rawBuf' = <<>> /\ idxBuf' = <<>> /\ failures' = failures + 1
      /\ UNCHANGED <<quar, arrived>>
  BY DEF PowerLoss, ProcessEnds
<1>3. raw \in FileOf(Nat) /\ idx \in FileOf(Entry)
  BY <1>1 DEF TypeOK
<1>4. raw' \in FileOf(Nat) /\ idx' \in FileOf(Entry)
  BY <1>2, <1>3, SurvivorsArePrefixes
<1>5. PICK j \in raw.safe .. Len(raw.lines) :
        raw'.lines = SubSeq(raw.lines, 1, j) /\ raw'.safe = j /\ Len(raw'.lines) = j
  BY <1>2, <1>3, SurvivorsArePrefixes
<1>6. PICK k \in idx.safe .. Len(idx.lines) :
        idx'.lines = SubSeq(idx.lines, 1, k) /\ idx'.safe = k /\ Len(idx'.lines) = k
  BY <1>2, <1>3, SurvivorsArePrefixes
<1>7. /\ j \in 0 .. Len(raw.lines) /\ k \in 0 .. Len(idx.lines)
      /\ failures' \in Nat /\ n' \in Nat
      /\ raw'.safe <= Len(raw'.lines) /\ idx'.safe <= Len(idx'.lines)
  BY <1>1, <1>2, <1>3, <1>5, <1>6, LenProperties DEF TypeOK, FileOf
<1> QED BY <1>2, <1>4, <1>5, <1>6, <1>7, LossKeeps

-----------------------------------------------------------------------------
LEMMA NextIInv == IInv /\ [Next]_vars => IInv'
<1> SUFFICES ASSUME IInv, [Next]_vars PROVE IInv'
  OBVIOUS
<1>1. CASE UNCHANGED vars
  <2>1. UNCHANGED <<raw, idx, rawBuf, idxBuf, n, pc, why, closed, quar, arrived, failures>>
    BY <1>1 DEF vars
  <2>2. TypeOK'
    BY <2>1 DEF IInv, TypeOK
  <2>3. AllRaw' = AllRaw /\ AllIdx' = AllIdx
    BY <2>1 DEF AllRaw, AllIdx
  <2>4. Contiguous' /\ Truthful'
    BY <2>3, StayKeeps DEF IInv
  <2>5. (BuffersEmptied /\ ReasonFits /\ BothExact /\ RememberedIsLevel)'
    BY <2>1, <2>3
    DEF IInv, BuffersEmptied, ReasonFits, BothExact, RememberedIsLevel, IsOpen
  <2> QED BY <2>2, <2>4, <2>5 DEF IInv
<1>2. CASE RepairSkips \/ Refuse
  BY <1>2, QuietStep
<1>3. CASE RepairIndex
  BY <1>3, RepairIndexStep
<1>4. CASE RepairRaw
  BY <1>4, RepairRawStep
<1>5. CASE AppendFrame
  BY <1>5, AppendFrameStep
<1>6. CASE AppendFails
  BY <1>6, AppendFailsStep
<1>7. CASE RawWriteStarts
  BY <1>7, RawWriteStartsStep
<1>8. CASE RawWriteEnds
  BY <1>8, RawWriteEndsStep
<1>9. CASE RawSyncs
  BY <1>9, RawSyncsStep
<1>10. CASE IdxWriteStarts
  BY <1>10, IdxWriteStartsStep
<1>11. CASE IdxWriteEnds
  BY <1>11, IdxWriteEndsStep
<1>12. CASE IdxSyncs
  BY <1>12, IdxSyncsStep
<1>13. CASE BoundaryFails \/ BrokenCloseEnds \/ Stop \/ Kill
  BY <1>13, MemoryLossStep
<1>14. CASE PowerLoss
  BY <1>14, PowerLossStep
<1> QED
  BY <1>1, <1>2, <1>3, <1>4, <1>5, <1>6, <1>7, <1>8, <1>9, <1>10, <1>11, <1>12,
     <1>13, <1>14 DEF Next

(* The inductive invariant holds, for all faults and bounds.               *)
THEOREM Invariance == Spec => []IInv
<1>1. Init => IInv
  BY InitIInv
<1>2. IInv /\ [Next]_vars => IInv'
  BY NextIInv
<1> QED BY <1>1, <1>2, PTL DEF Spec

(* Every variable of a capture hour keeps its kind.                        *)
THEOREM TypeCorrect == Spec => []TypeOK
<1>1. IInv => TypeOK
  BY DEF IInv
<1> QED BY <1>1, Invariance, PTL

(* RawWriter._n is the position of the next frame whenever the hour is     *)
(* open, however it was resumed.                                           *)
THEOREM PositionExact == Spec => []PositionIsExact
<1>1. IInv => PositionIsExact
  BY AllType DEF IInv, BothExact, PositionIsExact
<1> QED BY <1>1, Invariance, PTL

(* A pair that read_pair accepts labels no frame with another's entry,     *)
(* whatever crashes, failed writes and repairs came before.                *)
THEOREM ReadPairFaithful == Spec => []ReadPairIsFaithful
<1>1. IInv => ReadPairIsFaithful
  <2> SUFFICES ASSUME IInv, Readable, NEW i \in 1 .. Len(idx.lines)
               PROVE  idx.lines[i].frame \in {raw.lines[i], Recovered}
    BY DEF ReadPairIsFaithful
  <2>1. /\ Len(AllIdx) = Len(idx.lines) + Len(idxBuf) /\ AllIdx[i] = idx.lines[i]
        /\ Len(AllRaw) = Len(raw.lines) + Len(rawBuf)
        /\ Len(raw.lines) \in Nat /\ Len(rawBuf) \in Nat
        /\ Len(idx.lines) \in Nat /\ Len(idxBuf) \in Nat
        /\ \A j \in 1 .. Len(raw.lines) : AllRaw[j] = raw.lines[j]
    BY AllType DEF IInv
  <2>2. i \in 1 .. Len(raw.lines)
    BY <2>1 DEF Readable
  <2>3. i \in 1 .. Len(AllIdx) /\ i <= Len(AllRaw) /\ AllRaw[i] = raw.lines[i]
    BY <2>1, <2>2
  <2> QED BY <2>1, <2>3 DEF IInv, Truthful
<1> QED BY <1>1, Invariance, PTL

-----------------------------------------------------------------------------
(* The raw file implements a durable log.                                  *)

LEMMA PrefixOfConcat ==
    ASSUME NEW S, NEW s \in Seq(S), NEW t \in Seq(S)
    PROVE  Len(s) <= Len(s \o t) /\ s = SubSeq(s \o t, 1, Len(s))
<1>1. /\ Len(s) \in Nat /\ Len(t) \in Nat /\ s \o t \in Seq(S)
      /\ Len(s \o t) = Len(s) + Len(t)
      /\ \A i \in 1 .. Len(s) : (s \o t)[i] = s[i]
  BY LenProperties, ConcatProperties
<1>2. \A i \in 1 .. Len(s) : (s \o t)[i] \in S
  BY <1>1, ElementOfSeq
<1>3. /\ SubSeq(s \o t, 1, Len(s)) \in Seq(S)
      /\ Len(SubSeq(s \o t, 1, Len(s))) = Len(s)
      /\ \A i \in 1 .. Len(s) : SubSeq(s \o t, 1, Len(s))[i] = s[i]
  BY <1>1, <1>2, SubSeqProperties
<1> QED BY <1>1, <1>3, SeqEqual

LEMMA RawStepRefines == IInv /\ [Next]_vars => [DurableRaw!Next]_(DurableRaw!vars)
<1> SUFFICES ASSUME IInv, [Next]_vars
             PROVE  \/ raw'.lines = raw.lines /\ raw'.safe = raw.safe
                    \/ /\ Len(raw.lines) <= Len(raw'.lines)
                       /\ raw.lines = SubSeq(raw'.lines, 1, Len(raw.lines))
                       /\ raw'.safe = raw.safe
                    \/ raw'.safe \in raw.safe .. Len(raw.lines) /\ raw'.lines = raw.lines
                    \/ \E k \in raw.safe .. Len(raw.lines) :
                         /\ raw'.lines = SubSeq(raw.lines, 1, k)
                         /\ raw'.safe \in raw.safe .. k
  BY DEF DurableRaw!Next, DurableRaw!vars, DurableRaw!Accept, DurableRaw!Sync, DurableRaw!Lose
<1>1. /\ TypeOK
      /\ raw \in FileOf(Nat) /\ raw.lines \in Seq(Nat) /\ rawBuf \in Seq(Nat)
      /\ raw.safe \in Nat /\ Len(raw.lines) \in Nat /\ raw.safe <= Len(raw.lines)
      /\ raw.safe \in raw.safe .. Len(raw.lines)
      /\ Len(raw.lines) \in raw.safe .. Len(raw.lines)
  BY LenProperties DEF IInv, TypeOK, FileOf
<1>2. CASE raw' = raw
  BY <1>2
<1>3. ASSUME NEW part \in Seq(Nat), raw'.lines = raw.lines \o part, raw'.safe = raw.safe
      PROVE  /\ Len(raw.lines) <= Len(raw'.lines)
             /\ raw.lines = SubSeq(raw'.lines, 1, Len(raw.lines))
             /\ raw'.safe = raw.safe
  BY <1>1, <1>3, PrefixOfConcat
<1>4. CASE AppendFrame
  <2>1. RawTakes(arrived') /\ arrived' \in Nat
    BY <1>1, <1>4 DEF AppendFrame, TypeOK
  <2> DEFINE buf == Append(rawBuf, arrived')
  <2>2. buf \in Seq(Nat)
    BY <1>1, <2>1, AppendProperties
  <2>3. \/ raw' = raw
        \/ \E k \in 0 .. Len(buf) : raw' = Spill(raw, Taken(buf, k))
    BY <2>1 DEF RawTakes
  <2> HIDE DEF buf
  <2>4. ASSUME NEW k \in 0 .. Len(buf), raw' = Spill(raw, Taken(buf, k))
        PROVE  /\ Taken(buf, k) \in Seq(Nat)
               /\ raw'.lines = raw.lines \o Taken(buf, k) /\ raw'.safe = raw.safe
    <3>1. Taken(buf, k) \in Seq(Nat)
      BY <2>2, TakenLeft
    <3> QED BY <2>4, <3>1 DEF Spill
  <2> QED BY <1>2, <1>3, <2>3, <2>4
<1>5. CASE RawWriteStarts
  <2>1. PICK k \in WholeLines(rawBuf) : raw' = Spill(raw, Taken(rawBuf, k))
    BY <1>5 DEF RawWriteStarts
  <2>2. k \in 0 .. Len(rawBuf)
    BY <1>1, <2>1, LenProperties DEF WholeLines
  <2>3. /\ Taken(rawBuf, k) \in Seq(Nat)
        /\ raw'.lines = raw.lines \o Taken(rawBuf, k) /\ raw'.safe = raw.safe
    <3>1. Taken(rawBuf, k) \in Seq(Nat)
      BY <1>1, <2>2, TakenLeft
    <3> QED BY <2>1, <3>1 DEF Spill
  <2> QED BY <1>3, <2>3
<1>6. CASE RawWriteEnds
  <2>1. raw'.lines = raw.lines \o rawBuf /\ raw'.safe = raw.safe
    BY <1>1, <1>6, BoundaryMoves DEF RawWriteEnds
  <2> QED BY <1>1, <1>3, <2>1
<1>7. CASE RawSyncs \/ RepairRaw
  <2>1. raw'.lines = raw.lines /\ raw'.safe = Len(raw.lines)
    BY <1>1, <1>7, SyncedKeeps, RewrittenHolds DEF RawSyncs, RepairRaw
  <2> QED BY <1>1, <2>1
<1>8. CASE PowerLoss
  <2>1. PICK k \in raw.safe .. Len(raw.lines) :
          raw'.lines = SubSeq(raw.lines, 1, k) /\ raw'.safe = k
    BY <1>1, <1>8, SurvivorsArePrefixes DEF PowerLoss
  <2>2. raw'.safe \in raw.safe .. k
    BY <1>1, <2>1
  <2> QED BY <2>1, <2>2
<1> QED
  <2>1. \/ raw' = raw
        \/ AppendFrame \/ RawWriteStarts \/ RawWriteEnds \/ RawSyncs \/ RepairRaw \/ PowerLoss
    BY DEF Next, vars, files, bufs, RepairSkips, RepairIndex, AppendFails, Refuse,
           IdxWriteStarts, IdxWriteEnds, IdxSyncs, BoundaryFails, BrokenCloseEnds,
           Stop, Kill
  <2> QED BY <1>2, <1>4, <1>5, <1>6, <1>7, <1>8, <2>1

(* An fsynced frame is never lost, changed or moved: raw, alone, is a      *)
(* durable log under every fault the model has.                            *)
THEOREM DurableFrames == Spec => DurableFramesStay
<1>1. Init => DurableRaw!Init
  BY DEF Init, NewFile, DurableRaw!Init
<1>2. IInv /\ [Next]_vars => [DurableRaw!Next]_(DurableRaw!vars)
  BY RawStepRefines
<1> QED BY <1>1, <1>2, Invariance, PTL DEF Spec, DurableFramesStay, DurableRaw!Spec

-----------------------------------------------------------------------------
(* Index entries.                                                          *)

(* A rebuilt index keeps every entry whose frame raw holds, in its place.  *)
LEMMA RebuildingKeeps ==
    ASSUME IInv, pc = "down", NEW i \in 1 .. Len(idx.lines), i <= Len(raw.lines)
    PROVE  RebuiltIndex[i] = idx.lines[i]
<1>1. /\ TypeOK /\ idxBuf = <<>>
      /\ Len(idx.lines) \in Nat /\ Len(raw.lines) \in Nat
  BY AllType DEF IInv, BuffersEmptied, IsOpen
<1>2. \A j \in 1 .. Len(idx.lines) : idx.lines[j].n = j - 1
  BY <1>1, AllWhenEmpty DEF IInv, Contiguous
<1>3. i \in 1 .. Len(raw.lines)
  BY <1>1
<1>4. \E j \in 1 .. Len(idx.lines) : idx.lines[j].n = i - 1
  BY <1>2
<1> DEFINE j == CHOOSE j \in 1 .. Len(idx.lines) : idx.lines[j].n = i - 1
<1>5. j \in 1 .. Len(idx.lines) /\ idx.lines[j].n = i - 1
  BY <1>4
<1>6. EntryFor(i - 1) = idx.lines[j]
  BY <1>4 DEF EntryFor
<1> HIDE DEF j
<1>7. j = i
  BY <1>1, <1>2, <1>5
<1> QED BY <1>3, <1>6, <1>7 DEF RebuiltIndex

LEMMA StepKeepsEntries ==
    ASSUME IInv, Next, NEW i \in 1 .. Len(idx.lines), i <= idx.safe \/ ~PowerLoss
    PROVE  \/ \E j \in 1 .. Len(idx'.lines) : idx'.lines[j] = idx.lines[i]
           \/ idx.lines[i].n >= Len(raw'.lines) /\ idx.lines[i] \in quar'
<1>1. /\ TypeOK /\ idx \in FileOf(Entry) /\ idx.lines \in Seq(Entry) /\ idxBuf \in Seq(Entry)
      /\ idx.safe \in Nat /\ idx.safe <= Len(idx.lines)
      /\ Len(idx.lines) \in Nat /\ Len(raw.lines) \in Nat
      /\ \A j \in 1 .. Len(idx.lines) : idx.lines[j] \in Entry
  BY AllType, ElementOfSeq DEF IInv, TypeOK, FileOf
<1>2. CASE idx' = idx
  BY <1>2
<1>3. ASSUME NEW part \in Seq(Entry), idx'.lines = idx.lines \o part
      PROVE  i \in 1 .. Len(idx'.lines) /\ idx'.lines[i] = idx.lines[i]
  <2>1. Len(part) \in Nat
    BY LenProperties
  <2> QED BY <1>1, <1>3, <2>1, ConcatProperties
<1>4. CASE RepairIndex
  <2>1. /\ pc = "down" /\ raw' = raw
        /\ idx' = Rewritten(RebuiltIndex) /\ idx.lines[i] \in quar'
    BY <1>4 DEF RepairIndex
  <2>2. idx'.lines = RebuiltIndex /\ Len(RebuiltIndex) = Len(raw.lines)
    BY <2>1, Rebuilding, RewrittenHolds
  <2>3. CASE i <= Len(raw.lines)
    <3>1. i \in 1 .. Len(idx'.lines) /\ idx'.lines[i] = idx.lines[i]
      BY <1>1, <2>1, <2>2, <2>3, RebuildingKeeps
    <3> QED BY <3>1
  <2>4. CASE i > Len(raw.lines)
    <3>1. idxBuf = <<>>
      BY <2>1 DEF IInv, BuffersEmptied, IsOpen
    <3>2. idx.lines[i].n = i - 1
      BY <1>1, <3>1, AllWhenEmpty DEF IInv, Contiguous
    <3> QED BY <1>1, <2>1, <2>4, <3>2
  <2> QED BY <1>1, <2>3, <2>4
<1>5. CASE AppendFrame
  <2>1. IdxTakes([n |-> Position, frame |-> arrived'])
    BY <1>5 DEF AppendFrame
  <2>2. Position \in Nat /\ arrived' \in Nat
    BY <1>1, <1>5, PositionIsLevel DEF AppendFrame, TypeOK
  <2> DEFINE e == [n |-> Position, frame |-> arrived']
             buf == Append(idxBuf, e)
  <2>3. buf \in Seq(Entry)
    <3>1. e \in Entry
      BY <2>2 DEF Entry
    <3> QED BY <1>1, <3>1, AppendProperties
  <2>4. \/ idx' = idx
        \/ \E k \in 0 .. Len(buf) : idx' = Spill(idx, Taken(buf, k))
    BY <2>1 DEF IdxTakes
  <2> HIDE DEF buf
  <2>5. ASSUME NEW k \in 0 .. Len(buf), idx' = Spill(idx, Taken(buf, k))
        PROVE  Taken(buf, k) \in Seq(Entry) /\ idx'.lines = idx.lines \o Taken(buf, k)
    <3>1. Taken(buf, k) \in Seq(Entry)
      BY <2>3, TakenLeft
    <3> QED BY <2>5, <3>1 DEF Spill
  <2> QED BY <1>2, <1>3, <2>4, <2>5
<1>6. CASE AppendFails
  <2>1. idx'.lines = idx.lines \o <<>>
    BY <1>6 DEF AppendFails, Spill
  <2> QED BY <1>3, <2>1, EmptySeq
<1>7. CASE IdxWriteStarts
  <2>1. PICK k \in WholeLines(idxBuf) : idx' = Spill(idx, Taken(idxBuf, k))
    BY <1>7 DEF IdxWriteStarts
  <2>2. k \in 0 .. Len(idxBuf)
    BY <1>1, <2>1, LenProperties DEF WholeLines
  <2>3. Taken(idxBuf, k) \in Seq(Entry)
    BY <1>1, <2>2, TakenLeft
  <2>4. idx'.lines = idx.lines \o Taken(idxBuf, k)
    BY <2>1 DEF Spill
  <2> QED BY <1>3, <2>3, <2>4
<1>8. CASE IdxWriteEnds
  <2>1. idx'.lines = idx.lines \o idxBuf
    BY <1>8 DEF IdxWriteEnds, Boundary
  <2> QED BY <1>1, <1>3, <2>1
<1>9. CASE IdxSyncs
  <2>1. idx'.lines = idx.lines
    BY <1>9 DEF IdxSyncs, Synced
  <2> QED BY <1>1, <2>1
<1>10. CASE PowerLoss
  <2>1. i <= idx.safe
    BY <1>10
  <2>2. PICK k \in idx.safe .. Len(idx.lines) :
          idx'.lines = SubSeq(idx.lines, 1, k) /\ Len(idx'.lines) = k
    BY <1>1, <1>10, SurvivorsArePrefixes DEF PowerLoss
  <2>3. i \in 1 .. k /\ k \in 0 .. Len(idx.lines)
    BY <1>1, <2>1, <2>2
  <2>4. \A m \in 1 .. k : SubSeq(idx.lines, 1, k)[m] = idx.lines[m]
    BY <1>1, <2>3, SubSeqProperties
  <2>5. i \in 1 .. Len(idx'.lines) /\ idx'.lines[i] = idx.lines[i]
    BY <2>2, <2>3, <2>4
  <2> QED BY <2>5
<1> QED
  <2>1. \/ idx' = idx \/ RepairIndex \/ AppendFrame \/ AppendFails \/ IdxWriteStarts
        \/ IdxWriteEnds \/ IdxSyncs \/ PowerLoss
    BY DEF Next, files, bufs, RepairSkips, RepairRaw, Refuse, RawWriteStarts, RawWriteEnds,
           RawSyncs, BoundaryFails, BrokenCloseEnds, Stop, Kill
  <2> QED BY <1>2, <1>4, <1>5, <1>6, <1>7, <1>8, <1>9, <1>10, <2>1

(* No step drops an index entry whose frame raw still holds, and a repair  *)
(* quarantines the entries it does drop; a power loss is held to the       *)
(* durable entries.                                                        *)
THEOREM EntriesKept == Spec => EntriesAreKept
<1> DEFINE Kept == \A i \in 1 .. Len(idx.lines) :
                     (i <= idx.safe \/ ~PowerLoss) =>
                       \/ \E j \in 1 .. Len(idx'.lines) : idx'.lines[j] = idx.lines[i]
                       \/ idx.lines[i].n >= Len(raw'.lines) /\ idx.lines[i] \in quar'
<1>1. IInv /\ [Next]_vars => [Kept]_vars
  BY StepKeepsEntries
<1>2. Spec => [][Kept]_vars
  BY <1>1, Invariance, PTL DEF Spec
<1> QED BY <1>2 DEF EntriesAreKept

-----------------------------------------------------------------------------
(* Repair.                                                                 *)

IndexBehind == Len(idx.lines) <= Len(raw.lines)

(* While no block leaves a compressor between boundaries and nothing but   *)
(* the process fails, the index on disk never runs ahead of raw.           *)
LEMMA StepKeepsIndexBehind ==
    ASSUME BlockFills = FALSE, "power" \notin Faults, IInv, IndexBehind, [Next]_vars
    PROVE  IndexBehind'
<1>1. /\ TypeOK /\ raw \in FileOf(Nat) /\ idx \in FileOf(Entry)
      /\ raw.lines \in Seq(Nat) /\ rawBuf \in Seq(Nat)
      /\ idx.lines \in Seq(Entry) /\ idxBuf \in Seq(Entry)
      /\ Len(idx.lines) \in Nat /\ Len(raw.lines) \in Nat /\ Len(rawBuf) \in Nat
      /\ raw.safe <= Len(raw.lines)
  BY AllType DEF IInv, TypeOK, FileOf
<1>2. CASE raw'.lines = raw.lines /\ idx'.lines = idx.lines
  BY <1>2 DEF IndexBehind
<1>3. ASSUME NEW part \in Seq(Nat), raw'.lines = raw.lines \o part, idx'.lines = idx.lines
      PROVE  IndexBehind'
  <2>1. Len(raw'.lines) = Len(raw.lines) + Len(part) /\ Len(part) \in Nat
    BY <1>1, <1>3, ConcatProperties, LenProperties
  <2> QED BY <1>1, <1>3, <2>1 DEF IndexBehind
<1>4. CASE RepairIndex
  <2>1. idx'.lines = RebuiltIndex /\ raw' = raw /\ Len(RebuiltIndex) = Len(raw.lines)
    BY <1>4, Rebuilding, RewrittenHolds DEF RepairIndex
  <2> QED BY <1>1, <2>1 DEF IndexBehind
<1>5. CASE RepairRaw
  BY <1>1, <1>2, <1>5 DEF RepairRaw, Rewritten
<1>6. CASE AppendFrame
  BY <1>2, <1>6 DEF AppendFrame, RawTakes, IdxTakes
<1>7. CASE RawWriteStarts
  <2>1. raw'.lines = raw.lines \o Taken(rawBuf, 0) /\ idx' = idx
    BY <1>7 DEF RawWriteStarts, WholeLines, Spill
  <2>2. Taken(rawBuf, 0) \in Seq(Nat)
    BY <1>1, TakenLeft
  <2> QED BY <1>3, <2>1, <2>2
<1>8. CASE RawWriteEnds
  <2>1. raw'.lines = raw.lines \o rawBuf /\ idx' = idx
    BY <1>8 DEF RawWriteEnds, Boundary
  <2> QED BY <1>1, <1>3, <2>1
<1>9. CASE RawSyncs \/ IdxSyncs
  BY <1>2, <1>9 DEF RawSyncs, IdxSyncs, Synced
<1>10. CASE IdxWriteStarts
  <2>1. idx'.lines = idx.lines \o Taken(idxBuf, 0) /\ raw' = raw
    BY <1>10 DEF IdxWriteStarts, WholeLines, Spill
  <2>2. Taken(idxBuf, 0) = <<>>
    BY SubSeqEmpty DEF Taken
  <2> QED BY <1>1, <1>2, <2>1, <2>2, ConcatEmptySeq
<1>11. CASE IdxWriteEnds
  <2>1. idx'.lines = AllIdx /\ raw' = raw
    BY <1>11 DEF IdxWriteEnds, Boundary, AllIdx
  <2>2. Len(AllIdx) = Len(AllRaw) /\ AllRaw = raw.lines
    <3>1. pc = "idxWriting" /\ IsOpen /\ why # "broken" /\ rawBuf = <<>>
      BY <1>11 DEF IdxWriteEnds, IsOpen, IInv, ReasonFits, BuffersEmptied
    <3> QED BY <1>1, <3>1, AllWhenEmpty DEF IInv, BothExact
  <2> QED BY <1>1, <2>1, <2>2 DEF IndexBehind
<1> QED
  <2>1. \/ raw' = raw /\ idx' = idx
        \/ RepairIndex \/ RepairRaw \/ AppendFrame \/ RawWriteStarts \/ RawWriteEnds
        \/ RawSyncs \/ IdxSyncs \/ IdxWriteStarts \/ IdxWriteEnds
    BY DEF Next, vars, files, RepairSkips, Refuse, AppendFails, BoundaryFails,
           BrokenCloseEnds, Stop, Kill, PowerLoss
  <2> QED BY <1>2, <1>4, <1>5, <1>6, <1>7, <1>8, <1>9, <1>10, <1>11, <2>1

LEMMA InitBehind == Init => IndexBehind
BY DEF Init, NewFile, IndexBehind

LEMMA BehindIsRepairable == IInv /\ IndexBehind => DamageIsRepairable
<1> SUFFICES ASSUME IInv, IndexBehind, pc = "down" PROVE ~Unrepairable
  BY DEF DamageIsRepairable
<1>1. TypeOK /\ idxBuf = <<>>
  BY DEF IInv, BuffersEmptied, IsOpen
<1>2. \A i \in 1 .. Len(idx.lines) : idx.lines[i].n = i - 1
  BY <1>1, AllWhenEmpty DEF IInv, Contiguous
<1>3. Len(idx.lines) \in Nat /\ Len(raw.lines) \in Nat
  BY <1>1, AllType
<1> QED BY <1>2, <1>3 DEF Unrepairable, IndexBehind

(* reconcile_pair's obligation, for killed processes and thin streams:     *)
(* whatever they leave can be repaired.  The run rawhour_deadend drops     *)
(* both assumptions, and a power loss leaves an index nothing can repair.  *)
THEOREM KillsAreRepairable ==
    ASSUME BlockFills = FALSE, "power" \notin Faults
    PROVE  Spec => []DamageIsRepairable
<1>1. Init => IInv /\ IndexBehind
  BY InitBehind, InitIInv
<1>2. (IInv /\ IndexBehind) /\ [Next]_vars => (IInv /\ IndexBehind)'
  BY NextIInv, StepKeepsIndexBehind
<1>3. IInv /\ IndexBehind => DamageIsRepairable
  BY BehindIsRepairable
<1> QED BY <1>1, <1>2, <1>3, PTL DEF Spec
=============================================================================
