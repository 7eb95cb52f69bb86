---------------------------- MODULE TradingProofs ----------------------------
(***************************************************************************)
(* Orders, bars and positions, for all intents, tapes, markets, models and *)
(* faults.                                                                 *)
(*   The order log: a line that is complete, that is, followed by a        *)
(*   newline, is never lost.  submit returns from the append only when its *)
(*   line is complete or has been glued to an unended one, and then the log*)
(*   is corrupt from then on and refuses everything.  So whatever was sent *)
(*   is on a complete line, or nothing will be sent again.                 *)
(*   The paper engine's feed: what a run has fed or put aside is known to  *)
(* it by key or lies below its watermark, and its queue is a choice of rows*)
(* it does not know, each once.                                            *)
(*   Its orders: what rests is an entry with room for it or an exit that   *)
(* takes all there is, and no entry is filled while an exit rests.         *)
(*   Its rails: the position keeps its path from where a follower of each  *)
(* bar still agrees with a walk over it.                                   *)
(*   One position: what its polls have seen since it was opened is kept in *)
(*   its peaks, lock and age, so that a poll that lets it stay had no      *)
(*   reason to close it.                                                   *)
(***************************************************************************)
EXTENDS Integers, MCHost, LineLogProofs, FiniteSetTheorems

IsEvent(row) == row.event \notin {"TORN", "expired"}

(* The events of i on complete lines.                                      *)
CompleteEvents(i) == {j \in Events(i) : ~(unended /\ j = Len(lines))}

SentOnce == \A i \in Ids : sends[i] \in {0, 1}

SentIsRecorded ==
    /\ \A i \in Ids : sends[i] = 1 \/ what = i => Corrupt \/ CompleteEvents(i) # {}
    /\ pc = "recorded" => sends[what] = 0

OutcomesAreTrue ==
    \A j \in DOMAIN lines :
        IsEvent(lines[j]) /\ lines[j].outcome # "unknown" =>
            lines[j].outcome = fate[lines[j].id]

InSubmissionIsUnknown ==
    what # NoId => \A j \in Events(what) : lines[j].outcome = "unknown"

IInv == TypeOK /\ SentOnce /\ SentIsRecorded /\ OutcomesAreTrue /\ InSubmissionIsUnknown

-----------------------------------------------------------------------------
(* What a line put into the log does.                                      *)

(* A row is put into the log, ended or not.                                *)
Puts(row) == lines' = Put(lines, unended, row) /\ unended' \in BOOLEAN

LEMMA RowsAreNotTorn ==
    \A row \in Row : row # Torn /\ row.event # "TORN" /\ row.id \in Ids
BY DEF Row, Torn

LEMMA PutType ==
    ASSUME WalTypeOK, NEW row \in Row \union {Torn}, Puts(row)
    PROVE  /\ WalTypeOK'
           /\ DOMAIN lines = 1..Len(lines) /\ DOMAIN lines' = 1..Len(lines')
<1> DEFINE S == Row \union {Torn}
<1>1. lines \in Seq(S) /\ unended \in BOOLEAN /\ (unended => lines # <<>>)
    BY DEF WalTypeOK
<1>2. row \in S /\ Torn \in S
    OBVIOUS
<1> HIDE DEF S
<1>3. Put(lines, unended, row) \in Seq(S) /\ Put(lines, unended, row) # <<>>
    BY <1>1, <1>2, PutIsSeq
<1>4. lines' = Put(lines, unended, row) /\ unended' \in BOOLEAN
    BY DEF Puts
<1>5. lines' \in Seq(S) /\ lines' # <<>>
    BY <1>3, <1>4
<1>6. WalTypeOK'
    BY <1>4, <1>5 DEF WalTypeOK, S
<1>7. DOMAIN lines = 1..Len(lines) /\ DOMAIN lines' = 1..Len(lines')
    BY <1>1, <1>5, LenProperties
<1> QED BY <1>6, <1>7

LEMMA PutLength ==
    ASSUME WalTypeOK, NEW row \in Row \union {Torn}, Puts(row)
    PROVE  /\ Len(lines) \in Nat /\ Len(lines') \in Nat
           /\ unended => Len(lines) > 0
           /\ unended => Len(lines') = Len(lines)
           /\ ~unended => Len(lines') = Len(lines) + 1
<1> DEFINE S == Row \union {Torn}
<1>1. lines \in Seq(S) /\ unended \in BOOLEAN /\ (unended => lines # <<>>)
    BY DEF WalTypeOK
<1>2. row \in S /\ Torn \in S
    OBVIOUS
<1> HIDE DEF S
<1>3. Len(Put(lines, unended, row)) = IF unended THEN Len(lines) ELSE Len(lines) + 1
    BY <1>1, <1>2, PutLen
<1>4. Len(lines) \in Nat
    BY <1>1, LenProperties
<1>5. unended => Len(lines) > 0
    BY <1>1, <1>4, EmptySeq
<1> QED BY <1>3, <1>4, <1>5 DEF Puts

LEMMA PutContents ==
    ASSUME WalTypeOK, NEW row \in Row \union {Torn}, Puts(row)
    PROVE  /\ unended => lines'[Len(lines')] = Torn
           /\ ~unended => lines'[Len(lines')] = row
           /\ \A j \in 1..Len(lines) : j < Len(lines') => lines'[j] = lines[j]
<1> DEFINE S == Row \union {Torn}
<1>1. lines \in Seq(S) /\ unended \in BOOLEAN /\ (unended => lines # <<>>)
    BY DEF WalTypeOK
<1>2. row \in S /\ Torn \in S
    OBVIOUS
<1> HIDE DEF S
<1> DEFINE p == Put(lines, unended, row)
<1>3. p[Len(p)] = IF unended THEN Torn ELSE row
    BY <1>1, <1>2, PutEnd, ZenonT(60)
<1>4. \A j \in 1..Len(lines) : j < Len(p) => p[j] = lines[j]
    BY <1>1, <1>2, PutRest
<1>5. lines' = p
    BY DEF Puts
<1> HIDE DEF p
<1> QED BY <1>3, <1>4, <1>5, Zenon

(* Complete lines stay, corruption stays, and gluing a line corrupts.      *)
LEMMA PutKeeps ==
    ASSUME WalTypeOK, NEW row \in Row \union {Torn}, Puts(row)
    PROVE  /\ Corrupt => Corrupt'
           /\ unended /\ ~unended' => Corrupt'
           /\ \A i \in Ids : CompleteEvents(i) \subseteq CompleteEvents(i)'
<1>1. DOMAIN lines = 1..Len(lines) /\ DOMAIN lines' = 1..Len(lines')
    BY PutType
<1>2. \A j \in 1..Len(lines) :
         ~(unended /\ j = Len(lines)) =>
             j \in 1..Len(lines') /\ j # Len(lines') /\ lines'[j] = lines[j]
    <2> SUFFICES ASSUME NEW j \in 1..Len(lines), ~(unended /\ j = Len(lines))
                 PROVE  j \in 1..Len(lines') /\ j # Len(lines') /\ lines'[j] = lines[j]
        OBVIOUS
    <2>1. j < Len(lines') /\ j \in 1..Len(lines') /\ j # Len(lines')
        BY PutLength
    <2> QED BY <2>1, PutContents
<1>3. Corrupt => Corrupt'
    <2> SUFFICES ASSUME Corrupt PROVE Corrupt'
        OBVIOUS
    <2>1. PICK j \in DOMAIN lines : lines[j] = Torn /\ ~(unended /\ j = Len(lines))
        BY DEF Corrupt
    <2>2. j \in DOMAIN lines' /\ j # Len(lines') /\ lines'[j] = Torn
        BY <1>1, <1>2, <2>1, Zenon
    <2> QED BY <2>2 DEF Corrupt
<1>4. unended /\ ~unended' => Corrupt'
    <2> SUFFICES ASSUME unended, ~unended' PROVE Corrupt'
        OBVIOUS
    <2>1. Len(lines') \in 1..Len(lines')
        BY PutLength
    <2>2. Len(lines') \in DOMAIN lines' /\ lines'[Len(lines')] = Torn
        BY <1>1, <2>1, PutContents, Zenon
    <2> QED BY <2>2 DEF Corrupt
<1>5. \A i \in Ids : CompleteEvents(i) \subseteq CompleteEvents(i)'
    <2> SUFFICES ASSUME NEW i \in Ids, NEW j \in CompleteEvents(i)
                 PROVE  j \in CompleteEvents(i)'
        OBVIOUS
    <2>1. /\ j \in 1..Len(lines) /\ ~(unended /\ j = Len(lines))
          /\ lines[j].event \notin {"TORN", "expired"} /\ lines[j].id = i
        BY <1>1 DEF CompleteEvents, Events
    <2>2. j \in 1..Len(lines') /\ j # Len(lines') /\ lines'[j] = lines[j]
        BY <1>2, <2>1, Zenon
    <2>3. j \in Events(i)'
        BY <1>1, <2>1, <2>2 DEF Events
    <2> QED BY <2>2, <2>3 DEF CompleteEvents
<1> QED BY <1>3, <1>4, <1>5

(* Every line after the put was there before, is torn or is the row put.   *)
LEMMA PutOrigin ==
    ASSUME WalTypeOK, NEW row \in Row \union {Torn}, Puts(row),
           NEW j \in DOMAIN lines', lines'[j] # Torn
    PROVE  \/ j \in DOMAIN lines /\ lines'[j] = lines[j]
           \/ j = Len(lines') /\ lines'[j] = row
<1>1. DOMAIN lines = 1..Len(lines) /\ DOMAIN lines' = 1..Len(lines')
    BY PutType
<1>2. CASE j = Len(lines')
    <2>1. lines'[j] = row
        BY <1>2, PutContents, Zenon
    <2> QED BY <1>2, <2>1
<1>3. CASE j # Len(lines')
    <2>1. j \in 1..Len(lines')
        BY <1>1
    <2>2. j \in 1..Len(lines) /\ j < Len(lines')
        BY <1>3, <2>1, PutLength
    <2> QED BY <1>1, <2>2, PutContents, Zenon
<1> QED BY <1>2, <1>3

-----------------------------------------------------------------------------
(* Type correctness.                                                       *)

LEMMA RowTypes ==
    ASSUME NEW i \in Ids, NEW f \in Fates
    PROVE  /\ SubmittedRow(i) \in Row /\ FailedRow(i) \in Row /\ ExpiredRow(i) \in Row
           /\ AcknowledgedRow(i, f) \in Row /\ ResolvedRow(i, f) \in Row
BY DEF SubmittedRow, FailedRow, ExpiredRow, AcknowledgedRow, ResolvedRow, Row, Fates

LEMMA WriteIsPut ==
    /\ \A row \in Row : Write(row) => Puts(row) /\ unended' = FALSE
    /\ \A row \in Row : TornWrite(row) => \E left \in {Torn, row} : Puts(left)
BY DEF Write, TornWrite, Puts, PartOf

LEMMA WritingAreRows ==
    ASSUME TypeOK
    PROVE  Writing \subseteq Row
<1>1. \A i \in Ids : fate[i] \in Fates
    BY DEF TypeOK
<1>2. Unresolved \subseteq Ids
    BY DEF Unresolved, Folded
<1> QED BY <1>1, <1>2, RowTypes DEF Writing, Recording

LEMMA PutsType ==
    ASSUME TypeOK, NEW row \in Row, Write(row) \/ TornWrite(row)
    PROVE  WalTypeOK'
<1>1. PICK r \in Row \union {Torn} : Puts(r)
    BY WriteIsPut, SMTT(60)
<1> QED BY <1>1, PutType DEF TypeOK

LEMMA TypeIsKept ==
    ASSUME TypeOK, [Next]_vars
    PROVE  TypeOK'
<1> USE DEF TypeOK
<1>0. NoId \notin Ids /\ MaxKills \in Nat
    BY IdsAssumption, SubmissionAssumption
<1>1. ASSUME Start PROVE TypeOK'
    BY <1>1 DEF Start, wal, WalTypeOK
<1>2. ASSUME NEW i \in Ids, Expire(i) PROVE TypeOK'
    <2>1. WalTypeOK'
        BY <1>2, RowTypes, PutsType DEF Expire, Fates
    <2> QED BY <1>2, <2>1 DEF Expire
<1>3. ASSUME NEW i \in Ids, Refuse(i) PROVE TypeOK'
    BY <1>3 DEF Refuse, wal, WalTypeOK
<1>4. ASSUME NEW i \in Ids, Record(i) PROVE TypeOK'
    <2>1. WalTypeOK'
        BY <1>4, RowTypes, PutsType DEF Record, Fates
    <2> QED BY <1>0, <1>4, <2>1 DEF Record
<1>5. ASSUME NEW i \in Ids, Resolve(i) PROVE TypeOK'
    <2>1. WalTypeOK'
        BY <1>5, RowTypes, PutsType DEF Resolve
    <2> QED BY <1>5, <2>1 DEF Resolve
<1>6. ASSUME Send PROVE TypeOK'
    BY <1>0, <1>6 DEF Send, wal, WalTypeOK, Fates
<1>7. ASSUME RequestLost PROVE TypeOK'
    BY <1>7 DEF RequestLost, wal, WalTypeOK
<1>8. ASSUME Acknowledge PROVE TypeOK'
    <2>1. what \in Ids /\ fate[what] \in Fates
        BY <1>8 DEF Acknowledge
    <2>2. WalTypeOK'
        BY <1>8, <2>1, RowTypes, PutsType DEF Acknowledge
    <2> QED BY <1>8, <2>2 DEF Acknowledge
<1>9. ASSUME RecordFailure PROVE TypeOK'
    <2>1. what \in Ids
        BY <1>9 DEF RecordFailure
    <2>2. WalTypeOK'
        BY <1>9, <2>1, RowTypes, PutsType DEF RecordFailure, Fates
    <2> QED BY <1>9, <2>1, <2>2 DEF RecordFailure
<1>10. ASSUME Kill PROVE TypeOK'
    BY <1>0, <1>10 DEF Kill, wal, WalTypeOK
<1>11. ASSUME KillInWrite PROVE TypeOK'
    <2>1. PICK row \in Writing :
            /\ TornWrite(row)
            /\ attempted' = IF row.event = "submitted" THEN attempted \union {row.id}
                                                       ELSE attempted
        BY <1>11 DEF KillInWrite
    <2>2. row \in Row /\ row.id \in Ids
        BY <2>1, WritingAreRows, RowsAreNotTorn
    <2>3. WalTypeOK'
        BY <2>1, <2>2, PutsType
    <2> QED BY <1>0, <1>11, <2>1, <2>2, <2>3 DEF KillInWrite
<1>12. ASSUME UNCHANGED vars PROVE TypeOK'
    BY <1>12 DEF vars, wal, WalTypeOK
<1> QED BY <1>1, <1>2, <1>3, <1>4, <1>5, <1>6, <1>7, <1>8, <1>9, <1>10, <1>11, <1>12
        DEF Next

-----------------------------------------------------------------------------
(* The inductive invariant.                                                *)

LEMMA SameWal ==
    ASSUME UNCHANGED wal
    PROVE  /\ Corrupt' = Corrupt
           /\ \A i \in Ids : Events(i)' = Events(i) /\ CompleteEvents(i)' = CompleteEvents(i)
BY DEF wal, Corrupt, Events, CompleteEvents

(* Whatever was sent stays recorded, and so does what is in submission.    *)
LEMMA PutKeepsRecords ==
    ASSUME WalTypeOK, SentIsRecorded, NEW row \in Row \union {Torn}, Puts(row)
    PROVE  \A i \in Ids : sends[i] = 1 \/ what = i => Corrupt' \/ CompleteEvents(i)' # {}
BY PutKeeps, Zenon DEF SentIsRecorded

(* A row that tells the truth keeps the log true.                          *)
LEMMA PutKeepsTruth ==
    ASSUME WalTypeOK, OutcomesAreTrue, NEW row \in Row \union {Torn}, Puts(row),
           fate' = fate,
           row \in Row /\ IsEvent(row) /\ row.outcome # "unknown" =>
               row.outcome = fate[row.id]
    PROVE  OutcomesAreTrue'
<1> SUFFICES ASSUME NEW j \in DOMAIN lines',
                    IsEvent(lines'[j]), lines'[j].outcome # "unknown"
             PROVE  lines'[j].outcome = fate[lines'[j].id]
    BY DEF OutcomesAreTrue, IsEvent
<1>1. lines'[j] # Torn
    BY DEF IsEvent, Torn
<1>2. CASE j \in DOMAIN lines /\ lines'[j] = lines[j]
    BY <1>2 DEF OutcomesAreTrue
<1>3. CASE lines'[j] = row
    BY <1>1, <1>3
<1> QED BY <1>1, <1>2, <1>3, PutOrigin

(* A step that puts a true row and leaves no intent in submission.         *)
LEMMA LastStep ==
    ASSUME IInv, NEW row \in Row \union {Torn}, Puts(row), TypeOK',
           row \in Row /\ IsEvent(row) /\ row.outcome # "unknown" =>
               row.outcome = fate[row.id],
           what' = NoId, UNCHANGED <<fate, sends>>
    PROVE  IInv'
<1>0. \A i \in Ids : i # NoId
    BY IdsAssumption
<1>1. SentOnce'
    BY DEF IInv, SentOnce
<1>2. SentIsRecorded'
    <2>1. pc' # "recorded"
        BY DEF TypeOK
    <2> QED BY <1>0, <2>1, PutKeepsRecords DEF IInv, TypeOK, SentIsRecorded
<1>3. OutcomesAreTrue'
    BY PutKeepsTruth DEF IInv, TypeOK
<1>4. InSubmissionIsUnknown'
    BY DEF InSubmissionIsUnknown
<1> QED BY <1>1, <1>2, <1>3, <1>4 DEF IInv

(* A step that does not touch the log and sends nothing.                   *)
LEMMA SilentStep ==
    ASSUME IInv, TypeOK', UNCHANGED <<wal, fate, sends>>, what' \in {what, NoId},
           pc' = "recorded" => pc = "recorded"
    PROVE  IInv'
<1>0. \A i \in Ids : i # NoId
    BY IdsAssumption
<1>1. SentOnce'
    BY DEF IInv, SentOnce
<1>2. SentIsRecorded'
    <2>1. pc' = "recorded" => what' = what
        BY DEF TypeOK
    <2> QED BY <1>0, <2>1, SameWal DEF IInv, SentIsRecorded
<1>3. OutcomesAreTrue'
    BY DEF IInv, OutcomesAreTrue, IsEvent, wal
<1>4. InSubmissionIsUnknown'
    BY DEF IInv, InSubmissionIsUnknown, Events, wal
<1> QED BY <1>1, <1>2, <1>3, <1>4 DEF IInv

(* submit: the first line about an intent, and nothing sent before it.     *)
LEMMA RecordStep ==
    ASSUME IInv, TypeOK', NEW i \in Ids, Record(i)
    PROVE  IInv'
<1>0. i # NoId /\ pc' = "recorded" /\ what' = i /\ what = NoId
    BY IdsAssumption DEF Record, IInv, TypeOK
<1> DEFINE row == SubmittedRow(i)
<1>1. /\ row \in Row /\ row # Torn /\ row.event = "submitted" /\ row.id = i
      /\ row.outcome = "unknown"
    BY RowsAreNotTorn DEF SubmittedRow, Row, Torn
<1>2. Puts(row) /\ unended' = FALSE /\ fate' = fate /\ sends' = sends
    BY <1>1, WriteIsPut DEF Record
<1> HIDE DEF row
<1>3. WalTypeOK /\ unended \in BOOLEAN
    BY DEF IInv, TypeOK, WalTypeOK
<1>4. Events(i) = {} /\ ~Corrupt
    BY DEF Record, Folded
<1>5. sends[i] = 0
    BY <1>4 DEF IInv, SentOnce, SentIsRecorded, CompleteEvents
<1>6. Corrupt' \/ CompleteEvents(i)' # {}
    <2>1. CASE unended
        BY <1>1, <1>2, <1>3, <2>1, PutKeeps
    <2>2. CASE ~unended
        <3>1. Len(lines') \in 1..Len(lines')
            BY <1>1, <1>2, <1>3, <2>2, PutLength
        <3>2. Len(lines') \in DOMAIN lines' /\ lines'[Len(lines')] = row
            BY <1>1, <1>2, <1>3, <2>2, <3>1, PutType, PutContents, Zenon
        <3>3. Len(lines') \in CompleteEvents(i)'
            BY <1>1, <1>2, <3>2 DEF CompleteEvents, Events
        <3> QED BY <3>3
    <2> QED BY <2>1, <2>2
<1>7. SentIsRecorded'
    <2>1. \A k \in Ids : sends[k] = 1 => Corrupt' \/ CompleteEvents(k)' # {}
        BY <1>1, <1>2, <1>3, PutKeepsRecords DEF IInv
    <2> QED BY <1>0, <1>2, <1>5, <1>6, <2>1 DEF SentIsRecorded
<1>8. InSubmissionIsUnknown'
    <2> SUFFICES ASSUME NEW j \in Events(i)' PROVE lines'[j].outcome = "unknown"
        BY <1>0 DEF InSubmissionIsUnknown
    <2>1. j \in DOMAIN lines' /\ lines'[j] # Torn
        BY DEF Events, Torn
    <2>2. ~(j \in DOMAIN lines /\ lines'[j] = lines[j])
        BY <1>4 DEF Events
    <2>3. lines'[j] = row
        BY <1>1, <1>2, <1>3, <2>1, <2>2, PutOrigin
    <2> QED BY <1>1, <2>3
<1>9. OutcomesAreTrue'
    BY <1>1, <1>2, <1>3, PutKeepsTruth DEF IInv
<1>10. SentOnce'
    BY <1>2 DEF IInv, SentOnce
<1> QED BY <1>7, <1>8, <1>9, <1>10 DEF IInv

(* The send: nothing was sent for this intent, and no line has its fate.   *)
LEMMA SendStep ==
    ASSUME IInv, TypeOK', Send
    PROVE  IInv'
<1>0. what \in Ids /\ what' = what /\ pc = "recorded" /\ pc' # "recorded"
    BY IdsAssumption DEF Send, IInv, TypeOK
<1>1. UNCHANGED wal /\ sends[what] = 0
    BY <1>0 DEF Send, IInv, SentIsRecorded
<1>2. sends' = [sends EXCEPT ![what] = 1]
    BY <1>0, <1>1 DEF Send, IInv, TypeOK
<1>3. \A i \in Ids : i # what => fate'[i] = fate[i]
    BY <1>0 DEF Send, IInv, TypeOK
<1>4. SentOnce'
    BY <1>0, <1>2 DEF IInv, SentOnce, TypeOK
<1>5. SentIsRecorded'
    BY <1>0, <1>1, <1>2, SameWal DEF IInv, SentIsRecorded, TypeOK
<1>6. OutcomesAreTrue'
    <2> SUFFICES ASSUME NEW j \in DOMAIN lines,
                        IsEvent(lines[j]), lines[j].outcome # "unknown"
                 PROVE  lines[j].outcome = fate'[lines[j].id]
        BY <1>1 DEF OutcomesAreTrue, IsEvent, wal
    <2>1. lines[j] \in Row
        BY DEF IInv, TypeOK, WalTypeOK, IsEvent, Torn
    <2>2. lines[j].id # what
        BY <1>0 DEF IInv, InSubmissionIsUnknown, Events, IsEvent, TypeOK
    <2> QED BY <1>3, <2>1, <2>2, RowsAreNotTorn DEF IInv, OutcomesAreTrue
<1>7. InSubmissionIsUnknown'
    BY <1>0, <1>1 DEF IInv, InSubmissionIsUnknown, Events, wal
<1> QED BY <1>4, <1>5, <1>6, <1>7 DEF IInv

LEMMA Initially ==
    ASSUME Init
    PROVE  IInv
<1>0. lines = <<>> /\ unended = FALSE /\ pc = "down" /\ what = NoId
    BY DEF Init
<1>1. TypeOK
    <2>1. WalTypeOK
        BY <1>0, EmptySeq DEF WalTypeOK
    <2>2. fate \in [Ids -> Fates] /\ sends \in [Ids -> Nat]
        BY DEF Init, Fates
    <2>3. attempted = {} /\ dropped = {} /\ kills \in 0..MaxKills
        BY SubmissionAssumption DEF Init
    <2> QED BY <1>0, <2>1, <2>2, <2>3 DEF TypeOK
<1>2. \A i \in Ids : what # i /\ sends[i] = 0
    BY IdsAssumption DEF Init
<1>3. DOMAIN lines = {} /\ pc # "recorded" /\ what = NoId
    BY DEF Init
<1> QED BY <1>1, <1>2, <1>3
        DEF IInv, SentOnce, SentIsRecorded, OutcomesAreTrue, InSubmissionIsUnknown

LEMMA InvIsKept ==
    ASSUME IInv, [Next]_vars
    PROVE  IInv'
<1>0. TypeOK /\ TypeOK'
    BY TypeIsKept DEF IInv
<1>1. ASSUME Start \/ RequestLost \/ Kill \/ UNCHANGED vars \/ \E i \in Ids : Refuse(i)
      PROVE  IInv'
    BY <1>0, <1>1, SilentStep, Zenon DEF Start, RequestLost, Kill, Refuse, vars
<1>2. ASSUME NEW i \in Ids, Expire(i) PROVE IInv'
    <2>1. ExpiredRow(i) \in Row /\ ~IsEvent(ExpiredRow(i)) /\ Puts(ExpiredRow(i))
        BY <1>2, RowTypes, WriteIsPut DEF Expire, ExpiredRow, IsEvent, Fates
    <2>2. what' = NoId
        BY <1>0, <1>2 DEF Expire, TypeOK
    <2> QED BY <1>0, <1>2, <2>1, <2>2, LastStep DEF Expire
<1>3. ASSUME NEW i \in Ids, Record(i) PROVE IInv'
    BY <1>0, <1>3, RecordStep
<1>4. ASSUME NEW i \in Ids, Resolve(i) PROVE IInv'
    <2> DEFINE row == ResolvedRow(i, fate[i])
    <2>1. row \in Row /\ Puts(row) /\ row.outcome = fate[row.id]
        BY <1>0, <1>4, RowTypes, WriteIsPut DEF Resolve, ResolvedRow, TypeOK
    <2>2. what' = NoId /\ UNCHANGED <<fate, sends>>
        BY <1>0, <1>4 DEF Resolve, TypeOK
    <2> HIDE DEF row
    <2> QED BY <1>0, <2>1, <2>2, LastStep
<1>5. ASSUME Send PROVE IInv'
    BY <1>0, <1>5, SendStep
<1>6. ASSUME Acknowledge PROVE IInv'
    <2> DEFINE row == AcknowledgedRow(what, fate[what])
    <2>1. what \in Ids
        BY <1>0, <1>6 DEF Acknowledge, TypeOK
    <2>2. row \in Row /\ Puts(row) /\ row.outcome = fate[row.id]
        BY <1>0, <1>6, <2>1, RowTypes, WriteIsPut DEF Acknowledge, AcknowledgedRow, TypeOK
    <2>3. what' = NoId /\ UNCHANGED <<fate, sends>>
        BY <1>6 DEF Acknowledge
    <2> HIDE DEF row
    <2> QED BY <1>0, <2>2, <2>3, LastStep
<1>7. ASSUME RecordFailure PROVE IInv'
    <2> DEFINE row == FailedRow(what)
    <2>1. what \in Ids /\ (\E f \in Fates : TRUE)
        BY <1>0, <1>7 DEF RecordFailure, TypeOK, Fates
    <2>2. row \in Row /\ Puts(row) /\ row.outcome = "unknown"
        BY <1>7, <2>1, RowTypes, WriteIsPut DEF RecordFailure, FailedRow
    <2>3. what' = NoId /\ UNCHANGED <<fate, sends>>
        BY <1>7 DEF RecordFailure
    <2> HIDE DEF row
    <2> QED BY <1>0, <2>2, <2>3, LastStep
<1>8. ASSUME KillInWrite PROVE IInv'
    <2>1. PICK row \in Writing : TornWrite(row)
        BY <1>8 DEF KillInWrite
    <2>2. row \in Row
        BY <1>0, <2>1, WritingAreRows
    <2>3. IsEvent(row) /\ row.outcome # "unknown" => row.outcome = fate[row.id]
        BY <2>1 DEF Writing, IsEvent, SubmittedRow, ExpiredRow, AcknowledgedRow,
                    FailedRow, ResolvedRow
    <2>4. PICK left \in {Torn, row} : Puts(left)
        BY <2>1, <2>2, WriteIsPut
    <2>5. left \in Row => left = row
        BY RowsAreNotTorn
    <2>6. what' = NoId /\ UNCHANGED <<fate, sends>>
        BY <1>8 DEF KillInWrite
    <2> QED BY <1>0, <2>2, <2>3, <2>4, <2>5, <2>6, LastStep
<1> QED BY <1>1, <1>2, <1>3, <1>4, <1>5, <1>6, <1>7, <1>8 DEF Next

-----------------------------------------------------------------------------
(* Theorems.                                                               *)

(* The invariant of the argument holds in every reachable state.           *)
THEOREM Invariance == Spec => []IInv
<1>1. Init => IInv
    BY Initially
<1>2. IInv /\ [Next]_vars => IInv'
    BY InvIsKept
<1> QED BY <1>1, <1>2, PTL DEF Spec

(* The log, the engine and the venue have the types submit gives them.     *)
THEOREM TypeCorrect == Spec => []TypeOK
<1>1. IInv => TypeOK
    BY DEF IInv
<1> QED BY <1>1, Invariance, PTL

(* submit never hands the same intent to the transport twice, whatever is  *)
(* killed, torn, lost or retried.                                          *)
THEOREM SentAtMostOnce == Spec => []NeverSentTwice
<1>1. IInv => NeverSentTwice
    BY DEF IInv, SentOnce, NeverSentTwice
<1> QED BY <1>1, Invariance, PTL

(* The last event of a recorded intent is one of its events.               *)
LEMMA LastEvent ==
    ASSUME WalTypeOK, NEW i \in Ids, i \in Folded
    PROVE  Last(Events(i)) \in Events(i)
<1>1. Len(lines) \in Nat /\ DOMAIN lines = 1..Len(lines)
    BY LenProperties DEF WalTypeOK
<1>2. Events(i) \in SUBSET (1..Len(lines)) /\ Events(i) # {}
    BY <1>1 DEF Events, Folded
<1> QED BY <1>1, <1>2, LastIn

(* A log that recover_and_reconcile would start on knows the fate of every *)
(* order the venue received.                                               *)
THEOREM NoneForgotten == Spec => []NothingForgotten
<1>1. ASSUME IInv PROVE NothingForgotten
    <2> SUFFICES ASSUME MayStart, NEW i \in Ids, sends[i] > 0
                 PROVE  i \in Folded /\ Outcome(i) = fate[i]
        BY DEF NothingForgotten
    <2>1. sends[i] = 1 /\ ~Corrupt
        BY <1>1 DEF IInv, SentOnce, MayStart
    <2>2. i \in Folded
        BY <1>1, <2>1 DEF IInv, SentIsRecorded, CompleteEvents, Folded
    <2>3. Outcome(i) # "unknown"
        BY <2>2 DEF MayStart, Unresolved
    <2>4. Last(Events(i)) \in Events(i)
        BY <1>1, <2>2, LastEvent DEF IInv, TypeOK
    <2>5. Outcome(i) = fate[i]
        BY <1>1, <2>3, <2>4 DEF IInv, OutcomesAreTrue, Outcome, Events, IsEvent
    <2> QED BY <2>2, <2>5
<1> QED BY <1>1, Invariance, PTL

(* A put that is not an event of i leaves what the log says of i.          *)
LEMMA PutKeepsOutcome ==
    ASSUME WalTypeOK, ~unended, NEW i \in Ids, i \in Folded,
           NEW row \in Row \union {Torn}, Puts(row),
           row \in Row /\ IsEvent(row) => row.id # i
    PROVE  i \in Folded' /\ Outcome(i)' = Outcome(i)
<1>1. Events(i) \subseteq Events(i)'
    BY PutKeeps DEF CompleteEvents
<1>2. \A j \in Events(i)' : j \in Events(i) /\ lines'[j] = lines[j]
    <2> SUFFICES ASSUME NEW j \in Events(i)' PROVE j \in Events(i) /\ lines'[j] = lines[j]
        OBVIOUS
    <2>1. /\ j \in DOMAIN lines' /\ lines'[j] # Torn
          /\ IsEvent(lines'[j]) /\ lines'[j].id = i
        BY DEF Events, Torn, IsEvent
    <2>2. lines'[j] # row
        BY <2>1
    <2>3. j \in DOMAIN lines /\ lines'[j] = lines[j]
        BY <2>1, <2>2, PutOrigin
    <2> QED BY <2>1, <2>3 DEF Events, IsEvent
<1>3. Events(i)' = Events(i)
    BY <1>1, <1>2
<1>4. Last(Events(i)) \in Events(i)
    BY LastEvent
<1>5. lines'[Last(Events(i))] = lines[Last(Events(i))]
    BY <1>2, <1>3, <1>4
<1> QED BY <1>3, <1>4, <1>5 DEF Folded, Outcome

(* No later event of a retry, a failure, a resolution or an expiry         *)
(* replaces an outcome that was known, and on a complete line.             *)
THEOREM KnownIsKept == Spec => KnownStaysKnown
<1>1. ASSUME IInv, [Next]_vars, NEW i \in Ids, Known(i), ~unended
      PROVE  Known(i)' /\ Outcome(i)' = Outcome(i)
    <2>0. WalTypeOK /\ TypeOK /\ i \in Folded /\ Outcome(i) # "unknown"
        BY <1>1 DEF IInv, TypeOK, Known
    <2>1. i # what
        <3>1. Last(Events(i)) \in Events(i)
            BY <2>0, LastEvent
        <3>2. i # NoId
            BY IdsAssumption
        <3>3. i = what => \A j \in Events(i) : lines[j].outcome = "unknown"
            BY <1>1, <3>2 DEF IInv, InSubmissionIsUnknown
        <3> QED BY <2>0, <3>1, <3>3 DEF Outcome
    <2>2. SUFFICES i \in Folded' /\ Outcome(i)' = Outcome(i)
        BY <2>0 DEF Known
    <2>3. ASSUME UNCHANGED wal PROVE i \in Folded' /\ Outcome(i)' = Outcome(i)
        BY <2>0, <2>3 DEF wal, Folded, Outcome, Events
    <2>4. ASSUME NEW row \in Writing, Write(row) \/ TornWrite(row)
          PROVE  i \in Folded' /\ Outcome(i)' = Outcome(i)
        <3>1. row \in Row
            BY <2>0, WritingAreRows
        <3>2. IsEvent(row) => row.id # i
            BY <2>0, <2>1 DEF Writing, Recording, Unresolved, IsEvent, SubmittedRow,
                ExpiredRow, AcknowledgedRow, FailedRow, ResolvedRow
        <3>3. PICK left \in {Torn, row} : Puts(left)
            BY <2>4, <3>1, WriteIsPut
        <3>4. left \in Row => left = row
            BY RowsAreNotTorn
        <3> QED BY <1>1, <2>0, <3>1, <3>2, <3>3, <3>4, PutKeepsOutcome
    <2>5. ASSUME NEW k \in Ids, Expire(k) PROVE \E row \in Writing : Write(row)
        BY <2>5 DEF Expire, Writing
    <2>6. ASSUME NEW k \in Ids, Record(k) PROVE \E row \in Writing : Write(row)
        BY <2>6 DEF Record, Writing, Recording
    <2>7. ASSUME NEW k \in Ids, Resolve(k) PROVE \E row \in Writing : Write(row)
        BY <2>7 DEF Resolve, Writing
    <2>8. ASSUME Acknowledge PROVE \E row \in Writing : Write(row)
        BY <2>0, <2>8 DEF Acknowledge, Writing, TypeOK
    <2>9. ASSUME RecordFailure PROVE \E row \in Writing : Write(row)
        BY <2>0, <2>9 DEF RecordFailure, Writing, TypeOK
    <2>10. ASSUME KillInWrite PROVE \E row \in Writing : TornWrite(row)
        BY <2>10 DEF KillInWrite
    <2>11. ASSUME Start \/ RequestLost \/ Kill \/ Send \/ UNCHANGED vars
                   \/ \E k \in Ids : Refuse(k)
           PROVE  UNCHANGED wal
        BY <2>11 DEF Start, RequestLost, Kill, Send, Refuse, vars
    <2> QED BY <1>1, <2>3, <2>4, <2>5, <2>6, <2>7, <2>8, <2>9, <2>10, <2>11 DEF Next
<1>2. IInv /\ [Next]_vars =>
        \A i \in Ids : Known(i) /\ ~unended => Known(i)' /\ Outcome(i)' = Outcome(i)
    BY <1>1
<1> QED BY <1>2, Invariance, PTL DEF Spec, KnownStaysKnown

-----------------------------------------------------------------------------
(* The paper engine (ForwardEngine).  What it trades is new: the feed reads*)
(* on from the newest row it knows, and of the rows that were there when   *)
(* the run began only the newest is at that mark, which was marked as seen.*)

Earlier(keys, k) == {l \in keys : InTime(l, k)}

LEMMA KeysAreTimed ==
    ASSUME NEW k \in Key
    PROVE  k[1] \in Nat /\ k[2] \in Nat /\ k = <<k[1], k[2]>>
<1>1. k = <<k[1], k[2]>> /\ k[1] \in Nat /\ k[2] \in Instruments
    BY DEF Key
<1> QED BY <1>1, InstrumentsAssumption

LEMMA EarlierIsFewer ==
    ASSUME NEW keys \in SUBSET Key, IsFiniteSet(keys), NEW k \in keys
    PROVE  IsFiniteSet(Earlier(keys, k)) /\ Cardinality(Earlier(keys, k)) \in 0..(Cardinality(keys) - 1)
<1>1. k[1] \in Nat /\ k[2] \in Nat
    BY KeysAreTimed
<1>2. Earlier(keys, k) \in SUBSET keys /\ k \notin Earlier(keys, k)
    BY <1>1 DEF Earlier, InTime
<1>3. /\ IsFiniteSet(Earlier(keys, k)) /\ Cardinality(Earlier(keys, k)) <= Cardinality(keys)
      /\ Cardinality(keys) = Cardinality(Earlier(keys, k)) => keys = Earlier(keys, k)
    BY <1>2, FS_Subset
<1>4. Cardinality(Earlier(keys, k)) \in Nat /\ Cardinality(keys) \in Nat
    BY <1>3, FS_CardinalityType
<1> QED BY <1>2, <1>3, <1>4

LEMMA EarlierTellsApart ==
    ASSUME NEW keys \in SUBSET Key, IsFiniteSet(keys), NEW k \in keys, NEW l \in keys, k # l
    PROVE  Cardinality(Earlier(keys, k)) # Cardinality(Earlier(keys, l))
<1>1. ASSUME NEW x \in keys, NEW y \in keys, InTime(x, y)
      PROVE  Cardinality(Earlier(keys, x)) # Cardinality(Earlier(keys, y))
    <2>1. Earlier(keys, x) \in SUBSET Earlier(keys, y)
        <3> SUFFICES ASSUME NEW z \in keys, InTime(z, x) PROVE InTime(z, y)
            BY DEF Earlier
        <3>1. /\ x[1] \in Nat /\ x[2] \in Nat /\ y[1] \in Nat /\ y[2] \in Nat
              /\ z[1] \in Nat /\ z[2] \in Nat
            BY KeysAreTimed
        <3> QED BY <1>1, <3>1 DEF InTime
    <2>2. x \in Earlier(keys, y)
        BY <1>1 DEF Earlier
    <2>3. x[1] \in Nat /\ x[2] \in Nat
        BY KeysAreTimed
    <2>4. x \notin Earlier(keys, x)
        BY <2>3 DEF Earlier, InTime
    <2>5. IsFiniteSet(Earlier(keys, y))
        BY EarlierIsFewer
    <2> QED BY <2>1, <2>2, <2>4, <2>5, FS_Subset
<1>2. InTime(k, l) \/ InTime(l, k)
    <2>1. /\ k[1] \in Nat /\ k[2] \in Nat /\ k = <<k[1], k[2]>>
          /\ l[1] \in Nat /\ l[2] \in Nat /\ l = <<l[1], l[2]>>
        BY KeysAreTimed
    <2>2. k[1] # l[1] \/ k[2] # l[2]
        BY <2>1
    <2> QED BY <2>1, <2>2 DEF InTime
<1> QED BY <1>1, <1>2

(* The feed hands over each new row once, in the order of time.            *)
LEMMA EachHasItsTurn ==
    ASSUME NEW keys \in SUBSET Key, IsFiniteSet(keys), NEW i \in 1..Cardinality(keys)
    PROVE  \E k \in keys : Cardinality(Earlier(keys, k)) = i - 1
<1> DEFINE n == Cardinality(keys)
           turn == [k \in keys |-> Cardinality(Earlier(keys, k))]
<1>1. n \in Nat
    BY FS_CardinalityType
<1>2. turn \in Injection(keys, 0..(n - 1))
    <2>1. \A k \in keys : Cardinality(Earlier(keys, k)) \in 0..(n - 1)
        BY EarlierIsFewer
    <2>2. \A k, l \in keys : k # l => Cardinality(Earlier(keys, k)) # Cardinality(Earlier(keys, l))
        BY EarlierTellsApart
    <2>3. DOMAIN turn = keys /\ turn \in [keys -> 0..(n - 1)]
        BY <2>1
    <2>4. \A k, l \in keys : turn[k] = turn[l] => k = l
        BY <2>2
    <2> HIDE DEF turn
    <2> QED BY <2>3, <2>4 DEF Injection, IsInjective
<1>3. IsFiniteSet(0..(n - 1)) /\ Cardinality(0..(n - 1)) = n
    <2> HIDE DEF n
    <2>1. 0 \in Int /\ n - 1 \in Int
        BY <1>1
    <2>2. /\ IsFiniteSet(0..(n - 1))
          /\ Cardinality(0..(n - 1)) = IF 0 > n - 1 THEN 0 ELSE (n - 1) - 0 + 1
        BY <2>1, FS_Interval, Zenon
    <2> QED BY <1>1, <2>2
<1>4. turn \in Surjection(keys, 0..(n - 1))
    <2> HIDE DEF turn
    <2> QED BY <1>2, <1>3, FS_Injection
<1>5. i - 1 \in 0..(n - 1)
    BY <1>1
<1> QED BY <1>4, <1>5 DEF Surjection

NewRows == RowsFrom(watermark) \ emitted

LEMMA NewRowsAreFinite ==
    ASSUME store \in Seq(Key)
    PROVE  IsFiniteSet(NewRows) /\ NewRows \in SUBSET Key
<1> DEFINE I == {k \in DOMAIN store : k >= watermark}
           f == [i \in I |-> store[i]]
<1>1. DOMAIN store = 1..Len(store) /\ Len(store) \in Nat
    BY LenProperties
<1>2. IsFiniteSet(1..Len(store)) /\ I \in SUBSET (1..Len(store))
    BY <1>1, FS_Interval
<1>3. IsFiniteSet(I)
    <2> HIDE DEF I
    <2> QED BY <1>2, FS_Subset
<1>4. f \in Surjection(I, RowsFrom(watermark))
    <2> HIDE DEF I
    <2>1. f \in [I -> RowsFrom(watermark)]
        BY DEF RowsFrom, I
    <2>2. \A t \in RowsFrom(watermark) : \E i \in I : f[i] = t
        BY DEF RowsFrom, I
    <2> HIDE DEF f
    <2> QED BY <2>1, <2>2 DEF Surjection
<1>5. IsFiniteSet(RowsFrom(watermark))
    <2> HIDE DEF f, I
    <2> QED BY <1>3, <1>4, FS_Surjection
<1>6. NewRows \in SUBSET RowsFrom(watermark) /\ RowsFrom(watermark) \in SUBSET Key
    BY DEF RowsFrom, NewRows
<1> QED BY <1>5, <1>6, FS_Subset

LEMMA ProducedOnce ==
    ASSUME store \in Seq(Key)
    PROVE  /\ Produced \in Seq(NewRows)
           /\ \A i, j \in DOMAIN Produced : Produced[i] = Produced[j] => i = j
<1>1. IsFiniteSet(NewRows) /\ NewRows \in SUBSET Key
    BY NewRowsAreFinite
<1>2. Cardinality(NewRows) \in Nat
    BY <1>1, FS_CardinalityType
<1>3. Produced = [i \in 1..Cardinality(NewRows) |->
                    CHOOSE k \in NewRows : Cardinality(Earlier(NewRows, k)) = i - 1]
    BY Zenon DEF Produced, NewRows, Earlier
<1>4. ASSUME NEW i \in 1..Cardinality(NewRows)
      PROVE  Produced[i] \in NewRows /\ Cardinality(Earlier(NewRows, Produced[i])) = i - 1
    <2>1. \E k \in NewRows : Cardinality(Earlier(NewRows, k)) = i - 1
        BY <1>1, EachHasItsTurn
    <2>2. Produced[i] = CHOOSE k \in NewRows : Cardinality(Earlier(NewRows, k)) = i - 1
        BY <1>3
    <2> QED BY <2>1, <2>2
<1>5. Produced \in [1..Cardinality(NewRows) -> NewRows]
    BY <1>3, <1>4
<1> QED BY <1>2, <1>4, <1>5

(* What the feed knows while a run lasts: it has read on at least to where *)
(* the run began, and has marked the row that was the newest then.         *)
FeedInv ==
    /\ store \in Seq(Key) /\ began \in 0..Len(store)
    /\ watermark \in 0..Len(store)
    /\ primeMarker \in 0..Len(store) \union {NoMarker}
    /\ at = "down" => fed = {}
    /\ at # "down" => began <= watermark /\ (began > 0 => store[began] \in emitted)

(* What the poll is still to handle is known to the feed, new to the run,  *)
(* in the queue once, and not handled before.                              *)
QueueInv ==
    /\ queue \in Seq(Key)
    /\ at \in {"down", "idle"} => queue = <<>>
    /\ at \in {"filling", "filled", "observed"} => queue # <<>>
    /\ fed \subseteq emitted
    /\ \A i \in DOMAIN queue :
        /\ queue[i] \in RowsFrom(began + 1) /\ queue[i] \in emitted
        /\ (at = "polling" \/ i # 1) => queue[i] \notin fed
    /\ \A i, j \in DOMAIN queue : queue[i] = queue[j] => i = j

AtKnown == at \in {"down", "idle", "polling", "filling", "filled", "observed"}

EngineInv == AtKnown /\ FeedInv /\ QueueInv

LEMMA EngineStarts == EngineInit => EngineInv
BY DEF EngineInit, EngineInv, AtKnown, FeedInv, QueueInv, Key

LEMMA StoreGrows ==
    ASSUME store \in Seq(Key), NEW k \in Key, store' = Append(store, k)
    PROVE  /\ store' \in Seq(Key) /\ Len(store') = Len(store) + 1
           /\ \A i \in 1..Len(store) : store'[i] = store[i]
           /\ \A j : RowsFrom(j) \subseteq RowsFrom(j)'
<1>1. /\ store' \in Seq(Key) /\ Len(store') = Len(store) + 1 /\ Len(store) \in Nat
      /\ DOMAIN store = 1..Len(store) /\ DOMAIN store' = 1..(Len(store) + 1)
      /\ \A i \in 1..Len(store) : store'[i] = store[i]
    BY AppendProperties, LenProperties
<1>2. ASSUME NEW j, NEW i \in DOMAIN store, i >= j
      PROVE  store[i] \in RowsFrom(j)'
    <2>1. i \in DOMAIN store' /\ store'[i] = store[i]
        BY <1>1
    <2> QED BY <1>2, <2>1 DEF RowsFrom
<1>3. \A j : RowsFrom(j) \subseteq RowsFrom(j)'
    BY <1>2 DEF RowsFrom
<1> QED BY <1>1, <1>3

LEMMA NewRowKeeps ==
    ASSUME EngineInv, NEW k \in Key, store' = Append(store, k),
           UNCHANGED <<feed, primeMarker, at, pollState, fed, began>>
    PROVE  EngineInv'
<1>1. /\ store' \in Seq(Key) /\ Len(store') = Len(store) + 1 /\ Len(store) \in Nat
      /\ \A i \in 1..Len(store) : store'[i] = store[i]
      /\ \A j : RowsFrom(j) \subseteq RowsFrom(j)'
    BY StoreGrows, LenProperties DEF EngineInv, FeedInv
<1>2. UNCHANGED <<watermark, emitted, primeMarker, at, queue, fed, began>>
    BY DEF feed, pollState
<1>3. began \in 0..Len(store)
    BY DEF EngineInv, FeedInv
<1>4. FeedInv'
    BY <1>1, <1>2, <1>3 DEF EngineInv, FeedInv
<1>5. RowsFrom(began + 1) \subseteq RowsFrom(began + 1)'
    BY <1>1, <1>2
<1>6. QueueInv'
    BY <1>2, <1>5 DEF EngineInv, QueueInv
<1> QED BY <1>2, <1>4, <1>6 DEF EngineInv, AtKnown

LEMMA StartEngineKeeps ==
    ASSUME EngineInv, StartEngine
    PROVE  EngineInv'
<1>1. /\ at = "down" /\ at' = "idle" /\ began' = Len(store) /\ watermark' = Len(store)
      /\ emitted' = RowsFrom(IF primeMarker = NoMarker THEN 0 ELSE primeMarker)
      /\ UNCHANGED <<store, primeMarker, queue, fed>>
    BY DEF StartEngine, MarkSeen, pollState
<1>2. Len(store) \in Nat /\ DOMAIN store = 1..Len(store) /\ fed = {} /\ queue = <<>>
    BY <1>1, LenProperties DEF EngineInv, FeedInv, QueueInv
<1>3. Len(store) > 0 => store[Len(store)] \in emitted'
    <2>1. primeMarker = NoMarker \/ primeMarker \in 0..Len(store)
        BY DEF EngineInv, FeedInv
    <2> QED BY <1>1, <1>2, <2>1 DEF RowsFrom
<1>4. FeedInv'
    BY <1>1, <1>2, <1>3 DEF EngineInv, FeedInv
<1>5. QueueInv'
    BY <1>1, <1>2 DEF EngineInv, QueueInv
<1> QED BY <1>1, <1>4, <1>5 DEF EngineInv, AtKnown

LEMMA BeginPollKeeps ==
    ASSUME EngineInv, BeginPoll
    PROVE  EngineInv'
<1>1. /\ at = "idle" /\ at' = "polling" /\ queue' = Produced
      /\ emitted' = emitted \union RowsFrom(watermark) /\ watermark' = Len(store)
      /\ UNCHANGED <<store, primeMarker, fed, began>>
    BY DEF BeginPoll, ReadOn
<1>2. /\ store \in Seq(Key) /\ Len(store) \in Nat /\ DOMAIN store = 1..Len(store)
      /\ began \in 0..Len(store) /\ watermark \in 0..Len(store) /\ began <= watermark
      /\ began > 0 => store[began] \in emitted
    BY <1>1, LenProperties DEF EngineInv, FeedInv
<1>3. FeedInv'
    BY <1>1, <1>2 DEF EngineInv, FeedInv
<1>4. NewRows \subseteq Key /\ queue' \in Seq(NewRows) /\ \A i, j \in DOMAIN queue' : queue'[i] = queue'[j] => i = j
    BY <1>1, <1>2, ProducedOnce, NewRowsAreFinite
<1>5. ASSUME NEW k \in NewRows
      PROVE  k \in RowsFrom(began + 1) /\ k \in emitted' /\ k \notin fed
    <2>1. PICK i \in DOMAIN store : i >= watermark /\ k = store[i]
        BY DEF NewRows, RowsFrom
    <2>2. k \notin emitted /\ k \in emitted'
        BY <1>1 DEF NewRows
    <2>3. i # began
        BY <1>2, <2>1, <2>2
    <2>4. i >= began + 1
        BY <1>2, <2>1, <2>3
    <2>5. k \in RowsFrom(began + 1)
        BY <2>1, <2>4 DEF RowsFrom
    <2>6. fed \subseteq emitted
        BY DEF EngineInv, QueueInv
    <2> QED BY <2>2, <2>5, <2>6
<1>6. RowsFrom(began + 1)' = RowsFrom(began + 1)
    BY <1>1 DEF RowsFrom
<1>7. \A i \in DOMAIN queue' : queue'[i] \in NewRows
    BY <1>4
<1>8. queue' \in Seq(Key)
    BY <1>4, SeqMonotonic
<1>9. fed' \subseteq emitted'
    BY <1>1 DEF EngineInv, QueueInv
<1>10. QueueInv'
    BY <1>1, <1>4, <1>5, <1>6, <1>7, <1>8, <1>9 DEF QueueInv
<1> QED BY <1>1, <1>3, <1>10 DEF EngineInv, AtKnown

LEMMA TakeEventKeeps ==
    ASSUME EngineInv, TakeEvent
    PROVE  EngineInv'
<1>1. /\ at = "polling" /\ at' = "filling" /\ queue # <<>> /\ fed' = fed \union {Head(queue)}
      /\ UNCHANGED <<store, watermark, emitted, primeMarker, queue, began>>
    BY DEF TakeEvent, tape, feed
<1>2. /\ queue \in Seq(Key) /\ 1 \in DOMAIN queue /\ Head(queue) = queue[1]
    BY <1>1, HeadTailProperties, EmptySeq, LenProperties DEF EngineInv, QueueInv
<1>3. FeedInv'
    BY <1>1 DEF EngineInv, FeedInv
<1>4. RowsFrom(began + 1)' = RowsFrom(began + 1)
    BY <1>1 DEF RowsFrom
<1>5. QueueInv'
    BY <1>1, <1>2, <1>4 DEF EngineInv, QueueInv
<1> QED BY <1>1, <1>3, <1>5 DEF EngineInv, AtKnown

LEMMA EndPollKeeps ==
    ASSUME EngineInv, EndPoll
    PROVE  EngineInv'
<1>1. /\ at = "polling" /\ at' = "idle" /\ queue = <<>> /\ primeMarker' = watermark
      /\ UNCHANGED <<store, watermark, emitted, queue, began, fed>>
    BY DEF EndPoll, feed, pollState
<1>2. FeedInv'
    BY <1>1 DEF EngineInv, FeedInv
<1>3. QueueInv'
    BY <1>1 DEF EngineInv, QueueInv
<1> QED BY <1>1, <1>2, <1>3 DEF EngineInv, AtKnown

LEMMA EventStepKeeps ==
    ASSUME EngineInv, FillNext \/ FillsDone \/ Exit \/ NoExit \/ UNCHANGED engineVars
    PROVE  EngineInv'
<1>1. /\ UNCHANGED <<store, watermark, emitted, primeMarker, queue, began, fed>>
      /\ at' = at \/ {at, at'} \subseteq {"filling", "filled", "observed"}
    BY DEF FillNext, FillsDone, Exit, NoExit, tape, feed, pollState, engineVars
<1>2. FeedInv'
    BY <1>1 DEF EngineInv, FeedInv
<1>3. RowsFrom(began + 1)' = RowsFrom(began + 1)
    BY <1>1 DEF RowsFrom
<1>4. QueueInv'
    BY <1>1, <1>3 DEF EngineInv, QueueInv
<1> QED BY <1>1, <1>2, <1>4 DEF EngineInv, AtKnown

LEMMA EnterKeeps ==
    ASSUME EngineInv, Enter
    PROVE  EngineInv'
<1>1. /\ at = "observed" /\ at' = "polling" /\ queue' = Tail(queue)
      /\ UNCHANGED <<store, watermark, emitted, primeMarker, began, fed>>
    BY DEF Enter, tape, feed
<1>2. queue \in Seq(Key) /\ queue # <<>>
    BY <1>1 DEF EngineInv, QueueInv
<1>3. /\ Tail(queue) \in Seq(Key) /\ Len(Tail(queue)) = Len(queue) - 1 /\ Len(queue) \in Nat
      /\ DOMAIN queue = 1..Len(queue)
      /\ DOMAIN Tail(queue) = 1..(Len(queue) - 1)
      /\ \A i \in 1..(Len(queue) - 1) : Tail(queue)[i] = queue[i + 1]
    BY <1>2, HeadTailProperties, LenProperties
<1>4. FeedInv'
    BY <1>1 DEF EngineInv, FeedInv
<1>5. RowsFrom(began + 1)' = RowsFrom(began + 1)
    BY <1>1 DEF RowsFrom
<1>6. ASSUME NEW i \in DOMAIN queue'
      PROVE  /\ i + 1 \in DOMAIN queue /\ queue'[i] = queue[i + 1] /\ i \in Nat
             /\ queue'[i] \in RowsFrom(began + 1) /\ queue'[i] \in emitted /\ queue'[i] \notin fed
    <2>1. i + 1 \in DOMAIN queue /\ queue'[i] = queue[i + 1] /\ i + 1 # 1 /\ i \in Nat
        BY <1>1, <1>3
    <2> QED BY <2>1 DEF EngineInv, QueueInv
<1>7. \A i, j \in DOMAIN queue' : queue'[i] = queue'[j] => i = j
    <2> SUFFICES ASSUME NEW i \in DOMAIN queue', NEW j \in DOMAIN queue', queue'[i] = queue'[j]
                 PROVE  i = j
        OBVIOUS
    <2>1. i + 1 = j + 1
        BY <1>6 DEF EngineInv, QueueInv
    <2> QED BY <1>6, <2>1
<1>8. fed \subseteq emitted
    BY DEF EngineInv, QueueInv
<1>9. QueueInv'
    BY <1>1, <1>3, <1>5, <1>6, <1>7, <1>8 DEF QueueInv
<1> QED BY <1>1, <1>4, <1>9 DEF EngineInv, AtKnown

LEMMA DieKeeps ==
    ASSUME EngineInv, Die, primeMarker' \in {primeMarker, NoMarker}
    PROVE  EngineInv'
<1>1. /\ at' = "down" /\ watermark' = 0 /\ emitted' = {} /\ queue' = <<>> /\ fed' = {}
      /\ UNCHANGED <<store, began>>
    BY DEF Die
<1>2. FeedInv'
    <2>1. Len(store) \in Nat
        BY LenProperties DEF EngineInv, FeedInv
    <2> QED BY <1>1, <2>1 DEF EngineInv, FeedInv
<1>3. QueueInv'
    BY <1>1 DEF QueueInv
<1> QED BY <1>1, <1>2, <1>3 DEF EngineInv, AtKnown

LEMMA EngineSteps ==
    ASSUME EngineInv, [EngineNext]_engineVars
    PROVE  EngineInv'
<1>1. ASSUME NEW s \in Instruments, NewBar(s) PROVE EngineInv'
    <2> DEFINE n == Cardinality(Bars(s))
    <2>1. n \in Nat
        <3>1. store \in Seq(Key)
            BY DEF EngineInv, FeedInv
        <3> DEFINE I == {k \in DOMAIN store : store[k][2] = s}
                   f == [i \in I |-> store[i]]
        <3>2. DOMAIN store = 1..Len(store) /\ Len(store) \in Nat
            BY <3>1, LenProperties
        <3>3. IsFiniteSet(1..Len(store)) /\ I \in SUBSET (1..Len(store))
            BY <3>2, FS_Interval
        <3>4. IsFiniteSet(I)
            <4> HIDE DEF I
            <4> QED BY <3>3, FS_Subset
        <3>5. f \in Surjection(I, Bars(s))
            <4>1. \A i \in DOMAIN store : i \in Nat /\ i >= 0
                BY <3>2
            <4>2. f \in [I -> Bars(s)]
                BY <4>1 DEF Bars, RowsFrom
            <4>3. \A t \in Bars(s) : \E i \in I : f[i] = t
                BY <4>1 DEF Bars, RowsFrom
            <4> HIDE DEF f, I
            <4> QED BY <4>2, <4>3 DEF Surjection
        <3>6. IsFiniteSet(Bars(s))
            <4> HIDE DEF f, I
            <4> QED BY <3>4, <3>5, FS_Surjection
        <3> QED BY <3>6, FS_CardinalityType
    <2>2. store' = Append(store, <<n + 1, s>>)
          /\ UNCHANGED <<feed, primeMarker, at, pollState, fed, began>>
        BY <1>1 DEF NewBar
    <2> HIDE DEF n
    <2>3. <<n + 1, s>> \in Key
        BY <2>1 DEF Key
    <2> QED BY <2>2, <2>3, NewRowKeeps
<1>2. ASSUME NEW k \in RowsFrom(0), CorrectBar(k) PROVE EngineInv'
    <2>1. k \in Key
        BY DEF RowsFrom, EngineInv, FeedInv
    <2>2. store' = Append(store, k) /\ UNCHANGED <<feed, primeMarker, at, pollState, fed, began>>
        BY <1>2 DEF CorrectBar
    <2> QED BY <2>1, <2>2, NewRowKeeps
<1>3. CASE KillEngine \/ KillInMarker
    <2>1. Die /\ primeMarker' \in {primeMarker, NoMarker}
        BY <1>3 DEF KillEngine, KillInMarker
    <2> QED BY <2>1, DieKeeps
<1> QED BY <1>1, <1>2, <1>3, StartEngineKeeps, BeginPollKeeps, TakeEventKeeps, EndPollKeeps,
           EventStepKeeps, EnterKeeps DEF EngineNext

(* No run of the paper engine trades a bar of which every row was there    *)
(* when it began, and none trades a bar twice: not after any kill, any     *)
(* correction or any marker that the run before it left, also a torn one   *)
(* (market_replay.py's resume_or_prime and poll, forward_engine.py's       *)
(* poll_once).                                                             *)
THEOREM TradesAreForward == EngineSpec => []BarsAreTradedOnce
<1>1. EngineInit => EngineInv
    BY EngineStarts
<1>2. EngineInv /\ [EngineNext]_engineVars => EngineInv'
    BY EngineSteps
<1>3. EngineInv => BarsAreTradedOnce
    BY DEF EngineInv, QueueInv, BarsAreTradedOnce, OnlyNewBarsAreTraded, EachBarOnce
<1> QED BY <1>1, <1>2, <1>3, PTL DEF EngineSpec

-----------------------------------------------------------------------------
(* The life of a position (PositionLife).  The exits are kept because the  *)
(* position in memory has the side, the entry, the time and the stop of its*)
(* OPEN row all its life, and its lock is what its best mark left.         *)

TradeOf(t, lock, best, worst, recovered) ==
    [side |-> t.side, entry |-> t.entry, since |-> t.since, stop |-> t.stop, lock |-> lock,
     best |-> best, worst |-> worst, recovered |-> recovered, opener |-> t.opener,
     from |-> t.from]

IsTrade(t) ==
    /\ t = TradeOf(t, t.lock, t.best, t.worst, t.recovered)
    /\ t.side \in {"LONG", "SHORT"} /\ t.from \in Nat /\ t.since \in Nat
    /\ t.entry = IF t.side = "LONG" THEN t.from + Spread ELSE t.from
    /\ t.stop = StopDistance /\ t.opener \in Nat /\ t.recovered \in BOOLEAN

IsFresh(t) == t.best = Nothing /\ t.worst = Nothing /\ t.lock = Nothing

(* The peaks that were marked, and the lock that the best of them left.    *)
IsMarked(t) ==
    /\ t.best \in Nat \union {Nothing} /\ t.worst \in Nat \union {Nothing}
    /\ IF t.best # Nothing /\ t.best >= RatchetTrigger
       THEN t.lock = t.best - GiveBack ELSE t.lock = Nothing

SameDeal(t, row) ==
    t.side = row.side /\ t.entry = row.entry /\ t.since = row.since /\ t.stop = row.stop

TradeInv ==
    /\ bid \in Nat /\ poll \in Nat
    /\ step \in {"idle", "manage", "consider", "opening", "closing", "down"}
    /\ registered \in 0..Len(Seeds) /\ bot \in Nat
    /\ openRow = NoTrade \/ (IsTrade(openRow) /\ IsFresh(openRow))
    /\ trade = NoTrade \/ (IsTrade(trade) /\ IsMarked(trade))
    /\ trade # NoTrade /\ step # "opening" => openRow # NoTrade /\ SameDeal(trade, openRow)
    /\ trade # NoTrade /\ ~trade.recovered => tail = trade.opener
    /\ step \in {"consider", "closing", "down"} => trade = NoTrade
    /\ step = "opening" =>
           trade # NoTrade /\ IsFresh(trade) /\ trade.since = poll /\ trade.from = bid

Measures == 0..Certain \union {NonConformity(s) : s \in RawScores \union {Nothing}}

IsCalibration(c) ==
    /\ c = [bins |-> c.bins, scores |-> c.scores, updates |-> c.updates]
    /\ c.scores \in Seq(Measures) /\ c.updates \in Nat

(* What was saved was learned, so that there are scores.                   *)
LessonsInv ==
    /\ IsCalibration(cal) /\ IsCalibration(calFile)
    /\ openedScore \in RawScores \union {Nothing}
    /\ calFile.updates > 0 => calFile.scores # <<>>
    /\ LessonsAreKept

LifeInv == TradeInv /\ LessonsInv /\ ExitsAreKept /\ DealsAreTrue

LEMMA LifeNumbers ==
    /\ Spread \in Nat /\ TakeProfit \in Nat /\ RatchetTrigger \in Nat /\ GiveBack \in Nat
    /\ MaxHold \in Nat /\ MaxHold > 0 /\ Len(Seeds) \in Nat
    /\ GiveBack < RatchetTrigger /\ RatchetTrigger < TakeProfit
    /\ Nothing \notin Int /\ StopDistance \in Nat /\ StopDistance > Spread
BY LifeAssumption, BrainsAssumption, LenProperties, SMTT(60) DEF StopDistance, Largest

LEMMA TradesAreTrades ==
    ASSUME NEW t, IsTrade(t)
    PROVE  t # NoTrade
BY DEF IsTrade, NoTrade

LEMMA ExcursionIs ==
    ASSUME NEW t, IsTrade(t), bid \in Nat
    PROVE  /\ Excursion(t.side, t.entry) \in Int
           /\ t.side = "LONG" => Excursion(t.side, t.entry) = bid - t.from - Spread
           /\ t.side = "SHORT" => Excursion(t.side, t.entry) = t.from - bid - Spread
BY LifeNumbers DEF IsTrade, Excursion

LEMMA TradeExcept ==
    ASSUME NEW t, t = TradeOf(t, t.lock, t.best, t.worst, t.recovered), NEW l, NEW m, NEW w, NEW r
    PROVE  /\ [t EXCEPT !.lock = l] = TradeOf(t, l, t.best, t.worst, t.recovered)
           /\ [t EXCEPT !.recovered = r] = TradeOf(t, t.lock, t.best, t.worst, r)
           /\ [t EXCEPT !.best = m, !.worst = w] = TradeOf(t, t.lock, m, w, t.recovered)
<1> DEFINE u == TradeOf(t, t.lock, m, t.worst, t.recovered)
<1>1. /\ [t EXCEPT !.lock = l] = TradeOf(t, l, t.best, t.worst, t.recovered)
      /\ [t EXCEPT !.recovered = r] = TradeOf(t, t.lock, t.best, t.worst, r)
      /\ [t EXCEPT !.best = m] = u
    BY DEF TradeOf
<1>2. [u EXCEPT !.worst = w] = TradeOf(t, t.lock, m, w, t.recovered)
    BY DEF TradeOf
<1> HIDE DEF u
<1>3. [[t EXCEPT !.best = m] EXCEPT !.worst = w] = TradeOf(t, t.lock, m, w, t.recovered)
    BY <1>1, <1>2, Zenon
<1> QED BY <1>1, <1>3

LEMMA SampledIs ==
    ASSUME NEW t, IsTrade(t), IsMarked(t), bid \in Nat
    PROVE  LET e == Excursion(t.side, t.entry)
               s == Sampled(t)
           IN  /\ IsTrade(s) /\ SameDeal(s, t)
               /\ s.recovered = t.recovered /\ s.opener = t.opener /\ s.from = t.from
               /\ s.lock = t.lock /\ s.best \in Nat /\ s.worst \in Nat
               /\ s.best = IF t.best = Nothing THEN Largest(e, 0) ELSE Largest(t.best, Largest(e, 0))
               /\ e <= s.best /\ -e <= s.worst
<1> DEFINE e == Excursion(t.side, t.entry)
           m == IF t.best = Nothing THEN Largest(e, 0) ELSE Largest(t.best, Largest(e, 0))
           w == IF t.worst = Nothing THEN Largest(-e, 0) ELSE Largest(t.worst, Largest(-e, 0))
           s == TradeOf(t, t.lock, m, w, t.recovered)
<1>1. Sampled(t) = [t EXCEPT !.best = m, !.worst = w]
    BY DEF Sampled
<1>2. e \in Int
    BY ExcursionIs
<1> HIDE DEF e
<1>3. m \in Nat /\ w \in Nat /\ e <= m /\ -e <= w
    BY <1>2, LifeNumbers DEF IsMarked, Largest
<1>4. m = IF t.best = Nothing THEN Largest(e, 0) ELSE Largest(t.best, Largest(e, 0))
    OBVIOUS
<1> HIDE DEF m, w
<1>5. [t EXCEPT !.best = m, !.worst = w] = s
    BY TradeExcept, Zenon DEF IsTrade
<1>6. IsTrade(s) /\ SameDeal(s, t) /\ s.best = m /\ s.worst = w /\ s.lock = t.lock
    BY DEF IsTrade, SameDeal, TradeOf
<1>7. s.recovered = t.recovered /\ s.opener = t.opener /\ s.from = t.from
    BY DEF TradeOf
<1> HIDE DEF s
<1> QED BY <1>1, <1>3, <1>4, <1>5, <1>6, <1>7 DEF e

LEMMA DirectiveIs ==
    ASSUME NEW t, IsTrade(t), bid \in Nat, poll \in Nat, Directive(t) # "CLOSE"
    PROVE  LET e == Excursion(t.side, t.entry)
           IN  /\ e > -t.stop /\ poll - t.since < MaxHold /\ e < TakeProfit
               /\ Directive(t) = "RATCHET_LOCK" <=> e >= RatchetTrigger
               /\ t.lock # Nothing /\ e <= t.lock => e >= RatchetTrigger
<1> DEFINE e == Excursion(t.side, t.entry)
<1>1. e \in Int /\ t.stop \in Nat /\ t.since \in Nat
    BY ExcursionIs, LifeNumbers DEF IsTrade
<1> HIDE DEF e
<1>2. Directive(t) =
        CASE e <= -t.stop -> "CLOSE"
          [] e > -t.stop /\ poll - t.since >= MaxHold -> "CLOSE"
          [] e > -t.stop /\ poll - t.since < MaxHold /\ e >= TakeProfit -> "CLOSE"
          [] OTHER ->
               IF e >= RatchetTrigger THEN "RATCHET_LOCK"
               ELSE IF t.lock # Nothing /\ e <= t.lock THEN "CLOSE" ELSE "HOLD"
    BY DEF Directive, e
<1>3. e > -t.stop
    <2> SUFFICES ASSUME e <= -t.stop PROVE FALSE
        BY <1>1
    <2> QED BY <1>1, <1>2
<1>4. poll - t.since < MaxHold
    <2> SUFFICES ASSUME poll - t.since >= MaxHold PROVE FALSE
        BY <1>1, LifeNumbers
    <2> QED BY <1>1, <1>2, <1>3
<1>5. e < TakeProfit
    <2> SUFFICES ASSUME e >= TakeProfit PROVE FALSE
        BY <1>1, LifeNumbers
    <2> QED BY <1>1, <1>2, <1>3, <1>4
<1>6. Directive(t) = IF e >= RatchetTrigger THEN "RATCHET_LOCK"
                     ELSE IF t.lock # Nothing /\ e <= t.lock THEN "CLOSE" ELSE "HOLD"
    BY <1>1, <1>2, <1>3, <1>4, <1>5, LifeNumbers
<1>7. Directive(t) = "RATCHET_LOCK" <=> e >= RatchetTrigger
    BY <1>6
<1>8. t.lock # Nothing /\ e <= t.lock => e >= RatchetTrigger
    BY <1>6
<1> QED BY <1>3, <1>4, <1>5, <1>7, <1>8 DEF e

LEMMA RecentIs ==
    ASSUME NEW S, NEW s \in Seq(S)
    PROVE  Recent(s) \in Seq(S) /\ (s # <<>> => Recent(s) # <<>>)
<1>1. Len(s) \in Nat /\ ScoreWindow \in Nat /\ ScoreWindow > 0
    BY LenProperties, BrainsAssumption
<1>2. CASE Len(s) > ScoreWindow
    <2> DEFINE first == Len(s) - ScoreWindow + 1
    <2>1. Recent(s) = SubSeq(s, first, Len(s))
        BY <1>2 DEF Recent
    <2>2. first \in 1..Len(s) + 1 /\ first <= Len(s) /\ first \in Nat /\ first >= 1
        BY <1>1, <1>2
    <2>3. \A i \in first..Len(s) : s[i] \in S
        BY <1>1, <2>2, ElementOfSeq
    <2> HIDE DEF first
    <2>4. /\ SubSeq(s, first, Len(s)) \in Seq(S)
          /\ Len(SubSeq(s, first, Len(s))) = Len(s) - first + 1
        <3>1. first \in Int /\ Len(s) \in Int
            BY <1>1, <2>2
        <3>2. /\ SubSeq(s, first, Len(s)) \in Seq(S)
              /\ Len(SubSeq(s, first, Len(s))) = IF first <= Len(s) THEN Len(s) - first + 1 ELSE 0
            BY <3>1, <2>3, SubSeqProperties, ZenonT(60)
        <3> QED BY <2>2, <3>2
    <2>5. SubSeq(s, first, Len(s)) # <<>>
        <3>1. Len(SubSeq(s, first, Len(s))) # 0
            BY <1>1, <2>2, <2>4
        <3>2. Len(<<>>) = 0
            OBVIOUS
        <3> QED BY <3>1, <3>2
    <2> QED BY <2>1, <2>4, <2>5
<1>3. CASE ~(Len(s) > ScoreWindow)
    BY <1>3 DEF Recent
<1> QED BY <1>2, <1>3

LEMMA LoadedIs ==
    ASSUME IsCalibration(calFile), NEW v \in 1..Len(Seeds)
    PROVE  /\ IsCalibration(Loaded(v)) /\ Loaded(v).updates = calFile.updates
           /\ calFile.scores # <<>> => Loaded(v) = calFile
<1>1. Seeds[v] \in Seq(0..Certain)
    BY LifeAssumption
<1>2. Recent(Seeds[v]) \in Seq(Measures)
    <2>1. Recent(Seeds[v]) \in Seq(0..Certain)
        BY <1>1, RecentIs
    <2>2. 0..Certain \subseteq Measures
        BY DEF Measures
    <2> QED BY <2>1, <2>2, SeqMonotonic
<1> DEFINE r == Recent(Seeds[v])
           c == [calFile EXCEPT !.scores = r]
<1> HIDE DEF r
<1>3. c = [bins |-> calFile.bins, scores |-> r, updates |-> calFile.updates]
    BY DEF IsCalibration
<1>4. Loaded(v) = IF calFile.scores # <<>> THEN calFile ELSE c
    BY DEF Loaded, r
<1> HIDE DEF c
<1> QED BY <1>2, <1>3, <1>4 DEF IsCalibration, r

LEMMA ObservedIs ==
    ASSUME NEW c, IsCalibration(c), NEW score \in RawScores \union {Nothing}, NEW outcome
    PROVE  LET o == Observed(c, score, outcome)
           IN  IsCalibration(o) /\ o.updates = c.updates + 1 /\ o.scores # <<>>
<1> DEFINE x == IF Right(score, outcome) THEN NonConformity(score) ELSE Certain
           o == Observed(c, score, outcome)
<1>1. x \in Measures
    <2>1. Certain \in Measures
        BY DEF Measures, Certain
    <2>2. NonConformity(score) \in Measures
        BY DEF Measures
    <2> QED BY <2>1, <2>2
<1>2. /\ o.scores = Recent(Append(c.scores, x)) /\ o.updates = c.updates + 1
      /\ o = [bins |-> o.bins, scores |-> o.scores, updates |-> o.updates]
    BY DEF Observed
<1> HIDE DEF x, o
<1>3. Append(c.scores, x) \in Seq(Measures) /\ Append(c.scores, x) # <<>>
    BY <1>1, AppendProperties DEF IsCalibration
<1>4. o.scores \in Seq(Measures) /\ o.scores # <<>>
    BY <1>2, <1>3, RecentIs
<1> QED BY <1>2, <1>4 DEF IsCalibration, o

LEMMA LifeStarts == LifeInit => LifeInv
<1> SUFFICES ASSUME LifeInit PROVE LifeInv
    OBVIOUS
<1>1. TradeInv
    <2>1. /\ bid = 0 /\ poll = 0 /\ step = "idle" /\ registered = 0 /\ bot = 0
          /\ trade = NoTrade /\ openRow = NoTrade
        BY DEF LifeInit
    <2>2. bid \in Nat /\ poll \in Nat /\ registered \in 0..Len(Seeds) /\ bot \in Nat
        BY <2>1, LifeNumbers
    <2> QED BY <2>1, <2>2, Zenon DEF TradeInv
<1>2. IsCalibration(Uncalibrated) /\ Uncalibrated.updates = 0
    BY DEF Uncalibrated, IsCalibration
<1>3. LessonsInv
    BY <1>2 DEF LifeInit, LessonsInv, LessonsAreKept
<1>4. ExitsAreKept /\ DealsAreTrue
    BY DEF LifeInit, ExitsAreKept, DealsAreTrue
<1> QED BY <1>1, <1>3, <1>4 DEF LifeInv

(* A model that is taken over starts from what was saved.                  *)
LEMMA LessonsStay ==
    ASSUME LifeInv, calFile' = calFile, openedScore' \in RawScores \union {Nothing},
           \/ UNCHANGED <<bot, cal>>
           \/ bot' = 0 /\ cal' \in {cal, Uncalibrated}
           \/ registered # 0 /\ bot' = registered /\ cal' = Loaded(registered)
    PROVE  LessonsInv' /\ bot' \in Nat
<1>1. registered \in 0..Len(Seeds) /\ bot \in Nat /\ Len(Seeds) \in Nat
    BY LifeNumbers DEF LifeInv, TradeInv
<1>2. IsCalibration(calFile)'
    BY DEF LifeInv, LessonsInv, IsCalibration
<1>3. CASE registered # 0 /\ bot' = registered /\ cal' = Loaded(registered)
    <2>1. registered \in 1..Len(Seeds)
        BY <1>1, <1>3
    <2>2. /\ IsCalibration(cal') /\ cal'.updates = calFile.updates
          /\ calFile.scores # <<>> => cal' = calFile
        BY <1>3, <2>1, LoadedIs DEF LifeInv, LessonsInv
    <2>3. calFile.updates \in Nat
        BY DEF LifeInv, LessonsInv, IsCalibration
    <2>4. LessonsAreKept'
        BY <2>2, <2>3 DEF LifeInv, LessonsInv, LessonsAreKept
    <2>5. IsCalibration(cal)'
        BY <2>2 DEF IsCalibration
    <2> QED BY <1>1, <1>2, <1>3, <2>4, <2>5 DEF LifeInv, LessonsInv
<1>4. CASE bot' = 0 /\ cal' \in {cal, Uncalibrated}
    <2>1. IsCalibration(Uncalibrated)
        BY DEF IsCalibration, Uncalibrated
    <2>2. IsCalibration(cal')
        BY <1>4, <2>1 DEF LifeInv, LessonsInv
    <2>3. IsCalibration(cal)'
        BY <2>2 DEF IsCalibration
    <2> QED BY <1>2, <1>4, <2>3 DEF LifeInv, LessonsInv, LessonsAreKept
<1>5. CASE UNCHANGED <<bot, cal>>
    <2>1. IsCalibration(cal)'
        BY <1>5 DEF LifeInv, LessonsInv, IsCalibration
    <2>2. LessonsAreKept'
        BY <1>5 DEF LifeInv, LessonsInv, LessonsAreKept
    <2> QED BY <1>1, <1>2, <1>5, <2>1, <2>2 DEF LifeInv, LessonsInv
<1> QED BY <1>3, <1>4, <1>5

LEMMA DealsStay ==
    ASSUME LifeInv, deal' \in {deal, NoDealYet}
    PROVE  DealsAreTrue'
BY DEF LifeInv, DealsAreTrue

(* The steps that leave the position alone.                                *)
LEMMA PositionStays ==
    ASSUME LifeInv, Promote \/ StartPoll \/ NothingOpen \/ Decline \/ UNCHANGED lifeVars
    PROVE  LifeInv'
<1>1. /\ UNCHANGED <<trade, openRow, tail, deal, calFile, openedScore>>
      /\ \/ UNCHANGED <<bot, cal>>
         \/ registered # 0 /\ bot' = registered /\ cal' = Loaded(registered)
    BY DEF Promote, StartPoll, NothingOpen, Decline, lifeVars, botVars, Adopts
<1>2. LessonsInv' /\ bot' \in Nat
    BY <1>1, LessonsStay DEF LifeInv, LessonsInv
<1>3. DealsAreTrue'
    BY <1>1, DealsStay
<1>4. registered' \in 0..Len(Seeds) /\ bid' \in Nat /\ poll' \in Nat
    <2>1. registered \in 0..Len(Seeds) /\ bid \in Nat /\ poll \in Nat /\ Len(Seeds) \in Nat
        BY LifeNumbers DEF LifeInv, TradeInv
    <2>2. TopPrice \in Nat
        BY LifeAssumption
    <2>3. registered' = registered \/ (registered' = registered + 1 /\ registered < Len(Seeds))
        BY DEF Promote, StartPoll, NothingOpen, Decline, lifeVars
    <2>4. /\ poll' = poll \/ poll' = poll + 1
          /\ bid' = bid \/ bid' = 0 \/ bid' \in 0..TopPrice
        BY DEF Promote, StartPoll, NothingOpen, Decline, lifeVars
    <2> QED BY <2>1, <2>2, <2>3, <2>4
<1>5. \/ step' = step /\ UNCHANGED <<bid, poll, framed>>
      \/ step = "idle" /\ step' = "idle" /\ framed' = FALSE
      \/ step = "idle" /\ step' = "manage"
      \/ step = "manage" /\ trade = NoTrade /\ step' = "consider"
      \/ step = "consider" /\ step' = "idle"
    BY DEF Promote, StartPoll, NothingOpen, Decline, lifeVars
<1>6. TradeInv'
    <2>1. step' \in {"idle", "manage", "consider", "opening", "closing", "down"}
        BY <1>5 DEF LifeInv, TradeInv
    <2>2. step' \in {"consider", "closing", "down"} => trade = NoTrade
        BY <1>5 DEF LifeInv, TradeInv
    <2>3. trade # NoTrade /\ step' # "opening" => openRow # NoTrade /\ SameDeal(trade, openRow)
        BY <1>5 DEF LifeInv, TradeInv
    <2>4. step' = "opening" =>
              trade # NoTrade /\ IsFresh(trade) /\ trade.since = poll' /\ trade.from = bid'
        BY <1>5 DEF LifeInv, TradeInv
    <2>5. openRow = NoTrade \/ (IsTrade(openRow) /\ IsFresh(openRow))
        BY DEF LifeInv, TradeInv
    <2>6. trade = NoTrade \/ (IsTrade(trade) /\ IsMarked(trade))
        BY DEF LifeInv, TradeInv
    <2>7. trade # NoTrade /\ ~trade.recovered => tail = trade.opener
        BY DEF LifeInv, TradeInv
    <2> QED BY <1>1, <1>2, <1>4, <2>1, <2>2, <2>3, <2>4, <2>5, <2>6, <2>7 DEF TradeInv
<1>7. ExitsAreKept'
    <2>1. CASE step' = step /\ UNCHANGED <<bid, poll, framed>>
        BY <1>1, <2>1 DEF LifeInv, ExitsAreKept, Excursion
    <2>2. CASE step = "consider" /\ step' = "idle"
        <3>1. trade' = NoTrade
            BY <1>1, <2>2 DEF LifeInv, TradeInv
        <3> QED BY <3>1 DEF ExitsAreKept
    <2>3. CASE step' \in {"manage", "consider"} \/ framed' = FALSE
        BY <2>3 DEF ExitsAreKept
    <2> QED BY <1>5, <2>1, <2>2, <2>3
<1> QED BY <1>2, <1>3, <1>6, <1>7 DEF LifeInv

LEMMA TradeAtManage ==
    ASSUME LifeInv, step = "manage", trade # NoTrade
    PROVE  /\ IsTrade(trade) /\ IsMarked(trade) /\ IsTrade(openRow) /\ IsFresh(openRow)
           /\ SameDeal(trade, openRow) /\ bid \in Nat /\ poll \in Nat
           /\ ~trade.recovered => tail = trade.opener
BY DEF LifeInv, TradeInv

(* Managing a position marks it and moves its lock, up only.               *)
LEMMA HoldMarks ==
    ASSUME LifeInv, Hold
    PROVE  LET e == Excursion(openRow.side, openRow.entry)
           IN  /\ IsTrade(trade') /\ IsMarked(trade') /\ SameDeal(trade', openRow)
               /\ trade'.recovered = trade.recovered /\ trade'.opener = trade.opener
               /\ e > -openRow.stop /\ poll - openRow.since < MaxHold /\ e < TakeProfit
               /\ trade'.lock # Nothing /\ e <= trade'.lock => e >= RatchetTrigger
<1> DEFINE t == Sampled(trade)
           e == Excursion(openRow.side, openRow.entry)
           held2 == [t EXCEPT !.lock = LockAfter(t)]
<1>1. /\ step = "manage" /\ trade # NoTrade
      /\ \/ Directive(t) = "HOLD" /\ trade' = t
         \/ Directive(t) = "RATCHET_LOCK" /\ trade' = held2
    BY DEF Hold
<1>2. /\ IsTrade(trade) /\ IsMarked(trade) /\ IsTrade(openRow)
      /\ SameDeal(trade, openRow) /\ bid \in Nat /\ poll \in Nat
    BY <1>1, TradeAtManage
<1>3. Excursion(trade.side, trade.entry) = e /\ e \in Int
    BY <1>2, ExcursionIs DEF SameDeal
<1>4. /\ IsTrade(t) /\ SameDeal(t, trade)
      /\ t.recovered = trade.recovered /\ t.opener = trade.opener
      /\ t.lock = trade.lock /\ t.best \in Nat /\ t.worst \in Nat
      /\ t.best = IF trade.best = Nothing THEN Largest(e, 0)
                  ELSE Largest(trade.best, Largest(e, 0))
    BY <1>2, <1>3, SampledIs
<1>5. LockAfter(t) = IF t.lock = Nothing THEN e - GiveBack ELSE Largest(e - GiveBack, t.lock)
    BY <1>2, <1>4 DEF LockAfter, Candidate, SameDeal
<1> HIDE DEF t
<1>6. Excursion(t.side, t.entry) = e /\ SameDeal(t, openRow)
    BY <1>2, <1>3, <1>4 DEF SameDeal
<1>7. held2 = TradeOf(t, LockAfter(t), t.best, t.worst, t.recovered)
    BY <1>4, TradeExcept, Zenon DEF IsTrade
<1>8. /\ e > -t.stop /\ poll - t.since < MaxHold /\ e < TakeProfit
      /\ Directive(t) = "RATCHET_LOCK" <=> e >= RatchetTrigger
      /\ t.lock # Nothing /\ e <= t.lock => e >= RatchetTrigger
    BY <1>1, <1>2, <1>4, <1>6, DirectiveIs
<1> HIDE DEF held2, e
<1>9. CASE Directive(t) = "HOLD" /\ trade' = t
    <2>1. ~(e >= RatchetTrigger)
        BY <1>8, <1>9
    <2>2. IsMarked(t)
        BY <1>2, <1>3, <1>4, <2>1, LifeNumbers DEF IsMarked, Largest
    <2> QED BY <1>4, <1>6, <1>8, <1>9, <2>2 DEF SameDeal, e
<1>10. CASE Directive(t) = "RATCHET_LOCK" /\ trade' = held2
    <2>1. e >= RatchetTrigger
        BY <1>8, <1>10
    <2> DEFINE lock == LockAfter(t)
    <2>2. t.best >= RatchetTrigger /\ lock = t.best - GiveBack
        <3> HIDE DEF lock
        <3>1. lock = IF trade.lock = Nothing THEN e - GiveBack ELSE Largest(e - GiveBack, trade.lock)
            BY <1>4, <1>5 DEF lock
        <3>2. CASE trade.best # Nothing /\ trade.best >= RatchetTrigger
            <4>1. trade.lock = trade.best - GiveBack /\ trade.best \in Nat
                BY <1>2, <3>2 DEF IsMarked
            <4>2. trade.lock # Nothing
                BY <4>1, LifeNumbers
            <4> QED BY <1>3, <1>4, <2>1, <3>1, <3>2, <4>1, <4>2, LifeNumbers DEF Largest
        <3>3. CASE ~(trade.best # Nothing /\ trade.best >= RatchetTrigger)
            <4>1. trade.lock = Nothing /\ trade.best \in Nat \union {Nothing}
                BY <1>2, <3>3 DEF IsMarked
            <4> QED BY <1>3, <1>4, <2>1, <3>1, <3>3, <4>1, LifeNumbers DEF Largest
        <3> QED BY <3>2, <3>3
    <2> HIDE DEF lock
    <2>3. trade' = TradeOf(t, lock, t.best, t.worst, t.recovered)
        BY <1>7, <1>10 DEF lock
    <2>4. /\ trade'.lock = lock /\ trade'.best = t.best /\ trade'.worst = t.worst
          /\ trade'.recovered = t.recovered /\ trade'.opener = t.opener
          /\ trade'.side = t.side /\ trade'.entry = t.entry /\ trade'.since = t.since
          /\ trade'.stop = t.stop /\ trade'.from = t.from
        BY <2>3 DEF TradeOf
    <2>5. IsTrade(trade')
        <3>1. trade' = TradeOf(trade', trade'.lock, trade'.best, trade'.worst, trade'.recovered)
            BY <2>3, <2>4 DEF TradeOf
        <3> QED BY <1>4, <2>4, <3>1 DEF IsTrade
    <2>6. IsMarked(trade')
        BY <1>4, <2>2, <2>4, LifeNumbers DEF IsMarked
    <2> QED BY <1>4, <1>6, <1>8, <2>1, <2>4, <2>5, <2>6 DEF SameDeal, e
<1> QED BY <1>1, <1>9, <1>10 DEF e

LEMMA HoldKeeps ==
    ASSUME LifeInv, Hold
    PROVE  LifeInv'
<1> DEFINE e == Excursion(openRow.side, openRow.entry)
<1>1. /\ step = "manage" /\ trade # NoTrade /\ step' = "idle"
      /\ UNCHANGED <<bid, poll, registered, bot, tail, openedScore, cal, calFile, openRow, deal>>
    BY DEF Hold
<1>2. /\ IsTrade(trade') /\ IsMarked(trade') /\ SameDeal(trade', openRow)
      /\ trade'.recovered = trade.recovered /\ trade'.opener = trade.opener
      /\ e > -openRow.stop /\ poll - openRow.since < MaxHold /\ e < TakeProfit
      /\ trade'.lock # Nothing /\ e <= trade'.lock => e >= RatchetTrigger
    BY HoldMarks
<1>3. LessonsInv' /\ DealsAreTrue'
    BY <1>1, LessonsStay, DealsStay DEF LifeInv, LessonsInv
<1>4. TradeInv'
    <2>1. IsTrade(openRow) /\ IsFresh(openRow) /\ (~trade.recovered => tail = trade.opener)
        BY <1>1, TradeAtManage
    <2>2. openRow # NoTrade
        BY <2>1, TradesAreTrades
    <2>3. bid \in Nat /\ poll \in Nat /\ registered \in 0..Len(Seeds) /\ bot \in Nat
        BY DEF LifeInv, TradeInv
    <2> QED BY <1>1, <1>2, <2>1, <2>2, <2>3 DEF TradeInv
<1>5. ExitsAreKept'
    <2>1. Excursion(openRow.side, openRow.entry)' = e
        BY <1>1 DEF Excursion
    <2>2. trade'.best # Nothing /\ trade'.best >= RatchetTrigger =>
              trade'.lock = trade'.best - GiveBack
        BY <1>2 DEF IsMarked
    <2> HIDE DEF e
    <2> QED BY <1>1, <1>2, <2>1, <2>2 DEF ExitsAreKept, e
<1> QED BY <1>3, <1>4, <1>5 DEF LifeInv

LEMMA CloseKeeps ==
    ASSUME LifeInv, Close
    PROVE  LifeInv'
<1> DEFINE t == Sampled(trade)
           gross == Excursion(t.side, t.entry)
           learns == bot # 0 /\ openedScore # Nothing
           outcome == LongPaid(t.side, gross)
           taught == Observed(cal, openedScore, outcome)
<1>1. /\ step = "manage" /\ trade # NoTrade /\ step' = "closing"
      /\ trade' = NoTrade /\ openedScore' = Nothing
      /\ cal' = IF learns THEN taught ELSE cal
      /\ IF learns THEN calFile' \in {calFile, taught} ELSE calFile' = calFile
      /\ deal' = [side |-> t.side, gross |-> gross, best |-> t.best, worst |-> t.worst,
                  opener |-> t.opener, closer |-> ClosingTail, recovered |-> t.recovered,
                  learned |-> learns, outcome |-> outcome,
                  score |-> openedScore, moved |-> bid - t.from]
      /\ UNCHANGED <<bid, poll, registered, bot, openRow>>
    BY DEF Close
<1>2. /\ IsTrade(trade) /\ IsMarked(trade) /\ IsTrade(openRow) /\ IsFresh(openRow) /\ bid \in Nat
      /\ ~trade.recovered => tail = trade.opener
    BY <1>1, TradeAtManage
<1>3. /\ IsTrade(t) /\ SameDeal(t, trade)
      /\ t.recovered = trade.recovered /\ t.opener = trade.opener
      /\ t.best \in Nat /\ t.worst \in Nat
      /\ Excursion(trade.side, trade.entry) <= t.best /\ -Excursion(trade.side, trade.entry) <= t.worst
    BY <1>2, SampledIs
<1> HIDE DEF t
<1>4. /\ gross \in Int /\ gross <= t.best /\ -gross <= t.worst
      /\ t.side = "LONG" => gross = bid - t.from - Spread
      /\ t.side = "SHORT" => gross = t.from - bid - Spread
    BY <1>2, <1>3, ExcursionIs DEF SameDeal
<1> HIDE DEF gross
<1>5. DealsAreTrue'
    <2>1. ~t.recovered => ClosingTail = t.opener
        <3> SUFFICES ASSUME ~t.recovered PROVE ClosingTail = t.opener
            OBVIOUS
        <3>1. tail = t.opener /\ tail \in Nat
            BY <1>2, <1>3 DEF IsTrade
        <3> QED BY <3>1, LifeNumbers DEF ClosingTail
    <2>2. IF outcome = 1 THEN bid - t.from >= -Spread ELSE bid - t.from <= Spread
        <3>1. t.side \in {"LONG", "SHORT"} /\ t.from \in Nat /\ Spread \in Nat
            BY <1>3, LifeNumbers DEF IsTrade
        <3>2. outcome = 1 <=> (gross > 0 <=> t.side = "LONG")
            BY <1>4 DEF LongPaid
        <3> HIDE DEF outcome
        <3>3. CASE t.side = "LONG"
            BY <1>2, <1>4, <3>1, <3>2, <3>3
        <3>4. CASE t.side = "SHORT"
            BY <1>2, <1>4, <3>1, <3>2, <3>4
        <3> QED BY <3>1, <3>3, <3>4
    <2> HIDE DEF learns, outcome
    <2>3. /\ deal'.gross = gross /\ deal'.best = t.best /\ deal'.worst = t.worst
          /\ deal'.closer = ClosingTail /\ deal'.opener = t.opener
          /\ deal'.recovered = t.recovered
          /\ deal'.outcome = outcome /\ deal'.moved = bid - t.from
        BY <1>1
    <2> QED BY <1>4, <2>1, <2>2, <2>3 DEF DealsAreTrue
<1>6. LessonsInv'
    <2>1. CASE ~learns
        <3> HIDE DEF learns
        <3>1. UNCHANGED <<bot, cal, calFile>> /\ openedScore' = Nothing
            BY <1>1, <2>1
        <3> QED BY <3>1, LessonsStay
    <2>2. CASE learns
        <3>1. IsCalibration(cal) /\ IsCalibration(calFile) /\ LessonsAreKept
              /\ openedScore \in RawScores \union {Nothing} /\ bot # 0
            BY <2>2 DEF LifeInv, LessonsInv
        <3>2. IsCalibration(taught) /\ taught.updates = cal.updates + 1 /\ taught.scores # <<>>
            <4> HIDE DEF outcome
            <4> QED BY <3>1, ObservedIs
        <3>3. cal' = taught /\ calFile' \in {calFile, taught} /\ openedScore' = Nothing
            BY <1>1, <2>2
        <3> HIDE DEF taught
        <3>4. IsCalibration(cal') /\ IsCalibration(calFile')
            BY <3>1, <3>2, <3>3
        <3>5. IsCalibration(cal)' /\ IsCalibration(calFile)'
            BY <3>4 DEF IsCalibration
        <3>6. cal.updates \in Nat /\ calFile.updates \in Nat /\ cal.updates >= calFile.updates
            BY <3>1 DEF IsCalibration, LessonsAreKept
        <3>7. LessonsAreKept'
            BY <3>2, <3>3, <3>6 DEF LessonsAreKept
        <3>8. calFile'.updates > 0 => calFile'.scores # <<>>
            BY <3>2, <3>3 DEF LifeInv, LessonsInv
        <3> QED BY <3>3, <3>5, <3>7, <3>8 DEF LessonsInv
    <2> QED BY <2>1, <2>2
<1>7. TradeInv'
    <2>1. bid \in Nat /\ poll \in Nat /\ registered \in 0..Len(Seeds) /\ bot \in Nat
        BY DEF LifeInv, TradeInv
    <2> HIDE DEF learns, outcome, taught
    <2> QED BY <1>1, <1>2, <2>1 DEF TradeInv
<1>8. ExitsAreKept'
    <2> HIDE DEF learns, outcome, taught
    <2> QED BY <1>1 DEF ExitsAreKept
<1> QED BY <1>5, <1>6, <1>7, <1>8 DEF LifeInv

LEMMA JournalCloseKeeps ==
    ASSUME LifeInv, JournalClose
    PROVE  LifeInv'
<1>1. /\ step = "closing" /\ step' = "consider" /\ openRow' = NoTrade /\ deal' = NoDealYet
      /\ UNCHANGED <<bid, poll, registered, bot, tail, trade, openedScore, cal, calFile>>
    BY DEF JournalClose, botVars
<1>2. LessonsInv' /\ DealsAreTrue'
    BY <1>1, LessonsStay, DealsStay DEF LifeInv, LessonsInv
<1>3. TradeInv'
    <2>1. /\ bid \in Nat /\ poll \in Nat /\ registered \in 0..Len(Seeds) /\ bot \in Nat
          /\ trade = NoTrade
        BY <1>1 DEF LifeInv, TradeInv
    <2> QED BY <1>1, <2>1 DEF TradeInv
<1>4. ExitsAreKept'
    BY <1>1 DEF ExitsAreKept
<1> QED BY <1>2, <1>3, <1>4 DEF LifeInv

LEMMA OpenKeeps ==
    ASSUME LifeInv, Open
    PROVE  LifeInv'
<1>1. PICK score \in Scores : \E side \in Chosen(score) :
        /\ trade' = [side |-> side, entry |-> IF side = "LONG" THEN bid + Spread ELSE bid,
                     since |-> poll, stop |-> StopDistance, lock |-> Nothing,
                     best |-> Nothing, worst |-> Nothing, recovered |-> FALSE,
                     opener |-> bot, from |-> bid]
        /\ openedScore' = score
    BY DEF Open
<1>2. PICK side \in Chosen(score) :
        trade' = [side |-> side, entry |-> IF side = "LONG" THEN bid + Spread ELSE bid,
                     since |-> poll, stop |-> StopDistance, lock |-> Nothing,
                     best |-> Nothing, worst |-> Nothing, recovered |-> FALSE,
                     opener |-> bot, from |-> bid]
    BY <1>1
<1>3. /\ step = "consider" /\ step' = "opening" /\ tail' = bot
      /\ UNCHANGED <<bid, poll, registered, bot, cal, calFile, openRow, deal>>
    BY DEF Open
<1>4. bid \in Nat /\ poll \in Nat /\ registered \in 0..Len(Seeds) /\ bot \in Nat
    BY DEF LifeInv, TradeInv
<1>5. side \in {"LONG", "SHORT"}
    BY DEF Chosen, Wanted, Selected
<1>6. IsTrade(trade') /\ IsFresh(trade') /\ trade'.since = poll /\ trade'.from = bid
      /\ trade'.opener = bot
    BY <1>2, <1>4, <1>5 DEF IsTrade, TradeOf, IsFresh
<1>7. IsMarked(trade') /\ trade' # NoTrade
    BY <1>6, TradesAreTrades DEF IsFresh, IsMarked
<1>8. TradeInv'
    <2>1. openRow = NoTrade \/ (IsTrade(openRow) /\ IsFresh(openRow))
        BY DEF LifeInv, TradeInv
    <2> QED BY <1>3, <1>4, <1>6, <1>7, <2>1 DEF TradeInv
<1>9. LessonsInv' /\ DealsAreTrue'
    <2>1. openedScore' \in RawScores \union {Nothing}
        BY <1>1 DEF Scores
    <2> QED BY <1>3, <2>1, LessonsStay, DealsStay
<1>10. ExitsAreKept'
    BY <1>3 DEF ExitsAreKept
<1> QED BY <1>8, <1>9, <1>10 DEF LifeInv

LEMMA JournalOpenKeeps ==
    ASSUME LifeInv, JournalOpen
    PROVE  LifeInv'
<1>1. /\ step = "opening" /\ step' = "idle" /\ openRow' = trade
      /\ UNCHANGED <<bid, poll, registered, bot, tail, trade, openedScore, cal, calFile, deal>>
    BY DEF JournalOpen, botVars
<1>2. /\ bid \in Nat /\ poll \in Nat /\ registered \in 0..Len(Seeds) /\ bot \in Nat
      /\ trade # NoTrade /\ IsTrade(trade) /\ IsMarked(trade) /\ IsFresh(trade)
      /\ trade.since = poll /\ trade.from = bid
      /\ ~trade.recovered => tail = trade.opener
    BY <1>1 DEF LifeInv, TradeInv
<1>3. TradeInv'
    BY <1>1, <1>2 DEF TradeInv, SameDeal
<1>4. LessonsInv' /\ DealsAreTrue'
    BY <1>1, LessonsStay, DealsStay DEF LifeInv, LessonsInv
<1>5. ExitsAreKept'
    <2> DEFINE e == Excursion(trade.side, trade.entry)
    <2>1. e \in Int /\ e = -Spread
        <3>1. trade.side \in {"LONG", "SHORT"} /\ trade.from \in Nat
            BY <1>2 DEF IsTrade
        <3> QED BY <1>2, <3>1, ExcursionIs, LifeNumbers
    <2>2. Excursion(openRow.side, openRow.entry)' = e
        BY <1>1 DEF Excursion
    <2>3. /\ trade.lock = Nothing /\ trade.best = Nothing /\ trade.stop > Spread
          /\ trade.stop \in Nat
        BY <1>2, LifeNumbers DEF IsFresh, IsTrade
    <2> HIDE DEF e
    <2>4. e > -trade.stop /\ e < TakeProfit /\ poll - trade.since < MaxHold
        BY <1>2, <2>1, <2>3, LifeNumbers
    <2> QED BY <1>1, <2>2, <2>3, <2>4 DEF ExitsAreKept
<1> QED BY <1>3, <1>4, <1>5 DEF LifeInv

LEMMA KillBotKeeps ==
    ASSUME LifeInv, KillBot
    PROVE  LifeInv'
<1>1. /\ step' = "down" /\ bid' = 0 /\ bot' = 0 /\ trade' = NoTrade /\ openedScore' = Nothing
      /\ cal' = Uncalibrated /\ deal' = NoDealYet
      /\ UNCHANGED <<poll, registered, calFile, openRow>>
    BY DEF KillBot
<1>2. LessonsInv' /\ DealsAreTrue'
    BY <1>1, LessonsStay, DealsStay
<1>3. TradeInv'
    <2>1. /\ poll \in Nat /\ registered \in 0..Len(Seeds)
          /\ openRow = NoTrade \/ (IsTrade(openRow) /\ IsFresh(openRow))
        BY DEF LifeInv, TradeInv
    <2> QED BY <1>1, <2>1 DEF TradeInv
<1>4. ExitsAreKept'
    BY <1>1 DEF ExitsAreKept
<1> QED BY <1>2, <1>3, <1>4 DEF LifeInv

LEMMA StartBotKeeps ==
    ASSUME LifeInv, StartBot, framed = FALSE
    PROVE  LifeInv'
<1>1. /\ step = "down" /\ step' = "idle" /\ trade' = Recovered
      /\ \/ bot' = 0 /\ cal' = cal
         \/ registered # 0 /\ bot' = registered /\ cal' = Loaded(registered)
      /\ UNCHANGED <<bid, poll, framed, registered, tail, openedScore, calFile, openRow, deal>>
    BY DEF StartBot
<1>2. LessonsInv' /\ bot' \in Nat /\ DealsAreTrue'
    BY <1>1, LessonsStay, DealsStay DEF LifeInv, LessonsInv
<1>3. /\ bid \in Nat /\ poll \in Nat /\ registered \in 0..Len(Seeds)
      /\ openRow = NoTrade \/ (IsTrade(openRow) /\ IsFresh(openRow))
    BY DEF LifeInv, TradeInv
<1>4. TradeInv'
    <2>1. CASE openRow = NoTrade
        BY <1>1, <1>2, <1>3, <2>1 DEF TradeInv, Recovered
    <2>2. CASE openRow # NoTrade
        <3>1. IsTrade(openRow) /\ IsFresh(openRow)
            BY <1>3, <2>2
        <3>2. PICK r : r = TRUE
            OBVIOUS
        <3>3. [openRow EXCEPT !.recovered = r] =
                  TradeOf(openRow, openRow.lock, openRow.best, openRow.worst, r)
            BY <3>1, TradeExcept, Zenon DEF IsTrade
        <3>4. trade' = [openRow EXCEPT !.recovered = TRUE]
            BY <1>1, <2>2 DEF Recovered
        <3>5. trade' = TradeOf(openRow, openRow.lock, openRow.best, openRow.worst, TRUE)
            BY <3>2, <3>3, <3>4, Zenon
        <3>6. /\ IsTrade(trade') /\ SameDeal(trade', openRow) /\ IsFresh(trade')
              /\ trade'.recovered
            BY <3>1, <3>5 DEF TradeOf, IsTrade, SameDeal, IsFresh
        <3>7. IsMarked(trade') /\ trade' # NoTrade
            BY <3>6, TradesAreTrades DEF IsFresh, IsMarked
        <3> QED BY <1>1, <1>2, <1>3, <2>2, <3>1, <3>6, <3>7 DEF TradeInv
    <2> QED BY <2>1, <2>2
<1>5. ExitsAreKept'
    BY <1>1 DEF ExitsAreKept
<1> QED BY <1>2, <1>4, <1>5 DEF LifeInv

LEMMA LifeSteps ==
    ASSUME LifeInv, step = "down" => framed = FALSE, [LifeNext]_lifeVars
    PROVE  LifeInv' /\ (step = "down" => framed = FALSE)'
<1>1. LifeInv'
    <2>1. ASSUME StartBot PROVE LifeInv'
        <3>1. framed = FALSE
            BY <2>1 DEF StartBot
        <3> QED BY <2>1, <3>1, StartBotKeeps
    <2> QED BY <2>1, PositionStays, HoldKeeps, CloseKeeps, JournalCloseKeeps, OpenKeeps,
               JournalOpenKeeps, KillBotKeeps DEF LifeNext
<1>2. (step = "down" => framed = FALSE)'
    BY DEF LifeNext, Promote, StartPoll, NothingOpen, Hold, Close, JournalClose, Decline, Open,
           JournalOpen, KillBot, StartBot, lifeVars
<1> QED BY <1>1, <1>2

(* Whatever is promoted, killed or restarted while it is open, a position  *)
(* is left by the stop, the target and the time it was opened with, its    *)
(* record tells what the market did, and what the bot learned is not lost  *)
(* to a new model (segment/live_engine.py's _manage_open_positions, _close *)
(* and recover_open_positions, segment/profit_tail.py's manage,            *)
(* learn/online_calibration.py's observe).                                 *)
THEOREM TradesAreTrue == LifeSpec => []TradesAreAccountedFor
<1>1. LifeInit => LifeInv /\ (step = "down" => framed = FALSE)
    BY LifeStarts DEF LifeInit
<1>2. /\ LifeInv /\ (step = "down" => framed = FALSE) /\ [LifeNext]_lifeVars
      => LifeInv' /\ (step = "down" => framed = FALSE)'
    BY LifeSteps
<1>3. LifeInv => TradesAreAccountedFor
    BY DEF LifeInv, LessonsInv, TradesAreAccountedFor
<1> QED BY <1>1, <1>2, <1>3, PTL DEF LifeSpec

-----------------------------------------------------------------------------
(* The orders and the position of the paper engine.                        *)

(* What TLC's instance has and engine_partial has not: a print covers an   *)
(* order of any size that the gate lets through.                           *)
PrintsAreAmple == \A v \in Volumes : Quantity <= v /\ MaxPosition <= v

(* An order that rests is an entry that its instrument has room for, or an *)
(* exit that takes all there is.                                           *)
HasRoom(s, q) == (book[s] + q) * Price[s] <= MaxPosition

IsEntry(o) ==
    /\ o.intent.on \in Instruments /\ o.intent.side = "BUY" /\ ~o.intent.reduceOnly
    /\ o.left = Quantity /\ HasRoom(o.intent.on, Quantity)

IsExit(o) ==
    /\ o.intent.on \in Instruments /\ o.intent.side = "SELL" /\ o.intent.reduceOnly
    /\ o.left = book[o.intent.on] /\ o.left > 0
    /\ o.intent.on \in pendingExit

BooksAgree ==
    /\ orders \in Seq(Order)
    /\ book \in [Instruments -> Nat] /\ held = book
    /\ \A s \in Instruments : HasRoom(s, 0)

OrdersAreSound == \A i \in DOMAIN orders : IsEntry(orders[i]) \/ IsExit(orders[i])

(* Of two on one instrument the first is an exit, and the second an entry. *)
ExitsGoFirst ==
    \A i, j \in DOMAIN orders :
        i < j /\ orders[i].intent.on = orders[j].intent.on =>
            orders[i].intent.reduceOnly /\ ~orders[j].intent.reduceOnly

(* What an event has been offered to has left; what it leaves behind on its*)
(* instrument is an exit at most, until the strategy is asked.             *)
OffersInv ==
    /\ at = "filling" =>
        /\ volume \in Volumes /\ next \in Nat \ {0}
        /\ \A i \in DOMAIN orders : i < next => orders[i].intent.on # Bar
    /\ at = "filled" => \A i \in DOMAIN orders : orders[i].intent.on # Bar
    /\ at = "observed" => \A i \in DOMAIN orders : orders[i].intent.on = Bar => orders[i].intent.reduceOnly

OrdersInv == BooksAgree /\ OrdersAreSound /\ ExitsGoFirst /\ OffersInv

LEMMA BarIsOne ==
    ASSUME EngineInv, at \in {"filling", "filled", "observed"}
    PROVE  Bar \in Instruments /\ queue \in Seq(Key) /\ queue # <<>>
<1>1. queue \in Seq(Key) /\ queue # <<>>
    BY DEF EngineInv, QueueInv
<1>2. Head(queue) \in Key
    BY <1>1, HeadTailProperties
<1> QED BY <1>1, <1>2 DEF Bar, Key

LEMMA Numbers ==
    /\ \A s \in Instruments : Price[s] \in Nat /\ Price[s] > 0
    /\ Quantity \in Nat /\ Quantity > 0 /\ MaxPosition \in Nat /\ Volumes \subseteq Nat
BY PriceAssumption, EngineAssumption, LimitsAssumption

LEMMA Removed ==
    ASSUME NEW S, NEW s \in Seq(S), NEW i \in 1..Len(s)
    PROVE  /\ Seqs!RemoveAt(s, i) \in Seq(S) /\ Len(Seqs!RemoveAt(s, i)) = Len(s) - 1
           /\ \A k \in 1..(Len(s) - 1) :
                  Seqs!RemoveAt(s, i)[k] = IF k < i THEN s[k] ELSE s[k + 1]
<1>1. Len(s) \in Nat /\ i \in Nat
    BY LenProperties
<1> DEFINE u == SubSeq(s, 1, i - 1)
           v == SubSeq(s, i + 1, Len(s))
<1>2. u \in Seq(S) /\ Len(u) = i - 1 /\ \A k \in 1..(i - 1) : u[k] = s[k]
    BY <1>1, SubSeqProperties
<1>3. v \in Seq(S) /\ Len(v) = Len(s) - i /\ \A k \in 1..(Len(s) - i) : v[k] = s[i + k]
    BY <1>1, SubSeqProperties
<1>4. Seqs!RemoveAt(s, i) = u \o v
    BY DEF Seqs!RemoveAt
<1> HIDE DEF u, v
<1>5. /\ u \o v \in Seq(S) /\ Len(u \o v) = Len(u) + Len(v)
      /\ \A k \in 1..(Len(u) + Len(v)) : (u \o v)[k] = IF k <= Len(u) THEN u[k] ELSE v[k - Len(u)]
    BY <1>2, <1>3, ConcatProperties
<1>6. ASSUME NEW k \in 1..(Len(s) - 1)
      PROVE  (u \o v)[k] = IF k < i THEN s[k] ELSE s[k + 1]
    <2>1. CASE k < i
        BY <1>1, <1>2, <1>3, <1>5, <2>1
    <2>2. CASE k >= i
        <3>1. (u \o v)[k] = v[k - (i - 1)] /\ k - (i - 1) \in 1..(Len(s) - i)
            BY <1>1, <1>2, <1>3, <1>5, <2>2
        <3>2. v[k - (i - 1)] = s[i + (k - (i - 1))]
            BY <1>3, <3>1
        <3>3. i + (k - (i - 1)) = k + 1
            BY <1>1
        <3>4. (u \o v)[k] = s[k + 1]
            BY <3>1, <3>2, <3>3, Zenon
        <3>5. ~(k < i)
            BY <1>1, <2>2
        <3> QED BY <3>4, <3>5, Zenon
    <2>3. k < i \/ k >= i
        BY <1>1
    <2> QED BY <2>1, <2>2, <2>3
<1> QED BY <1>1, <1>2, <1>3, <1>4, <1>5, <1>6

LEMMA OrdersStart == EngineInit => OrdersInv
<1> SUFFICES ASSUME EngineInit PROVE OrdersInv
    OBVIOUS
<1>1. orders = <<>> /\ book = Flat /\ held = Flat /\ at = "down" /\ DOMAIN orders = {}
    BY DEF EngineInit
<1>2. \A s \in Instruments : HasRoom(s, 0)
    BY <1>1, Numbers DEF HasRoom, Flat
<1> QED BY <1>1, <1>2 DEF OrdersInv, BooksAgree, OrdersAreSound, ExitsGoFirst, OffersInv, Flat

(* Steps that leave orders and books alone.                                *)
LEMMA OrdersStay ==
    ASSUME OrdersInv, UNCHANGED <<orders, book, held, pendingExit>>
    PROVE  BooksAgree' /\ OrdersAreSound' /\ ExitsGoFirst'
BY DEF OrdersInv, BooksAgree, OrdersAreSound, ExitsGoFirst, IsEntry, IsExit, HasRoom

(* An order that is done leaves the others where they were.                *)
LEMMA FilledOne ==
    ASSUME PrintsAreAmple, EngineInv, OrdersInv, FillNext, orders[next].intent.on = Bar
    PROVE  OrdersInv'
<1> DEFINE o == orders[next]
<1>1. /\ at = "filling" /\ next \in 1..Len(orders) /\ next \in Nat /\ Len(orders) \in Nat
      /\ volume \in Volumes /\ DOMAIN orders = 1..Len(orders)
      /\ \A i \in DOMAIN orders : i < next => orders[i].intent.on # Bar
    BY LenProperties DEF FillNext, OrdersInv, OffersInv, BooksAgree
<1>2. Bar \in Instruments /\ queue' = queue /\ at' = at /\ volume' = volume
    BY <1>1, BarIsOne DEF FillNext
<1>3. IsEntry(o) \/ IsExit(o)
    BY <1>1 DEF OrdersInv, OrdersAreSound
<1>4. book \in [Instruments -> Nat] /\ held = book /\ \A s \in Instruments : HasRoom(s, 0)
    BY DEF OrdersInv, BooksAgree
<1>5. book[Bar] \in Nat /\ book[Bar] <= MaxPosition
    <2>1. book[Bar] \in Nat /\ Price[Bar] \in Nat /\ Price[Bar] > 0 /\ book[Bar] * Price[Bar] <= MaxPosition
        BY <1>2, <1>4, Numbers DEF HasRoom
    <2>2. book[Bar] <= book[Bar] * Price[Bar]
        BY <2>1
    <2> QED BY <2>1, <2>2, Numbers
<1>6. o.left \in Nat /\ o.left <= volume /\ volume \in Nat /\ FillOf(next, volume) = o.left
    BY <1>1, <1>3, <1>5, Numbers DEF IsEntry, IsExit, PrintsAreAmple, FillOf, Lesser
<1>7. /\ orders' = Seqs!RemoveAt(orders, next)
      /\ book' = [book EXCEPT ![Bar] = @ + Signed(o.intent.side, o.left)]
      /\ OnFill(Bar, Signed(o.intent.side, o.left))
      /\ next' = IF Len(orders') = Len(orders) THEN next + 1 ELSE next
    BY <1>6 DEF FillNext, ApplyFill
<1>8. /\ orders' \in Seq(Order) /\ Len(orders') = Len(orders) - 1
      /\ \A k \in 1..(Len(orders) - 1) : orders'[k] = IF k < next THEN orders[k] ELSE orders[k + 1]
    <2> DEFINE r == Seqs!RemoveAt(orders, next)
    <2>1. orders \in Seq(Order)
        BY SMTT(60) DEF OrdersInv, BooksAgree
    <2>2. /\ r \in Seq(Order) /\ Len(r) = Len(orders) - 1
          /\ \A k \in 1..(Len(orders) - 1) : r[k] = IF k < next THEN orders[k] ELSE orders[k + 1]
        BY <1>1, <2>1, Removed
    <2>3. orders' = r
        BY <1>7
    <2> HIDE DEF r
    <2> QED BY <2>2, <2>3, Zenon
<1>9. next' = next /\ DOMAIN orders' = 1..(Len(orders) - 1)
    <2>1. Len(orders') # Len(orders)
        <3> DEFINE n == Len(orders)
                   m == Len(orders')
        <3>1. n \in Nat /\ m = n - 1
            BY <1>1, <1>8, Zenon
        <3> HIDE DEF n, m
        <3>2. m # n
            BY <3>1
        <3> QED BY <3>2 DEF n, m
    <2>2. next' = next
        BY <1>7, <2>1, Zenon
    <2>3. DOMAIN orders' = 1..Len(orders')
        BY <1>8, LenProperties
    <2> QED BY <1>8, <2>2, <2>3, Zenon
<1> DEFINE from(k) == IF k < next THEN k ELSE k + 1
<1>10. \A k \in DOMAIN orders' :
          orders'[k] = orders[from(k)] /\ from(k) \in DOMAIN orders /\ from(k) # next
    BY <1>1, <1>8, <1>9
<1>11. \A k, l \in DOMAIN orders' : k < l => from(k) < from(l)
    BY <1>1, <1>9
<1>12. \A k \in DOMAIN orders' : k < next => from(k) = k
    OBVIOUS
<1> HIDE DEF from
<1>13. ExitsGoFirst'
    BY <1>10, <1>11 DEF OrdersInv, ExitsGoFirst
<1>14. OffersInv'
    <2>1. Bar' = Bar
        BY <1>2 DEF Bar
    <2>2. \A k \in DOMAIN orders' : k < next' => orders'[k].intent.on # Bar'
        BY <1>1, <1>9, <1>10, <1>12, <2>1
    <2> QED BY <1>1, <1>2, <1>9, <2>2 DEF OffersInv
<1>15. /\ IsEntry(o) => book'[Bar] = book[Bar] + Quantity
       /\ IsExit(o) => book'[Bar] = 0
       /\ book' \in [Instruments -> Nat]
       /\ \A s \in Instruments : s # Bar => book'[s] = book[s]
    BY <1>2, <1>3, <1>4, <1>5, <1>7, Numbers DEF Signed, IsEntry, IsExit
<1>16. held' = book'
    BY <1>2, <1>3, <1>4, <1>5, <1>6, <1>7, Numbers DEF OnFill, SameSide, Signed, Abs, IsEntry, IsExit
<1>17. \A s \in Instruments : s # Bar /\ s \in pendingExit => s \in pendingExit'
    BY <1>7 DEF OnFill
<1>18. \A s \in Instruments : HasRoom(s, 0)'
    <2> SUFFICES ASSUME NEW s \in Instruments PROVE HasRoom(s, 0)'
        OBVIOUS
    <2>1. CASE s # Bar
        BY <1>4, <1>15, <2>1 DEF HasRoom
    <2>2. CASE s = Bar /\ IsEntry(o)
        <3>1. (book[Bar] + Quantity) * Price[Bar] <= MaxPosition /\ book'[Bar] = book[Bar] + Quantity
            BY <1>15, <2>2 DEF IsEntry, HasRoom
        <3> QED BY <1>5, <2>2, <3>1, Numbers DEF HasRoom
    <2>3. CASE s = Bar /\ IsExit(o)
        BY <1>15, <2>3, Numbers DEF HasRoom
    <2> QED BY <1>3, <2>1, <2>2, <2>3
<1>19. OrdersAreSound'
    <2> SUFFICES ASSUME NEW k \in DOMAIN orders' PROVE (IsEntry(orders[k]) \/ IsExit(orders[k]))'
        BY DEF OrdersAreSound
    <2> DEFINE p == orders[from(k)]
    <2>1. orders'[k] = p /\ from(k) \in DOMAIN orders /\ from(k) # next
        BY <1>10
    <2>2. IsEntry(p) \/ IsExit(p)
        BY <2>1 DEF OrdersInv, OrdersAreSound
    <2>3. CASE p.intent.on # Bar
        <3>1. p.intent.on \in Instruments /\ book'[p.intent.on] = book[p.intent.on]
            BY <1>15, <2>2, <2>3 DEF IsEntry, IsExit
        <3> QED BY <1>17, <2>1, <2>2, <2>3, <3>1 DEF IsEntry, IsExit, HasRoom
    <2>4. CASE p.intent.on = Bar
        <3>1. next < from(k)
            BY <1>1, <2>1, <2>4
        <3>2. o.intent.reduceOnly /\ ~p.intent.reduceOnly
            BY <1>1, <2>1, <2>4, <3>1 DEF OrdersInv, ExitsGoFirst
        <3>3. IsExit(o) /\ IsEntry(p)
            BY <1>3, <2>2, <3>2 DEF IsEntry, IsExit
        <3>4. book'[Bar] = 0 /\ (book[Bar] + Quantity) * Price[Bar] <= MaxPosition
            BY <1>15, <2>4, <3>3 DEF IsEntry, HasRoom
        <3>5. Quantity * Price[Bar] <= (book[Bar] + Quantity) * Price[Bar]
            <4>1. (book[Bar] + Quantity) * Price[Bar] = book[Bar] * Price[Bar] + Quantity * Price[Bar]
                BY <1>2, <1>5, Numbers
            <4>2. book[Bar] * Price[Bar] \in Nat /\ Quantity * Price[Bar] \in Nat
                BY <1>2, <1>5, Numbers
            <4> QED BY <4>1, <4>2
        <3>6. (0 + Quantity) * Price[Bar] <= MaxPosition
            BY <1>2, <1>5, <3>4, <3>5, Numbers
        <3> QED BY <2>1, <2>4, <3>3, <3>4, <3>6 DEF IsEntry, HasRoom
    <2> QED BY <2>3, <2>4
<1> QED BY <1>8, <1>13, <1>14, <1>15, <1>16, <1>18, <1>19 DEF OrdersInv, BooksAgree

LEMMA NotOffered ==
    ASSUME OrdersInv, FillNext, orders[next].intent.on # Bar
    PROVE  OrdersInv'
<1>1. /\ at = "filling" /\ next \in 1..Len(orders) /\ next \in Nat /\ Len(orders) \in Nat
      /\ volume \in Volumes /\ DOMAIN orders = 1..Len(orders)
      /\ \A i \in DOMAIN orders : i < next => orders[i].intent.on # Bar
    BY LenProperties DEF FillNext, OrdersInv, OffersInv, BooksAgree
<1>2. /\ next' = next + 1 /\ UNCHANGED <<orders, book, held, pendingExit>>
      /\ queue' = queue /\ at' = at /\ volume' = volume
    BY DEF FillNext, exits
<1>3. Bar' = Bar
    BY <1>2 DEF Bar
<1>4. \A i \in DOMAIN orders : i < next + 1 => orders[i].intent.on # Bar
    BY <1>1
<1>5. OffersInv'
    BY <1>1, <1>2, <1>3, <1>4 DEF OffersInv
<1> QED BY <1>2, <1>5, OrdersStay DEF OrdersInv

LEMMA FillsEnd ==
    ASSUME OrdersInv, FillsDone
    PROVE  OrdersInv'
<1>1. /\ at = "filling" /\ at' = "filled" /\ UNCHANGED <<orders, book, held, pendingExit, queue>>
      /\ \A i \in 1..Len(orders) : i < next
      /\ DOMAIN orders = 1..Len(orders) /\ next \in Nat
    BY LenProperties DEF FillsDone, broker, exits, pollState, OrdersInv, OffersInv, BooksAgree
<1>2. Bar' = Bar
    BY <1>1 DEF Bar
<1>3. OffersInv'
    BY <1>1, <1>2 DEF OrdersInv, OffersInv
<1> QED BY <1>1, <1>3, OrdersStay DEF OrdersInv

(* An order that is put to rest is the last.                               *)
LEMMA Rested ==
    ASSUME orders \in Seq(Order), NEW intent \in Intent, Rest(intent)
    PROVE  /\ orders' \in Seq(Order) /\ DOMAIN orders' = DOMAIN orders \union {Len(orders) + 1}
           /\ DOMAIN orders = 1..Len(orders) /\ Len(orders) \in Nat
           /\ \A i \in DOMAIN orders : orders'[i] = orders[i]
           /\ orders'[Len(orders) + 1] = [intent |-> intent, left |-> intent.quantity]
<1> DEFINE o == [intent |-> intent, left |-> intent.quantity]
<1>1. o \in Order
    BY DEF Order, Intent
<1>2. orders' = Append(orders, o)
    BY DEF Rest
<1> HIDE DEF o
<1>3. /\ orders' \in Seq(Order) /\ Len(orders') = Len(orders) + 1 /\ orders'[Len(orders) + 1] = o
      /\ \A i \in 1..Len(orders) : orders'[i] = orders[i]
    BY <1>1, <1>2, AppendProperties
<1>4. DOMAIN orders' = 1..Len(orders') /\ DOMAIN orders = 1..Len(orders) /\ Len(orders) \in Nat
    BY <1>3, LenProperties
<1>5. 1..(Len(orders) + 1) = 1..Len(orders) \union {Len(orders) + 1}
    BY <1>4
<1> QED BY <1>3, <1>4, <1>5 DEF o

LEMMA ExitRests ==
    ASSUME EngineInv, OrdersInv, Exit
    PROVE  OrdersInv'
<1> DEFINE intent == ExitIntent(Bar)
<1>1. /\ at = "filled" /\ at' = "observed" /\ UNCHANGED <<book, held, queue>>
      /\ held[Bar] # 0 /\ Bar \notin pendingExit /\ pendingExit' = pendingExit \union {Bar}
      /\ orders' = orders \/ Rest(intent)
    BY DEF Exit, MayExit, Latch, Submit
<1>2. Bar \in Instruments /\ Bar' = Bar
    BY <1>1, BarIsOne DEF Bar
<1>3. /\ orders \in Seq(Order) /\ book \in [Instruments -> Nat] /\ held = book
      /\ \A s \in Instruments : HasRoom(s, 0)
      /\ \A i \in DOMAIN orders : orders[i].intent.on # Bar
    BY <1>1 DEF OrdersInv, BooksAgree, OffersInv
<1>4. /\ intent \in Intent /\ intent.on = Bar /\ intent.side = "SELL" /\ intent.reduceOnly
      /\ intent.quantity = book[Bar] /\ book[Bar] \in Nat /\ book[Bar] > 0
    BY <1>1, <1>2, <1>3 DEF ExitIntent, Intent, Sides, Abs
<1> HIDE DEF intent
<1>5. \A s \in Instruments : HasRoom(s, 0)'
    BY <1>1, <1>3 DEF HasRoom
<1>6. \A o : IsEntry(o) \/ IsExit(o) => (IsEntry(o) \/ IsExit(o))'
    BY <1>1 DEF IsEntry, IsExit, HasRoom
<1>7. CASE orders' = orders
    <2>1. OrdersAreSound' /\ ExitsGoFirst'
        BY <1>6, <1>7 DEF OrdersInv, OrdersAreSound, ExitsGoFirst
    <2>2. OffersInv'
        BY <1>1, <1>2, <1>3, <1>7 DEF OffersInv
    <2> QED BY <1>1, <1>3, <1>5, <1>7, <2>1, <2>2 DEF OrdersInv, BooksAgree
<1>8. CASE Rest(intent)
    <2> DEFINE n == Len(orders) + 1
               o == [intent |-> intent, left |-> intent.quantity]
    <2>1. /\ orders' \in Seq(Order) /\ DOMAIN orders' = DOMAIN orders \union {n}
          /\ DOMAIN orders = 1..Len(orders) /\ Len(orders) \in Nat
          /\ \A i \in DOMAIN orders : orders'[i] = orders[i]
          /\ orders'[n] = o
        BY <1>3, <1>4, <1>8, Rested
    <2>2. /\ o.intent = intent /\ o.left = book[Bar]
          /\ Bar \in pendingExit' /\ book' = book
        BY <1>1, <1>4
    <2>3. o.intent = intent
        OBVIOUS
    <2> HIDE DEF o
    <2>4. OrdersAreSound'
        <3> SUFFICES ASSUME NEW i \in DOMAIN orders' PROVE (IsEntry(orders[i]) \/ IsExit(orders[i]))'
            BY DEF OrdersAreSound
        <3>1. CASE i \in DOMAIN orders
            <4>1. orders'[i] = orders[i] /\ (IsEntry(orders[i]) \/ IsExit(orders[i]))
                BY <2>1, <3>1 DEF OrdersInv, OrdersAreSound
            <4> QED BY <1>1, <4>1 DEF IsEntry, IsExit, HasRoom
        <3>2. CASE i = n
            <4>1. orders'[i] = o
                BY <2>1, <3>2
            <4> QED BY <1>2, <1>4, <2>2, <4>1 DEF IsExit
        <3> QED BY <2>1, <3>1, <3>2
    <2>5. ExitsGoFirst'
        <3> SUFFICES ASSUME NEW i \in DOMAIN orders', NEW j \in DOMAIN orders', i < j,
                            orders'[i].intent.on = orders'[j].intent.on
                     PROVE  orders'[i].intent.reduceOnly /\ ~orders'[j].intent.reduceOnly
            BY DEF ExitsGoFirst
        <3>1. i \in DOMAIN orders /\ (j \in DOMAIN orders \/ j = n)
            BY <2>1
        <3>2. CASE j = n
            BY <1>3, <1>4, <2>1, <2>3, <3>1, <3>2
        <3>3. CASE j \in DOMAIN orders
            BY <2>1, <3>1, <3>3 DEF OrdersInv, ExitsGoFirst
        <3> QED BY <3>1, <3>2, <3>3
    <2>6. OffersInv'
        BY <1>1, <1>2, <1>3, <1>4, <2>1, <2>3 DEF OffersInv
    <2> QED BY <1>1, <1>3, <1>5, <2>1, <2>4, <2>5, <2>6 DEF OrdersInv, BooksAgree
<1> QED BY <1>1, <1>7, <1>8

LEMMA EntryRests ==
    ASSUME EngineInv, OrdersInv, Enter
    PROVE  OrdersInv'
<1> DEFINE intent == EntryIntent(Bar)
<1>1. /\ at = "observed" /\ at' = "polling" /\ UNCHANGED <<book, held, pendingExit>>
      /\ orders' = orders \/ (Rest(intent) /\ ~GateRefuses(intent))
    BY DEF Enter, Submit, exits
<1>2. Bar \in Instruments
    BY <1>1, BarIsOne
<1>3. /\ orders \in Seq(Order) /\ book \in [Instruments -> Nat] /\ held = book
      /\ \A s \in Instruments : HasRoom(s, 0)
      /\ \A i \in DOMAIN orders : orders[i].intent.on = Bar => orders[i].intent.reduceOnly
    BY <1>1 DEF OrdersInv, BooksAgree, OffersInv
<1>4. /\ intent \in Intent /\ intent.on = Bar /\ intent.side = "BUY" /\ ~intent.reduceOnly
      /\ intent.quantity = Quantity
    BY <1>2, Numbers DEF EntryIntent, Intent, Sides
<1>5. ~GateRefuses(intent) => HasRoom(Bar, Quantity)
    <2>1. /\ After(intent) = book[Bar] + Quantity /\ book[Bar] \in Nat
          /\ book[Bar] + Quantity > book[Bar]
        BY <1>2, <1>3, <1>4, Numbers DEF After, Signed
    <2>2. Increases(intent) /\ Abs(After(intent)) = book[Bar] + Quantity
        BY <1>4, <2>1, Numbers DEF Increases, Abs
    <2>3. ~GateRefuses(intent) => ~PastCap(intent)
        BY <2>2 DEF GateRefuses
    <2>4. (book[Bar] + Quantity) * Price[Bar] \in Nat
        BY <1>2, <2>1, Numbers
    <2>5. ~PastCap(intent) => (book[Bar] + Quantity) * Price[Bar] <= MaxPosition
        BY <1>4, <2>2, <2>4, Numbers DEF PastCap
    <2> QED BY <2>3, <2>5 DEF HasRoom
<1> HIDE DEF intent
<1>6. OffersInv'
    BY <1>1 DEF OffersInv
<1>7. CASE orders' = orders
    BY <1>1, <1>6, <1>7, OrdersStay DEF OrdersInv
<1>8. CASE Rest(intent) /\ ~GateRefuses(intent)
    <2> DEFINE n == Len(orders) + 1
               o == [intent |-> intent, left |-> intent.quantity]
    <2>1. /\ orders' \in Seq(Order) /\ DOMAIN orders' = DOMAIN orders \union {n}
          /\ DOMAIN orders = 1..Len(orders) /\ Len(orders) \in Nat
          /\ \A i \in DOMAIN orders : orders'[i] = orders[i]
          /\ orders'[n] = o
        BY <1>3, <1>4, <1>8, Rested
    <2>2. IsEntry(o)
        BY <1>2, <1>4, <1>5, <1>8 DEF IsEntry
    <2>3. o.intent = intent
        OBVIOUS
    <2> HIDE DEF o
    <2>4. \A x : (IsEntry(x) \/ IsExit(x)) => (IsEntry(x) \/ IsExit(x))'
        BY <1>1 DEF IsEntry, IsExit, HasRoom
    <2>5. OrdersAreSound'
        BY <2>1, <2>2, <2>4 DEF OrdersInv, OrdersAreSound
    <2>6. ExitsGoFirst'
        <3> SUFFICES ASSUME NEW i \in DOMAIN orders', NEW j \in DOMAIN orders', i < j,
                            orders'[i].intent.on = orders'[j].intent.on
                     PROVE  orders'[i].intent.reduceOnly /\ ~orders'[j].intent.reduceOnly
            BY DEF ExitsGoFirst
        <3>1. i \in DOMAIN orders /\ (j \in DOMAIN orders \/ j = n)
            BY <2>1
        <3>2. CASE j = n
            BY <1>3, <1>4, <2>1, <2>3, <3>1, <3>2
        <3>3. CASE j \in DOMAIN orders
            BY <2>1, <3>1, <3>3 DEF OrdersInv, ExitsGoFirst
        <3> QED BY <3>1, <3>2, <3>3
    <2>7. \A s \in Instruments : HasRoom(s, 0)'
        BY <1>1, <1>3 DEF HasRoom
    <2> QED BY <1>1, <1>3, <1>6, <2>1, <2>5, <2>6, <2>7 DEF OrdersInv, BooksAgree
<1> QED BY <1>1, <1>7, <1>8

LEMMA EngineForgets ==
    ASSUME Die
    PROVE  OrdersInv'
<1>1. orders' = <<>> /\ book' = Flat /\ held' = Flat /\ at' = "down"
    BY DEF Die
<1>2. \A s \in Instruments : HasRoom(s, 0)'
    BY <1>1, Numbers DEF HasRoom, Flat
<1> QED BY <1>1, <1>2 DEF OrdersInv, BooksAgree, OrdersAreSound, ExitsGoFirst, OffersInv, Flat

LEMMA OrdersSteps ==
    ASSUME PrintsAreAmple, EngineInv, OrdersInv, [EngineNext]_engineVars
    PROVE  OrdersInv'
<1>1. ASSUME \/ \E s \in Instruments : NewBar(s)
             \/ \E k \in RowsFrom(0) : CorrectBar(k)
             \/ UNCHANGED engineVars
      PROVE  OrdersInv'
    <2>1. UNCHANGED <<orders, book, held, pendingExit, at, queue, next, volume>>
        BY <1>1 DEF NewBar, CorrectBar, engineVars, broker, exits, pollState
    <2>2. OffersInv'
        BY <2>1 DEF OrdersInv, OffersInv, Bar
    <2> QED BY <2>1, <2>2, OrdersStay DEF OrdersInv
<1>2. ASSUME StartEngine \/ BeginPoll \/ EndPoll PROVE OrdersInv'
    <2>1. UNCHANGED <<orders, book, held, pendingExit>> /\ at' \in {"idle", "polling"}
        BY <1>2 DEF StartEngine, BeginPoll, EndPoll, broker, exits
    <2>2. OffersInv'
        BY <2>1 DEF OffersInv
    <2> QED BY <2>1, <2>2, OrdersStay DEF OrdersInv
<1>3. ASSUME TakeEvent PROVE OrdersInv'
    <2>1. /\ UNCHANGED <<orders, book, held, pendingExit>>
          /\ at' = "filling" /\ next' = 1 /\ volume' \in Volumes
        BY <1>3 DEF TakeEvent, broker, exits
    <2>2. DOMAIN orders = 1..Len(orders)
        BY LenProperties DEF OrdersInv, BooksAgree
    <2>3. OffersInv'
        BY <2>1, <2>2 DEF OffersInv
    <2> QED BY <2>1, <2>3, OrdersStay DEF OrdersInv
<1>4. ASSUME NoExit PROVE OrdersInv'
    <2>1. /\ UNCHANGED <<orders, book, held, pendingExit, queue>>
          /\ at = "filled" /\ at' = "observed"
        BY <1>4 DEF NoExit, broker, exits, pollState
    <2>2. OffersInv'
        BY <2>1 DEF OrdersInv, OffersInv, Bar
    <2> QED BY <2>1, <2>2, OrdersStay DEF OrdersInv
<1>5. ASSUME KillEngine \/ KillInMarker PROVE OrdersInv'
    BY <1>5, EngineForgets DEF KillEngine, KillInMarker
<1> QED BY <1>1, <1>2, <1>3, <1>4, <1>5, FilledOne, NotOffered, FillsEnd, ExitRests, EntryRests
        DEF EngineNext

LEMMA OrdersSound ==
    ASSUME OrdersInv
    PROVE  PositionsAreSound
<1>1. PositionsAgree
    BY DEF OrdersInv, BooksAgree, PositionsAgree
<1>2. PositionsAreCapped
    <2> SUFFICES ASSUME NEW s \in Instruments PROVE Abs(book[s]) * Price[s] <= MaxPosition
        BY DEF PositionsAreCapped
    <2>1. book[s] \in Nat /\ (book[s] + 0) * Price[s] <= MaxPosition
        BY DEF OrdersInv, BooksAgree, HasRoom
    <2> QED BY <2>1, Numbers DEF Abs
<1>3. OneRestingExit
    <2> SUFFICES ASSUME NEW s \in Instruments
                 PROVE  /\ Cardinality(RestingExits(s)) <= 1
                        /\ RestingExits(s) # {} => s \in pendingExit
        BY DEF OneRestingExit
    <2>1. DOMAIN orders \subseteq Int
        BY LenProperties DEF OrdersInv, BooksAgree
    <2>2. \A i, j \in RestingExits(s) : i = j
        <3> SUFFICES ASSUME NEW i \in RestingExits(s), NEW j \in RestingExits(s), i < j PROVE FALSE
            BY <2>1 DEF RestingExits
        <3> QED BY DEF RestingExits, OrdersInv, ExitsGoFirst
    <2>3. CASE RestingExits(s) = {}
        BY <2>3, FS_EmptySet
    <2>4. CASE RestingExits(s) # {}
        <3>1. PICK i : i \in RestingExits(s)
            BY <2>4
        <3>2. RestingExits(s) = {i}
            BY <2>2, <3>1
        <3>3. s \in pendingExit
            BY <3>1 DEF RestingExits, OrdersInv, OrdersAreSound, IsEntry, IsExit
        <3> QED BY <3>2, <3>3, FS_Singleton
    <2> QED BY <2>3, <2>4
<1> QED BY <1>1, <1>2, <1>3 DEF PositionsAreSound

-----------------------------------------------------------------------------
(* The rails of a position.                                                *)

LEMMA LeastOf ==
    ASSUME NEW n \in Nat, NEW I \in SUBSET (0..n), I # {}
    PROVE  \E i \in I : \A j \in I : i <= j
<1>1. I \subseteq Nat
    OBVIOUS
<1>2. \E i \in I : \A j \in I : ~(<<j, i>> \in OpToRel(<, Nat))
    BY <1>1, NatLessThanWellFounded, WFMin
<1>3. PICK i \in I : \A j \in I : ~(<<j, i>> \in OpToRel(<, Nat))
    BY <1>2
<1>4. \A j \in I : ~(j < i)
    BY <1>1, <1>3 DEF OpToRel
<1>5. \A j \in I : i <= j
    BY <1>1, <1>4
<1> QED BY <1>5

(* What the policy makes of the first n bars of a path.                    *)
IsWalk(f, n, p, path) ==
    f = [k \in 0..n |-> IF k = 0 THEN Watching(p) ELSE StepPolicy(p, f[k - 1], path[k])]

LEMMA OneMoreBar ==
    ASSUME NEW n \in Nat, NEW p, NEW path, NEW g, IsWalk(g, n, p, path)
    PROVE  \E f : IsWalk(f, n + 1, p, path)
<1> DEFINE f == [k \in 0..(n + 1) |->
                    IF k = n + 1 THEN StepPolicy(p, g[n], path[n + 1]) ELSE g[k]]
<1>1. ASSUME NEW k \in 0..n PROVE f[k] = g[k]
    BY <1>1
<1>2. f[n + 1] = StepPolicy(p, g[n], path[n + 1])
    OBVIOUS
<1>3. ASSUME NEW k \in 0..n
      PROVE  g[k] = IF k = 0 THEN Watching(p) ELSE StepPolicy(p, g[k - 1], path[k])
    BY <1>3 DEF IsWalk
<1>4. ASSUME NEW k \in 0..(n + 1)
      PROVE  f[k] = IF k = 0 THEN Watching(p) ELSE StepPolicy(p, f[k - 1], path[k])
    <2>1. CASE k = 0
        BY <1>1, <1>3, <2>1
    <2>2. CASE k \in 1..n
        <3>1. k # 0 /\ k \in 0..n /\ k - 1 \in 0..n
            BY <2>2
        <3>2. f[k] = g[k] /\ f[k - 1] = g[k - 1]
            BY <1>1, <3>1
        <3>3. g[k] = StepPolicy(p, g[k - 1], path[k])
            BY <1>3, <3>1
        <3> HIDE DEF f
        <3> QED BY <3>1, <3>2, <3>3, Zenon
    <2>3. CASE k = n + 1
        <3>1. k # 0 /\ k - 1 = n /\ n \in 0..n
            BY <2>3
        <3>2. f[k - 1] = g[n]
            BY <1>1, <3>1
        <3>3. f[k] = StepPolicy(p, g[n], path[k])
            BY <1>2, <2>3
        <3> HIDE DEF f
        <3> QED BY <3>1, <3>2, <3>3, Zenon
    <2> QED BY <2>1, <2>2, <2>3
<1>5. f = [k \in 0..(n + 1) |-> f[k]]
    OBVIOUS
<1> HIDE DEF f
<1>6. f = [k \in 0..(n + 1) |-> IF k = 0 THEN Watching(p) ELSE StepPolicy(p, f[k - 1], path[k])]
    BY <1>4, <1>5, Zenon
<1> QED BY <1>6, Zenon DEF IsWalk

LEMMA WalkExists ==
    ASSUME NEW n \in Nat, NEW p, NEW path
    PROVE  \E f : IsWalk(f, n, p, path)
<1> DEFINE I == {k \in 0..n : ~\E f : IsWalk(f, k, p, path)}
<1>1. SUFFICES ASSUME I # {} PROVE FALSE
    BY <1>1
<1>2. PICK i \in I : \A j \in I : i <= j
    <2>1. I \in SUBSET (0..n)
        OBVIOUS
    <2> HIDE DEF I
    <2> QED BY <1>1, <2>1, LeastOf
<1>3. i \in 0..n /\ ~\E f : IsWalk(f, i, p, path)
    OBVIOUS
<1>4. CASE i = 0
    <2> DEFINE f == [k \in 0..0 |-> Watching(p)]
    <2>1. \A k \in 0..0 : k = 0
        OBVIOUS
    <2>2. f = [k \in 0..0 |-> IF k = 0 THEN Watching(p) ELSE StepPolicy(p, f[k - 1], path[k])]
        BY <2>1, Zenon
    <2>3. IsWalk(f, 0, p, path)
        BY <2>2, Zenon DEF IsWalk
    <2> QED BY <1>3, <1>4, <2>3
<1>5. CASE i # 0
    <2>1. i - 1 \in Nat /\ i - 1 \in 0..n /\ ~(i <= i - 1) /\ (i - 1) + 1 = i
        BY <1>3, <1>5
    <2>2. i - 1 \notin I
        BY <1>2, <2>1
    <2>3. PICK g : IsWalk(g, i - 1, p, path)
        BY <2>1, <2>2
    <2>4. \E f : IsWalk(f, (i - 1) + 1, p, path)
        BY <2>1, <2>3, OneMoreBar
    <2> QED BY <1>3, <2>1, <2>4
<1> QED BY <1>4, <1>5

LEMMA WalkIs ==
    ASSUME NEW p, NEW path, Len(path) \in Nat
    PROVE  \E f : IsWalk(f, Len(path), p, path) /\ WalkPath(p, path) = f[Len(path)]
<1> DEFINE f == CHOOSE f : IsWalk(f, Len(path), p, path)
<1>1. IsWalk(f, Len(path), p, path)
    BY WalkExists
<1>2. WalkPath(p, path) = f[Len(path)]
    BY DEF WalkPath, IsWalk
<1> QED BY <1>1, <1>2
(* The policy looks at the side, the average entry and the average range.  *)
SameRails(p, q) == p.side = q.side /\ p.cost = q.cost /\ p.lots = q.lots /\ p.atr = q.atr

(* What a bar makes of a follower, by what it is compared with.            *)
Stepped(f, m, top, stop, target, low) ==
    LET g == [m EXCEPT !.best = top, !.bars = @ + 1]
    IN  IF f.touched THEN f
        ELSE [g EXCEPT !.touched = \/ stop \/ target
                                   \/ f.locked /\ low <= f.lock
                                   \/ g.bars >= MaxHoldingBars]

LEMMA StepIs ==
    ASSUME NEW p, NEW f, NEW bar
    PROVE  LET top == Max({f.best, Favourable(p, bar)}) IN
           StepPolicy(p, f, bar) = Stepped(f, RatchetedLock(p, f, top), top, HitsStop(p, bar),
                                           HitsTarget(p, bar), Adverse(p, bar))
BY Zenon DEF StepPolicy, Stepped

LEMMA SamePolicy ==
    ASSUME NEW p, NEW q, SameRails(p, q)
    PROVE  /\ Watching(p) = Watching(q)
           /\ \A f, bar : StepPolicy(p, f, bar) = StepPolicy(q, f, bar)
           /\ \A bar : HitsStop(p, bar) = HitsStop(q, bar) /\ HitsTarget(p, bar) = HitsTarget(q, bar)
<1>1. /\ EntryOf(p) = EntryOf(q)
      /\ \A bar : Adverse(p, bar) = Adverse(q, bar) /\ Favourable(p, bar) = Favourable(q, bar)
      /\ \A multiple : Ranges(p, multiple) = Ranges(q, multiple)
    BY Zenon DEF SameRails, EntryOf, Adverse, Favourable, Ranges
<1>2. \A bar : HitsStop(p, bar) = HitsStop(q, bar) /\ HitsTarget(p, bar) = HitsTarget(q, bar)
    BY <1>1 DEF HitsStop, HitsTarget
<1>3. \A f, best : RatchetedLock(p, f, best) = RatchetedLock(q, f, best)
    <2> SUFFICES ASSUME NEW f, NEW best PROVE RatchetedLock(p, f, best) = RatchetedLock(q, f, best)
        OBVIOUS
    <2> DEFINE near == Ranges(p, Min({TrailAtr, RatchetAtr}))
               far == Ranges(p, ArmAtr)
               entry == EntryOf(p)
    <2>1. /\ near = Ranges(q, Min({TrailAtr, RatchetAtr})) /\ far = Ranges(q, ArmAtr)
          /\ entry = EntryOf(q)
        BY <1>1, Zenon
    <2> HIDE DEF near, far, entry
    <2>2. /\ near = Ranges(p, Min({TrailAtr, RatchetAtr})) /\ far = Ranges(p, ArmAtr)
          /\ entry = EntryOf(p)
        BY Zenon DEF near, far, entry
    <2> QED BY <2>1, <2>2 DEF RatchetedLock
<1>4. \A f, bar : StepPolicy(p, f, bar) = StepPolicy(q, f, bar)
    <2> SUFFICES ASSUME NEW f, NEW bar PROVE StepPolicy(p, f, bar) = StepPolicy(q, f, bar)
        OBVIOUS
    <2> DEFINE top == Max({f.best, Favourable(p, bar)})
    <2>1. top = Max({f.best, Favourable(q, bar)})
        BY <1>1, Zenon
    <2>2. StepPolicy(p, f, bar) = Stepped(f, RatchetedLock(p, f, top), top, HitsStop(p, bar),
                                          HitsTarget(p, bar), Adverse(p, bar))
        BY StepIs, Zenon
    <2>3. StepPolicy(q, f, bar) = Stepped(f, RatchetedLock(q, f, top), top, HitsStop(q, bar),
                                          HitsTarget(q, bar), Adverse(q, bar))
        BY <2>1, StepIs, Zenon
    <2> HIDE DEF top
    <2> QED BY <1>1, <1>2, <1>3, <2>2, <2>3, Zenon
<1>5. Watching(p) = Watching(q)
    BY <1>1, Zenon DEF Watching
<1> QED BY <1>2, <1>4, <1>5

(* Two walks over the same bars see the same.                              *)
BarsAgree(n, path, way) == \A k \in 1..n : path[k] = way[k]

LEMMA WalksAgree ==
    ASSUME NEW n \in Nat, NEW p, NEW q, SameRails(p, q),
           NEW path, NEW way, BarsAgree(n, path, way),
           NEW f, IsWalk(f, n, p, path), NEW g, IsWalk(g, n + 1, q, way)
    PROVE  f[n] = g[n]
<1> DEFINE I == {k \in 0..n : f[k] # g[k]}
<1>1. SUFFICES ASSUME I # {} PROVE FALSE
    <2>1. n \in 0..n
        OBVIOUS
    <2> QED BY <1>1, <2>1
<1>2. PICK i \in I : \A j \in I : i <= j
    <2>1. I \in SUBSET (0..n)
        OBVIOUS
    <2> HIDE DEF I
    <2> QED BY <1>1, <2>1, LeastOf
<1>3. i \in 0..n /\ i \in 0..(n + 1) /\ f[i] # g[i]
    OBVIOUS
<1>4. /\ f[i] = IF i = 0 THEN Watching(p) ELSE StepPolicy(p, f[i - 1], path[i])
      /\ g[i] = IF i = 0 THEN Watching(q) ELSE StepPolicy(q, g[i - 1], way[i])
    BY <1>3 DEF IsWalk
<1>5. CASE i = 0
    BY <1>3, <1>4, <1>5, SamePolicy, Zenon
<1>6. CASE i # 0
    <2>1. i \in 1..n /\ i - 1 \in 0..n /\ ~(i <= i - 1)
        BY <1>3, <1>6
    <2>2. f[i - 1] = g[i - 1] /\ path[i] = way[i]
        BY <1>2, <2>1 DEF BarsAgree
    <2>3. f[i] = StepPolicy(p, f[i - 1], path[i]) /\ g[i] = StepPolicy(q, g[i - 1], way[i])
        BY <1>4, <1>6, Zenon
    <2>4. StepPolicy(p, f[i - 1], path[i]) = StepPolicy(q, f[i - 1], path[i])
        BY SamePolicy
    <2> QED BY <1>3, <2>2, <2>3, <2>4, Zenon
<1> QED BY <1>5, <1>6

LEMMA WalkNothing ==
    ASSUME NEW p, NEW path, Len(path) = 0
    PROVE  WalkPath(p, path) = Watching(p)
<1>1. PICK f : IsWalk(f, Len(path), p, path) /\ WalkPath(p, path) = f[Len(path)]
    BY WalkIs
<1>2. 0 \in 0..0
    OBVIOUS
<1> QED BY <1>1, <1>2 DEF IsWalk

OneMore(path, way) ==
    /\ Len(path) \in Nat /\ Len(way) = Len(path) + 1
    /\ \A k \in 1..Len(path) : way[k] = path[k]

LEMMA WalkOneMore ==
    ASSUME NEW p, NEW q, SameRails(p, q), NEW path, NEW way, OneMore(path, way)
    PROVE  WalkPath(q, way) = StepPolicy(q, WalkPath(p, path), way[Len(way)])
<1> DEFINE n == Len(path)
<1>1. PICK f : IsWalk(f, n, p, path) /\ WalkPath(p, path) = f[n]
    BY WalkIs DEF OneMore
<1>2. PICK g : IsWalk(g, n + 1, q, way) /\ WalkPath(q, way) = g[n + 1]
    BY WalkIs DEF OneMore
<1>3. n \in Nat /\ BarsAgree(n, path, way)
    BY DEF OneMore, BarsAgree
<1> HIDE DEF n
<1>4. f[n] = g[n]
    <2>1. IsWalk(f, n, p, path) /\ IsWalk(g, n + 1, q, way)
        BY <1>1, <1>2
    <2> QED BY <1>3, <2>1, WalksAgree
<1>5. n + 1 \in 0..(n + 1) /\ n + 1 # 0 /\ (n + 1) - 1 = n
    BY <1>3
<1>6. g[n + 1] = StepPolicy(q, g[n], way[n + 1])
    BY <1>2, <1>5 DEF IsWalk
<1>7. Len(way) = n + 1
    BY DEF OneMore, n
<1> QED BY <1>1, <1>2, <1>4, <1>6, <1>7, Zenon DEF n
(* A follower, and what a bar does to it.                                  *)
IsFollower(f) ==
    /\ DOMAIN f = {"exact", "lock", "locked", "best", "bars", "touched"}
    /\ f.exact \in BOOLEAN /\ f.touched \in BOOLEAN /\ f.bars \in Nat

LEMMA WatchingIs ==
    ASSUME NEW p
    PROVE  IsFollower(Watching(p)) /\ Watching(p).exact /\ ~Watching(p).touched /\ Watching(p).bars = 0
<1> DEFINE yes == TRUE
           no == FALSE
           e == EntryOf(p)
           u == Unknown
           n == [exact |-> no, lock |-> u, locked |-> no, best |-> 0, bars |-> 0, touched |-> no]
           h == [n EXCEPT !.exact = yes, !.best = e]
<1>1. Watching(p) = h
    BY Zenon DEF Watching, NoFollower
<1>2. yes \in BOOLEAN /\ no \in BOOLEAN /\ yes = TRUE /\ no = FALSE
    OBVIOUS
<1> HIDE DEF yes, no, e, u
<1>3. /\ DOMAIN h = {"exact", "lock", "locked", "best", "bars", "touched"}
      /\ h.exact = yes /\ h.touched = no /\ h.bars = 0
    OBVIOUS
<1> HIDE DEF n, h
<1> QED BY <1>1, <1>2, <1>3 DEF IsFollower

LEMMA LockKeeps ==
    ASSUME NEW p, NEW f, IsFollower(f), NEW best
    PROVE  LET m == RatchetedLock(p, f, best) IN
           IsFollower(m) /\ m.exact = f.exact /\ m.touched = f.touched /\ m.bars = f.bars
<1> DEFINE candidate == best - Ranges(p, Min({TrailAtr, RatchetAtr}))
           tight == IF f.locked THEN Max({f.lock, candidate}) ELSE candidate
           yes == TRUE
           k == [f EXCEPT !.locked = yes, !.lock = tight]
           m == RatchetedLock(p, f, best)
<1>1. m = f \/ m = [f EXCEPT !.locked = yes, !.lock = IF f.locked THEN Max({@, candidate}) ELSE candidate]
    BY Zenon DEF RatchetedLock
<1> HIDE DEF candidate, yes, m
<1>2. m = f \/ m = k
    BY <1>1
<1> HIDE DEF tight
<1>3. /\ DOMAIN k = DOMAIN f /\ k.exact = f.exact /\ k.touched = f.touched /\ k.bars = f.bars
    BY DEF IsFollower
<1> HIDE DEF k
<1>4. IsFollower(m) /\ m.exact = f.exact /\ m.touched = f.touched /\ m.bars = f.bars
    BY <1>2, <1>3 DEF IsFollower
<1> QED BY <1>4 DEF m

LEMMA SteppedIs ==
    ASSUME NEW f, IsFollower(f), NEW m, IsFollower(m), m.exact = f.exact, m.bars = f.bars,
           NEW top, NEW stop \in BOOLEAN, NEW target \in BOOLEAN, NEW low
    PROVE  LET h == Stepped(f, m, top, stop, target, low) IN
           /\ IsFollower(h) /\ h.exact = f.exact
           /\ f.touched => h = f
           /\ ~f.touched => /\ h.bars = f.bars + 1
                            /\ stop \/ target => h.touched
                            /\ ~h.touched => h.bars < MaxHoldingBars
<1> DEFINE g == [m EXCEPT !.best = top, !.bars = @ + 1]
           leaves == stop \/ target \/ (f.locked /\ low <= f.lock) \/ g.bars >= MaxHoldingBars
           h == Stepped(f, m, top, stop, target, low)
           k == [g EXCEPT !.touched = leaves]
<1>1. h = IF f.touched THEN f ELSE k
    BY Zenon DEF Stepped
<1>2. /\ DOMAIN g = DOMAIN m /\ g.exact = m.exact /\ g.bars = m.bars + 1
    BY DEF IsFollower
<1>3. leaves \in BOOLEAN /\ (stop \/ target => leaves) /\ (~leaves => ~(g.bars >= MaxHoldingBars))
    <2> HIDE DEF g
    <2> QED BY Zenon
<1> HIDE DEF g, leaves, h
<1>4. /\ DOMAIN k = DOMAIN g /\ k.exact = g.exact /\ k.bars = g.bars /\ k.touched = leaves
    BY <1>2 DEF IsFollower
<1> HIDE DEF k
<1>5. MaxHoldingBars \in Nat
    BY RailsAssumption
<1>6. CASE f.touched
    <2>1. h = f
        BY <1>1, <1>6, Zenon
    <2> QED BY <1>6, <2>1 DEF h
<1>7. CASE ~f.touched
    <2>1. h = k
        BY <1>1, <1>7, Zenon
    <2>2. IsFollower(h) /\ h.exact = f.exact /\ h.bars = f.bars + 1 /\ h.touched = leaves
        BY <1>2, <1>3, <1>4, <2>1 DEF IsFollower
    <2>3. ~h.touched => h.bars < MaxHoldingBars
        BY <1>2, <1>3, <1>4, <1>5, <2>1, <2>2 DEF IsFollower
    <2>4. stop \/ target => h.touched
        BY <1>3, <2>2
    <2> QED BY <1>7, <2>2, <2>3, <2>4 DEF h
<1> QED BY <1>6, <1>7 DEF IsFollower

LEMMA PolicyIs ==
    ASSUME NEW p, NEW f, IsFollower(f), NEW bar
    PROVE  LET h == StepPolicy(p, f, bar) IN
           /\ IsFollower(h) /\ h.exact = f.exact
           /\ f.touched => h = f
           /\ ~f.touched => /\ h.bars = f.bars + 1
                            /\ HitsStop(p, bar) \/ HitsTarget(p, bar) => h.touched
                            /\ ~h.touched => h.bars < MaxHoldingBars
<1> DEFINE top == Max({f.best, Favourable(p, bar)})
           m == RatchetedLock(p, f, top)
           stop == HitsStop(p, bar)
           target == HitsTarget(p, bar)
           low == Adverse(p, bar)
<1>1. StepPolicy(p, f, bar) = Stepped(f, m, top, stop, target, low)
    BY StepIs, Zenon
<1>2. IsFollower(m) /\ m.exact = f.exact /\ m.bars = f.bars
    BY LockKeeps
<1>3. stop \in BOOLEAN /\ target \in BOOLEAN
    BY DEF HitsStop, HitsTarget
<1> HIDE DEF top, m, low, stop, target
<1>4. LET h == Stepped(f, m, top, stop, target, low) IN
           /\ IsFollower(h) /\ h.exact = f.exact
           /\ f.touched => h = f
           /\ ~f.touched => /\ h.bars = f.bars + 1
                            /\ stop \/ target => h.touched
                            /\ ~h.touched => h.bars < MaxHoldingBars
    BY <1>2, <1>3, SteppedIs
<1> QED BY <1>1, <1>4, Zenon DEF stop, target

LEMMA WalkedType ==
    ASSUME NEW n \in Nat, NEW p, NEW path, NEW f, IsWalk(f, n, p, path)
    PROVE  \A k \in 0..n : IsFollower(f[k])
<1> DEFINE I == {k \in 0..n : ~IsFollower(f[k])}
<1>1. SUFFICES ASSUME I # {} PROVE FALSE
    BY <1>1
<1>2. PICK i \in I : \A j \in I : i <= j
    <2>1. I \in SUBSET (0..n)
        OBVIOUS
    <2> HIDE DEF I
    <2> QED BY <1>1, <2>1, LeastOf
<1>3. i \in 0..n /\ ~IsFollower(f[i])
    OBVIOUS
<1>4. f[i] = IF i = 0 THEN Watching(p) ELSE StepPolicy(p, f[i - 1], path[i])
    BY <1>3 DEF IsWalk
<1>5. CASE i = 0
    BY <1>3, <1>4, <1>5, WatchingIs, Zenon
<1>6. CASE i # 0
    <2>1. i - 1 \in 0..n /\ ~(i <= i - 1)
        BY <1>3, <1>6
    <2>2. IsFollower(f[i - 1])
        BY <1>2, <2>1
    <2>3. f[i] = StepPolicy(p, f[i - 1], path[i])
        BY <1>4, <1>6, Zenon
    <2>4. IsFollower(StepPolicy(p, f[i - 1], path[i]))
        BY <2>2, PolicyIs
    <2> QED BY <1>3, <2>3, <2>4
<1> QED BY <1>5, <1>6

(* A walk that ends with a bar on the stop or the target leaves.           *)
LEMMA LastBarCounts ==
    ASSUME NEW p, NEW path, Len(path) \in Nat, Len(path) > 0,
           HitsStop(p, path[Len(path)]) \/ HitsTarget(p, path[Len(path)])
    PROVE  WalkPath(p, path).touched
<1> DEFINE n == Len(path)
<1>1. PICK f : IsWalk(f, n, p, path) /\ WalkPath(p, path) = f[n]
    BY WalkIs
<1>2. n \in Nat /\ n \in 0..n /\ n - 1 \in 0..n /\ n # 0
    OBVIOUS
<1> HIDE DEF n
<1>3. f[n] = StepPolicy(p, f[n - 1], path[n]) /\ IsFollower(f[n - 1])
    BY <1>1, <1>2, WalkedType, SMTT(60) DEF IsWalk
<1>4. HitsStop(p, path[n]) \/ HitsTarget(p, path[n])
    BY DEF n
<1>5. f[n].touched
    BY <1>3, <1>4, PolicyIs
<1> QED BY <1>1, <1>5
(* A position, and what a fill and a bar do to it.                         *)
IsPlace(p) ==
    /\ DOMAIN p = {"side", "quantity", "cost", "lots", "atr", "path", "pendingExit", "beforeRails"}
    /\ p.path \in Seq(RailBars) /\ p.beforeRails \in Nat /\ p.pendingExit \in BOOLEAN

IsNewPlace(p) == IsPlace(p) /\ p.path = <<>> /\ p.beforeRails = 0 /\ p.pendingExit = FALSE

LEMMA OpenedIs ==
    ASSUME NEW buys, NEW lots, NEW bar
    PROVE  IsNewPlace(NoPlace) /\ IsNewPlace(Opened(buys, lots, bar))
<1> DEFINE no == FALSE
           l == "LONG"
           u == Unknown
           n == [side |-> l, quantity |-> 0, cost |-> 0, lots |-> 1, atr |-> u, path |-> <<>>,
                 pendingExit |-> no, beforeRails |-> 0]
           way == IF buys THEN "LONG" ELSE "SHORT"
           price == lots * (IF buys THEN bar.high ELSE bar.low)
           range == AtrOf(warmup)
           h == [n EXCEPT !.side = way, !.quantity = lots, !.cost = price, !.lots = lots,
                          !.atr = range]
<1>1. NoPlace = n /\ Opened(buys, lots, bar) = h
    BY Zenon DEF NoPlace, Opened
<1>2. no \in BOOLEAN /\ no = FALSE
    OBVIOUS
<1> HIDE DEF no, l, u, way, price, range
<1>3. /\ DOMAIN n = {"side", "quantity", "cost", "lots", "atr", "path", "pendingExit", "beforeRails"}
      /\ n.path = <<>> /\ n.beforeRails = 0 /\ n.pendingExit = no
    OBVIOUS
<1>4. /\ DOMAIN h = {"side", "quantity", "cost", "lots", "atr", "path", "pendingExit", "beforeRails"}
      /\ h.path = <<>> /\ h.beforeRails = 0 /\ h.pendingExit = no
    OBVIOUS
<1>5. <<>> \in Seq(RailBars)
    OBVIOUS
<1> HIDE DEF n, h
<1> QED BY <1>1, <1>2, <1>3, <1>4, <1>5 DEF IsNewPlace, IsPlace

LEMMA FillIs ==
    ASSUME NEW p, IsPlace(p), NEW buys, NEW lots, NEW bar
    PROVE  IsPlace(OnRailFill(p, buys, lots, bar))
<1>1. IsPlace(Added(p, lots, bar))
    <2> DEFINE more == p.quantity + lots
               scaled == p.lots * (p.quantity + lots)
               price == p.cost * p.quantity + lots * p.lots * (IF p.side = "LONG" THEN bar.high ELSE bar.low)
               h == [p EXCEPT !.quantity = more, !.lots = scaled, !.cost = price]
    <2>1. Added(p, lots, bar) = h
        BY DEF Added
    <2> HIDE DEF more, scaled, price
    <2>2. /\ DOMAIN h = DOMAIN p /\ h.path = p.path /\ h.beforeRails = p.beforeRails
          /\ h.pendingExit = p.pendingExit
        BY DEF IsPlace
    <2> HIDE DEF h
    <2> QED BY <2>1, <2>2 DEF IsPlace
<1>2. IsPlace(Reduced(p, lots))
    <2> DEFINE no == FALSE
               less == p.quantity - lots
               h == [p EXCEPT !.quantity = less, !.pendingExit = no]
    <2>1. Reduced(p, lots) = NoPlace \/ Reduced(p, lots) = h
        BY DEF Reduced
    <2>2. no \in BOOLEAN
        OBVIOUS
    <2> HIDE DEF no, less
    <2>3. DOMAIN h = DOMAIN p /\ h.path = p.path /\ h.beforeRails = p.beforeRails /\ h.pendingExit = no
        BY DEF IsPlace
    <2> HIDE DEF h
    <2> QED BY <2>1, <2>2, <2>3, OpenedIs DEF IsPlace, IsNewPlace
<1>3. IsPlace(Opened(buys, lots, bar))
    BY OpenedIs DEF IsNewPlace
<1> QED BY <1>1, <1>2, <1>3, Zenon DEF OnRailFill

(* The fills of a bar, one order after the other: what they make of the    *)
(* position, and the orders that are left.                                 *)
IsSequence(s) == \E S : s \in Seq(S)

IsAfter(x) == IsPlace(x.place) /\ IsSequence(x.left)

LEMMA LongerIs ==
    ASSUME NEW s, IsSequence(s), NEW e
    PROVE  IsSequence(Append(s, e)) /\ IsSequence(s \o <<e>>) /\ Len(s) \in Nat
<1>1. PICK S : s \in Seq(S)
    BY DEF IsSequence
<1> DEFINE W == S \union {e}
<1>2. s \in Seq(W) /\ e \in W
    <2>1. s \in [1..Len(s) -> S] /\ Len(s) \in Nat
        BY <1>1, LenProperties
    <2>2. s \in [1..Len(s) -> W]
        BY <2>1
    <2> HIDE DEF W
    <2> QED BY <2>1, <2>2, SeqDef DEF W
<1> HIDE DEF W
<1>3. Append(s, e) \in Seq(W) /\ s \o <<e>> \in Seq(W) /\ Len(s) \in Nat
    BY <1>2, AppendProperties, ConcatProperties, LenProperties
<1> QED BY <1>3 DEF IsSequence

LEMMA OrderIs ==
    ASSUME NEW x, IsAfter(x), NEW order, NEW bar, NEW printed
    PROVE  IsAfter(AfterOrder(x, order, bar, printed))
<1> DEFINE p == OnRailFill(x.place, order.buys, Filled(order, printed), bar)
           e == [order EXCEPT !.lots = @ - printed]
           rest == IF order.lots > printed THEN Append(x.left, e) ELSE x.left
<1>1. AfterOrder(x, order, bar, printed) = [place |-> p, left |-> rest]
    BY DEF AfterOrder
<1>2. IsPlace(p)
    BY FillIs DEF IsAfter
<1>3. IsSequence(Append(x.left, e))
    <2> HIDE DEF e
    <2> QED BY LongerIs DEF IsAfter
<1>4. IsSequence(rest)
    BY <1>3, Zenon DEF IsAfter
<1> HIDE DEF p, rest
<1> QED BY <1>1, <1>2, <1>4 DEF IsAfter

AreFills(f, n, bar, printed) ==
    f = [k \in 0..n |-> IF k = 0 THEN [place |-> place, left |-> <<>>]
                        ELSE AfterOrder(f[k - 1], resting[k], bar, printed)]

LEMMA OneMoreFill ==
    ASSUME NEW n \in Nat, NEW bar, NEW printed, NEW g, AreFills(g, n, bar, printed)
    PROVE  \E f : AreFills(f, n + 1, bar, printed)
<1> DEFINE base == [place |-> place, left |-> <<>>]
           made(x, k) == AfterOrder(x, resting[k], bar, printed)
           f == [k \in 0..(n + 1) |-> IF k = n + 1 THEN made(g[n], n + 1) ELSE g[k]]
<1>1. ASSUME NEW k \in 0..n PROVE f[k] = g[k]
    BY <1>1
<1>2. f[n + 1] = made(g[n], n + 1)
    OBVIOUS
<1>3. ASSUME NEW k \in 0..n
      PROVE  g[k] = IF k = 0 THEN base ELSE made(g[k - 1], k)
    BY <1>3 DEF AreFills
<1> HIDE DEF made, base
<1>4. ASSUME NEW k \in 0..(n + 1)
      PROVE  f[k] = IF k = 0 THEN base ELSE made(f[k - 1], k)
    <2>1. CASE k = 0
        BY <1>1, <1>3, <2>1
    <2>2. CASE k \in 1..n
        <3>1. k # 0 /\ k \in 0..n /\ k - 1 \in 0..n
            BY <2>2
        <3>2. f[k] = g[k] /\ f[k - 1] = g[k - 1]
            BY <1>1, <3>1
        <3>3. g[k] = made(g[k - 1], k)
            BY <1>3, <3>1
        <3> HIDE DEF f
        <3> QED BY <3>1, <3>2, <3>3, Zenon
    <2>3. CASE k = n + 1
        <3>1. k # 0 /\ k - 1 = n /\ n \in 0..n
            BY <2>3
        <3>2. f[k - 1] = g[n]
            BY <1>1, <3>1
        <3>3. f[k] = made(g[n], k)
            BY <1>2, <2>3
        <3> HIDE DEF f
        <3> QED BY <3>1, <3>2, <3>3, Zenon
    <2> QED BY <2>1, <2>2, <2>3
<1>5. f = [k \in 0..(n + 1) |-> f[k]]
    OBVIOUS
<1> HIDE DEF f
<1>6. f = [k \in 0..(n + 1) |-> IF k = 0 THEN base ELSE made(f[k - 1], k)]
    BY <1>4, <1>5, Zenon
<1> QED BY <1>6, Zenon DEF AreFills, made, base

LEMMA FillsExist ==
    ASSUME NEW n \in Nat, NEW bar, NEW printed
    PROVE  \E f : AreFills(f, n, bar, printed)
<1> DEFINE I == {k \in 0..n : ~\E f : AreFills(f, k, bar, printed)}
<1>1. SUFFICES ASSUME I # {} PROVE FALSE
    BY <1>1
<1>2. PICK i \in I : \A j \in I : i <= j
    <2>1. I \in SUBSET (0..n)
        OBVIOUS
    <2> HIDE DEF I
    <2> QED BY <1>1, <2>1, LeastOf
<1>3. i \in 0..n /\ ~\E f : AreFills(f, i, bar, printed)
    OBVIOUS
<1>4. CASE i = 0
    <2> DEFINE base == [place |-> place, left |-> <<>>]
               f == [k \in 0..0 |-> base]
    <2>1. \A k \in 0..0 : k = 0
        OBVIOUS
    <2>2. f = [k \in 0..0 |-> IF k = 0 THEN base ELSE AfterOrder(f[k - 1], resting[k], bar, printed)]
        BY <2>1, Zenon
    <2>3. AreFills(f, 0, bar, printed)
        BY <2>2, Zenon DEF AreFills
    <2> QED BY <1>3, <1>4, <2>3
<1>5. CASE i # 0
    <2>1. i - 1 \in Nat /\ i - 1 \in 0..n /\ ~(i <= i - 1) /\ (i - 1) + 1 = i
        BY <1>3, <1>5
    <2>2. i - 1 \notin I
        BY <1>2, <2>1
    <2>3. PICK g : AreFills(g, i - 1, bar, printed)
        BY <2>1, <2>2
    <2>4. \E f : AreFills(f, (i - 1) + 1, bar, printed)
        BY <2>1, <2>3, OneMoreFill
    <2> QED BY <1>3, <2>1, <2>4
<1> QED BY <1>4, <1>5

LEMMA FillsType ==
    ASSUME IsPlace(place), NEW n \in Nat, NEW bar, NEW printed, NEW f, AreFills(f, n, bar, printed)
    PROVE  IsAfter(f[n])
<1> DEFINE I == {k \in 0..n : ~IsAfter(f[k])}
<1>1. SUFFICES ASSUME I # {} PROVE FALSE
    <2>1. n \in 0..n
        OBVIOUS
    <2> QED BY <1>1, <2>1
<1>2. PICK i \in I : \A j \in I : i <= j
    <2>1. I \in SUBSET (0..n)
        OBVIOUS
    <2> HIDE DEF I
    <2> QED BY <1>1, <2>1, LeastOf
<1>3. i \in 0..n /\ ~IsAfter(f[i])
    OBVIOUS
<1>4. f[i] = IF i = 0 THEN [place |-> place, left |-> <<>>]
             ELSE AfterOrder(f[i - 1], resting[i], bar, printed)
    BY <1>3 DEF AreFills
<1>5. CASE i = 0
    <2>1. <<>> \in Seq({})
        OBVIOUS
    <2>2. f[i].place = place /\ f[i].left = <<>>
        BY <1>4, <1>5
    <2> QED BY <1>3, <2>1, <2>2 DEF IsAfter, IsSequence
<1>6. CASE i # 0
    <2>1. i - 1 \in 0..n /\ ~(i <= i - 1)
        BY <1>3, <1>6
    <2>2. IsAfter(f[i - 1])
        BY <1>2, <2>1
    <2>3. f[i] = AfterOrder(f[i - 1], resting[i], bar, printed)
        BY <1>4, <1>6, Zenon
    <2> QED BY <1>3, <2>2, <2>3, OrderIs, Zenon
<1> QED BY <1>5, <1>6

LEMMA AfterFillsIs ==
    ASSUME IsPlace(place), IsSequence(resting), NEW bar, NEW printed
    PROVE  /\ IsAfter(AfterFills(bar, printed))
           /\ printed = 0 \/ resting = <<>> => AfterFills(bar, printed).place = place
<1> DEFINE f == CHOOSE f : AreFills(f, Len(resting), bar, printed)
           same == [place |-> place, left |-> resting]
<1>1. Len(resting) \in Nat
    BY LongerIs
<1>2. AreFills(f, Len(resting), bar, printed)
    BY <1>1, FillsExist
<1>3. AfterFills(bar, printed) = IF printed = 0 THEN same ELSE f[Len(resting)]
    BY DEF AfterFills, AreFills
<1> HIDE DEF f
<1>4. IsAfter(f[Len(resting)])
    BY <1>1, <1>2, FillsType
<1>5. resting = <<>> => f[Len(resting)].place = place
    <2>1. ASSUME resting = <<>> PROVE Len(resting) = 0
        BY <2>1
    <2>2. ASSUME Len(resting) = 0 PROVE f[Len(resting)] = [place |-> place, left |-> <<>>]
        BY <1>2, <2>2 DEF AreFills
    <2> QED BY <2>1, <2>2
<1>6. IsAfter(same) /\ same.place = place
    BY DEF IsAfter
<1> HIDE DEF same
<1> QED BY <1>3, <1>4, <1>5, <1>6, Zenon

(* A bar that is shown is the newest of the path.                          *)
LEMMA KeptIs ==
    ASSUME NEW path \in Seq(RailBars), NEW bar \in RailBars
    PROVE  LET q == KeptPath(Append(path, bar)) IN
           /\ q \in Seq(RailBars) /\ Len(q) \in Nat /\ Len(q) > 0 /\ q[Len(q)] = bar
           /\ Len(path) < MaxHoldingBars =>
                  Len(q) = Len(path) + 1 /\ \A k \in 1..Len(path) : q[k] = path[k]
<1> DEFINE m == Append(path, bar)
<1>1. /\ m \in Seq(RailBars) /\ Len(m) = Len(path) + 1 /\ m[Len(path) + 1] = bar
      /\ Len(path) \in Nat /\ \A k \in 1..Len(path) : m[k] = path[k]
    BY AppendProperties, LenProperties
<1>2. MaxHoldingBars \in Nat /\ MaxHoldingBars > 0
    BY RailsAssumption
<1> HIDE DEF m
<1>3. CASE Len(m) > MaxHoldingBars
    <2>1. /\ Tail(m) \in Seq(RailBars) /\ Len(Tail(m)) = Len(m) - 1
          /\ \A k \in 1..Len(Tail(m)) : Tail(m)[k] = m[k + 1]
        BY <1>1, <1>2, <1>3, HeadTailProperties
    <2>2. KeptPath(m) = Tail(m)
        BY <1>3, Zenon DEF KeptPath
    <2>3. Len(Tail(m)) \in Nat /\ Len(Tail(m)) > 0 /\ ~(Len(path) < MaxHoldingBars)
        BY <1>1, <1>2, <1>3, <2>1
    <2>4. Tail(m)[Len(Tail(m))] = bar
        <3>1. Len(Tail(m)) \in 1..Len(Tail(m)) /\ Len(Tail(m)) + 1 = Len(path) + 1
            BY <1>1, <2>1, <2>3
        <3> QED BY <1>1, <2>1, <3>1
    <2> QED BY <2>1, <2>2, <2>3, <2>4 DEF m
<1>4. CASE ~(Len(m) > MaxHoldingBars)
    <2>1. KeptPath(m) = m
        BY <1>4, Zenon DEF KeptPath
    <2>2. Len(m) \in Nat /\ Len(m) > 0 /\ m[Len(m)] = bar
        BY <1>1
    <2> QED BY <1>1, <2>1, <2>2 DEF m
<1> QED BY <1>3, <1>4

LEMMA ShownIs ==
    ASSUME NEW p, IsPlace(p), NEW bar \in RailBars, NEW bars
    PROVE  LET q == Shown(p, bar, bars) IN
           /\ IsPlace(q) /\ q.quantity = p.quantity /\ q.pendingExit = p.pendingExit
           /\ q.side = p.side /\ q.cost = p.cost /\ q.lots = p.lots
           /\ p.quantity # 0 => q.path = KeptPath(Append(p.path, bar))
           /\ p.quantity # 0 /\ p.atr # Unknown => q.atr = p.atr /\ q.beforeRails = p.beforeRails
<1> DEFINE later == IF p.atr = Unknown THEN p.beforeRails + 1 ELSE p.beforeRails
           range == IF p.atr = Unknown THEN AtrOf(bars) ELSE p.atr
           way == KeptPath(Append(p.path, bar))
           h == [p EXCEPT !.beforeRails = later, !.atr = range, !.path = way]
           q == Shown(p, bar, bars)
<1>1. q = IF p.quantity = 0 THEN p ELSE h
    BY DEF Shown
<1>2. later \in Nat /\ way \in Seq(RailBars)
    <2>1. later \in Nat
        BY DEF IsPlace
    <2>2. p.path \in Seq(RailBars)
        BY DEF IsPlace
    <2>3. way \in Seq(RailBars)
        BY <2>2, KeptIs
    <2> QED BY <2>1, <2>3
<1>3. p.atr # Unknown => later = p.beforeRails /\ range = p.atr
    BY Zenon
<1> HIDE DEF later, range, way, q
<1>4. /\ DOMAIN h = DOMAIN p /\ h.quantity = p.quantity /\ h.pendingExit = p.pendingExit
      /\ h.side = p.side /\ h.cost = p.cost /\ h.lots = p.lots
      /\ h.path = way /\ h.beforeRails = later /\ h.atr = range
    BY DEF IsPlace
<1> HIDE DEF h
<1>5. CASE p.quantity = 0
    <2>1. q = p
        BY <1>1, <1>5, Zenon
    <2> QED BY <1>5, <2>1 DEF q
<1>6. CASE p.quantity # 0
    <2>1. q = h
        BY <1>1, <1>6, Zenon
    <2>2. IsPlace(q)
        BY <1>2, <1>4, <2>1 DEF IsPlace
    <2> QED BY <1>3, <1>4, <2>1, <2>2 DEF q, way
<1> QED BY <1>5, <1>6

(* What is judged ends with the newest bar, and is the whole path when the *)
(* rails were there from the first.                                        *)
LEMMA JudgedIs ==
    ASSUME NEW q, IsPlace(q), Len(q.path) > 0
    PROVE  LET j == Judged(q) IN
           /\ Len(j) \in Nat /\ Len(j) > 0 /\ j[Len(j)] = q.path[Len(q.path)]
           /\ q.beforeRails = 0 => Len(j) = Len(q.path) /\ \A k \in 1..Len(q.path) : j[k] = q.path[k]
<1> DEFINE n == Len(q.path)
           c == q.beforeRails
           way == q.path
<1>1. n \in Nat /\ c \in Nat /\ n > 0 /\ way \in Seq(RailBars)
    BY LenProperties DEF IsPlace
<1>2. Judged(q) = IF c < n THEN SubSeq(way, c + 1, n) ELSE <<way[n]>>
    BY Zenon DEF Judged
<1>3. n = Len(way)
    OBVIOUS
<1>4. CASE c < n
    <2> DEFINE j == SubSeq(way, c + 1, n)
    <2>1. Len(j) = n - c /\ \A k \in 1..(n - c) : j[k] = way[c + k]
        <3> HIDE DEF n, c, way
        <3>1. c + 1 \in 1..(Len(way) + 1) /\ n \in c..Len(way) /\ n - (c + 1) + 1 = n - c
            BY <1>1, <1>3, <1>4
        <3>2. Len(SubSeq(way, c + 1, n)) = n - (c + 1) + 1
            BY <1>1, <1>3, <1>4, <3>1, SubSeqProperties
        <3>3. \A k \in 1..(n - c) : SubSeq(way, c + 1, n)[k] = way[c + 1 + k - 1]
            BY <1>1, <1>3, <1>4, <3>1, SubSeqProperties
        <3>4. \A k \in 1..(n - c) : c + 1 + k - 1 = c + k
            BY <1>1
        <3> QED BY <3>1, <3>2, <3>3, <3>4
    <2>2. Judged(q) = j
        BY <1>2, <1>4, Zenon
    <2> HIDE DEF n, c, way, j
    <2>3. Len(j) \in Nat /\ Len(j) > 0 /\ j[Len(j)] = way[n]
        <3>1. n - c \in 1..(n - c) /\ c + (n - c) = n
            BY <1>1, <1>4
        <3> QED BY <1>1, <1>4, <2>1, <3>1
    <2>4. c = 0 => Len(j) = n /\ \A k \in 1..n : j[k] = way[k]
        BY <1>1, <2>1
    <2> QED BY <2>2, <2>3, <2>4 DEF n, c, way
<1>5. CASE ~(c < n)
    <2>1. Judged(q) = <<way[n]>> /\ c # 0
        BY <1>1, <1>2, <1>5
    <2> HIDE DEF n, c, way
    <2>2. Len(<<way[n]>>) = 1 /\ <<way[n]>>[1] = way[n]
        OBVIOUS
    <2> QED BY <2>1, <2>2 DEF n, c, way
<1> QED BY <1>4, <1>5
LEMMA WalkType ==
    ASSUME NEW p, NEW path, Len(path) \in Nat
    PROVE  IsFollower(WalkPath(p, path))
<1> DEFINE n == Len(path)
<1>1. PICK f : IsWalk(f, n, p, path) /\ WalkPath(p, path) = f[n]
    BY WalkIs
<1>2. n \in Nat /\ n \in 0..n
    OBVIOUS
<1> HIDE DEF n
<1> QED BY <1>1, <1>2, WalkedType

LEMMA JoinedIs ==
    ASSUME NEW s, IsSequence(s), NEW t, NEW e, t = <<>> \/ t = <<e>>
    PROVE  IsSequence(s \o t)
<1>1. PICK S : s \in Seq(S)
    BY DEF IsSequence
<1>2. s \o <<>> \in Seq(S)
    BY <1>1, ConcatProperties
<1> QED BY <1>2, LongerIs DEF IsSequence

-----------------------------------------------------------------------------
(* One who watched the position from its first bar has walked its path,    *)
(* until a rail is touched; the path is not cut before.                    *)
NewestCounts ==
    place.quantity > 0 /\ place.path # <<>> /\ place.atr # Unknown =>
        LET newest == place.path[Len(place.path)] IN
        HitsStop(place, newest) \/ HitsTarget(place, newest) => place.pendingExit

HasWatched(f, p) ==
    /\ p.quantity > 0 /\ p.atr # Unknown /\ p.beforeRails = 0
    /\ p.pendingExit = f.touched
    /\ ~f.touched => /\ Len(p.path) = f.bars /\ f.bars < MaxHoldingBars
                     /\ f = WalkPath(p, p.path)

RailsInv ==
    /\ IsPlace(place) /\ IsFollower(followed) /\ IsSequence(resting)
    /\ followed.exact => HasWatched(followed, place)
    /\ NewestCounts

LEMMA NobodyWatches == IsFollower(NoFollower) /\ ~NoFollower.exact
<1> DEFINE no == FALSE
           u == Unknown
           n == [exact |-> no, lock |-> u, locked |-> no, best |-> 0, bars |-> 0, touched |-> no]
<1>1. NoFollower = n
    BY Zenon DEF NoFollower
<1>2. no \in BOOLEAN /\ no = FALSE
    OBVIOUS
<1> HIDE DEF no, u
<1>3. /\ DOMAIN n = {"exact", "lock", "locked", "best", "bars", "touched"}
      /\ n.exact = no /\ n.touched = no /\ n.bars = 0
    OBVIOUS
<1> HIDE DEF n
<1> QED BY <1>1, <1>2, <1>3 DEF IsFollower

LEMMA RailsStart == RailsInit => RailsInv
<1> SUFFICES ASSUME RailsInit PROVE RailsInv
    OBVIOUS
<1>1. place = NoPlace /\ resting = <<>> /\ followed = NoFollower
    BY DEF RailsInit
<1>2. IsPlace(place) /\ place.path = <<>>
    BY <1>1, OpenedIs DEF IsNewPlace
<1>3. IsSequence(resting)
    <2>1. <<>> \in Seq({})
        OBVIOUS
    <2> QED BY <1>1, <2>1 DEF IsSequence
<1>4. IsFollower(followed) /\ ~followed.exact
    BY <1>1, NobodyWatches
<1> QED BY <1>2, <1>3, <1>4 DEF RailsInv, NewestCounts

(* Who watches a position after the fills, and before the bar is shown.    *)
LEMMA StartIs ==
    ASSUME RailsInv, NEW p, IsPlace(p), NEW bar, NEW printed \in Nat,
           printed = 0 \/ resting = <<>> => p = place
    PROVE  \E start :
               /\ IsFollower(start) /\ (start.exact => HasWatched(start, p))
               /\ Followed(p, bar, printed) = IF start.exact THEN StepPolicy(p, start, bar) ELSE start
<1> DEFINE fresh == p.quantity > 0 /\ p = Opened(p.side = "LONG", p.quantity, bar) /\ p.atr # Unknown
           start == IF resting # <<>> /\ printed > 0
                    THEN IF fresh THEN Watching(p) ELSE NoFollower
                    ELSE followed
<1>1. Followed(p, bar, printed) = IF start.exact THEN StepPolicy(p, start, bar) ELSE start
    BY Zenon DEF Followed
<1>2. CASE ~(resting # <<>> /\ printed > 0)
    <2>1. start = followed /\ p = place
        BY <1>2
    <2> HIDE DEF start
    <2>2. IsFollower(start) /\ (start.exact => HasWatched(start, p))
        BY <2>1 DEF RailsInv
    <2> QED BY <1>1, <2>2
<1>3. CASE (resting # <<>> /\ printed > 0) /\ fresh
    <2>1. start = Watching(p)
        BY <1>3
    <2>2. IsNewPlace(p)
        BY <1>3, OpenedIs
    <2>3. /\ p.quantity > 0 /\ p.atr # Unknown /\ p.beforeRails = 0 /\ p.pendingExit = FALSE
          /\ p.path = <<>> /\ Len(p.path) = 0
        BY <1>3, <2>2 DEF IsNewPlace
    <2> HIDE DEF start, fresh
    <2>4. WalkPath(p, p.path) = Watching(p)
        BY <2>3, WalkNothing
    <2>5. 0 < MaxHoldingBars
        BY RailsAssumption
    <2>6. IsFollower(start) /\ start.touched = FALSE /\ start.bars = 0
        BY <2>1, WatchingIs DEF IsFollower
    <2>7. HasWatched(start, p)
        BY <2>1, <2>3, <2>4, <2>5, <2>6 DEF HasWatched
    <2> QED BY <1>1, <2>6, <2>7
<1>4. CASE (resting # <<>> /\ printed > 0) /\ ~fresh
    <2>1. start = NoFollower
        BY <1>4
    <2> HIDE DEF start
    <2>2. IsFollower(start) /\ ~start.exact
        BY <2>1, NobodyWatches
    <2> QED BY <1>1, <2>2
<1> QED BY <1>2, <1>3, <1>4

(* The bar is shown to a position that somebody has watched.               *)
LEMMA WatchesOn ==
    ASSUME NEW p, IsPlace(p), NEW start, IsFollower(start), HasWatched(start, p),
           NEW bar \in RailBars, NEW q, IsPlace(q), SameRails(p, q),
           q.quantity = p.quantity, q.pendingExit = p.pendingExit, q.beforeRails = p.beforeRails,
           q.path = KeptPath(Append(p.path, bar)),
           NEW r, SameRails(q, r), r.path = q.path, r.quantity = q.quantity,
           r.beforeRails = q.beforeRails,
           Asks(q) => r.pendingExit = TRUE, ~Asks(q) => r.pendingExit = q.pendingExit
    PROVE  HasWatched(StepPolicy(p, start, bar), r)
<1> DEFINE h == StepPolicy(p, start, bar)
           way == q.path
<1>1. /\ IsFollower(h) /\ (start.touched => h = start)
      /\ ~start.touched => h.bars = start.bars + 1 /\ (~h.touched => h.bars < MaxHoldingBars)
    BY PolicyIs
<1>2. /\ p.path \in Seq(RailBars) /\ Len(p.path) \in Nat
      /\ start.touched \in BOOLEAN /\ start.bars \in Nat /\ p.pendingExit \in BOOLEAN
    BY LenProperties DEF IsPlace, IsFollower
<1>3. /\ Len(way) \in Nat /\ Len(way) > 0 /\ way[Len(way)] = bar /\ way # <<>>
      /\ Len(p.path) < MaxHoldingBars =>
             Len(way) = Len(p.path) + 1 /\ \A k \in 1..Len(p.path) : way[k] = p.path[k]
    <2> DEFINE x == KeptPath(Append(p.path, bar))
    <2>1. /\ x \in Seq(RailBars) /\ Len(x) \in Nat /\ Len(x) > 0 /\ x[Len(x)] = bar
          /\ Len(p.path) < MaxHoldingBars =>
                 Len(x) = Len(p.path) + 1 /\ \A k \in 1..Len(p.path) : x[k] = p.path[k]
        BY <1>2, KeptIs
    <2>2. way = x
        OBVIOUS
    <2> HIDE DEF x, way
    <2>3. way # <<>>
        BY <2>1, <2>2
    <2> QED BY <2>1, <2>2, <2>3
<1>4. r.quantity > 0 /\ r.atr # Unknown /\ r.beforeRails = 0 /\ q.quantity > 0 /\ q.atr # Unknown
    BY DEF HasWatched, SameRails
<1> HIDE DEF h
<1>5. CASE start.touched
    <2>1. q.pendingExit = TRUE /\ h = start
        BY <1>1, <1>2, <1>5 DEF HasWatched
    <2>2. r.pendingExit = TRUE
        BY <2>1 DEF Asks
    <2> QED BY <1>2, <1>4, <1>5, <2>1, <2>2 DEF HasWatched, h
<1>6. CASE ~start.touched
    <2>1. /\ Len(p.path) = start.bars /\ start.bars < MaxHoldingBars /\ start = WalkPath(p, p.path)
          /\ q.pendingExit = FALSE /\ q.beforeRails = 0
        BY <1>2, <1>6 DEF HasWatched
    <2>2. OneMore(p.path, way)
        <3> HIDE DEF way
        <3> QED BY <1>2, <1>3, <2>1 DEF OneMore
    <2>3. SameRails(p, r)
        BY DEF SameRails
    <2>4. StepPolicy(q, start, bar) = h /\ StepPolicy(r, start, bar) = h
        BY <2>3, SamePolicy DEF h
    <2>5. WalkPath(r, way) = h
        <3>1. WalkPath(r, way) = StepPolicy(r, WalkPath(p, p.path), way[Len(way)])
            BY <2>2, <2>3, WalkOneMore
        <3> QED BY <1>3, <2>1, <2>4, <3>1
    <2>6. WalkPath(q, Judged(q)) = h
        <3> DEFINE j == Judged(q)
        <3>1. Len(j) = Len(way) /\ \A k \in 1..Len(way) : j[k] = way[k]
            BY <1>3, <2>1, JudgedIs
        <3> HIDE DEF j, way
        <3>2. OneMore(p.path, j)
            BY <2>2, <3>1 DEF OneMore
        <3>3. j[Len(j)] = bar
            BY <1>3, <3>1
        <3>4. WalkPath(q, j) = StepPolicy(q, WalkPath(p, p.path), j[Len(j)])
            BY <3>2, WalkOneMore
        <3> QED BY <2>1, <2>4, <3>3, <3>4 DEF j
    <2>7. Asks(q) <=> h.touched
        <3>1. q.path # <<>> /\ ~q.pendingExit
            BY <1>3, <2>1
        <3>2. Asks(q) <=> WalkPath(q, Judged(q)).touched
            BY <1>4, <3>1, Zenon DEF Asks
        <3> QED BY <2>6, <3>2, Zenon
    <2>8. r.pendingExit = h.touched
        <3>1. h.touched \in BOOLEAN
            BY <1>1 DEF IsFollower
        <3>2. CASE h.touched
            <4>1. h.touched = TRUE /\ r.pendingExit = TRUE
                BY <2>7, <3>1, <3>2
            <4> QED BY <4>1, Zenon
        <3>3. CASE ~h.touched
            <4>1. h.touched = FALSE /\ r.pendingExit = FALSE
                BY <2>1, <2>7, <3>1, <3>3
            <4> QED BY <4>1, Zenon
        <3> QED BY <3>2, <3>3
    <2>9. ~h.touched => Len(r.path) = h.bars /\ h.bars < MaxHoldingBars /\ h = WalkPath(r, r.path)
        <3>1. Len(r.path) = Len(way) /\ Len(way) = Len(p.path) + 1
            BY <2>2 DEF OneMore
        <3>2. h.bars = start.bars + 1 /\ (~h.touched => h.bars < MaxHoldingBars)
            BY <1>1, <1>6
        <3> QED BY <2>1, <2>5, <3>1, <3>2
    <2> QED BY <1>4, <2>8, <2>9 DEF HasWatched, h
<1> QED BY <1>2, <1>5, <1>6

LEMMA NewestIsJudged ==
    ASSUME NEW q, IsPlace(q), Len(q.path) \in Nat, Len(q.path) > 0,
           NEW r, SameRails(q, r), r.path = q.path, r.quantity = q.quantity,
           Asks(q) => r.pendingExit = TRUE, ~Asks(q) => r.pendingExit = q.pendingExit,
           r.quantity > 0, r.atr # Unknown,
           LET newest == r.path[Len(r.path)] IN HitsStop(r, newest) \/ HitsTarget(r, newest)
    PROVE  r.pendingExit
<1> DEFINE j == Judged(q)
           newest == q.path[Len(q.path)]
<1>1. Len(j) \in Nat /\ Len(j) > 0 /\ j[Len(j)] = newest
    BY JudgedIs
<1>2. HitsStop(q, newest) \/ HitsTarget(q, newest)
    <2>1. HitsStop(q, newest) = HitsStop(r, newest) /\ HitsTarget(q, newest) = HitsTarget(r, newest)
        BY SamePolicy
    <2> QED BY <2>1
<1>3. q.quantity > 0 /\ q.atr # Unknown /\ q.path # <<>> /\ q.pendingExit \in BOOLEAN
    BY DEF SameRails, IsPlace
<1> HIDE DEF j, newest
<1>4. WalkPath(q, j).touched
    BY <1>1, <1>2, LastBarCounts
<1>5. q.pendingExit \/ Asks(q)
    BY <1>3, <1>4 DEF Asks, j
<1> QED BY <1>3, <1>5
(* A bar: the fills on it, the bar itself, and the exit that is asked for. *)
LEMMA BarKeeps ==
    ASSUME RailsInv, NEW bar \in RailBars, NEW printed \in Nat, NEW reaches, NEW enters,
           TakeBar(bar, printed, reaches, enters)
    PROVE  RailsInv'
<1> DEFINE bars == IF Len(warmup) > AtrPeriod THEN Append(Tail(warmup), bar) ELSE Append(warmup, bar)
           after == AfterFills(bar, printed)
           p == after.place
           q == Shown(p, bar, bars)
           sells == [buys |-> q.side = "SHORT", lots |-> q.quantity]
           buys == [buys |-> TRUE, lots |-> 1]
           exit == IF reaches THEN <<sells>> ELSE <<>>
           entry == IF enters THEN <<buys>> ELSE <<>>
           r == place'
<1>1. /\ IsAfter(after) /\ (printed = 0 \/ resting = <<>> => p = place)
    BY AfterFillsIs DEF RailsInv
<1>2. /\ r = (IF Asks(q) THEN [q EXCEPT !.pendingExit = TRUE] ELSE q)
      /\ resting' = after.left \o exit \o entry
      /\ followed' = Followed(p, bar, printed)
    BY Zenon DEF TakeBar
<1>3. IsPlace(p) /\ IsSequence(after.left)
    BY <1>1 DEF IsAfter
<1> HIDE DEF bars, after
<1>4. IsSequence(resting')
    <2>1. (exit = <<>> \/ exit = <<sells>>) /\ (entry = <<>> \/ entry = <<buys>>)
        OBVIOUS
    <2> HIDE DEF exit, entry, sells, buys
    <2>2. IsSequence(after.left \o exit)
        BY <1>3, <2>1, JoinedIs
    <2>3. IsSequence((after.left \o exit) \o entry)
        BY <2>1, <2>2, JoinedIs
    <2> QED BY <1>2, <2>3
<1> HIDE DEF exit, entry, sells, buys, p
<1>5. /\ IsPlace(q) /\ q.quantity = p.quantity /\ q.pendingExit = p.pendingExit
      /\ q.side = p.side /\ q.cost = p.cost /\ q.lots = p.lots
      /\ p.quantity # 0 => q.path = KeptPath(Append(p.path, bar))
      /\ p.quantity # 0 /\ p.atr # Unknown => q.atr = p.atr /\ q.beforeRails = p.beforeRails
    BY <1>3, ShownIs
<1> HIDE DEF q
<1>6. /\ IsPlace(r) /\ SameRails(q, r) /\ r.path = q.path /\ r.quantity = q.quantity
      /\ r.beforeRails = q.beforeRails
      /\ Asks(q) => r.pendingExit = TRUE
      /\ ~Asks(q) => r.pendingExit = q.pendingExit
    <2> DEFINE yes == TRUE
               h == [q EXCEPT !.pendingExit = yes]
    <2>1. r = IF Asks(q) THEN h ELSE q
        BY <1>2
    <2>2. yes \in BOOLEAN /\ yes = TRUE
        OBVIOUS
    <2> HIDE DEF yes
    <2>3. /\ DOMAIN h = DOMAIN q /\ h.path = q.path /\ h.quantity = q.quantity
          /\ h.beforeRails = q.beforeRails /\ h.side = q.side /\ h.cost = q.cost
          /\ h.lots = q.lots /\ h.atr = q.atr /\ h.pendingExit = yes
        BY <1>5 DEF IsPlace
    <2> HIDE DEF h, r
    <2>4. CASE Asks(q)
        <3>1. r = h
            BY <2>1, <2>4, Zenon
        <3>2. IsPlace(h) /\ SameRails(q, h)
            BY <1>5, <2>2, <2>3 DEF IsPlace, SameRails
        <3> QED BY <2>2, <2>3, <2>4, <3>1, <3>2, Zenon
    <2>5. CASE ~Asks(q)
        <3>1. r = q
            BY <2>1, <2>5, Zenon
        <3>2. SameRails(q, q)
            BY DEF SameRails
        <3> QED BY <1>5, <2>5, <3>1, <3>2, Zenon
    <2> QED BY <2>4, <2>5
<1> HIDE DEF r
<1>7. PICK start : /\ IsFollower(start) /\ (start.exact => HasWatched(start, p))
                   /\ followed' = IF start.exact THEN StepPolicy(p, start, bar) ELSE start
    BY <1>1, <1>2, <1>3, StartIs
<1>8. IsFollower(followed') /\ followed'.exact = start.exact
    <2>1. IsFollower(StepPolicy(p, start, bar)) /\ StepPolicy(p, start, bar).exact = start.exact
        BY <1>7, PolicyIs
    <2> QED BY <1>7, <2>1, Zenon
<1>9. ASSUME followed'.exact PROVE HasWatched(followed', r)
    <2>1. start.exact /\ HasWatched(start, p) /\ followed' = StepPolicy(p, start, bar)
        BY <1>7, <1>8, <1>9, Zenon
    <2>2. p.quantity # 0 /\ p.atr # Unknown
        BY <2>1 DEF HasWatched
    <2>3. /\ q.path = KeptPath(Append(p.path, bar)) /\ q.beforeRails = p.beforeRails
          /\ SameRails(p, q)
        BY <1>5, <2>2 DEF SameRails
    <2> QED BY <1>3, <1>5, <1>6, <1>7, <2>1, <2>3, WatchesOn
<1>10. ASSUME r.quantity > 0, r.path # <<>>, r.atr # Unknown,
              LET newest == r.path[Len(r.path)] IN HitsStop(r, newest) \/ HitsTarget(r, newest)
       PROVE  r.pendingExit
    <2>1. p.quantity # 0
        BY <1>5, <1>6, <1>10
    <2>2. p.path \in Seq(RailBars)
        BY <1>3 DEF IsPlace
    <2>3. q.path = KeptPath(Append(p.path, bar)) /\ Len(q.path) \in Nat /\ Len(q.path) > 0
        BY <1>5, <2>1, <2>2, KeptIs
    <2> QED BY <1>5, <1>6, <1>10, <2>3, NewestIsJudged
<1>11. NewestCounts'
    BY <1>10 DEF NewestCounts, HitsStop, HitsTarget, Adverse, Favourable, EntryOf, Ranges, r
<1> QED BY <1>4, <1>6, <1>8, <1>9, <1>11 DEF RailsInv, HasWatched, r

LEMMA RailsSteps ==
    ASSUME RailsInv, [RailsNext]_railVars
    PROVE  RailsInv'
<1>1. ASSUME Event PROVE RailsInv'
    <2>1. PICK bar \in RailBars, printed \in 0..MaxLots, reaches \in BOOLEAN, enters \in BOOLEAN :
              TakeBar(bar, printed, reaches, enters)
        BY <1>1 DEF Event
    <2>2. printed \in Nat
        BY RailsAssumption
    <2> QED BY <2>1, <2>2, BarKeeps
<1>2. ASSUME EngineStops PROVE RailsInv'
    <2>1. place' = NoPlace /\ resting' = <<>> /\ followed' = NoFollower
        BY <1>2 DEF EngineStops
    <2>2. IsPlace(place') /\ place'.path = <<>>
        BY <2>1, OpenedIs DEF IsNewPlace
    <2>3. IsSequence(resting')
        <3>1. <<>> \in Seq({})
            OBVIOUS
        <3> QED BY <2>1, <3>1 DEF IsSequence
    <2>4. IsFollower(followed') /\ ~followed'.exact
        BY <2>1, NobodyWatches
    <2> QED BY <2>2, <2>3, <2>4 DEF RailsInv, NewestCounts
<1>3. ASSUME UNCHANGED railVars PROVE RailsInv'
    BY <1>3 DEF railVars, RailsInv, HasWatched, NewestCounts
<1> QED BY <1>1, <1>2, <1>3 DEF RailsNext

-----------------------------------------------------------------------------
LEMMA SoundSteps ==
    ASSUME PrintsAreAmple, EngineInv, OrdersInv, RailsInv, [HostNext]_hostVars
    PROVE  EngineInv' /\ OrdersInv' /\ RailsInv'
<1>1. [EngineNext]_engineVars
    BY DEF HostNext, hostVars, deskVars, PlayDesk, PlayClaims, PlayShip, PlayFiles, PlayPosition,
           PlayDatasets
<1>2. [RailsNext]_railVars
    BY DEF HostNext, hostVars, positionVars, PlayDesk, PlayClaims, PlayShip, PlayFiles,
           PlayPosition, PlayDatasets
<1> QED BY <1>1, <1>2, EngineSteps, OrdersSteps, RailsSteps

(* As long as a bar prints enough for any order that may rest, the exit    *)
(* manager's position is the broker's (exit_manager.py, paper_broker.py),  *)
(* it is within its cap although the gate counts filled orders only        *)
(* (pre_trade_gate.py), and at most one exit rests, with its latch set; and*)
(* the exit manager, which walks a cut path from its start at every bar,   *)
(* asks for an exit exactly when one who had watched every bar would, and  *)
(* whenever the newest bar touches the stop or the target                  *)
(* (deterministic_exit.py): after any fills, refusals and kills.           *)
THEOREM PositionsWatched == ASSUME PrintsAreAmple PROVE HostSpec => []PositionsAreWatched
<1>1. HostInit => EngineInv /\ OrdersInv /\ RailsInv
    BY EngineStarts, OrdersStart, RailsStart DEF HostInit
<1>2. EngineInv /\ OrdersInv /\ RailsInv /\ [HostNext]_hostVars => (EngineInv /\ OrdersInv /\ RailsInv)'
    BY SoundSteps
<1>3. EngineInv /\ OrdersInv /\ RailsInv => PositionsAreWatched
    <2>1. ASSUME OrdersInv, RailsInv PROVE PositionsAreSound /\ RailsAreKept
        BY <2>1, OrdersSound DEF RailsInv, HasWatched, NewestCounts, RailsAreKept
    <2> QED BY <2>1 DEF PositionsAreWatched
<1> QED BY <1>1, <1>2, <1>3, PTL DEF HostSpec
=============================================================================
