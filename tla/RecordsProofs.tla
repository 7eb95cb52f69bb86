---------------------------- MODULE RecordsProofs ----------------------------
(***************************************************************************)
(* What the records of the host promise, for any number of processes, of   *)
(* commits, symbols and trials: the seal of the holdout, the history of    *)
(* the universe, the ledger of trials, the registry of models and the      *)
(* verification of a migration.                                            *)
(***************************************************************************)
EXTENDS Integers, Holdout, Universe, Retraining, HourlyMigration, LineLogProofs, FiniteSetTheorems

-----------------------------------------------------------------------------
(* The holdout.                                                            *)

InHand == [step : {"idle", "write", "replace", "record"},
           event : {"freeze", "consume"}, next : Seal]

HoldoutTyped ==
    /\ seal \in Seal /\ sealTmp \in Seal
    /\ caller \in [Callers -> InHand]
    /\ consumptions \in Seq(Commits)
    /\ raced \in BOOLEAN

(* What a caller holds is a step forward from the seal.                    *)
StepForward(next) ==
    /\ next.frozen \in Commits /\ seal.frozen \in {NoCommit, next.frozen}
    /\ seal.consumed = NoCommit /\ next.consumed \in {NoCommit, next.frozen}

(* While calls do not overlap: one caller is inside a call, what it holds  *)
(* and has written is a step forward, and the holdout was opened for the   *)
(* commit of the seal.                                                     *)
OneCall ==
    /\ \A o, p \in Callers : ~InCall(o, "idle") /\ ~InCall(p, "idle") => o = p
    /\ \A o \in Callers :
        /\ InCall(o, "write") \/ InCall(o, "replace") => StepForward(caller[o].next)
        /\ InCall(o, "replace") => sealTmp = caller[o].next
    /\ seal.consumed \in {NoCommit, seal.frozen}
    /\ IF seal.consumed = NoCommit THEN consumptions = <<>>
       ELSE consumptions # <<>> /\ Len(consumptions) = 1

HoldoutInv == HoldoutTyped /\ (~raced => OneCall)

LEMMA SealFacts ==
    /\ Unsealed \in Seal /\ Resting \in InHand /\ Resting.step = "idle"
    /\ Unsealed.frozen = NoCommit /\ Unsealed.consumed = NoCommit
BY DEF Unsealed, Seal, MaybeCommit, Resting, InHand

LEMMA CallStep ==
    ASSUME HoldoutInv, NEW o \in Callers, NEW c \in Commits, Freeze(o, c) \/ Consume(o, c)
    PROVE  HoldoutInv'
<1> USE DEF HoldoutInv
<1>1. PICK event \in {"freeze", "consume"}, next \in Seal :
        /\ Call(o, event, next)
        /\ seal.consumed \in {NoCommit, seal.frozen} => StepForward(next)
    <2>1. CASE Freeze(o, c)
        <3>1. /\ Call(o, "freeze", [seal EXCEPT !.frozen = c]) /\ seal.frozen = NoCommit
            BY <2>1 DEF Freeze, MayFreeze
        <3>2. /\ [seal EXCEPT !.frozen = c] \in Seal /\ [seal EXCEPT !.frozen = c].frozen = c
              /\ [seal EXCEPT !.frozen = c].consumed = seal.consumed
            BY DEF HoldoutTyped, Seal, MaybeCommit
        <3>3. seal.consumed \in {NoCommit, seal.frozen} => StepForward([seal EXCEPT !.frozen = c])
            BY <3>1, <3>2 DEF StepForward
        <3> QED BY <3>1, <3>2, <3>3
    <2>2. CASE Consume(o, c)
        <3>1. /\ Call(o, "consume", [seal EXCEPT !.consumed = c])
              /\ seal.frozen = c /\ seal.consumed = NoCommit
            BY <2>2 DEF Consume, MayConsume
        <3>2. /\ [seal EXCEPT !.consumed = c] \in Seal
              /\ [seal EXCEPT !.consumed = c].frozen = seal.frozen
              /\ [seal EXCEPT !.consumed = c].consumed = c
            BY DEF HoldoutTyped, Seal, MaybeCommit
        <3>3. StepForward([seal EXCEPT !.consumed = c])
            BY <3>1, <3>2 DEF StepForward
        <3> QED BY <3>1, <3>2, <3>3
    <2> QED BY <2>1, <2>2
<1>2. /\ InCall(o, "idle")
      /\ caller' = [caller EXCEPT ![o] = [step |-> "write", event |-> event, next |-> next]]
      /\ raced' = (raced \/ \E p \in Callers : ~InCall(p, "idle"))
      /\ UNCHANGED <<seal, sealTmp, consumptions>>
    BY <1>1 DEF Call
<1>3. HoldoutTyped'
    <2>1. [step |-> "write", event |-> event, next |-> next] \in InHand
        BY DEF InHand
    <2>2. caller' \in [Callers -> InHand]
        BY <1>2, <2>1 DEF HoldoutTyped
    <2>3. raced' \in BOOLEAN
        BY <1>2
    <2> QED BY <1>2, <2>2, <2>3 DEF HoldoutTyped
<1>4. /\ caller'[o].step = "write" /\ caller'[o].next = next
      /\ \A p \in Callers \ {o} : caller'[p] = caller[p]
    BY <1>2 DEF HoldoutTyped
<1>5. ASSUME ~raced' PROVE OneCall'
    <2>1. OneCall /\ \A p \in Callers : InCall(p, "idle")
        BY <1>2, <1>5
    <2>2. \A p \in Callers \ {o} : caller'[p].step = "idle"
        BY <1>4, <2>1 DEF InCall
    <2>3. StepForward(next)'
        BY <1>1, <1>2, <2>1 DEF OneCall, StepForward
    <2> QED BY <1>2, <1>4, <2>1, <2>2, <2>3 DEF OneCall, InCall
<1> QED BY <1>3, <1>5

(* The steps of a call leave every other caller as it is.                  *)
LEMMA InsideStep ==
    ASSUME HoldoutInv, NEW o \in Callers,
           WriteSeal(o) \/ ReplaceSeal(o) \/ RecordCall(o) \/ KillCaller(o)
    PROVE  HoldoutInv'
<1> USE DEF HoldoutInv
<1>1. /\ raced' = raced /\ ~InCall(o, "idle") /\ HoldoutTyped
    BY DEF WriteSeal, ReplaceSeal, RecordCall, KillCaller, InCall
<1>2. ~raced => OneCall /\ \A p \in Callers \ {o} : caller[p].step = "idle"
    BY <1>1 DEF OneCall, InCall
<1>3. caller[o].next \in Seal
    BY DEF HoldoutTyped, InHand
<1>4. CASE WriteSeal(o)
    <2>1. /\ caller[o].step = "write" /\ sealTmp' = caller[o].next
          /\ caller' = [caller EXCEPT ![o].step = "replace"]
          /\ UNCHANGED <<seal, consumptions>>
        BY <1>4 DEF WriteSeal, InCall
    <2>2. /\ caller' \in [Callers -> InHand]
          /\ caller'[o].step = "replace" /\ caller'[o].next = caller[o].next
          /\ \A p \in Callers \ {o} : caller'[p] = caller[p]
        BY <2>1 DEF HoldoutTyped, InHand
    <2>3. ~raced => StepForward(caller[o].next)'
        BY <1>2, <2>1, <2>2 DEF OneCall, InCall, StepForward
    <2>4. ~raced => OneCall'
        BY <1>2, <2>1, <2>2, <2>3 DEF OneCall, InCall
    <2> QED BY <1>1, <1>3, <2>1, <2>2, <2>4 DEF HoldoutTyped
<1>5. CASE RecordCall(o) \/ KillCaller(o)
    <2>1. caller' = [caller EXCEPT ![o] = Resting] /\ UNCHANGED <<seal, sealTmp, consumptions>>
        BY <1>5 DEF RecordCall, KillCaller
    <2>2. /\ caller' \in [Callers -> InHand] /\ caller'[o].step = "idle"
          /\ \A p \in Callers \ {o} : caller'[p] = caller[p]
        BY <2>1, SealFacts DEF HoldoutTyped
    <2>3. ~raced => OneCall'
        BY <1>2, <2>1, <2>2 DEF OneCall, InCall
    <2> QED BY <1>1, <2>1, <2>2, <2>3 DEF HoldoutTyped
<1>6. CASE ReplaceSeal(o) /\ sealTmp = Unsealed
    <2>1. /\ caller' = [caller EXCEPT ![o] = Resting] /\ sealTmp' = Unsealed
          /\ UNCHANGED <<seal, consumptions>>
        BY <1>6 DEF ReplaceSeal
    <2>2. /\ caller' \in [Callers -> InHand] /\ caller'[o].step = "idle"
          /\ \A p \in Callers \ {o} : caller'[p] = caller[p]
        BY <2>1, SealFacts DEF HoldoutTyped
    <2>3. ~raced => OneCall'
        BY <1>2, <2>1, <2>2 DEF OneCall, InCall
    <2> QED BY <1>1, <2>1, <2>2, <2>3, SealFacts DEF HoldoutTyped
<1>7. CASE ReplaceSeal(o) /\ sealTmp # Unsealed
    <2>1. /\ caller[o].step = "replace" /\ seal' = sealTmp /\ sealTmp' = Unsealed
          /\ consumptions' = IF sealTmp.consumed \in {NoCommit, seal.consumed} THEN consumptions
                             ELSE Append(consumptions, sealTmp.consumed)
          /\ caller' = [caller EXCEPT ![o].step = "record"]
        BY <1>7 DEF ReplaceSeal, InCall
    <2>2. /\ caller' \in [Callers -> InHand] /\ caller'[o].step = "record"
          /\ \A p \in Callers \ {o} : caller'[p] = caller[p]
        BY <2>1 DEF HoldoutTyped, InHand
    <2>3. consumptions' \in Seq(Commits)
        <3>1. sealTmp.consumed \in Commits \union {NoCommit}
            BY DEF HoldoutTyped, Seal, MaybeCommit
        <3> QED BY <2>1, <3>1 DEF HoldoutTyped
    <2>4. ASSUME ~raced PROVE OneCall'
        <3>1. StepForward(sealTmp) /\ OneCall
            BY <1>2, <2>1, <2>4 DEF OneCall, InCall
        <3>2. seal'.consumed \in {NoCommit, seal'.frozen} /\ consumptions = <<>>
            BY <2>1, <3>1 DEF StepForward, OneCall
        <3>3. IF seal'.consumed = NoCommit THEN consumptions' = <<>>
              ELSE consumptions' # <<>> /\ Len(consumptions') = 1
            <4>1. CASE seal'.consumed = NoCommit
                BY <2>1, <3>2, <4>1
            <4>2. CASE seal'.consumed # NoCommit
                <5>1. consumptions' = Append(<<>>, sealTmp.consumed)
                    BY <2>1, <3>1, <3>2, <4>2 DEF StepForward
                <5> QED BY <4>2, <5>1
            <4> QED BY <4>1, <4>2
        <3> QED BY <1>2, <2>2, <2>4, <3>2, <3>3 DEF OneCall, InCall
    <2> QED BY <1>1, <2>1, <2>2, <2>3, <2>4, SealFacts DEF HoldoutTyped
<1> QED BY <1>4, <1>5, <1>6, <1>7

LEMMA HoldoutInvHolds == HoldoutSpec => []HoldoutInv
<1>1. HoldoutInit => HoldoutInv
    <2> SUFFICES ASSUME HoldoutInit PROVE HoldoutInv
        OBVIOUS
    <2>1. /\ seal = Unsealed /\ sealTmp = Unsealed /\ caller = [o \in Callers |-> Resting]
          /\ consumptions = <<>> /\ raced = FALSE
        BY DEF HoldoutInit
    <2>2. HoldoutTyped
        BY <2>1, SealFacts, EmptySeq DEF HoldoutTyped
    <2>3. OneCall
        BY <2>1, SealFacts DEF OneCall, InCall
    <2> QED BY <2>2, <2>3 DEF HoldoutInv
<1>2. HoldoutInv /\ [HoldoutNext]_holdoutVars => HoldoutInv'
    <2> SUFFICES ASSUME HoldoutInv, [HoldoutNext]_holdoutVars PROVE HoldoutInv'
        OBVIOUS
    <2>1. CASE UNCHANGED <<seal, sealTmp, caller, consumptions, raced>>
        BY <2>1 DEF HoldoutInv, HoldoutTyped, OneCall, InCall, StepForward
    <2>2. CASE ReadIsRefused \/ UNCHANGED holdoutVars
        BY <2>1, <2>2 DEF ReadIsRefused, holdoutVars
    <2>3. ASSUME NEW o \in Callers, \E c \in Commits : Freeze(o, c) \/ Consume(o, c)
          PROVE  HoldoutInv'
        BY <2>3, CallStep
    <2>4. ASSUME NEW o \in Callers,
                 WriteSeal(o) \/ ReplaceSeal(o) \/ RecordCall(o) \/ KillCaller(o)
          PROVE  HoldoutInv'
        BY <2>4, InsideStep
    <2> QED BY <2>2, <2>3, <2>4 DEF HoldoutNext
<1> QED BY <1>1, <1>2, PTL DEF HoldoutSpec

(* As long as calls do not overlap, the holdout is opened once at most, for*)
(* the commit that was frozen first, wherever callers are killed           *)
(* (holdout_custodian.py, freeze and consume).                             *)
THEOREM HoldoutOpensOnce == HoldoutSpec => []HoldoutSpentOnce
<1>1. HoldoutInv => HoldoutSpentOnce
    <2> SUFFICES ASSUME HoldoutInv, ~raced
                 PROVE  /\ Len(consumptions) <= 1
                        /\ seal.consumed # NoCommit =>
                            seal.consumed = seal.frozen /\ consumptions # <<>>
        BY DEF HoldoutSpentOnce
    <2>1. OneCall
        BY DEF HoldoutInv
    <2>2. CASE seal.consumed = NoCommit
        <3>1. consumptions = <<>> /\ Len(<<>>) = 0
            BY <2>1, <2>2 DEF OneCall
        <3> QED BY <2>2, <3>1
    <2>3. CASE seal.consumed # NoCommit
        <3>1. seal.consumed = seal.frozen /\ consumptions # <<>> /\ Len(consumptions) = 1
            BY <2>1, <2>3 DEF OneCall
        <3> QED BY <3>1
    <2> QED BY <2>2, <2>3
<1> QED BY <1>1, HoldoutInvHolds, PTL

-----------------------------------------------------------------------------
(* The universe.                                                           *)

ListingLine == UniverseRow \union {Torn}
Observing == [step : {"away", "fetched", "append", "replace"},
              seen : ListingState, next : ListingState]

UniverseTyped ==
    /\ listed \subseteq Symbols /\ state \in ListingState
    /\ rows \in Seq(ListingLine) /\ cut \in BOOLEAN
    /\ observer \in [Observers -> Observing]
    /\ fetches \in Nat

(* A part of a blob ends in a torn row, so no row of a listing is lost to  *)
(* the next one.                                                           *)
CutIsTorn == cut => rows # <<>> /\ rows[Len(rows)] = Torn

OnRecord(s) == \E row \in WholeRows(rows) : row.kind = "listed" /\ s \in row.symbols

UniverseInv ==
    /\ UniverseTyped /\ CutIsTorn
    /\ \A s \in state.symbols : OnRecord(s)
    /\ \A o \in Observers :
        /\ ObserverAt(o, "append") => \A s \in observer[o].seen.symbols : OnRecord(s)
        /\ ObserverAt(o, "replace") => \A s \in observer[o].next.symbols : OnRecord(s)

(* A blob that is appended takes no row that can be read, and every row of *)
(* it but the first can be read.                                           *)
LEMMA WrittenReads ==
    ASSUME UniverseTyped, CutIsTorn, NEW blob \in Seq(ListingLine), blob # <<>>
    PROVE  /\ Written(blob) \in Seq(ListingLine) /\ Written(blob) # <<>>
           /\ WholeRows(rows) \subseteq WholeRows(Written(blob))
           /\ \A i \in 2 .. Len(blob) : blob[i] # Torn => blob[i] \in WholeRows(Written(blob))
           /\ blob[Len(blob)] = Torn => Written(blob)[Len(Written(blob))] = Torn
<1> DEFINE put == Put(rows, cut, Head(blob))
           rest == Tail(blob)
           all == put \o rest
<1>1. /\ Len(blob) \in Nat /\ Len(blob) > 0 /\ Head(blob) = blob[1] /\ Head(blob) \in ListingLine
      /\ rest \in Seq(ListingLine) /\ Len(rest) = Len(blob) - 1
      /\ \A i \in 1 .. Len(rest) : rest[i] = blob[i + 1]
    <2>1. Len(blob) \in Nat /\ Len(blob) > 0
        BY EmptySeq, LenProperties
    <2>2. Head(blob) = blob[1] /\ blob[1] \in ListingLine
        BY <2>1, ElementOfSeq
    <2>3. /\ rest \in Seq(ListingLine) /\ Len(rest) = Len(blob) - 1
          /\ \A i \in 1 .. Len(rest) : rest[i] = blob[i + 1]
        BY <2>1
    <2> QED BY <2>1, <2>2, <2>3
<1>2. /\ put \in Seq(ListingLine) /\ put # <<>>
      /\ put[Len(put)] = IF cut THEN Torn ELSE blob[1]
      /\ ~cut => AddsItself(rows, blob[1], put)
      /\ cut => TakesTheLast(rows, put)
    <2>1. Torn \in ListingLine /\ rows \in Seq(ListingLine) /\ cut \in BOOLEAN /\ (cut => rows # <<>>)
        BY DEF ListingLine, UniverseTyped, CutIsTorn
    <2>2. \A h \in ListingLine :
            /\ Put(rows, cut, h) \in Seq(ListingLine) /\ Put(rows, cut, h) # <<>>
            /\ Put(rows, cut, h)[Len(Put(rows, cut, h))] = IF cut THEN Torn ELSE h
            /\ ~cut => AddsItself(rows, h, Put(rows, cut, h))
            /\ cut => TakesTheLast(rows, Put(rows, cut, h))
        BY <2>1, PutReads, ZenonT(60)
    <2> QED BY <1>1, <2>2
<1>3. WholeRows(rows) \subseteq WholeRows(put)
    <2>1. CASE ~cut
        BY <1>2, <2>1 DEF AddsItself
    <2>2. CASE cut
        <3>1. \A row \in WholeRows(rows) : row # rows[Len(rows)]
            BY <2>2 DEF CutIsTorn, WholeRows
        <3> QED BY <1>2, <2>2, <3>1 DEF TakesTheLast
    <2> QED BY <2>1, <2>2
<1> HIDE DEF put, rest
<1>4. /\ Len(put) \in Nat /\ Len(put) # 0 /\ Len(rest) \in Nat
      /\ DOMAIN put = 1 .. Len(put)
    BY <1>1, <1>2, EmptySeq, LenProperties
<1>5. /\ all \in Seq(ListingLine) /\ Len(all) = Len(put) + Len(rest)
      /\ DOMAIN all = 1 .. Len(put) + Len(rest)
      /\ \A i \in 1 .. Len(put) : all[i] = put[i]
      /\ \A i \in 1 .. Len(rest) : all[Len(put) + i] = rest[i]
    <2>1. put \in Seq(ListingLine) /\ rest \in Seq(ListingLine)
        BY <1>1, <1>2
    <2>2. all \in Seq(ListingLine) /\ Len(all) = Len(put) + Len(rest)
        BY <2>1
    <2>3. DOMAIN all = 1 .. Len(put) + Len(rest)
        BY <2>2, LenProperties
    <2>4. \A i \in 1 .. Len(put) : all[i] = put[i]
        BY <1>4, <2>1
    <2>5. \A i \in 1 .. Len(rest) : all[Len(put) + i] = rest[i]
        BY <1>4, <2>1
    <2> QED BY <2>2, <2>3, <2>4, <2>5
<1>6. Written(blob) = all
    BY DEF Written, put, rest
<1> HIDE DEF all
<1>7. WholeRows(put) \subseteq WholeRows(all)
    BY <1>4, <1>5 DEF WholeRows
<1>8. ASSUME NEW i \in 2 .. Len(blob), blob[i] # Torn
      PROVE  blob[i] \in WholeRows(all)
    <2>1. i - 1 \in 1 .. Len(rest) /\ rest[i - 1] = blob[i]
        BY <1>1
    <2>2. Len(put) + (i - 1) \in DOMAIN all /\ all[Len(put) + (i - 1)] = blob[i]
        BY <1>4, <1>5, <2>1, SMTT(60)
    <2> QED BY <1>8, <2>2 DEF WholeRows
<1>9. ASSUME blob[Len(blob)] = Torn PROVE all[Len(all)] = Torn
    <2>1. CASE Len(rest) = 0
        <3>1. Len(blob) = 1 /\ Len(all) = Len(put)
            <4>1. Len(blob) = 1
                BY <1>1, <2>1
            <4>2. Len(all) = Len(put)
                BY <1>4, <1>5, <2>1
            <4> QED BY <4>1, <4>2
        <3>2. all[Len(put)] = put[Len(put)]
            <4>1. Len(put) \in 1 .. Len(put)
                BY <1>4
            <4> QED BY <1>5, <4>1
        <3> QED BY <1>2, <1>9, <3>1, <3>2
    <2>2. CASE Len(rest) # 0
        <3>1. Len(rest) \in 1 .. Len(rest) /\ Len(rest) + 1 = Len(blob)
            BY <1>1, <1>4, <2>2
        <3>2. all[Len(all)] = rest[Len(rest)] /\ rest[Len(rest)] = blob[Len(blob)]
            BY <1>1, <1>5, <3>1
        <3> QED BY <1>9, <3>2
    <2> QED BY <2>1, <2>2
<1>10. all # <<>>
    BY <1>4, <1>5, EmptySeq
<1> QED BY <1>3, <1>5, <1>6, <1>7, <1>8, <1>9, <1>10

LEMMA BlobRows ==
    ASSUME UniverseTyped, NEW o \in Observers
    PROVE  /\ Blob(o) \in Seq(ListingLine) /\ Blob(o) # <<>> /\ Len(Blob(o)) \in Nat
           /\ \A i \in 1 .. Len(Blob(o)) : Blob(o)[i] # Torn
           /\ ~(observer[o].next.symbols \subseteq observer[o].seen.symbols) =>
                /\ Len(Blob(o)) >= 2 /\ Blob(o)[2].kind = "listed"
                /\ Blob(o)[2].symbols = observer[o].next.symbols \ observer[o].seen.symbols
<1>1. PICK before \in SUBSET Symbols, after \in SUBSET Symbols, ts \in Nat :
        /\ before = observer[o].seen.symbols /\ after = observer[o].next.symbols
        /\ ts = observer[o].next.ts
    BY DEF UniverseTyped, Observing, ListingState
<1> DEFINE snapshot == [kind |-> "snapshot", ts |-> ts, symbols |-> after]
           came == [kind |-> "listed", ts |-> ts, symbols |-> after \ before]
           went == [kind |-> "delisted", ts |-> ts, symbols |-> before \ after]
<1>2. snapshot \in UniverseRow /\ came \in UniverseRow /\ went \in UniverseRow
    BY DEF UniverseRow
<1>3. came.kind = "listed" /\ came.symbols = after \ before
    OBVIOUS
<1>4. Blob(o) = <<snapshot>> \o ((IF after \subseteq before THEN <<>> ELSE <<came>>)
                                 \o (IF before \subseteq after THEN <<>> ELSE <<went>>))
    BY <1>1 DEF Blob, SnapshotRow, ChangeRows, Changes
<1> HIDE DEF snapshot, came, went
<1>5. Blob(o) \in Seq(UniverseRow) /\ Len(Blob(o)) \in Nat /\ Len(Blob(o)) >= 1
    BY <1>2, <1>4
<1>6. ~(after \subseteq before) => Len(Blob(o)) >= 2 /\ Blob(o)[2] = came
    BY <1>2, <1>4
<1>7. Torn \notin UniverseRow
    <2>1. \A row \in UniverseRow : DOMAIN row = {"kind", "ts", "symbols"}
        BY DEF UniverseRow
    <2>2. DOMAIN Torn = {"event"} /\ "event" \notin {"kind", "ts", "symbols"}
        BY DEF Torn
    <2> QED BY <2>1, <2>2, Zenon
<1>8. \A i \in 1 .. Len(Blob(o)) : Blob(o)[i] \in UniverseRow
    BY <1>5, ElementOfSeq
<1>9. Blob(o) \in Seq(ListingLine) /\ Blob(o) # <<>>
    BY <1>5 DEF ListingLine
<1> QED BY <1>1, <1>3, <1>5, <1>6, <1>7, <1>8, <1>9

(* What holds of every row that can be read holds of more rows.            *)
LEMMA MoreRows ==
    ASSUME NEW s, OnRecord(s), WholeRows(rows) \subseteq WholeRows(rows')
    PROVE  OnRecord(s)'
BY DEF OnRecord

LEMMA ObserverFields ==
    ASSUME UniverseTyped, NEW o \in Observers
    PROVE  /\ observer[o].seen \in ListingState /\ observer[o].next \in ListingState
           /\ observer[o].step \in {"away", "fetched", "append", "replace"}
           /\ Away \in Observing /\ Away.step = "away"
BY DEF UniverseTyped, Observing, Away, NoListing, ListingState

(* A step of one observer that makes nothing unreadable and leaves, or     *)
(* brings to a step whose symbols are on record.                           *)
LEMMA ObserverStep ==
    ASSUME UniverseInv, NEW o \in Observers, NEW obs \in Observing,
           observer' = [observer EXCEPT ![o] = obs],
           listed' \subseteq Symbols, state' \in ListingState, fetches' \in Nat,
           rows' \in Seq(ListingLine), cut' \in BOOLEAN, CutIsTorn',
           WholeRows(rows) \subseteq WholeRows(rows'),
           \A s \in state'.symbols : OnRecord(s)',
           obs.step = "append" => \A s \in obs.seen.symbols : OnRecord(s)',
           obs.step = "replace" => \A s \in obs.next.symbols : OnRecord(s)'
    PROVE  UniverseInv'
<1>1. /\ observer' \in [Observers -> Observing] /\ observer'[o] = obs
      /\ \A p \in Observers \ {o} : observer'[p] = observer[p]
    BY DEF UniverseInv, UniverseTyped
<1>2. UniverseTyped'
    BY <1>1 DEF UniverseTyped
<1>3. ASSUME NEW p \in Observers
      PROVE  /\ ObserverAt(p, "append")' => \A s \in observer'[p].seen.symbols : OnRecord(s)'
             /\ ObserverAt(p, "replace")' => \A s \in observer'[p].next.symbols : OnRecord(s)'
    <2>1. CASE p = o
        BY <1>1, <2>1 DEF ObserverAt
    <2>2. CASE p # o
        BY <1>1, <2>2, MoreRows DEF ObserverAt, UniverseInv
    <2> QED BY <2>1, <2>2
<1> QED BY <1>2, <1>3 DEF UniverseInv

LEMMA FetchStep ==
    ASSUME UniverseInv, NEW o \in Observers, Fetch(o) \/ ReadState(o) \/ ReplaceState(o)
    PROVE  UniverseInv'
<1>1. /\ UniverseTyped /\ CutIsTorn /\ UNCHANGED <<listed, rows, cut>>
      /\ CutIsTorn' /\ \A s : OnRecord(s) => OnRecord(s)'
    BY DEF UniverseInv, Fetch, ReadState, ReplaceState, CutIsTorn, OnRecord
<1>2. /\ listed' \subseteq Symbols /\ rows' \in Seq(ListingLine) /\ cut' \in BOOLEAN
      /\ WholeRows(rows) \subseteq WholeRows(rows')
    BY <1>1 DEF UniverseTyped
<1>3. CASE Fetch(o)
    <2>1. fetches' = fetches + 1 /\ state' = state
        BY <1>3 DEF Fetch
    <2>2. PICK parsed \in SUBSET Symbols, quoted \in SUBSET Symbols :
            observer' = [observer EXCEPT ![o] =
                [step |-> "fetched", seen |-> NoListing,
                 next |-> [ts |-> fetches', symbols |-> parsed, quoted |-> quoted]]]
        BY <1>1, <1>3 DEF Fetch, UniverseTyped
    <2>3. fetches' \in Nat
        BY <1>1, <2>1 DEF UniverseTyped
    <2>4. PICK obs \in Observing :
            obs = [step |-> "fetched", seen |-> NoListing,
                   next |-> [ts |-> fetches', symbols |-> parsed, quoted |-> quoted]]
        BY <2>3 DEF Observing, ListingState, NoListing
    <2>5. obs.step = "fetched"
        BY <2>4
    <2> QED BY <1>1, <1>2, <2>1, <2>2, <2>3, <2>4, <2>5, ObserverStep DEF UniverseInv, UniverseTyped
<1>4. CASE ReadState(o)
    <2>1. state' = state /\ fetches' = fetches
        BY <1>4 DEF ReadState
    <2>2. CASE observer' = [observer EXCEPT ![o].step = "append", ![o].seen = state]
        <3>1. PICK obs \in Observing : obs = [observer[o] EXCEPT !.step = "append", !.seen = state]
            BY <1>1 DEF UniverseTyped, Observing
        <3>2. obs.step = "append" /\ obs.seen = state
            BY <1>1, <3>1 DEF UniverseTyped, Observing
        <3>3. observer' = [observer EXCEPT ![o] = obs]
            BY <1>1, <2>2, <3>1 DEF UniverseTyped
        <3> QED BY <1>1, <1>2, <2>1, <3>2, <3>3, ObserverStep DEF UniverseInv, UniverseTyped
    <2>3. CASE Leave(o)
        <3>1. observer' = [observer EXCEPT ![o] = Away]
            BY <2>3 DEF Leave
        <3> QED BY <1>1, <1>2, <2>1, <3>1, ObserverFields, ObserverStep DEF UniverseInv, UniverseTyped
    <2> QED BY <1>4, <2>2, <2>3 DEF ReadState
<1>5. CASE ReplaceState(o)
    <2>1. /\ state' = observer[o].next /\ fetches' = fetches /\ ObserverAt(o, "replace")
          /\ observer' = [observer EXCEPT ![o] = Away]
        BY <1>5 DEF ReplaceState, Leave
    <2>2. \A s \in state'.symbols : OnRecord(s)'
        BY <1>1, <2>1 DEF UniverseInv
    <2>3. state' \in ListingState /\ fetches' \in Nat
        BY <1>1, <2>1, ObserverFields DEF UniverseTyped
    <2> QED BY <1>1, <1>2, <2>1, <2>2, <2>3, ObserverFields, ObserverStep
<1> QED BY <1>3, <1>4, <1>5

LEMMA AppendRowsStep ==
    ASSUME UniverseInv, NEW o \in Observers, AppendRows(o)
    PROVE  UniverseInv'
<1>1. /\ UniverseTyped /\ CutIsTorn
      /\ ObserverAt(o, "append") /\ rows' = Written(Blob(o)) /\ cut' = FALSE
      /\ observer' = [observer EXCEPT ![o].step = "replace"]
      /\ UNCHANGED <<listed, state, fetches>>
    BY DEF UniverseInv, AppendRows
<1>2. PICK blob \in Seq(ListingLine) : blob = Blob(o)
    BY <1>1, BlobRows
<1>3. /\ rows' \in Seq(ListingLine) /\ WholeRows(rows) \subseteq WholeRows(rows')
      /\ \A i \in 2 .. Len(blob) : blob[i] # Torn => blob[i] \in WholeRows(rows')
    BY <1>1, <1>2, BlobRows, WrittenReads
<1>4. PICK obs \in Observing : obs = [observer[o] EXCEPT !.step = "replace"]
    BY <1>1 DEF UniverseTyped, Observing
<1>5. obs.step = "replace" /\ obs.next = observer[o].next
    BY <1>1, <1>4 DEF UniverseTyped, Observing
<1>6. observer' = [observer EXCEPT ![o] = obs]
    BY <1>1, <1>4 DEF UniverseTyped
<1>7. ASSUME NEW s \in obs.next.symbols PROVE OnRecord(s)'
    <2>1. CASE s \in observer[o].seen.symbols
        BY <1>1, <1>3, <2>1, MoreRows DEF UniverseInv
    <2>2. CASE s \notin observer[o].seen.symbols
        <3>1. /\ Len(blob) \in Nat /\ Len(blob) >= 2 /\ blob[2].kind = "listed" /\ blob[2] # Torn
              /\ s \in blob[2].symbols
            <4>1. ~(observer[o].next.symbols \subseteq observer[o].seen.symbols)
                BY <1>5, <1>7, <2>2
            <4>2. /\ Len(blob) \in Nat /\ Len(blob) >= 2 /\ blob[2].kind = "listed"
                  /\ blob[2].symbols = observer[o].next.symbols \ observer[o].seen.symbols
                  /\ \A i \in 1 .. Len(blob) : blob[i] # Torn
                BY <1>1, <1>2, <4>1, BlobRows
            <4> QED BY <1>5, <1>7, <2>2, <4>2
        <3>2. blob[2] \in WholeRows(rows')
            BY <1>3, <3>1
        <3> QED BY <3>1, <3>2 DEF OnRecord
    <2> QED BY <2>1, <2>2
<1>8. \A s \in state'.symbols : OnRecord(s)'
    BY <1>1, <1>3, MoreRows DEF UniverseInv
<1>9. CutIsTorn' /\ listed' \subseteq Symbols /\ state' \in ListingState /\ fetches' \in Nat
    BY <1>1 DEF CutIsTorn, UniverseTyped
<1> QED BY <1>1, <1>3, <1>5, <1>6, <1>7, <1>8, <1>9, ObserverStep

LEMMA CutOffStep ==
    ASSUME UniverseInv, NEW o \in Observers, CutOff(o)
    PROVE  UniverseInv'
<1>1. /\ UniverseTyped /\ CutIsTorn /\ observer' = [observer EXCEPT ![o] = Away]
      /\ UNCHANGED <<listed, state, fetches>>
      /\ listed' \subseteq Symbols /\ state' \in ListingState /\ fetches' \in Nat
    BY DEF UniverseInv, CutOff, Leave, UniverseTyped
<1>2. /\ rows' \in Seq(ListingLine) /\ cut' \in BOOLEAN /\ CutIsTorn'
      /\ WholeRows(rows) \subseteq WholeRows(rows')
    <2>1. CASE UNCHANGED <<rows, cut>>
        BY <1>1, <2>1 DEF UniverseTyped, CutIsTorn
    <2>2. ASSUME NEW k \in 1 .. Len(Blob(o)), cut' = TRUE,
                 rows' = Written(SubSeq(Blob(o), 1, k - 1) \o <<Torn>>)
          PROVE  /\ rows' \in Seq(ListingLine) /\ cut' \in BOOLEAN /\ CutIsTorn'
                 /\ WholeRows(rows) \subseteq WholeRows(rows')
        <3>1. PICK part \in Seq(ListingLine) : part = SubSeq(Blob(o), 1, k - 1)
            <4>1. /\ Blob(o) \in Seq(ListingLine) /\ Len(Blob(o)) \in Nat /\ k \in Nat
                  /\ k - 1 <= Len(Blob(o))
                BY <1>1, BlobRows
            <4>2. \A i \in 1 .. k - 1 : Blob(o)[i] \in ListingLine
                BY <4>1, ElementOfSeq
            <4>3. 1 \in Int /\ k - 1 \in Int
                BY <4>1
            <4>4. SubSeq(Blob(o), 1, k - 1) \in Seq(ListingLine)
                BY <4>2, <4>3, SubSeqProperties, Zenon
            <4> QED BY <4>4
        <3>2. Torn \in ListingLine
            BY DEF ListingLine
        <3>3. PICK blob \in Seq(ListingLine) :
                blob = Append(part, Torn) /\ blob # <<>> /\ blob[Len(blob)] = Torn
            <4> DEFINE b == Append(part, Torn)
            <4>1. /\ b \in Seq(ListingLine) /\ b # <<>> /\ Len(b) = Len(part) + 1
                  /\ b[Len(part) + 1] = Torn
                BY <3>2, AppendProperties
            <4> HIDE DEF b
            <4>2. b[Len(b)] = Torn
                BY <4>1
            <4> QED BY <4>1, <4>2 DEF b
        <3>4. part \o <<Torn>> = Append(part, Torn)
            OBVIOUS
        <3> QED BY <1>1, <2>2, <3>1, <3>3, <3>4, WrittenReads DEF CutIsTorn
    <2> QED BY <2>1, <2>2 DEF CutOff
<1>3. \A s \in state'.symbols : OnRecord(s)'
    BY <1>1, <1>2, MoreRows DEF UniverseInv
<1> QED BY <1>1, <1>2, <1>3, ObserverFields, ObserverStep

LEMMA UniverseInvHolds == UniverseSpec => []UniverseInv
<1>1. UniverseInit => UniverseInv
    <2> SUFFICES ASSUME UniverseInit PROVE UniverseInv
        OBVIOUS
    <2>1. /\ listed \subseteq Symbols /\ state = NoListing /\ rows = <<>> /\ cut = FALSE
          /\ observer = [o \in Observers |-> Away] /\ fetches = 0
        BY DEF UniverseInit
    <2>2. NoListing \in ListingState /\ NoListing.symbols = {} /\ Away \in Observing /\ Away.step = "away"
        BY DEF NoListing, ListingState, Away, Observing
    <2>3. UniverseTyped
        BY <2>1, <2>2, EmptySeq DEF UniverseTyped
    <2> QED BY <2>1, <2>2, <2>3 DEF UniverseInv, CutIsTorn, ObserverAt
<1>2. UniverseInv /\ [UniverseNext]_universeVars => UniverseInv'
    <2> SUFFICES ASSUME UniverseInv, [UniverseNext]_universeVars PROVE UniverseInv'
        OBVIOUS
    <2>1. CASE Relist \/ UNCHANGED universeVars
        <3>1. UNCHANGED <<state, rows, cut, observer, fetches>>
            BY <2>1 DEF Relist, universeVars
        <3>2. listed' \subseteq Symbols
            BY <2>1 DEF Relist, universeVars, UniverseInv, UniverseTyped
        <3> QED BY <3>1, <3>2 DEF UniverseInv, UniverseTyped, CutIsTorn, OnRecord, ObserverAt
    <2>2. ASSUME NEW o \in Observers, Fetch(o) \/ ReadState(o) \/ ReplaceState(o)
          PROVE  UniverseInv'
        BY <2>2, FetchStep
    <2>3. ASSUME NEW o \in Observers, AppendRows(o) PROVE UniverseInv'
        BY <2>3, AppendRowsStep
    <2>4. ASSUME NEW o \in Observers, CutOff(o) PROVE UniverseInv'
        BY <2>4, CutOffStep
    <2> QED BY <2>1, <2>2, <2>3, <2>4 DEF UniverseNext
<1> QED BY <1>1, <1>2, PTL DEF UniverseSpec

(* Every symbol of the recorded universe has the row of its listing,       *)
(* whichever processes take snapshots and wherever they are cut off        *)
(* (record_snapshot).                                                      *)
THEOREM MembersListed == UniverseSpec => []MembersWereListed
<1>1. UniverseInv => MembersWereListed
    BY DEF UniverseInv, MembersWereListed, OnRecord, RowsThatSay, WholeRows
<1> QED BY <1>1, UniverseInvHolds, PTL

-----------------------------------------------------------------------------
(* The ledger of trials.                                                   *)

TrialLine == [event : Outcomes, trial : Nat] \union {Torn}

LedgerTyped ==
    /\ ledger \in Seq(TrialLine) /\ ledgerCut \in BOOLEAN
    /\ ledgerCut => ledger # <<>>

(* The lines that have their newline, and what they say.                   *)
Ended == {i \in 1 .. Len(ledger) : ~(ledgerCut /\ i = Len(ledger))}
EndedTrials == {ledger[i].trial : i \in Ended}
Completed(t) == \E i \in Ended : ledger[i] = TrialRow(t, "complete")

(* The n trials of a ledger that can be read are numbered from 1; a line   *)
(* without its newline may be of one more.                                 *)
Registered(n) ==
    /\ EndedTrials = 1 .. n
    /\ ledgerCut => ledger[Len(ledger)] = Torn \/ ledger[Len(ledger)].trial \in 1 .. n + 1

LEMMA TrialRowType ==
    ASSUME NEW t \in Nat, NEW outcome \in Outcomes
    PROVE  /\ TrialRow(t, outcome) \in TrialLine /\ TrialRow(t, outcome) # Torn
           /\ TrialRow(t, outcome).trial = t
<1>1. DOMAIN TrialRow(t, outcome) = {"event", "trial"} /\ DOMAIN Torn = {"event"}
    BY SMTT(60) DEF TrialRow, Torn
<1>2. TrialRow(t, outcome) # Torn
    BY <1>1, SMTT(60)
<1> QED BY <1>2, SMTT(60) DEF TrialRow, TrialLine

LEMMA LedgerFacts ==
    ASSUME LedgerTyped
    PROVE  /\ DOMAIN ledger = 1 .. Len(ledger) /\ Len(ledger) \in Nat
           /\ Torn \in TrialLine /\ (ledgerCut => Len(ledger) # 0)
           /\ Ended \subseteq 1 .. Len(ledger) /\ ledgerCut \in BOOLEAN
           /\ \A i \in 1 .. Len(ledger) : i \in Ended \/ (ledgerCut /\ i = Len(ledger))
           /\ LedgerCorrupt <=> \E i \in Ended : ledger[i] = Torn
<1>1. DOMAIN ledger = 1 .. Len(ledger) /\ Len(ledger) \in Nat /\ Torn \in TrialLine
    BY LenProperties DEF LedgerTyped, TrialLine
<1>2. ledgerCut \in BOOLEAN /\ (ledgerCut => Len(ledger) # 0)
    BY <1>1, EmptySeq DEF LedgerTyped
<1>3. \A i \in 1 .. Len(ledger) : i \in Ended <=> ~(ledgerCut /\ i = Len(ledger))
    BY SMTT(60) DEF Ended
<1>4. Ended \subseteq 1 .. Len(ledger)
    BY <1>1, <1>2, SMTT(60) DEF Ended
<1>5. LedgerCorrupt <=> \E i \in Ended : ledger[i] = Torn
    BY <1>1, <1>3, <1>4 DEF LedgerCorrupt
<1> QED BY <1>1, <1>2, <1>3, <1>4, <1>5

(* What an append leaves in a ledger that can still be read.               *)
LEMMA AppendReads ==
    ASSUME LedgerTyped, NEW t \in Nat, NEW outcome \in Outcomes, AppendRow(TrialRow(t, outcome))
    PROVE  /\ LedgerTyped' /\ ledgerCut' = FALSE
           /\ ~LedgerCorrupt' =>
                /\ ~LedgerCorrupt /\ ~ledgerCut
                /\ EndedTrials' = EndedTrials \union {t}
                /\ \A u : Completed(u) => Completed(u)'
                /\ outcome = "complete" => Completed(t)'
<1> DEFINE row == TrialRow(t, outcome)
<1>1. row \in TrialLine /\ row # Torn /\ row.trial = t
    BY TrialRowType
<1>2. ledger' = Put(ledger, ledgerCut, row) /\ ledgerCut' = FALSE
    BY DEF AppendRow
<1>3. /\ ledger \in Seq(TrialLine) /\ ledgerCut \in BOOLEAN /\ Torn \in TrialLine
      /\ ledgerCut => ledger # <<>>
    BY LedgerFacts DEF LedgerTyped
<1> HIDE DEF row
<1>4. /\ ledger' \in Seq(TrialLine)
      /\ Len(ledger') = IF ledgerCut THEN Len(ledger) ELSE Len(ledger) + 1
      /\ ledger'[Len(ledger')] = IF ledgerCut THEN Torn ELSE row
      /\ \A j \in 1 .. Len(ledger) : j < Len(ledger') => ledger'[j] = ledger[j]
    <2>1. Put(ledger, ledgerCut, row) \in Seq(TrialLine)
        BY <1>1, <1>3, PutIsSeq, Zenon
    <2>2. Len(Put(ledger, ledgerCut, row)) = IF ledgerCut THEN Len(ledger) ELSE Len(ledger) + 1
        BY <1>1, <1>3, PutLen, Zenon
    <2>3. Put(ledger, ledgerCut, row)[Len(Put(ledger, ledgerCut, row))] =
                IF ledgerCut THEN Torn ELSE row
        BY <1>1, <1>3, PutEnd, Zenon
    <2>4. \A j \in 1 .. Len(ledger) : j < Len(Put(ledger, ledgerCut, row)) =>
                Put(ledger, ledgerCut, row)[j] = ledger[j]
        BY <1>1, <1>3, PutRest, Zenon
    <2> QED BY <1>2, <2>1, <2>2, <2>3, <2>4
<1>5. LedgerTyped' /\ Len(ledger) \in Nat
    BY <1>2, <1>4, LedgerFacts DEF LedgerTyped
<1>6. Ended' = 1 .. Len(ledger') /\ DOMAIN ledger' = 1 .. Len(ledger')
    BY <1>2, <1>4, LenProperties DEF Ended
<1>7. CASE ledgerCut
    <2>1. Len(ledger') \in 1 .. Len(ledger') /\ ledger'[Len(ledger')] = Torn
        BY <1>4, <1>7, LedgerFacts
    <2>2. LedgerCorrupt'
        BY <1>2, <1>6, <2>1 DEF LedgerCorrupt
    <2> QED BY <1>2, <1>5, <2>2
<1>8. CASE ~ledgerCut
    <2>1. /\ Ended = 1 .. Len(ledger) /\ Ended' = Ended \union {Len(ledger) + 1}
          /\ \A i \in Ended : ledger'[i] = ledger[i]
          /\ ledger'[Len(ledger) + 1] = row
        BY <1>4, <1>5, <1>6, <1>8 DEF Ended
    <2>2. LedgerCorrupt => LedgerCorrupt'
        <3>1. LedgerCorrupt => \E i \in Ended' : ledger'[i] = Torn
            BY <2>1, LedgerFacts
        <3> QED BY <1>2, <1>6, <3>1, SMTT(60) DEF LedgerCorrupt
    <2>3. EndedTrials' = EndedTrials \union {t}
        BY <1>1, <2>1, Zenon DEF EndedTrials
    <2>4. \A u : Completed(u) => Completed(u)'
        BY <2>1 DEF Completed, TrialRow
    <2>5. outcome = "complete" => Completed(t)'
        BY <2>1 DEF Completed, row
    <2> QED BY <1>2, <1>5, <1>8, <2>2, <2>3, <2>4, <2>5
<1> QED BY <1>3, <1>7, <1>8

(* A part of a line changes nothing of what has its newline.               *)
LEMMA PartReads ==
    ASSUME LedgerTyped, NEW t \in Nat, NEW outcome \in Outcomes,
           AppendPartOf(TrialRow(t, outcome))
    PROVE  /\ LedgerTyped' /\ ledgerCut'
           /\ ledger'[Len(ledger')] = Torn \/ (~ledgerCut /\ ledger'[Len(ledger')].trial = t)
           /\ ~LedgerCorrupt' => ~LedgerCorrupt
           /\ EndedTrials' = EndedTrials
           /\ \A u : Completed(u)' <=> Completed(u)
<1>1. PICK row \in {Torn, TrialRow(t, outcome)} : ledger' = Put(ledger, ledgerCut, row)
    BY DEF AppendPartOf, PartOf
<1>2. /\ ledgerCut' = TRUE /\ row \in TrialLine /\ (row # Torn => row.trial = t)
      /\ ledger \in Seq(TrialLine) /\ ledgerCut \in BOOLEAN /\ Torn \in TrialLine
      /\ ledgerCut => ledger # <<>>
    BY LedgerFacts, TrialRowType DEF LedgerTyped, AppendPartOf
<1>3. /\ ledger' \in Seq(TrialLine) /\ ledger' # <<>>
      /\ Len(ledger') = IF ledgerCut THEN Len(ledger) ELSE Len(ledger) + 1
      /\ ledger'[Len(ledger')] = IF ledgerCut THEN Torn ELSE row
      /\ \A j \in 1 .. Len(ledger) : j < Len(ledger') => ledger'[j] = ledger[j]
    <2>1. Put(ledger, ledgerCut, row) \in Seq(TrialLine) /\ Put(ledger, ledgerCut, row) # <<>>
        BY <1>2, PutIsSeq, Zenon
    <2>2. Len(Put(ledger, ledgerCut, row)) = IF ledgerCut THEN Len(ledger) ELSE Len(ledger) + 1
        BY <1>2, PutLen, Zenon
    <2>3. Put(ledger, ledgerCut, row)[Len(Put(ledger, ledgerCut, row))] =
                IF ledgerCut THEN Torn ELSE row
        BY <1>2, PutEnd, ZenonT(60)
    <2>4. \A j \in 1 .. Len(ledger) : j < Len(Put(ledger, ledgerCut, row)) =>
                Put(ledger, ledgerCut, row)[j] = ledger[j]
        BY <1>2, PutRest, ZenonT(60)
    <2> QED BY <1>1, <2>1, <2>2, <2>3, <2>4
<1>4. LedgerTyped' /\ Len(ledger) \in Nat
    BY <1>2, <1>3, LedgerFacts DEF LedgerTyped
<1>5. Ended' = Ended /\ \A i \in Ended : ledger'[i] = ledger[i]
    BY <1>2, <1>3, <1>4 DEF Ended
<1>6. EndedTrials' = EndedTrials /\ \A u : Completed(u)' <=> Completed(u)
    BY <1>5, ZenonT(60) DEF EndedTrials, Completed, TrialRow
<1>7. LedgerCorrupt => LedgerCorrupt'
    <2>1. Ended' \subseteq DOMAIN ledger' /\ \A i \in Ended' : i # Len(ledger') \/ ~ledgerCut'
        BY <1>2, <1>3, <1>4, LenProperties DEF Ended
    <2> QED BY <1>5, <2>1, LedgerFacts DEF LedgerCorrupt
<1> QED BY <1>2, <1>3, <1>4, <1>6, <1>7

LEMMA IntervalCount ==
    ASSUME NEW n \in Nat
    PROVE  IsFiniteSet(1 .. n) /\ Cardinality(1 .. n) = n
<1>1. 1 \in Int /\ n \in Int
    OBVIOUS
<1>2. /\ IsFiniteSet(1 .. n)
      /\ Cardinality(1 .. n) = IF 1 > n THEN 0 ELSE n - 1 + 1
    BY <1>1, FS_Interval, ZenonT(60)
<1> QED BY <1>2

(* What the count and the last trial are in a ledger that can be read.     *)
LEMMA CountReads ==
    ASSUME LedgerTyped, ~LedgerCorrupt, NEW n \in Nat, Registered(n)
    PROVE  /\ TrialCount \in Nat /\ n <= TrialCount
           /\ ~ledgerCut => TrialCount = n
           /\ n # 0 => LastTrial \in Nat
           /\ n # 0 /\ ~ledgerCut => LastTrial = n
<1>1. \A i \in Ended : ledger[i] # Torn
    BY LedgerFacts
<1>2. EndedTrials = 1 .. n
    BY DEF Registered
<1>3. PICK m \in Nat : Trials = 1 .. m /\ m \in {n, n + 1} /\ (~ledgerCut => m = n)
    <2>1. CASE ledgerCut /\ ledger[Len(ledger)] # Torn
        <3>1. Trials = EndedTrials \union {ledger[Len(ledger)].trial}
            <4>1. /\ \A i \in DOMAIN ledger : i \in Ended \/ i = Len(ledger)
                  /\ Ended \subseteq DOMAIN ledger /\ Len(ledger) \in DOMAIN ledger
                <5>1. Len(ledger) # 0 /\ Len(ledger) \in Nat /\ DOMAIN ledger = 1 .. Len(ledger)
                    BY <2>1, LedgerFacts
                <5>2. /\ \A i \in 1 .. Len(ledger) : i \in Ended \/ i = Len(ledger)
                      /\ Ended \subseteq 1 .. Len(ledger)
                    BY LedgerFacts, Zenon
                <5>3. Len(ledger) \in 1 .. Len(ledger)
                    BY <5>1
                <5> QED BY <5>1, <5>2, <5>3, ZenonT(60)
            <4>2. {j \in DOMAIN ledger : ledger[j] # Torn} = Ended \union {Len(ledger)}
                BY <1>1, <2>1, <4>1
            <4>3. {ledger[i].trial : i \in Ended \union {Len(ledger)}} =
                        {ledger[i].trial : i \in Ended} \union {ledger[Len(ledger)].trial}
                OBVIOUS
            <4> QED BY <4>2, <4>3, SMTT(60) DEF Trials, EndedTrials
        <3>2. ledger[Len(ledger)].trial \in 1 .. n + 1
            BY <2>1 DEF Registered
        <3>3. Trials = 1 .. n \/ Trials = 1 .. n + 1
            BY <1>2, <3>1, <3>2, SMTT(60)
        <3> QED BY <2>1, <3>3, SMTT(60)
    <2>2. CASE ~(ledgerCut /\ ledger[Len(ledger)] # Torn)
        <3>1. \A i \in DOMAIN ledger : ledger[i] # Torn <=> i \in Ended
            BY <1>1, <2>2, LedgerFacts, ZenonT(60)
        <3>2. Ended \subseteq DOMAIN ledger
            BY LedgerFacts
        <3>3. Trials = EndedTrials
            BY <3>1, <3>2, Zenon DEF Trials, EndedTrials
        <3> QED BY <1>2, <3>3, SMTT(60)
    <2> QED BY <2>1, <2>2
<1>4. TrialCount = m + (IF TornTail THEN 1 ELSE 0)
    BY <1>3, IntervalCount DEF TrialCount
<1>5. ASSUME n # 0 PROVE LastTrial = m
    <2>1. m \in Nat /\ 1 .. m # {} /\ m \in 1 .. m
        BY <1>3, <1>5
    <2>2. Last(1 .. m) \in 1 .. m /\ \A j \in 1 .. m : j <= Last(1 .. m)
        BY <2>1, LastIn
    <2>3. LastTrial = Last(1 .. m)
        BY <1>3, Zenon DEF LastTrial, Last
    <2> QED BY <2>1, <2>2, <2>3
<1>6. TornTail => ledgerCut
    BY DEF TornTail
<1> QED BY <1>3, <1>4, <1>5, <1>6, SMTT(60)

-----------------------------------------------------------------------------
(* The fits.                                                               *)

Active(w) == fit[w].step # "idle"

(* A fit is of a segment, and has a version once its trial is registered.  *)
FitsTyped ==
    /\ fit \in [Trainers -> Fit]
    /\ \A w \in Trainers :
        /\ Active(w) => fit[w].segment \in Segments
        /\ fit[w].step \notin {"idle", "register"} => fit[w].version \in Versions

(* What a fit has become, but for its segment and its family.              *)
Now(w, step, trial, score, version, table) ==
    [step |-> step, segment |-> fit[w].segment, family |-> fit[w].family, trial |-> trial,
     score |-> score, version |-> version, table |-> table]

Moved(w, f) == fit' = [fit EXCEPT ![w] = f]

LEMMA FitForms ==
    ASSUME FitsTyped, NEW w \in Trainers
    PROVE  /\ fit[w] = Now(w, fit[w].step, fit[w].trial, fit[w].score, fit[w].version,
                           fit[w].table)
           /\ fit[w] \in Fit
           /\ \A step \in FitSteps :
                [fit[w] EXCEPT !.step = step] =
                    Now(w, step, fit[w].trial, fit[w].score, fit[w].version, fit[w].table)
<1>1. fit[w] \in Fit
    BY DEF FitsTyped
<1> QED BY <1>1 DEF Fit, Now

LEMMA MovedFit ==
    ASSUME FitsTyped, NEW w \in Trainers, NEW f, Moved(w, f)
    PROVE  fit'[w] = f /\ \A x \in Trainers \ {w} : fit'[x] = fit[x]
BY DEF Moved, FitsTyped

LEMMA FitTyped ==
    ASSUME FitsTyped, NEW w \in Trainers, NEW f \in Fit, Moved(w, f),
           f.step # "idle" => f.segment \in Segments,
           f.step \notin {"idle", "register"} => f.version \in Versions
    PROVE  FitsTyped'
<1>1. fit' \in [Trainers -> Fit]
    BY DEF Moved, FitsTyped
<1> QED BY <1>1, MovedFit DEF FitsTyped, Active

LEMMA NoTableIsTable ==
    /\ NoTable \in Table /\ DOMAIN NoTable = {}
    /\ Idle \in Fit /\ Idle.step = "idle" /\ Idle.table = NoTable
<1>1. NoTable \in [{} -> Versions] /\ DOMAIN NoTable = {}
    BY DEF NoTable
<1>2. NoTable \in Table
    BY <1>1, Zenon DEF Table
<1> QED BY <1>1, <1>2 DEF Idle, Fit, FitSteps, Families

(* A fit that is over, and one whose next family begins.                   *)
Fresh(f) ==
    /\ f \in Fit /\ f.table = NoTable
    /\ f.step = "idle" \/ (f.step = "register" /\ f.segment \in Segments)

Ends(w) == \E f : Fresh(f) /\ Moved(w, f)

LEMMA FitsMove ==
    ASSUME FitsTyped, NEW w \in Trainers
    PROVE  /\ \A step \in FitSteps : FitTo(w, step) =>
                Moved(w, Now(w, step, fit[w].trial, fit[w].score, fit[w].version, fit[w].table))
           /\ Dies(w) => Ends(w)
           /\ Active(w) /\ AfterFamily(w) => Ends(w)
<1>1. ASSUME NEW step \in FitSteps, FitTo(w, step)
      PROVE  Moved(w, Now(w, step, fit[w].trial, fit[w].score, fit[w].version, fit[w].table))
    <2>1. fit' = [fit EXCEPT ![w] = [fit[w] EXCEPT !.step = step]]
        BY <1>1 DEF FitTo, FitsTyped
    <2> QED BY <2>1, FitForms DEF Moved
<1>2. ASSUME Dies(w) PROVE Ends(w)
    BY <1>2, NoTableIsTable DEF Dies, Ends, Fresh, Moved
<1>3. ASSUME Active(w), AfterFamily(w) PROVE Ends(w)
    <2>1. CASE fit[w].family = "direction"
        <3> DEFINE f == [Idle EXCEPT !.step = "register", !.segment = fit[w].segment,
                                     !.family = "tail"]
        <3>1. f = [step |-> "register", segment |-> fit[w].segment, family |-> "tail",
                   trial |-> 0, score |-> 0, version |-> NoVersion, table |-> NoTable]
            <4>1. PICK g : g = [Idle EXCEPT !.step = "register"]
                OBVIOUS
            <4>2. PICK h : h = [g EXCEPT !.segment = fit[w].segment]
                OBVIOUS
            <4>3. g = [step |-> "register", segment |-> NoVersion, family |-> "direction",
                       trial |-> 0, score |-> 0, version |-> NoVersion, table |-> NoTable]
                BY <4>1 DEF Idle
            <4>4. h = [step |-> "register", segment |-> fit[w].segment, family |-> "direction",
                       trial |-> 0, score |-> 0, version |-> NoVersion, table |-> NoTable]
                BY <4>2, <4>3
            <4>5. f = [h EXCEPT !.family = "tail"]
                BY <4>1, <4>2
            <4> QED BY <4>4, <4>5
        <3>2. fit[w].segment \in Segments
            BY <1>3 DEF FitsTyped
        <3>3. Fresh(f)
            BY <3>1, <3>2, NoTableIsTable DEF Fresh, Fit, FitSteps, Families
        <3>4. Moved(w, f)
            BY <1>3, <2>1 DEF AfterFamily, Moved
        <3> QED BY <3>3, <3>4 DEF Ends
    <2>2. CASE fit[w].family # "direction"
        <3>1. Moved(w, Idle)
            BY <1>3, <2>2 DEF AfterFamily, Moved
        <3> QED BY <3>1, NoTableIsTable DEF Ends, Fresh
    <2> QED BY <2>1, <2>2
<1> QED BY <1>1, <1>2, <1>3

(* The steps that set more than the step of a fit.                         *)
LEMMA FitsMoveOn ==
    ASSUME FitsTyped, NEW w \in Trainers
    PROVE  /\ PreRegister(w) /\ ~LedgerCorrupt =>
                Moved(w, Now(w, "score", TrialCount + 1, fit[w].score, looks + 1, fit[w].table))
           /\ Score(w) => \E score \in Scores :
                Moved(w, Now(w, "settle", fit[w].trial, score, fit[w].version, fit[w].table))
           /\ NameTrial(w) /\ ~LedgerCorrupt =>
                Moved(w, Now(w, "file", LastTrial, fit[w].score, fit[w].version, fit[w].table))
           /\ ReadAliases(w) /\ AliasesReadable =>
                Moved(w, Now(w, "open", 0, 0, fit[w].version,
                             Repointed(aliasFile.table, Alias(w), fit[w].version)))
<1>0. fit \in [Trainers -> Fit] /\ fit[w] \in Fit
    BY DEF FitsTyped
<1>1. ASSUME PreRegister(w), ~LedgerCorrupt
      PROVE  Moved(w, Now(w, "score", TrialCount + 1, fit[w].score, looks + 1, fit[w].table))
    <2>1. fit' = [fit EXCEPT ![w].step = "score", ![w].trial = TrialCount + 1,
                             ![w].version = looks + 1]
        BY <1>1 DEF PreRegister, NextTrial, TrialRow
    <2>2. PICK f : f = [fit[w] EXCEPT !.step = "score"]
        OBVIOUS
    <2>3. PICK g : g = [f EXCEPT !.trial = TrialCount + 1]
        OBVIOUS
    <2>4. f = Now(w, "score", fit[w].trial, fit[w].score, fit[w].version, fit[w].table)
        BY <1>0, <2>2 DEF Now, Fit
    <2>5. g = Now(w, "score", TrialCount + 1, fit[w].score, fit[w].version, fit[w].table)
        BY <2>3, <2>4 DEF Now
    <2>6. [g EXCEPT !.version = looks + 1] =
                Now(w, "score", TrialCount + 1, fit[w].score, looks + 1, fit[w].table)
        BY <2>5 DEF Now
    <2>7. fit' = [fit EXCEPT ![w] = [g EXCEPT !.version = looks + 1]]
        BY <1>0, <2>1, <2>2, <2>3
    <2> QED BY <2>6, <2>7 DEF Moved
<1>2. ASSUME Score(w)
      PROVE  \E score \in Scores :
                Moved(w, Now(w, "settle", fit[w].trial, score, fit[w].version, fit[w].table))
    <2>1. PICK score \in Scores : fit' = [fit EXCEPT ![w].step = "settle", ![w].score = score]
        BY <1>2 DEF Score
    <2>2. PICK f : f = [fit[w] EXCEPT !.step = "settle"]
        OBVIOUS
    <2>3. f = Now(w, "settle", fit[w].trial, fit[w].score, fit[w].version, fit[w].table)
        BY <1>0, <2>2 DEF Now, Fit
    <2>4. [f EXCEPT !.score = score] =
                Now(w, "settle", fit[w].trial, score, fit[w].version, fit[w].table)
        BY <2>3 DEF Now
    <2>5. fit' = [fit EXCEPT ![w] = [f EXCEPT !.score = score]]
        BY <1>0, <2>1, <2>2
    <2> QED BY <2>4, <2>5 DEF Moved
<1>3. ASSUME NameTrial(w), ~LedgerCorrupt
      PROVE  Moved(w, Now(w, "file", LastTrial, fit[w].score, fit[w].version, fit[w].table))
    <2>1. fit' = [fit EXCEPT ![w].step = "file", ![w].trial = LastTrial]
        BY <1>3 DEF NameTrial, TrialOf
    <2>2. PICK f : f = [fit[w] EXCEPT !.step = "file"]
        OBVIOUS
    <2>3. f = Now(w, "file", fit[w].trial, fit[w].score, fit[w].version, fit[w].table)
        BY <1>0, <2>2 DEF Now, Fit
    <2>4. [f EXCEPT !.trial = LastTrial] =
                Now(w, "file", LastTrial, fit[w].score, fit[w].version, fit[w].table)
        BY <2>3 DEF Now
    <2>5. fit' = [fit EXCEPT ![w] = [f EXCEPT !.trial = LastTrial]]
        BY <1>0, <2>1, <2>2
    <2> QED BY <2>4, <2>5 DEF Moved
<1>4. ASSUME ReadAliases(w), AliasesReadable
      PROVE  Moved(w, Now(w, "open", 0, 0, fit[w].version,
                          Repointed(aliasFile.table, Alias(w), fit[w].version)))
    <2> DEFINE t == Repointed(aliasFile.table, Alias(w), fit[w].version)
    <2>1. fit' = [fit EXCEPT ![w].step = "open", ![w].score = 0, ![w].trial = 0, ![w].table = t]
        BY <1>4 DEF ReadAliases
    <2> HIDE DEF t
    <2>2. PICK f : f = [fit[w] EXCEPT !.step = "open"]
        OBVIOUS
    <2>3. PICK g : g = [f EXCEPT !.score = 0]
        OBVIOUS
    <2>4. PICK h : h = [g EXCEPT !.trial = 0]
        OBVIOUS
    <2>5. f = Now(w, "open", fit[w].trial, fit[w].score, fit[w].version, fit[w].table)
        BY <1>0, <2>2 DEF Now, Fit
    <2>6. g = Now(w, "open", fit[w].trial, 0, fit[w].version, fit[w].table)
        BY <2>3, <2>5 DEF Now
    <2>7. h = Now(w, "open", 0, 0, fit[w].version, fit[w].table)
        BY <2>4, <2>6 DEF Now
    <2>8. [h EXCEPT !.table = t] = Now(w, "open", 0, 0, fit[w].version, t)
        BY <2>7 DEF Now
    <2>9. fit' = [fit EXCEPT ![w] = [h EXCEPT !.table = t]]
        BY <1>0, <2>1, <2>2, <2>3, <2>4
    <2> QED BY <2>8, <2>9 DEF Moved, t
<1> QED BY <1>1, <1>2, <1>3, <1>4

LEMMA SupervisorKilled ==
    ASSUME FitsTyped, KillSupervisor
    PROVE  /\ fit' \in [Trainers -> Fit]
           /\ fit'["supervised"] = Idle /\ fit'["orphan"] = fit["supervised"]
           /\ writing'["supervised"] = "nothing" /\ writing'["orphan"] = writing["supervised"]
           /\ Active("supervised") /\ ~Active("orphan")
BY NoTableIsTable DEF KillSupervisor, FitsTyped, Trainers, FitAt, Active

-----------------------------------------------------------------------------
(* Every look is counted.                                                  *)

(* A fit that was registered and is not settled has one of the n trials... *)
CountedFit(f, n) == f.step \in {"score", "settle"} => f.trial \in 1 .. n

Counted(n) ==
    /\ Registered(n) /\ looks <= n
    /\ \A w \in Trainers : CountedFit(fit[w], n)
    /\ promotion.step = "evaluate" => promotion.trial \in 1 .. n

(* ...and it is the last, while nothing overlaps; a model is filed for one *)
(* that was completed.                                                     *)
NamedFit(f, n) ==
    /\ f.step \in {"score", "settle"} => ~ledgerCut /\ f.trial = n
    /\ f.step \in {"settle", "file", "describe"} => Completed(f.trial)

Named(n) ==
    /\ \A w \in Trainers : NamedFit(fit[w], n)
    /\ \A v \in DOMAIN metadata : metadata[v].own => Completed(metadata[v].trial)

(* One fit runs at a time, and none beside a promotion.                    *)
Alone ==
    ~overlapped =>
        /\ ~Active("supervised") \/ ~Active("orphan")
        /\ promotion # NoPromotion => \A w \in Trainers : ~Active(w)

CountInv ==
    /\ LedgerTyped /\ FitsTyped /\ Alone /\ looks \in Nat
    /\ promotion \in [step : {"idle", "evaluate", "judge"}, trial : Nat]
    /\ ~LedgerCorrupt => \E n \in Nat : Counted(n) /\ (~overlapped => Named(n))

(* What a step that appends nothing may do with the fits.                  *)
LEMMA QuietCount ==
    ASSUME CountInv, UNCHANGED <<ledger, ledgerCut, looks, overlapped, promotion>>,
           NEW w \in Trainers, NEW f, Moved(w, f), FitsTyped',
           Active(w) \/ f.step = "idle",
           f.step \notin {"score", "settle"},
           \A n \in Nat : f.step \in {"file", "describe"} /\ Counted(n) /\ Named(n) =>
                Completed(f.trial),
           \A v \in DOMAIN metadata' :
                metadata'[v].own =>
                    \/ fit[w].step = "describe" /\ metadata'[v].trial = fit[w].trial
                    \/ v \in DOMAIN metadata /\ metadata'[v] = metadata[v]
    PROVE  CountInv'
<1>1. /\ fit'[w] = f /\ \A x \in Trainers \ {w} : fit'[x] = fit[x]
      /\ FitsTyped
    BY MovedFit DEF CountInv
<1>2. LedgerTyped' /\ (looks \in Nat)' /\ (LedgerCorrupt' <=> LedgerCorrupt)
    BY DEF CountInv, LedgerTyped, LedgerCorrupt
<1>3. Alone'
    BY <1>1 DEF CountInv, Alone, Active, Trainers
<1>4. \A t : Completed(t)' <=> Completed(t)
    BY DEF Completed, Ended
<1>5. ASSUME NEW n \in Nat, Counted(n) PROVE Counted(n)'
    BY <1>1, <1>5 DEF Counted, CountedFit, Registered, EndedTrials, Ended
<1>6. ASSUME NEW n \in Nat, Counted(n), Named(n) PROVE Named(n)'
    <2>1. NamedFit(f, n)'
        BY <1>1, <1>4, <1>6 DEF NamedFit
    <2>2. \A x \in Trainers \ {w} : NamedFit(fit[x], n)'
        BY <1>1, <1>4, <1>6 DEF Named, NamedFit
    <2>3. (\A v \in DOMAIN metadata : metadata[v].own => Completed(metadata[v].trial))'
        <3>1. \A v \in DOMAIN metadata : metadata[v].own => Completed(metadata[v].trial)
            BY <1>6 DEF Named
        <3>2. fit[w].step = "describe" => Completed(fit[w].trial)
            BY <1>6 DEF Named, NamedFit
        <3>3. \A v \in DOMAIN metadata' : metadata'[v].own => Completed(metadata'[v].trial)
            BY <3>1, <3>2
        <3> QED BY <1>4, <3>3
    <2> QED BY <1>1, <2>1, <2>2, <2>3 DEF Named
<1>7. promotion' \in [step : {"idle", "evaluate", "judge"}, trial : Nat]
    BY DEF CountInv
<1> QED BY <1>2, <1>3, <1>5, <1>6, <1>7 DEF CountInv

LEMMA RepointedTable ==
    ASSUME NEW t \in Table, NEW a \in Aliases, NEW v \in Versions
    PROVE  Repointed(t, a, v) \in Table /\ DOMAIN Repointed(t, a, v) = DOMAIN t \union {a}
<1>1. PICK D \in SUBSET Aliases : t \in [D -> Versions]
    BY DEF Table
<1>2. Repointed(t, a, v) \in [D \union {a} -> Versions] /\ DOMAIN t = D
    BY <1>1 DEF Repointed
<1>3. D \union {a} \in SUBSET Aliases
    OBVIOUS
<1>4. Repointed(t, a, v) \in Table
    BY <1>2, <1>3, Zenon DEF Table
<1> QED BY <1>2, <1>4

(* The fits stay fits, whatever step is taken.                             *)
LEMMA FitsStayTyped ==
    ASSUME CountInv, RegistryTypeOK, RetrainNext
    PROVE  FitsTyped'
<1>1. FitsTyped /\ looks \in Nat
    BY DEF CountInv
<1>2. ASSUME NEW w \in Trainers, Ends(w) PROVE FitsTyped'
    BY <1>1, <1>2, FitTyped DEF Ends, Fresh
<1>3. ASSUME NEW w \in Trainers, NEW step \in FitSteps \ {"idle", "register"},
             fit[w].step \notin {"idle", "register"}, FitTo(w, step)
      PROVE  FitsTyped'
    <2>1. PICK f : f = Now(w, step, fit[w].trial, fit[w].score, fit[w].version, fit[w].table)
        OBVIOUS
    <2>2. Moved(w, f)
        BY <1>1, <1>3, <2>1, FitsMove
    <2>3. f \in Fit /\ f.segment \in Segments /\ f.version \in Versions
        BY <1>1, <1>3, <2>1 DEF FitsTyped, Now, Fit, Active
    <2> QED BY <1>1, <2>2, <2>3, FitTyped
<1>4. ASSUME NEW w \in Trainers, PreRegister(w) PROVE FitsTyped'
    <2>1. CASE LedgerCorrupt
        BY <1>1, <1>2, <1>4, <2>1, FitsMove DEF PreRegister
    <2>2. CASE ~LedgerCorrupt
        <3>1. PICK f : f = Now(w, "score", TrialCount + 1, fit[w].score, looks + 1, fit[w].table)
            OBVIOUS
        <3>2. Moved(w, f)
            BY <1>1, <1>4, <2>2, <3>1, FitsMoveOn
        <3>3. TrialCount \in Nat
            BY <2>2, CountReads DEF CountInv, Counted
        <3>4. looks < MaxTrials /\ MaxTrials \in Nat /\ Active(w)
            BY <1>4, RetrainBoundsAssumption DEF PreRegister, FitAt, Active
        <3>5. looks + 1 \in Versions
            BY <1>1, <3>4 DEF Versions
        <3>6. f \in Fit /\ f.segment \in Segments /\ f.version \in Versions
            BY <1>1, <3>1, <3>3, <3>4, <3>5 DEF FitsTyped, Now, Fit, FitSteps
        <3> QED BY <1>1, <3>2, <3>6, FitTyped
    <2> QED BY <2>1, <2>2
<1>5. ASSUME NEW w \in Trainers, Score(w) PROVE FitsTyped'
    <2>1. PICK score \in Scores :
                Moved(w, Now(w, "settle", fit[w].trial, score, fit[w].version, fit[w].table))
        BY <1>1, <1>5, FitsMoveOn
    <2>2. PICK f : f = Now(w, "settle", fit[w].trial, score, fit[w].version, fit[w].table)
        OBVIOUS
    <2>3. fit[w].step = "score" /\ score \in Nat
        BY <1>5, ScoresAssumption DEF Score, FitAt
    <2>4. f \in Fit /\ f.segment \in Segments /\ f.version \in Versions
        BY <1>1, <2>2, <2>3 DEF FitsTyped, Now, Fit, FitSteps, Active
    <2> QED BY <1>1, <2>1, <2>2, <2>4, FitTyped
<1>6. ASSUME NEW w \in Trainers, NameTrial(w) PROVE FitsTyped'
    <2>1. CASE LedgerCorrupt
        BY <1>1, <1>2, <1>6, <2>1, FitsMove DEF NameTrial
    <2>2. CASE ~LedgerCorrupt
        <3>1. PICK f : f = Now(w, "file", LastTrial, fit[w].score, fit[w].version, fit[w].table)
            OBVIOUS
        <3>2. Moved(w, f) /\ fit[w].step = "settle"
            BY <1>1, <1>6, <2>2, <3>1, FitsMoveOn DEF NameTrial, FitAt
        <3>3. PICK n \in Nat : Counted(n)
            BY <2>2 DEF CountInv
        <3>4. n # 0 /\ Registered(n)
            BY <3>2, <3>3 DEF Counted, CountedFit
        <3>5. LastTrial \in Nat
            BY <2>2, <3>4, CountReads DEF CountInv
        <3>6. f \in Fit /\ f.segment \in Segments /\ f.version \in Versions
            BY <1>1, <3>1, <3>2, <3>5 DEF FitsTyped, Now, Fit, FitSteps, Active
        <3> QED BY <1>1, <3>2, <3>6, FitTyped
    <2> QED BY <2>1, <2>2
<1>7. ASSUME NEW w \in Trainers, ReadAliases(w) PROVE FitsTyped'
    <2>1. CASE ~AliasesReadable
        BY <1>1, <1>2, <1>7, <2>1, FitsMove DEF ReadAliases
    <2>2. CASE AliasesReadable
        <3>1. PICK t : t = Repointed(aliasFile.table, Alias(w), fit[w].version)
            OBVIOUS
        <3>2. PICK f : f = Now(w, "open", 0, 0, fit[w].version, t)
            BY SMTT(60)
        <3>3. Moved(w, f) /\ fit[w].step = "read"
            BY <1>1, <1>7, <2>2, <3>1, <3>2, FitsMoveOn DEF ReadAliases, FitAt
        <3>4. /\ fit[w].version \in Versions /\ fit[w].segment \in Segments
              /\ fit[w].family \in Families
            BY <1>1, <3>3 DEF FitsTyped, Active, Fit
        <3>5. t \in Table
            BY <3>1, <3>4, RepointedTable DEF RegistryTypeOK, File, Alias, Aliases
        <3>6. f \in Fit /\ f.segment \in Segments /\ f.version \in Versions
            BY <1>1, <3>2, <3>3, <3>4, <3>5 DEF FitsTyped, Now, Fit, FitSteps
        <3> QED BY <1>1, <3>3, <3>6, FitTyped
    <2> QED BY <2>1, <2>2
<1>8. ASSUME NEW w \in Trainers,
             \/ Abandon(w) \/ LearnNothing(w) \/ KillFit(w) \/ RecordAlias(w)
      PROVE  FitsTyped'
    <2>1. Ends(w)
        BY <1>1, <1>8, FitsMove
           DEF Abandon, LearnNothing, KillFit, RecordAlias, FitAt, Active
    <2> QED BY <1>2, <2>1
<1>9. ASSUME NEW w \in Trainers,
             \/ FileArtifact(w) \/ FileMetadata(w) \/ Compare(w)
             \/ OpenAliases(w) \/ WriteAliases(w) \/ RenameAliases(w)
      PROVE  FitsTyped'
    <2>1. fit[w].step \notin {"idle", "register"} /\ Active(w)
        BY <1>9 DEF FileArtifact, FileMetadata, Compare, OpenAliases, WriteAliases,
                    RenameAliases, FitAt, Active
    <2>2. \/ \E step \in FitSteps \ {"idle", "register"} : FitTo(w, step)
          \/ Dies(w) \/ AfterFamily(w)
        BY <1>9 DEF FileArtifact, FileMetadata, Compare, OpenAliases, WriteAliases,
                    RenameAliases, FitSteps
    <2> QED BY <1>1, <1>2, <1>3, <2>1, <2>2, FitsMove
<1>10. CASE KillSupervisor
    BY <1>1, <1>10, SupervisorKilled, NoTableIsTable DEF FitsTyped, Trainers, Active
<1>11. ASSUME NEW s \in Segments, StartFit(s) PROVE FitsTyped'
    <2>1. /\ fit["supervised"].step = "idle" /\ "supervised" \in Trainers
          /\ fit' = [fit EXCEPT !["supervised"].step = "register", !["supervised"].segment = s]
        BY <1>11 DEF StartFit, FitAt, Trainers
    <2>2. PICK f : f = [fit["supervised"] EXCEPT !.step = "register"]
        OBVIOUS
    <2>3. PICK g : g = [f EXCEPT !.segment = s]
        OBVIOUS
    <2>4. f \in Fit /\ f.step = "register"
        BY <1>1, <2>1, <2>2 DEF FitsTyped, Fit, FitSteps
    <2>5. g \in Fit /\ g.step = "register" /\ g.segment = s
        BY <2>3, <2>4 DEF Fit
    <2>6. Moved("supervised", g)
        BY <1>1, <2>1, <2>2, <2>3 DEF Moved, FitsTyped
    <2> QED BY <1>1, <2>1, <2>5, <2>6, FitTyped
<1>12. ASSUME UNCHANGED fit PROVE FitsTyped'
    BY <1>1, <1>12 DEF FitsTyped, Active
<1>13. ASSUME NEW s \in Segments, Adopt(s) PROVE FitsTyped'
    BY <1>12, <1>13 DEF Adopt
<1>14. CASE BeginPromotion \/ EvaluateFolds \/ Verdict
    BY <1>12, <1>14 DEF BeginPromotion, EvaluateFolds, Verdict
<1> QED BY <1>4, <1>5, <1>6, <1>7, <1>8, <1>9, <1>10, <1>11, <1>13, <1>14
        DEF RetrainNext, FitStep

(* Two things an append can be: of a trial that is there, and of the next. *)
LEMMA SettledReads ==
    ASSUME LedgerTyped, NEW n \in Nat, Registered(n), NEW t \in 1 .. n,
           NEW outcome \in Outcomes, AppendRow(TrialRow(t, outcome)), ~LedgerCorrupt'
    PROVE  Registered(n)'
<1>1. t \in Nat
    OBVIOUS
<1>2. ledgerCut' = FALSE /\ EndedTrials' = EndedTrials \union {t}
    BY <1>1, AppendReads
<1> QED BY <1>2 DEF Registered

LEMMA NextReads ==
    ASSUME LedgerTyped, NEW n \in Nat, Registered(n), ~LedgerCorrupt,
           AppendRow(NextTrial), ~LedgerCorrupt'
    PROVE  Registered(n + 1)' /\ TrialCount = n
<1>1. TrialCount \in Nat /\ (~ledgerCut => TrialCount = n) /\ "pending" \in Outcomes
    BY CountReads DEF Outcomes
<1>2. AppendRow(TrialRow(TrialCount + 1, "pending")) /\ TrialCount + 1 \in Nat
    BY <1>1 DEF NextTrial
<1>3. ~ledgerCut /\ ledgerCut' = FALSE /\ EndedTrials' = EndedTrials \union {TrialCount + 1}
    BY <1>1, <1>2, AppendReads
<1> QED BY <1>1, <1>3 DEF Registered

(* A trial is settled, and the fit has measured itself or is over.         *)
LEMMA SettledCount ==
    ASSUME CountInv, FitsTyped', NEW w \in Trainers, FitAt(w, "score"),
           NEW f, Moved(w, f), NEW outcome \in Outcomes, Settled(w, outcome),
           f.step # "settle" => f.step = "idle",
           f.step = "settle" => f.trial = fit[w].trial /\ outcome = "complete",
           UNCHANGED <<looks, overlapped, promotion, metadata>>
    PROVE  CountInv'
<1>1. /\ fit'[w] = f /\ \A x \in Trainers \ {w} : fit'[x] = fit[x]
      /\ fit[w] \in Fit /\ fit[w].step = "score" /\ fit[w].trial \in Nat
    BY MovedFit DEF CountInv, FitsTyped, Fit, FitAt
<1>2. PICK t \in Nat : t = fit[w].trial /\ AppendRow(TrialRow(t, outcome))
    BY <1>1 DEF Settled
<1>3. /\ LedgerTyped' /\ ledgerCut' = FALSE
      /\ ~LedgerCorrupt' =>
            /\ ~LedgerCorrupt
            /\ \A u : Completed(u) => Completed(u)'
            /\ outcome = "complete" => Completed(t)'
    BY <1>2, AppendReads DEF CountInv
<1>4. Alone'
    BY <1>1 DEF CountInv, Alone, Active, Trainers
<1>5. ASSUME ~LedgerCorrupt' PROVE (\E n \in Nat : Counted(n) /\ (~overlapped => Named(n)))'
    <2>1. PICK n \in Nat : Counted(n) /\ (~overlapped => Named(n))
        BY <1>3, <1>5 DEF CountInv
    <2>2. fit[w].trial \in 1 .. n /\ Registered(n)
        BY <1>1, <2>1 DEF Counted, CountedFit
    <2>3. Registered(n)'
        BY <1>2, <1>5, <2>2, SettledReads DEF CountInv
    <2>4. \A x \in Trainers : CountedFit(fit[x], n)'
        BY <1>1, <2>1, <2>2 DEF Counted, CountedFit
    <2>5. Counted(n)'
        BY <2>1, <2>3, <2>4 DEF Counted
    <2>6. ASSUME ~overlapped PROVE Named(n)'
        <3>1. \A x \in Trainers \ {w} : fit'[x].step = "idle"
            BY <1>1, <2>6 DEF CountInv, Alone, Active, Trainers
        <3>2. fit[w].trial = n
            BY <1>1, <2>1, <2>6 DEF Named, NamedFit
        <3>3. f.step = "settle" => Completed(f.trial)'
            BY <1>2, <1>3, <1>5
        <3>4. \A x \in Trainers : NamedFit(fit[x], n)'
            BY <1>1, <1>3, <3>1, <3>2, <3>3 DEF NamedFit
        <3>5. (\A v \in DOMAIN metadata : metadata[v].own => Completed(metadata[v].trial))'
            BY <1>3, <1>5, <2>1, <2>6 DEF Named
        <3> QED BY <3>4, <3>5 DEF Named
    <2> QED BY <2>5, <2>6
<1> QED BY <1>3, <1>4, <1>5 DEF CountInv

LEMMA PreRegisterCount ==
    ASSUME CountInv, FitsTyped', NEW w \in Trainers, PreRegister(w), ~LedgerCorrupt
    PROVE  CountInv'
<1>1. PICK f : f = Now(w, "score", TrialCount + 1, fit[w].score, looks + 1, fit[w].table)
    OBVIOUS
<1>2. /\ Moved(w, f) /\ f.step = "score" /\ f.trial = TrialCount + 1
      /\ FitAt(w, "register") /\ AppendRow(NextTrial) /\ looks' = looks + 1
      /\ UNCHANGED <<metadata, overlapped, promotion>>
    BY <1>1, FitsMoveOn DEF CountInv, PreRegister, Now, promotionVars, registryVars
<1>3. /\ fit'[w] = f /\ \A x \in Trainers \ {w} : fit'[x] = fit[x]
      /\ fit[w].step = "register"
    BY <1>2, MovedFit DEF CountInv, FitAt
<1>4. TrialCount + 1 \in Nat /\ AppendRow(TrialRow(TrialCount + 1, "pending"))
    BY <1>2, CountReads DEF CountInv, Counted, NextTrial
<1>5. /\ LedgerTyped' /\ ledgerCut' = FALSE
      /\ ~LedgerCorrupt' => \A u : Completed(u) => Completed(u)'
    BY <1>4, AppendReads DEF CountInv, Outcomes
<1>6. Alone'
    BY <1>2, <1>3 DEF CountInv, Alone, Active, Trainers
<1>7. ASSUME ~LedgerCorrupt' PROVE (\E n \in Nat : Counted(n) /\ (~overlapped => Named(n)))'
    <2>1. PICK n \in Nat : Counted(n) /\ (~overlapped => Named(n))
        BY DEF CountInv
    <2>2. Registered(n + 1)' /\ TrialCount = n
        BY <1>2, <1>7, <2>1, NextReads DEF CountInv, Counted
    <2>3. PICK m \in Nat : m = n + 1
        OBVIOUS
    <2>4. \A x \in Trainers : CountedFit(fit[x], m)'
        BY <1>2, <1>3, <2>1, <2>2, <2>3 DEF Counted, CountedFit
    <2>5. Counted(m)'
        BY <1>2, <2>1, <2>2, <2>3, <2>4 DEF Counted, CountInv
    <2>6. ASSUME ~overlapped PROVE Named(m)'
        <3>1. \A x \in Trainers \ {w} : fit'[x].step = "idle"
            BY <1>3, <2>6 DEF CountInv, Alone, Active, Trainers
        <3>2. \A x \in Trainers : NamedFit(fit[x], m)'
            BY <1>2, <1>3, <1>5, <2>2, <2>3, <3>1 DEF NamedFit
        <3>3. (\A v \in DOMAIN metadata : metadata[v].own => Completed(metadata[v].trial))'
            BY <1>2, <1>5, <1>7, <2>1, <2>6 DEF Named
        <3> QED BY <3>2, <3>3 DEF Named
    <2> QED BY <1>2, <2>3, <2>5, <2>6
<1> QED BY <1>2, <1>5, <1>6, <1>7 DEF CountInv

(* A fit is killed inside an append: what it leaves is not counted twice.  *)
LEMMA CutShortCount ==
    ASSUME CountInv, FitsTyped', NEW w \in Trainers, NEW f, Moved(w, f), f.step = "idle",
           NEW t \in Nat, NEW outcome \in Outcomes, AppendPartOf(TrialRow(t, outcome)),
           Active(w), UNCHANGED <<looks, overlapped, promotion, metadata>>,
           \A n \in Nat : Counted(n) /\ ~LedgerCorrupt /\ ~ledgerCut => t \in 1 .. n + 1
    PROVE  CountInv'
<1>1. fit'[w] = f /\ \A x \in Trainers \ {w} : fit'[x] = fit[x]
    BY MovedFit DEF CountInv
<1>2. /\ LedgerTyped' /\ ledgerCut'
      /\ ledger'[Len(ledger')] = Torn \/ (~ledgerCut /\ ledger'[Len(ledger')].trial = t)
      /\ ~LedgerCorrupt' => ~LedgerCorrupt
      /\ EndedTrials' = EndedTrials
      /\ \A u : Completed(u)' <=> Completed(u)
    BY PartReads DEF CountInv
<1>3. Alone'
    BY <1>1 DEF CountInv, Alone, Active, Trainers
<1>4. ASSUME ~LedgerCorrupt' PROVE (\E n \in Nat : Counted(n) /\ (~overlapped => Named(n)))'
    <2>1. PICK n \in Nat : Counted(n) /\ (~overlapped => Named(n))
        BY <1>2, <1>4 DEF CountInv
    <2>2. Registered(n)'
        BY <1>2, <1>4, <2>1 DEF Registered, Counted
    <2>3. \A x \in Trainers : CountedFit(fit[x], n)'
        BY <1>1, <2>1 DEF Counted, CountedFit
    <2>4. Counted(n)'
        BY <2>1, <2>2, <2>3 DEF Counted
    <2>5. ASSUME ~overlapped PROVE Named(n)'
        <3>1. \A x \in Trainers \ {w} : fit'[x].step = "idle"
            BY <1>1, <2>5 DEF CountInv, Alone, Active, Trainers
        <3>2. \A x \in Trainers : NamedFit(fit[x], n)'
            BY <1>1, <3>1 DEF NamedFit
        <3>3. (\A v \in DOMAIN metadata : metadata[v].own => Completed(metadata[v].trial))'
            BY <1>2, <2>1, <2>5 DEF Named
        <3> QED BY <3>2, <3>3 DEF Named
    <2> QED BY <2>4, <2>5
<1> QED BY <1>2, <1>3, <1>4 DEF CountInv

LEMMA PromotionCount ==
    ASSUME CountInv, FitsTyped', BeginPromotion \/ EvaluateFolds
    PROVE  CountInv'
<1>1. /\ fit' = fit /\ metadata' = metadata /\ LedgerTyped
      /\ promotion \in [step : {"idle", "evaluate", "judge"}, trial : Nat]
    BY DEF BeginPromotion, EvaluateFolds, registryVars, CountInv
<1>2. CASE BeginPromotion
    <2>1. /\ ~LedgerCorrupt /\ AppendRow(NextTrial) /\ looks' = looks + 1
          /\ promotion' = [step |-> "evaluate", trial |-> TrialCount + 1]
          /\ overlapped' = (overlapped \/ \E w \in Trainers : Active(w))
        BY <1>2 DEF BeginPromotion, NextTrial, TrialRow, FitAt, Active
    <2>2. PICK n \in Nat : Counted(n) /\ (~overlapped => Named(n))
        BY <2>1 DEF CountInv
    <2>3. TrialCount + 1 \in Nat /\ AppendRow(TrialRow(TrialCount + 1, "pending"))
        BY <1>1, <2>1, <2>2, CountReads DEF Counted, NextTrial
    <2>4. /\ LedgerTyped' /\ ledgerCut' = FALSE
          /\ ~LedgerCorrupt' => \A u : Completed(u) => Completed(u)'
        BY <1>1, <2>3, AppendReads DEF Outcomes
    <2>5. Alone' /\ promotion' \in [step : {"idle", "evaluate", "judge"}, trial : Nat]
        BY <1>1, <2>1, <2>3 DEF CountInv, Alone, Active, Trainers
    <2>6. ASSUME ~LedgerCorrupt'
          PROVE  (\E m \in Nat : Counted(m) /\ (~overlapped => Named(m)))'
        <3>1. PICK m \in Nat : m = n + 1
            OBVIOUS
        <3>2. Registered(m)' /\ TrialCount = n
            BY <1>1, <2>1, <2>2, <2>6, <3>1, NextReads DEF Counted
        <3>3. \A x \in Trainers : CountedFit(fit[x], m)'
            BY <1>1, <2>2, <3>1 DEF Counted, CountedFit
        <3>4. promotion'.trial \in 1 .. m /\ looks' <= m
            BY <2>1, <2>2, <3>1, <3>2 DEF CountInv, Counted
        <3>5. Counted(m)'
            BY <3>2, <3>3, <3>4 DEF Counted
        <3>6. ASSUME ~overlapped' PROVE Named(m)'
            <4>1. \A x \in Trainers : fit'[x].step = "idle"
                BY <1>1, <2>1, <3>6 DEF Active
            <4>2. \A x \in Trainers : NamedFit(fit[x], m)'
                BY <4>1 DEF NamedFit
            <4>3. (\A v \in DOMAIN metadata : metadata[v].own => Completed(metadata[v].trial))'
                BY <1>1, <2>1, <2>2, <2>4, <2>6, <3>6 DEF Named
            <4> QED BY <4>2, <4>3 DEF Named
        <3> QED BY <3>1, <3>5, <3>6
    <2>7. looks' \in Nat
        BY <2>1 DEF CountInv
    <2> QED BY <2>4, <2>5, <2>6, <2>7 DEF CountInv
<1>3. CASE EvaluateFolds
    <2>1. PICK outcome \in Outcomes, t \in Nat :
            /\ t = promotion.trial /\ AppendRow(TrialRow(t, outcome))
            /\ promotion.step = "evaluate" /\ UNCHANGED <<looks, overlapped>>
            /\ promotion' \in [step : {"idle", "evaluate", "judge"}, trial : Nat]
            /\ promotion'.step # "evaluate"
        <3>1. \/ AppendRow(TrialRow(promotion.trial, "complete"))
              \/ AppendRow(TrialRow(promotion.trial, "abandoned"))
            BY <1>3 DEF EvaluateFolds
        <3>2. /\ promotion.step = "evaluate" /\ UNCHANGED <<looks, overlapped>>
              /\ promotion' \in [step : {"idle", "evaluate", "judge"}, trial : Nat]
              /\ promotion'.step # "evaluate" /\ promotion.trial \in Nat
            BY <1>1, <1>3 DEF EvaluateFolds, NoPromotion
        <3> QED BY <3>1, <3>2 DEF Outcomes
    <2>2. /\ LedgerTyped' /\ ledgerCut' = FALSE
          /\ ~LedgerCorrupt' =>
                ~LedgerCorrupt /\ \A u : Completed(u) => Completed(u)'
        BY <1>1, <2>1, AppendReads
    <2>3. ~overlapped => \A x \in Trainers : fit'[x].step = "idle"
        BY <1>1, <2>1 DEF CountInv, Alone, Active, NoPromotion
    <2>4. Alone'
        BY <1>1, <2>1, <2>3 DEF Alone, Active, Trainers
    <2>5. ASSUME ~LedgerCorrupt'
          PROVE  (\E n \in Nat : Counted(n) /\ (~overlapped => Named(n)))'
        <3>1. PICK n \in Nat : Counted(n) /\ (~overlapped => Named(n))
            BY <2>2, <2>5 DEF CountInv
        <3>2. Registered(n)'
            BY <1>1, <2>1, <2>5, <3>1, SettledReads DEF Counted
        <3>3. Counted(n)'
            BY <1>1, <2>1, <3>1, <3>2 DEF Counted, CountedFit
        <3>4. ~overlapped => Named(n)'
            BY <1>1, <2>2, <2>3, <2>5, <3>1 DEF Named, NamedFit
        <3> QED BY <2>1, <3>3, <3>4
    <2> QED BY <2>1, <2>2, <2>4, <2>5 DEF CountInv
<1> QED BY <1>2, <1>3

(* The steps that begin a fit, orphan one, or read the verdict.            *)
LEMMA HostCount ==
    ASSUME CountInv, FitsTyped',
           KillSupervisor \/ Verdict \/ \E s \in Segments : StartFit(s) \/ Adopt(s)
    PROVE  CountInv'
<1>1. /\ UNCHANGED <<ledger, ledgerCut, looks, metadata>> /\ FitsTyped /\ LedgerTyped
      /\ promotion \in [step : {"idle", "evaluate", "judge"}, trial : Nat]
    BY DEF KillSupervisor, Verdict, StartFit, Adopt, ledgerVars, registryVars, CountInv
<1>2. /\ \A n : Registered(n)' <=> Registered(n)
      /\ \A t : Completed(t)' <=> Completed(t)
      /\ LedgerCorrupt' <=> LedgerCorrupt
      /\ LedgerTyped' /\ looks' \in Nat
    BY <1>1 DEF Registered, Completed, EndedTrials, Ended, LedgerCorrupt, LedgerTyped, CountInv
<1>3. CASE KillSupervisor
    <2>1. /\ fit'["supervised"].step = "idle" /\ fit'["orphan"] = fit["supervised"]
          /\ Active("supervised") /\ ~Active("orphan")
          /\ UNCHANGED <<overlapped, promotion>>
        BY <1>1, <1>3, SupervisorKilled, NoTableIsTable DEF KillSupervisor, promotionVars
    <2>2. Alone'
        BY <2>1 DEF CountInv, Alone, Active, Trainers
    <2>3. \A n \in Nat : Counted(n) => Counted(n)'
        BY <1>1, <1>2, <2>1 DEF Counted, CountedFit, Trainers
    <2>4. \A n \in Nat : Named(n) => Named(n)'
        BY <1>1, <1>2, <2>1 DEF Named, NamedFit, Trainers
    <2> QED BY <1>1, <1>2, <2>1, <2>2, <2>3, <2>4 DEF CountInv
<1>4. CASE Verdict \/ \E s \in Segments : Adopt(s)
    <2>1. /\ UNCHANGED <<fit, overlapped>>
          /\ promotion' = promotion \/ promotion' = NoPromotion
        BY <1>4 DEF Verdict, Adopt, promotionVars
    <2>2. Alone' /\ promotion' \in [step : {"idle", "evaluate", "judge"}, trial : Nat]
        BY <1>1, <2>1 DEF CountInv, Alone, Active, NoPromotion
    <2>3. \A n \in Nat : Counted(n) => Counted(n)'
        BY <1>1, <1>2, <2>1 DEF Counted, CountedFit, NoPromotion
    <2>4. \A n \in Nat : Named(n) => Named(n)'
        BY <1>1, <1>2, <2>1 DEF Named, NamedFit
    <2> QED BY <1>2, <2>1, <2>2, <2>3, <2>4 DEF CountInv
<1>5. ASSUME NEW s \in Segments, StartFit(s) PROVE CountInv'
    <2>1. /\ fit["supervised"].step = "idle" /\ "supervised" \in Trainers
          /\ fit' = [fit EXCEPT !["supervised"].step = "register", !["supervised"].segment = s]
          /\ overlapped' = (overlapped \/ Active("orphan") \/ promotion # NoPromotion)
          /\ promotion' = promotion
        BY <1>5 DEF StartFit, FitAt, Trainers, Active, promotionVars
    <2>2. fit'["supervised"].step = "register" /\ fit'["orphan"] = fit["orphan"]
        BY <1>1, <2>1 DEF FitsTyped, Fit, Trainers
    <2>3. Alone'
        BY <2>1, <2>2 DEF Alone, Active, Trainers
    <2>4. \A n \in Nat : Counted(n) => Counted(n)'
        BY <1>1, <1>2, <2>1, <2>2 DEF Counted, CountedFit, Trainers
    <2>5. \A n \in Nat : Named(n) => Named(n)'
        BY <1>1, <1>2, <2>2 DEF Named, NamedFit, Trainers
    <2>6. ~overlapped' => ~overlapped
        BY <2>1
    <2> QED BY <1>1, <1>2, <2>1, <2>3, <2>4, <2>5, <2>6 DEF CountInv
<1> QED BY <1>3, <1>4, <1>5

LEMMA CountStep ==
    ASSUME CountInv, RegistryTypeOK, RetrainNext
    PROVE  CountInv'
<1>1. FitsTyped' /\ FitsTyped
    BY FitsStayTyped DEF CountInv
<1>2. ASSUME NEW w \in Trainers, Ends(w), Active(w), UNCHANGED metadata,
             UNCHANGED <<ledger, ledgerCut, looks, overlapped, promotion>>
      PROVE  CountInv'
    BY <1>1, <1>2, QuietCount DEF Ends, Fresh
<1>3. ASSUME NEW w \in Trainers, NEW step \in FitSteps \ {"idle", "score", "settle", "file"},
             FitTo(w, step), Active(w), step = "describe" => fit[w].step = "file",
             UNCHANGED <<ledger, ledgerCut, looks, overlapped, promotion>>,
             \A v \in DOMAIN metadata' :
                metadata'[v].own =>
                    \/ fit[w].step = "describe" /\ metadata'[v].trial = fit[w].trial
                    \/ v \in DOMAIN metadata /\ metadata'[v] = metadata[v]
      PROVE  CountInv'
    <2>1. PICK f : f = Now(w, step, fit[w].trial, fit[w].score, fit[w].version, fit[w].table)
        OBVIOUS
    <2>2. Moved(w, f) /\ f.step = step /\ f.trial = fit[w].trial
        BY <1>1, <1>3, <2>1, FitsMove DEF Now
    <2>3. \A n \in Nat : f.step \in {"file", "describe"} /\ Counted(n) /\ Named(n) =>
                Completed(f.trial)
        BY <1>3, <2>2 DEF Named, NamedFit
    <2> QED BY <1>1, <1>3, <2>2, <2>3, QuietCount
<1>4. ASSUME NEW w \in Trainers, PreRegister(w) PROVE CountInv'
    <2>1. CASE LedgerCorrupt
        BY <1>1, <1>2, <1>4, <2>1, FitsMove
           DEF PreRegister, FitAt, Active, ledgerVars, registryVars, promotionVars
    <2> QED BY <1>1, <1>4, <2>1, PreRegisterCount
<1>5. ASSUME NEW w \in Trainers, Abandon(w) \/ LearnNothing(w) PROVE CountInv'
    <2>1. PICK outcome \in Outcomes : Settled(w, outcome)
        BY <1>5 DEF Abandon, LearnNothing, Outcomes
    <2>2. /\ FitAt(w, "score") /\ Moved(w, Idle) /\ Idle.step = "idle"
          /\ UNCHANGED <<looks, overlapped, promotion, metadata>>
        BY <1>5, NoTableIsTable
           DEF Abandon, LearnNothing, Dies, Moved, registryVars, BotsAndHistory, promotionVars
    <2> QED BY <1>1, <2>1, <2>2, SettledCount
<1>6. ASSUME NEW w \in Trainers, Score(w) PROVE CountInv'
    <2>1. PICK score \in Scores :
                Moved(w, Now(w, "settle", fit[w].trial, score, fit[w].version, fit[w].table))
        BY <1>1, <1>6, FitsMoveOn
    <2>2. PICK f : f = Now(w, "settle", fit[w].trial, score, fit[w].version, fit[w].table)
        OBVIOUS
    <2>3. /\ FitAt(w, "score") /\ Settled(w, "complete") /\ "complete" \in Outcomes
          /\ UNCHANGED <<looks, overlapped, promotion, metadata>>
          /\ f.step = "settle" /\ f.trial = fit[w].trial
        BY <1>6, <2>2 DEF Score, Outcomes, registryVars, BotsAndHistory, promotionVars, Now
    <2> QED BY <1>1, <2>1, <2>2, <2>3, SettledCount
<1>7. ASSUME NEW w \in Trainers, NameTrial(w) PROVE CountInv'
    <2>1. /\ UNCHANGED <<ledger, ledgerCut, metadata, looks, overlapped, promotion>>
          /\ fit[w].step = "settle" /\ Active(w)
        BY <1>7 DEF NameTrial, FitAt, Active, ledgerVars, registryVars, BotsAndHistory,
                    promotionVars
    <2>2. CASE LedgerCorrupt
        BY <1>1, <1>2, <1>7, <2>1, <2>2, FitsMove DEF NameTrial
    <2>3. CASE ~LedgerCorrupt
        <3>1. PICK f : f = Now(w, "file", LastTrial, fit[w].score, fit[w].version, fit[w].table)
            OBVIOUS
        <3>2. Moved(w, f) /\ f.step = "file" /\ f.trial = LastTrial
            BY <1>1, <1>7, <2>3, <3>1, FitsMoveOn DEF Now
        <3>3. ASSUME NEW n \in Nat, Counted(n), Named(n) PROVE Completed(f.trial)
            <4>1. ~ledgerCut /\ fit[w].trial = n /\ n # 0 /\ Completed(n) /\ Registered(n)
                BY <2>1, <3>3 DEF Counted, CountedFit, Named, NamedFit
            <4>2. LastTrial = n
                BY <2>3, <4>1, CountReads DEF CountInv
            <4> QED BY <3>2, <4>1, <4>2
        <3> QED BY <1>1, <2>1, <3>2, <3>3, QuietCount
    <2> QED BY <2>2, <2>3
<1>8. ASSUME NEW w \in Trainers, FileArtifact(w) \/ FileMetadata(w) PROVE CountInv'
    <2>1. /\ UNCHANGED <<ledger, ledgerCut, looks, overlapped, promotion>> /\ Active(w)
          /\ \/ fit[w].step = "file" /\ FitTo(w, "describe") /\ metadata' = metadata
             \/ /\ fit[w].step = "describe" /\ FitTo(w, "compare")
                /\ SaveMetadata(fit[w].version, Facts(w))
        BY <1>8 DEF FileArtifact, FileMetadata, SaveArtifact, FitAt, Active, ledgerVars,
                    BotsAndHistory, promotionVars
    <2>2. ASSUME SaveMetadata(fit[w].version, Facts(w)), NEW v \in DOMAIN metadata'
          PROVE  \/ metadata'[v].trial = fit[w].trial
                 \/ v \in DOMAIN metadata /\ metadata'[v] = metadata[v]
        BY <2>2 DEF SaveMetadata, Facts
    <2>3. "describe" \in FitSteps /\ "compare" \in FitSteps
        BY DEF FitSteps
    <2> QED BY <1>3, <2>1, <2>2, <2>3
<1>9. ASSUME NEW w \in Trainers,
             \/ Compare(w) \/ OpenAliases(w) \/ WriteAliases(w) \/ RenameAliases(w)
             \/ RecordAlias(w)
      PROVE  CountInv'
    <2>1. /\ UNCHANGED <<ledger, ledgerCut, looks, overlapped, promotion, metadata>> /\ Active(w)
          /\ \/ \E step \in {"read", "write", "rename", "record"} : FitTo(w, step)
             \/ Dies(w) \/ AfterFamily(w)
        BY <1>9 DEF Compare, OpenAliases, WriteAliases, RenameAliases, RecordAlias, FitAt,
                    Active, ledgerVars, registryVars, BotsAndHistory, promotionVars,
                    OpenPartial, WritePartial, RenamePartial, LetGo, AppendHistory
    <2>2. \A step \in {"read", "write", "rename", "record"} :
                step \in FitSteps \ {"idle", "score", "settle", "file"} /\ step # "describe"
        BY DEF FitSteps
    <2>3. ASSUME NEW step \in {"read", "write", "rename", "record"}, FitTo(w, step)
          PROVE  CountInv'
        BY <1>3, <2>1, <2>2, <2>3
    <2> QED BY <1>1, <1>2, <2>1, <2>3, FitsMove
<1>10. ASSUME NEW w \in Trainers, ReadAliases(w) PROVE CountInv'
    <2>1. UNCHANGED <<ledger, ledgerCut, looks, overlapped, promotion, metadata>> /\ Active(w)
        BY <1>10 DEF ReadAliases, FitAt, Active, ledgerVars, registryVars, BotsAndHistory,
                     promotionVars
    <2>2. CASE ~AliasesReadable
        BY <1>1, <1>2, <1>10, <2>1, <2>2, FitsMove DEF ReadAliases
    <2>3. CASE AliasesReadable
        <3>1. PICK f : f = Now(w, "open", 0, 0, fit[w].version,
                               Repointed(aliasFile.table, Alias(w), fit[w].version))
            OBVIOUS
        <3>2. Moved(w, f) /\ f.step = "open"
            BY <1>1, <1>10, <2>3, <3>1, FitsMoveOn DEF Now
        <3> QED BY <1>1, <2>1, <3>2, QuietCount
    <2> QED BY <2>2, <2>3
<1>11. ASSUME NEW w \in Trainers, KillFit(w) PROVE CountInv'
    <2>1. /\ UNCHANGED <<looks, overlapped, promotion, metadata>> /\ Active(w)
          /\ Ends(w) /\ Moved(w, Idle) /\ Idle.step = "idle"
        BY <1>1, <1>11, FitsMove, NoTableIsTable
           DEF KillFit, Dies, Moved, LetGo, FitAt, Active, promotionVars
    <2>2. CASE UNCHANGED ledgerVars
        BY <1>2, <2>1, <2>2 DEF ledgerVars
    <2>3. CASE FitAt(w, "register") /\ ~LedgerCorrupt /\ AppendPartOf(NextTrial)
        <3>1. PICK t \in Nat : t = TrialCount + 1
            BY <2>3, CountReads DEF CountInv, Counted
        <3>2. AppendPartOf(TrialRow(t, "pending")) /\ "pending" \in Outcomes
            BY <2>3, <3>1 DEF NextTrial, Outcomes
        <3>3. \A n \in Nat : Counted(n) /\ ~ledgerCut => t \in 1 .. n + 1
            BY <2>3, <3>1, CountReads DEF CountInv, Counted
        <3> QED BY <1>1, <2>1, <3>2, <3>3, CutShortCount
    <2>4. CASE FitAt(w, "score") /\ AppendPartOf(TrialRow(fit[w].trial, "complete"))
        <3>1. PICK t \in Nat : t = fit[w].trial
            BY <1>1 DEF FitsTyped, Fit
        <3>2. AppendPartOf(TrialRow(t, "complete")) /\ "complete" \in Outcomes
            BY <2>4, <3>1 DEF Outcomes
        <3>3. \A n \in Nat : Counted(n) => t \in 1 .. n + 1
            BY <2>4, <3>1 DEF Counted, CountedFit, FitAt
        <3> QED BY <1>1, <2>1, <3>2, <3>3, CutShortCount
    <2> QED BY <1>11, <2>2, <2>3, <2>4 DEF KillFit
<1> QED BY <1>1, <1>4, <1>5, <1>6, <1>7, <1>8, <1>9, <1>10, <1>11, PromotionCount, HostCount
        DEF RetrainNext, FitStep

-----------------------------------------------------------------------------
(* Whatever an alias stands for can be loaded.                             *)

LoadingTable(t) == t \in Table /\ \A a \in DOMAIN t : Loads(t[a])

LoadingFit(f) ==
    /\ LoadingTable(f.table)
    /\ f.step = "describe" => f.version \in artifacts
    /\ f.step \in {"compare", "read"} => Loads(f.version)

RegistryInv ==
    /\ RegistryTypeOK
    /\ LoadingTable(aliasFile.table) /\ LoadingTable(partial.table)
    /\ \A w \in Trainers : LoadingFit(fit[w])

LEMMA FreshLoads ==
    /\ LoadingTable(NoTable)
    /\ \A f : Fresh(f) => LoadingFit(f)
BY NoTableIsTable DEF LoadingTable, LoadingFit, Fresh

LEMMA RepointedLoads ==
    ASSUME NEW t, LoadingTable(t), NEW a \in Aliases, NEW v \in Versions, Loads(v)
    PROVE  LoadingTable(Repointed(t, a, v))
<1>1. Repointed(t, a, v) \in Table /\ DOMAIN Repointed(t, a, v) = DOMAIN t \union {a}
    BY RepointedTable DEF LoadingTable
<1>2. \A x \in DOMAIN t \union {a} : Repointed(t, a, v)[x] = IF x = a THEN v ELSE t[x]
    BY DEF Repointed
<1> QED BY <1>1, <1>2 DEF LoadingTable

(* What is written over a file of aliases is a table, or not JSON.         *)
LEMMA OverwrittenFile ==
    ASSUME NEW file \in File, NEW t, LoadingTable(t)
    PROVE  Overwritten(file, t) \in File /\ LoadingTable(Overwritten(file, t).table)
<1>1. \A is : FileThatIs(is).is = is /\ FileThatIs(is).table = NoTable
    BY DEF FileThatIs
<1>2. FileThatIs("garbled") \in File
    BY NoTableIsTable DEF FileThatIs, File
<1>3. Holding(t) \in File /\ Holding(t).table = t
    BY DEF Holding, File, LoadingTable
<1>4. Overwritten(file, t) \in {FileThatIs("garbled"), Holding(t)}
    BY DEF Overwritten
<1> QED BY <1>1, <1>2, <1>3, <1>4, FreshLoads

(* The registry only grows.                                                *)
LEMMA LoadsForGood ==
    ASSUME artifacts \subseteq artifacts', DOMAIN metadata \subseteq DOMAIN metadata'
    PROVE  /\ \A v : Loads(v) => Loads(v)'
           /\ \A t : LoadingTable(t) => LoadingTable(t)'
BY DEF Loads, LoadingTable

(* One fit moves, and the registry grows or stays.                         *)
LEMMA FitRegistry ==
    ASSUME RegistryInv, FitsTyped, NEW w \in Trainers, NEW f, Moved(w, f), LoadingFit(f)',
           artifacts \subseteq artifacts', DOMAIN metadata \subseteq DOMAIN metadata',
           RegistryTypeOK', LoadingTable(aliasFile.table)', LoadingTable(partial.table)'
    PROVE  RegistryInv'
<1>1. fit'[w] = f /\ \A x \in Trainers \ {w} : fit'[x] = fit[x]
    BY MovedFit
<1>2. \A x \in Trainers \ {w} : LoadingFit(fit[x])'
    BY <1>1, LoadsForGood DEF RegistryInv, LoadingFit
<1> QED BY <1>1, <1>2 DEF RegistryInv

LEMMA RegistryStep ==
    ASSUME RegistryInv, FitsTyped, RetrainNext
    PROVE  RegistryInv'
<1>1. /\ artifacts \subseteq Versions /\ DOMAIN metadata \subseteq Versions
      /\ \A v \in DOMAIN metadata : metadata[v] \in Metadata
      /\ aliasFile \in File /\ partial \in File
      /\ writing \in [Trainers -> {"nothing", "partial", "aliases"}]
      /\ history \in [Aliases -> Versions \union {NoVersion}]
    BY DEF RegistryInv, RegistryTypeOK
<1>2. \A is \in {"absent", "empty"} :
        FileThatIs(is) \in File /\ FileThatIs(is).table = NoTable
    BY NoTableIsTable DEF FileThatIs, File
<1>3. ASSUME NEW w \in Trainers, NEW f, Moved(w, f), LoadingFit(f), UNCHANGED registryVars
      PROVE  RegistryInv'
    <2>1. /\ UNCHANGED <<artifacts, metadata, aliasFile, partial, writing, history>>
        BY <1>3 DEF registryVars
    <2>2. RegistryTypeOK' /\ LoadingTable(aliasFile.table)' /\ LoadingTable(partial.table)'
        BY <2>1, LoadsForGood DEF RegistryInv, RegistryTypeOK
    <2>3. LoadingFit(f)'
        BY <1>3, <2>1, LoadsForGood DEF LoadingFit
    <2> QED BY <1>3, <2>1, <2>2, <2>3, FitRegistry
<1>4. ASSUME NEW w \in Trainers, Ends(w), UNCHANGED registryVars PROVE RegistryInv'
    BY <1>3, <1>4, FreshLoads DEF Ends
<1>5. ASSUME NEW w \in Trainers, LetGo(w), Dies(w) PROVE RegistryInv'
    <2>1. PICK f : Fresh(f) /\ Moved(w, f)
        BY <1>5, FitsMove DEF Ends
    <2>2. /\ UNCHANGED <<artifacts, metadata, aliasFile, partial, history>>
          /\ writing' \in [Trainers -> {"nothing", "partial", "aliases"}]
        BY <1>1, <1>5 DEF LetGo
    <2>3. RegistryTypeOK' /\ LoadingTable(aliasFile.table)' /\ LoadingTable(partial.table)'
        BY <2>2, LoadsForGood DEF RegistryInv, RegistryTypeOK
    <2>4. LoadingFit(f)'
        BY <2>1, NoTableIsTable DEF Fresh, LoadingFit, LoadingTable
    <2> QED BY <2>1, <2>2, <2>3, <2>4, FitRegistry
<1>6. ASSUME NEW w \in Trainers, PreRegister(w) PROVE RegistryInv'
    <2>1. CASE LedgerCorrupt
        BY <1>4, <1>6, <2>1, FitsMove DEF PreRegister
    <2>2. CASE ~LedgerCorrupt
        <3>1. PICK f : f = Now(w, "score", TrialCount + 1, fit[w].score, looks + 1, fit[w].table)
            OBVIOUS
        <3>2. Moved(w, f) /\ LoadingFit(f)
            BY <1>6, <2>2, <3>1, FitsMoveOn DEF RegistryInv, LoadingFit, Now
        <3> QED BY <1>3, <1>6, <3>2 DEF PreRegister
    <2> QED BY <2>1, <2>2
<1>7. ASSUME NEW w \in Trainers, Abandon(w) \/ LearnNothing(w) PROVE RegistryInv'
    BY <1>4, <1>7, FitsMove DEF Abandon, LearnNothing
<1>8. ASSUME NEW w \in Trainers, Score(w) PROVE RegistryInv'
    <2>1. PICK score \in Scores :
                Moved(w, Now(w, "settle", fit[w].trial, score, fit[w].version, fit[w].table))
        BY <1>8, FitsMoveOn
    <2>2. PICK f : f = Now(w, "settle", fit[w].trial, score, fit[w].version, fit[w].table)
        OBVIOUS
    <2>3. LoadingFit(f)
        BY <2>2 DEF RegistryInv, LoadingFit, Now
    <2> QED BY <1>3, <1>8, <2>1, <2>2, <2>3 DEF Score
<1>9. ASSUME NEW w \in Trainers, NameTrial(w) PROVE RegistryInv'
    <2>1. CASE LedgerCorrupt
        BY <1>4, <1>9, <2>1, FitsMove DEF NameTrial
    <2>2. CASE ~LedgerCorrupt
        <3>1. PICK f : f = Now(w, "file", LastTrial, fit[w].score, fit[w].version, fit[w].table)
            OBVIOUS
        <3>2. Moved(w, f) /\ LoadingFit(f)
            BY <1>9, <2>2, <3>1, FitsMoveOn DEF RegistryInv, LoadingFit, Now
        <3> QED BY <1>3, <1>9, <3>2 DEF NameTrial
    <2> QED BY <2>1, <2>2
<1>10. ASSUME NEW w \in Trainers, FileArtifact(w) PROVE RegistryInv'
    <2>1. /\ fit[w].step = "file" /\ artifacts' = artifacts \union {fit[w].version}
          /\ UNCHANGED <<metadata, aliasFile, partial, writing, history>>
          /\ FitTo(w, "describe")
        BY <1>10 DEF FileArtifact, SaveArtifact, FitAt
    <2>2. PICK f : f = Now(w, "describe", fit[w].trial, fit[w].score, fit[w].version,
                           fit[w].table)
        OBVIOUS
    <2>3. /\ Moved(w, f) /\ f.step = "describe" /\ f.version = fit[w].version
          /\ f.table = fit[w].table
        BY <2>1, <2>2, FitsMove DEF Now, FitSteps
    <2>4. RegistryTypeOK'
        BY <1>1, <2>1 DEF RegistryTypeOK, FitsTyped
    <2>5. LoadingTable(aliasFile.table)' /\ LoadingTable(partial.table)' /\ LoadingFit(f)'
        BY <2>1, <2>3, LoadsForGood DEF RegistryInv, LoadingFit
    <2> QED BY <2>1, <2>3, <2>4, <2>5, FitRegistry
<1>11. ASSUME NEW w \in Trainers, FileMetadata(w) PROVE RegistryInv'
    <2>1. /\ fit[w].step = "describe" /\ UNCHANGED <<artifacts, aliasFile, partial, writing, history>>
          /\ FitTo(w, "compare")
          /\ metadata' = [x \in DOMAIN metadata \union {fit[w].version} |->
                            IF x = fit[w].version THEN Facts(w) ELSE metadata[x]]
        BY <1>11 DEF FileMetadata, SaveMetadata, FitAt
    <2>2. PICK f : f = Now(w, "compare", fit[w].trial, fit[w].score, fit[w].version,
                           fit[w].table)
        OBVIOUS
    <2>3. /\ Moved(w, f) /\ f.step = "compare" /\ f.version = fit[w].version
          /\ f.table = fit[w].table
        BY <2>1, <2>2, FitsMove DEF Now, FitSteps
    <2>4. Facts(w) \in Metadata /\ fit[w].version \in Versions
        BY <2>1 DEF FitsTyped, Fit, Facts, Metadata
    <2>5. RegistryTypeOK' /\ fit[w].version \in DOMAIN metadata'
        BY <1>1, <2>1, <2>4 DEF RegistryTypeOK
    <2>6. LoadingTable(aliasFile.table)' /\ LoadingTable(partial.table)' /\ LoadingFit(f)'
        <3>1. fit[w].version \in artifacts
            BY <2>1 DEF RegistryInv, LoadingFit
        <3>2. Loads(f.version)'
            BY <2>1, <2>3, <2>5, <3>1 DEF Loads
        <3> QED BY <2>1, <2>3, <3>2, LoadsForGood DEF RegistryInv, LoadingFit
    <2> QED BY <2>1, <2>3, <2>5, <2>6, FitRegistry
<1>12. ASSUME NEW w \in Trainers, Compare(w) PROVE RegistryInv'
    <2>1. fit[w].step = "compare" /\ Active(w) /\ UNCHANGED registryVars
        BY <1>12 DEF Compare, FitAt, Active
    <2>2. CASE FitTo(w, "read")
        <3>1. PICK f : f = Now(w, "read", fit[w].trial, fit[w].score, fit[w].version,
                               fit[w].table)
            OBVIOUS
        <3>2. Moved(w, f)
            BY <2>2, <3>1, FitsMove DEF FitSteps
        <3>3. LoadingFit(f)
            BY <2>1, <3>1 DEF RegistryInv, LoadingFit, Now
        <3> QED BY <1>3, <2>1, <3>2, <3>3
    <2> QED BY <1>4, <1>12, <2>1, <2>2, FitsMove DEF Compare
<1>13. ASSUME NEW w \in Trainers, ReadAliases(w) PROVE RegistryInv'
    <2>1. CASE ~AliasesReadable
        BY <1>4, <1>13, <2>1, FitsMove DEF ReadAliases
    <2>2. CASE AliasesReadable
        <3>1. PICK t : t = Repointed(aliasFile.table, Alias(w), fit[w].version)
            OBVIOUS
        <3>2. PICK f : f = Now(w, "open", 0, 0, fit[w].version, t)
            BY SMTT(60)
        <3>3. fit[w].step = "read" /\ Moved(w, f)
            BY <1>13, <2>2, <3>1, <3>2, FitsMoveOn DEF ReadAliases, FitAt
        <3>4. fit[w].version \in Versions /\ Alias(w) \in Aliases /\ Loads(fit[w].version)
            BY <3>3 DEF FitsTyped, Fit, Active, Alias, Aliases, RegistryInv, LoadingFit
        <3>5. LoadingFit(f)
            BY <3>1, <3>2, <3>4, RepointedLoads DEF RegistryInv, LoadingFit, Now
        <3> QED BY <1>3, <1>13, <3>3, <3>5 DEF ReadAliases
    <2> QED BY <2>1, <2>2
<1>14. ASSUME NEW w \in Trainers, NEW step \in {"write", "rename", "record"}, FitTo(w, step),
              UNCHANGED <<artifacts, metadata>>, RegistryTypeOK',
              LoadingTable(aliasFile.table), LoadingTable(aliasFile.table)',
              LoadingTable(partial.table)'
       PROVE  RegistryInv'
    <2>1. PICK f : f = Now(w, step, fit[w].trial, fit[w].score, fit[w].version, fit[w].table)
        OBVIOUS
    <2>2. Moved(w, f) /\ f.step = step /\ f.table = fit[w].table
        BY <1>14, <2>1, FitsMove DEF Now, FitSteps
    <2>3. LoadingFit(f)'
        BY <1>14, <2>2, LoadsForGood DEF RegistryInv, LoadingFit
    <2> QED BY <1>14, <2>2, <2>3, FitRegistry
<1>15. ASSUME NEW w \in Trainers, OpenAliases(w) PROVE RegistryInv'
    <2>1. /\ partial' = FileThatIs("empty") /\ UNCHANGED <<artifacts, metadata, aliasFile, history>>
          /\ writing' \in [Trainers -> {"nothing", "partial", "aliases"}]
          /\ FitTo(w, "write")
        BY <1>1, <1>15 DEF OpenAliases, OpenPartial
    <2>2. RegistryTypeOK'
        BY <1>1, <1>2, <2>1 DEF RegistryTypeOK
    <2>3. LoadingTable(aliasFile.table)' /\ LoadingTable(partial.table)'
        BY <1>2, <2>1, FreshLoads, LoadsForGood DEF RegistryInv
    <2> QED BY <1>14, <2>1, <2>2, <2>3 DEF RegistryInv
<1>16. ASSUME NEW w \in Trainers, WriteAliases(w) PROVE RegistryInv'
    <2>1. /\ partial' \in {partial, Overwritten(partial, fit[w].table)}
          /\ aliasFile' \in {aliasFile, Overwritten(aliasFile, fit[w].table)}
          /\ UNCHANGED <<artifacts, metadata, writing, history>> /\ FitTo(w, "rename")
        BY <1>16 DEF WriteAliases, WritePartial
    <2>2. LoadingTable(fit[w].table)
        BY DEF RegistryInv, LoadingFit
    <2>3. /\ aliasFile' \in File /\ LoadingTable(aliasFile'.table)
          /\ partial' \in File /\ LoadingTable(partial'.table)
        BY <1>1, <2>1, <2>2, OverwrittenFile DEF RegistryInv
    <2>4. RegistryTypeOK'
        BY <1>1, <2>1, <2>3 DEF RegistryTypeOK
    <2>5. LoadingTable(aliasFile.table)' /\ LoadingTable(partial.table)'
        BY <2>1, <2>3 DEF LoadingTable, Loads
    <2> QED BY <1>14, <2>1, <2>4, <2>5 DEF RegistryInv
<1>17. ASSUME NEW w \in Trainers, RenameAliases(w) PROVE RegistryInv'
    <2>1. CASE RenamePartial(w) /\ FitTo(w, "record")
        <3>1. /\ aliasFile' = partial /\ partial' = FileThatIs("absent")
              /\ UNCHANGED <<artifacts, metadata, history>>
              /\ writing' \in [Trainers -> {"nothing", "partial", "aliases"}]
            BY <2>1 DEF RenamePartial
        <3>2. RegistryTypeOK'
            BY <1>1, <1>2, <3>1 DEF RegistryTypeOK
        <3>3. LoadingTable(aliasFile.table)' /\ LoadingTable(partial.table)'
            BY <1>2, <3>1, FreshLoads, LoadsForGood DEF RegistryInv
        <3> QED BY <1>14, <2>1, <3>1, <3>2, <3>3 DEF RegistryInv
    <2> QED BY <1>5, <1>17, <2>1 DEF RenameAliases
<1>18. ASSUME NEW w \in Trainers, RecordAlias(w) PROVE RegistryInv'
    <2>1. /\ fit[w].step = "record" /\ Active(w) /\ AfterFamily(w)
          /\ UNCHANGED <<artifacts, metadata, aliasFile, partial, writing>>
          /\ history' = [history EXCEPT ![Alias(w)] = fit[w].version]
        BY <1>18 DEF RecordAlias, AppendHistory, FitAt, Active
    <2>2. PICK f : Fresh(f) /\ Moved(w, f)
        BY <2>1, FitsMove DEF Ends
    <2>3. fit[w].version \in Versions
        BY <2>1 DEF FitsTyped
    <2>4. RegistryTypeOK'
        BY <1>1, <2>1, <2>3 DEF RegistryTypeOK
    <2>5. LoadingTable(aliasFile.table)' /\ LoadingTable(partial.table)' /\ LoadingFit(f)'
        BY <2>1, <2>2, FreshLoads, LoadsForGood DEF RegistryInv, LoadingFit
    <2> QED BY <2>1, <2>2, <2>4, <2>5, FitRegistry
<1>19. ASSUME NEW w \in Trainers, KillFit(w) PROVE RegistryInv'
    BY <1>5, <1>19 DEF KillFit
<1>20. ASSUME UNCHANGED <<artifacts, metadata, aliasFile, partial, history>>,
              writing' \in [Trainers -> {"nothing", "partial", "aliases"}],
              \A w \in Trainers : LoadingFit(fit'[w])
       PROVE  RegistryInv'
    <2>1. RegistryTypeOK' /\ LoadingTable(aliasFile.table)' /\ LoadingTable(partial.table)'
        BY <1>1, <1>20, LoadsForGood DEF RegistryInv, RegistryTypeOK
    <2>2. \A w \in Trainers : LoadingFit(fit[w])'
        BY <1>20 DEF LoadingFit, LoadingTable, Loads
    <2> QED BY <2>1, <2>2 DEF RegistryInv
<1>21. CASE KillSupervisor
    <2>1. LoadingFit(Idle)
        BY FreshLoads, NoTableIsTable DEF Fresh
    <2>2. \A w \in Trainers : LoadingFit(fit'[w])
        BY <1>21, <2>1, SupervisorKilled DEF RegistryInv, Trainers
    <2>3. /\ UNCHANGED <<artifacts, metadata, aliasFile, partial, history>>
          /\ writing' \in [Trainers -> {"nothing", "partial", "aliases"}]
        BY <1>1, <1>21 DEF KillSupervisor, Trainers
    <2> QED BY <1>20, <2>2, <2>3
<1>22. ASSUME NEW s \in Segments, StartFit(s) PROVE RegistryInv'
    <2>1. /\ fit' = [fit EXCEPT !["supervised"].step = "register", !["supervised"].segment = s]
          /\ UNCHANGED <<artifacts, metadata, aliasFile, partial, history, writing>>
        BY <1>22 DEF StartFit, registryVars
    <2>2. /\ fit'["orphan"] = fit["orphan"] /\ fit'["supervised"].step = "register"
          /\ fit'["supervised"].table = fit["supervised"].table
        BY <2>1 DEF FitsTyped, Fit, Trainers
    <2>3. \A w \in Trainers : LoadingFit(fit'[w])
        BY <2>2 DEF RegistryInv, LoadingFit, Trainers
    <2> QED BY <1>1, <1>20, <2>1, <2>3
<1>23. ASSUME UNCHANGED <<fit, registryVars>> PROVE RegistryInv'
    BY <1>1, <1>20, <1>23 DEF RegistryInv, registryVars
<1>24. CASE BeginPromotion \/ EvaluateFolds \/ Verdict \/ \E s \in Segments : Adopt(s)
    BY <1>23, <1>24 DEF BeginPromotion, EvaluateFolds, Verdict, Adopt
<1> QED BY <1>6, <1>7, <1>8, <1>9, <1>10, <1>11, <1>12, <1>13, <1>15, <1>16, <1>17, <1>18,
           <1>19, <1>21, <1>22, <1>24 DEF RetrainNext, FitStep

LEMMA RegistryInit == RetrainInit => RegistryInv
<1> SUFFICES ASSUME RetrainInit PROVE RegistryInv
    OBVIOUS
<1>1. PICK heirs \in {{}} \union {{s} : s \in Segments} :
        /\ artifacts = IF heirs = {} THEN {} ELSE {0}
        /\ metadata = [v \in artifacts |-> [trial |-> 0, score |-> 0, own |-> FALSE]]
        /\ aliasFile = IF heirs = {} THEN FileThatIs("absent")
                       ELSE Holding([a \in {<<s, "direction">> : s \in heirs} |-> 0])
        /\ history = [a \in Aliases |-> Champion(a)]
    BY DEF RetrainInit
<1>2. /\ fit = [w \in Trainers |-> Idle] /\ partial = FileThatIs("absent")
      /\ writing = [w \in Trainers |-> "nothing"]
    BY DEF RetrainInit
<1>3. /\ FileThatIs("absent") \in File /\ FileThatIs("absent").table = NoTable
    BY NoTableIsTable DEF FileThatIs, File
<1>4. 0 \in Versions
    BY RetrainBoundsAssumption DEF Versions
<1>5. /\ artifacts \subseteq Versions /\ DOMAIN metadata = artifacts
      /\ \A v \in DOMAIN metadata : metadata[v] \in Metadata
    BY <1>1, <1>4 DEF Metadata
<1>6. aliasFile \in File /\ LoadingTable(aliasFile.table)
    <2>1. CASE heirs = {}
        BY <1>1, <1>3, <2>1, FreshLoads
    <2>2. CASE heirs # {}
        <3>1. PICK t : t = [a \in {<<s, "direction">> : s \in heirs} |-> 0]
            OBVIOUS
        <3>2. {<<s, "direction">> : s \in heirs} \in SUBSET Aliases
            BY DEF Aliases, Families
        <3>3. t \in [{<<s, "direction">> : s \in heirs} -> Versions]
            BY <1>4, <3>1
        <3>4. t \in Table /\ \A a \in DOMAIN t : t[a] = 0
            <4>1. t \in Table
                BY <3>2, <3>3, Zenon DEF Table
            <4> QED BY <3>1, <4>1
        <3>5. aliasFile = Holding(t) /\ artifacts = {0}
            BY <1>1, <2>2, <3>1
        <3>6. aliasFile.is = "table" /\ aliasFile.table = t /\ aliasFile \in File
            BY <3>4, <3>5 DEF Holding, File
        <3> QED BY <1>5, <3>4, <3>5, <3>6 DEF LoadingTable, Loads
    <2> QED BY <2>1, <2>2
<1>7. history \in [Aliases -> Versions \union {NoVersion}]
    <2>1. aliasFile.table \in Table
        BY <1>6 DEF LoadingTable
    <2>2. PICK D \in SUBSET Aliases : aliasFile.table \in [D -> Versions]
        BY <2>1 DEF Table
    <2> QED BY <1>1, <2>2 DEF Champion
<1>8. \A w \in Trainers : LoadingFit(fit[w])
    BY <1>2, FreshLoads, NoTableIsTable DEF Fresh
<1>9. LoadingTable(partial.table) /\ partial \in File
    BY <1>2, <1>3, FreshLoads
<1> QED BY <1>2, <1>5, <1>6, <1>7, <1>8, <1>9 DEF RegistryInv, RegistryTypeOK

LEMMA CountInit == RetrainInit => CountInv
<1> SUFFICES ASSUME RetrainInit PROVE CountInv
    OBVIOUS
<1>1. /\ ledger = <<>> /\ ledgerCut = FALSE /\ fit = [w \in Trainers |-> Idle]
      /\ looks = 0 /\ promotion = NoPromotion
    BY DEF RetrainInit, LedgerInit
<1>2. LedgerTyped
    BY <1>1, EmptySeq DEF LedgerTyped
<1>3. FitsTyped /\ Alone
    BY <1>1, NoTableIsTable DEF FitsTyped, Alone, Active, Trainers
<1>4. Counted(0)
    <2>1. EndedTrials = {}
        BY <1>1 DEF EndedTrials, Ended
    <2> QED BY <1>1, <2>1, NoTableIsTable DEF Counted, Registered, CountedFit, NoPromotion
<1>5. Named(0)
    <2>1. \A v \in DOMAIN metadata : ~metadata[v].own
        BY DEF RetrainInit
    <2> QED BY <1>1, <2>1, NoTableIsTable DEF Named, NamedFit
<1>6. promotion \in [step : {"idle", "evaluate", "judge"}, trial : Nat] /\ looks \in Nat
    BY <1>1 DEF NoPromotion
<1> QED BY <1>2, <1>3, <1>4, <1>5, <1>6 DEF CountInv

RecordsInv == CountInv /\ RegistryInv

LEMMA RecordsInvHolds == RetrainSpec => []RecordsInv
<1>1. RetrainInit => RecordsInv
    BY CountInit, RegistryInit DEF RecordsInv
<1>2. RecordsInv /\ [RetrainNext]_retrainVars => RecordsInv'
    <2> SUFFICES ASSUME RecordsInv, [RetrainNext]_retrainVars PROVE RecordsInv'
        OBVIOUS
    <2>1. CASE RetrainNext
        BY <2>1, CountStep, RegistryStep DEF RecordsInv, RegistryInv, CountInv
    <2>2. CASE UNCHANGED retrainVars
        <3>1. /\ UNCHANGED <<ledger, ledgerCut, fit, looks, overlapped, promotion>>
              /\ UNCHANGED <<artifacts, metadata, aliasFile, partial, writing, history>>
            BY <2>2 DEF retrainVars, ledgerVars, registryVars
        <3>2. CountInv'
            BY <3>1, SMTT(60) DEF RecordsInv, CountInv, LedgerTyped, FitsTyped, Active, Alone, Counted,
                        Named, NamedFit, CountedFit, Registered, Completed, EndedTrials, Ended,
                        LedgerCorrupt
        <3>3. RegistryInv'
            BY <3>1 DEF RecordsInv, RegistryInv, RegistryTypeOK, LoadingTable, LoadingFit, Loads
        <3> QED BY <3>2, <3>3 DEF RecordsInv
    <2> QED BY <2>1, <2>2
<1> QED BY <1>1, <1>2, PTL DEF RetrainSpec

(* N is at least the number of evaluations that were begun, wherever fits  *)
(* are killed and however they overlap, as long as the ledger can be read  *)
(* (pre_register, cumulative_count).                                       *)
THEOREM LooksCounted == RetrainSpec => []EveryLookIsCounted
<1>1. RecordsInv => EveryLookIsCounted
    <2> SUFFICES ASSUME RecordsInv, ~LedgerCorrupt PROVE TrialCount >= looks
        BY DEF EveryLookIsCounted
    <2>1. PICK n \in Nat : Registered(n) /\ looks <= n /\ looks \in Nat
        BY DEF RecordsInv, CountInv, Counted
    <2>2. TrialCount \in Nat /\ n <= TrialCount
        BY <2>1, CountReads DEF RecordsInv, CountInv
    <2> QED BY <2>1, <2>2
<1> QED BY <1>1, RecordsInvHolds, PTL

(* Whatever an alias stands for can be loaded, and a model that was filed  *)
(* while nothing overlapped names a trial that was completed (register,    *)
(* assign_alias, _last_trial_id).                                          *)
THEOREM SoundModels == RetrainSpec => []ModelsAreSound
<1>1. RecordsInv => EveryChampionLoads
    BY DEF RecordsInv, RegistryInv, LoadingTable, EveryChampionLoads, Champion
<1>2. RecordsInv => ModelsNameTheirTrial
    <2> SUFFICES ASSUME RecordsInv, ~overlapped, ~LedgerCorrupt,
                        NEW v \in DOMAIN metadata, metadata[v].own
                 PROVE  \E i \in DOMAIN ledger :
                            ledger[i] = TrialRow(metadata[v].trial, "complete")
        BY DEF ModelsNameTheirTrial
    <2>1. Completed(metadata[v].trial)
        BY SMTT(60) DEF RecordsInv, CountInv, Named
    <2>2. Ended \subseteq DOMAIN ledger
        BY LedgerFacts DEF RecordsInv, CountInv
    <2> QED BY <2>1, <2>2 DEF Completed
<1> QED BY <1>1, <1>2, RecordsInvHolds, PTL DEF ModelsAreSound

-----------------------------------------------------------------------------
(* A champion gives way to a better one only.                              *)

(* The version in hand is better than the champion it would replace.       *)
AliasOf(f) == <<f.segment, f.family>>
Improves(f) ==
    Champion(AliasOf(f)) # NoVersion =>
        metadata[f.version].score > metadata[Champion(AliasOf(f))].score

(* The assignment of a fit that runs alone, from its score to the rename.  *)
Assigning(f, open) ==
    /\ open = IF f.step \in {"write", "rename"} THEN "partial" ELSE "nothing"
    /\ f.step \in {"settle", "file", "describe", "compare"} => f.score \in Scores
    /\ f.step = "compare" => metadata[f.version].score = f.score
    /\ f.step \in {"read", "open", "write", "rename"} => Improves(f)
    /\ f.step \in {"open", "write", "rename"} =>
            f.table = Repointed(aliasFile.table, AliasOf(f), f.version)
    /\ f.step = "write" => partial = FileThatIs("empty")
    /\ f.step = "rename" => partial = Holding(f.table)

AssignInv == ~overlapped => \A w \in Trainers : Assigning(fit[w], writing[w])

(* What the assignments of fits depend on, besides the fit.                *)
LEMMA AssigningFrame ==
    ASSUME UNCHANGED <<aliasFile, partial, metadata>>
    PROVE  \A f, open : Assigning(f, open)' <=> Assigning(f, open)
BY DEF Assigning, Improves, Champion

LEMMA IdleAssigns == \A f : f.step \in {"idle", "register", "score", "record"} => Assigning(f, "nothing")
BY DEF Assigning

(* While nothing overlaps, the fit that moves is the only one there is.    *)
LEMMA OthersIdle ==
    ASSUME CountInv, NEW w \in Trainers, NEW f, Moved(w, f), Active(w), ~overlapped
    PROVE  /\ fit'[w] = f
           /\ \A x \in Trainers \ {w} : fit[x].step = "idle" /\ fit'[x] = fit[x]
BY MovedFit DEF CountInv, Alone, Active, Trainers

LEMMA AloneAssigns ==
    ASSUME CountInv, RegistryTypeOK, AssignInv, NEW w \in Trainers, NEW f, Moved(w, f),
           Active(w), overlapped' = overlapped,
           \A x \in Trainers \ {w} : writing[x] = "nothing" => writing'[x] = "nothing",
           ~overlapped => Assigning(f, writing[w])'
    PROVE  AssignInv'
<1> SUFFICES ASSUME ~overlapped, NEW x \in Trainers
             PROVE  Assigning(fit[x], writing[x])'
    BY DEF AssignInv
<1>1. CASE x = w
    BY <1>1, OthersIdle DEF Assigning, Improves, AliasOf, Champion
<1>2. CASE x # w
    <2>1. fit'[x].step = "idle" /\ writing[x] = "nothing"
        BY <1>2, OthersIdle DEF AssignInv, Assigning
    <2> QED BY <1>2, <2>1 DEF Assigning
<1> QED BY <1>1, <1>2

LEMMA AssignStep ==
    ASSUME RecordsInv, AssignInv, RetrainNext
    PROVE  AssignInv'
<1>1. CountInv /\ RegistryTypeOK /\ FitsTyped
    BY DEF RecordsInv, CountInv, RegistryInv
<1>2. ASSUME NEW w \in Trainers, Active(w), Ends(w), overlapped' = overlapped,
             UNCHANGED writing \/ writing' = [writing EXCEPT ![w] = "nothing"],
             UNCHANGED writing => fit[w].step \notin {"write", "rename"}
      PROVE  AssignInv'
    <2>1. PICK f : Fresh(f) /\ Moved(w, f)
        BY <1>2 DEF Ends
    <2>2. writing \in [Trainers -> {"nothing", "partial", "aliases"}]
        BY <1>1 DEF RegistryTypeOK
    <2>3. ~overlapped => writing'[w] = "nothing"
        BY <1>2, <2>2 DEF AssignInv, Assigning
    <2>4. ~overlapped => Assigning(f, writing[w])'
        BY <2>1, <2>3 DEF Assigning, Fresh
    <2>5. \A x \in Trainers \ {w} : writing'[x] = writing[x]
        BY <1>2, <2>2
    <2> QED BY <1>1, <1>2, <2>1, <2>4, <2>5, AloneAssigns
<1>3. ASSUME NEW w \in Trainers, Active(w), NEW f, Moved(w, f), overlapped' = overlapped,
             UNCHANGED <<writing, aliasFile, partial, metadata>>,
             ~overlapped => Assigning(f, writing[w])
      PROVE  AssignInv'
    <2>1. ~overlapped => Assigning(f, writing[w])'
        BY <1>3 DEF Assigning, Improves, Champion
    <2> QED BY <1>1, <1>3, <2>1, AloneAssigns
<1>4. ASSUME NEW w \in Trainers, PreRegister(w) PROVE AssignInv'
    <2>1. /\ Active(w) /\ fit[w].step = "register" /\ overlapped' = overlapped
          /\ UNCHANGED <<writing, aliasFile, partial, metadata>>
        BY <1>4 DEF PreRegister, registryVars, FitAt, Active
    <2>2. CASE LedgerCorrupt
        BY <1>1, <1>2, <1>4, <2>1, <2>2, FitsMove DEF PreRegister
    <2>3. CASE ~LedgerCorrupt
        <3>1. PICK f : f = Now(w, "score", TrialCount + 1, fit[w].score, looks + 1, fit[w].table)
            OBVIOUS
        <3>2. Moved(w, f) /\ f.step = "score"
            BY <1>1, <1>4, <2>3, <3>1, FitsMoveOn DEF Now
        <3>3. ~overlapped => Assigning(f, writing[w])
            BY <2>1, <3>2 DEF AssignInv, Assigning
        <3> QED BY <1>3, <2>1, <3>2, <3>3
    <2> QED BY <2>2, <2>3
<1>5. ASSUME NEW w \in Trainers, Abandon(w) \/ LearnNothing(w) PROVE AssignInv'
    <2>1. /\ Active(w) /\ fit[w].step = "score" /\ UNCHANGED <<overlapped, writing>> /\ Dies(w)
        BY <1>5 DEF Abandon, LearnNothing, registryVars, BotsAndHistory, FitAt, Active
    <2> QED BY <1>1, <1>2, <2>1, FitsMove
<1>6. ASSUME NEW w \in Trainers, Score(w) PROVE AssignInv'
    <2>1. PICK score \in Scores :
                Moved(w, Now(w, "settle", fit[w].trial, score, fit[w].version, fit[w].table))
        BY <1>1, <1>6, FitsMoveOn
    <2>2. PICK f : f = Now(w, "settle", fit[w].trial, score, fit[w].version, fit[w].table)
        OBVIOUS
    <2>3. /\ Active(w) /\ fit[w].step = "score" /\ overlapped' = overlapped
          /\ UNCHANGED <<writing, aliasFile, partial, metadata>>
        BY <1>6 DEF Score, registryVars, BotsAndHistory, FitAt, Active
    <2>4. ~overlapped => Assigning(f, writing[w])
        BY <2>2, <2>3 DEF AssignInv, Assigning, Now
    <2> QED BY <1>3, <2>1, <2>2, <2>3, <2>4
<1>7. ASSUME NEW w \in Trainers, NameTrial(w) PROVE AssignInv'
    <2>1. /\ Active(w) /\ fit[w].step = "settle" /\ overlapped' = overlapped
          /\ UNCHANGED <<writing, aliasFile, partial, metadata>>
        BY <1>7 DEF NameTrial, registryVars, BotsAndHistory, FitAt, Active
    <2>2. CASE LedgerCorrupt
        BY <1>1, <1>2, <1>7, <2>1, <2>2, FitsMove DEF NameTrial
    <2>3. CASE ~LedgerCorrupt
        <3>1. PICK f : f = Now(w, "file", LastTrial, fit[w].score, fit[w].version, fit[w].table)
            OBVIOUS
        <3>2. Moved(w, f)
            BY <1>1, <1>7, <2>3, <3>1, FitsMoveOn
        <3>3. ~overlapped => Assigning(f, writing[w])
            BY <2>1, <3>1 DEF AssignInv, Assigning, Now
        <3> QED BY <1>3, <2>1, <3>2, <3>3
    <2> QED BY <2>2, <2>3
<1>8. ASSUME NEW w \in Trainers, FileArtifact(w) PROVE AssignInv'
    <2>1. /\ Active(w) /\ fit[w].step = "file" /\ overlapped' = overlapped
          /\ UNCHANGED <<writing, aliasFile, partial, metadata>> /\ FitTo(w, "describe")
        BY <1>8 DEF FileArtifact, SaveArtifact, BotsAndHistory, FitAt, Active
    <2>2. PICK f : f = Now(w, "describe", fit[w].trial, fit[w].score, fit[w].version,
                           fit[w].table)
        OBVIOUS
    <2>3. Moved(w, f)
        BY <1>1, <2>1, <2>2, FitsMove DEF FitSteps
    <2>4. ~overlapped => Assigning(f, writing[w])
        BY <2>1, <2>2 DEF AssignInv, Assigning, Now
    <2> QED BY <1>3, <2>1, <2>3, <2>4
<1>9. ASSUME NEW w \in Trainers, FileMetadata(w) PROVE AssignInv'
    <2>1. /\ Active(w) /\ fit[w].step = "describe" /\ overlapped' = overlapped
          /\ writing' = writing /\ FitTo(w, "compare")
          /\ metadata' = [x \in DOMAIN metadata \union {fit[w].version} |->
                            IF x = fit[w].version THEN Facts(w) ELSE metadata[x]]
        BY <1>9 DEF FileMetadata, SaveMetadata, BotsAndHistory, FitAt, Active
    <2>2. PICK f : f = Now(w, "compare", fit[w].trial, fit[w].score, fit[w].version,
                           fit[w].table)
        OBVIOUS
    <2>3. /\ Moved(w, f) /\ f.step = "compare" /\ f.version = fit[w].version
          /\ f.score = fit[w].score
        BY <1>1, <2>1, <2>2, FitsMove DEF FitSteps, Now
    <2>4. metadata'[f.version].score = f.score
        BY <2>1, <2>3 DEF Facts
    <2>5. ~overlapped => Assigning(f, writing[w])'
        BY <2>1, <2>3, <2>4 DEF AssignInv, Assigning
    <2> QED BY <1>1, <2>1, <2>3, <2>5, AloneAssigns
<1>10. ASSUME NEW w \in Trainers, Compare(w) PROVE AssignInv'
    <2>1. /\ Active(w) /\ fit[w].step = "compare" /\ overlapped' = overlapped
          /\ UNCHANGED <<writing, aliasFile, partial, metadata>>
        BY <1>10 DEF Compare, registryVars, BotsAndHistory, FitAt, Active
    <2>2. CASE FitTo(w, "read") /\ Beats(fit[w].score, Champion(Alias(w)))
        <3>1. PICK f : f = Now(w, "read", fit[w].trial, fit[w].score, fit[w].version,
                               fit[w].table)
            OBVIOUS
        <3>2. /\ Moved(w, f) /\ f.step = "read" /\ f.version = fit[w].version
              /\ AliasOf(f) = Alias(w)
            BY <1>1, <2>2, <3>1, FitsMove DEF FitSteps, Now, AliasOf, Alias
        <3>3. ~overlapped =>
                /\ metadata[fit[w].version].score = fit[w].score
                /\ fit[w].score \in Nat \ {0} /\ writing[w] = "nothing"
            BY <2>1, ScoresAssumption DEF AssignInv, Assigning
        <3>4. ~overlapped => Improves(f)
            BY <2>2, <3>2, <3>3 DEF Improves, Beats
        <3>5. ~overlapped => Assigning(f, writing[w])
            BY <3>2, <3>3, <3>4 DEF Assigning
        <3> QED BY <1>3, <2>1, <3>2, <3>5
    <2>3. CASE Dies(w) \/ AfterFamily(w)
        BY <1>1, <1>2, <2>1, <2>3, FitsMove
    <2> QED BY <1>10, <2>2, <2>3 DEF Compare
<1>11. ASSUME NEW w \in Trainers, ReadAliases(w) PROVE AssignInv'
    <2>1. /\ Active(w) /\ fit[w].step = "read" /\ overlapped' = overlapped
          /\ UNCHANGED <<writing, aliasFile, partial, metadata>>
        BY <1>11 DEF ReadAliases, registryVars, BotsAndHistory, FitAt, Active
    <2>2. CASE ~AliasesReadable
        BY <1>1, <1>2, <1>11, <2>1, <2>2, FitsMove DEF ReadAliases
    <2>3. CASE AliasesReadable
        <3>1. PICK t : t = Repointed(aliasFile.table, Alias(w), fit[w].version)
            OBVIOUS
        <3>2. PICK f : f = Now(w, "open", 0, 0, fit[w].version, t)
            OBVIOUS
        <3>3. /\ Moved(w, f) /\ f.step = "open" /\ f.version = fit[w].version
              /\ AliasOf(f) = Alias(w) /\ f.table = t
            BY <1>1, <1>11, <2>3, <3>1, <3>2, FitsMoveOn DEF Now, AliasOf, Alias
        <3>4. ~overlapped => Improves(f) /\ writing[w] = "nothing"
            BY <2>1, <3>3 DEF AssignInv, Assigning, Improves, AliasOf, Alias
        <3>5. ~overlapped => Assigning(f, writing[w])
            BY <3>1, <3>3, <3>4 DEF Assigning
        <3> QED BY <1>3, <2>1, <3>3, <3>5
    <2> QED BY <2>2, <2>3
<1>12. ASSUME NEW w \in Trainers, OpenAliases(w) PROVE AssignInv'
    <2>1. /\ Active(w) /\ fit[w].step = "open" /\ overlapped' = overlapped
          /\ UNCHANGED <<aliasFile, metadata>> /\ partial' = FileThatIs("empty")
          /\ writing' = [writing EXCEPT ![w] = "partial"] /\ FitTo(w, "write")
        BY <1>12 DEF OpenAliases, OpenPartial, BotsAndHistory, FitAt, Active
    <2>2. PICK f : f = Now(w, "write", fit[w].trial, fit[w].score, fit[w].version, fit[w].table)
        OBVIOUS
    <2>3. /\ Moved(w, f) /\ f.step = "write" /\ f.version = fit[w].version
          /\ AliasOf(f) = AliasOf(fit[w]) /\ f.table = fit[w].table
        BY <1>1, <2>1, <2>2, FitsMove DEF FitSteps, Now, AliasOf
    <2>4. writing'[w] = "partial" /\ \A x \in Trainers \ {w} : writing'[x] = writing[x]
        BY <1>1, <2>1 DEF RegistryTypeOK
    <2>5. ~overlapped => Assigning(f, writing[w])'
        BY <2>1, <2>3, <2>4 DEF AssignInv, Assigning, Improves, Champion
    <2> QED BY <1>1, <2>1, <2>3, <2>4, <2>5, AloneAssigns
<1>13. ASSUME NEW w \in Trainers, WriteAliases(w) PROVE AssignInv'
    <2>1. /\ Active(w) /\ fit[w].step = "write" /\ overlapped' = overlapped
          /\ UNCHANGED <<metadata, writing>> /\ FitTo(w, "rename")
          /\ WritePartial(w, fit[w].table)
        BY <1>13 DEF WriteAliases, WritePartial, BotsAndHistory, FitAt, Active
    <2>2. PICK f : f = Now(w, "rename", fit[w].trial, fit[w].score, fit[w].version, fit[w].table)
        OBVIOUS
    <2>3. /\ Moved(w, f) /\ f.step = "rename" /\ f.version = fit[w].version
          /\ AliasOf(f) = AliasOf(fit[w]) /\ f.table = fit[w].table
        BY <1>1, <2>1, <2>2, FitsMove DEF FitSteps, Now, AliasOf
    <2>4. ASSUME ~overlapped PROVE aliasFile' = aliasFile /\ partial' = Holding(f.table)
        <3>1. writing[w] = "partial" /\ partial = FileThatIs("empty")
            BY <2>1, <2>4 DEF AssignInv, Assigning
        <3>2. aliasFile' = aliasFile /\ partial' = Overwritten(partial, fit[w].table)
            BY <2>1, <3>1 DEF WritePartial
        <3>3. FileThatIs("empty").is # "garbled" /\ DOMAIN FileThatIs("empty").table = {}
            BY NoTableIsTable DEF FileThatIs
        <3> QED BY <2>3, <3>1, <3>2, <3>3 DEF Overwritten
    <2>5. ~overlapped => Assigning(f, writing[w])'
        BY <2>1, <2>3, <2>4 DEF AssignInv, Assigning, Improves, Champion
    <2> QED BY <1>1, <2>1, <2>3, <2>5, AloneAssigns
<1>14. ASSUME NEW w \in Trainers, RenameAliases(w) PROVE AssignInv'
    <2>1. Active(w) /\ fit[w].step = "rename" /\ overlapped' = overlapped
        BY <1>14 DEF RenameAliases, BotsAndHistory, FitAt, Active
    <2>2. CASE RenamePartial(w) /\ FitTo(w, "record")
        <3>1. PICK f : f = Now(w, "record", fit[w].trial, fit[w].score, fit[w].version,
                               fit[w].table)
            OBVIOUS
        <3>2. Moved(w, f) /\ f.step = "record"
            BY <1>1, <2>2, <3>1, FitsMove DEF FitSteps, Now
        <3>3. /\ writing'[w] = "nothing"
              /\ \A x \in Trainers \ {w} : writing[x] = "nothing" => writing'[x] = "nothing"
            BY <2>2 DEF RenamePartial
        <3>4. Assigning(f, writing[w])'
            BY <3>2, <3>3 DEF Assigning
        <3> QED BY <1>1, <2>1, <3>2, <3>3, <3>4, AloneAssigns
    <2>3. CASE LetGo(w) /\ Dies(w)
        <3>1. writing' = [writing EXCEPT ![w] = "nothing"] /\ Ends(w)
            BY <1>1, <2>3, FitsMove DEF LetGo
        <3>2. CASE UNCHANGED writing
            <4>1. writing \in [Trainers -> {"nothing", "partial", "aliases"}]
                BY <1>1 DEF RegistryTypeOK
            <4>2. overlapped
                BY <2>1, <3>1, <3>2, <4>1 DEF AssignInv, Assigning
            <4> QED BY <2>1, <4>2 DEF AssignInv
        <3> QED BY <1>2, <2>1, <3>1, <3>2
    <2> QED BY <1>14, <2>2, <2>3 DEF RenameAliases
<1>15. ASSUME NEW w \in Trainers, RecordAlias(w) PROVE AssignInv'
    <2>1. /\ Active(w) /\ fit[w].step = "record" /\ UNCHANGED <<overlapped, writing>>
          /\ AfterFamily(w)
        BY <1>15 DEF RecordAlias, AppendHistory, BotsAndHistory, FitAt, Active
    <2> QED BY <1>1, <1>2, <2>1, FitsMove
<1>16. ASSUME NEW w \in Trainers, KillFit(w) PROVE AssignInv'
    <2>1. /\ Active(w) /\ overlapped' = overlapped /\ Ends(w)
          /\ writing' = [writing EXCEPT ![w] = "nothing"]
        BY <1>1, <1>16, FitsMove DEF KillFit, LetGo, FitAt, Active
    <2>2. CASE UNCHANGED writing /\ fit[w].step \in {"write", "rename"}
        <3>1. writing \in [Trainers -> {"nothing", "partial", "aliases"}]
            BY <1>1 DEF RegistryTypeOK
        <3>2. overlapped
            BY <2>1, <2>2, <3>1 DEF AssignInv, Assigning
        <3> QED BY <2>1, <3>2 DEF AssignInv
    <2> QED BY <1>2, <2>1, <2>2
<1>17. CASE KillSupervisor
    <2>1. /\ fit'["supervised"].step = "idle" /\ fit'["orphan"] = fit["supervised"]
          /\ writing'["supervised"] = "nothing" /\ writing'["orphan"] = writing["supervised"]
          /\ UNCHANGED <<overlapped, aliasFile, partial, metadata>>
        BY <1>1, <1>17, SupervisorKilled, NoTableIsTable DEF KillSupervisor
    <2>2. ASSUME ~overlapped
          PROVE  \A w \in Trainers : Assigning(fit'[w], writing'[w])
        <3>1. Assigning(fit["supervised"], writing["supervised"])
            BY <2>2 DEF AssignInv, Trainers
        <3>2. Assigning(fit'["supervised"], "nothing")
            BY <2>1, IdleAssigns
        <3> QED BY <2>1, <3>1, <3>2 DEF Trainers
    <2>3. ASSUME ~overlapped, NEW w \in Trainers PROVE Assigning(fit[w], writing[w])'
        BY <2>1, <2>2, <2>3 DEF Assigning, Improves, Champion, AliasOf
    <2> QED BY <2>1, <2>3 DEF AssignInv
<1>18. ASSUME NEW s \in Segments, StartFit(s) PROVE AssignInv'
    <2>1. /\ fit["supervised"].step = "idle"
          /\ fit' = [fit EXCEPT !["supervised"].step = "register", !["supervised"].segment = s]
          /\ ~overlapped' => ~overlapped /\ fit["orphan"].step = "idle"
          /\ UNCHANGED writing
        BY <1>18 DEF StartFit, FitAt, registryVars
    <2>2. fit'["supervised"].step = "register" /\ fit'["orphan"] = fit["orphan"]
        BY <1>1, <2>1 DEF FitsTyped, Fit, Trainers
    <2>3. ASSUME ~overlapped', NEW w \in Trainers PROVE Assigning(fit[w], writing[w])'
        <3>1. fit'[w].step \in {"idle", "register"} /\ writing'[w] = "nothing"
            BY <2>1, <2>2, <2>3 DEF AssignInv, Assigning, Trainers
        <3> QED BY <3>1 DEF Assigning
    <2> QED BY <2>3 DEF AssignInv
<1>19. CASE BeginPromotion \/ EvaluateFolds \/ Verdict \/ \E s \in Segments : Adopt(s)
    <2>1. /\ UNCHANGED <<fit, writing, aliasFile, partial, metadata>>
          /\ ~overlapped' => ~overlapped
        <3>1. CASE BeginPromotion
            BY <3>1 DEF BeginPromotion, registryVars
        <3>2. CASE EvaluateFolds \/ Verdict
            BY <3>2 DEF EvaluateFolds, Verdict, registryVars
        <3>3. ASSUME NEW s \in Segments, Adopt(s)
              PROVE  /\ UNCHANGED <<fit, writing, aliasFile, partial, metadata>>
                     /\ ~overlapped' => ~overlapped
            BY <3>3 DEF Adopt, registryVars
        <3> QED BY <1>19, <3>1, <3>2, <3>3
    <2> QED BY <2>1 DEF AssignInv, Assigning, Improves, Champion, AliasOf
<1> QED BY <1>4, <1>5, <1>6, <1>7, <1>8, <1>9, <1>10, <1>11, <1>12, <1>13, <1>14, <1>15,
           <1>16, <1>17, <1>18, <1>19 DEF RetrainNext, FitStep

LEMMA AssignInvHolds == RetrainSpec => []AssignInv
<1>1. RetrainInit => AssignInv
    BY NoTableIsTable, IdleAssigns DEF RetrainInit, AssignInv
<1>2. RecordsInv /\ AssignInv /\ [RetrainNext]_retrainVars => AssignInv'
    <2> SUFFICES ASSUME RecordsInv, AssignInv, [RetrainNext]_retrainVars PROVE AssignInv'
        OBVIOUS
    <2>1. CASE UNCHANGED retrainVars
        <3>1. UNCHANGED <<fit, writing, aliasFile, partial, metadata, overlapped>>
            BY <2>1 DEF retrainVars, registryVars
        <3> QED BY <3>1 DEF AssignInv, Assigning, Improves, Champion, AliasOf
    <2> QED BY <2>1, AssignStep
<1> QED BY <1>1, <1>2, RecordsInvHolds, PTL DEF RetrainSpec

(* What ChampionsOnlyImprove says of one step.                             *)
OnlyBetter ==
    \A a \in Aliases :
         LET was == Champion(a)
             is == Champion(a)'
         IN  was \notin {is, NoVersion} /\ ~overlapped =>
                is # NoVersion /\ metadata[is].score > metadata[was].score

(* A champion gives way to a better one only, as long as fits do not       *)
(* overlap, wherever they are killed (_promote_or_keep, assign_alias).     *)
THEOREM ChampionsImprove == RetrainSpec => ChampionsOnlyImprove
<1>1. ASSUME aliasFile' = aliasFile PROVE OnlyBetter
    BY <1>1 DEF OnlyBetter, Champion
<1>2. RecordsInv /\ AssignInv /\ [RetrainNext]_retrainVars => [OnlyBetter]_retrainVars
    <2> SUFFICES ASSUME RecordsInv, AssignInv, RetrainNext, ~overlapped PROVE OnlyBetter
        BY DEF OnlyBetter
    <2>1. ASSUME NEW w \in Trainers, WriteAliases(w) PROVE OnlyBetter
        <3>1. writing[w] = "partial"
            BY <2>1 DEF WriteAliases, FitAt, AssignInv, Assigning
        <3>2. aliasFile' = aliasFile
            BY <2>1, <3>1 DEF WriteAliases, WritePartial
        <3> QED BY <1>1, <3>2
    <2>2. ASSUME NEW w \in Trainers, RenameAliases(w) PROVE OnlyBetter
        <3>1. CASE RenamePartial(w)
            <4>1. /\ fit[w].step = "rename" /\ aliasFile' = partial /\ metadata' = metadata
                  /\ partial = Holding(fit[w].table) /\ Improves(fit[w])
                  /\ fit[w].table = Repointed(aliasFile.table, AliasOf(fit[w]), fit[w].version)
                BY <2>2, <3>1 DEF RenameAliases, RenamePartial, FitAt, AssignInv, Assigning
            <4>2. fit[w].version \in Versions /\ fit[w].version # NoVersion
                BY <4>1, NoVersionAssumption DEF RecordsInv, CountInv, FitsTyped
            <4>3. PICK v : v = fit[w].version
                OBVIOUS
            <4>4. PICK b : b = AliasOf(fit[w])
                OBVIOUS
            <4>5. aliasFile'.table = Repointed(aliasFile.table, b, v)
                BY <4>1, <4>3, <4>4 DEF Holding
            <4>6. \A a \in Aliases : Champion(a)' = IF a = b THEN v ELSE Champion(a)
                BY <4>5 DEF Champion, Repointed
            <4>7. Champion(b) # NoVersion => metadata[v].score > metadata[Champion(b)].score
                BY <4>1, <4>3, <4>4 DEF Improves
            <4> QED BY <4>2, <4>3, <4>6, <4>7 DEF OnlyBetter
        <3>2. CASE LetGo(w)
            BY <1>1, <3>2 DEF LetGo
        <3> QED BY <2>2, <3>1, <3>2 DEF RenameAliases
    <2>3. ASSUME NEW w \in Trainers, FitStep(w) \/ KillFit(w), ~WriteAliases(w), ~RenameAliases(w)
          PROVE  OnlyBetter
        BY <1>1, <2>3
           DEF FitStep, PreRegister, Abandon, Score, LearnNothing, NameTrial, FileArtifact,
               FileMetadata, Compare, ReadAliases, OpenAliases, RecordAlias, KillFit,
               SaveArtifact, SaveMetadata, OpenPartial, AppendHistory, LetGo, registryVars
    <2>4. CASE KillSupervisor \/ BeginPromotion \/ EvaluateFolds \/ Verdict
               \/ \E s \in Segments : StartFit(s) \/ Adopt(s)
        BY <1>1, <2>4
           DEF KillSupervisor, BeginPromotion, EvaluateFolds, Verdict, StartFit, Adopt,
               registryVars
    <2> QED BY <2>1, <2>2, <2>3, <2>4 DEF RetrainNext
<1>3. [OnlyBetter]_retrainVars =>
        [\A a \in Aliases :
            LET was == Champion(a)
                is == Champion(a)'
            IN  was \notin {is, NoVersion} /\ ~overlapped =>
                    is # NoVersion /\ metadata[is].score > metadata[was].score]_retrainVars
    BY DEF OnlyBetter
<1> QED BY <1>2, <1>3, RecordsInvHolds, AssignInvHolds, PTL DEF RetrainSpec, ChampionsOnlyImprove

-----------------------------------------------------------------------------
(* The migration.                                                          *)

PassRuns == run.step \in {"read", "record"}

NothingHeld(step) ==
    [step |-> step, fold |-> FALSE, consumed |-> {}, unread |-> {}, expected |-> {},
     pending |-> [h \in PartHours |-> {}], feeds |-> [h \in PartHours |-> {}], newly |-> {}]

(* A file has the rows of its hour that its parts have, as has what waits  *)
(* to be written; what a pass took up is written, to be recorded, recorded *)
(* or waits; and all of it is of the old layout.                           *)
MigrationShape ==
    /\ MigrationTypeOK
    /\ IsFiniteSet(built)
    /\ \A f \in built : f.rows = InHour(RowsOf(f.from), f.hour)
    /\ ~PassRuns => run = NothingHeld(run.step)
    /\ run.step = "read" => run.newly = {}
    /\ PassRuns => manifest \subseteq run.consumed
    /\ manifest \union run.consumed \union run.unread \subseteq old
    /\ \A h \in PartHours :
        /\ run.pending[h] = InHour(RowsOf(run.feeds[h]), h)
        /\ run.pending[h] = {} => run.feeds[h] = {}
        /\ run.feeds[h] \subseteq run.consumed
    /\ run.newly \subseteq run.consumed
    /\ run.consumed \subseteq manifest \union run.newly \union run.feeds[1] \union run.feeds[2]

(* What a pass that copies has read is what it expects, and no file has a  *)
(* row of a part that it did not read or is about to.                      *)
ExpectsWhatItReads ==
    /\ where # "new" => \A f \in built : f.from \subseteq old
    /\ PassRuns => where = IF run.fold THEN "new" ELSE "old"
    /\ \A x \in run.expected : x[1] \in run.consumed /\ x \in RowsOfPart(x[1])
    /\ \A h \in PartHours : \A p \in run.feeds[h] : RowsOfPart(p) \subseteq run.expected
    /\ PassRuns /\ where = "old" =>
        \A f \in built : \A p \in f.from : p \in run.unread \/ RowsOfPart(p) \subseteq run.expected

(* The two errors that a death can bring into an hour.                     *)
NoneTwice(h) ==
    \A f \in built : f.hour = h =>
        /\ f.from \subseteq manifest \union run.newly
        /\ f.from \intersect run.feeds[h] = {}
        /\ \A g \in built : g.hour = h /\ g # f => f.from \intersect g.from = {}

NoneMissing(h) ==
    \A p \in manifest \union run.consumed : <<p, h>> \in RowsOfPart(p) =>
        p \in run.feeds[h] \/ \E f \in built : f.hour = h /\ p \in f.from

(* Between the two writes of a flush, all but the hour flushed is recorded,*)
(* and of that hour nothing waits.                                         *)
OneHourUnrecorded ==
    \E h \in PartHours :
        run.feeds[h] = {} /\ \A f \in built : f.hour # h => f.from \subseteq manifest

(* Nothing is wrong before a death, and after the first each hour has one  *)
(* kind of error at most.                                                  *)
OneKindOfError ==
    where = "old" =>
        /\ deaths = 0 => \A h \in PartHours : NoneTwice(h) /\ NoneMissing(h)
        /\ deaths = 0 /\ run.step = "record" => OneHourUnrecorded
        /\ deaths <= 1 => \A h \in PartHours : NoneTwice(h) \/ NoneMissing(h)

(* What the report of the swap vouches for is in one file, and no pass     *)
(* takes it up again.                                                      *)
InOneFile(x) == \E f \in built : x \in f.rows /\ \A g \in built : x \in g.rows => g = f

ClaimedIsThere ==
    where # "old" /\ deaths <= 1 => \A x \in claimed :
        /\ x[1] \in manifest /\ x \in RowsOfPart(x[1])
        /\ \A h \in PartHours : x[1] \notin run.feeds[h]
        /\ InOneFile(x)

MigrationInv == MigrationShape /\ ExpectsWhatItReads /\ OneKindOfError /\ ClaimedIsThere

(* With as many rows as the pass expects, an hour in which nothing is twice*)
(* has everything, and one that has everything has nothing twice.          *)
LEMMA CountTells ==
    ASSUME NEW R, NEW E, IsFiniteSet(R), IsFiniteSet(E), Cardinality(R) = Cardinality(E),
           \A y \in R : y[2] \in E,
           (\A y, z \in R : y[2] = z[2] => y = z) \/ (\A x \in E : \E y \in R : y[2] = x)
    PROVE  \A x \in E : \E y \in R : y[2] = x /\ \A z \in R : z[2] = x => z = y
<1> DEFINE row == [y \in R |-> y[2]]
<1>1. row \in [R -> E] /\ \A y \in R : row[y] = y[2]
    OBVIOUS
<1> HIDE DEF row
<1>2. CASE \A y, z \in R : y[2] = z[2] => y = z
    <2>1. row \in Injection(R, E)
        BY <1>1, <1>2 DEF Injection, IsInjective
    <2>2. row \in Surjection(R, E)
        BY <2>1, FS_Injection
    <2> QED BY <2>2, <1>1, <1>2 DEF Surjection
<1>3. CASE \A x \in E : \E y \in R : y[2] = x
    <2>1. row \in Surjection(R, E)
        BY <1>1, <1>3 DEF Surjection
    <2>2. row \in Injection(R, E)
        BY <2>1, FS_Surjection
    <2> QED BY <2>2, <1>1, <1>3 DEF Injection, IsInjective
<1> QED BY <1>2, <1>3

LEMMA PartsFinite ==
    IsFiniteSet(Parts) /\ IsFiniteSet(Parts \X PartHours)
<1>1. IsFiniteSet(Parts)
    BY FS_Union, MigrationAssumption DEF Parts
<1>2. IsFiniteSet(PartHours)
    <2>1. PartHours = {1} \union {2}
        BY DEF PartHours
    <2> QED BY <2>1, FS_Singleton, FS_AddElement
<1> QED BY <1>1, <1>2, FS_Product

(* A row is of one part, and it is in an hour of that part.                *)
LEMMA RowsAreOfParts ==
    ASSUME NEW P \in SUBSET Parts
    PROVE  /\ RowsOf(P) \subseteq Parts \X PartHours
           /\ \A x : x \in RowsOf(P) <=> x[1] \in P /\ x \in RowsOfPart(x[1])
           /\ \A p \in Parts : <<p, 2>> \in RowsOfPart(p)
<1>1. \A p \in Parts : RowsOfPart(p) \subseteq Parts \X PartHours /\ \A x \in RowsOfPart(p) : x[1] = p
    BY DEF RowsOfPart, PartHours, Parts
<1>2. \A x : x \in RowsOf(P) <=> \E p \in P : x \in RowsOfPart(p)
    BY DEF RowsOf
<1>3. \A p \in Parts : <<p, 2>> \in RowsOfPart(p)
    BY DEF RowsOfPart, PartHours
<1> QED BY <1>1, <1>2, <1>3

(* A verified copy has each row that was read in one file.                 *)
LEMMA VerifiedIsExact ==
    ASSUME MigrationShape, ExpectsWhatItReads, where = "old", run.step = "read",
           run.unread = {}, Pending = {}, Verified(run.expected, FALSE),
           \A h \in PartHours : NoneTwice(h) \/ NoneMissing(h)
    PROVE  \A x \in run.expected : InOneFile(x)
<1> SUFFICES ASSUME NEW x \in run.expected PROVE InOneFile(x)
    OBVIOUS
<1> DEFINE h == x[2]
           R == RowsBuilt(h)
           E == InHour(run.expected, h)
<1>1. x \in Parts \X PartHours /\ h \in PartHours /\ x = <<x[1], h>> /\ x \in E
    BY DEF MigrationShape, MigrationTypeOK, InHour
<1>2. IsFiniteSet(E)
    <2>1. E \subseteq Parts \X PartHours
        BY DEF MigrationShape, MigrationTypeOK, InHour
    <2> QED BY <2>1, PartsFinite, FS_Subset
<1>3. \A y : y \in R <=> \E f \in built : \E r \in f.rows : y = <<f, r>> /\ r[2] = h
    BY DEF RowsBuilt, InHour
<1>4. IsFiniteSet(R)
    <2>1. IsFiniteSet(built \X (Parts \X PartHours))
        BY PartsFinite, FS_Product DEF MigrationShape
    <2>2. R \subseteq built \X (Parts \X PartHours)
        BY <1>3 DEF MigrationShape, MigrationTypeOK, HourFile
    <2> QED BY <2>1, <2>2, FS_Subset
<1>5. \A f \in built : f.from \subseteq Parts /\ f.hour \in PartHours
    BY DEF MigrationShape, MigrationTypeOK, HourFile
<1>6. \A f \in built : \A r \in f.rows : r[1] \in f.from /\ r \in RowsOfPart(r[1]) /\ r[2] = f.hour
    BY <1>5, RowsAreOfParts DEF MigrationShape, InHour
<1>7. \A f \in built : \A r \in f.rows : r \in run.expected
    BY <1>6 DEF ExpectsWhatItReads, PassRuns
<1>8. Cardinality(R) = Cardinality(E)
    BY <1>1 DEF Verified, CountBuilt
<1>9. \A y \in R : y[2] \in E
    BY <1>3, <1>7 DEF InHour
<1>10. ASSUME NoneTwice(h) PROVE \A y, z \in R : y[2] = z[2] => y = z
    <2>1. ASSUME NEW y \in R, NEW z \in R, y[2] = z[2] PROVE y = z
        <3>1. PICK f \in built : \E r \in f.rows : y = <<f, r>> /\ r[2] = h
            BY <1>3
        <3>5. PICK r \in f.rows : y = <<f, r>> /\ r[2] = h
            BY <3>1
        <3>2. PICK g \in built : \E s \in g.rows : z = <<g, s>> /\ s[2] = h
            BY <1>3
        <3>6. PICK s \in g.rows : z = <<g, s>> /\ s[2] = h
            BY <3>2
        <3>3. r = s /\ r[1] \in f.from /\ r[1] \in g.from /\ f.hour = h /\ g.hour = h
            BY <3>5, <3>6, <2>1, <1>6
        <3>4. f = g
            BY <3>3, <1>10 DEF NoneTwice
        <3> QED BY <3>5, <3>6, <3>3, <3>4
    <2> QED BY <2>1
<1>11. ASSUME NoneMissing(h) PROVE \A e \in E : \E y \in R : y[2] = e
    <2>1. ASSUME NEW e \in E PROVE \E y \in R : y[2] = e
        <3>1. e \in run.expected /\ e[2] = h /\ e = <<e[1], h>>
            BY <1>1 DEF InHour, MigrationShape, MigrationTypeOK
        <3>2. e[1] \in run.consumed /\ e \in RowsOfPart(e[1])
            BY <3>1 DEF ExpectsWhatItReads
        <3>3. run.feeds[h] = {}
            BY <1>1 DEF MigrationShape, Pending
        <3>4. PICK f \in built : f.hour = h /\ e[1] \in f.from
            BY <1>11, <3>1, <3>2, <3>3 DEF NoneMissing
        <3>5. e \in f.rows
            BY <3>4, <3>2, <3>1, <1>5, RowsAreOfParts DEF MigrationShape, InHour
        <3>6. <<f, e>> \in R /\ <<f, e>>[2] = e
            BY <3>4, <3>5, <3>1, <1>3
        <3> QED BY <3>6
    <2> QED BY <2>1
<1>12. PICK y \in R : y[2] = x /\ \A z \in R : z[2] = x => z = y
    <2> HIDE DEF R, E
    <2>1. (\A y, z \in R : y[2] = z[2] => y = z) \/ (\A e \in E : \E y \in R : y[2] = e)
        <3>1. NoneTwice(h) \/ NoneMissing(h)
            BY <1>1
        <3> QED BY <3>1, <1>10, <1>11
    <2>2. \A e \in E : \E y \in R : y[2] = e /\ \A z \in R : z[2] = e => z = y
        BY <1>2, <1>4, <1>8, <1>9, <2>1, CountTells
    <2> QED BY <2>2, <1>1
<1>13. PICK f \in built : y = <<f, x>> /\ x \in f.rows
    BY <1>12, <1>3
<1>14. ASSUME NEW g \in built, x \in g.rows PROVE g = f
    <2>1. <<g, x>> \in R
        BY <1>14, <1>3
    <2> QED BY <2>1, <1>12, <1>13
<1> QED BY <1>13, <1>14 DEF InOneFile

LEMMA MigrationBegins ==
    MigrationInit => MigrationInv
<1> SUFFICES ASSUME MigrationInit PROVE MigrationInv
    OBVIOUS
<1>1. MigrationTypeOK
    BY MigrationAssumption DEF MigrationInit, MigrationTypeOK, NoRun, Parts, PartHours
<1>2. RowsOf({}) = {} /\ \A h \in PartHours : InHour({}, h) = {}
    BY DEF RowsOf, InHour
<1>3. IsFiniteSet({})
    BY FS_EmptySet
<1>4. MigrationShape
    BY <1>1, <1>2, <1>3 DEF MigrationShape, MigrationInit, PassRuns, NoRun, NothingHeld, PartHours
<1>5. ExpectsWhatItReads
    BY DEF ExpectsWhatItReads, MigrationInit, PassRuns, NoRun
<1>6. OneKindOfError
    BY DEF OneKindOfError, OneHourUnrecorded, NoneTwice, NoneMissing, MigrationInit, NoRun
<1>7. ClaimedIsThere
    BY DEF ClaimedIsThere, MigrationInit
<1> QED BY <1>4, <1>5, <1>6, <1>7 DEF MigrationInv

(* Writing the file of an hour: the same files and that one, for a file    *)
(* that has its name is that file.                                         *)
LEMMA FileWritten ==
    ASSUME MigrationShape, NEW h \in PartHours, NEW from \in SUBSET Parts,
           NEW held, held = InHour(RowsOf(from), h), NEW files,
           files = WithFile(built, h, from, held)
    PROVE  /\ files = built \union {[hour |-> h, from |-> from, rows |-> held]}
           /\ files \subseteq HourFile /\ IsFiniteSet(files)
           /\ \A f \in files : f.rows = InHour(RowsOf(f.from), f.hour)
<1> DEFINE file == [hour |-> h, from |-> from, rows |-> held]
<1>1. file \in HourFile
    <2>1. held \subseteq Parts \X PartHours
        BY RowsAreOfParts DEF InHour
    <2> QED BY <2>1 DEF HourFile
<1>2. \A f \in built : f.hour = h /\ f.from = from => f = file
    BY DEF MigrationShape, MigrationTypeOK, HourFile
<1>3. files = built \union {file}
    BY <1>2 DEF WithFile
<1>4. IsFiniteSet(files)
    <2> HIDE DEF file
    <2>1. IsFiniteSet(built)
        BY DEF MigrationShape
    <2> QED BY <2>1, <1>3, FS_AddElement
<1>5. files \subseteq HourFile
    BY <1>3, <1>1 DEF MigrationShape, MigrationTypeOK
<1>6. \A f \in files : f.rows = InHour(RowsOf(f.from), f.hour)
    BY <1>3 DEF MigrationShape
<1> QED BY <1>3, <1>4, <1>5, <1>6

LEMMA CapturingKeeps ==
    ASSUME MigrationInv, NEW p \in LateParts, CaptureAppends(p)
    PROVE  MigrationInv'
<1> USE DEF MigrationInv
<1>1. UNCHANGED <<manifest, run, claimed, deaths>> /\ p \in Parts /\ p \notin Captured
    BY DEF CaptureAppends, Parts
<1>2. old' \in {old, old \union {p}} /\ old' \subseteq Parts
    BY <1>1 DEF CaptureAppends, MigrationShape, MigrationTypeOK
<1>3. where' \in {"old", "new", "stray"}
    BY DEF CaptureAppends
<1>4. \/ built' = built
      \/ /\ where = "new" /\ where' = where /\ old' = old
         /\ built' = built \union {[hour |-> 2, from |-> {p}, rows |-> RowsOfPart(p)]}
         /\ built' \subseteq HourFile /\ IsFiniteSet(built')
         /\ \A f \in built' : f.rows = InHour(RowsOf(f.from), f.hour)
    <2>1. CASE where = "new"
        <3>1. RowsOfPart(p) = InHour(RowsOf({p}), 2)
            BY MigrationAssumption DEF RowsOfPart, RowsOf, InHour
        <3>2. built' = WithFile(built, 2, {p}, RowsOfPart(p)) /\ where' = where /\ old' = old
            BY <2>1 DEF CaptureAppends
        <3> QED BY <3>1, <3>2, <1>1, FileWritten, <2>1 DEF PartHours
    <2>2. CASE where # "new"
        BY <2>2 DEF CaptureAppends
    <2> QED BY <2>1, <2>2
<1>5. MigrationShape'
    <2>1. MigrationTypeOK'
        BY <1>1, <1>2, <1>3, <1>4 DEF MigrationShape, MigrationTypeOK
    <2>2. old \subseteq old'
        BY <1>2
    <2> QED BY <2>1, <2>2, <1>1, <1>4 DEF MigrationShape, PassRuns
<1>6. ExpectsWhatItReads'
    <2>1. where # "new" => old \subseteq old' /\ built' = built /\ where' # "new"
        BY <1>2, <1>4 DEF CaptureAppends
    <2>2. PassRuns => where' = where
        BY DEF ExpectsWhatItReads, CaptureAppends, PassRuns
    <2>3. where' = "old" => where = "old"
        BY DEF CaptureAppends
    <2>4. where' # "new" => where # "new"
        BY DEF CaptureAppends
    <2> QED BY <2>1, <2>2, <2>3, <2>4, <1>1 DEF ExpectsWhatItReads, PassRuns
<1>7. OneKindOfError'
    <2>1. where' = "old" => where = "old" /\ built' = built
        BY <1>4 DEF CaptureAppends
    <2> QED BY <2>1, <1>1 DEF OneKindOfError, OneHourUnrecorded, NoneTwice, NoneMissing
<1>8. ClaimedIsThere'
    <2>1. where' # "old" => where # "old"
        BY DEF CaptureAppends
    <2>2. ASSUME where # "old", deaths <= 1, NEW x \in claimed PROVE InOneFile(x)'
        <3>1. InOneFile(x) /\ x[1] \in old
            BY <2>2 DEF ClaimedIsThere, MigrationShape
        <3>2. x[1] # p
            BY <3>1, <1>1 DEF Captured
        <3>3. x \notin RowsOfPart(p)
            BY <3>2 DEF RowsOfPart
        <3> QED BY <3>1, <3>3, <1>4 DEF InOneFile
    <2> QED BY <2>1, <2>2, <1>1 DEF ClaimedIsThere
<1> QED BY <1>5, <1>6, <1>7, <1>8

LEMMA BeginningKeeps ==
    ASSUME MigrationInv, NEW fold \in BOOLEAN, BeginPass(fold)
    PROVE  MigrationInv'
<1> USE DEF MigrationInv
<1>1. /\ UNCHANGED <<old, built, manifest, where, claimed, deaths>>
      /\ run = NoRun /\ where = IF fold THEN "new" ELSE "old"
      /\ run' = [step |-> "read", fold |-> fold, consumed |-> manifest, unread |-> old,
                 expected |-> {}, pending |-> [h \in PartHours |-> {}],
                 feeds |-> [h \in PartHours |-> {}], newly |-> {}]
    BY DEF BeginPass, NoRun
<1>2. RowsOf({}) = {} /\ \A h \in PartHours : InHour({}, h) = {}
    BY DEF RowsOf, InHour
<1>3. MigrationShape'
    <2>1. MigrationTypeOK'
        BY <1>1 DEF MigrationShape, MigrationTypeOK
    <2> QED BY <2>1, <1>1, <1>2 DEF MigrationShape, PassRuns, PartHours, NoRun
<1>4. ExpectsWhatItReads'
    BY <1>1 DEF ExpectsWhatItReads, PassRuns
<1>5. \A h \in PartHours : (NoneTwice(h) => NoneTwice(h)') /\ (NoneMissing(h) => NoneMissing(h)')
    <2>1. run.consumed = {} /\ run.newly = {} /\ \A h \in PartHours : run.feeds[h] = {}
        BY <1>1 DEF NoRun
    <2> QED BY <2>1, <1>1 DEF NoneTwice, NoneMissing
<1>6. OneKindOfError'
    BY <1>5, <1>1 DEF OneKindOfError
<1>7. ClaimedIsThere'
    BY <1>1 DEF ClaimedIsThere, InOneFile
<1> QED BY <1>3, <1>4, <1>6, <1>7


LEMMA ReadingKeeps ==
    ASSUME MigrationInv, ReadBatch
    PROVE  MigrationInv'
<1> USE DEF MigrationInv
<1>1. PICK batch \in Batches :
        LET fresh == batch \ run.consumed
            hours == {x[2] : x \in RowsOf(fresh)}
        IN  run' = [run EXCEPT
                !.unread = @ \ batch,
                !.expected = @ \union RowsOf(batch),
                !.consumed = @ \union fresh,
                !.pending = [h \in PartHours |-> @[h] \union InHour(RowsOf(fresh), h)],
                !.feeds = [h \in PartHours |-> @[h] \union (IF h \in hours THEN fresh ELSE {})]]
    BY DEF ReadBatch
<1> DEFINE fresh == batch \ run.consumed
           hours == {x[2] : x \in RowsOf(fresh)}
<1>2. run.step = "read" /\ UNCHANGED <<old, built, manifest, where, claimed, deaths>>
    BY DEF ReadBatch
<1>3. MigrationTypeOK
    BY DEF MigrationShape
<1>4. batch \subseteq run.unread /\ batch \subseteq Parts /\ batch \subseteq old
    <2>1. batch \subseteq run.unread
        BY DEF Batches
    <2> QED BY <2>1, <1>3 DEF MigrationTypeOK, MigrationShape
<1>5. /\ run'.step = "read" /\ run'.fold = run.fold /\ run'.newly = run.newly
      /\ run'.unread = run.unread \ batch
      /\ run'.expected = run.expected \union RowsOf(batch)
      /\ run'.consumed = run.consumed \union fresh
      /\ run'.pending = [h \in PartHours |-> run.pending[h] \union InHour(RowsOf(fresh), h)]
      /\ run'.feeds = [h \in PartHours |-> run.feeds[h] \union (IF h \in hours THEN fresh ELSE {})]
      /\ run' \in [step : {"idle", "read", "record", "renaming"}, fold : BOOLEAN,
                consumed : SUBSET Parts, unread : SUBSET Parts,
                expected : SUBSET (Parts \X PartHours),
                pending : [PartHours -> SUBSET (Parts \X PartHours)],
                feeds : [PartHours -> SUBSET Parts], newly : SUBSET Parts]
    <2>1. RowsOf(batch) \subseteq Parts \X PartHours /\ RowsOf(fresh) \subseteq Parts \X PartHours
        BY <1>4, RowsAreOfParts
    <2>2. \A h \in PartHours : InHour(RowsOf(fresh), h) \subseteq Parts \X PartHours
        BY <2>1 DEF InHour
    <2> HIDE DEF hours
    <2> QED BY <1>1, <1>2, <1>3, <1>4, <2>1, <2>2 DEF MigrationTypeOK, hours
<1>6. \A h \in PartHours : /\ run'.pending[h] = run.pending[h] \union InHour(RowsOf(fresh), h)
                           /\ run'.feeds[h] \subseteq run.feeds[h] \union fresh
                           /\ run.feeds[h] \subseteq run'.feeds[h]
                           /\ h \in hours => run'.feeds[h] = run.feeds[h] \union fresh
                           /\ h \notin hours => run'.feeds[h] = run.feeds[h]
    <2> HIDE DEF fresh, hours
    <2> SUFFICES ASSUME NEW h \in PartHours
                 PROVE  /\ run'.pending[h] = run.pending[h] \union InHour(RowsOf(fresh), h)
                        /\ run'.feeds[h] = run.feeds[h] \union (IF h \in hours THEN fresh ELSE {})
        OBVIOUS
    <2> QED BY <1>5
<1>7. \A x : x \in RowsOf(fresh) <=> x[1] \in fresh /\ x \in RowsOfPart(x[1])
    BY <1>4, RowsAreOfParts
<1>8. \A p \in fresh : <<p, 2>> \in RowsOf(fresh)
    <2> SUFFICES ASSUME NEW p \in fresh PROVE <<p, 2>> \in RowsOf(fresh)
        OBVIOUS
    <2>1. <<p, 2>> \in RowsOfPart(p)
        BY <1>4 DEF RowsOfPart, PartHours
    <2> QED BY <2>1 DEF RowsOf
<1>9. \A p \in fresh : 2 \in hours /\ p \in run'.feeds[2]
    <2> SUFFICES ASSUME NEW p \in fresh PROVE 2 \in hours /\ p \in run'.feeds[2]
        OBVIOUS
    <2>1. <<p, 2>> \in RowsOf(fresh) /\ <<p, 2>>[2] = 2
        BY <1>8
    <2>2. 2 \in hours
        BY <2>1
    <2> HIDE DEF fresh, hours
    <2> QED BY <2>2, <1>6 DEF PartHours
<1>10. MigrationShape'
    <2>1. MigrationTypeOK'
        BY <1>2, <1>3, <1>5 DEF MigrationTypeOK
    <2>2. ASSUME NEW h \in PartHours
          PROVE  /\ run'.pending[h] = InHour(RowsOf(run'.feeds[h]), h)
                 /\ run'.pending[h] = {} => run'.feeds[h] = {}
                 /\ run'.feeds[h] \subseteq run'.consumed
        <3>1. /\ run.pending[h] = InHour(RowsOf(run.feeds[h]), h)
              /\ run.pending[h] = {} => run.feeds[h] = {}
              /\ run.feeds[h] \subseteq run.consumed
            BY DEF MigrationShape
        <3>2. CASE h \in hours
            <4>1. RowsOf(run.feeds[h] \union fresh) = RowsOf(run.feeds[h]) \union RowsOf(fresh)
                BY DEF RowsOf
            <4>2. PICK x \in RowsOf(fresh) : x[2] = h
                BY <3>2
            <4>3. x \in InHour(RowsOf(fresh), h)
                BY <4>2 DEF InHour
            <4>4. run'.pending[h] = InHour(RowsOf(run'.feeds[h]), h)
                BY <4>1, <3>1, <3>2, <1>6 DEF InHour
            <4>5. run'.pending[h] # {}
                BY <4>3, <1>6
            <4>6. run'.feeds[h] \subseteq run'.consumed
                BY <3>1, <1>5, <1>6
            <4> QED BY <4>4, <4>5, <4>6
        <3>3. CASE h \notin hours
            <4>1. InHour(RowsOf(fresh), h) = {}
                BY <3>3 DEF InHour
            <4>2. run'.feeds[h] = run.feeds[h] /\ run'.pending[h] = run.pending[h]
                BY <3>3, <4>1, <1>6
            <4> QED BY <4>2, <3>1, <1>5
        <3> QED BY <3>2, <3>3
    <2>3. run'.consumed \subseteq manifest' \union run'.newly \union run'.feeds[1] \union run'.feeds[2]
        <3>1. run.feeds[1] \subseteq run'.feeds[1] /\ run.feeds[2] \subseteq run'.feeds[2]
            BY <1>6 DEF PartHours
        <3> QED BY <3>1, <1>2, <1>5, <1>9 DEF MigrationShape
    <2>4. manifest' \union run'.consumed \union run'.unread \subseteq old'
        BY <1>2, <1>4, <1>5 DEF MigrationShape
    <2> HIDE DEF fresh, hours
    <2> QED BY <2>1, <2>2, <2>3, <2>4, <1>2, <1>5 DEF MigrationShape, PassRuns
<1>11. ExpectsWhatItReads'
    <2>1. \A x : x \in RowsOf(batch) <=> x[1] \in batch /\ x \in RowsOfPart(x[1])
        BY <1>4, RowsAreOfParts
    <2>2. \A p \in batch : RowsOfPart(p) \subseteq RowsOf(batch)
        BY DEF RowsOf
    <2>3. \A x \in run'.expected : x[1] \in run'.consumed /\ x \in RowsOfPart(x[1])
        BY <2>1, <1>5 DEF ExpectsWhatItReads
    <2>4. \A h \in PartHours : \A p \in run'.feeds[h] : RowsOfPart(p) \subseteq run'.expected
        BY <2>2, <1>5, <1>6 DEF ExpectsWhatItReads
    <2>5. where = "old" => \A f \in built : \A p \in f.from :
              p \in run'.unread \/ RowsOfPart(p) \subseteq run'.expected
        BY <2>2, <1>5, <1>2 DEF ExpectsWhatItReads, PassRuns
    <2> HIDE DEF fresh, hours
    <2> QED BY <2>3, <2>4, <2>5, <1>2, <1>5 DEF ExpectsWhatItReads, PassRuns
<1>12. OneKindOfError'
    <2>1. ASSUME NEW h \in PartHours, NoneTwice(h) PROVE NoneTwice(h)'
        <3>1. \A f \in built : f.hour = h => f.from \intersect run'.feeds[h] = {}
            <4>1. \A f \in built : f.hour = h => f.from \subseteq run.consumed /\ f.from \intersect run.feeds[h] = {}
                BY <2>1, <1>2 DEF NoneTwice, MigrationShape, PassRuns
            <4> QED BY <4>1, <1>6
        <3> QED BY <3>1, <2>1, <1>2, <1>5 DEF NoneTwice
    <2>2. ASSUME NEW h \in PartHours, NoneMissing(h) PROVE NoneMissing(h)'
        <3> SUFFICES ASSUME NEW p \in manifest \union run'.consumed, <<p, h>> \in RowsOfPart(p)
                     PROVE  p \in run'.feeds[h] \/ \E f \in built : f.hour = h /\ p \in f.from
            BY <1>2 DEF NoneMissing
        <3>1. CASE p \in manifest \union run.consumed
            BY <3>1, <2>2, <1>6 DEF NoneMissing
        <3>2. CASE p \in fresh
            <4>1. <<p, h>> \in RowsOf(fresh)
                BY <3>2 DEF RowsOf
            <4>2. h \in hours
                BY <4>1
            <4> QED BY <4>2, <3>2, <1>6
        <3> QED BY <3>1, <3>2, <1>5
    <2> QED BY <2>1, <2>2, <1>2, <1>5 DEF OneKindOfError
<1>13. ClaimedIsThere'
    <2>1. ASSUME NEW x \in claimed, x[1] \in manifest, NEW h \in PartHours, x[1] \notin run.feeds[h]
          PROVE  x[1] \notin run'.feeds[h]
        <3>1. x[1] \notin fresh
            BY <2>1, <1>2 DEF MigrationShape, PassRuns
        <3> QED BY <3>1, <2>1, <1>6
    <2> QED BY <2>1, <1>2 DEF ClaimedIsThere, InOneFile
<1> QED BY <1>10, <1>11, <1>12, <1>13, SMTT(60)


LEMMA FlushedIsAnHour ==
    ASSUME MigrationShape, Pending # {}
    PROVE  FlushedNext \in PartHours
<1>1. Pending \in SUBSET PartHours /\ Pending # {}
    BY DEF Pending
<1>2. Min(Pending) \in PartHours
    <2>1. \A n \in Pending : n = 1 \/ n = 2
        BY <1>1 DEF PartHours
    <2>2. \E m \in Pending : \A n \in Pending : m <= n
        <3>1. CASE 1 \in Pending
            BY <3>1, <2>1
        <3>2. CASE 1 \notin Pending
            <4>1. 2 \in Pending /\ \A n \in Pending : n = 2
                BY <3>2, <2>1, <1>1
            <4> QED BY <4>1
        <3> QED BY <3>1, <3>2
    <2> QED BY <2>2, <1>1 DEF Min
<1> QED BY <1>2 DEF FlushedNext, PartHours

LEMMA FlushingKeeps ==
    ASSUME MigrationInv, FlushHour
    PROVE  MigrationInv'
<1> USE DEF MigrationInv
<1> DEFINE h == FlushedNext
           file == [hour |-> h, from |-> run.feeds[h], rows |-> run.pending[h]]
<1>1. /\ UNCHANGED <<old, manifest, where, claimed, deaths>>
      /\ run.step = "read" /\ run.newly = {} /\ h \in PartHours
      /\ built' = WithFile(built, h, run.feeds[h], run.pending[h])
      /\ run' = [run EXCEPT !.step = "record", !.newly = run.feeds[h],
                            !.pending[h] = {}, !.feeds[h] = {}]
    BY FlushedIsAnHour DEF FlushHour, MigrationShape
<1> HIDE DEF h
<1>2. MigrationTypeOK
    BY DEF MigrationShape
<1>3. run.feeds[h] \in SUBSET Parts /\ run.pending[h] = InHour(RowsOf(run.feeds[h]), h)
    BY <1>1, <1>2 DEF MigrationTypeOK, MigrationShape
<1>4. /\ built' = built \union {file}
      /\ built' \subseteq HourFile /\ IsFiniteSet(built')
      /\ \A f \in built' : f.rows = InHour(RowsOf(f.from), f.hour)
    BY <1>1, <1>3, FileWritten
<1>5. /\ run'.step = "record" /\ run'.newly = run.feeds[h] /\ run'.consumed = run.consumed
      /\ run'.unread = run.unread /\ run'.expected = run.expected /\ run'.fold = run.fold
      /\ run'.pending = [run.pending EXCEPT ![h] = {}] /\ run'.feeds = [run.feeds EXCEPT ![h] = {}]
      /\ run' \in [step : {"idle", "read", "record", "renaming"}, fold : BOOLEAN,
                consumed : SUBSET Parts, unread : SUBSET Parts,
                expected : SUBSET (Parts \X PartHours),
                pending : [PartHours -> SUBSET (Parts \X PartHours)],
                feeds : [PartHours -> SUBSET Parts], newly : SUBSET Parts]
    BY <1>1, <1>2, <1>3 DEF MigrationTypeOK
<1>6. /\ run'.feeds[h] = {} /\ run'.pending[h] = {}
      /\ \A k \in PartHours \ {h} : run'.feeds[k] = run.feeds[k] /\ run'.pending[k] = run.pending[k]
    BY <1>1, <1>2, <1>5 DEF MigrationTypeOK
<1>7. MigrationShape'
    <2>1. MigrationTypeOK'
        BY <1>1, <1>2, <1>4, <1>5 DEF MigrationTypeOK
    <2>2. InHour(RowsOf({}), h) = {}
        BY DEF InHour, RowsOf
    <2>3. ASSUME NEW k \in PartHours
          PROVE  /\ run'.pending[k] = InHour(RowsOf(run'.feeds[k]), k)
                 /\ run'.pending[k] = {} => run'.feeds[k] = {}
                 /\ run'.feeds[k] \subseteq run'.consumed
        <3>1. CASE k = h
            BY <3>1, <2>2, <1>6
        <3>2. CASE k # h
            BY <3>2, <1>5, <1>6 DEF MigrationShape
        <3> QED BY <3>1, <3>2
    <2>4. run.consumed \subseteq manifest \union run'.newly \union run'.feeds[1] \union run'.feeds[2]
        BY <1>1, <1>5, <1>6 DEF MigrationShape, PartHours
    <2>5. run'.newly \subseteq run.consumed
        BY <1>1, <1>5 DEF MigrationShape
    <2> QED BY <2>1, <2>3, <2>4, <2>5, <1>1, <1>4, <1>5 DEF MigrationShape, PassRuns
<1>8. ExpectsWhatItReads'
    <2>1. run.feeds[h] \subseteq old /\ \A p \in run.feeds[h] : RowsOfPart(p) \subseteq run.expected
        BY <1>1 DEF MigrationShape, ExpectsWhatItReads
    <2>2. where # "new" => \A f \in built' : f.from \subseteq old
        BY <2>1, <1>4 DEF ExpectsWhatItReads
    <2>3. where = "old" => \A f \in built' : \A p \in f.from :
              p \in run.unread \/ RowsOfPart(p) \subseteq run.expected
        BY <2>1, <1>1, <1>4 DEF ExpectsWhatItReads, PassRuns
    <2>4. \A k \in PartHours : \A p \in run'.feeds[k] : RowsOfPart(p) \subseteq run.expected
        BY <1>6 DEF ExpectsWhatItReads
    <2> QED BY <2>2, <2>3, <2>4, <1>1, <1>5 DEF ExpectsWhatItReads, PassRuns
<1>9. OneKindOfError'
    <2>1. ASSUME NEW k \in PartHours, NoneTwice(k) PROVE NoneTwice(k)'
        <3>1. CASE k = h
            <4>1. \A f \in built : f.hour = k => f.from \subseteq manifest /\ f.from \intersect run.feeds[h] = {}
                BY <2>1, <3>1, <1>1 DEF NoneTwice
            <4>2. \A f \in built' : f.hour = k => f.from \subseteq manifest \union run'.newly
                BY <4>1, <1>4, <1>5
            <4>3. \A f, g \in built' : f.hour = k /\ g.hour = k /\ g # f => f.from \intersect g.from = {}
                BY <4>1, <1>4, <2>1 DEF NoneTwice
            <4>4. run'.feeds[k] = {}
                BY <3>1, <1>6
            <4> QED BY <4>2, <4>3, <4>4, <1>1 DEF NoneTwice
        <3>2. CASE k # h
            <4>1. \A f \in built' : f.hour = k <=> f \in built /\ f.hour = k
                BY <3>2, <1>4
            <4> QED BY <4>1, <3>2, <2>1, <1>1, <1>4, <1>5, <1>6 DEF NoneTwice
        <3> QED BY <3>1, <3>2
    <2>2. ASSUME NEW k \in PartHours, NoneMissing(k) PROVE NoneMissing(k)'
        <3> SUFFICES ASSUME NEW p \in manifest \union run.consumed, <<p, k>> \in RowsOfPart(p)
                     PROVE  p \in run'.feeds[k] \/ \E f \in built' : f.hour = k /\ p \in f.from
            BY <1>1, <1>5 DEF NoneMissing
        <3>1. p \in run.feeds[k] \/ \E f \in built : f.hour = k /\ p \in f.from
            BY <2>2 DEF NoneMissing
        <3>2. file \in built' /\ file.hour = h /\ file.from = run.feeds[h]
            BY <1>4
        <3> QED BY <3>1, <3>2, <1>4, <1>6
    <2>3. where = "old" /\ deaths = 0 => OneHourUnrecorded'
        <3> SUFFICES ASSUME where = "old", deaths = 0
                     PROVE  \A f \in built' : f.hour # h => f.from \subseteq manifest
            BY <1>1, <1>6 DEF OneHourUnrecorded
        <3>1. \A f \in built : f.from \subseteq manifest
            <4> SUFFICES ASSUME NEW f \in built PROVE f.from \subseteq manifest
                OBVIOUS
            <4>1. f.hour \in PartHours
                BY <1>2 DEF MigrationTypeOK, HourFile
            <4> QED BY <4>1, <1>1 DEF OneKindOfError, NoneTwice
        <3> QED BY <3>1, <1>4
    <2> QED BY <2>1, <2>2, <2>3, <1>1, <1>5 DEF OneKindOfError
<1>10. ClaimedIsThere'
    <2> SUFFICES ASSUME where # "old", deaths <= 1, NEW x \in claimed
                 PROVE  /\ x[1] \in manifest /\ x \in RowsOfPart(x[1])
                        /\ \A k \in PartHours : x[1] \notin run'.feeds[k]
                        /\ InOneFile(x)'
        BY <1>1 DEF ClaimedIsThere
    <2>1. /\ x[1] \in manifest /\ x \in RowsOfPart(x[1]) /\ InOneFile(x)
          /\ \A k \in PartHours : x[1] \notin run.feeds[k]
        BY DEF ClaimedIsThere
    <2>2. \A k \in PartHours : x[1] \notin run'.feeds[k]
        BY <2>1, <1>6
    <2>3. x \notin file.rows
        BY <2>1, <1>1, <1>3, RowsAreOfParts DEF InHour
    <2>4. InOneFile(x)'
        BY <2>1, <2>3, <1>4 DEF InOneFile
    <2> QED BY <2>1, <2>2, <2>4
<1> QED BY <1>7, <1>8, <1>9, <1>10

LEMMA RecordingKeeps ==
    ASSUME MigrationInv, RecordConsumed
    PROVE  MigrationInv'
<1> USE DEF MigrationInv
<1>1. /\ UNCHANGED <<old, built, where, claimed, deaths>> /\ run.step = "record"
      /\ manifest' = manifest \union run.newly
      /\ run' = [run EXCEPT !.step = "read", !.newly = {}]
    BY DEF RecordConsumed
<1>2. MigrationTypeOK
    BY DEF MigrationShape
<1>3. /\ run'.step = "read" /\ run'.newly = {} /\ run'.consumed = run.consumed
      /\ run'.unread = run.unread /\ run'.expected = run.expected /\ run'.fold = run.fold
      /\ run'.pending = run.pending /\ run'.feeds = run.feeds
      /\ run' \in [step : {"idle", "read", "record", "renaming"}, fold : BOOLEAN,
                consumed : SUBSET Parts, unread : SUBSET Parts,
                expected : SUBSET (Parts \X PartHours),
                pending : [PartHours -> SUBSET (Parts \X PartHours)],
                feeds : [PartHours -> SUBSET Parts], newly : SUBSET Parts]
    BY <1>1, <1>2 DEF MigrationTypeOK
<1>4. manifest' \in SUBSET Parts /\ manifest' \subseteq run.consumed
    BY <1>1, <1>2 DEF MigrationTypeOK, MigrationShape, PassRuns
<1>5. MigrationShape'
    <2>1. MigrationTypeOK'
        BY <1>1, <1>2, <1>3, <1>4 DEF MigrationTypeOK
    <2>2. run.consumed \subseteq manifest' \union run.feeds[1] \union run.feeds[2]
        BY <1>1 DEF MigrationShape
    <2>3. manifest' \union run.consumed \union run.unread \subseteq old
        BY <1>4 DEF MigrationShape
    <2>4. \A h \in PartHours :
            /\ run'.pending[h] = InHour(RowsOf(run'.feeds[h]), h)
            /\ run'.pending[h] = {} => run'.feeds[h] = {}
            /\ run'.feeds[h] \subseteq run'.consumed
        BY <1>3 DEF MigrationShape
    <2> QED BY <2>1, <2>2, <2>3, <2>4, <1>1, <1>3, <1>4 DEF MigrationShape, PassRuns
<1>6. ExpectsWhatItReads'
    BY <1>1, <1>3 DEF ExpectsWhatItReads, PassRuns
<1>7. OneKindOfError'
    <2>1. \A h \in PartHours : (NoneTwice(h) => NoneTwice(h)') /\ (NoneMissing(h) => NoneMissing(h)')
        BY <1>1, <1>3, <1>4 DEF NoneTwice, NoneMissing, MigrationShape
    <2> QED BY <2>1, <1>1, <1>3 DEF OneKindOfError
<1>8. ClaimedIsThere'
    BY <1>1, <1>3 DEF ClaimedIsThere, InOneFile
<1> QED BY <1>5, <1>6, <1>7, <1>8

LEMMA NothingIsHeld ==
    /\ NoRun = NothingHeld("idle") /\ [NoRun EXCEPT !.step = "renaming"] = NothingHeld("renaming")
    /\ \A step : /\ NothingHeld(step).step = step /\ NothingHeld(step).newly = {}
                 /\ NothingHeld(step).consumed = {} /\ \A h \in PartHours : NothingHeld(step).feeds[h] = {}
    /\ \A step \in {"idle", "renaming"} :
        NothingHeld(step) \in [step : {"idle", "read", "record", "renaming"}, fold : BOOLEAN,
                consumed : SUBSET Parts, unread : SUBSET Parts,
                expected : SUBSET (Parts \X PartHours),
                pending : [PartHours -> SUBSET (Parts \X PartHours)],
                feeds : [PartHours -> SUBSET Parts], newly : SUBSET Parts]
<1>1. NoRun = NothingHeld("idle")
    BY DEF NoRun, NothingHeld
<1>2. [NoRun EXCEPT !.step = "renaming"] = NothingHeld("renaming")
    <2>1. ASSUME NEW next, next = [NoRun EXCEPT !.step = "renaming"]
          PROVE  next = [step |-> "renaming", fold |-> FALSE, consumed |-> {}, unread |-> {},
                         expected |-> {}, pending |-> [h \in PartHours |-> {}],
                         feeds |-> [h \in PartHours |-> {}], newly |-> {}]
        BY <2>1 DEF NoRun
    <2> QED BY <2>1 DEF NothingHeld
<1>3. \A step : /\ NothingHeld(step).step = step /\ NothingHeld(step).newly = {}
                /\ NothingHeld(step).consumed = {} /\ \A h \in PartHours : NothingHeld(step).feeds[h] = {}
    BY DEF NothingHeld
<1>4. \A step \in {"idle", "renaming"} :
        NothingHeld(step) \in [step : {"idle", "read", "record", "renaming"}, fold : BOOLEAN,
                consumed : SUBSET Parts, unread : SUBSET Parts,
                expected : SUBSET (Parts \X PartHours),
                pending : [PartHours -> SUBSET (Parts \X PartHours)],
                feeds : [PartHours -> SUBSET Parts], newly : SUBSET Parts]
    <2> DEFINE none == [h \in PartHours |-> {}]
    <2>1. none \in [PartHours -> SUBSET (Parts \X PartHours)] /\ none \in [PartHours -> SUBSET Parts]
        OBVIOUS
    <2> HIDE DEF none
    <2> SUFFICES ASSUME NEW step \in {"idle", "renaming"}
                 PROVE  [step |-> step, fold |-> FALSE, consumed |-> {}, unread |-> {},
                         expected |-> {}, pending |-> none, feeds |-> none, newly |-> {}]
                        \in [step : {"idle", "read", "record", "renaming"}, fold : BOOLEAN,
                            consumed : SUBSET Parts, unread : SUBSET Parts,
                            expected : SUBSET (Parts \X PartHours),
                            pending : [PartHours -> SUBSET (Parts \X PartHours)],
                            feeds : [PartHours -> SUBSET Parts], newly : SUBSET Parts]
        BY DEF NothingHeld, none
    <2> QED BY <2>1
<1> QED BY <1>1, <1>2, <1>3, <1>4

(* A pass that is over, or dead, has nothing in hand.                      *)
LEMMA IdleShape ==
    ASSUME MigrationShape, UNCHANGED <<old, built, manifest>>,
           where' \in {"old", "neither", "new", "stray"}, claimed' \subseteq Parts \X PartHours,
           deaths' \in 0 .. MaxDeaths,
           NEW step \in {"idle", "renaming"}, run' = NothingHeld(step),
           where' # "new" => \A f \in built : f.from \subseteq old
    PROVE  MigrationShape' /\ ExpectsWhatItReads'
<1>1. RowsOf({}) = {} /\ \A h \in PartHours : InHour({}, h) = {}
    BY DEF RowsOf, InHour
<1>2. MigrationTypeOK'
    BY NothingIsHeld DEF MigrationShape, MigrationTypeOK
<1>3. MigrationShape'
    BY <1>1, <1>2, NothingIsHeld DEF MigrationShape, PassRuns, PartHours, NothingHeld
<1>4. ExpectsWhatItReads'
    BY DEF ExpectsWhatItReads, PassRuns, NothingHeld
<1> QED BY <1>3, <1>4

LEMMA EndingKeeps ==
    ASSUME MigrationInv, EndPass
    PROVE  MigrationInv'
<1> USE DEF MigrationInv
<1>1. /\ UNCHANGED <<old, built, manifest, deaths>>
      /\ run.step = "read" /\ run.newly = {} /\ run.unread = {} /\ Pending = {}
    BY DEF EndPass, MigrationShape
<1>2. \A h \in PartHours : run.feeds[h] = {}
    BY <1>1 DEF Pending, MigrationShape
<1>3. run.consumed = manifest
    BY <1>1, <1>2 DEF MigrationShape, PassRuns, PartHours
<1>4. MigrationTypeOK
    BY DEF MigrationShape
<1>5. CASE run' = NoRun /\ UNCHANGED <<where, claimed>>
    <2>1. run' = NothingHeld("idle")
        BY <1>5, NothingIsHeld
    <2>2. MigrationShape' /\ ExpectsWhatItReads'
        BY <2>1, <1>1, <1>4, <1>5, IdleShape DEF MigrationTypeOK, ExpectsWhatItReads
    <2>3. run'.newly = {} /\ run'.consumed = {} /\ \A h \in PartHours : run'.feeds[h] = {}
        BY <2>1, NothingIsHeld
    <2>4. \A h \in PartHours : (NoneTwice(h) => NoneTwice(h)') /\ (NoneMissing(h) => NoneMissing(h)')
        BY <2>3, <1>1, <1>2 DEF NoneTwice, NoneMissing
    <2>5. run'.step = "idle"
        BY <2>1, NothingIsHeld
    <2>6. OneKindOfError'
        BY <2>4, <2>5, <1>1, <1>5 DEF OneKindOfError
    <2>7. ClaimedIsThere'
        BY <2>3, <1>1, <1>5 DEF ClaimedIsThere, InOneFile
    <2> QED BY <2>2, <2>6, <2>7
<1>6. CASE /\ ~run.fold /\ Verified(run.expected, run.fold)
           /\ where = "old" /\ where' = "neither"
           /\ claimed' = run.expected /\ run' = [NoRun EXCEPT !.step = "renaming"]
    <2>1. MigrationShape' /\ ExpectsWhatItReads'
        BY <1>1, <1>4, <1>6, IdleShape, NothingIsHeld DEF MigrationTypeOK, ExpectsWhatItReads
    <2>2. \A h \in PartHours : run'.feeds[h] = {}
        BY <1>6, NothingIsHeld
    <2>3. ASSUME deaths <= 1, NEW x \in run.expected
          PROVE  x[1] \in manifest /\ x \in RowsOfPart(x[1]) /\ InOneFile(x)'
        <3>1. x[1] \in manifest /\ x \in RowsOfPart(x[1])
            BY <1>3 DEF ExpectsWhatItReads
        <3>2. run.fold = FALSE
            BY <1>6, <1>4 DEF MigrationTypeOK
        <3>3. \A h \in PartHours : NoneTwice(h) \/ NoneMissing(h)
            BY <2>3, <1>6 DEF OneKindOfError
        <3>4. InOneFile(x)
            BY <3>2, <3>3, <1>1, <1>6, VerifiedIsExact
        <3> QED BY <3>1, <3>4, <1>1 DEF InOneFile
    <2>4. ClaimedIsThere'
        BY <2>2, <2>3, <1>1, <1>6 DEF ClaimedIsThere
    <2>5. OneKindOfError'
        BY <1>6 DEF OneKindOfError
    <2> QED BY <2>1, <2>4, <2>5
<1> QED BY <1>5, <1>6 DEF EndPass

LEMMA RenamingKeeps ==
    ASSUME MigrationInv, RenameBuilt
    PROVE  MigrationInv'
<1> USE DEF MigrationInv
<1>1. /\ UNCHANGED <<old, built, manifest, claimed, deaths>>
      /\ run.step = "renaming" /\ run' = NoRun
      /\ where' = IF where = "neither" THEN "new" ELSE where
    BY DEF RenameBuilt
<1>2. MigrationTypeOK /\ run = NothingHeld("renaming")
    BY <1>1 DEF MigrationShape, PassRuns
<1>3. run' = NothingHeld("idle") /\ run'.feeds = run.feeds /\ run'.newly = run.newly
      /\ run'.consumed = run.consumed /\ run'.step = "idle"
    BY <1>1, <1>2, NothingIsHeld DEF NothingHeld
<1>4. where' # "new" => where # "new"
    BY <1>1
<1>5. MigrationShape' /\ ExpectsWhatItReads'
    BY <1>1, <1>2, <1>3, <1>4, IdleShape DEF MigrationTypeOK, ExpectsWhatItReads
<1>6. OneKindOfError'
    BY <1>1, <1>3 DEF OneKindOfError, NoneTwice, NoneMissing
<1>7. ClaimedIsThere'
    <2>1. where' # "old" => where # "old"
        BY <1>1
    <2> QED BY <2>1, <1>1, <1>3 DEF ClaimedIsThere, InOneFile
<1> QED BY <1>5, <1>6, <1>7

(* What a first death leaves out is of hours that were waiting, and what it*)
(* will write twice is of the hour that was just written.                  *)
LEMMA DyingKeeps ==
    ASSUME MigrationInv, KillPass
    PROVE  MigrationInv'
<1> USE DEF MigrationInv
<1>1. /\ UNCHANGED <<old, built, manifest, where, claimed>>
      /\ run # NoRun /\ deaths < MaxDeaths /\ deaths' = deaths + 1 /\ run' = NoRun
    BY DEF KillPass
<1>2. MigrationTypeOK
    BY DEF MigrationShape
<1>3. deaths \in Nat /\ deaths' \in 0 .. MaxDeaths
    BY <1>1, <1>2, MigrationAssumption DEF MigrationTypeOK
<1>4. /\ run' = NothingHeld("idle") /\ run'.newly = {} /\ run'.consumed = {}
      /\ \A h \in PartHours : run'.feeds[h] = {}
    BY <1>1, NothingIsHeld
<1>5. MigrationShape' /\ ExpectsWhatItReads'
    BY <1>1, <1>2, <1>3, <1>4, IdleShape DEF MigrationTypeOK, ExpectsWhatItReads
<1>6. OneKindOfError'
    <2> SUFFICES ASSUME where = "old", deaths = 0, NEW h \in PartHours
                 PROVE  NoneTwice(h)' \/ NoneMissing(h)'
        BY <1>1, <1>3 DEF OneKindOfError
    <2>1. NoneTwice(h) /\ NoneMissing(h)
        BY DEF OneKindOfError
    <2>2. CASE run.step # "record"
        <3>1. run.newly = {}
            BY <2>2, <1>2, NothingIsHeld DEF MigrationShape, MigrationTypeOK, PassRuns
        <3>2. NoneTwice(h)'
            BY <2>1, <3>1, <1>1, <1>4 DEF NoneTwice
        <3> QED BY <3>2
    <2>3. CASE run.step = "record"
        <3>1. PICK k \in PartHours :
                  run.feeds[k] = {} /\ \A f \in built : f.hour # k => f.from \subseteq manifest
            BY <2>3 DEF OneKindOfError, OneHourUnrecorded
        <3>2. CASE h = k
            BY <3>1, <3>2, <2>1, <1>1, <1>4 DEF NoneMissing
        <3>3. CASE h # k
            BY <3>1, <3>3, <2>1, <1>1, <1>4 DEF NoneTwice
        <3> QED BY <3>2, <3>3
    <2> QED BY <2>2, <2>3
<1>7. ClaimedIsThere'
    <2>1. deaths' <= 1 => deaths <= 1
        BY <1>1, <1>3
    <2> QED BY <2>1, <1>1, <1>4 DEF ClaimedIsThere, InOneFile
<1> QED BY <1>5, <1>6, <1>7

(* OneDeathIsNoticed: a copy that was verified after one death at most has *)
(* each row it vouches for, and once.                                      *)
THEOREM OneDeathTells == MigrationSpec => []OneDeathIsNoticed
<1>1. MigrationInv => OneDeathIsNoticed
    <2> SUFFICES ASSUME MigrationInv, deaths <= 1, where = "new", NEW x \in claimed
                 PROVE  Copies(x) = 1
        BY DEF OneDeathIsNoticed, VerifiedCopyIsExact
    <2>1. PICK f \in built : x \in f.rows /\ \A g \in built : x \in g.rows => g = f
        BY DEF MigrationInv, ClaimedIsThere, InOneFile
    <2>2. {g \in built : x \in g.rows} = {f}
        BY <2>1
    <2> QED BY <2>2, FS_Singleton DEF Copies
<1>2. MigrationInv /\ [MigrationNext]_migrationVars => MigrationInv'
    <2> SUFFICES ASSUME MigrationInv, [MigrationNext]_migrationVars PROVE MigrationInv'
        OBVIOUS
    <2>1. CASE \E p \in LateParts : CaptureAppends(p)
        BY <2>1, CapturingKeeps
    <2>2. CASE \E fold \in BOOLEAN : BeginPass(fold)
        BY <2>2, BeginningKeeps
    <2>3. CASE ReadBatch
        BY <2>3, ReadingKeeps
    <2>4. CASE FlushHour
        BY <2>4, FlushingKeeps
    <2>5. CASE RecordConsumed
        BY <2>5, RecordingKeeps
    <2>6. CASE EndPass
        BY <2>6, EndingKeeps
    <2>7. CASE RenameBuilt
        BY <2>7, RenamingKeeps
    <2>8. CASE KillPass
        BY <2>8, DyingKeeps
    <2>9. CASE UNCHANGED migrationVars
        BY <2>9 DEF migrationVars, MigrationInv, MigrationShape, MigrationTypeOK, PassRuns,
                    ExpectsWhatItReads, OneKindOfError, OneHourUnrecorded, NoneTwice, NoneMissing,
                    ClaimedIsThere, InOneFile
    <2> QED BY <2>1, <2>2, <2>3, <2>4, <2>5, <2>6, <2>7, <2>8, <2>9 DEF MigrationNext
<1>3. MigrationInit => MigrationInv
    BY MigrationBegins
<1> QED BY <1>1, <1>2, <1>3, PTL DEF MigrationSpec
=============================================================================
