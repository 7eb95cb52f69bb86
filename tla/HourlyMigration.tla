--------------------------- MODULE HourlyMigration ---------------------------
(***************************************************************************)
(* hourly_migration: a dataset laid out by symbol is copied, part by part, *)
(* into one laid out by hour, the copy is verified, and two renames put it *)
(* in the place of the old one.  Capture appends to the live dataset all   *)
(* the while; what it appended behind a pass is folded in afterwards.      *)
(*                                                                         *)
(* A row is named by its part and its hour.  One symbol is modelled: its   *)
(* old parts span both hours, and a part that capture appends is of the    *)
(* later one.                                                              *)
(***************************************************************************)
EXTENDS Naturals, FiniteSets, FiniteSetsExt

CONSTANTS
    OldParts,       \* the parts of the symbol's folder
    LateParts,      \* parts that capture appends by and by
    MaxBuffered,    \* MAX_BUFFERED_ROWS
    MaxDeaths       \* bound: passes that are killed

ASSUME MigrationAssumption ==
    /\ OldParts # {} /\ OldParts \cap LateParts = {}
    /\ IsFiniteSet(OldParts) /\ IsFiniteSet(LateParts)
    /\ MaxBuffered \in Nat \ {0} /\ MaxDeaths \in Nat

VARIABLES
    old,            \* the parts of the dataset in the old layout
    built,          \* the files of the one laid out by hour
    manifest,       \* the parts .migrated-parts.json names as migrated
    where,          \* which of them is live
    run,            \* the pass that runs, with what it holds in memory
    claimed,        \* history: the rows the report of the swap vouches for
    deaths

migrationVars == <<old, built, manifest, where, run, claimed, deaths>>

Parts == OldParts \union LateParts
PartHours == {1, 2}

RowsOfPart(p) == {p} \X (IF p \in OldParts THEN PartHours ELSE {2})
RowsOf(P) == UNION {RowsOfPart(p) : p \in P}
InHour(rows, h) == {x \in rows : x[2] = h}

(* A file is named for its hour and for the contents of what fed it.       *)
HourFile == [hour : PartHours, from : SUBSET Parts, rows : SUBSET (Parts \X PartHours)]

NoRun == [step |-> "idle", fold |-> FALSE, consumed |-> {}, unread |-> {}, expected |-> {},
          pending |-> [h \in PartHours |-> {}], feeds |-> [h \in PartHours |-> {}], newly |-> {}]

MigrationTypeOK ==
    /\ old \subseteq Parts
    /\ built \subseteq HourFile
    /\ manifest \subseteq Parts
    /\ where \in {"old", "neither", "new", "stray"}
    /\ run \in [step : {"idle", "read", "record", "renaming"}, fold : BOOLEAN,
                consumed : SUBSET Parts, unread : SUBSET Parts,
                expected : SUBSET (Parts \X PartHours),
                pending : [PartHours -> SUBSET (Parts \X PartHours)],
                feeds : [PartHours -> SUBSET Parts], newly : SUBSET Parts]
    /\ claimed \subseteq Parts \X PartHours
    /\ deaths \in 0 .. MaxDeaths

MigrationInit ==
    /\ old = OldParts
    /\ built = {} /\ manifest = {}
    /\ where = "old"
    /\ run = NoRun
    /\ claimed = {}
    /\ deaths = 0

-----------------------------------------------------------------------------
(* append_partition of the rows of one hour: a file whose name is taken    *)
(* holds these rows already (PartitionExistsError).                        *)
WithFile(files, h, from, rows) ==
    IF \E f \in files : f.hour = h /\ f.from = from THEN files
    ELSE files \union {[hour |-> h, from |-> from, rows |-> rows]}

Captured == old \union UNION {f.from : f \in built}

(* Capture writes a part: in the layout that the live dataset has, or, when*)
(* there is none for the moment, in a directory it makes for it.           *)
CaptureAppends(p) ==
    /\ p \notin Captured /\ where # "stray"
    /\ \/ where = "old" /\ old' = old \union {p} /\ UNCHANGED <<built, where>>
       \/ /\ where = "new" /\ built' = WithFile(built, 2, {p}, RowsOfPart(p))
          /\ UNCHANGED <<old, where>>
       \/ where = "neither" /\ where' = "stray" /\ UNCHANGED <<old, built>>
    /\ UNCHANGED <<manifest, run, claimed, deaths>>

(* migrate_dataset_to_hourly, of the live dataset or, to fold, of the      *)
(* retired one into the live one.                                          *)
BeginPass(fold) ==
    /\ run = NoRun
    /\ where = IF fold THEN "new" ELSE "old"
    /\ run' = [NoRun EXCEPT !.step = "read", !.fold = fold,
                            !.consumed = manifest, !.unread = old]
    /\ UNCHANGED <<old, built, manifest, where, claimed, deaths>>

Buffered == Cardinality(run.pending[1]) + Cardinality(run.pending[2])

(* The parts read next: the symbol's folder at once, then one by one the   *)
(* parts that capture had laid out by hour when the pass began.            *)
Batches ==
    IF OldParts \subseteq run.unread THEN {OldParts} ELSE {{p} : p \in run.unread}

ReadBatch ==
    /\ run.step = "read" /\ Buffered <= MaxBuffered
    /\ \E batch \in Batches :
        LET fresh == batch \ run.consumed
            hours == {x[2] : x \in RowsOf(fresh)}
        IN  run' = [run EXCEPT
                !.unread = @ \ batch,
                !.expected = @ \union RowsOf(batch),
                !.consumed = @ \union fresh,
                !.pending = [h \in PartHours |-> @[h] \union InHour(RowsOf(fresh), h)],
                !.feeds = [h \in PartHours |-> @[h] \union (IF h \in hours THEN fresh ELSE {})]]
    /\ UNCHANGED <<old, built, manifest, where, claimed, deaths>>

Pending == {h \in PartHours : run.pending[h] # {}}

(* The hour to be flushed: over the cap the one with the most rows, and at *)
(* the end each in turn.                                                   *)
FlushedNext ==
    IF Buffered > MaxBuffered /\ Cardinality(run.pending[2]) > Cardinality(run.pending[1])
    THEN 2 ELSE Min(Pending)

(* flush_hour: the rows are written, and then every part that fed the hour *)
(* is recorded as migrated, also when rows of it wait in another hour.     *)
FlushHour ==
    /\ run.step = "read" /\ Pending # {}
    /\ Buffered > MaxBuffered \/ run.unread = {}
    /\ LET h == FlushedNext IN
        /\ built' = WithFile(built, h, run.feeds[h], run.pending[h])
        /\ run' = [run EXCEPT !.step = "record", !.newly = run.feeds[h],
                              !.pending[h] = {}, !.feeds[h] = {}]
    /\ UNCHANGED <<old, manifest, where, claimed, deaths>>

RecordConsumed ==
    /\ run.step = "record"
    /\ manifest' = manifest \union run.newly
    /\ run' = [run EXCEPT !.step = "read", !.newly = {}]
    /\ UNCHANGED <<old, built, where, claimed, deaths>>

(* How many rows of the hour the new layout has, each as often as it is    *)
(* there.                                                                  *)
RowsBuilt(h) == UNION {{f} \X InHour(f.rows, h) : f \in built}
CountBuilt(h) == Cardinality(RowsBuilt(h))

(* Mutant of Verified: a copy is judged as a fold is.                      *)
VerifiedAsFold(expected, fold) ==
    \A h \in PartHours : CountBuilt(h) >= Cardinality(InHour(expected, h))

(* _verify compares the number of rows of each hour and symbol: a copy must*)
(* have as many as were read, a fold at least as many.                     *)
Verified(expected, fold) ==
    \A h \in PartHours :
        IF fold THEN CountBuilt(h) >= Cardinality(InHour(expected, h))
        ELSE CountBuilt(h) = Cardinality(InHour(expected, h))

(* The report, and, of a verified copy, the first rename.                  *)
EndPass ==
    /\ run.step = "read" /\ run.unread = {} /\ Pending = {}
    /\ \/ run' = NoRun /\ UNCHANGED <<where, claimed>>
       \/ /\ ~run.fold /\ Verified(run.expected, run.fold)
          /\ where = "old" /\ where' = "neither"
          /\ claimed' = run.expected
          /\ run' = [NoRun EXCEPT !.step = "renaming"]
    /\ UNCHANGED <<old, built, manifest, deaths>>

(* The second rename fails on a directory that capture has made meanwhile. *)
RenameBuilt ==
    /\ run.step = "renaming"
    /\ where' = IF where = "neither" THEN "new" ELSE where
    /\ run' = NoRun
    /\ UNCHANGED <<old, built, manifest, claimed, deaths>>

KillPass ==
    /\ run # NoRun /\ deaths < MaxDeaths
    /\ deaths' = deaths + 1
    /\ run' = NoRun
    /\ UNCHANGED <<old, built, manifest, where, claimed>>

MigrationNext ==
    \/ \E p \in LateParts : CaptureAppends(p)
    \/ \E fold \in BOOLEAN : BeginPass(fold)
    \/ ReadBatch \/ FlushHour \/ RecordConsumed \/ EndPass \/ RenameBuilt \/ KillPass

-----------------------------------------------------------------------------
Copies(x) == Cardinality({f \in built : x \in f.rows})

(* COPY_CLAIM: once it is live, the new layout has every row the report    *)
(* counted, and none of them twice.                                        *)
VerifiedCopyIsExact == where = "new" => \A x \in claimed : Copies(x) = 1

(* The same as long as one pass at most was killed: what a killed pass left*)
(* out or wrote twice is then one error, and one error cannot hide in the  *)
(* count of an hour.                                                       *)
OneDeathIsNoticed == deaths <= 1 => VerifiedCopyIsExact

MigrationSpec == MigrationInit /\ [][MigrationNext]_migrationVars
=============================================================================
