------------------------------ MODULE RawHour -------------------------------
(***************************************************************************)
(* One hour of one captured stream: the raw file and the index file beside *)
(* it, the RawWriter that appends to both, and reconcile_pair, which the   *)
(* capture supervisor runs before every start of the recorder.             *)
(*                                                                         *)
(* Each file is a run of zstd frames.  A line appended to a file sits in   *)
(* the compressor until a compressed block fills or a frame boundary is    *)
(* written; only then does the operating system hold it, and only an fsync *)
(* makes it durable.  A frame boundary is written to raw first, fsynced,   *)
(* and then to the index (flush and close).                                *)
(*                                                                         *)
(* Faults: "kill" ends the process, and the page cache survives it;        *)
(* "power" also takes any suffix of a file that is not durable.  A write   *)
(* that fails (a full disk) goes on failing through the close it causes.   *)
(***************************************************************************)
EXTENDS Naturals, Sequences

CONSTANTS
    Faults,         \* which crashes can happen, a subset of {"kill", "power"}
    BlockFills,     \* whether a compressor block can fill between boundaries
    MaxFrames,      \* bound: frames that arrive
    MaxFailures,    \* bound: crashes and failed writes together
    Recovered,      \* the payload of an index entry rebuilt by a repair
    None            \* no clean close is remembered

ASSUME FaultsAssumption == Faults \subseteq {"kill", "power"}
ASSUME BlockFillsAssumption == BlockFills \in BOOLEAN
ASSUME BoundsAssumption == MaxFrames \in Nat /\ MaxFailures \in Nat
ASSUME SentinelAssumption == Recovered \notin Nat /\ None \notin Nat \X Nat \X Nat

VARIABLES
    raw,            \* the raw file: lines, how many are durable, boundaries, torn
    idx,            \* the index file, of entries [n, frame]
    rawBuf,         \* lines in the raw compressor
    idxBuf,         \* entries in the index compressor
    n,              \* RawWriter._n, the position of the next frame
    pc,             \* where the recorder is with this hour
    why,            \* what a boundary in progress is for: flush, evict or exit
    closed,         \* <<_closed_n, _closed_sizes>>, or None
    quar,           \* entries kept in quarantined copies of the index
    arrived,        \* frames that have arrived
    failures        \* crashes and failed writes so far

files == <<raw, idx>>
bufs == <<rawBuf, idxBuf>>
vars == <<raw, idx, rawBuf, idxBuf, n, pc, why, closed, quar, arrived, failures>>

Entry == [n : Nat, frame : Nat \union {Recovered}]

Places == {"down", "repairing", "closed", "refused", "open", "failing",
           "rawWriting", "rawWritten", "rawSynced", "idxWriting", "idxWritten"}

(* The writer holds descriptors: RawWriter.is_open.                        *)
IsOpen == pc \notin {"down", "repairing", "closed", "refused"}

-----------------------------------------------------------------------------
(* A file on disk.                                                         *)

NewFile == [lines |-> <<>>, safe |-> 0, ends |-> {0}, torn |-> FALSE]

(* The file ends inside a frame, with some lines of that frame readable.   *)
Spill(file, part) ==
    [lines |-> file.lines \o part, safe |-> file.safe, ends |-> file.ends, torn |-> TRUE]

(* flush(FLUSH_FRAME), or the footer close() writes: the whole buffer and  *)
(* the end of the frame.                                                   *)
Boundary(file, buf) ==
    [lines |-> file.lines \o buf, safe |-> file.safe, torn |-> FALSE,
     ends |-> file.ends \union {Len(file.lines) + Len(buf)}]

Synced(file) ==
    [lines |-> file.lines, safe |-> Len(file.lines), ends |-> file.ends, torn |-> file.torn]

(* How many lines of an unfinished frame can be decoded: a torn block      *)
(* yields none, so some do only when a whole block was written before it.  *)
WholeLines(buf) == IF BlockFills THEN 0 .. Len(buf) ELSE {0}

Taken(buf, k) == SubSeq(buf, 1, k)
Left(buf, k) == SubSeq(buf, k + 1, Len(buf))

(* What a power loss can leave of a file: at least its durable lines, and  *)
(* an intact file only where a frame ends.                                 *)
Survivors(file) ==
    {[lines |-> SubSeq(file.lines, 1, p[1]), safe |-> p[1],
      ends |-> {b \in file.ends : b <= p[1]}, torn |-> p[2]] :
        p \in {q \in (file.safe .. Len(file.lines)) \X BOOLEAN :
                 /\ ~q[2] => q[1] \in file.ends
                 /\ q[2] => q[1] < Len(file.lines) \/ file.torn}}

(* _write_lines: a new file, fsynced, then renamed over the old one.       *)
Rewritten(lines) ==
    [lines |-> lines, safe |-> Len(lines), ends |-> {0, Len(lines)}, torn |-> FALSE]

-----------------------------------------------------------------------------
(* What readers and the repair make of a pair.                             *)

(* _count_frames_already_written: the writer refuses any other pair.       *)
Appendable ==
    /\ ~raw.torn /\ ~idx.torn
    /\ Len(raw.lines) = Len(idx.lines)
    /\ idx.lines # <<>> => idx.lines[Len(idx.lines)].n = Len(idx.lines) - 1

(* read_pair returns frames instead of raising.                            *)
Readable ==
    /\ ~raw.torn /\ ~idx.torn
    /\ Len(raw.lines) = Len(idx.lines)
    /\ \A i \in 1 .. Len(idx.lines) : idx.lines[i].n = i - 1

(* reconcile_pair raises UnrepairableIndex: the entries do not ascend, or  *)
(* one describes a frame an intact raw file does not hold.                 *)
Unrepairable ==
    \/ \E i, j \in 1 .. Len(idx.lines) : i < j /\ idx.lines[i].n >= idx.lines[j].n
    \/ ~raw.torn /\ \E i \in 1 .. Len(idx.lines) : idx.lines[i].n >= Len(raw.lines)

(* Mutant of EntryFor: the index is rebuilt without reading the old one.   *)
EntryForWholesale(m) == [n |-> m, frame |-> Recovered]

(* The entry of frame m in the rebuilt index: the one there was, or a      *)
(* recovered one.                                                          *)
EntryFor(m) ==
    IF \E i \in 1 .. Len(idx.lines) : idx.lines[i].n = m
      THEN idx.lines[CHOOSE i \in 1 .. Len(idx.lines) : idx.lines[i].n = m]
      ELSE [n |-> m, frame |-> Recovered]

RebuiltIndex == [i \in 1 .. Len(raw.lines) |-> EntryFor(i - 1)]

(* Mutant of NothingToRepair: a torn index whose whole lines suffice is    *)
(* taken for sound.                                                        *)
NothingToRepairIgnoringTail == ~raw.torn /\ RebuiltIndex = idx.lines

NothingToRepair ==
    ~raw.torn /\ ~idx.torn /\ RebuiltIndex = idx.lines

-----------------------------------------------------------------------------
Init ==
    /\ raw = NewFile /\ idx = NewFile
    /\ rawBuf = <<>> /\ idxBuf = <<>>
    /\ n = 0 /\ pc = "down" /\ why = "flush"
    /\ closed = None /\ quar = {}
    /\ arrived = 0 /\ failures = 0

(* The supervisor's resumable pass, with no recorder alive.  A pass that   *)
(* cannot repair the hour does not stop the recorder from starting.        *)
RepairSkips ==
    /\ pc = "down"
    /\ NothingToRepair \/ Unrepairable
    /\ pc' = "closed"
    /\ UNCHANGED <<files, bufs, n, why, closed, quar, arrived, failures>>

(* The old index is quarantined and the rebuilt one replaces it; a torn    *)
(* raw file is still to be replaced.                                       *)
RepairIndex ==
    /\ pc = "down"
    /\ ~NothingToRepair /\ ~Unrepairable
    /\ idx' = Rewritten(RebuiltIndex)
    /\ quar' = quar \union {idx.lines[i] : i \in 1 .. Len(idx.lines)}
    /\ pc' = IF raw.torn THEN "repairing" ELSE "closed"
    /\ UNCHANGED <<raw, bufs, n, why, closed, arrived, failures>>

(* Mutant of RepairRaw: the last decoded line is dropped with the tail.    *)
RepairRawDropsLast ==
    /\ pc = "repairing"
    /\ raw' = Rewritten(SubSeq(raw.lines, 1, Len(raw.lines) - 1))
    /\ pc' = "closed"
    /\ UNCHANGED <<idx, bufs, n, why, closed, quar, arrived, failures>>

(* Every line decoded before the damage is kept.                           *)
RepairRaw ==
    /\ pc = "repairing"
    /\ raw' = Rewritten(raw.lines)
    /\ pc' = "closed"
    /\ UNCHANGED <<idx, bufs, n, why, closed, quar, arrived, failures>>

-----------------------------------------------------------------------------
(* _resume_position_for: a close this process remembers is trusted while   *)
(* the sizes are those it left; otherwise the pair is read.                *)
Remembered ==
    closed # None /\ closed[2] = Len(raw.lines) /\ closed[3] = Len(idx.lines)

ResumePosition == IF Remembered THEN closed[1] ELSE Len(raw.lines)

(* append writes where the writer stands, opening the hour first if it is  *)
(* closed; _open refuses a pair it cannot resume.                          *)
Accepts ==
    /\ arrived < MaxFrames
    /\ \/ pc = "open"
       \/ pc = "closed" /\ (Remembered \/ Appendable)

(* Mutant of Position: off by one.                                         *)
PositionOneLow == (IF pc = "open" THEN n ELSE ResumePosition) - 1

Position == IF pc = "open" THEN n ELSE ResumePosition

(* A line joins the compressor; it may fill a block, which then leaves,    *)
(* and the file ends inside a frame until the next boundary.               *)
RawTakes(line) ==
    LET buf == Append(rawBuf, line)
    IN  \/ raw' = raw /\ rawBuf' = buf
        \/ /\ BlockFills
           /\ \E k \in 0 .. Len(buf) :
                raw' = Spill(raw, Taken(buf, k)) /\ rawBuf' = Left(buf, k)

IdxTakes(entry) ==
    LET buf == Append(idxBuf, entry)
    IN  \/ idx' = idx /\ idxBuf' = buf
        \/ /\ BlockFills
           /\ \E k \in 0 .. Len(buf) :
                idx' = Spill(idx, Taken(buf, k)) /\ idxBuf' = Left(buf, k)

(* append: the raw line, then n, then the index entry.                     *)
AppendFrame ==
    /\ Accepts
    /\ arrived' = arrived + 1
    /\ n' = Position + 1
    /\ RawTakes(arrived')
    /\ IdxTakes([n |-> Position, frame |-> arrived'])
    /\ pc' = "open"
    /\ UNCHANGED <<why, closed, quar, failures>>

(* Mutant of AppendFails: n moves only when both writes succeed, and the   *)
(* error is swallowed.                                                     *)
AppendFailsGoesOn ==
    /\ Accepts
    /\ BlockFills /\ failures < MaxFailures
    /\ arrived' = arrived + 1
    /\ n' = Position
    /\ rawBuf' = Append(rawBuf, arrived')
    /\ pc' = "open" /\ failures' = failures + 1
    /\ UNCHANGED <<raw, idx, idxBuf, why, closed, quar>>

(* append, when the index block cannot be written: raw has the frame, n    *)
(* has passed it, and the error ends the recorder, which closes the writer.*)
AppendFails ==
    /\ Accepts
    /\ BlockFills /\ failures < MaxFailures
    /\ arrived' = arrived + 1
    /\ n' = Position + 1
    /\ rawBuf' = Append(rawBuf, arrived')
    /\ idx' = Spill(idx, <<>>) /\ idxBuf' = <<>>
    /\ pc' = "failing" /\ failures' = failures + 1
    /\ UNCHANGED <<raw, why, closed, quar>>

(* HourFileNotAppendable: the recorder quarantines the hour's stream.      *)
Refuse ==
    /\ pc = "closed" /\ arrived < MaxFrames
    /\ ~Remembered /\ ~Appendable
    /\ pc' = "refused"
    /\ UNCHANGED <<files, bufs, n, why, closed, quar, arrived, failures>>

-----------------------------------------------------------------------------
(* A boundary, for a flush, for a close the recorder outlives (the pool    *)
(* evicts the writer, or the hour turns) or for one it does not (exit).    *)
(* Raw first, durable before the index is touched.                         *)

(* Mutant of RawWriteStarts: the index boundary is written before raw's.   *)
IndexWrittenFirst ==
    /\ pc = "open" /\ why' \in {"flush", "release", "exit"}
    /\ pc' = "rawWriting"
    /\ idx' = Boundary(idx, idxBuf) /\ idxBuf' = <<>>
    /\ UNCHANGED <<raw, rawBuf, n, closed, quar, arrived, failures>>

RawWriteStarts ==
    /\ \/ pc = "open" /\ why' \in {"release", "exit"}
       \/ pc = "open" /\ why' = "flush" /\ (rawBuf # <<>> \/ raw.torn)
       \/ pc = "failing" /\ why' = "broken"
    /\ pc' = "rawWriting"
    /\ \E k \in WholeLines(rawBuf) :
         raw' = Spill(raw, Taken(rawBuf, k)) /\ rawBuf' = Left(rawBuf, k)
    /\ UNCHANGED <<idx, idxBuf, n, closed, quar, arrived, failures>>

RawWriteEnds ==
    /\ pc = "rawWriting"
    /\ raw' = Boundary(raw, rawBuf) /\ rawBuf' = <<>>
    /\ pc' = "rawWritten"
    /\ UNCHANGED <<idx, idxBuf, n, why, closed, quar, arrived, failures>>

RawSyncs ==
    /\ pc = "rawWritten"
    /\ raw' = Synced(raw)
    /\ pc' = "rawSynced"
    /\ UNCHANGED <<idx, bufs, n, why, closed, quar, arrived, failures>>

IdxWriteStarts ==
    /\ pc = "rawSynced" /\ why # "broken"
    /\ pc' = "idxWriting"
    /\ \E k \in WholeLines(idxBuf) :
         idx' = Spill(idx, Taken(idxBuf, k)) /\ idxBuf' = Left(idxBuf, k)
    /\ UNCHANGED <<raw, rawBuf, n, why, closed, quar, arrived, failures>>

IdxWriteEnds ==
    /\ pc = "idxWriting"
    /\ idx' = Boundary(idx, idxBuf) /\ idxBuf' = <<>>
    /\ pc' = "idxWritten"
    /\ UNCHANGED <<raw, rawBuf, n, why, closed, quar, arrived, failures>>

(* Where a boundary leads when it is done, or given up.                    *)
After(reason) == CASE reason = "flush"   -> "open"
                   [] reason = "release" -> "closed"
                   [] OTHER              -> "down"

(* A clean close is remembered; a process that ends remembers nothing.     *)
IdxSyncs ==
    /\ pc = "idxWritten"
    /\ idx' = Synced(idx)
    /\ pc' = After(why)
    /\ closed' = CASE why = "flush"   -> closed
                   [] why = "release" -> <<n, Len(raw.lines), Len(idx.lines)>>
                   [] OTHER           -> None
    /\ why' = "flush"
    /\ UNCHANGED <<raw, bufs, n, quar, arrived, failures>>

(* Mutant of BoundaryFails: a close that failed part-way is remembered.    *)
BoundaryFailsRemembers ==
    /\ pc \in {"rawWriting", "rawWritten", "idxWriting", "idxWritten"}
    /\ failures < MaxFailures
    /\ pc' = IF why = "release" THEN "closed" ELSE "down"
    /\ rawBuf' = <<>> /\ idxBuf' = <<>>
    /\ closed' = <<n, Len(raw.lines), Len(idx.lines)>>
    /\ failures' = failures + 1 /\ why' = "flush"
    /\ UNCHANGED <<files, n, quar, arrived>>

(* A write or an fsync fails.  A failed raw file abandons the index frame. *)
(* The pool swallows the error of a close it asked for; any other ends the *)
(* recorder.                                                               *)
BoundaryFails ==
    /\ pc \in {"rawWriting", "rawWritten", "idxWriting", "idxWritten"}
    /\ failures < MaxFailures
    /\ pc' = IF why = "release" THEN "closed" ELSE "down"
    /\ rawBuf' = <<>> /\ idxBuf' = <<>> /\ closed' = None
    /\ failures' = failures + 1 /\ why' = "flush"
    /\ UNCHANGED <<files, n, quar, arrived>>

(* The index frame of a writer whose index write failed is not finished.   *)
BrokenCloseEnds ==
    /\ pc = "rawSynced" /\ why = "broken"
    /\ pc' = "down" /\ why' = "flush" /\ closed' = None
    /\ UNCHANGED <<files, bufs, n, quar, arrived, failures>>

-----------------------------------------------------------------------------
(* The process is gone, and with it everything it held in memory.          *)
ProcessEnds ==
    /\ pc' = "down" /\ why' = "flush" /\ n' = 0
    /\ rawBuf' = <<>> /\ idxBuf' = <<>> /\ closed' = None
    /\ failures' = failures + 1
    /\ UNCHANGED <<quar, arrived>>

(* SIGTERM with the hour already closed, or refused.                       *)
Stop ==
    /\ pc \in {"closed", "refused"} /\ failures < MaxFailures
    /\ ProcessEnds /\ UNCHANGED files

Kill ==
    /\ "kill" \in Faults /\ failures < MaxFailures
    /\ pc # "down"
    /\ ProcessEnds /\ UNCHANGED files

PowerLoss ==
    /\ "power" \in Faults /\ failures < MaxFailures
    /\ raw' \in Survivors(raw) /\ idx' \in Survivors(idx)
    /\ ProcessEnds

Next ==
    \/ RepairSkips \/ RepairIndex \/ RepairRaw
    \/ AppendFrame \/ AppendFails \/ Refuse
    \/ RawWriteStarts \/ RawWriteEnds \/ RawSyncs
    \/ IdxWriteStarts \/ IdxWriteEnds \/ IdxSyncs
    \/ BoundaryFails \/ BrokenCloseEnds
    \/ Stop \/ Kill \/ PowerLoss

Spec == Init /\ [][Next]_vars

(* The supervisor restarts the recorder after a pass; frames keep coming.  *)
Fairness ==
    /\ WF_vars(RepairSkips \/ RepairIndex \/ RepairRaw)
    /\ WF_vars(AppendFrame)

FairSpec == Spec /\ Fairness

-----------------------------------------------------------------------------
(* Every variable holds a value of its kind.                               *)
FileOf(S) == [lines : Seq(S), safe : Nat, ends : SUBSET Nat, torn : BOOLEAN]

TypeOK ==
    /\ raw \in FileOf(Nat) /\ raw.safe <= Len(raw.lines)
    /\ idx \in FileOf(Entry) /\ idx.safe <= Len(idx.lines)
    /\ rawBuf \in Seq(Nat) /\ idxBuf \in Seq(Entry)
    /\ n \in Nat /\ pc \in Places
    /\ why \in {"flush", "release", "exit", "broken"}
    /\ closed \in (Nat \X Nat \X Nat) \union {None}
    /\ quar \subseteq Entry
    /\ arrived \in Nat /\ failures \in Nat

(* While the hour is open, n is the number of frames raw will hold, so the *)
(* next index entry names its own frame (append, _resume_position_for).    *)
PositionIsExact == IsOpen => n = Len(raw.lines) + Len(rawBuf)

(* A pair read_pair accepts never hands back one frame under another's     *)
(* entry: each entry was written for its frame, or is marked recovered.    *)
ReadPairIsFaithful ==
    Readable => \A i \in 1 .. Len(idx.lines) :
                   idx.lines[i].frame \in {raw.lines[i], Recovered}

-----------------------------------------------------------------------------
(* The inductive invariant behind those three (RawHourProofs).             *)

(* What each file will hold when its compressor has been emptied.          *)
AllRaw == raw.lines \o rawBuf
AllIdx == idx.lines \o idxBuf

BuffersEmptied ==
    /\ ~IsOpen => rawBuf = <<>> /\ idxBuf = <<>>
    /\ pc \in {"rawWritten", "rawSynced", "idxWriting", "idxWritten"} => rawBuf = <<>>
    /\ pc = "idxWritten" => idxBuf = <<>>
    /\ pc = "failing" \/ why = "broken" => idxBuf = <<>>

ReasonFits ==
    /\ why = "broken" => pc \in {"rawWriting", "rawWritten", "rawSynced"}
    /\ ~IsOpen \/ pc = "open" => why = "flush"

(* Both files are complete up to n while no write has failed.              *)
BothExact ==
    IsOpen => /\ n = Len(AllRaw)
              /\ pc # "failing" /\ why # "broken" => n = Len(AllIdx)

RememberedIsLevel == closed # None => closed[1] = closed[2] /\ closed[2] = closed[3]

Contiguous == \A i \in 1 .. Len(AllIdx) : AllIdx[i].n = i - 1

Truthful ==
    \A i \in 1 .. Len(AllIdx) :
        i <= Len(AllRaw) => AllIdx[i].frame \in {AllRaw[i], Recovered}

IInv ==
    /\ TypeOK
    /\ BuffersEmptied /\ ReasonFits /\ BothExact /\ RememberedIsLevel
    /\ Contiguous /\ Truthful

-----------------------------------------------------------------------------
(* Whatever a crash left, reconcile_pair can repair it: "refuse -> repair  *)
(* -> resume must terminate" (reconcile_pair's docstring).                 *)
DamageIsRepairable == pc = "down" => ~Unrepairable

(* No index entry is dropped while its frame is on disk: a repair keeps    *)
(* every entry it can still place, and what it drops it has quarantined.   *)
(* A power loss is held to the entries that were durable.                  *)
EntriesAreKept ==
    [][\A i \in 1 .. Len(idx.lines) :
         (i <= idx.safe \/ ~PowerLoss) =>
           \/ \E j \in 1 .. Len(idx'.lines) : idx'.lines[j] = idx.lines[i]
           \/ idx.lines[i].n >= Len(raw'.lines) /\ idx.lines[i] \in quar']_vars

(* Raw alone is a durable log: an fsynced frame is never lost, changed or  *)
(* reordered, by a crash, by a repair or by a later open.                  *)
DurableRaw == INSTANCE DurableLog WITH written <- raw.lines, durable <- raw.safe

DurableFramesStay == DurableRaw!Spec

(* A recorder that is down is capturing the hour again, after finitely     *)
(* many crashes and failed writes.                                         *)
CaptureResumes == (pc = "down" /\ arrived < MaxFrames) ~> (pc = "open")
=============================================================================
