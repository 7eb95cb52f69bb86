----------------------------- MODULE HourClaims -----------------------------
(***************************************************************************)
(* Who may write an hour: the .writing marker that a RawWriter takes before*)
(* it opens the pair of files of one stream and hour, the recorders that   *)
(* compete for it after a double start, and the passes of repair_archive   *)
(* that clear the markers of the dead and repair the pairs they left.      *)
(* What a pair holds is in RawHour; here it is a number of frames, and     *)
(* whether a reader would refuse it.                                       *)
(***************************************************************************)
EXTENDS Naturals, Sequences, FiniteSets, Functions

CONSTANTS
    Streams,        \* streams, each with the pair of one hour
    Recorders,      \* recorders of one venue; more than one is a double start
    Passes,         \* repair passes that can run at a time
    MaxOpen,        \* max_open_writers
    MaxPairFrames,  \* bound: frames in a pair
    MaxRecorderKills, \* bound: recorders killed
    Nobody          \* no marker, nothing in hand

ASSUME MaxOpenAssumption == MaxOpen \in Nat \ {0}
ASSUME ClaimsBoundsAssumption == MaxPairFrames \in Nat /\ MaxRecorderKills \in Nat

VARIABLES
    clock,          \* "hour" while frames of the hour arrive, then "over", then "old"
    marker,         \* the marker beside each pair: its owner, and whether it says so
    disk,           \* each pair on local disk
    up,             \* the recorders that run
    pool,           \* _open_writers of each recorder, least recently written first
    open,           \* the streams each recorder has open
    marked,         \* of these, the streams opened with a marker (_marker_path)
    claim,          \* the stream a recorder is opening, and how far it got
    refused,        \* _unwritable_hours of each recorder
    pass,           \* the pair a pass is at, and how far it got
    beneath,        \* <<r, s>>: the files r has open were replaced under it
    repairs,        \* history: each pair was replaced by a pass never, once, or (2) again
    mistaken,       \* history: pairs that were whole when a pass set out to repair them
    excused,        \* history: pairs opened without a marker, or that lost one to a mistake
    disturbed,      \* history: pairs opened again, opened without a marker, or killed in
    recorderKills

repairVars == <<repairs, mistaken>>
recorderVars == <<up, pool, open, marked, claim, refused>>
claimsVars == <<clock, marker, disk, recorderVars, pass, beneath, repairVars, excused,
                disturbed, recorderKills>>

Marker == [owner : Recorders, named : BOOLEAN, alive : BOOLEAN]
Pair == [frames : 0 .. MaxPairFrames, damaged : BOOLEAN]
NoPair == [frames |-> 0, damaged |-> FALSE]
ClaimSteps == {"create", "judge", "unlink", "create again", "name", "read"}
PassSteps == {"drop", "look", "check", "salvage", "replace"}

(* A claim and a visit remember the marker they judged.                    *)
Claim == [stream : Streams, step : ClaimSteps, seen : Marker \union {Nobody}]
Visit == [stream : Streams, step : PassSteps, seen : Marker \union {Nobody},
          frames : 0 .. MaxPairFrames]

ASSUME NobodyAssumption ==
    Nobody \notin Streams /\ Nobody \notin Marker /\ Nobody \notin Claim /\ Nobody \notin Visit

ClaimsTypeOK ==
    /\ clock \in {"hour", "over", "old"}
    /\ marker \in [Streams -> Marker \union {Nobody}]
    /\ disk \in [Streams -> Pair]
    /\ up \subseteq Recorders
    /\ pool \in [Recorders -> Seq(Streams)]
    /\ \A r \in Recorders : Len(pool[r]) <= MaxOpen /\ open[r] \subseteq Range(pool[r])
    /\ open \in [Recorders -> SUBSET Streams]
    /\ marked \in [Recorders -> SUBSET Streams]
    /\ claim \in [Recorders -> Claim \union {Nobody}]
    /\ refused \in [Recorders -> SUBSET Streams]
    /\ pass \in [Passes -> Visit \union {Nobody}]
    /\ beneath \subseteq Recorders \X Streams
    /\ repairs \in [Streams -> 0 .. 2]
    /\ excused \subseteq Streams /\ disturbed \subseteq Streams
    /\ mistaken \subseteq Streams
    /\ recorderKills \in 0 .. MaxRecorderKills

ClaimsInit ==
    /\ clock = "hour"
    /\ marker = [s \in Streams |-> Nobody]
    /\ disk = [s \in Streams |-> NoPair]
    /\ up = {}
    /\ pool = [r \in Recorders |-> <<>>]
    /\ open = [r \in Recorders |-> {}]
    /\ marked = [r \in Recorders |-> {}]
    /\ claim = [r \in Recorders |-> Nobody]
    /\ refused = [r \in Recorders |-> {}]
    /\ pass = [q \in Passes |-> Nobody]
    /\ beneath = {}
    /\ repairs = [s \in Streams |-> 0]
    /\ mistaken = {} /\ excused = {} /\ disturbed = {}
    /\ recorderKills = 0

-----------------------------------------------------------------------------
(* The marker.                                                             *)

(* Mutant of Live: a marker that cannot be parsed is one of the dead.      *)
LiveIfNamed(m) == m # Nobody /\ m.named /\ m.alive

(* is_hour_being_written: a marker that cannot be parsed counts as live.   *)
Live(m) == m # Nobody /\ (m.named => m.alive)

(* A marker of r before its pid is in it, and after.                       *)
Blank(r) == [owner |-> r, named |-> FALSE, alive |-> TRUE]
SignedBy(r) == [owner |-> r, named |-> TRUE, alive |-> TRUE]

(* The marker m once r is dead.                                            *)
Orphaned(m, r) == IF m # Nobody /\ m.owner = r THEN [m EXCEPT !.alive = FALSE] ELSE m

Unlink(s) == marker' = [marker EXCEPT ![s] = Nobody]

(* The unlink that follows the judgement that the marker seen is stale: it *)
(* removes whatever marker is there by now.                                *)
RemoveStale(s, seen) ==
    /\ Unlink(s)
    /\ excused' = IF marker[s] \in {Nobody, seen} THEN excused ELSE excused \union {s}

Writers(s) == {r \in Recorders : s \in open[r]}

-----------------------------------------------------------------------------
(* A recorder's pool of open hours.                                        *)

At(r, step) == r \in up /\ claim[r] # Nobody /\ claim[r].step = step
Step(r, step) == claim' = [claim EXCEPT ![r].step = step]

Without(seq, s) == SelectSeq(seq, LAMBDA t : t # s)

(* The streams that leave the pool when s enters it.                       *)
Evicted(r, s) ==
    IF Len(pool[r]) < MaxOpen \/ s \in Range(pool[r])
    THEN {} ELSE {Head(pool[r])}

(* Mutant of Closed: the marker of another stream's pair is left behind.   *)
ClosedInPlace(r, gone) ==
    /\ open' = [open EXCEPT ![r] = @ \ gone]
    /\ marked' = [marked EXCEPT ![r] = @ \ gone]
    /\ UNCHANGED marker

(* RawWriter.close of the streams gone: their files end in order, and the  *)
(* markers they were opened with are removed, whoever's they are now.      *)
Closed(r, gone) ==
    /\ open' = [open EXCEPT ![r] = @ \ gone]
    /\ marked' = [marked EXCEPT ![r] = @ \ gone]
    /\ marker' = [s \in Streams |-> IF s \in gone \cap marked[r] THEN Nobody ELSE marker[s]]

(* The pair p after one more frame, and what becomes of it when the files  *)
(* of the writer were replaced: the entry, or the frame too, goes to a file*)
(* without a name.                                                         *)
Longer(p) == [p EXCEPT !.frames = @ + 1]
Unmatched(p) == {p, [Longer(p) EXCEPT !.damaged = TRUE]}

(* A frame of a stream whose hour is open.                                 *)
WriteFrame(r, s) ==
    /\ r \in up /\ claim[r] = Nobody /\ clock = "hour"
    /\ s \in open[r]
    /\ disk[s].frames < MaxPairFrames
    /\ \E p \in IF <<r, s>> \in beneath THEN Unmatched(disk[s]) ELSE {Longer(disk[s])} :
        disk' = [disk EXCEPT ![s] = p]
    /\ pool' = [pool EXCEPT ![r] = Append(Without(@, s), s)]
    /\ UNCHANGED <<clock, marker, up, open, marked, claim, refused, pass, beneath,
                   repairVars, excused, disturbed, recorderKills>>

(* A frame of a stream that is not open: _writer_for makes room, closing   *)
(* the least recently written hour, and the writer goes to claim this one. *)
StartClaim(r, s) ==
    /\ r \in up /\ claim[r] = Nobody /\ clock = "hour"
    /\ s \notin open[r] \union refused[r]
    /\ disk[s].frames < MaxPairFrames
    /\ Closed(r, Evicted(r, s) \cap open[r])
    /\ pool' = [pool EXCEPT ![r] =
                    Append(SelectSeq(@, LAMBDA t : t # s /\ t \notin Evicted(r, s)), s)]
    /\ claim' = [claim EXCEPT ![r] = [stream |-> s, step |-> "create", seen |-> Nobody]]
    /\ UNCHANGED <<clock, disk, up, refused, pass, beneath, repairVars, excused, disturbed,
                   recorderKills>>

(* The hour ends for a writer: by the sweep of settled hours, or its own   *)
(* next frame.                                                             *)
Settle(r, s) ==
    /\ r \in up /\ claim[r] = Nobody /\ clock # "hour"
    /\ s \in open[r]
    /\ Closed(r, {s})
    /\ UNCHANGED <<clock, disk, up, pool, claim, refused, pass, beneath, repairVars, excused,
                   disturbed, recorderKills>>

-----------------------------------------------------------------------------
(* _claim_hour_or_refuse and _open.                                        *)

(* The hour is refused; a marker taken for it is released, and the stream  *)
(* is left alone for the rest of the hour.                                 *)
GiveUp(r) ==
    /\ claim' = [claim EXCEPT ![r] = Nobody]
    /\ refused' = [refused EXCEPT ![r] = @ \union {claim[r].stream}]

(* Mutant of Create: the marker is looked for and then written.            *)
CreateUnchecked(r, step, next) ==
    /\ At(r, step)
    /\ marker' = [marker EXCEPT ![claim[r].stream] = Blank(r)]
    /\ Step(r, "name")
    /\ UNCHANGED refused

(* os.open with O_CREAT and O_EXCL; a marker that exists is judged the     *)
(* first time and respected the second.                                    *)
Create(r, step, next) ==
    /\ At(r, step)
    /\ LET s == claim[r].stream IN
        \/ /\ marker[s] = Nobody
           /\ marker' = [marker EXCEPT ![s] = Blank(r)]
           /\ Step(r, "name")
           /\ UNCHANGED refused
        \/ /\ marker[s] # Nobody
           /\ IF next = Nobody THEN GiveUp(r) ELSE Step(r, next) /\ UNCHANGED refused
           /\ UNCHANGED marker

CreateMarker(r) ==
    /\ Create(r, "create", "judge") \/ Create(r, "create again", Nobody)
    /\ UNCHANGED <<clock, disk, up, pool, open, marked, pass, beneath, repairVars, excused,
                   disturbed, recorderKills>>

(* The marker cannot be placed, or its pid cannot be written to it: the    *)
(* hour is opened without one.                                             *)
MarkerFails(r) ==
    /\ At(r, "create") \/ At(r, "create again") \/ At(r, "name")
    /\ LET s == claim[r].stream IN
        /\ IF claim[r].step = "name" THEN Unlink(s) ELSE marker[s] = Nobody /\ UNCHANGED marker
        /\ excused' = excused \union {s}
        /\ disturbed' = disturbed \union {s}
    /\ Step(r, "read")
    /\ UNCHANGED <<clock, disk, up, pool, open, marked, refused, pass, beneath, repairVars,
                   recorderKills>>

Judge(r) ==
    /\ At(r, "judge")
    /\ IF Live(marker[claim[r].stream])
       THEN GiveUp(r)
       ELSE /\ claim' = [claim EXCEPT ![r].step = "unlink", ![r].seen = marker[claim[r].stream]]
            /\ UNCHANGED refused
    /\ UNCHANGED <<clock, marker, disk, up, pool, open, marked, pass, beneath, repairVars,
                   excused, disturbed, recorderKills>>

UnlinkStale(r) ==
    /\ At(r, "unlink")
    /\ RemoveStale(claim[r].stream, claim[r].seen)
    /\ claim' = [claim EXCEPT ![r].step = "create again", ![r].seen = Nobody]
    /\ UNCHANGED <<clock, disk, up, pool, open, marked, refused, pass, beneath, repairVars,
                   disturbed, recorderKills>>

(* The pid goes to the file that was created, be it unlinked since or not. *)
NameMarker(r) ==
    /\ At(r, "name")
    /\ LET s == claim[r].stream IN
        /\ marker' = [marker EXCEPT ![s] = IF @ = Blank(r) THEN SignedBy(r) ELSE @]
        /\ marked' = [marked EXCEPT ![r] = @ \union {s}]
    /\ Step(r, "read")
    /\ UNCHANGED <<clock, disk, up, pool, open, refused, pass, beneath, repairVars, excused,
                   disturbed, recorderKills>>

(* Mutant of ReleaseClaim: a refused open keeps its claim.                 *)
ReleaseNothing(r, s) == UNCHANGED <<marker, marked>>

(* _release_claim.                                                         *)
ReleaseClaim(r, s) ==
    /\ IF s \in marked[r] THEN Unlink(s) ELSE UNCHANGED marker
    /\ marked' = [marked EXCEPT ![r] = @ \ {s}]

(* The pair is read before it is opened; a damaged one is refused.         *)
OpenPair(r) ==
    /\ At(r, "read")
    /\ LET s == claim[r].stream IN
        /\ ~disk[s].damaged /\ disk[s].frames < MaxPairFrames
        /\ open' = [open EXCEPT ![r] = @ \union {s}]
        /\ disk' = [disk EXCEPT ![s] = Longer(@)]
        /\ disturbed' = IF disk[s] = NoPair THEN disturbed ELSE disturbed \union {s}
        /\ beneath' = beneath \ {<<r, s>>}
    /\ claim' = [claim EXCEPT ![r] = Nobody]
    /\ UNCHANGED <<clock, marker, up, pool, marked, refused, pass, repairVars, excused,
                   recorderKills>>

RefusePair(r) ==
    /\ At(r, "read")
    /\ LET s == claim[r].stream IN
        /\ disk[s].damaged
        /\ ReleaseClaim(r, s)
    /\ GiveUp(r)
    /\ UNCHANGED <<clock, disk, up, pool, open, pass, beneath, repairVars, excused, disturbed,
                   recorderKills>>

-----------------------------------------------------------------------------
(* The life of a recorder.                                                 *)

Emptied(r) ==
    /\ pool' = [pool EXCEPT ![r] = <<>>]
    /\ claim' = [claim EXCEPT ![r] = Nobody]
    /\ refused' = [refused EXCEPT ![r] = {}]

(* The supervisor's TERM: every writer is closed.                          *)
StopRecorder(r) ==
    /\ r \in up /\ claim[r] = Nobody
    /\ up' = up \ {r}
    /\ Closed(r, open[r])
    /\ Emptied(r)
    /\ UNCHANGED <<clock, disk, pass, beneath, repairVars, excused, disturbed, recorderKills>>

(* A kill leaves the markers, and any of the open pairs inside a frame.    *)
KillRecorder(r) ==
    /\ r \in up /\ recorderKills < MaxRecorderKills
    /\ recorderKills' = recorderKills + 1
    /\ up' = up \ {r}
    /\ marker' = [s \in Streams |-> Orphaned(marker[s], r)]
    /\ disturbed' = disturbed \union open[r]
    /\ \E torn \in SUBSET {s \in open[r] : disk[s] # NoPair} :
        disk' = [s \in Streams |->
                    IF s \in torn THEN [disk[s] EXCEPT !.damaged = TRUE] ELSE disk[s]]
    /\ open' = [open EXCEPT ![r] = {}]
    /\ marked' = [marked EXCEPT ![r] = {}]
    /\ Emptied(r)
    /\ UNCHANGED <<clock, pass, beneath, repairVars, excused>>

StartRecorder(r) ==
    /\ r \notin up
    /\ up' = up \union {r}
    /\ beneath' = {x \in beneath : x[1] # r}
    /\ UNCHANGED <<clock, marker, disk, pool, open, marked, claim, refused, pass, repairVars,
                   excused, disturbed, recorderKills>>

(* Frames of later hours arrive, and in the end the retention has passed:  *)
(* no claim takes that long.                                               *)
TimePasses ==
    /\ clock # "old"
    /\ clock = "over" => \A r \in Recorders : claim[r] = Nobody
    /\ clock' = IF clock = "hour" THEN "over" ELSE "old"
    /\ UNCHANGED <<marker, disk, recorderVars, pass, beneath, repairVars, excused, disturbed,
                   recorderKills>>

-----------------------------------------------------------------------------
(* A pass of repair_archive over one pair.                                 *)

PassAt(q, step) == pass[q] # Nobody /\ pass[q].step = step
PassTo(q, step) == pass' = [pass EXCEPT ![q].step = step]
PassDone(q) == pass' = [pass EXCEPT ![q] = Nobody]
NotByPass == <<clock, recorderVars, disturbed, recorderKills>>

(* The pass comes to a pair that exists and asks whether it is held; a     *)
(* held one it leaves as it is.                                            *)
VisitPair(q, s) ==
    /\ pass[q] = Nobody /\ disk[s] # NoPair
    /\ IF Live(marker[s])
       THEN UNCHANGED pass
       ELSE pass' = [pass EXCEPT ![q] =
                        [stream |-> s, step |-> "drop", seen |-> marker[s], frames |-> 0]]
    /\ UNCHANGED <<NotByPass, excused, marker, disk, beneath, repairVars>>

(* Whatever marker is there now is removed.                                *)
DropMarker(q) ==
    /\ PassAt(q, "drop")
    /\ RemoveStale(pass[q].stream, pass[q].seen)
    /\ pass' = [pass EXCEPT ![q].step = "look", ![q].seen = Nobody]
    /\ UNCHANGED <<NotByPass, disk, beneath, repairVars>>

(* What a reader may make of a pair: one that is being written can look    *)
(* unfinished.                                                             *)
MayLookDamaged(s) == disk[s].damaged \/ Writers(s) # {}
MayLookHealthy(s) == ~disk[s].damaged

(* is_pair_readable, then the question reconcile_pair begins with, then    *)
(* its reading of the files.                                               *)
FindHealthy(q) ==
    /\ PassAt(q, "look") \/ PassAt(q, "salvage")
    /\ MayLookHealthy(pass[q].stream)
    /\ PassDone(q)
    /\ UNCHANGED <<NotByPass, excused, marker, disk, beneath, repairVars>>

FindDamaged(q) ==
    /\ PassAt(q, "look")
    /\ MayLookDamaged(pass[q].stream)
    /\ PassTo(q, "check")
    /\ UNCHANGED <<NotByPass, excused, marker, disk, beneath, repairVars>>

(* Mutant of Reconcilable: reconcile_pair does not ask who holds the pair. *)
AlwaysReconcilable(s) == TRUE

(* reconcile_pair does not raise HourStillBeingWritten.                    *)
Reconcilable(s) == ~Live(marker[s])

CheckHeld(q) ==
    /\ PassAt(q, "check")
    /\ LET s == pass[q].stream IN
        /\ IF Reconcilable(s) THEN PassTo(q, "salvage") ELSE PassDone(q)
        /\ mistaken' = IF Live(marker[s]) \/ disk[s].damaged THEN mistaken
                       ELSE mistaken \union {s}
    /\ UNCHANGED <<NotByPass, excused, marker, disk, beneath, repairs>>

Salvage(q) ==
    /\ PassAt(q, "salvage")
    /\ LET s == pass[q].stream IN
        /\ MayLookDamaged(s)
        /\ pass' = [pass EXCEPT ![q].step = "replace", ![q].frames = disk[s].frames]
    /\ UNCHANGED <<NotByPass, excused, marker, disk, beneath, repairVars>>

(* The pair p once its index, or both its files, are replaced by what a    *)
(* pass read of them when they held n frames.                              *)
Repaired(p, n) ==
    IF p = NoPair THEN {NoPair}
    ELSE {[frames |-> n, damaged |-> FALSE], [p EXCEPT !.damaged = p.frames # n]}

(* _write_lines: the files are replaced.                                   *)
Replace(q) ==
    /\ PassAt(q, "replace")
    /\ LET s == pass[q].stream IN
        /\ \E p \in Repaired(disk[s], pass[q].frames) : disk' = [disk EXCEPT ![s] = p]
        /\ beneath' = beneath \union (Writers(s) \X {s})
        /\ repairs' = [repairs EXCEPT ![s] = IF @ = 0 THEN 1 ELSE 2]
    /\ PassDone(q)
    /\ UNCHANGED <<NotByPass, excused, marker, mistaken>>

-----------------------------------------------------------------------------
Claiming(r) ==
    \/ CreateMarker(r) \/ Judge(r) \/ UnlinkStale(r) \/ NameMarker(r)
    \/ OpenPair(r) \/ RefusePair(r)

RecorderStep(r, S) ==
    \/ \E s \in S : WriteFrame(r, s) \/ StartClaim(r, s) \/ Settle(r, s)
    \/ Claiming(r) \/ MarkerFails(r)
    \/ StopRecorder(r) \/ KillRecorder(r) \/ StartRecorder(r)

Repairing(q) ==
    \/ DropMarker(q) \/ FindHealthy(q) \/ FindDamaged(q)
    \/ CheckHeld(q) \/ Salvage(q) \/ Replace(q)

PassStep(q, S) == (\E s \in S : VisitPair(q, s)) \/ Repairing(q)

(* Recorders R capture streams S, and passes Q repair them.                *)
ClaimsStep(R, S, Q) ==
    \/ \E r \in R : RecorderStep(r, S)
    \/ \E q \in Q : PassStep(q, S)
    \/ TimePasses

ClaimsNext == ClaimsStep(Recorders, Streams, Passes)

-----------------------------------------------------------------------------
(* Two recorders have an hour open only if one opened it without a marker, *)
(* or a marker was unlinked that had come in the place of the one judged:  *)
(* the exclusive create, the judgement of markers and their release keep a *)
(* double start apart otherwise, deaths included (_claim_hour_or_refuse).  *)
OneWriterPerHour ==
    \A s \in Streams : Cardinality(Writers(s)) > 1 => s \in excused

(* A running recorder's marker is beside a pair only while it has the pair *)
(* open or is opening it: otherwise the repair and the offload would wait  *)
(* for a writer that does not write (_release_claim, close).               *)
MarkersAreHeld ==
    \A s \in Streams : marker[s] # Nobody /\ marker[s].alive =>
        LET r == marker[s].owner IN
            s \in open[r] \/ (claim[r] # Nobody /\ claim[r].stream = s)

(* A repair pulls files from under a writer only if another repair of the  *)
(* pair came before it, or the writer had no marker or lost it, or the pass*)
(* took for damage what a writer had not finished, and that writer was gone*)
(* when the pass asked for it: a damaged pair is refused by every writer   *)
(* until it is repaired (_open reads first, reconcile_pair asks first).    *)
RepairsLeaveWritersAlone ==
    \A x \in beneath : x[2] \in excused \union mistaken \/ repairs[x[2]] > 1

(* A writer has its hour for itself: no other writes it, and no repair     *)
(* replaces it beneath one that came by its marker rightly.                *)
WritersAreAlone == OneWriterPerHour /\ RepairsLeaveWritersAlone
=============================================================================
