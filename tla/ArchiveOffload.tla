--------------------------- MODULE ArchiveOffload ---------------------------
(***************************************************************************)
(* What becomes of an hour: offload_supervisor.sh copies the pairs without *)
(* a marker to the bucket, never over a copy that is there, and after a    *)
(* copy of everything that worked, raw_eviction deletes the old pairs      *)
(* whose names the bucket lists.                                           *)
(***************************************************************************)
EXTENDS HourClaims

VARIABLES
    bucket,         \* each pair in the bucket
    shipper,        \* what the supervisor is at
    todo,           \* the pairs it still has to copy or to delete
    deleted         \* each pair as it was when it was deleted locally

shipVars == <<bucket, shipper, todo, deleted>>
archiveVars == <<claimsVars, shipVars>>

OffloadTypeOK ==
    /\ bucket \in [Streams -> Pair]
    /\ shipper \in {"asleep", "copying", "planning", "deleting"}
    /\ todo \subseteq Streams
    /\ deleted \in [Streams -> Pair]

OffloadInit ==
    /\ bucket = [s \in Streams |-> NoPair]
    /\ shipper = "asleep"
    /\ todo = {}
    /\ deleted = [s \in Streams |-> NoPair]

(* Mutant of Complete: the offload copies what it finds.                   *)
CompleteIfThere(s) == disk[s] # NoPair

(* A pair that no writer holds, as far as its marker says.                 *)
Complete(s) == disk[s] # NoPair /\ marker[s] = Nobody

(* The copies of a pass of offload_to_gcs.sh are chosen.                   *)
BeginOffload ==
    /\ shipper = "asleep"
    /\ todo' = {s \in Streams : Complete(s)}
    /\ shipper' = "copying"
    /\ UNCHANGED <<claimsVars, bucket, deleted>>

(* gcloud storage cp -n: what the pair is by now, unless the name is there;*)
(* a pair that is being written is copied inside a frame.                  *)
Copy(s) ==
    /\ shipper = "copying" /\ s \in todo
    /\ bucket' = IF bucket[s] # NoPair \/ disk[s] = NoPair THEN bucket
                 ELSE [bucket EXCEPT ![s] =
                          [disk[s] EXCEPT !.damaged = @ \/ Writers(s) # {}]]
    /\ todo' = todo \ {s}
    /\ UNCHANGED <<claimsVars, shipper, deleted>>

(* A copy fails, and with it the pass: nothing is deleted after it.        *)
CopyFails ==
    /\ shipper = "copying" /\ todo # {}
    /\ shipper' = "asleep"
    /\ todo' = {}
    /\ UNCHANGED <<claimsVars, bucket, deleted>>

EndOffload ==
    /\ shipper = "copying" /\ todo = {}
    /\ shipper' = "planning"
    /\ UNCHANGED <<claimsVars, bucket, todo, deleted>>

(* Mutant of Evictable: age is taken for evidence.                         *)
EvictableByAge(s) == clock = "old" /\ Complete(s)

(* plan_raw_eviction keeps what is young, held, or not in the bucket.      *)
Evictable(s) == clock = "old" /\ Complete(s) /\ bucket[s] # NoPair

PlanEviction ==
    /\ shipper = "planning"
    /\ todo' = {s \in Streams : Evictable(s)}
    /\ shipper' = "deleting"
    /\ UNCHANGED <<claimsVars, bucket, deleted>>

(* evict_planned_files asks for the marker again, file by file.            *)
Evict(s) ==
    /\ shipper = "deleting" /\ s \in todo
    /\ IF Complete(s)
       THEN /\ disk' = [disk EXCEPT ![s] = NoPair]
            /\ deleted' = [deleted EXCEPT ![s] = disk[s]]
       ELSE UNCHANGED <<disk, deleted>>
    /\ todo' = todo \ {s}
    /\ UNCHANGED <<clock, marker, recorderVars, pass, beneath, repairVars, excused, disturbed,
                   recorderKills, bucket, shipper>>

EndEviction ==
    /\ shipper = "deleting" /\ todo = {}
    /\ shipper' = "asleep"
    /\ UNCHANGED <<claimsVars, bucket, todo, deleted>>

ArchiveInit == ClaimsInit /\ OffloadInit
ArchiveTypeOK == ClaimsTypeOK /\ OffloadTypeOK

Ship ==
    \/ BeginOffload \/ EndOffload \/ PlanEviction \/ EndEviction
    \/ \E s \in Streams : Copy(s) \/ Evict(s)

ArchiveNext ==
    \/ ClaimsNext /\ UNCHANGED shipVars
    \/ Ship
    \/ CopyFails

ArchiveSpec == ArchiveInit /\ [][ArchiveNext]_archiveVars


-----------------------------------------------------------------------------
(* raw_eviction.py: a copy in the bucket is what makes a local pair        *)
(* deletable ("a file that never uploaded is the only copy there is"), so  *)
(* what was deleted is in the bucket, whole.                               *)
EvictedHoursAreMirrored ==
    \A s \in Streams : deleted[s] # NoPair => bucket[s] = deleted[s]

(* The same for every pair that was opened once, with a marker that stayed *)
(* its own, and closed in order: the marker keeps the copy and the deletion*)
(* off the pair while it grows, and its close is the last change of it.    *)
OrdinaryHoursAreMirrored ==
    \A s \in Streams :
        deleted[s] # NoPair /\ s \notin disturbed \union excused => bucket[s] = deleted[s]

(* A writer that died between creating its marker and naming itself in it  *)
(* locks the hour for good.                                                *)
Locked(s) == marker[s] # Nobody /\ ~marker[s].named /\ ~marker[s].alive

(* A pair that was on disk has come to where it was going.                 *)
Shipped(s) == bucket[s] # NoPair \/ Locked(s)

(* Every pair that is on disk reaches the bucket, unless it is locked: the *)
(* recorder settles ended hours, passes clear the markers of the dead, and *)
(* the offload goes on (capture_supervisor.sh, offload_supervisor.sh).     *)
EveryHourIsShipped == \A s \in Streams : disk[s] # NoPair ~> Shipped(s)
=============================================================================
