----------------------------- MODULE MCProgress -----------------------------
(***************************************************************************)
(* What must go on, and what is kept meanwhile: the capture of an hour     *)
(* through kills, or through power cuts and blocks that fill; the way of a *)
(* pair to the bucket; the way of a model to the engine that serves it; and*)
(* the capital that the segment bots share.                                *)
(* A behaviour plays one of these, and the others stay as they began.      *)
(***************************************************************************)
EXTENDS RawHour, ArchiveOffload, Retraining, MCSegmentBots

CONSTANTS
    Scenes,         \* the scenes that are played
    r1, q1

VARIABLE scene      \* the scene that is played

KillAndPower == {"kill", "power"}

(* The same hour with kills as its only faults.                            *)
Mild == INSTANCE RawHour WITH Faults <- {"kill"}, BlockFills <- FALSE, MaxFrames <- 4

progressVars == <<vars, archiveVars, retrainVars, botsVars, scene>>

ProgressTypeOK ==
    TypeOK /\ ArchiveTypeOK /\ RetrainTypeOK /\ BotsTypeOK /\ scene \in Scenes

ProgressInit ==
    /\ Init /\ ArchiveInit /\ RetrainInit /\ BotsInit
    /\ scene \in Scenes
    /\ scene # "retrain" => artifacts = {}
    /\ scene # "capital" => declared = CHOOSE d \in Declarations : TRUE

PlayHour ==
    /\ \/ scene = "harsh hour" /\ Next
       \/ scene = "hour" /\ Mild!Next
    /\ UNCHANGED <<archiveVars, retrainVars, botsVars>>

PlayMirror ==
    /\ scene = "mirror"
    /\ \/ ClaimsNext /\ UNCHANGED shipVars
       \/ Ship \/ CopyFails
    /\ UNCHANGED <<vars, retrainVars, botsVars>>

PlayRetrain == scene = "retrain" /\ RetrainNext /\ UNCHANGED <<vars, archiveVars, botsVars>>

PlayBots == scene = "capital" /\ BotsNext /\ UNCHANGED <<vars, archiveVars, retrainVars>>

ProgressNext == (PlayHour \/ PlayMirror \/ PlayRetrain \/ PlayBots) /\ UNCHANGED scene

(* Running processes go on, supervisors restart dead ones, every pass      *)
(* comes to every pair, an offload that is repeated succeeds once, and a   *)
(* poll follows a poll.  The condition on the scene keeps what cannot be   *)
(* taken in a scene from being required there.                             *)
HourFairness ==
    /\ WF_vars(scene = "hour" /\ (Mild!RepairSkips \/ Mild!RepairIndex \/ Mild!RepairRaw))
    /\ WF_vars(scene = "hour" /\ Mild!AppendFrame)

Recording == Claiming(r1) \/ Settle(r1, s1)
Shipping == BeginOffload \/ EndOffload \/ PlanEviction \/ EndEviction \/ Evict(s1)

MirrorFairness ==
    /\ WF_archiveVars(scene = "mirror" /\ TimePasses /\ UNCHANGED shipVars)
    /\ WF_archiveVars(scene = "mirror" /\ StartRecorder(r1) /\ UNCHANGED shipVars)
    /\ WF_archiveVars(scene = "mirror" /\ Recording /\ UNCHANGED shipVars)
    /\ WF_archiveVars(scene = "mirror" /\ Repairing(q1) /\ UNCHANGED shipVars)
    /\ WF_archiveVars(scene = "mirror" /\ Shipping)
    /\ SF_archiveVars(scene = "mirror" /\ Copy(s1))

(* The supervisors of the bots, and the lock, are fair to some bot; a bot  *)
(* recovers and sweeps once after each of finitely many kills, so that this*)
(* is fair to each.                                                        *)
CapitalFairness ==
    /\ WF_botsVars(scene = "capital" /\ \E b \in Bots : Recover(b))
    /\ WF_botsVars(scene = "capital" /\ \E b \in Bots : InLock(b))

(* Who waits for what others hold now and then gets it: a repair pass for  *)
(* the marker of a pair, a bot for the lock of the pool.                   *)
WaitingFairness ==
    SF_<<archiveVars, botsVars>>(
        \/ scene = "mirror" /\ VisitPair(q1, s1) /\ UNCHANGED <<shipVars, botsVars>>
        \/ scene = "capital" /\ (\E b \in Bots : SweepOrphans(b)) /\ UNCHANGED archiveVars)

ProgressSpec ==
    /\ ProgressInit /\ [][ProgressNext]_progressVars
    /\ HourFairness /\ MirrorFairness /\ RetrainFairness /\ CapitalFairness
    /\ WaitingFairness

-----------------------------------------------------------------------------
(* DamageIsRepairable (RawHour) where only kills happen; a power cut breaks*)
(* it.                                                                     *)
HourIsRepairable == scene = "hour" => DamageIsRepairable

(* CaptureResumes (RawHour) where the hour is played: a recorder that is   *)
(* down is capturing again, after finitely many crashes and failed writes. *)
HourIsResumed == (scene = "hour" /\ pc = "down" /\ arrived < 4) ~> (pc = "open")

(* EveryHourIsShipped (ArchiveOffload) where the mirror is played: a pair  *)
(* on disk reaches the bucket, unless a dead writer locked its hour.       *)
HourIsShipped == (scene = "mirror" /\ disk[s1] # NoPair) ~> Shipped(s1)
=============================================================================
