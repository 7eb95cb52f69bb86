----------------------------- MODULE Retraining -----------------------------
(***************************************************************************)
(* retrain_supervisor.sh fits the segments one after the other, each in a  *)
(* process of train_segment_model: a direction model and then a            *)
(* profit-tail model, each counted on the trial ledger, filed in the model *)
(* registry, and made champion if it beats the one that serves.  The       *)
(* engine of a segment looks for a new champion at every poll.             *)
(*                                                                         *)
(* A supervisor that is killed leaves its fit running beside the next      *)
(* supervisor's; a fit may be killed at any step.  promotion_pipeline takes*)
(* the best of a grid of strategies through its gates, and counts it on the*)
(* same ledger.                                                            *)
(***************************************************************************)
EXTENDS TrialLedger, ModelRegistry

CONSTANTS
    Weighting,      \* the weights asked of train_gbt: "uniform", "grouped" or "pooled"
    Scores,         \* the scores a fit can have, larger is better
    MaxMishaps      \* bound: how many kinds of mishap there are, each once

ASSUME ScoresAssumption == Scores \subseteq Nat \ {0}
ASSUME WeightingAssumption == Weighting \in {"uniform", "grouped", "pooled"}
ASSUME RetrainBoundsAssumption == MaxTrials \in Nat /\ MaxMishaps \in Nat

VARIABLES
    fit,            \* what each trainer process is at
    serving,        \* the version each segment's engine decides with
    looks,          \* history: the evaluations begun
    overlapped,     \* history: two fits, or a fit and a promotion, ran at a time
    promotion,      \* the run of promotion_pipeline: the trial it evaluates
    verdict,        \* promotion.json: the N its candidate was deflated by
    mishaps         \* what happened: a fit was orphaned; one was killed; one failed

retrainVars == <<ledgerVars, registryVars, fit, serving, looks, overlapped,
                 promotion, verdict, mishaps>>

FitSteps == {"idle", "register", "score", "settle", "file", "describe", "compare", "read",
             "open", "write", "rename", "record"}

(* version is the id of the model in hand, and table the aliases as read.  *)
Fit == [step : FitSteps, segment : Segments \union {NoVersion}, family : Families,
        trial : Nat, score : Nat, version : Versions \union {NoVersion}, table : Table]

Idle == [step |-> "idle", segment |-> NoVersion, family |-> "direction", trial |-> 0,
         score |-> 0, version |-> NoVersion, table |-> NoTable]

NoPromotion == [step |-> "idle", trial |-> 0]

RetrainTypeOK ==
    /\ LedgerTypeOK /\ RegistryTypeOK
    /\ fit \in [Trainers -> Fit]
    /\ serving \in [Segments -> Versions \union {NoVersion}]
    /\ looks \in 0 .. MaxTrials
    /\ overlapped \in BOOLEAN
    /\ promotion \in [step : {"idle", "evaluate", "judge"}, trial : Nat]
    /\ verdict \in Nat
    /\ mishaps \subseteq {"orphan", "kill", "failure"}

(* A champion of an earlier day may be there, fitted on pooled venues and  *)
(* without the metrics that compare it.                                    *)
RetrainInit ==
    /\ LedgerInit
    /\ fit = [w \in Trainers |-> Idle]
    /\ serving = [s \in Segments |-> NoVersion]
    /\ looks = 0 /\ overlapped = FALSE
    /\ promotion = NoPromotion /\ verdict = 0
    /\ mishaps = {}
    /\ partial = FileThatIs("absent")
    /\ writing = [w \in Trainers |-> "nothing"]
    /\ \E heirs \in {{}} \union {{s} : s \in Segments} :
        /\ artifacts = IF heirs = {} THEN {} ELSE {0}
        /\ metadata = [v \in artifacts |-> [trial |-> 0, score |-> 0, own |-> FALSE]]
        /\ aliasFile = IF heirs = {} THEN FileThatIs("absent")
                       ELSE Holding([a \in {<<s, "direction">> : s \in heirs} |-> 0])
        /\ history = [a \in Aliases |-> Champion(a)]

-----------------------------------------------------------------------------
(* The steps of a fit.                                                     *)

(* A mishap of this kind happens now.                                      *)
Happens(kind) ==
    /\ kind \notin mishaps /\ Cardinality(mishaps) < MaxMishaps
    /\ mishaps' = mishaps \union {kind}

FitAt(w, step) == fit[w].step = step
FitTo(w, step) == fit' = [fit EXCEPT ![w].step = step]
Dies(w) == fit' = [fit EXCEPT ![w] = Idle]
Alias(w) == <<fit[w].segment, fit[w].family>>

promotionVars == <<promotion, verdict>>
BotsAndHistory == <<serving, looks, overlapped, promotionVars, mishaps>>

(* What follows a family's fit: the tail after the direction, and then the *)
(* end of the process.                                                     *)
AfterFamily(w) ==
    fit' = [fit EXCEPT ![w] =
               IF fit[w].family = "direction"
               THEN [Idle EXCEPT !.step = "register", !.segment = fit[w].segment,
                                  !.family = "tail"]
               ELSE Idle]

(* The supervisor starts the next fit, and waits for it.                   *)
StartFit(s) ==
    /\ FitAt("supervised", "idle") /\ looks < MaxTrials
    /\ fit' = [fit EXCEPT !.supervised.step = "register", !.supervised.segment = s]
    /\ overlapped' = (overlapped \/ ~FitAt("orphan", "idle") \/ promotion # NoPromotion)
    /\ UNCHANGED <<ledgerVars, registryVars, serving, looks, promotionVars, mishaps>>

(* The supervisor is killed and started again; its fit goes on.            *)
KillSupervisor ==
    /\ ~FitAt("supervised", "idle") /\ FitAt("orphan", "idle")
    /\ Happens("orphan")
    /\ fit' = [supervised |-> Idle, orphan |-> fit.supervised]
    /\ writing' = [supervised |-> "nothing", orphan |-> writing.supervised]
    /\ UNCHANGED <<ledgerVars, artifacts, metadata, aliasFile, partial, history,
                   serving, looks, overlapped, promotionVars>>

(* evaluate: the trial is on the ledger before anything is run.            *)
PreRegister(w) ==
    /\ FitAt(w, "register") /\ looks < MaxTrials
    /\ IF LedgerCorrupt
       THEN Dies(w) /\ UNCHANGED <<ledgerVars, looks>>
       ELSE /\ AppendRow(NextTrial)
            /\ looks' = looks + 1
            /\ fit' = [fit EXCEPT ![w].step = "score", ![w].trial = NextTrial.trial,
                                  ![w].version = looks']
    /\ UNCHANGED <<registryVars, serving, overlapped, promotionVars, mishaps>>

(* Mutant of WeightsMeasured: every branch of train_gbt sets               *)
(* effective_fraction.                                                     *)
AlwaysMeasured == TRUE

(* train_gbt sets effective_fraction, which its evaluation reads, for      *)
(* uniform weights and for weights of one timeline, and not for grouped.   *)
WeightsMeasured == Weighting # "grouped"

Settled(w, outcome) == AppendRow(TrialRow(fit[w].trial, outcome))

(* The evaluation raises, and the process ends with the exception.         *)
Abandon(w) ==
    /\ FitAt(w, "score")
    /\ \/ fit[w].family = "direction" /\ ~WeightsMeasured /\ UNCHANGED mishaps
       \/ Happens("failure")
    /\ Settled(w, "abandoned")
    /\ Dies(w)
    /\ UNCHANGED <<registryVars, serving, looks, overlapped, promotionVars>>

Score(w) ==
    /\ FitAt(w, "score")
    /\ fit[w].family = "direction" => WeightsMeasured
    /\ \E score \in Scores : fit' = [fit EXCEPT ![w].step = "settle", ![w].score = score]
    /\ Settled(w, "complete")
    /\ UNCHANGED <<registryVars, BotsAndHistory>>

(* NothingLearned: a direction fit that does not beat the majority class   *)
(* is counted, and ends the retrain of the segment.                        *)
LearnNothing(w) ==
    /\ FitAt(w, "score") /\ fit[w].family = "direction" /\ WeightsMeasured
    /\ Settled(w, "complete")
    /\ Dies(w)
    /\ UNCHANGED <<registryVars, BotsAndHistory>>

(* Mutant of TrialOf: the number of trials stands for the last of them.    *)
TrialAfter == TrialCount + 1

(* _last_trial_id: whichever trial the ledger has last.                    *)
TrialOf == LastTrial

NameTrial(w) ==
    /\ FitAt(w, "settle")
    /\ IF LedgerCorrupt
       THEN Dies(w)
       ELSE fit' = [fit EXCEPT ![w].step = "file", ![w].trial = TrialOf]
    /\ UNCHANGED <<ledgerVars, registryVars, BotsAndHistory>>

Facts(w) == [trial |-> fit[w].trial, score |-> fit[w].score, own |-> TRUE]

FileArtifact(w) ==
    /\ FitAt(w, "file")
    /\ SaveArtifact(fit[w].version, Facts(w))
    /\ FitTo(w, "describe")
    /\ UNCHANGED <<ledgerVars, BotsAndHistory>>

FileMetadata(w) ==
    /\ FitAt(w, "describe")
    /\ SaveMetadata(fit[w].version, Facts(w))
    /\ FitTo(w, "compare")
    /\ UNCHANGED <<ledgerVars, BotsAndHistory>>

(* Mutant of Beats: a tie goes to the challenger.                          *)
BeatsOrTies(score, incumbent) ==
    \/ incumbent = NoVersion
    \/ metadata[incumbent].score = 0
    \/ score >= metadata[incumbent].score

(* evaluate_champion and evaluate_tail_champion: nobody serves, or one that*)
(* was not measured, or a worse one.                                       *)
Beats(score, incumbent) ==
    \/ incumbent = NoVersion
    \/ metadata[incumbent].score = 0
    \/ score > metadata[incumbent].score

(* _promote_or_keep.                                                       *)
Compare(w) ==
    /\ FitAt(w, "compare")
    /\ IF ~AliasesReadable THEN Dies(w)
       ELSE IF Beats(fit[w].score, Champion(Alias(w))) THEN FitTo(w, "read")
       ELSE AfterFamily(w)
    /\ UNCHANGED <<ledgerVars, registryVars, BotsAndHistory>>

(* assign_alias.                                                           *)
ReadAliases(w) ==
    /\ FitAt(w, "read")
    /\ IF ~AliasesReadable THEN Dies(w)
       ELSE fit' = [fit EXCEPT ![w].step = "open", ![w].score = 0, ![w].trial = 0,
                               ![w].table = Repointed(aliasFile.table, Alias(w), fit[w].version)]
    /\ UNCHANGED <<ledgerVars, registryVars, BotsAndHistory>>

OpenAliases(w) ==
    /\ FitAt(w, "open")
    /\ OpenPartial(w)
    /\ FitTo(w, "write")
    /\ UNCHANGED <<ledgerVars, BotsAndHistory>>

WriteAliases(w) ==
    /\ FitAt(w, "write")
    /\ WritePartial(w, fit[w].table)
    /\ FitTo(w, "rename")
    /\ UNCHANGED <<ledgerVars, BotsAndHistory>>

(* The rename raises when another process has taken the temporary file.    *)
RenameAliases(w) ==
    /\ FitAt(w, "rename")
    /\ \/ RenamePartial(w) /\ FitTo(w, "record")
       \/ partial.is = "absent" /\ LetGo(w) /\ Dies(w)
    /\ UNCHANGED <<ledgerVars, BotsAndHistory>>

RecordAlias(w) ==
    /\ FitAt(w, "record")
    /\ AppendHistory(Alias(w), fit[w].version)
    /\ AfterFamily(w)
    /\ UNCHANGED <<ledgerVars, BotsAndHistory>>

(* A fit is killed: between two steps, or inside an append to the ledger.  *)
KillFit(w) ==
    /\ ~FitAt(w, "idle")
    /\ Happens("kill")
    /\ LetGo(w) /\ Dies(w)
    /\ \/ UNCHANGED ledgerVars
       \/ FitAt(w, "register") /\ ~LedgerCorrupt /\ AppendPartOf(NextTrial)
       \/ FitAt(w, "score") /\ AppendPartOf(TrialRow(fit[w].trial, "complete"))
    /\ UNCHANGED <<serving, looks, overlapped, promotionVars>>

-----------------------------------------------------------------------------
(* promotion_pipeline: the configurations are compared before anything is  *)
(* registered, and the best of them is one trial, whatever becomes of it.  *)
BeginPromotion ==
    /\ promotion = NoPromotion /\ looks < MaxTrials
    /\ ~LedgerCorrupt
    /\ AppendRow(NextTrial)
    /\ looks' = looks + 1
    /\ promotion' = [step |-> "evaluate", trial |-> NextTrial.trial]
    /\ overlapped' = (overlapped \/ \E w \in Trainers : ~FitAt(w, "idle"))
    /\ UNCHANGED <<registryVars, fit, serving, verdict, mishaps>>

(* Every fold is scored, or one of them raises and the run ends.           *)
EvaluateFolds ==
    /\ promotion.step = "evaluate"
    /\ \/ /\ AppendRow(TrialRow(promotion.trial, "complete"))
          /\ promotion' = [promotion EXCEPT !.step = "judge"]
          /\ UNCHANGED mishaps
       \/ /\ Happens("failure")
          /\ AppendRow(TrialRow(promotion.trial, "abandoned"))
          /\ promotion' = NoPromotion
    /\ UNCHANGED <<registryVars, fit, serving, looks, overlapped, verdict>>

(* The gates divide by the N of now; nothing is promoted, for main supplies*)
(* no baseline and its gate does not pass without one.                     *)
Verdict ==
    /\ promotion.step = "judge"
    /\ verdict' = IF LedgerCorrupt THEN verdict ELSE TrialCount
    /\ promotion' = NoPromotion
    /\ UNCHANGED <<ledgerVars, registryVars, fit, serving, looks, overlapped, mishaps>>

-----------------------------------------------------------------------------
(* Mutant of Newer: the champion is looked for when the engine starts.     *)
NewerAtStart(s, v) == v # NoVersion /\ serving[s] = NoVersion

(* registered_champion_id names another version than the engine has.       *)
Newer(s, v) == v # NoVersion /\ serving[s] # v

(* _adopt_new_champion: the version is loaded if its artefact verifies and *)
(* it was fitted on the venues of the segment.                             *)
Adopt(s) ==
    /\ LET v == Champion(<<s, "direction">>) IN
        /\ Newer(s, v)
        /\ Loads(v) /\ metadata[v].own
        /\ serving' = [serving EXCEPT ![s] = v]
    /\ UNCHANGED <<ledgerVars, registryVars, fit, looks, overlapped, promotionVars, mishaps>>

FitStep(w) ==
    \/ PreRegister(w) \/ Abandon(w) \/ Score(w) \/ LearnNothing(w) \/ NameTrial(w)
    \/ FileArtifact(w) \/ FileMetadata(w) \/ Compare(w) \/ ReadAliases(w) \/ OpenAliases(w)
    \/ WriteAliases(w) \/ RenameAliases(w) \/ RecordAlias(w)

RetrainNext ==
    \/ \E w \in Trainers : FitStep(w) \/ KillFit(w)
    \/ KillSupervisor
    \/ BeginPromotion \/ EvaluateFolds \/ Verdict
    \/ \E s \in Segments : StartFit(s) \/ Adopt(s)

RetrainSpec == RetrainInit /\ [][RetrainNext]_retrainVars

(* A poll follows a poll (segment_bot_supervisor.sh).                      *)
RetrainFairness == \A s \in Segments : WF_retrainVars(Adopt(s))

-----------------------------------------------------------------------------
(* N is at least the number of evaluations that were begun, as long as it  *)
(* can be read at all: a kill inside an append, with another fit appending *)
(* after it, may make the ledger unreadable but never short                *)
(* (pre_register, _read_rows).                                             *)
EveryLookIsCounted == ~LedgerCorrupt => TrialCount >= looks

(* Whatever an alias stands for can be loaded: no order of kills and of    *)
(* overlapping fits leaves a version that resolves and cannot load         *)
(* (register, assign_alias).                                               *)
EveryChampionLoads ==
    \A a \in Aliases : Champion(a) # NoVersion => Loads(Champion(a))

(* A champion gives way to a better one only.  Two fits that overlap can   *)
(* undo each other's assignment, for an alias file is read, changed and    *)
(* written back without a lock; fits of one supervisor cannot.             *)
ChampionsOnlyImprove ==
    [][\A a \in Aliases :
         LET was == Champion(a)
             is == Champion(a)'
         IN  was \notin {is, NoVersion} /\ ~overlapped =>
                is # NoVersion /\ metadata[is].score > metadata[was].score]_retrainVars

(* A model that was filed while nothing overlapped names the trial that    *)
(* measured it: the one that was settled last, and one that can be found   *)
(* on the ledger (_last_trial_id).                                         *)
ModelsNameTheirTrial ==
    ~overlapped /\ ~LedgerCorrupt =>
        \A v \in DOMAIN metadata : metadata[v].own =>
            \E i \in DOMAIN ledger :
                ledger[i] = TrialRow(metadata[v].trial, "complete")

(* The champion of a segment that stays champion comes to decide, without  *)
(* a restart of the engine (_adopt_new_champion), if it was fitted on the  *)
(* segment's venues.                                                       *)
ChampionsComeToServe ==
    \A s \in Segments, v \in Versions :
        (Champion(<<s, "direction">>) = v /\ metadata[v].own) ~>
            (serving[s] = v \/ Champion(<<s, "direction">>) # v)

(* Both of what a reader of the registry relies on: the champion of a      *)
(* segment loads, and a model names the trial that measured it.            *)
ModelsAreSound == EveryChampionLoads /\ ModelsNameTheirTrial
=============================================================================
