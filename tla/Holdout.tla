------------------------------ MODULE Holdout -------------------------------
(***************************************************************************)
(* HoldoutCustodian: the seal on the rows that nothing may be selected on. *)
(* A freeze pins the commit, a consume opens the holdout for it, and both  *)
(* are kept in a file that is replaced whole, under one temporary name.    *)
(* Nothing locks the file between the reading of it and its replacement.   *)
(***************************************************************************)
EXTENDS Naturals, Sequences

CONSTANTS
    Callers,        \* processes that use the custodian
    Commits,
    NoCommit,       \* not frozen, not consumed
    MaxCalls        \* bound: freezes, consumptions and reads begun

ASSUME HoldoutAssumption == NoCommit \notin Commits /\ MaxCalls \in Nat

VARIABLES
    seal,           \* holdout_custodian.json: frozen and consumed, at which commit
    sealTmp,        \* its temporary file, or Unsealed when there is none
    caller,         \* what each caller is at
    events,         \* the freezes, consumptions and refusals in holdout_custodian.ndjson
    consumptions,   \* history: the commits the holdout was opened for
    raced,          \* history: two callers were inside a call at a time
    calls

holdoutVars == <<seal, sealTmp, caller, events, consumptions, raced, calls>>

MaybeCommit == Commits \union {NoCommit}
Seal == [frozen : MaybeCommit, consumed : MaybeCommit]
Unsealed == [frozen |-> NoCommit, consumed |-> NoCommit]

Resting == [step |-> "idle", event |-> "freeze", next |-> Unsealed]

HoldoutTypeOK ==
    /\ seal \in Seal /\ sealTmp \in Seal
    /\ caller \in [Callers -> [step : {"idle", "write", "replace", "record"},
                               event : {"freeze", "consume"}, next : Seal]]
    /\ events \in Seq({"freeze", "consume", "refused"})
    /\ consumptions \in Seq(Commits)
    /\ raced \in BOOLEAN
    /\ calls \in 0 .. MaxCalls

HoldoutInit ==
    /\ seal = Unsealed /\ sealTmp = Unsealed
    /\ caller = [o \in Callers |-> Resting]
    /\ events = <<>> /\ consumptions = <<>>
    /\ raced = FALSE
    /\ calls = 0

-----------------------------------------------------------------------------
InCall(o, step) == caller[o].step = step

(* The state is read and judged, and the next one is made of it.           *)
Call(o, event, next) ==
    /\ InCall(o, "idle") /\ calls < MaxCalls
    /\ calls' = calls + 1
    /\ caller' = [caller EXCEPT ![o] = [step |-> "write", event |-> event, next |-> next]]
    /\ raced' = (raced \/ \E p \in Callers : ~InCall(p, "idle"))
    /\ UNCHANGED <<seal, sealTmp, events, consumptions>>

(* Mutant of MayConsume: the holdout opens once for each commit.           *)
MayConsumeAnew(c) == seal.frozen # NoCommit /\ seal.consumed # c

(* freeze and consume are refused otherwise, and nothing is written.       *)
MayFreeze == seal.frozen = NoCommit
MayConsume(c) == seal.frozen = c /\ seal.consumed = NoCommit

Freeze(o, c) == MayFreeze /\ Call(o, "freeze", [seal EXCEPT !.frozen = c])
Consume(o, c) == MayConsume(c) /\ Call(o, "consume", [seal EXCEPT !.consumed = c])

WriteSeal(o) ==
    /\ InCall(o, "write")
    /\ sealTmp' = caller[o].next
    /\ caller' = [caller EXCEPT ![o].step = "replace"]
    /\ UNCHANGED <<seal, events, consumptions, raced, calls>>

(* The temporary file becomes the state; when another caller has renamed it*)
(* already there is none, and the call raises.                             *)
ReplaceSeal(o) ==
    /\ InCall(o, "replace")
    /\ IF sealTmp = Unsealed
       THEN /\ caller' = [caller EXCEPT ![o] = Resting]
            /\ UNCHANGED <<seal, consumptions>>
       ELSE /\ seal' = sealTmp
            /\ consumptions' = IF sealTmp.consumed \in {NoCommit, seal.consumed} THEN consumptions
                               ELSE Append(consumptions, sealTmp.consumed)
            /\ caller' = [caller EXCEPT ![o].step = "record"]
    /\ sealTmp' = Unsealed
    /\ UNCHANGED <<events, raced, calls>>

(* _record, after the fact.                                                *)
RecordCall(o) ==
    /\ InCall(o, "record")
    /\ events' = Append(events, caller[o].event)
    /\ caller' = [caller EXCEPT ![o] = Resting]
    /\ UNCHANGED <<seal, sealTmp, consumptions, raced, calls>>

KillCaller(o) ==
    /\ ~InCall(o, "idle")
    /\ caller' = [caller EXCEPT ![o] = Resting]
    /\ UNCHANGED <<seal, sealTmp, events, consumptions, raced, calls>>

(* assert_readable inside the range, while it is sealed.                   *)
ReadIsRefused ==
    /\ seal.consumed = NoCommit /\ calls < MaxCalls
    /\ events' = Append(events, "refused")
    /\ calls' = calls + 1
    /\ UNCHANGED <<seal, sealTmp, caller, consumptions, raced>>

HoldoutNext ==
    \/ \E o \in Callers :
        \/ \E c \in Commits : Freeze(o, c) \/ Consume(o, c)
        \/ WriteSeal(o) \/ ReplaceSeal(o) \/ RecordCall(o) \/ KillCaller(o)
    \/ ReadIsRefused

HoldoutSpec == HoldoutInit /\ [][HoldoutNext]_holdoutVars

-----------------------------------------------------------------------------
(* However calls are cut short and repeated, the holdout is opened once,   *)
(* for the commit that was frozen first.  Calls that overlap are not kept  *)
(* apart: a freeze that was judged before another caller's freeze and      *)
(* consumption can put the seal back.                                      *)
HoldoutSpentOnce ==
    ~raced =>
        /\ Len(consumptions) <= 1
        /\ seal.consumed # NoCommit => seal.consumed = seal.frozen /\ consumptions # <<>>
=============================================================================
