---------------------------- MODULE LivenessLedger ----------------------------
(***************************************************************************)
(* record_liveness, once per pass of the health supervisor: a stamp that   *)
(* this host is alive, and a row in the ledger of outages when the stamp   *)
(* before is too old.  The row is appended and fsynced, then the stamp is  *)
(* replaced; a kill may come at any of these moments.                      *)
(***************************************************************************)
EXTENDS LineLog, FiniteSets

CONSTANTS
    Threshold,      \* DEFAULT_THRESHOLD_NS
    LastBeat,       \* bound: of the clock
    MaxTickKills,   \* bound: ticks that are killed
    MaxStepsBack    \* bound: times the clock is set back

ASSUME LivenessAssumption ==
    /\ Threshold \in Nat /\ LastBeat \in Nat \ {0}
    /\ MaxTickKills \in Nat /\ MaxStepsBack \in Nat

VARIABLES
    beat,           \* time.time_ns
    stamp,          \* last_seen_ns of the stamp file, 0 for none
    outages,        \* the lines of the ledger
    outagesCut,     \* its last line has no newline
    tick,           \* the tick in progress: its step and its now_ns
    seen,           \* history: every stamp, in order
    tickKills, stepsBack

livenessVars == <<beat, stamp, outages, outagesCut, tick, seen, tickKills, stepsBack>>

Beats == 1 .. LastBeat
Outage == [last : Beats, returned : Beats, reconstructed : BOOLEAN]
NoTick == [step |-> "none", now |-> 0]

LivenessTypeOK ==
    /\ beat \in Beats /\ stamp \in 0 .. LastBeat
    /\ outages \in Seq(Outage \union {Torn}) /\ outagesCut \in BOOLEAN
    /\ tick \in [step : {"none", "append", "stamp"}, now : 0 .. LastBeat]
    /\ seen \in Seq(Beats)
    /\ tickKills \in 0 .. MaxTickKills /\ stepsBack \in 0 .. MaxStepsBack

LivenessInit ==
    /\ beat = 1 /\ stamp = 0
    /\ outages = <<>> /\ outagesCut = FALSE
    /\ tick = NoTick
    /\ seen = <<>>
    /\ tickKills = 0 /\ stepsBack = 0

-----------------------------------------------------------------------------
BeatMoves ==
    /\ beat < LastBeat
    /\ beat' = beat + 1
    /\ UNCHANGED <<stamp, outages, outagesCut, tick, seen, tickKills, stepsBack>>

(* NTP sets the clock back.                                                *)
BeatStepsBack ==
    /\ stepsBack < MaxStepsBack /\ beat > 1
    /\ beat' = beat - 1
    /\ stepsBack' = stepsBack + 1
    /\ UNCHANGED <<stamp, outages, outagesCut, tick, seen, tickKills>>

(* Mutant of FirstStep: the stamp first, and the row after it.             *)
FirstStepStamp(now) == "stamp"

(* What a tick writes first: a hole has its row before the stamp.          *)
FirstStep(now) == IF stamp # 0 /\ now - stamp > Threshold THEN "append" ELSE "stamp"

(* A tick before the last stamp raises, and writes nothing.                *)
BeginTick ==
    /\ tick.step = "none"
    /\ tick' = IF beat < stamp THEN NoTick ELSE [step |-> FirstStep(beat), now |-> beat]
    /\ UNCHANGED <<beat, stamp, outages, outagesCut, seen, tickKills, stepsBack>>

RowOfHole == [last |-> stamp, returned |-> tick.now, reconstructed |-> FALSE]

AppendOutage ==
    /\ tick.step = "append"
    /\ outages' = Put(outages, outagesCut, RowOfHole) /\ outagesCut' = FALSE
    /\ tick' = [tick EXCEPT !.step = "stamp"]
    /\ UNCHANGED <<beat, stamp, seen, tickKills, stepsBack>>

ReplaceStamp ==
    /\ tick.step = "stamp"
    /\ stamp' = tick.now
    /\ seen' = IF stamp = tick.now THEN seen ELSE Append(seen, tick.now)
    /\ tick' = NoTick
    /\ UNCHANGED <<beat, outages, outagesCut, tickKills, stepsBack>>

(* Between two writes, or inside the append.                               *)
KillTick ==
    /\ tick.step # "none" /\ tickKills < MaxTickKills
    /\ tickKills' = tickKills + 1
    /\ tick' = NoTick
    /\ \/ UNCHANGED <<outages, outagesCut>>
       \/ /\ tick.step = "append"
          /\ \E part \in PartOf(RowOfHole) : outages' = Put(outages, outagesCut, part)
          /\ outagesCut' = TRUE
    /\ UNCHANGED <<beat, stamp, seen, stepsBack>>

LivenessNext ==
    \/ BeatMoves \/ BeatStepsBack
    \/ BeginTick \/ AppendOutage \/ ReplaceStamp \/ KillTick

LivenessSpec == LivenessInit /\ [][LivenessNext]_livenessVars

-----------------------------------------------------------------------------
(* read_outages: a line that is torn is skipped.                           *)
ReadOutages == {outages[i] : i \in {j \in DOMAIN outages : outages[j] # Torn}}

Holes == {i \in 1 .. Len(seen) - 1 : seen[i + 1] - seen[i] > Threshold}

Unrecorded ==
    {i \in Holes : \A o \in ReadOutages : <<o.last, o.returned>> # <<seen[i], seen[i + 1]>>}

(* Every hole between two stamps is in the ledger, but for one at most for *)
(* every line that a kill left torn; and while nobody sets the clock back  *)
(* no row claims a hole over a moment at which the host was seen.          *)
OutagesAreOnRecord ==
    /\ Cardinality(Unrecorded) <= Cardinality({i \in DOMAIN outages : outages[i] = Torn})
    /\ stepsBack = 0 =>
        \A o \in ReadOutages : \A i \in DOMAIN seen : ~(o.last < seen[i] /\ seen[i] < o.returned)
=============================================================================
