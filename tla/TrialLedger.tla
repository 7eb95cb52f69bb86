---------------------------- MODULE TrialLedger -----------------------------
(***************************************************************************)
(* trial_registry.ndjson: one line when a trial is registered, before      *)
(* anything is run, and one when it is settled.  Every significance gate   *)
(* divides by N, the number of trials that can be read back; a line that   *)
(* cannot be parsed is fatal anywhere but at the torn end of the file.     *)
(***************************************************************************)
EXTENDS LineLog, FiniteSets

VARIABLES
    ledger,         \* the lines of the file
    ledgerCut       \* the last line has no newline

ledgerVars == <<ledger, ledgerCut>>

Outcomes == {"pending", "complete", "abandoned"}

TrialRow(id, outcome) == [event |-> outcome, trial |-> id]

LedgerTypeOK ==
    /\ ledger \in Seq([event : Outcomes, trial : Nat] \union {Torn})
    /\ ledgerCut \in BOOLEAN

LedgerInit == ledger = <<>> /\ ledgerCut = FALSE

TornTail == ledgerCut /\ ledger[Len(ledger)] = Torn

(* Mutant of LedgerCorrupt: a line that cannot be parsed is skipped.       *)
LedgerNeverCorrupt == FALSE

(* _read_rows raises: a line that is not at the torn end does not parse.   *)
LedgerCorrupt ==
    \E i \in DOMAIN ledger : ledger[i] = Torn /\ ~(ledgerCut /\ i = Len(ledger))

(* The trials of the file, each of them once however often it is settled.  *)
Trials == {ledger[i].trial : i \in {j \in DOMAIN ledger : ledger[j] # Torn}}

(* cumulative_count: a torn last line is of a trial too.                   *)
TrialCount == Cardinality(Trials) + (IF TornTail THEN 1 ELSE 0)

(* The last trial of trials(), in the order of registration.               *)
LastTrial == CHOOSE t \in Trials : \A u \in Trials : u <= t

AppendRow(row) ==
    /\ ledger' = Put(ledger, ledgerCut, row)
    /\ ledgerCut' = FALSE

(* The process dies inside the append: nothing, a part of the line, or all *)
(* of it but its newline is in the file.                                   *)
AppendPartOf(row) ==
    /\ ledgerCut' = TRUE
    /\ \E part \in PartOf(row) : ledger' = Put(ledger, ledgerCut, part)

(* pre_register, under the lock: the row of the next trial.                *)
NextTrial == TrialRow(TrialCount + 1, "pending")
=============================================================================
