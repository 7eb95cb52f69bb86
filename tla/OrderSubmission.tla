-------------------------- MODULE OrderSubmission ---------------------------
(***************************************************************************)
(* An engine that submits orders through the write-ahead log, the venue    *)
(* behind its transport, and the operator who resolves what a crash left   *)
(* open.  The engine is the forward engine's _submit: it tells an expired  *)
(* intent from one that submit refused, and counts every refusal as a      *)
(* duplicate.                                                              *)
(*                                                                         *)
(* Which intent comes next, whether it has expired and what the venue      *)
(* answers are free choices.  Faults: "kill" ends the engine between two   *)
(* steps, "torn" inside the write of a line (the operator's included), and *)
(* "lost" loses the request or the response of a send.                     *)
(*                                                                         *)
(* The write-ahead log of order intents (order_intent_wal.py) is read again*)
(* for every question and takes no lock.  A line that does not parse is    *)
(* forgiven only as an unended last line; anywhere else it makes the whole *)
(* log unreadable (WalCorrupt).                                            *)
(***************************************************************************)
EXTENDS LineLog

CONSTANTS
    Ids,            \* client order ids, one for each intent
    NoId,           \* no intent is being submitted
    Faults,         \* a subset of {"kill", "torn", "lost"}
    MaxKills,       \* bound: kills
    MaxLines        \* bound: no expiry is logged in a file this long

ASSUME IdsAssumption == NoId \notin Ids

ASSUME SubmissionAssumption ==
    Faults \subseteq {"kill", "torn", "lost"} /\ MaxKills \in Nat /\ MaxLines \in Nat

VARIABLES
    lines,          \* the lines of the file
    unended,        \* the last line has no newline
    pc,             \* where the engine is
    what,           \* the intent in submission
    fate,           \* external: what became of each order at the venue
    sends,          \* external: how often the venue received it
    attempted,      \* auxiliary: intents that submit began to record
    dropped,        \* intents counted in orders_duplicate
    kills           \* kills so far

wal == <<lines, unended>>
vars == <<wal, pc, what, fate, sends, attempted, dropped, kills>>

-----------------------------------------------------------------------------
(* The log: what its readers make of the file, and the rows of its writers.*)

Answers == {"accepted", "rejected"}

(* What the venue says of an order: "absent" if it never got it.           *)
Fates == Answers \union {"absent"}

Row == [event : {"submitted", "transport_failed", "acknowledged", "resolved", "expired"},
        id : Ids, outcome : Fates \union {"unknown"}]

SubmittedRow(i) == [event |-> "submitted", id |-> i, outcome |-> "unknown"]
FailedRow(i) == [event |-> "transport_failed", id |-> i, outcome |-> "unknown"]
AcknowledgedRow(i, a) == [event |-> "acknowledged", id |-> i, outcome |-> a]
ResolvedRow(i, f) == [event |-> "resolved", id |-> i, outcome |-> f]
ExpiredRow(i) == [event |-> "expired", id |-> i, outcome |-> "absent"]

WalTypeOK ==
    /\ lines \in Seq(Row \union {Torn})
    /\ unended \in BOOLEAN
    /\ unended => lines # <<>>

(* _read raises WalCorrupt.                                                *)
Corrupt == \E j \in DOMAIN lines : lines[j] = Torn /\ ~(unended /\ j = Len(lines))

HasTornTail == unended /\ lines[Len(lines)] = Torn

(* _folded: the intents with an event other than an expiry, each with its  *)
(* latest outcome.                                                         *)
Events(i) ==
    {j \in DOMAIN lines : lines[j].event \notin {"TORN", "expired"} /\ lines[j].id = i}

Folded == {i \in Ids : Events(i) # {}}

Outcome(i) == lines[Last(Events(i))].outcome

Unresolved == {i \in Folded : Outcome(i) = "unknown"}

(* recover_and_reconcile finds no reason in the log not to start.          *)
MayStart == ~Corrupt /\ ~HasTornTail /\ Unresolved = {}

(* _append.                                                                *)
Write(row) ==
    /\ lines' = Put(lines, unended, row)
    /\ unended' = FALSE

TornWrite(row) ==
    /\ \E left \in PartOf(row) : lines' = Put(lines, unended, left)
    /\ unended' = TRUE

-----------------------------------------------------------------------------
(* The engine, the venue and the operator.                                 *)

TypeOK ==
    /\ WalTypeOK
    /\ pc \in {"down", "ready", "recorded", "answered", "failed"}
    /\ what \in Ids \union {NoId}
    /\ what = NoId <=> pc \in {"down", "ready"}
    /\ fate \in [Ids -> Fates]
    /\ sends \in [Ids -> Nat]
    /\ attempted \in SUBSET Ids
    /\ dropped \in SUBSET Ids
    /\ kills \in 0..MaxKills

Init ==
    /\ lines = <<>> /\ unended = FALSE
    /\ pc = "down" /\ what = NoId
    /\ fate = [i \in Ids |-> "absent"]
    /\ sends = [i \in Ids |-> 0]
    /\ attempted = {} /\ dropped = {}
    /\ kills = 0

(* The supervisor starts the engine; nothing reconciles before it trades.  *)
Start ==
    /\ pc = "down"
    /\ pc' = "ready"
    /\ UNCHANGED <<wal, what, fate, sends, attempted, dropped, kills>>

(* submit appends the expiry before it has read the log.                   *)
Expire(i) ==
    /\ pc = "ready"
    /\ Len(lines) < MaxLines
    /\ Write(ExpiredRow(i))
    /\ UNCHANGED <<pc, what, fate, sends, attempted, dropped, kills>>

(* submit raises a RuntimeError: the intent is in the log already, or the  *)
(* log is corrupt.  The engine counts a duplicate either way.              *)
Refuse(i) ==
    /\ pc = "ready"
    /\ Corrupt \/ i \in Folded
    /\ dropped' = dropped \union {i}
    /\ UNCHANGED <<wal, pc, what, fate, sends, attempted, kills>>

\* Mutant of Record: the line stays in a buffer.
RecordUnwritten(i) ==
    /\ pc = "ready"
    /\ ~Corrupt /\ i \notin Folded
    /\ what' = i
    /\ pc' = "recorded"
    /\ attempted' = attempted \union {i}
    /\ UNCHANGED <<wal, fate, sends, dropped, kills>>

\* Mutant of Record: only an intent of unknown outcome is refused.
RecordUnlessUnresolved(i) ==
    /\ pc = "ready"
    /\ ~Corrupt /\ i \notin Unresolved
    /\ Write(SubmittedRow(i))
    /\ what' = i
    /\ pc' = "recorded"
    /\ attempted' = attempted \union {i}
    /\ UNCHANGED <<fate, sends, dropped, kills>>

(* submit records the intent, durably, before anything is sent.            *)
Record(i) ==
    /\ pc = "ready"
    /\ ~Corrupt /\ i \notin Folded
    /\ Write(SubmittedRow(i))
    /\ what' = i
    /\ pc' = "recorded"
    /\ attempted' = attempted \union {i}
    /\ UNCHANGED <<fate, sends, dropped, kills>>

(* The transport.                                                          *)
Send ==
    /\ pc = "recorded"
    /\ \E answer \in Answers : fate' = [fate EXCEPT ![what] = answer]
    /\ sends' = [sends EXCEPT ![what] = @ + 1]
    /\ \/ pc' = "answered"
       \/ "lost" \in Faults /\ pc' = "failed"
    /\ UNCHANGED <<wal, what, attempted, dropped, kills>>

RequestLost ==
    /\ pc = "recorded"
    /\ "lost" \in Faults
    /\ pc' = "failed"
    /\ UNCHANGED <<wal, what, fate, sends, attempted, dropped, kills>>

\* Mutant of Acknowledge: the engine is ready before the intent is done with.
AcknowledgeEarly ==
    /\ pc = "answered"
    /\ Write(AcknowledgedRow(what, fate[what]))
    /\ pc' = "ready"
    /\ UNCHANGED <<what, fate, sends, attempted, dropped, kills>>

Acknowledge ==
    /\ pc = "answered"
    /\ Write(AcknowledgedRow(what, fate[what]))
    /\ what' = NoId
    /\ pc' = "ready"
    /\ UNCHANGED <<fate, sends, attempted, dropped, kills>>

\* Mutant of RecordFailure: a timeout is taken for a rejection.
RecordRejection ==
    /\ pc = "failed"
    /\ Write(AcknowledgedRow(what, "rejected"))
    /\ what' = NoId
    /\ pc' = "ready"
    /\ UNCHANGED <<fate, sends, attempted, dropped, kills>>

(* The failure is recorded as unknown and raised again: a RuntimeError is  *)
(* counted as a duplicate, any other ends the engine.                      *)
RecordFailure ==
    /\ pc = "failed"
    /\ Write(FailedRow(what))
    /\ what' = NoId
    /\ \/ pc' = "down" /\ UNCHANGED dropped
       \/ pc' = "ready" /\ dropped' = dropped \union {what}
    /\ UNCHANGED <<fate, sends, attempted, kills>>

(* The start-up work list: the operator asks the venue about an unresolved *)
(* intent by its id and calls resolve, which raises unless it is there.    *)
Resolve(i) ==
    /\ pc = "down"
    /\ ~Corrupt /\ i \in Unresolved
    /\ Write(ResolvedRow(i, fate[i]))
    /\ UNCHANGED <<pc, what, fate, sends, attempted, dropped, kills>>

-----------------------------------------------------------------------------
(* Faults.                                                                 *)

Kill ==
    /\ "kill" \in Faults
    /\ pc # "down"
    /\ kills < MaxKills
    /\ kills' = kills + 1
    /\ pc' = "down"
    /\ what' = NoId
    /\ UNCHANGED <<wal, fate, sends, attempted, dropped>>

(* The rows that may be in the middle of being written.                    *)
Recording == {i \in Ids : pc = "ready" /\ ~Corrupt /\ i \notin Folded}

Writing ==
    {SubmittedRow(i) : i \in Recording}
    \union {ExpiredRow(i) : i \in {j \in Ids : pc = "ready"}}
    \union {AcknowledgedRow(i, fate[i]) : i \in {j \in Ids : pc = "answered" /\ j = what}}
    \union {FailedRow(i) : i \in {j \in Ids : pc = "failed" /\ j = what}}
    \union {ResolvedRow(i, fate[i]) : i \in {j \in Unresolved : pc = "down" /\ ~Corrupt}}

KillInWrite ==
    /\ "torn" \in Faults
    /\ kills < MaxKills
    /\ kills' = kills + 1
    /\ \E row \in Writing :
          /\ TornWrite(row)
          /\ attempted' = IF row.event = "submitted" THEN attempted \union {row.id}
                                                     ELSE attempted
    /\ pc' = "down"
    /\ what' = NoId
    /\ UNCHANGED <<fate, sends, dropped>>

-----------------------------------------------------------------------------

Next ==
    \/ Start
    \/ \E i \in Ids : Expire(i) \/ Refuse(i) \/ Record(i) \/ Resolve(i)
    \/ Send \/ RequestLost \/ Acknowledge \/ RecordFailure
    \/ Kill \/ KillInWrite

Spec == Init /\ [][Next]_vars

-----------------------------------------------------------------------------
(* Properties.                                                             *)

(* No order reaches the venue twice, whatever is retried, lost, restarted  *)
(* or torn: a row that allowed a send is never lost without making the log *)
(* refuse every later send.                                                *)
NeverSentTwice == \A i \in Ids : sends[i] <= 1

(* If the log gives no reason not to start, it knows of every order the    *)
(* venue received, and what became of it.                                  *)
NothingForgotten ==
    MayStart => \A i \in Ids : sends[i] > 0 => i \in Folded /\ Outcome(i) = fate[i]

(* An outcome known durably is never unlearnt: no later event of a retry,  *)
(* a failure or a resolution replaces it.                                  *)
Known(i) == i \in Folded /\ Outcome(i) # "unknown"
KnownStaysKnown ==
    [][\A i \in Ids : Known(i) /\ ~unended => Known(i)' /\ Outcome(i)' = Outcome(i)]_vars

(* What the engine counts as a duplicate was submitted before.             *)
RefusalsAreDuplicates == dropped \subseteq attempted
=============================================================================
