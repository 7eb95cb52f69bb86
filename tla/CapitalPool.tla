---------------------------- MODULE CapitalPool -----------------------------
(***************************************************************************)
(* The reservation ledger of the shared margin pool (capital_pool.py): a   *)
(* file of RESERVE and RELEASE rows under flock.  The pool keeps no state  *)
(* of its own; each call takes the lock, replays the file and appends.     *)
(* Replay skips the lines that do not parse.                               *)
(***************************************************************************)
EXTENDS CapitalDeclaration, LineLog

CONSTANTS
    CompactAfter,   \* COMPACT_AFTER_ROWS
    NoBot           \* nobody holds the lock

ASSUME PoolAssumption == CompactAfter \in Nat /\ NoBot \notin Bots

VARIABLES
    poolLog,         \* the lines of the file
    unended,        \* the last line has no newline
    holder,         \* the bot inside the lock for more than one step
    buffer          \* the rows that bot still has to write

poolVars == <<poolLog, unended, holder, buffer>>

ReserveRow(k, m) == [event |-> "RESERVE", key |-> k, margin |-> m]
ReleaseRow(k) == [event |-> "RELEASE", key |-> k, margin |-> 0]

Row == [event : {"RESERVE", "RELEASE"}, key : Keys, margin : 0..MaxUsdt]

PoolTypeOK ==
    /\ poolLog \in Seq(Row \union {Torn})
    /\ unended \in BOOLEAN
    /\ unended => poolLog # <<>>
    /\ holder \in Bots \union {NoBot}
    /\ buffer \in Seq(Row)

(* A key is held at the margin of the last row about it, which is 0 for a  *)
(* RELEASE.                                                                *)
About(l, k) == {i \in DOMAIN l : l[i].event # "TORN" /\ l[i].key = k}

Replay(l) ==
    [k \in Keys |-> IF About(l, k) = {} THEN 0 ELSE l[Last(About(l, k))].margin]

LiveKeys(l) == {k \in Keys : Replay(l)[k] > 0}
LiveRows(l) == {Last(About(l, k)) : k \in LiveKeys(l)}

(* rows() counts what parses.                                              *)
Parsed(l) == Cardinality({i \in DOMAIN l : l[i].event # "TORN"})

(* The rows at the indices in I, in their order.                           *)
InOrder(l, I) ==
    [n \in 1..Cardinality(I) |->
        l[CHOOSE i \in I : Cardinality({j \in I : j < i}) = n - 1]]

\* Mutant of Compacted: off by one, the oldest reservation is left out.
CompactedDropsFirst(l) == InOrder(l, {i \in LiveRows(l) : \E j \in LiveRows(l) : j < i})

Compacted(l) == InOrder(l, LiveRows(l))

\* Mutant of Refusal: headroom computed from the bot's own view.
RefusalByOwnView(b, s, d) ==
    LET r == Replay(poolLog) IN
    \/ r[<<b, s>>] > 0
    \/ d.most < d.least
    \/ HeldBy(r, b) + d.most > d.portfolio
    \/ HeldBy(r, b) + d.most > d.cap

(* reserve refuses: ALREADY_RESERVED, BELOW_MIN_MARGIN, POOL_EXHAUSTED,    *)
(* BOT_CAP_REACHED.                                                        *)
Refusal(b, s, d) ==
    LET r == Replay(poolLog) IN
    \/ r[<<b, s>>] > 0
    \/ d.most < d.least
    \/ Held(r) + d.most > d.portfolio
    \/ HeldBy(r, b) + d.most > d.cap

LockIsFree == holder = NoBot

Write(row) ==
    /\ poolLog' = Put(poolLog, unended, row)
    /\ unended' = FALSE

(* reserve, granted.  Past COMPACT_AFTER_ROWS the file is truncated and    *)
(* its live rows written again before the lock is given up.                *)
Reserve(b, s, d) ==
    LET after == Put(poolLog, unended, ReserveRow(<<b, s>>, d.most)) IN
    IF Parsed(poolLog) + 1 >= CompactAfter
    THEN /\ poolLog' = <<>>
         /\ unended' = FALSE
         /\ holder' = b
         /\ buffer' = Compacted(after)
    ELSE /\ poolLog' = after
         /\ unended' = FALSE
         /\ UNCHANGED <<holder, buffer>>

\* Mutant of Release: the margin is released only if it is not reserved.
ReleaseUnreserved(k) ==
    IF k \notin LiveKeys(poolLog)
    THEN Write(ReleaseRow(k)) /\ UNCHANGED <<holder, buffer>>
    ELSE UNCHANGED poolVars

(* release: nothing is written for a key that is not reserved.             *)
Release(k) ==
    IF k \in LiveKeys(poolLog)
    THEN Write(ReleaseRow(k)) /\ UNCHANGED <<holder, buffer>>
    ELSE UNCHANGED poolVars

\* Mutant of OrphanRows: the sweep is not limited to the bot's own rows.
OrphanRowsOfAll(b, open) ==
    {i \in LiveRows(poolLog) : poolLog[i].key[2] \notin open}

(* reclaim_orphans: the rows to write are decided on one replay.           *)
OrphanRows(b, open) ==
    {i \in LiveRows(poolLog) : poolLog[i].key[1] = b /\ poolLog[i].key[2] \notin open}

StartReclaim(b, open) ==
    LET rows == InOrder(poolLog, OrphanRows(b, open)) IN
    /\ holder' = b
    /\ buffer' = [n \in DOMAIN rows |-> ReleaseRow(rows[n].key)]
    /\ UNCHANGED <<poolLog, unended>>

(* The lock holder writes the next of its rows.                            *)
WriteNext ==
    /\ buffer # <<>>
    /\ Write(Head(buffer))
    /\ buffer' = Tail(buffer)
    /\ UNCHANGED holder

GiveUpLock ==
    /\ buffer = <<>>
    /\ holder' = NoBot
    /\ UNCHANGED <<poolLog, unended, buffer>>

(* The kernel drops the lock of a process that dies, and the rows it had   *)
(* not written are gone with it.                                           *)
DieInLock(b) ==
    /\ holder' = IF holder = b THEN NoBot ELSE holder
    /\ buffer' = IF holder = b THEN <<>> ELSE buffer

(* A kill inside the write of a row.                                       *)
TornWrite(row) ==
    /\ \E left \in PartOf(row) : poolLog' = Put(poolLog, unended, left)
    /\ unended' = TRUE
=============================================================================
