---------------------------- MODULE SegmentBots -----------------------------
(***************************************************************************)
(* The segment bots (live_engine.py): independent processes that open and  *)
(* close positions out of one declared budget.  A bot holds its positions  *)
(* in memory, journals every OPEN and CLOSE, reserves margin before it     *)
(* opens and releases it when it closes; its supervisor starts it again    *)
(* whenever it dies, and it then rebuilds its positions from the journal   *)
(* and sweeps the reservations no position matches.                        *)
(*                                                                         *)
(* What the brains, the timing and the feed decide is a free choice.       *)
(* Faults: "kill" ends a bot between two writes, "torn" inside the write   *)
(* of a ledger row, and "compaction" lets either fall inside a compaction; *)
(* "spread" is a book too wide for the gate.  A row of the fills journal   *)
(* is written whole or not at all.                                         *)
(***************************************************************************)
EXTENDS CapitalPool

CONSTANTS
    BotFaults,      \* a subset of {"kill", "torn", "compaction", "spread"}
    MaxOpenPositions,   \* bot.max_open_positions
    MaxKills,       \* bound: kills
    NoDeclaration,  \* no entry has been sized
    NoSymbol        \* no entry or close is in progress

ASSUME BotsAssumption ==
    /\ BotFaults \subseteq {"kill", "torn", "compaction", "spread"}
    /\ MaxOpenPositions \in Nat /\ MaxKills \in Nat
    /\ NoDeclaration \notin Declarations /\ NoSymbol \notin Symbols

VARIABLES
    declared,       \* capital.json
    botAt,          \* where each bot is
    positions,      \* the margin of each open position in a bot's memory, or 0
    journal,        \* the positions a replay of the bot's fills would find
    what,           \* the symbol of the entry or close in progress
    using,          \* the declaration an entry is sized by
    refusals,       \* auxiliary: keys the gate refused since the bot started
    damaged,        \* auxiliary: the ledger has lost rows
    kills           \* kills so far

memory == <<botAt, positions, what, using, refusals>>
botsVars == <<poolVars, declared, memory, journal, damaged, kills>>

BotPlaces == {"down", "recovered", "reclaiming", "polling", "released",
           "sized", "compacting", "reserved"}

BotsTypeOK ==
    /\ PoolTypeOK
    /\ declared \in Declarations
    /\ botAt \in [Bots -> BotPlaces]
    /\ positions \in [Bots -> [Symbols -> 0..MaxUsdt]]
    /\ journal \in [Bots -> [Symbols -> 0..MaxUsdt]]
    /\ what \in [Bots -> Symbols \union {NoSymbol}]
    /\ using \in [Bots -> Declarations \union {NoDeclaration}]
    /\ refusals \in [Bots -> SUBSET Symbols]
    /\ damaged \in BOOLEAN
    /\ kills \in 0..MaxKills

Open(b) == {s \in Symbols : positions[b][s] > 0}
Reserved(b) == {s \in Universe[b] : <<b, s>> \in LiveKeys(poolLog)}

Goes(b, place) == botAt' = [botAt EXCEPT ![b] = place]

BotsInit ==
    /\ poolLog = <<>> /\ unended = FALSE /\ holder = NoBot /\ buffer = <<>>
    /\ declared \in Declarations
    /\ botAt = [b \in Bots |-> "down"]
    /\ positions = [b \in Bots |-> [s \in Symbols |-> 0]]
    /\ journal = positions
    /\ what = [b \in Bots |-> NoSymbol]
    /\ using = [b \in Bots |-> NoDeclaration]
    /\ refusals = [b \in Bots |-> {}]
    /\ damaged = FALSE
    /\ kills = 0

-----------------------------------------------------------------------------
(* Starting.                                                               *)

\* Mutant of Recover: positions are sized again by today's declaration.
RecoverResized(b) ==
    /\ botAt[b] = "down"
    /\ Goes(b, "recovered")
    /\ positions' = [positions EXCEPT ![b] =
                        [s \in Symbols |-> IF journal[b][s] > 0 THEN declared.most ELSE 0]]
    /\ UNCHANGED <<poolVars, declared, journal, what, using, refusals, damaged, kills>>

Recover(b) ==
    /\ botAt[b] = "down"
    /\ Goes(b, "recovered")
    /\ positions' = [positions EXCEPT ![b] = journal[b]]
    /\ UNCHANGED <<poolVars, declared, journal, what, using, refusals, damaged, kills>>

\* Mutant of SweepOrphans: without a recovered position there is no sweep.
SweepOrphansIfRecovered(b) ==
    /\ botAt[b] = "recovered"
    /\ LockIsFree
    /\ IF Open(b) = {}
       THEN Goes(b, "polling") /\ UNCHANGED poolVars
       ELSE StartReclaim(b, Open(b)) /\ Goes(b, "reclaiming")
    /\ UNCHANGED <<declared, positions, journal, what, using, refusals, damaged, kills>>

SweepOrphans(b) ==
    /\ botAt[b] = "recovered"
    /\ LockIsFree
    /\ StartReclaim(b, Open(b))
    /\ Goes(b, "reclaiming")
    /\ UNCHANGED <<declared, positions, journal, what, using, refusals, damaged, kills>>

WriteUnderLock(b) ==
    /\ holder = b
    /\ WriteNext
    /\ UNCHANGED <<declared, memory, journal, damaged, kills>>

LeaveLock(b) ==
    /\ holder = b
    /\ GiveUpLock
    /\ Goes(b, IF botAt[b] = "reclaiming" THEN "polling" ELSE "reserved")
    /\ UNCHANGED <<declared, positions, journal, what, using, refusals, damaged, kills>>

-----------------------------------------------------------------------------
(* Polling.  A poll closes what is to be closed and then considers         *)
(* entries; both may be none, so closes and entries come in any order.     *)

(* _close forgets the position and releases its margin, ...                *)
CloseAndRelease(b, s) ==
    /\ botAt[b] = "polling"
    /\ s \in Open(b)
    /\ LockIsFree
    /\ Release(<<b, s>>)
    /\ positions' = [positions EXCEPT ![b][s] = 0]
    /\ what' = [what EXCEPT ![b] = s]
    /\ Goes(b, "released")
    /\ UNCHANGED <<declared, journal, using, refusals, damaged, kills>>

(* ... and only then journals the CLOSE.                                   *)
JournalClose(b) ==
    /\ botAt[b] = "released"
    /\ journal' = [journal EXCEPT ![b][what[b]] = 0]
    /\ what' = [what EXCEPT ![b] = NoSymbol]
    /\ Goes(b, "polling")
    /\ UNCHANGED <<poolVars, declared, positions, using, refusals, damaged, kills>>

(* _size_entry reads the declaration.  Without one, a rate or a leverage   *)
(* it refuses the entry, and nothing has changed.                          *)
Size(b, s) ==
    /\ botAt[b] = "polling"
    /\ s \notin Open(b)
    /\ using' = [using EXCEPT ![b] = declared]
    /\ what' = [what EXCEPT ![b] = s]
    /\ Goes(b, "sized")
    /\ UNCHANGED <<poolVars, declared, positions, journal, refusals, damaged, kills>>

ReserveMargin(b) ==
    /\ botAt[b] = "sized"
    /\ LockIsFree
    /\ ~Refusal(b, what[b], using[b])
    /\ Reserve(b, what[b], using[b])
    /\ Goes(b, IF holder' = b THEN "compacting" ELSE "reserved")
    /\ UNCHANGED <<declared, positions, journal, what, using, refusals, damaged, kills>>

EntryEnds(b) ==
    /\ what' = [what EXCEPT ![b] = NoSymbol]
    /\ using' = [using EXCEPT ![b] = NoDeclaration]
    /\ Goes(b, "polling")
    /\ UNCHANGED <<poolVars, declared, damaged, kills>>

CapitalRefused(b) ==
    /\ botAt[b] = "sized"
    /\ LockIsFree
    /\ Refusal(b, what[b], using[b])
    /\ EntryEnds(b)
    /\ UNCHANGED <<positions, journal, refusals>>

(* _risk_gate refuses on the spread or at max_open_positions, and _open    *)
(* returns with the margin still reserved.                                 *)
GateRefuses(b) ==
    /\ botAt[b] = "reserved"
    /\ "spread" \in BotFaults \/ Cardinality(Open(b)) >= MaxOpenPositions
    /\ EntryEnds(b)
    /\ refusals' = [refusals EXCEPT ![b] = @ \union {what[b]}]
    /\ UNCHANGED <<positions, journal>>

OpenPosition(b) ==
    /\ botAt[b] = "reserved"
    /\ Cardinality(Open(b)) < MaxOpenPositions
    /\ EntryEnds(b)
    /\ positions' = [positions EXCEPT ![b][what[b]] = using[b].most]
    /\ journal' = [journal EXCEPT ![b][what[b]] = using[b].most]
    /\ UNCHANGED refusals

-----------------------------------------------------------------------------
(* The operator and the faults.                                            *)

EditDeclaration ==
    /\ declared' \in Declarations \ {declared}
    /\ UNCHANGED <<poolVars, memory, journal, damaged, kills>>

Die(b) ==
    /\ kills < MaxKills
    /\ kills' = kills + 1
    /\ Goes(b, "down")
    /\ positions' = [positions EXCEPT ![b] = [s \in Symbols |-> 0]]
    /\ what' = [what EXCEPT ![b] = NoSymbol]
    /\ using' = [using EXCEPT ![b] = NoDeclaration]
    /\ refusals' = [refusals EXCEPT ![b] = {}]
    /\ DieInLock(b)
    /\ UNCHANGED <<declared, journal>>

MidCompaction(b) == botAt[b] = "compacting" /\ buffer # <<>>

KillBot(b) ==
    /\ "kill" \in BotFaults
    /\ botAt[b] # "down"
    /\ MidCompaction(b) => "compaction" \in BotFaults
    /\ Die(b)
    /\ damaged' = (damaged \/ MidCompaction(b))
    /\ UNCHANGED <<poolLog, unended>>

(* The rows a bot may be in the middle of writing.                         *)
Writing(b) ==
    IF holder = b THEN {buffer[i] : i \in DOMAIN buffer \intersect {1}}
    ELSE IF ~LockIsFree THEN {}
    ELSE {ReserveRow(<<b, what[b]>>, using[b].most) :
             x \in {y \in {b} : botAt[y] = "sized" /\ ~Refusal(y, what[y], using[y])}}
         \union {ReleaseRow(<<b, s>>) :
             s \in {t \in Open(b) \intersect Reserved(b) : botAt[b] = "polling"}}

KillInWrite(b) ==
    /\ "torn" \in BotFaults
    /\ MidCompaction(b) => "compaction" \in BotFaults
    /\ \E row \in Writing(b) : TornWrite(row)
    /\ Die(b)
    /\ damaged' = TRUE

-----------------------------------------------------------------------------

InLock(b) == WriteUnderLock(b) \/ LeaveLock(b)

BotsNext ==
    \/ \E b \in Bots :
          \/ Recover(b) \/ SweepOrphans(b) \/ WriteUnderLock(b) \/ LeaveLock(b)
          \/ \E s \in Universe[b] : CloseAndRelease(b, s) \/ Size(b, s)
          \/ JournalClose(b) \/ ReserveMargin(b) \/ CapitalRefused(b)
          \/ GateRefuses(b) \/ OpenPosition(b)
          \/ KillBot(b) \/ KillInWrite(b)
    \/ EditDeclaration

(* The supervisor restarts a bot for ever, a process runs on until it is   *)
(* killed, and a bot that waits for the lock gets it: the others hold it   *)
(* for microseconds of a poll of seconds.                                  *)
BotsFairness ==
    \A b \in Bots :
        WF_botsVars(Recover(b)) /\ SF_botsVars(SweepOrphans(b)) /\ WF_botsVars(InLock(b))

BotsSpec == BotsInit /\ [][BotsNext]_botsVars /\ BotsFairness

-----------------------------------------------------------------------------
(* Properties.                                                             *)

(* What a reader that waits for the lock will find once the rows of a      *)
(* compaction are written.                                                 *)
Reservations ==
    IF holder # NoBot /\ botAt[holder] = "compacting"
    THEN Replay(poolLog \o buffer)
    ELSE Replay(poolLog)

(* The margin reserved by all bots together fits a declared portfolio, and *)
(* each bot's fits its cap, whatever was killed, torn or edited: the check *)
(* against the ledger inside the lock cannot be raced past.                *)
HeldFits == LET held == Reservations IN held # [k \in Keys |-> 0] => Fits(held)

(* The pool is the budget it claims to be: a bot's margin appears only by  *)
(* a grant that fits and goes only when given back, compactions included.  *)
PoolBudget == INSTANCE Budget WITH reserved <- Reservations
PoolIsABudget == PoolBudget!Spec

(* Of a bot that is polling, every reservation belongs to an open position,*)
(* to the entry in progress, or to an entry the gate refused: nothing else *)
(* leaks margin, in any order of kills, restarts and edits.                *)
HeldIsAccounted ==
    damaged \/ \A b \in Bots :
        botAt[b] \notin {"down", "recovered", "reclaiming"} =>
            \A s \in Universe[b] : Reservations[<<b, s>>] > 0 =>
                s \in Open(b) \union {what[b]} \union refusals[b]

(* Both: what is reserved fits, and all of it is accounted for.            *)
MarginsAreAccounted == HeldFits /\ HeldIsAccounted

(* Outside a close or an entry in progress, a restart would recover the    *)
(* positions the bot holds, each with the margin it was opened with, and   *)
(* not what today's declaration says.                                      *)
JournalIsMemory ==
    \A b \in Bots : \A s \in Universe[b] :
        botAt[b] # "down" /\ ~(botAt[b] = "released" /\ what[b] = s) =>
            positions[b][s] = journal[b][s]

(* A position that is funded stays funded as long as the journal has it,   *)
(* except while its own close is under way: no sweep, no compaction and no *)
(* other bot takes its margin.                                             *)
Funded(b, s) == journal[b][s] > 0 /\ Reservations[<<b, s>>] = journal[b][s]
FundingIsKept ==
    [][\A b \in Bots : \A s \in Universe[b] :
          Funded(b, s) /\ journal'[b][s] > 0 =>
              \/ Funded(b, s)'
              \/ botAt[b] = "polling" /\ what'[b] = s
              \/ damaged']_botsVars

(* The sweep at start-up: the margin of a bot that died is not lost to the *)
(* pool.  A reservation of a dead bot that no journalled position matches  *)
(* is released in the end.                                                 *)
Orphan(b, s) == botAt[b] = "down" /\ journal[b][s] = 0 /\ Reservations[<<b, s>>] > 0
OrphansAreReclaimed ==
    \A b \in Bots : \A s \in Universe[b] :
        Orphan(b, s) ~> (Reservations[<<b, s>>] = 0 \/ damaged)

(* Pool headroom is the portfolio less the margin open across both bots:   *)
(* what a polling bot has reserved backs a position or the entry in        *)
(* progress.                                                               *)
HeldIsBacked ==
    \A b \in Bots : \A s \in Universe[b] :
        botAt[b] = "polling" /\ s \in Reserved(b) => s \in Open(b)

(* No trade is held that the pool does not fund.                           *)
PositionsAreFunded ==
    \A b \in Bots : \A s \in Universe[b] :
        botAt[b] = "polling" /\ s \in Open(b) => s \in Reserved(b)
=============================================================================
