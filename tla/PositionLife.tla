----------------------------- MODULE PositionLife -----------------------------
(***************************************************************************)
(* The life of a position of a segment bot, for one symbol: chosen by the  *)
(* brains, opened, watched and closed by the tail that opened it, and      *)
(* learned from (segment/live_engine.py, segment/profit_tail.py).  Models  *)
(* are promoted while it is open and the bot takes them over; the bot is   *)
(* killed between any two writes and takes its position up again from the  *)
(* fills journal.  What the pool and the gate do is in SegmentBots.        *)
(***************************************************************************)
EXTENDS Brains

CONSTANTS
    Desks,          \* the segments that are played
    Views,          \* what the rule brains may see of a frame
    RawScores,      \* the scores a model may give a frame, or Nothing
    Forecasts,      \* the quantiles a tail model may give, or Nothing
    Seeds,          \* the held-out scores that come with each version of the model
    RatchetTrigger, GiveBack, HardStop, MaxHold,
    TopPrice,       \* bound: the highest price
    LastPoll,       \* bound: polls
    MaxBotKills     \* bound: how often the bot is killed

ASSUME LifeAssumption ==
    /\ {RatchetTrigger, GiveBack, HardStop, MaxHold, TopPrice, LastPoll, MaxBotKills}
           \subseteq Nat
    /\ GiveBack < RatchetTrigger /\ RatchetTrigger < TakeProfit
    /\ HardStop > 0 /\ MaxHold > 0
    /\ Seeds \in Seq(Seq(0..Certain))

VARIABLES
    desk,           \* the segment that is played
    bid,            \* what the symbol can be sold for, Spread more to buy it; 0 if unseen
    poll,           \* polls so far
    step,           \* where the bot is in its poll
    framed,         \* whether the poll had a frame of the symbol
    registered,     \* the version the champion alias names, 0 when there is none
    bot,            \* the version that decides, 0 for the rules
    tail,           \* the version of the tail that opened the position, if it is known
    trade,          \* the position in memory
    openedScore,    \* the score that the open position was decided on, if any
    cal, calFile,   \* the calibration in use, and on disk
    openRow,            \* the OPEN row in the fills that no CLOSE follows
    deal,           \* auxiliary: the close that is not in the journal yet
    botKills

botVars == <<bot, tail, trade, openedScore, cal>>
lifeVars == <<desk, bid, poll, step, framed, registered, botVars, calFile, openRow, deal, botKills>>

Versions == 0..Len(Seeds)
NoTrade == [side |-> "none"]
NoDealYet == [side |-> "none"]

LifeTypeOK ==
    /\ desk \in Desks /\ bid \in 0..TopPrice /\ poll \in 0..LastPoll
    /\ step \in {"idle", "manage", "consider", "opening", "closing", "down"}
    /\ framed \in BOOLEAN
    /\ {registered, bot} \subseteq Versions /\ tail \in Versions \union {Nothing}
    /\ trade.side \in {"none", "LONG", "SHORT"} /\ openRow.side \in {"none", "LONG", "SHORT"}
    /\ openedScore \in RawScores \union {Nothing}
    /\ Len(cal.scores) <= ScoreWindow /\ Len(calFile.scores) <= ScoreWindow
    /\ botKills \in 0..MaxBotKills

LifeInit ==
    /\ desk \in Desks /\ bid = 0 /\ poll = 0
    /\ step = "idle" /\ framed = FALSE
    /\ registered = 0 /\ bot = 0 /\ tail = Nothing
    /\ trade = NoTrade /\ openedScore = Nothing /\ openRow = NoTrade
    /\ cal = Uncalibrated /\ calFile = Uncalibrated
    /\ deal = NoDealYet /\ botKills = 0

-----------------------------------------------------------------------------
(* Signed move in the favour of a position of the side, from its entry, to *)
(* the side of the book that it would leave by.                            *)
Excursion(side, entry) ==
    IF side = "LONG" THEN bid - entry ELSE entry - (bid + Spread)

(* Where the stop is: the declared distance, or three spreads.             *)
StopDistance == Largest(HardStop, 3 * Spread)

SampledUnlessClosed(t) ==
    LET e == IF Excursion(t.side, t.entry) <= -t.stop THEN 0 ELSE Excursion(t.side, t.entry)
    IN  [t EXCEPT !.best = IF @ = Nothing THEN Largest(e, 0) ELSE Largest(@, e),
                  !.worst = IF @ = Nothing THEN Largest(-e, 0) ELSE Largest(@, -e)]

(* The marks that a position has seen, the one of this poll included.      *)
Sampled(t) ==
    LET e == Excursion(t.side, t.entry)
        best == Largest(e, 0)
        worst == Largest(-e, 0)
    IN  [t EXCEPT !.best = IF @ = Nothing THEN best ELSE Largest(@, best),
                  !.worst = IF @ = Nothing THEN worst ELSE Largest(@, worst)]

(* manage: what the tail wants done, and the lock that it moves.           *)
Candidate(t) == Excursion(t.side, t.entry) - GiveBack
LockAtMark(t) == Candidate(t)
LockAfter(t) == IF t.lock = Nothing THEN Candidate(t) ELSE Largest(Candidate(t), t.lock)

Directive(t) ==
    LET e == Excursion(t.side, t.entry)
    IN  CASE e <= -t.stop -> "CLOSE"
          [] e > -t.stop /\ poll - t.since >= MaxHold -> "CLOSE"
          [] e > -t.stop /\ poll - t.since < MaxHold /\ e >= TakeProfit -> "CLOSE"
          [] OTHER ->
               IF e >= RatchetTrigger THEN "RATCHET_LOCK"
               ELSE IF t.lock # Nothing /\ e <= t.lock THEN "CLOSE" ELSE "HOLD"

-----------------------------------------------------------------------------
(* What a version of the model starts from: the saved calibration, or the  *)
(* held-out scores of the model where nothing was learned yet.             *)
SeededAnew(v) == [calFile EXCEPT !.scores = Recent(Seeds[v])]
Loaded(v) ==
    IF calFile.scores # <<>> THEN calFile ELSE [calFile EXCEPT !.scores = Recent(Seeds[v])]

(* The alias is read between polls and at the start, and nowhere else.     *)
Promote ==
    /\ step \in {"idle", "down"} /\ registered < Len(Seeds)
    /\ registered' = registered + 1
    /\ UNCHANGED <<desk, bid, poll, step, framed, botVars, calFile, openRow, deal, botKills>>

(* A new champion is taken over between polls, or refused; open positions  *)
(* keep their tail.                                                        *)
Adopts ==
    \/ UNCHANGED <<bot, cal>>
    \/ /\ registered # 0 /\ registered # bot
       /\ bot' = registered /\ cal' = Loaded(registered)

StartPoll ==
    /\ step = "idle" /\ poll < LastPoll
    /\ poll' = poll + 1
    /\ \/ framed' = FALSE /\ step' = "idle" /\ bid' = 0
       \/ framed' = TRUE /\ step' = "manage" /\ bid' \in 0..TopPrice
    /\ Adopts
    /\ UNCHANGED <<desk, registered, tail, trade, openedScore, calFile, openRow, deal, botKills>>

NothingOpen ==
    /\ step = "manage" /\ trade = NoTrade
    /\ step' = "consider"
    /\ UNCHANGED <<desk, bid, poll, framed, registered, botVars, calFile, openRow, deal, botKills>>

Hold ==
    /\ step = "manage" /\ trade # NoTrade
    /\ LET t == Sampled(trade)
       IN  \/ Directive(t) = "HOLD" /\ trade' = t
           \/ Directive(t) = "RATCHET_LOCK" /\ trade' = [t EXCEPT !.lock = LockAfter(t)]
    /\ step' = "idle"
    /\ UNCHANGED <<desk, bid, poll, framed, registered, bot, tail, openedScore, cal, calFile,
                   openRow, deal, botKills>>

(* The label of the model: did a long pay.  A short that did not pay is    *)
(* taken for a long that did.                                              *)
TradePaid(side, gross) == IF gross > 0 THEN 1 ELSE 0
LongPaid(side, gross) == IF (gross > 0) = (side = "LONG") THEN 1 ELSE 0

(* _close learns, saves, forgets the position and releases its margin; the *)
(* CLOSE row is written last.  A calibration that cannot be saved stays in *)
(* memory.                                                                 *)
ClosingTail == IF tail = Nothing THEN bot ELSE tail

Close ==
    /\ step = "manage" /\ trade # NoTrade
    /\ LET t == Sampled(trade)
           gross == Excursion(t.side, t.entry)
           learns == bot # 0 /\ openedScore # Nothing
           taught == Observed(cal, openedScore, LongPaid(t.side, gross))
       IN  /\ Directive(t) = "CLOSE"
           /\ cal' = IF learns THEN taught ELSE cal
           /\ IF learns THEN calFile' \in {calFile, taught} ELSE UNCHANGED calFile
           /\ deal' = [side |-> t.side, gross |-> gross, best |-> t.best, worst |-> t.worst,
                       opener |-> t.opener, closer |-> ClosingTail, recovered |-> t.recovered,
                       learned |-> learns, outcome |-> LongPaid(t.side, gross),
                       score |-> openedScore, moved |-> bid - t.from]
    /\ trade' = NoTrade /\ tail' = Nothing /\ openedScore' = Nothing
    /\ step' = "closing"
    /\ UNCHANGED <<desk, bid, poll, framed, registered, bot, openRow, botKills>>

JournalClose ==
    /\ step = "closing"
    /\ openRow' = NoTrade /\ deal' = NoDealYet
    /\ step' = "consider"
    /\ UNCHANGED <<desk, bid, poll, framed, registered, botVars, calFile, botKills>>

(* The brains, the advice, the arbiter; the entry is immediate, because a  *)
(* frame always has both sides.  The budget or the gate may refuse it.     *)
Wanted(v, score, forecast) ==
    Selected(desk,
             IF bot = 0 THEN RuleBull(desk, v) ELSE LearnedBull(cal, score),
             IF bot = 0 THEN RuleBear(desk, v) ELSE LearnedBear(cal, score),
             Advice(v, score, forecast))
Scores == IF bot = 0 THEN {Nothing} ELSE RawScores
Chosen(score) == {Wanted(v, score, f) : v \in Views, f \in Forecasts} \ {"ABSTAIN"}

Decline ==
    /\ step = "consider"
    /\ step' = "idle"
    /\ UNCHANGED <<desk, bid, poll, framed, registered, botVars, calFile, openRow, deal, botKills>>

Open ==
    /\ step = "consider"
    /\ \E score \in Scores : \E side \in Chosen(score) :
        /\ trade' = [side |-> side, entry |-> IF side = "LONG" THEN bid + Spread ELSE bid,
                     since |-> poll, stop |-> StopDistance, lock |-> Nothing,
                     best |-> Nothing, worst |-> Nothing, recovered |-> FALSE,
                     opener |-> bot, from |-> bid]
        /\ openedScore' = score
    /\ tail' = bot
    /\ step' = "opening"
    /\ UNCHANGED <<desk, bid, poll, framed, registered, bot, cal, calFile, openRow, deal, botKills>>

JournalOpen ==
    /\ step = "opening"
    /\ openRow' = trade
    /\ step' = "idle"
    /\ UNCHANGED <<desk, bid, poll, framed, registered, botVars, calFile, deal, botKills>>

-----------------------------------------------------------------------------
KillBot ==
    /\ step # "down" /\ botKills < MaxBotKills
    /\ botKills' = botKills + 1
    /\ step' = "down" /\ framed' = FALSE /\ bid' = 0
    /\ bot' = 0 /\ tail' = Nothing /\ trade' = NoTrade /\ openedScore' = Nothing
    /\ cal' = Uncalibrated /\ deal' = NoDealYet
    /\ UNCHANGED <<desk, poll, registered, calFile, openRow>>

(* recover_open_positions: the entry, its time and the stop come back from *)
(* the OPEN row; the lock, the peaks and the score are gone.               *)
RecoveredAsNew ==
    IF openRow = NoTrade THEN NoTrade ELSE [openRow EXCEPT !.recovered = TRUE, !.since = poll]
Recovered == IF openRow = NoTrade THEN NoTrade ELSE [openRow EXCEPT !.recovered = TRUE]

StartBot ==
    /\ step = "down"
    /\ step' = "idle"
    /\ trade' = Recovered
    /\ \/ bot' = 0 /\ UNCHANGED cal
       \/ registered # 0 /\ bot' = registered /\ cal' = Loaded(registered)
    /\ UNCHANGED <<desk, bid, poll, framed, registered, tail, openedScore, calFile, openRow, deal,
                   botKills>>

LifeNext ==
    \/ Promote \/ StartPoll \/ NothingOpen \/ Hold \/ Close \/ JournalClose
    \/ Decline \/ Open \/ JournalOpen \/ KillBot \/ StartBot

-----------------------------------------------------------------------------
(* After a poll that saw the symbol, no position stays open past the stop, *)
(* the time or the target of its OPEN row, whatever model decides by then  *)
(* and however often the bot was restarted; the lock is what the best mark *)
(* of this process left, and a position past its lock stays open only above*)
(* the trigger.                                                            *)
ExitsAreKept ==
    step = "idle" /\ framed /\ trade # NoTrade =>
        /\ Excursion(openRow.side, openRow.entry) > -openRow.stop
        /\ Excursion(openRow.side, openRow.entry) < TakeProfit
        /\ poll - openRow.since < MaxHold
        /\ trade.best # Nothing /\ trade.best >= RatchetTrigger =>
               trade.lock = trade.best - GiveBack
        /\ trade.lock # Nothing /\ Excursion(openRow.side, openRow.entry) <= trade.lock =>
               Excursion(openRow.side, openRow.entry) >= RatchetTrigger

(* The record of a closed trade is true: its peaks bracket its result, the *)
(* tail that opened it closed it unless the bot was restarted, and what the*)
(* bot learned of it is where the market went, give or take the spread.    *)
DealsAreTrue ==
    deal # NoDealYet =>
        /\ deal.gross <= deal.best /\ -deal.gross <= deal.worst
        /\ ~deal.recovered => deal.closer = deal.opener
        /\ deal.learned =>
               IF deal.outcome = 1 THEN deal.moved >= -Spread ELSE deal.moved <= Spread

(* What the bot has learned and saved is what it decides by, or less than  *)
(* it decides by; a new model does not wipe it out.                        *)
LessonsAreKept ==
    bot # 0 =>
        /\ cal.updates >= calFile.updates
        /\ cal.updates = calFile.updates /\ calFile.updates > 0 => cal = calFile

TradesAreAccountedFor == ExitsAreKept /\ DealsAreTrue /\ LessonsAreKept

(* A bot that was wrong abstains at least where it abstained before.       *)
ErrorsMakeItCautious ==
    [][cal'.updates = cal.updates + 1 /\ ~Right(deal'.score, deal'.outcome) /\ Established(cal)
       => \A p \in 0..Certain : Abstains(cal, p) => Abstains(cal', p)]_lifeVars

LifeSpec == LifeInit /\ [][LifeNext]_lifeVars
=============================================================================
