------------------------------ MODULE ExitRails ------------------------------
(***************************************************************************)
(* The position of the paper engine in one instrument, and the rails that  *)
(* close it: a hard stop, a target, a lock that trails the best price, and *)
(* a last bar.  For each bar the engine folds the fills in, shows the bar  *)
(* to the exit manager, and asks it for an exit; the manager walks the bars*)
(* since the entry through the policy from the start.  Distances are       *)
(* multiples of the average true range before the entry.                   *)
(*                                                                         *)
(* Prices are mirrored for a short, so that up is always for the position, *)
(* and scaled by the denominators of the average entry and of the average  *)
(* range.  The tape never feeds a bar without a price or a volume, so no   *)
(* bar is corrupt here; that an exit was judged over a missing minute is   *)
(* only written down, and left out.                                        *)
(***************************************************************************)
EXTENDS Integers, Sequences, FiniteSetsExt
Rows == INSTANCE SequencesExt      \* Last is one of LineLog too

CONSTANTS
    RailBars,           \* the bars that may come: [high, low, close]
    HardStopAtr, TargetAtr, TrailAtr, RatchetAtr, ArmAtr,   \* ExitPolicy
    MaxHoldingBars, AtrPeriod,
    LastBarTime,        \* bound: of the tape
    MaxLots,            \* bound: lots held and bought
    MaxEngineStops      \* bound: restarts of the engine

ASSUME RailsAssumption ==
    /\ {HardStopAtr, TargetAtr, TrailAtr, RatchetAtr, ArmAtr, LastBarTime, MaxEngineStops} \subseteq Nat
    /\ {MaxHoldingBars, AtrPeriod, MaxLots} \subseteq Nat \ {0}

VARIABLES
    barTime,        \* the time of the newest bar of the tape
    warmup,         \* the last AtrPeriod + 1 bars seen
    place,          \* the position, or NoPlace
    resting,        \* the market orders at the broker, the oldest first
    followed,       \* history: what a follower of each bar would have seen
    engineStops

railVars == <<barTime, warmup, place, resting, followed, engineStops>>

Unknown == -1

(* The average entry is cost / lots.                                       *)
NoPlace == [side |-> "LONG", quantity |-> 0, cost |-> 0, lots |-> 1, atr |-> Unknown, path |-> <<>>,
            pendingExit |-> FALSE, beforeRails |-> 0]

(* Of the position: whether its rails were there from the first bar and its*)
(* entry never moved; the lock, the best price and the bars so far; whether*)
(* a rail was touched.                                                     *)
NoFollower == [exact |-> FALSE, lock |-> Unknown, locked |-> FALSE, best |-> 0, bars |-> 0,
               touched |-> FALSE]

RailsTypeOK ==
    /\ barTime \in 0 .. LastBarTime
    /\ warmup \in Seq(RailBars) /\ Len(warmup) <= AtrPeriod + 1
    /\ place.side \in {"LONG", "SHORT"} /\ place.quantity \in 0 .. MaxLots
    /\ place.path \in Seq(RailBars) /\ Len(place.path) <= MaxHoldingBars
    /\ place.cost \in Nat /\ place.lots \in Nat \ {0} /\ place.pendingExit \in BOOLEAN
    /\ place.atr \in Nat \union {Unknown} /\ place.beforeRails \in Nat
    /\ resting \in Seq([buys : BOOLEAN, lots : 1 .. MaxLots])
    /\ engineStops \in 0 .. MaxEngineStops

RailsInit ==
    /\ barTime = 0 /\ warmup = <<>> /\ place = NoPlace /\ resting = <<>>
    /\ followed = NoFollower /\ engineStops = 0

-----------------------------------------------------------------------------
(* deterministic_exit.py.                                                  *)

AbsOf(x) == IF x < 0 THEN -x ELSE x

TrueRange(bar, close) ==
    Max({bar.high - bar.low, AbsOf(bar.high - close), AbsOf(bar.low - close)})

(* The sum of the true ranges, which is AtrPeriod times the average; none  *)
(* with too few bars, or with bars that do not move.                       *)
AtrOf(bars) ==
    LET sum == Rows!FoldLeft(+, 0, [i \in 1 .. AtrPeriod |->
                    TrueRange(bars[Len(bars) - AtrPeriod + i], bars[Len(bars) - AtrPeriod + i - 1].close)])
    IN  IF Len(bars) < AtrPeriod + 1 \/ sum = 0 THEN Unknown ELSE sum

EntryOf(p) == (IF p.side = "LONG" THEN p.cost ELSE -p.cost) * AtrPeriod
Adverse(p, bar) == p.lots * AtrPeriod * (IF p.side = "LONG" THEN bar.low ELSE -bar.high)
Favourable(p, bar) == p.lots * AtrPeriod * (IF p.side = "LONG" THEN bar.high ELSE -bar.low)

(* As many average ranges as the policy says.                              *)
Ranges(p, multiple) == multiple * p.atr * p.lots

HitsStop(p, bar) == Adverse(p, bar) <= EntryOf(p) - Ranges(p, HardStopAtr)
HitsTarget(p, bar) == Favourable(p, bar) >= EntryOf(p) + Ranges(p, TargetAtr)

(* The lock after a bar: it trails the best price by the tighter of two    *)
(* distances, from the moment the position was ArmAtr ahead, and never     *)
(* moves away from it.                                                     *)
RatchetedLock(p, f, best) ==
    LET candidate == best - Ranges(p, Min({TrailAtr, RatchetAtr})) IN
    IF best - EntryOf(p) < Ranges(p, ArmAtr) THEN f
    ELSE [f EXCEPT !.locked = TRUE, !.lock = IF f.locked THEN Max({@, candidate}) ELSE candidate]

(* One bar of run_exit_policy.  Stop, lock, target and last bar all end in *)
(* the same order to close; which of them is named is left out.            *)
StepPolicy(p, f, bar) ==
    LET best == Max({f.best, Favourable(p, bar)})
        g == [RatchetedLock(p, f, best) EXCEPT !.best = best, !.bars = @ + 1]
    IN  IF f.touched THEN f
        ELSE [g EXCEPT !.touched = \/ HitsStop(p, bar) \/ HitsTarget(p, bar)
                                   \/ f.locked /\ Adverse(p, bar) <= f.lock
                                   \/ g.bars >= MaxHoldingBars]

(* run_exit_policy: one who sees the bars of the path, the first from the  *)
(* entry on.                                                               *)
Watching(p) == [NoFollower EXCEPT !.exact = TRUE, !.best = EntryOf(p)]

WalkPath(p, path) ==
    LET f[k \in 0 .. Len(path)] ==
            IF k = 0 THEN Watching(p) ELSE StepPolicy(p, f[k - 1], path[k])
    IN  f[Len(path)]

-----------------------------------------------------------------------------
(* exit_manager.py.                                                        *)

(* on_fill.  The average range is that of the bars before this one.  A     *)
(* buyer pays the highest price of the bar, a seller gets the lowest; a    *)
(* reduction leaves the average entry, and what exceeds it is forgotten.   *)
Opened(buys, lots, bar) ==
    [NoPlace EXCEPT !.side = IF buys THEN "LONG" ELSE "SHORT", !.quantity = lots,
                    !.cost = lots * (IF buys THEN bar.high ELSE bar.low), !.lots = lots,
                    !.atr = AtrOf(warmup)]
Added(p, lots, bar) ==
    [p EXCEPT !.quantity = @ + lots, !.lots = @ * (p.quantity + lots),
              !.cost = @ * p.quantity + lots * p.lots * (IF p.side = "LONG" THEN bar.high ELSE bar.low)]
Reduced(p, lots) ==
    IF lots >= p.quantity THEN NoPlace ELSE [p EXCEPT !.quantity = @ - lots, !.pendingExit = FALSE]

OnRailFill(p, buys, lots, bar) ==
    IF lots = 0 THEN p
    ELSE IF p.quantity = 0 THEN Opened(buys, lots, bar)
    ELSE IF buys = (p.side = "LONG") THEN Added(p, lots, bar)
    ELSE Reduced(p, lots)

(* Mutant of KeptPath: the path is a bar shorter than the policy can hold. *)
ShorterPath(path) == IF Len(path) >= MaxHoldingBars THEN Tail(path) ELSE path

KeptPath(path) == IF Len(path) > MaxHoldingBars THEN Tail(path) ELSE path

(* observe: the bar, for a position that is open.                          *)
Shown(p, bar, bars) ==
    IF p.quantity = 0 THEN p
    ELSE [p EXCEPT !.beforeRails = IF p.atr = Unknown THEN @ + 1 ELSE @,
                   !.atr = IF p.atr = Unknown THEN AtrOf(bars) ELSE @,
                   !.path = KeptPath(Append(@, bar))]

(* The bars since the rails were there; the last one when there is none.   *)
Judged(p) ==
    IF p.beforeRails < Len(p.path) THEN SubSeq(p.path, p.beforeRails + 1, Len(p.path))
    ELSE <<p.path[Len(p.path)]>>

(* exit_proposal.                                                          *)
Asks(p) ==
    /\ p.quantity > 0 /\ ~p.pendingExit
    /\ p.atr # Unknown /\ p.path # <<>>
    /\ WalkPath(p, Judged(p)).touched

-----------------------------------------------------------------------------
(* forward_engine.py: one event of a poll.                                 *)

(* The fills on an event: every order gets as much as was printed, and     *)
(* nothing of a halted venue.                                              *)
Filled(order, printed) == Min({order.lots, printed})

AfterOrder(x, order, bar, printed) ==
    [place |-> OnRailFill(x.place, order.buys, Filled(order, printed), bar),
     left |-> IF order.lots > printed THEN Append(x.left, [order EXCEPT !.lots = @ - printed])
              ELSE x.left]

AfterFills(bar, printed) ==
    LET f[k \in 0 .. Len(resting)] ==
            IF k = 0 THEN [place |-> place, left |-> <<>>]
            ELSE AfterOrder(f[k - 1], resting[k], bar, printed)
    IN  IF printed = 0 THEN [place |-> place, left |-> resting] ELSE f[Len(resting)]

Bought(orders) == Rows!FoldLeft(LAMBDA sum, order : sum + (IF order.buys THEN order.lots ELSE 0), 0, orders)

(* The follower of the position: it starts with one whose rails are there  *)
(* when one fill opens it, ends when a fill changes it, and sees every bar *)
(* once.                                                                   *)
Followed(p, bar, printed) ==
    LET fresh == p.quantity > 0 /\ p = Opened(p.side = "LONG", p.quantity, bar) /\ p.atr # Unknown
        start == IF resting # <<>> /\ printed > 0
                 THEN IF fresh THEN Watching(p) ELSE NoFollower
                 ELSE followed
    IN  IF start.exact THEN StepPolicy(p, start, bar) ELSE start

(* An exit that is asked for may be refused on its way to the broker, and  *)
(* the latch stays.  The strategy buys a lot on every bar it may.          *)
TakeBar(bar, printed, reaches, enters) ==
    LET bars == IF Len(warmup) > AtrPeriod THEN Append(Tail(warmup), bar) ELSE Append(warmup, bar)
        after == AfterFills(bar, printed)
        p == after.place
        q == Shown(p, bar, bars)
        asks == Asks(q)
        exit == IF reaches THEN << [buys |-> q.side = "SHORT", lots |-> q.quantity] >> ELSE <<>>
        entry == IF enters THEN << [buys |-> TRUE, lots |-> 1] >> ELSE <<>>
    IN
    /\ reaches => asks
    /\ enters => Bought(after.left \o exit) + (IF q.side = "LONG" THEN q.quantity ELSE 0) < MaxLots
    /\ warmup' = bars
    /\ place' = IF asks THEN [q EXCEPT !.pendingExit = TRUE] ELSE q
    /\ resting' = after.left \o exit \o entry
    /\ followed' = Followed(p, bar, printed)

Event ==
    /\ barTime < LastBarTime
    /\ barTime' = barTime + 1
    /\ \E bar \in RailBars, printed \in 0 .. MaxLots, reaches, enters \in BOOLEAN :
        TakeBar(bar, printed, reaches, enters)
    /\ UNCHANGED engineStops

(* A restart forgets the position, its bars and what rests.                *)
EngineStops ==
    /\ engineStops < MaxEngineStops
    /\ engineStops' = engineStops + 1
    /\ warmup' = <<>> /\ place' = NoPlace /\ resting' = <<>> /\ followed' = NoFollower
    /\ UNCHANGED barTime

RailsNext == Event \/ EngineStops

-----------------------------------------------------------------------------
(* Although each bar walks the path anew, and the path is cut: a position  *)
(* whose rails were there when it opened, and that was not added to or     *)
(* reduced, asks for its exit exactly when one who followed it bar by bar, *)
(* with a lock that only tightens and a clock that only runs, would.  And  *)
(* whenever the rails came, and whatever was added, a newest bar that      *)
(* touches the stop or the target leaves a request to close.               *)
RailsAreKept ==
    /\ followed.exact => place.pendingExit = followed.touched
    /\ place.quantity > 0 /\ place.path # <<>> /\ place.atr # Unknown =>
        LET newest == place.path[Len(place.path)] IN
        HitsStop(place, newest) \/ HitsTarget(place, newest) => place.pendingExit
=============================================================================
