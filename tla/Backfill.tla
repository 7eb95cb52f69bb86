------------------------------- MODULE Backfill -------------------------------
(***************************************************************************)
(* What is fetched from a venue for a time nobody recorded: bars, page by  *)
(* page forward from the start of the gap, and settled funding, page by    *)
(* page backward from now.  A run walks symbol after symbol and appends one*)
(* part; a row becomes available when its walk began, for funding when the *)
(* run began.  A walk of bars that stops early has a reason in the report, *)
(* unless it is an answer without a usable row that stops it; a walk of    *)
(* funding never has.                                                      *)
(*                                                                         *)
(* A bar opens at a moment and closes at the next.  The venue lists the    *)
(* moments up to now, the open bar too; some of its rows are of no use: a   *)
(* price of zero, a row that does not parse.                               *)
(***************************************************************************)
EXTENDS Integers, FiniteSetsExt

CONSTANTS
    WalkSymbols,        \* the symbols of a run
    GapStart, GapEnd,   \* the moments a run of bars is asked for
    PageLimit,          \* _PAGE_LIMIT
    PagesOfBars, PagesOfFunding,
    EarliestMoment, LatestMoment,   \* bounds: of the clock
    MaxRuns             \* bound: runs that begin

ASSUME BackfillAssumption ==
    /\ {GapStart, GapEnd, PagesOfBars, PagesOfFunding, EarliestMoment, LatestMoment, MaxRuns} \subseteq Nat
    /\ PageLimit \in Nat \ {0}

VARIABLES
    time,           \* the clock
    unusable,       \* the moments whose row at the venue is of no use
    backfill,       \* the run in progress
    reports,        \* what finished runs have stored and said
    runs

backfillVars == <<time, unusable, backfill, reports, runs>>

GapMoments == 0 .. LatestMoment
Newest == LatestMoment + 1
Reasons == {"reached", "nothing", "garbled", "budget", "network", "no_progress", "page_cap"}

NoBackfill == [step |-> "none", kind |-> "bars", began |-> 0, todo |-> {}, walks |-> {}, at |-> Newest,
          pages |-> 0, rows |-> {}, fetched |-> 0]

(* A finished walk: its symbol, when it began, what it has, why it ended.  *)
Walk == [symbol : WalkSymbols, fetched : GapMoments, rows : SUBSET GapMoments, ended : Reasons]

BackfillTypeOK ==
    /\ time \in GapMoments /\ unusable \subseteq GapMoments
    /\ backfill.step \in {"none", "next", "walk"} /\ backfill.kind \in {"bars", "funding"}
    /\ backfill.todo \subseteq WalkSymbols /\ backfill.walks \subseteq Walk
    /\ backfill.at \in -1 .. Newest /\ backfill.pages \in Nat /\ backfill.rows \subseteq GapMoments
    /\ \A r \in reports : r.kind \in {"bars", "funding"} /\ r.walks \subseteq Walk
    /\ runs \in 0 .. MaxRuns

BackfillInit ==
    /\ time = EarliestMoment /\ unusable \in SUBSET (0 .. GapEnd)
    /\ backfill = NoBackfill /\ reports = {} /\ runs = 0

-----------------------------------------------------------------------------
(* What the venue answers.                                                 *)
Listed == 0 .. time

First(S, n) == {t \in S : Cardinality({u \in S : u < t}) < n}
Latest(S, n) == {t \in S : Cardinality({u \in S : u > t}) < n}

(* startTime and endTime are both inclusive.                               *)
BarsFrom(cursor) == First(Listed \intersect (cursor .. GapEnd), PageLimit)
SettledUntil(end) == Latest({t \in Listed : t <= end}, PageLimit)

(* Mutant of UsableBars: the open bar is taken.                            *)
UsableBarsAndOpen(page) == page \ unusable

(* parse_binance_klines: what is still open at the time of the fetch goes. *)
UsableBars(page) == {t \in page \ unusable : t + 1 <= backfill.fetched}

(* Mutant of UpTo: the page ends where the last one began, and a row less. *)
UpToSkipping(page) == Min(page) - 2

UpTo(page) == Min(page) - 1

-----------------------------------------------------------------------------
MomentGoesBy ==
    /\ time < LatestMoment
    /\ time' = time + 1
    /\ UNCHANGED <<unusable, backfill, reports, runs>>

BeginRun(kind) ==
    /\ backfill.step = "none" /\ runs < MaxRuns
    /\ runs' = runs + 1
    /\ backfill' = [NoBackfill EXCEPT !.step = "next", !.kind = kind, !.began = time, !.todo = WalkSymbols]
    /\ UNCHANGED <<time, unusable, reports>>

BeginWalk ==
    /\ backfill.step = "next" /\ backfill.todo # {}
    /\ backfill' = [backfill EXCEPT !.step = "walk", !.pages = 0, !.rows = {},
                          !.at = IF backfill.kind = "bars" THEN GapStart ELSE Newest,
                          !.fetched = IF backfill.kind = "bars" THEN time ELSE backfill.began]
    /\ UNCHANGED <<time, unusable, reports, runs>>

(* The walk ends; the next symbol's begins.                                *)
Ended(why, rows) ==
    LET symbol == CHOOSE s \in backfill.todo : TRUE IN
    [backfill EXCEPT !.step = "next", !.todo = @ \ {symbol}, !.at = Newest, !.pages = 0, !.rows = {},
                !.fetched = 0,
                !.walks = @ \union {[symbol |-> symbol, fetched |-> backfill.fetched, rows |-> rows,
                                     ended |-> why]}]

BarsAreWanted ==
    /\ backfill.step = "walk" /\ backfill.kind = "bars"
    /\ backfill.at < GapEnd /\ backfill.pages < Max({1, PagesOfBars})
FundingIsWanted == backfill.step = "walk" /\ backfill.kind = "funding" /\ backfill.pages < Max({1, PagesOfFunding})

(* fetch_binance_bars: one page.  A page without a usable bar ends the     *)
(* walk, and no reason is given.                                           *)
BarsPage ==
    LET page == UsableBars(BarsFrom(backfill.at)) IN
    /\ BarsAreWanted
    /\ backfill' = IF page = {} THEN Ended("nothing", backfill.rows)
              ELSE [backfill EXCEPT !.pages = @ + 1, !.at = Max(page) + 1, !.rows = @ \union page]
    /\ UNCHANGED <<time, unusable, reports, runs>>

(* The venue answers as it did before: the cursor does not move.           *)
BarsPageAgain ==
    /\ BarsAreWanted /\ backfill.pages > 0
    /\ backfill' = Ended("no_progress", backfill.rows)
    /\ UNCHANGED <<time, unusable, reports, runs>>

(* Mutant of EndOfBars: a walk that ran out of pages gives no reason.      *)
EndOfBarsUnnamed == "reached"

EndOfBars == IF backfill.at < GapEnd THEN "page_cap" ELSE "reached"

BarsAreThere ==
    /\ backfill.step = "walk" /\ backfill.kind = "bars" /\ ~BarsAreWanted
    /\ backfill' = Ended(EndOfBars, backfill.rows)
    /\ UNCHANGED <<time, unusable, reports, runs>>

(* fetch_binance_history: one page.  A page that is not full of rates is   *)
(* taken for the first the venue has.                                      *)
FundingPage ==
    LET page == SettledUntil(backfill.at) \ unusable
        rows == backfill.rows \union page
    IN
    /\ FundingIsWanted
    /\ backfill' = IF page = {} THEN Ended("nothing", rows)
              ELSE IF Cardinality(page) < PageLimit THEN Ended("reached", rows)
              ELSE [backfill EXCEPT !.pages = @ + 1, !.at = UpTo(page), !.rows = rows]
    /\ UNCHANGED <<time, unusable, reports, runs>>

FundingPageAgain ==
    /\ FundingIsWanted /\ backfill.pages > 0
    /\ backfill' = Ended("no_progress", backfill.rows)
    /\ UNCHANGED <<time, unusable, reports, runs>>

FundingIsThere ==
    /\ backfill.step = "walk" /\ backfill.kind = "funding" /\ ~FundingIsWanted
    /\ backfill' = Ended("page_cap", backfill.rows)
    /\ UNCHANGED <<time, unusable, reports, runs>>

(* The budget says no for too long, or the request fails, or the answer is *)
(* no list of rows, which both walks take for an empty page.               *)
WalkStops(why) ==
    /\ BarsAreWanted \/ FundingIsWanted
    /\ backfill' = Ended(why, backfill.rows)
    /\ UNCHANGED <<time, unusable, reports, runs>>

(* One part for the run, if there is a row; its report names the symbols   *)
(* whose walk of bars was cut short.                                       *)
AppendRun ==
    /\ backfill.step = "next" /\ backfill.todo = {}
    /\ reports' = reports \union {[kind |-> backfill.kind, walks |-> backfill.walks]}
    /\ backfill' = NoBackfill
    /\ UNCHANGED <<time, unusable, runs>>

KillRun ==
    /\ backfill.step # "none"
    /\ backfill' = NoBackfill
    /\ UNCHANGED <<time, unusable, reports, runs>>

BackfillNext ==
    \/ MomentGoesBy \/ BeginWalk \/ BarsPage \/ BarsPageAgain \/ BarsAreThere
    \/ FundingPage \/ FundingPageAgain \/ FundingIsThere \/ AppendRun \/ KillRun
    \/ \E kind \in {"bars", "funding"} : BeginRun(kind)
    \/ \E why \in {"budget", "network", "garbled"} : WalkStops(why)

-----------------------------------------------------------------------------
(* How far a walk of bars has come: to the end that was asked for, if it   *)
(* says so, or else to its last bar.                                       *)
BarsReached(w) == IF w.ended = "reached" THEN GapEnd - 1 ELSE Max({-1} \union w.rows)

(* Every usable bar of the gap as far as the walk has come, that had closed*)
(* when it began, is stored; and none is visible before it closed.         *)
BarsHaveNoHole(w) ==
    /\ {t \in GapStart .. BarsReached(w) : t + 1 <= w.fetched /\ t \notin unusable} \subseteq w.rows
    /\ \A t \in w.rows : t + 1 <= w.fetched

(* Wherever a walk of funding stopped, it has no hole.                     *)
FundingHasNoHole(w) ==
    w.rows # {} => (Min(w.rows) .. Max(w.rows)) \ unusable \subseteq w.rows

(* Whatever the pages, their limits and the answers without a usable row:  *)
(* what a finished run has stored of a symbol has no hole, a walk of bars  *)
(* that came to its end has all of the gap, and no bar was taken open.  How*)
(* much is missing behind the last bar is another matter: the report names *)
(* the walk only when truncated_by has a reason.                           *)
BackfillsHaveNoHoles ==
    \A r \in reports : \A w \in r.walks :
        IF r.kind = "bars" THEN BarsHaveNoHole(w) ELSE FundingHasNoHole(w)
=============================================================================
