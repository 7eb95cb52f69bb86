---------------------------- MODULE PaperBroker -----------------------------
(***************************************************************************)
(* The paper venue (paper_broker.py) and the gate in front of it           *)
(* (pre_trade_gate.py).  Orders are market orders: each rests until a      *)
(* print of its instrument and takes from it what it still lacks, up to    *)
(* the volume printed; orders do not share a print.  The two accountings   *)
(* differ in prices only and are one book here.  The engine gives the      *)
(* broker no halts, and every venue has its fees.                          *)
(***************************************************************************)
EXTENDS Market, FiniteSetsExt
Seqs == INSTANCE SequencesExt

CONSTANTS
    MaxOrder,       \* max_order_notional
    MaxPosition,    \* the tighter of the two caps on one position
    MaxAggregate,   \* max_aggregate_nav_fraction of the nav
    MaxInstruments, \* max_open_instruments
    MaxOrders       \* max_orders_per_window; the window is as long as a poll

ASSUME LimitsAssumption ==
    {MaxOrder, MaxPosition, MaxAggregate, MaxInstruments, MaxOrders} \subseteq Nat

VARIABLES
    orders,         \* the open orders, oldest first
    book,           \* the signed position in each instrument
    approved        \* how many orders were approved in this poll

broker == <<orders, book, approved>>

Order == [intent : Intent, left : Nat \ {0}]

BrokerTypeOK ==
    /\ orders \in Seq(Order)
    /\ book \in [Instruments -> Int]
    /\ approved \in 0..MaxOrders

OpenInstruments == {s \in Instruments : book[s] # 0}

(* The aggregate: everything held, at the price of the one instrument the  *)
(* order is for.                                                           *)
AggregateAt(price) == MapThenSumSet(LAMBDA s : Abs(book[s]) * price, Instruments)

(* What evaluate would leave of the position: filled orders only.          *)
After(intent) == book[intent.on] + Signed(intent.side, intent.quantity)
Increases(intent) == Abs(After(intent)) > Abs(book[intent.on])

Notional(intent) == intent.quantity * Price[intent.on]

\* Mutant of PastCap: the cap is compared with what is held already.
PastCapLate(intent) == Abs(book[intent.on]) * Price[intent.on] > MaxPosition

PastCap(intent) == Abs(After(intent)) * Price[intent.on] > MaxPosition

(* evaluate refuses: the order is too large, or adds to a position, an     *)
(* exposure or a number of instruments at its cap, or orders come too fast *)
(* (the limit for one instrument is the limit for all of them).            *)
GateRefuses(intent) ==
    \/ Notional(intent) > MaxOrder
    \/ Increases(intent) /\ PastCap(intent)
    \/ /\ Increases(intent)
       /\ AggregateAt(Price[intent.on]) + Notional(intent) > MaxAggregate
    \/ book[intent.on] = 0 /\ Cardinality(OpenInstruments) >= MaxInstruments
    \/ approved >= MaxOrders

(* __call__ rejects a reduce-only order with nothing to reduce, or larger  *)
(* than the position.                                                      *)
Rejects(intent) ==
    /\ intent.reduceOnly
    /\ \/ Signed(intent.side, 1) * book[intent.on] >= 0
       \/ intent.quantity > Abs(book[intent.on])

Rest(intent) == orders' = Append(orders, [intent |-> intent, left |-> intent.quantity])

(* on_market_event, for one order: what a print of this volume gives it.   *)
FillOf(i, volume) == Lesser(orders[i].left, volume)

\* Mutant of ApplyFill: an order that is filled stays in the list.
ApplyFillKeepsDone(i, volume) ==
    /\ orders' = [orders EXCEPT ![i].left = @ - FillOf(i, volume)]
    /\ book' = [book EXCEPT ![orders[i].intent.on] =
                    @ + Signed(orders[i].intent.side, FillOf(i, volume))]

ApplyFill(i, volume) ==
    LET q == FillOf(i, volume)
        s == orders[i].intent.on IN
    /\ orders' = IF q = orders[i].left THEN Seqs!RemoveAt(orders, i)
                                       ELSE [orders EXCEPT ![i].left = @ - q]
    /\ book' = [book EXCEPT ![s] = @ + Signed(orders[i].intent.side, q)]
=============================================================================
