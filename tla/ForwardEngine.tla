--------------------------- MODULE ForwardEngine ----------------------------
(***************************************************************************)
(* The paper-trading engine (forward_engine.py): one process that polls    *)
(* the feed and, for each bar, fills the orders that rest, asks the exit   *)
(* manager for an exit, and then asks the strategy for an entry.  Both     *)
(* pass the gate, the order log and the broker.  Positions, orders, the    *)
(* latch and what was fed live in memory; a supervisor starts the engine   *)
(* again when it dies.                                                     *)
(*                                                                         *)
(* The strategy is plumbing-momentum: it buys on every bar of an           *)
(* instrument but the first that the process sees.  Of the order log only  *)
(* the refusal of duplicates matters here (OrderSubmission has the rest):  *)
(* an intent's id is a hash of its fields and of the time of the poll.     *)
(*                                                                         *)
(* EngineFaults: "kill" ends the engine between two steps, or in the       *)
(* middle of writing the marker; "correction" appends a row for a bar.     *)
(***************************************************************************)
EXTENDS TapeReplay, PaperBroker

CONSTANTS
    EngineFaults,   \* a subset of {"kill", "correction"}
    Quantity,       \* the quantity of an entry
    Volumes,        \* the volumes a bar may print
    MaxRows,        \* bound: rows of the store
    MaxEngineKills  \* bound: kills

ASSUME EngineAssumption ==
    /\ EngineFaults \subseteq {"kill", "correction"}
    /\ Quantity \in Nat \ {0} /\ Volumes \subseteq Nat \ {0}
    /\ MaxRows \in Nat /\ MaxEngineKills \in Nat

VARIABLES
    held,           \* the exit manager's position in each instrument, 0 for none
    pendingExit,    \* the instruments whose position has pending_exit set
    at,             \* where the engine is
    queue,          \* the events of this poll still to be handled
    next,           \* the next order this event is offered to
    volume,         \* the volume of this event
    seen,           \* the instruments the strategy has a close of
    submitted,      \* the intents in the order log stamped with this poll
    fed,            \* auxiliary: the bars this run has handled
    began,          \* auxiliary: the rows there were when this run began
    engineKills     \* kills so far

exits == <<held, pendingExit>>
pollState == <<queue, next, volume, seen, submitted>>
engineVars == <<tape, broker, exits, at, pollState, fed, began, engineKills>>

EngineTypeOK ==
    /\ TapeTypeOK /\ BrokerTypeOK
    /\ held \in [Instruments -> Int] /\ pendingExit \in SUBSET Instruments
    /\ at \in {"down", "idle", "polling", "filling", "filled", "observed"}
    /\ queue \in Seq(Key)
    /\ next \in Nat \ {0} /\ volume \in Volumes \union {0}
    /\ seen \in SUBSET Instruments
    /\ submitted \in SUBSET Intent
    /\ fed \in SUBSET Key /\ began \in 0..Len(store)
    /\ engineKills \in 0..MaxEngineKills

-----------------------------------------------------------------------------
(* The positions of the exit manager, kept from the same fills as the      *)
(* broker's book but apart from it, and the latch that stands for a resting*)
(* exit.  Bars, the range of the bars before an entry and the exit policy  *)
(* are left out: whether a rail was touched is a free choice.              *)

\* Mutant of OnFill: the side of the fill is ignored.
OnFillAddsAll(s, change) ==
    /\ held' = [held EXCEPT ![s] = @ + Abs(change)]
    /\ pendingExit' = pendingExit \ {s}

(* on_fill.  A fill on the other side takes the position to 0 at most, and *)
(* what is left of the fill is forgotten; it clears the latch.             *)
OnFill(s, change) ==
    IF held[s] = 0 \/ SameSide(held[s], change)
    THEN /\ held' = [held EXCEPT ![s] = @ + change]
         /\ pendingExit' = IF held[s] = 0 THEN pendingExit \ {s} ELSE pendingExit
    ELSE /\ held' = [held EXCEPT ![s] = IF Abs(change) >= Abs(@) THEN 0 ELSE @ + change]
         /\ pendingExit' = pendingExit \ {s}

(* exit_proposal may ask for an exit.                                      *)
MayExit(s) == held[s] # 0 /\ s \notin pendingExit

ExitIntent(s) ==
    [on |-> s, side |-> IF held[s] > 0 THEN "SELL" ELSE "BUY",
     quantity |-> Abs(held[s]), reduceOnly |-> TRUE]

\* Mutant of Latch: the latch is not set.
LatchNothing(s) == UNCHANGED pendingExit

Latch(s) == pendingExit' = pendingExit \union {s}

-----------------------------------------------------------------------------
Flat == [s \in Instruments |-> 0]

EngineInit ==
    /\ store = <<>> /\ watermark = 0 /\ emitted = {} /\ primeMarker = NoMarker
    /\ orders = <<>> /\ book = Flat /\ approved = 0
    /\ held = Flat /\ pendingExit = {}
    /\ at = "down"
    /\ queue = <<>> /\ next = 1 /\ volume = 0 /\ seen = {} /\ submitted = {}
    /\ fed = {} /\ began = 0 /\ engineKills = 0

-----------------------------------------------------------------------------
(* The store.                                                              *)

Bars(s) == {k \in RowsFrom(0) : k[2] = s}

NewBar(s) ==
    /\ Len(store) < MaxRows
    /\ store' = Append(store, <<Cardinality(Bars(s)) + 1, s>>)
    /\ UNCHANGED <<feed, primeMarker, broker, exits, at, pollState, fed, began, engineKills>>

CorrectBar(k) ==
    /\ "correction" \in EngineFaults
    /\ Len(store) < MaxRows
    /\ store' = Append(store, k)
    /\ UNCHANGED <<feed, primeMarker, broker, exits, at, pollState, fed, began, engineKills>>

-----------------------------------------------------------------------------
(* A run, and its polls.                                                   *)

StartEngine ==
    /\ at = "down"
    /\ MarkSeen
    /\ at' = "idle"
    /\ began' = Len(store)
    /\ UNCHANGED <<store, primeMarker, broker, exits, pollState, fed, engineKills>>

(* poll_once reads the feed.  The rate window has moved on since the last  *)
(* poll, and so has the time that stamps the intents.                      *)
BeginPoll ==
    /\ at = "idle"
    /\ queue' = Produced
    /\ ReadOn
    /\ approved' = 0 /\ submitted' = {}
    /\ at' = "polling"
    /\ UNCHANGED <<store, primeMarker, orders, book, exits, next, volume, seen, fed, began,
                   engineKills>>

TakeEvent ==
    /\ at = "polling" /\ queue # <<>>
    /\ fed' = fed \union {Head(queue)}
    /\ volume' \in Volumes
    /\ next' = 1
    /\ at' = "filling"
    /\ UNCHANGED <<tape, broker, exits, queue, seen, submitted, began, engineKills>>

(* The marker is written when the poll is done.                            *)
EndPoll ==
    /\ at = "polling" /\ queue = <<>>
    /\ primeMarker' = watermark
    /\ at' = "idle"
    /\ UNCHANGED <<store, feed, broker, exits, pollState, fed, began, engineKills>>

-----------------------------------------------------------------------------
(* One event.                                                              *)

Bar == Head(queue)[2]

(* Each order that rests on the instrument is offered the print, and a     *)
(* fill is shown to the exit manager.  An order that is done leaves the    *)
(* list, so the next one takes its place.                                  *)
FillNext ==
    /\ at = "filling" /\ next <= Len(orders)
    /\ LET intent == orders[next].intent
           q == FillOf(next, volume) IN
       IF intent.on = Bar
       THEN /\ ApplyFill(next, volume)
            /\ OnFill(Bar, Signed(intent.side, q))
            /\ next' = IF Len(orders') = Len(orders) THEN next + 1 ELSE next
       ELSE next' = next + 1 /\ UNCHANGED <<orders, book, exits>>
    /\ UNCHANGED <<tape, approved, at, queue, volume, seen, submitted, fed, began, engineKills>>

FillsDone ==
    /\ at = "filling" /\ next > Len(orders)
    /\ at' = "filled"
    /\ UNCHANGED <<tape, broker, exits, pollState, fed, began, engineKills>>

(* _submit: the gate, which counts what it approves; the log, which        *)
(* refuses an intent it has; the broker, which rejects or rests the order. *)
Submit(intent) ==
    \/ GateRefuses(intent) /\ UNCHANGED <<orders, approved, submitted>>
    \/ /\ ~GateRefuses(intent)
       /\ approved' = approved + 1
       /\ submitted' = submitted \union {intent}
       /\ IF intent \in submitted \/ Rejects(intent) THEN UNCHANGED orders
                                                     ELSE Rest(intent)

(* A rail was touched.                                                     *)
Exit ==
    /\ at = "filled"
    /\ MayExit(Bar)
    /\ Latch(Bar)
    /\ Submit(ExitIntent(Bar))
    /\ at' = "observed"
    /\ UNCHANGED <<tape, book, held, queue, next, volume, seen, fed, began, engineKills>>

NoExit ==
    /\ at = "filled"
    /\ at' = "observed"
    /\ UNCHANGED <<tape, broker, exits, pollState, fed, began, engineKills>>

EntryIntent(s) ==
    [on |-> s, side |-> "BUY", quantity |-> Quantity, reduceOnly |-> FALSE]

(* The strategy.                                                           *)
Enter ==
    /\ at = "observed"
    /\ IF Bar \in seen THEN Submit(EntryIntent(Bar))
                       ELSE UNCHANGED <<orders, approved, submitted>>
    /\ seen' = seen \union {Bar}
    /\ queue' = Tail(queue)
    /\ at' = "polling"
    /\ UNCHANGED <<tape, book, exits, next, volume, fed, began, engineKills>>

-----------------------------------------------------------------------------
(* The process dies, and its memory with it.                               *)

Die ==
    /\ "kill" \in EngineFaults
    /\ engineKills < MaxEngineKills
    /\ engineKills' = engineKills + 1
    /\ at' = "down"
    /\ watermark' = 0 /\ emitted' = {}
    /\ orders' = <<>> /\ book' = Flat /\ approved' = 0
    /\ held' = Flat /\ pendingExit' = {}
    /\ queue' = <<>> /\ next' = 1 /\ volume' = 0 /\ seen' = {} /\ submitted' = {}
    /\ fed' = {}
    /\ UNCHANGED <<store, began>>

KillEngine ==
    /\ at # "down"
    /\ Die
    /\ UNCHANGED primeMarker

(* write_prime_marker truncates the file and then writes it.               *)
KillInMarker ==
    /\ at = "polling" /\ queue = <<>>
    /\ Die
    /\ primeMarker' = NoMarker

-----------------------------------------------------------------------------

EngineNext ==
    \/ \E s \in Instruments : NewBar(s)
    \/ \E k \in RowsFrom(0) : CorrectBar(k)
    \/ StartEngine \/ BeginPoll \/ TakeEvent \/ EndPoll
    \/ FillNext \/ FillsDone \/ Exit \/ NoExit \/ Enter
    \/ KillEngine \/ KillInMarker

EngineSpec == EngineInit /\ [][EngineNext]_engineVars

-----------------------------------------------------------------------------
(* Properties.                                                             *)

(* What is traded is forward: no bar is handled of which every row was     *)
(* there when the run began, whatever the run before it had done.          *)
OnlyNewBarsAreTraded ==
    \A i \in DOMAIN queue : queue[i] \in RowsFrom(began + 1)

(* A run handles a bar once, a bar corrected since included.  (The next    *)
(* run may: it marks what it finds from the marker on, so the correction   *)
(* of an older bar is news to it.)                                         *)
EachBarOnce ==
    at = "polling" => \A i \in DOMAIN queue : queue[i] \notin fed

(* The bars a run trades are new to it, and each is traded once.           *)
BarsAreTradedOnce == OnlyNewBarsAreTraded /\ EachBarOnce

(* The exit manager and the broker's book, kept apart from the same fills, *)
(* agree.                                                                  *)
PositionsAgree == held = book

(* The fill of a reduce-only order takes a position towards flat and never *)
(* beyond: the check made when it was submitted still holds when it fills. *)
(* A print smaller than the exit breaks it: its fill clears the latch      *)
(* while the rest of the exit still rests.                                 *)
ReduceOnlyReduces ==
    [][FillNext /\ orders[next].intent.reduceOnly =>
          \A s \in Instruments :
              Abs(book'[s]) <= Abs(book[s]) /\ ~SameSide(-book[s], book'[s])]_engineVars

(* No position passes its cap, although the gate does not count the orders *)
(* that rest.                                                              *)
PositionsAreCapped == \A s \in Instruments : Abs(book[s]) * Price[s] <= MaxPosition

(* One exit at most rests on an instrument, and while it does the latch    *)
(* keeps a second one from being asked for.                                *)
RestingExits(s) ==
    {i \in DOMAIN orders : orders[i].intent.reduceOnly /\ orders[i].intent.on = s}
OneRestingExit ==
    \A s \in Instruments :
        /\ Cardinality(RestingExits(s)) <= 1
        /\ RestingExits(s) # {} => s \in pendingExit

(* The two books of the same fills agree, neither passes a cap, and no     *)
(* position is left by two exits at once.                                  *)
PositionsAreSound == PositionsAgree /\ PositionsAreCapped /\ OneRestingExit
=============================================================================
