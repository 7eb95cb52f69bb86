------------------------------ MODULE VenueHalts ------------------------------
(***************************************************************************)
(* VenueHaltRegistry and the watch that feeds it: a pass of the health     *)
(* supervisor loads venue_halts.json, builds a report of the newest day of *)
(* every venue, and observes each in turn.  A venue whose report counts a  *)
(* corrupting event is halted, and is traded again only after it looked    *)
(* healthy for as long as the dwell.                                       *)
(***************************************************************************)
EXTENDS Naturals, Sequences

CONSTANTS
    Venues,
    Dwell,          \* _RECOVERY_DWELL_NS
    HaltDay,        \* the length of a UTC day
    LastTick,       \* bound: of the clock
    MaxWatchKills   \* bound: passes that are killed

ASSUME HaltsAssumption ==
    /\ Dwell \in Nat /\ HaltDay \in Nat \ {0} /\ LastTick \in Nat /\ MaxWatchKills \in Nat

VARIABLES
    wall,           \* time.time_ns
    newest,         \* venue -> its newest day under raw/
    corrupting,     \* the venues with a corrupting event in that day
    halts,          \* venue_halts.json: venue -> entry
    haltRows,       \* venue_halts.ndjson: <<venue, event>>
    watch,          \* the pass: its step, its copy of the entries, the venues left
    lastCorrupt,    \* history: venue -> when a corrupting report of it was last kept
    watchKills

haltVars == <<wall, newest, corrupting, halts, haltRows, watch, lastCorrupt, watchKills>>

Ticks == 0 .. LastTick
NeverYet == LastTick + 1

(* An entry; a venue that was never observed has none.                     *)
Entry == [known : BOOLEAN, halted : BOOLEAN, healthySince : 0 .. NeverYet]
NoEntry == [known |-> FALSE, halted |-> FALSE, healthySince |-> NeverYet]
NoEntries == [v \in Venues |-> NoEntry]

NoPass == [step |-> "none", entries |-> NoEntries, left |-> {}, at |-> {}]

HaltsTypeOK ==
    /\ wall \in Ticks
    /\ newest \in [Venues -> Nat] /\ corrupting \subseteq Venues
    /\ halts \in [Venues -> Entry]
    /\ haltRows \in Seq(Venues \X {"halted", "cleared"})
    /\ watch \in [step : {"none", "observe", "persist"}, entries : [Venues -> Entry],
                  left : SUBSET Venues, at : SUBSET Venues]
    /\ lastCorrupt \in [Venues -> 0 .. NeverYet]
    /\ watchKills \in 0 .. MaxWatchKills

HaltsInit ==
    /\ wall = 0
    /\ newest = [v \in Venues |-> 0] /\ corrupting = {}
    /\ halts = NoEntries
    /\ haltRows = <<>>
    /\ watch = NoPass
    /\ lastCorrupt = [v \in Venues |-> NeverYet]
    /\ watchKills = 0

-----------------------------------------------------------------------------
WallMoves ==
    /\ wall < LastTick
    /\ wall' = wall + 1
    /\ UNCHANGED <<newest, corrupting, halts, haltRows, watch, lastCorrupt, watchKills>>

(* The first frame of a venue in a new day: reports are about that day now.*)
DayBegins(v) ==
    /\ newest[v] < wall \div HaltDay
    /\ newest' = [newest EXCEPT ![v] = wall \div HaltDay]
    /\ corrupting' = corrupting \ {v}
    /\ UNCHANGED <<wall, halts, haltRows, watch, lastCorrupt, watchKills>>

(* A corrupting event in the ledger of the day.                            *)
Corrupts(v) ==
    /\ v \notin corrupting
    /\ corrupting' = corrupting \union {v}
    /\ UNCHANGED <<wall, newest, halts, haltRows, watch, lastCorrupt, watchKills>>

(* _load, at the beginning of observe_all_venues.                          *)
BeginPass ==
    /\ watch.step = "none"
    /\ watch' = [step |-> "observe", entries |-> halts, left |-> Venues, at |-> {}]
    /\ UNCHANGED <<wall, newest, corrupting, halts, haltRows, lastCorrupt, watchKills>>

(* The report cannot be built: the venue is skipped.                       *)
SkipVenue(v) ==
    /\ watch.step = "observe" /\ v \in watch.left
    /\ watch' = [watch EXCEPT !.left = @ \ {v}]
    /\ UNCHANGED <<wall, newest, corrupting, halts, haltRows, lastCorrupt, watchKills>>

(* Mutant of Sick: the dwell of an earlier recovery goes on.               *)
SickDwellKept(e) == [e EXCEPT !.known = TRUE, !.halted = TRUE]

(* observe, of a report that warrants a halt (assess_venue).               *)
Sick(e) == [known |-> TRUE, halted |-> TRUE, healthySince |-> NeverYet]

(* observe, of a healthy report: the dwell starts or goes on, and the halt *)
(* is lifted at its end.                                                   *)
Healthy(e) ==
    LET since == IF e.healthySince = NeverYet THEN wall ELSE e.healthySince
    IN  [known |-> TRUE, halted |-> e.halted /\ wall - since < Dwell, healthySince |-> since]

(* The row of a change goes to the history before the state is kept.       *)
RowOf(v, before, after) ==
    IF before.halted = after.halted THEN <<>>
    ELSE <<<<v, IF after.halted THEN "halted" ELSE "cleared">>>>

Observe(v) ==
    LET before == watch.entries[v]
        after == IF v \in corrupting THEN Sick(before) ELSE Healthy(before)
    IN
    /\ watch.step = "observe" /\ v \in watch.left
    /\ watch' = [step |-> "persist", entries |-> [watch.entries EXCEPT ![v] = after],
                 left |-> watch.left \ {v}, at |-> {v} \intersect corrupting]
    /\ haltRows' = haltRows \o RowOf(v, before, after)
    /\ UNCHANGED <<wall, newest, corrupting, halts, lastCorrupt, watchKills>>

Persist ==
    /\ watch.step = "persist"
    /\ halts' = watch.entries
    /\ lastCorrupt' = [v \in Venues |-> IF v \in watch.at THEN wall ELSE lastCorrupt[v]]
    /\ watch' = [watch EXCEPT !.step = "observe", !.at = {}]
    /\ UNCHANGED <<wall, newest, corrupting, haltRows, watchKills>>

EndPass ==
    /\ watch.step = "observe" /\ watch.left = {}
    /\ watch' = NoPass
    /\ UNCHANGED <<wall, newest, corrupting, halts, haltRows, lastCorrupt, watchKills>>

KillPass ==
    /\ watch.step # "none" /\ watchKills < MaxWatchKills
    /\ watch' = NoPass
    /\ watchKills' = watchKills + 1
    /\ UNCHANGED <<wall, newest, corrupting, halts, haltRows, lastCorrupt>>

HaltsNext ==
    \/ WallMoves \/ BeginPass \/ Persist \/ EndPass \/ KillPass
    \/ \E v \in Venues : DayBegins(v) \/ Corrupts(v) \/ SkipVenue(v) \/ Observe(v)

HaltsSpec == HaltsInit /\ [][HaltsNext]_haltVars

-----------------------------------------------------------------------------
(* is_tradeable.                                                           *)
Tradeable(v) == halts[v].known /\ ~halts[v].halted

(* A venue that may be traded has looked healthy for the dwell since its   *)
(* last corrupting report was kept: neither the midnight that empties the  *)
(* report, nor a healthy spell before the corruption, nor a pass that was  *)
(* killed or that skipped the venue shortens the halt.                     *)
HaltsOutlastTheirCause ==
    \A v \in Venues :
        Tradeable(v) => lastCorrupt[v] = NeverYet \/ wall >= lastCorrupt[v] + Dwell
=============================================================================
