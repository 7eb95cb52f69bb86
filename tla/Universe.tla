------------------------------ MODULE Universe ------------------------------
(***************************************************************************)
(* UniverseTracker: which symbols a venue lists, recorded when a capture   *)
(* starts and by hand.  A snapshot reads the state, appends one blob of    *)
(* rows to the day's instruments.ndjson, and then replaces the state file. *)
(* Two processes may record one venue: binance and binance-funding both    *)
(* have the name "binance".                                                *)
(***************************************************************************)
EXTENDS LineLog, FiniteSets

CONSTANTS
    Symbols,
    MassFrom,       \* _MIN_UNIVERSE_FOR_MASS_DELISTING_GUARD
    Observers,      \* processes that record snapshots
    MaxSnapshots,   \* bound: listings fetched
    MaxCuts         \* bound: processes killed or powered off

ASSUME UniverseBoundsAssumption ==
    MassFrom \in Nat /\ MaxSnapshots \in Nat /\ MaxCuts \in Nat

VARIABLES
    listed,         \* what the venue lists
    state,          \* last_snapshot.json: the moment, the symbols, those with a quote currency
    rows,           \* instruments.ndjson, the days one after the other
    cut,            \* its last line has no newline
    observer,       \* what each process has in hand
    fetches,        \* listings fetched, and the clock
    cuts

universeVars == <<listed, state, rows, cut, observer, fetches, cuts>>

ListingState == [ts : Nat, symbols : SUBSET Symbols, quoted : SUBSET Symbols]
NoListing == [ts |-> 0, symbols |-> {}, quoted |-> {}]

(* A row: a snapshot, or that a symbol came or went.                       *)
UniverseRow == [kind : {"snapshot"}, ts : Nat, symbols : SUBSET Symbols]
                 \union [kind : {"listed", "delisted"}, ts : Nat, symbols : SUBSET Symbols]

Away == [step |-> "away", seen |-> NoListing, next |-> NoListing]

UniverseTypeOK ==
    /\ listed \subseteq Symbols
    /\ state \in ListingState
    /\ rows \in Seq(UniverseRow \union {Torn}) /\ cut \in BOOLEAN
    /\ observer \in [Observers -> [step : {"away", "fetched", "append", "replace"},
                                   seen : ListingState, next : ListingState]]
    /\ fetches \in 0 .. MaxSnapshots
    /\ cuts \in 0 .. MaxCuts

UniverseInit ==
    /\ listed \in SUBSET Symbols
    /\ state = NoListing
    /\ rows = <<>> /\ cut = FALSE
    /\ observer = [o \in Observers |-> Away]
    /\ fetches = 0
    /\ cuts = 0

-----------------------------------------------------------------------------
ObserverAt(o, step) == observer[o].step = step
Leave(o) == observer' = [observer EXCEPT ![o] = Away]

(* The venue lists another set of symbols.                                 *)
Relist ==
    /\ fetches < MaxSnapshots
    /\ \E s \in Symbols : listed' = IF s \in listed THEN listed \ {s} ELSE listed \union {s}
    /\ UNCHANGED <<state, rows, cut, observer, fetches, cuts>>

(* fetch_instruments, in one request with the quote currencies; a payload  *)
(* of another shape parses to a part of it, or to nothing.                 *)
Fetch(o) ==
    /\ ObserverAt(o, "away") /\ fetches < MaxSnapshots
    /\ fetches' = fetches + 1
    /\ \E parsed \in SUBSET listed : \E quoted \in {{}, parsed} :
        observer' = [observer EXCEPT ![o] =
            [step |-> "fetched", seen |-> NoListing,
             next |-> [ts |-> fetches', symbols |-> parsed, quoted |-> quoted]]]
    /\ UNCHANGED <<listed, state, rows, cut, cuts>>

(* _refuse_if_implausible: an empty universe, or one that lost more than   *)
(* half of a large one.                                                    *)
Plausible(observed, previous) ==
    /\ observed # {}
    /\ Cardinality(previous) >= MassFrom =>
        2 * Cardinality(previous \ observed) <= Cardinality(previous)

(* record_snapshot: the state is read, and the observation is believed or  *)
(* refused; one that is older than the state is refused.                   *)
ReadState(o) ==
    /\ ObserverAt(o, "fetched")
    /\ IF observer[o].next.ts >= state.ts /\ Plausible(observer[o].next.symbols, state.symbols)
       THEN observer' = [observer EXCEPT ![o].step = "append", ![o].seen = state]
       ELSE Leave(o)
    /\ UNCHANGED <<listed, state, rows, cut, fetches, cuts>>

(* diff_universe.                                                          *)
Changes(before, after, ts) ==
    (IF after \subseteq before THEN <<>>
     ELSE <<[kind |-> "listed", ts |-> ts, symbols |-> after \ before]>>)
    \o (IF before \subseteq after THEN <<>>
        ELSE <<[kind |-> "delisted", ts |-> ts, symbols |-> before \ after]>>)

SnapshotRow(next) == <<[kind |-> "snapshot", ts |-> next.ts, symbols |-> next.symbols]>>
ChangeRows(o) ==
    Changes(observer[o].seen.symbols, observer[o].next.symbols, observer[o].next.ts)

(* Mutant of Blob: what changed goes before the snapshot.                  *)
BlobChangesFirst(o) == ChangeRows(o) \o SnapshotRow(observer[o].next)

Blob(o) == SnapshotRow(observer[o].next) \o ChangeRows(o)

Written(blob) == Put(rows, cut, Head(blob)) \o Tail(blob)

(* One blob, and an fsync.                                                 *)
AppendRows(o) ==
    /\ ObserverAt(o, "append")
    /\ rows' = Written(Blob(o))
    /\ cut' = FALSE
    /\ observer' = [observer EXCEPT ![o].step = "replace"]
    /\ UNCHANGED <<listed, state, fetches, cuts>>

(* _write_state_atomically.                                                *)
ReplaceState(o) ==
    /\ ObserverAt(o, "replace")
    /\ state' = observer[o].next
    /\ Leave(o)
    /\ UNCHANGED <<listed, rows, cut, fetches, cuts>>

(* The process ends where it stands; inside the append some of the rows    *)
(* are there, and perhaps a part of the next.                              *)
CutOff(o) ==
    /\ ~ObserverAt(o, "away") /\ cuts < MaxCuts
    /\ cuts' = cuts + 1
    /\ Leave(o)
    /\ \/ UNCHANGED <<rows, cut>>
       \/ ObserverAt(o, "append") /\ \E k \in 1 .. Len(Blob(o)) :
            /\ rows' = Written(SubSeq(Blob(o), 1, k - 1) \o <<Torn>>)
            /\ cut' = TRUE
    /\ UNCHANGED <<listed, state, fetches>>

UniverseNext ==
    \/ Relist
    \/ \E o \in Observers :
        Fetch(o) \/ ReadState(o) \/ AppendRows(o) \/ ReplaceState(o) \/ CutOff(o)

UniverseSpec == UniverseInit /\ [][UniverseNext]_universeVars

-----------------------------------------------------------------------------
RowsThatSay(kind) == {i \in DOMAIN rows : rows[i] # Torn /\ rows[i].kind = kind}

(* Every symbol of the recorded universe has its listing on record, however*)
(* snapshots were cut off and overlapped: the rows are on disk before the  *)
(* state that makes the next snapshot silent about them.                   *)
MembersWereListed ==
    \A s \in state.symbols : \E i \in RowsThatSay("listed") : s \in rows[i].symbols
=============================================================================
