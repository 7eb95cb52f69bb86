------------------------------ MODULE PolledBuild ------------------------------
(***************************************************************************)
(* The datasets of what is polled: funding rates, contracts that expire,   *)
(* books, option chains and exchange reserves.  The recorder archives the  *)
(* answers, a file for each symbol and hour, and holds the marker of the   *)
(* hour it writes.  A loop builds yesterday and then today: symbol by      *)
(* symbol it reads the hours without a marker, drops what is not newer than*)
(* the newest row the venue has in the dataset, and appends the rest, the  *)
(* earliest hour first.                                                    *)
(*                                                                         *)
(* A frame is the set of the fields a reader asks for.  A blank number is  *)
(* the field and the word for it.  The builds of two pairs of dataset and  *)
(* venue share nothing, so a pass of the loop is that of one pair.         *)
(***************************************************************************)
EXTENDS Integers, FiniteSetsExt

CONSTANTS
    Builds,             \* <<dataset, venue>> pairs that the loop builds
    VenueAnswers,       \* <<stream, frame>> pairs that may be received
    ReserveEntries,     \* what the list of exchanges may say of one
    InstantsPerHour, HoursInDay,
    FirstInstants,      \* when the clock may begin
    FinalInstants,      \* bounds: where it stops
    MaxFrames,          \* bound: of the archive
    MaxRecorderDeaths,  \* bound: of the recorder
    MaxPasses,          \* bound: passes that begin
    MaxPassKills        \* bound: passes that are killed, and builds that raise

ASSUME PolledAssumption ==
    /\ InstantsPerHour \in Nat \ {0} /\ HoursInDay \in Nat \ {0}
    /\ \A of \in Builds : of[1] = "dated_futures" => of[2] = "bybit"
    /\ FirstInstants \subseteq Nat /\ FinalInstants \subseteq Nat
    /\ {MaxFrames, MaxRecorderDeaths, MaxPasses, MaxPassKills} \subseteq Nat

VARIABLES
    pollClock,      \* the clock
    archive,        \* the frames received
    writing,        \* stream -> the hour its recorder holds, or NoFile
    abandoned,      \* the markers nobody holds
    loop,           \* the pass in progress
    polled,         \* the parts of the datasets
    reserves,       \* the exchanges with a row of reserves
    vouched,        \* history: <<dataset, frame>> that a finished build has read
    recorderDeaths, passes, passKills

polledVars == <<pollClock, archive, writing, abandoned, loop, polled, reserves, vouched,
                recorderDeaths, passes, passKills>>

NoFile == -1
HourAt(t) == t \div InstantsPerHour
DayAt(t) == HourAt(t) \div HoursInDay

(* <<venue, symbol>> pairs that are polled.                                *)
Sources == {x[1] : x \in VenueAnswers}

Polled == [stream : Sources, at : Nat, frame : {x[2] : x \in VenueAnswers}]

-----------------------------------------------------------------------------
(* What the readers take for a row.  Each recognises the frame by its      *)
(* fields, and refuses one without the venue's clock where the venue has   *)
(* one.                                                                    *)

FundingOfBinance(frame) == {"lastFundingRate", "markPrice", "time"} \subseteq frame
FundingOfHyperliquid(frame) == {"funding", "markPx"} \subseteq frame
FundingOfBybit(frame) ==
    {"fundingRate", "markPrice", "time"} \subseteq frame /\ "blank fundingRate" \notin frame

(* Mutant of DatedFuture: a date of delivery is enough.                    *)
DeliveryIsEnough(frame) == {"markPrice", "deliveryTime", "time"} \subseteq frame

(* Neither a rate nor a date of delivery alone makes a contract that       *)
(* expires.                                                                *)
DatedFuture(frame) ==
    {"fundingRate", "blank fundingRate", "markPrice", "deliveryTime", "time"} \subseteq frame

TwoSided(frame) == {"bids", "asks"} \subseteq frame
BookOfBinance(frame) == "lastUpdateId" \in frame /\ frame \intersect {"e", "U"} = {} /\ TwoSided(frame)
BookOfCoinbase(frame) == "sequence" \in frame /\ TwoSided(frame)

(* parse_instrument_name reads the name; the numbers are those the venue   *)
(* never leaves out.                                                       *)
OptionQuote(frame) ==
    {"readable instrument_name", "creation_timestamp", "mark_price", "mark_iv",
     "underlying_price", "open_interest", "volume"} \subseteq frame

Extracted(dataset, venue, frame) ==
    CASE <<dataset, venue>> = <<"funding", "hyperliquid">> -> FundingOfHyperliquid(frame)
      [] <<dataset, venue>> = <<"funding", "bybit">> -> FundingOfBybit(frame)
      [] <<dataset, venue>> = <<"book", "coinbase">> -> BookOfCoinbase(frame)
      [] dataset = "funding" /\ venue \notin {"hyperliquid", "bybit"} -> FundingOfBinance(frame)
      [] dataset = "dated_futures" -> DatedFuture(frame)
      [] dataset = "book" /\ venue # "coinbase" -> BookOfBinance(frame)
      [] dataset = "option_chain" -> OptionQuote(frame)

(* A blank rate or mark of a funding row is no decimal, and raises.        *)
Chokes(dataset, venue, frame) ==
    /\ dataset = "funding" /\ Extracted(dataset, venue, frame)
    /\ frame \intersect {"blank markPrice", "blank markPx", "blank lastFundingRate"} # {}

(* One entry of the list of exchanges: refused without a name or a total.  *)
ReserveOf(entry) == {"name", "positive currentTvl"} \subseteq entry

-----------------------------------------------------------------------------
PolledPart == [dataset : STRING, venue : STRING, day : Nat, upto : Nat, hour : Nat, rows : SUBSET archive]

NoLoop == [step |-> "none", of |-> <<"", "">>, days |-> {}, todo |-> {}, read |-> {}, left |-> {}]

PolledTypeOK ==
    /\ pollClock \in Nat
    /\ archive \subseteq Polled
    /\ writing \in [Sources -> Nat \union {NoFile}] /\ abandoned \subseteq Sources \X Nat
    /\ loop.step \in {"none", "list", "read", "write", "reserves"} /\ loop.days \subseteq Nat
    /\ loop.todo \subseteq Sources /\ loop.read \subseteq archive
    /\ \A p \in polled \union loop.left : p \in PolledPart
    /\ reserves \subseteq ReserveEntries
    /\ \A w \in vouched : w[1] \in STRING /\ w[2] \in archive
    /\ recorderDeaths \in 0 .. MaxRecorderDeaths /\ passes \in 0 .. MaxPasses
    /\ passKills \in 0 .. MaxPassKills

PolledInit ==
    /\ pollClock \in FirstInstants /\ archive = {}
    /\ writing = [s \in Sources |-> NoFile] /\ abandoned = {}
    /\ loop = NoLoop /\ polled = {} /\ reserves = {}
    /\ vouched = {}
    /\ recorderDeaths = 0 /\ passes = 0 /\ passKills = 0

-----------------------------------------------------------------------------
(* The recorder.                                                           *)

InstantGoesBy ==
    /\ pollClock \notin FinalInstants
    /\ pollClock' = pollClock + 1
    /\ UNCHANGED <<archive, writing, abandoned, loop, polled, reserves, vouched,
                   recorderDeaths, passes, passKills>>

(* The first frame of an hour closes the file of the hour before.  A frame *)
(* takes over the marker a dead recorder left on its hour.                 *)
Archive(stream, frame) ==
    /\ \A f \in archive : f.at # pollClock
    /\ Cardinality(archive) < MaxFrames
    /\ archive' = archive \union {[stream |-> stream, at |-> pollClock, frame |-> frame]}
    /\ writing' = [writing EXCEPT ![stream] = HourAt(pollClock)]
    /\ abandoned' = abandoned \ {<<stream, HourAt(pollClock)>>}
    /\ UNCHANGED <<pollClock, loop, polled, reserves, vouched, recorderDeaths, passes,
                   passKills>>

(* The pool of open hours, the settling of idle ones, or an orderly stop.  *)
CloseHour(stream) ==
    /\ writing[stream] # NoFile
    /\ writing' = [writing EXCEPT ![stream] = NoFile]
    /\ UNCHANGED <<pollClock, archive, abandoned, loop, polled, reserves, vouched,
                   recorderDeaths, passes, passKills>>

RecorderDies ==
    /\ recorderDeaths < MaxRecorderDeaths
    /\ \E s \in Sources : writing[s] # NoFile
    /\ recorderDeaths' = recorderDeaths + 1
    /\ abandoned' = abandoned \union {<<s, writing[s]>> : s \in {x \in Sources : writing[x] # NoFile}}
    /\ writing' = [s \in Sources |-> NoFile]
    /\ UNCHANGED <<pollClock, archive, loop, polled, reserves, vouched, passes, passKills>>

RepairMarkers ==
    /\ abandoned # {}
    /\ abandoned' = {}
    /\ UNCHANGED <<pollClock, archive, writing, loop, polled, reserves, vouched,
                   recorderDeaths, passes, passKills>>

-----------------------------------------------------------------------------
(* store_supervisor.sh and build_for_day.                                  *)

Held(stream, hour) == writing[stream] = hour \/ <<stream, hour>> \in abandoned

Dataset == loop.of[1]
Venue == loop.of[2]
BuildDay == Min(loop.days)

InDay(d, venue) == {f \in archive : f.stream[1] = venue /\ DayAt(f.at) = d}

(* Mutant of Watermark: the newest row of the dataset.                     *)
WatermarkOfAll(dataset, venue) ==
    Max({-1} \union {f.at : f \in UNION {p.rows : p \in {q \in polled : q.dataset = dataset}}})

(* _availability_watermark_ns: the newest row this venue has.              *)
Watermark(dataset, venue) ==
    Max({-1} \union {f.at : f \in UNION {p.rows : p \in
        {q \in polled : q.dataset = dataset /\ q.venue = venue}}})

(* After the build of a day the next; after the last day the reserves.     *)
AfterDay ==
    [loop EXCEPT !.days = @ \ {BuildDay}, !.todo = {}, !.read = {}, !.left = {},
                 !.step = IF Cardinality(loop.days) > 1 THEN "list" ELSE "reserves"]

BeginLoop(of) ==
    /\ loop.step = "none" /\ passes < MaxPasses
    /\ passes' = passes + 1
    /\ loop' = [NoLoop EXCEPT !.step = "list", !.of = of,
                              !.days = {DayAt(pollClock) - 1, DayAt(pollClock)} \intersect Nat]
    /\ UNCHANGED <<pollClock, archive, writing, abandoned, polled, reserves, vouched,
                   recorderDeaths, passKills>>

(* polled_symbols: those with a file of the day, open or not.              *)
ListDay ==
    /\ loop.step = "list"
    /\ loop' = IF InDay(BuildDay, Venue) = {} THEN AfterDay
               ELSE [loop EXCEPT !.step = "read", !.todo = {f.stream : f \in InDay(BuildDay, Venue)}]
    /\ UNCHANGED <<pollClock, archive, writing, abandoned, polled, reserves, vouched,
                   recorderDeaths, passes, passKills>>

(* _hour_files, and the frames in them.  A frame that raises fails the     *)
(* build of the day.                                                       *)
ReadSymbol(stream) ==
    LET found == {f \in InDay(BuildDay, Venue) : f.stream = stream /\ ~Held(stream, HourAt(f.at))} IN
    /\ loop.step = "read" /\ stream \in loop.todo
    /\ loop' = IF \E f \in found : Chokes(Dataset, Venue, f.frame) THEN AfterDay
               ELSE [loop EXCEPT !.todo = @ \ {stream},
                                 !.read = @ \union {f \in found : Extracted(Dataset, Venue, f.frame)}]
    /\ UNCHANGED <<pollClock, archive, writing, abandoned, polled, reserves, vouched,
                   recorderDeaths, passes, passKills>>

FreshRows == {f \in loop.read : f.at > Watermark(Dataset, Venue)}

(* append_partition refuses a part that is there.                          *)
IsThere(p) ==
    \E q \in polled :
        <<q.dataset, q.venue, q.day, q.upto, q.hour>> = <<p.dataset, p.venue, p.day, p.upto, p.hour>>

PlanParts ==
    LET parts == {[dataset |-> Dataset, venue |-> Venue, day |-> BuildDay,
                   upto |-> Max({f.at : f \in FreshRows}), hour |-> h,
                   rows |-> {f \in FreshRows : HourAt(f.at) = h}] : h \in {HourAt(f.at) : f \in FreshRows}}
        ends == FreshRows = {} \/ \E p \in parts : IsThere(p)
    IN
    /\ loop.step = "read" /\ loop.todo = {}
    /\ loop' = IF ends THEN AfterDay ELSE [loop EXCEPT !.step = "write", !.left = parts]
    /\ vouched' = IF ends THEN vouched \union ({Dataset} \X loop.read) ELSE vouched
    /\ UNCHANGED <<pollClock, archive, writing, abandoned, polled, reserves, recorderDeaths,
                   passes, passKills>>

Earliest(p) == \A q \in loop.left : p.hour <= q.hour

StorePart(p) ==
    /\ loop.step = "write" /\ p \in loop.left /\ Earliest(p)
    /\ polled' = polled \union {p}
    /\ loop' = IF loop.left = {p} THEN AfterDay ELSE [loop EXCEPT !.left = @ \ {p}]
    /\ vouched' = IF loop.left = {p} THEN vouched \union ({p.dataset} \X loop.read) ELSE vouched
    /\ UNCHANGED <<pollClock, archive, writing, abandoned, reserves, recorderDeaths, passes,
                   passKills>>

(* A file that was reopened may end in half a frame, a disk may be full:   *)
(* the build raises, and the loop goes on.                                 *)
BuildRaises ==
    /\ loop.step \in {"read", "write"} /\ passKills < MaxPassKills
    /\ passKills' = passKills + 1
    /\ loop' = AfterDay
    /\ UNCHANGED <<pollClock, archive, writing, abandoned, polled, reserves, vouched,
                   recorderDeaths, passes>>

KillLoop ==
    /\ loop.step # "none" /\ passKills < MaxPassKills
    /\ passKills' = passKills + 1
    /\ loop' = NoLoop
    /\ UNCHANGED <<pollClock, archive, writing, abandoned, polled, reserves, vouched,
                   recorderDeaths, passes>>

(* poll_exchange_reserves: one part for each poll.  A failed fetch, and an *)
(* answer without a row, append nothing.                                   *)
PollReserves(entries) ==
    /\ loop.step = "reserves"
    /\ reserves' = reserves \union {x \in entries : ReserveOf(x)}
    /\ loop' = NoLoop
    /\ UNCHANGED <<pollClock, archive, writing, abandoned, polled, vouched,
                   recorderDeaths, passes, passKills>>

PolledNext ==
    \/ InstantGoesBy \/ RecorderDies \/ RepairMarkers
    \/ \E s \in Sources : CloseHour(s) \/ ReadSymbol(s)
    \/ \E x \in VenueAnswers : Archive(x[1], x[2])
    \/ \E of \in Builds : BeginLoop(of)
    \/ ListDay \/ PlanParts \/ BuildRaises \/ KillLoop
    \/ \E p \in loop.left : StorePart(p)
    \/ \E entries \in SUBSET ReserveEntries : PollReserves(entries)

-----------------------------------------------------------------------------
InStore(dataset, f) == \E p \in polled : p.dataset = dataset /\ f \in p.rows

PartsOf(dataset, f) == {p \in polled : p.dataset = dataset /\ p.venue = f.stream[1]}

(* What a reader of the dataset sees of a row that is not in it: a newer   *)
(* one of its venue, or the name of a part that claims to reach as far.    *)
Overtaken(dataset, f) == \E p \in PartsOf(dataset, f) : \E r \in p.rows : f.at < r.at
NamedAsBuilt(dataset, f) == \E p \in PartsOf(dataset, f) : f.at <= p.upto

(* Whatever the passes, their deaths and the hours that were open: a row   *)
(* that a finished build has read is in its dataset, or a newer row of its *)
(* own venue is; only where a build has died may it be another part's name *)
(* that stands for it.  No row is stored twice, and no ticker is both a    *)
(* perpetual's funding and a contract that expires.  A row that was        *)
(* overtaken is lost for good: ClosedHoursArePickedUp.                     *)
PolledRowsAreKept ==
    /\ \A w \in vouched : \/ InStore(w[1], w[2]) \/ Overtaken(w[1], w[2])
                          \/ passKills > 0 /\ NamedAsBuilt(w[1], w[2])
    /\ \A p \in polled : \A q \in polled \ {p} : p.dataset = q.dataset => p.rows \intersect q.rows = {}
    /\ \A f \in archive : ~(InStore("funding", f) /\ InStore("dated_futures", f))

(* _hour_files: an hour that was skipped because it was open will be picked*)
(* up by the next run once the writer closes it.  While no build dies, what*)
(* a finished build has read of the closed hours is in its dataset.        *)
ClosedHoursArePickedUp == passKills = 0 => \A w \in vouched : InStore(w[1], w[2])
=============================================================================
