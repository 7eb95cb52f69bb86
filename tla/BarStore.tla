------------------------------- MODULE BarStore -------------------------------
(***************************************************************************)
(* The bars of one symbol, from its tape to the reader.  The recorder files*)
(* each trade in the hour it was received in, and holds that hour's marker;*)
(* what it has flushed can be read.  A live builder, one for each tier,    *)
(* writes the closed minutes of the current hour; the day build reads the  *)
(* closed hours of a day and the first hours of the next, and keeps the    *)
(* trades whose event is in the day; a correction publishes a day again.   *)
(* All of them append parts under ids that are never written twice, and    *)
(* the reader serves the row of a minute that became available last.       *)
(*                                                                         *)
(* A price, a volume or a count of a bar is a function of its trades, so a *)
(* row holds the set of its trades.                                        *)
(***************************************************************************)
EXTENDS Integers, FiniteSetsExt

CONSTANTS
    Tiers,              \* the live builders
    MinutesPerHour, HoursPerDay, LookaheadHours,
    Lags,               \* minutes from a trade's event to its receipt
    GarbledEvents,      \* events of frames whose clock is garbage
    FirstMinute, LastMinute,    \* bounds: of the clock
    MaxTrades,          \* bound: of the tape
    MaxLiveRestarts,    \* bound: of the live builders
    MaxBuilds,          \* bound: day builds that begin
    MaxBuildKills,      \* bound: day builds that are killed
    MaxCorrections      \* bound: corrections that are applied

ASSUME BarAssumption ==
    /\ MinutesPerHour \in Nat \ {0} /\ HoursPerDay \in Nat \ {0} /\ LookaheadHours \in Nat
    /\ Lags \subseteq Nat /\ GarbledEvents \subseteq Nat
    /\ FirstMinute \in Nat /\ LastMinute \in Nat /\ FirstMinute <= LastMinute /\ MaxTrades \in Nat
    /\ MaxLiveRestarts \in Nat /\ MaxBuilds \in Nat /\ MaxBuildKills \in Nat /\ MaxCorrections \in Nat

VARIABLES
    minute,         \* the clock
    tape,           \* the trades received
    readable,       \* those that a reader of the files finds
    claimed,        \* the hour whose marker the recorder holds, or NoHour
    marks,          \* written_through: tier -> the last minute it wrote, or NotYet
    parts,          \* the parts of the dataset
    quarantine,     \* the quarantine files
    build,          \* the day build in progress
    asked,          \* history: <<id, trade>> of builds that ended, for all of their hours
    liveRestarts, builds, buildKills, corrections

barVars == <<minute, tape, readable, claimed, marks, parts, quarantine, build, asked,
             liveRestarts, builds, buildKills, corrections>>

NoHour == -1
NotYet == -1

HourOf(m) == m \div MinutesPerHour
DayOf(m) == m \div (MinutesPerHour * HoursPerDay)

Minutes == FirstMinute .. LastMinute
Trade == [event : Nat, received : Minutes]
BarRow == [event : Nat, trades : SUBSET tape, available : Nat]

(* Ids: of a live part its hour, its last minute and its number of trades, *)
(* of a build the digest of what it read of its day and the names of the   *)
(* hours it left out, of a correction its moment.                          *)
Id == [kind : {"live", "day", "fix"}, of : Nat, through : Nat, count : Nat,
       digest : SUBSET tape, unread : SUBSET Nat]
Part == [id : Id, hour : Nat, rows : SUBSET BarRow]

NoId == [kind |-> "day", of |-> 0, through |-> 0, count |-> 0, digest |-> {}, unread |-> {}]
NoBuild == [step |-> "none", id |-> NoId, hours |-> {}, left |-> {}, stranded |-> {}, asked |-> {}]

BarsTypeOK ==
    /\ minute \in Minutes /\ tape \subseteq Trade /\ readable \subseteq tape
    /\ claimed \in Nat \union {NoHour} /\ marks \in [Tiers -> Nat \union {NotYet}]
    /\ \A p \in parts \union build.left :
        /\ p.id \in Id /\ p.hour \in Nat
        /\ \A r \in p.rows : r \in BarRow
    /\ \A q \in quarantine : q.id \in Id /\ q.trades \subseteq tape
    /\ build.step \in {"none", "read", "write"} /\ build.id \in Id
    /\ build.stranded \subseteq tape /\ build.asked \subseteq tape
    /\ \A w \in asked : w[1] \in Id /\ w[2] \in tape
    /\ liveRestarts \in 0 .. MaxLiveRestarts /\ builds \in 0 .. MaxBuilds
    /\ buildKills \in 0 .. MaxBuildKills /\ corrections \in 0 .. MaxCorrections

BarsInit ==
    /\ minute = FirstMinute
    /\ tape = {} /\ readable = {} /\ claimed = NoHour
    /\ marks = [b \in Tiers |-> NotYet]
    /\ parts = {} /\ quarantine = {} /\ build = NoBuild /\ asked = {}
    /\ liveRestarts = 0 /\ builds = 0 /\ buildKills = 0 /\ corrections = 0

-----------------------------------------------------------------------------
(* The recorder.                                                           *)

InHours(hours) == {t \in tape : HourOf(t.received) \in hours}

MinutePasses ==
    /\ minute < LastMinute
    /\ minute' = minute + 1
    /\ UNCHANGED <<tape, readable, claimed, marks, parts, quarantine, build, asked,
                   liveRestarts, builds, buildKills, corrections>>

(* The first trade of an hour closes the file of the hour before; any trade*)
(* claims its hour, also one that was closed.                              *)
Receive(event) ==
    LET trade == [event |-> event, received |-> minute] IN
    /\ trade \notin tape /\ Cardinality(tape) < MaxTrades
    /\ tape' = tape \union {trade}
    /\ claimed' = HourOf(minute)
    /\ readable' = IF claimed = HourOf(minute) THEN readable ELSE tape
    /\ UNCHANGED <<minute, marks, parts, quarantine, build, asked, liveRestarts, builds,
                   buildKills, corrections>>

Flush ==
    /\ readable # tape
    /\ readable' = tape
    /\ UNCHANGED <<minute, tape, claimed, marks, parts, quarantine, build, asked, liveRestarts,
                   builds, buildKills, corrections>>

(* The pool, the settling of idle hours, or a restart.                     *)
CloseHour ==
    /\ claimed # NoHour
    /\ claimed' = NoHour
    /\ readable' = tape
    /\ UNCHANGED <<minute, tape, marks, parts, quarantine, build, asked, liveRestarts, builds,
                   buildKills, corrections>>

-----------------------------------------------------------------------------
(* Mutant of Available: a bar can be had at its close.                     *)
AvailableAtClose(event, trades) == event + 1

(* When a bar became knowable: not before its last trade arrived.          *)
Available(event, trades) == Max({event + 1} \union {t.received : t \in trades})

Bar(event, trades) ==
    [event |-> event, trades |-> trades, available |-> Available(event, trades)]

(* BarAccumulator.                                                         *)
Bars(trades) == {Bar(m, {t \in trades : t.event = m}) : m \in {t.event : t \in trades}}

(* append_partition: one part for each hour of availability; nothing is    *)
(* written when one of them is there already.                              *)
PartsOf(id, rows) ==
    {[id |-> id, hour |-> h, rows |-> {r \in rows : HourOf(r.available) = h}] :
        h \in {HourOf(r.available) : r \in rows}}

Taken(new) == \E p \in new : \E q \in parts : q.id = p.id /\ q.hour = p.hour

LiveId(rows) ==
    [kind |-> "live", of |-> HourOf(minute), through |-> Max({r.event : r \in rows}),
     count |-> Cardinality(UNION {r.trades : r \in rows}), digest |-> {}, unread |-> {}]

(* build_live_hour: the minutes before that of the newest trade, which the *)
(* tier has not written.  A part that is there already is counted, and the *)
(* mark stays.                                                             *)
LiveBuild(tier) ==
    LET read == {t \in readable : HourOf(t.received) = HourOf(minute)}
        rows == {r \in Bars(read) : r.event > marks[tier]
                                    /\ \E t \in read : r.event < t.event}
        new == PartsOf(LiveId(rows), rows)
    IN
    /\ rows # {} /\ ~Taken(new)
    /\ parts' = parts \union new
    /\ marks' = [marks EXCEPT ![tier] = Max({r.event : r \in rows})]
    /\ UNCHANGED <<minute, tape, readable, claimed, quarantine, build, asked, liveRestarts,
                   builds, buildKills, corrections>>

(* A restarted loop begins without marks.                                  *)
LiveRestart(tier) ==
    /\ marks[tier] # NotYet /\ liveRestarts < MaxLiveRestarts
    /\ liveRestarts' = liveRestarts + 1
    /\ marks' = [marks EXCEPT ![tier] = NotYet]
    /\ UNCHANGED <<minute, tape, readable, claimed, parts, quarantine, build, asked, builds,
                   buildKills, corrections>>

-----------------------------------------------------------------------------
(* The hours a build of a day looks at: its own, and the lookahead.        *)
OwnHours(d) == d * HoursPerDay .. (d + 1) * HoursPerDay - 1
Ahead(d) == (d + 1) * HoursPerDay .. (d + 1) * HoursPerDay + LookaheadHours - 1
Captured(hours) == {h \in hours : InHours({h}) # {}}
Looked(d) == Captured(OwnHours(d) \union Ahead(d))

(* Mutant of Unread: an hour that is left out is not named.                *)
UnreadUnnamed(d) == {}

(* The hours a writer holds are left out, and the id names them.           *)
Unread(d) == Looked(d) \intersect {claimed}

(* compute_snapshot_id: the content of the closed hours of the day itself. *)
DayId(d) ==
    [kind |-> "day", of |-> d, through |-> 0, count |-> 0,
     digest |-> InHours(OwnHours(d) \ {claimed}), unread |-> Unread(d)]

(* Mutant of Covered: whatever lies in the first hours is left to the build*)
(* of the day before.                                                      *)
CoveredByItsFile(d, t) == HourOf(t.received) - d * HoursPerDay \in 0 .. LookaheadHours - 1

(* _is_within_previous_days_lookahead.                                     *)
Covered(d, t) ==
    /\ HourOf(t.received) - d * HoursPerDay \in 0 .. LookaheadHours - 1
    /\ DayOf(t.event) >= d - 1

Kept(d, read) == {t \in read : DayOf(t.event) = d}
Stranded(d, read) == {t \in read : DayOf(t.event) < d /\ ~Covered(d, t)}

(* The supervisor builds yesterday and today; a day without files raises.  *)
BeginBuild(d) ==
    /\ build.step = "none" /\ builds < MaxBuilds
    /\ builds' = builds + 1
    /\ Captured(OwnHours(d)) # {}
    /\ build' = [step |-> "read", id |-> DayId(d), hours |-> Looked(d) \ {claimed},
                 left |-> {}, stranded |-> {}, asked |-> InHours(Looked(d))]
    /\ UNCHANGED <<minute, tape, readable, claimed, marks, parts, quarantine, asked,
                   liveRestarts, buildKills, corrections>>

(* The files are read, some of them longer than when they were listed, and *)
(* the parts planned.  The build ends here when one of them is there.      *)
ReadHours ==
    LET read == InHours(build.hours) \intersect readable
        new == PartsOf(build.id, Bars(Kept(build.id.of, read)))
    IN
    /\ build.step = "read"
    /\ build' = IF Taken(new) THEN NoBuild
                ELSE [build EXCEPT !.step = "write", !.left = new,
                                   !.stranded = Stranded(build.id.of, read)]
    /\ UNCHANGED <<minute, tape, readable, claimed, marks, parts, quarantine, asked,
                   liveRestarts, builds, buildKills, corrections>>

(* A file that was reopened may end in half a frame: the build raises.     *)
ReadRaises ==
    /\ build.step = "read" /\ claimed \in build.hours
    /\ build' = NoBuild
    /\ UNCHANGED <<minute, tape, readable, claimed, marks, parts, quarantine, asked,
                   liveRestarts, builds, buildKills, corrections>>

(* One part at a time, the earliest hour first.                            *)
WritePart(p) ==
    /\ build.step = "write" /\ p \in build.left
    /\ \A q \in build.left : p.hour <= q.hour
    /\ parts' = parts \union {p}
    /\ build' = [build EXCEPT !.left = @ \ {p}]
    /\ UNCHANGED <<minute, tape, readable, claimed, marks, quarantine, asked, liveRestarts,
                   builds, buildKills, corrections>>

(* The quarantine file comes last.  A build that finds it there raises.    *)
EndBuild ==
    LET named == IF build.stranded = {} THEN {}
                 ELSE {[id |-> build.id, trades |-> build.stranded]}
        raises == named # {} /\ \E q \in quarantine : q.id = build.id
    IN
    /\ build.step = "write" /\ build.left = {}
    /\ quarantine' = IF raises THEN quarantine ELSE quarantine \union named
    /\ asked' = IF raises THEN asked ELSE asked \union ({build.id} \X build.asked)
    /\ build' = NoBuild
    /\ UNCHANGED <<minute, tape, readable, claimed, marks, parts, liveRestarts, builds,
                   buildKills, corrections>>

KillBuild ==
    /\ build.step # "none" /\ buildKills < MaxBuildKills
    /\ buildKills' = buildKills + 1
    /\ build' = NoBuild
    /\ UNCHANGED <<minute, tape, readable, claimed, marks, parts, quarantine, asked,
                   liveRestarts, builds, corrections>>

(* republish_day: the bars of a scratch build, available from now on.      *)
Correct(d) ==
    LET read == InHours(Looked(d) \ {claimed})
        rows == {[r EXCEPT !.available = minute] : r \in Bars(Kept(d, read))}
        id == [NoId EXCEPT !.kind = "fix", !.of = d, !.through = minute]
        new == PartsOf(id, rows)
    IN
    /\ corrections < MaxCorrections
    /\ rows # {} /\ ~Taken(new)
    /\ corrections' = corrections + 1
    /\ parts' = parts \union new
    /\ UNCHANGED <<minute, tape, readable, claimed, marks, quarantine, build, asked,
                   liveRestarts, builds, buildKills>>

BarsNext ==
    \/ MinutePasses \/ Flush \/ CloseHour
    \/ \E lag \in Lags : lag <= minute /\ Receive(minute - lag)
    \/ \E event \in GarbledEvents : Receive(event)
    \/ \E tier \in Tiers : LiveBuild(tier) \/ LiveRestart(tier)
    \/ \E d \in {DayOf(minute) - 1, DayOf(minute)} : BeginBuild(d) \/ Correct(d)
    \/ \E p \in build.left : WritePart(p)
    \/ ReadHours \/ ReadRaises \/ EndBuild \/ KillBuild

-----------------------------------------------------------------------------
(* The order of parts of one hour in a read, which is that of their names. *)
NameRank(kind) == CASE kind = "day" -> 1 [] kind = "fix" -> 2 [] kind = "live" -> 3

(* The rows a reader may serve for a minute: those that are available, and *)
(* of these the last, in the order of the names where two are as late.     *)
Candidates(m, clock) ==
    {x \in UNION {p.rows \X {p} : p \in parts} : x[1].event = m /\ x[1].available <= clock}

Before(x, y) ==
    \/ x[1].available < y[1].available
    \/ x[1].available = y[1].available /\ NameRank(x[2].id.kind) < NameRank(y[2].id.kind)

Served(m, clock) ==
    {x[1] : x \in {y \in Candidates(m, clock) : ~\E z \in Candidates(m, clock) : Before(y, z)}}

EventsStored == {r.event : r \in UNION {p.rows : p \in parts}}

(* Whatever was built, republished or built again, and whichever row is    *)
(* served, a replay at a past moment sees no trade received after it.      *)
NothingFromTheFuture ==
    \A m \in EventsStored, clock \in Minutes :
        \A r \in Served(m, clock) : \A t \in r.trades : t.received <= clock

(* A trade that a build looked at is stored in its minute, left to the     *)
(* build of the day before or of a later day, or named in a quarantine.    *)
Stored(t) == \E p \in parts : \E r \in p.rows : p.id.kind = "day" /\ t \in r.trades
Quarantined(t) == \E q \in quarantine : t \in q.trades
LeftToAnother(d, t) ==
    \/ DayOf(t.event) > d
    \/ DayOf(t.event) = d - 1 /\ HourOf(t.received) \in Ahead(d - 1)

(* The id of a build that ended refuses every build like it.  So it vouches*)
(* for all trades in the hours it does not name as unread: none of them is *)
(* missing from the store without a word.                                  *)
IdsVouchForTheirTrades ==
    \A w \in asked :
        LET d == w[1].of
            t == w[2]
        IN HourOf(t.received) \in w[1].unread
           \/ (IF DayOf(t.event) = d THEN Stored(t) ELSE LeftToAnother(d, t) \/ Quarantined(t))

(* "the complete bar supersedes the provisional one automatically": once a *)
(* build has stored a trade in its minute, the row a backtest sees has it. *)
CompleteBarsAreServed ==
    \A w \in asked :
        Stored(w[2]) => \A r \in Served(w[2].event, LastMinute) : w[2] \in r.trades

-----------------------------------------------------------------------------
(* The paper feed over these bars: MarketReplay as they are built, in one  *)
(* process of the forward engine that began before the first of them.  A   *)
(* poll reads the rows that are as late as the latest it has read, and     *)
(* feeds the minutes it has not fed.                                       *)

CONSTANT MaxPolls       \* bound: polls that read something

ASSUME FeedAssumption == MaxPolls \in Nat

VARIABLES
    watermark,      \* _availability_watermark
    emitted,        \* the minutes of _emitted
    polls

feedVars == <<watermark, emitted, polls>>

FeedTypeOK == watermark \in Nat /\ emitted \subseteq Nat /\ polls \in 0 .. MaxPolls

FeedInit == watermark = 0 /\ emitted = {} /\ polls = 0

(* read_as_of with a lower bound, inclusive: of the rows that are late     *)
(* enough the last of each minute.                                         *)
ReadFrom(bound, clock) ==
    {r \in UNION {Served(m, clock) : m \in EventsStored} : r.available >= bound}

Poll ==
    LET rows == ReadFrom(watermark, minute) IN
    /\ polls < MaxPolls /\ rows # {}
    /\ polls' = polls + 1
    /\ watermark' = Max({watermark} \union {r.available : r \in rows})
    /\ emitted' = emitted \union {r.event : r \in rows}
    /\ UNCHANGED barVars

FeedNext == Poll \/ (BarsNext /\ UNCHANGED feedVars)

FeedSpec == BarsInit /\ FeedInit /\ [][FeedNext]_<<barVars, feedVars>>
=============================================================================
