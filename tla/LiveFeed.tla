------------------------------ MODULE LiveFeed ------------------------------
(***************************************************************************)
(* What a segment bot knows of the market, for one symbol: connections of  *)
(* several kinds share one buffer (live/live_feed.py), the poll of the     *)
(* engine drains it into rolling features (segment/live_features.py), the  *)
(* segment admits the symbol or not (perp, spot, dated, options            *)
(* tradable_universe.py), and the engine manages its position and then     *)
(* considers an entry (segment/live_engine.py).  The threads receive while *)
(* the engine polls; the engine is slow, is killed and comes back.         *)
(***************************************************************************)
EXTENDS Integers, Sequences, FiniteSets

CONSTANTS
    Plays,          \* the segments that are traded, each with what the symbol is listed as
    QuietAfter,     \* the age of the newest tick at which the feed is quiet
    BufferSize,     \* ticks that the buffer holds (DEFAULT_BUFFER)
    Ring,           \* observations kept of the symbol (MAX_OBSERVATIONS)
    MinSamples,     \* observations that a frame needs
    LongestWait,    \* the cap of the backoff
    LastInstant,    \* bound: the last instant
    MaxFeedFaults   \* bound: how often a connection fails or the engine is killed

(* The rows of the venues' listings, by what they say of an instrument.    *)
(* Perpetuals on shares and metals carry a delivery date too.              *)
Kinds == {"perpetual", "tradfi", "quarter", "suspended", "bybit perpetual", "bybit dated",
          "pair", "option"}

ASSUME LiveFeedAssumption ==
    /\ Plays \subseteq {"perp", "spot", "dated", "options"} \X Kinds
    /\ {QuietAfter, BufferSize, Ring, MinSamples, LongestWait, LastInstant,
        MaxFeedFaults} \subseteq Nat
    /\ BufferSize > 0 /\ MinSamples > 0 /\ Ring >= MinSamples

VARIABLES
    segment,        \* the segment that is played
    listing,        \* what the venue lists the symbol as
    instant,        \* the clock
    links,          \* the connections: their state and their backoff
    ticks,          \* the buffer
    newestTick,     \* when the newest tick that was ever buffered was received
    sight,          \* the rolling features of the symbol
    stage,          \* where the engine is in its poll, and the clock it took
    hands,          \* whether a position is open
    heard,          \* the sides that the venue quoted since the engine started, and when
    deal,           \* the last trade that the engine made
    feedFaults

symbolVars == <<segment, listing>>
marketVars == <<symbolVars, instant, links, ticks, newestTick, sight, stage, hands, heard, deal,
                   feedFaults>>

-----------------------------------------------------------------------------
OnBinance(k) == k \in {"perpetual", "tradfi", "quarter", "suspended"}
Trading(k) == k # "suspended"
Contract(k) ==
    CASE k \in {"perpetual", "suspended"} -> "PERPETUAL"
      [] k = "tradfi" -> "TRADIFI_PERPETUAL" [] k = "quarter" -> "CURRENT_QUARTER"
      [] OTHER -> "none"
Crypto(k) == k # "tradfi"
Delivers(k) == k \in {"perpetual", "tradfi", "quarter", "suspended", "bybit dated"}

(* universe_discovery: what each segment keeps of them.                    *)
PerpKeeps(k) == OnBinance(k) /\ Trading(k) /\ Contract(k) = "PERPETUAL" /\ Crypto(k)
SpotKeeps(k) == k = "pair" /\ Trading(k)
DatedByDelivery(k) ==
    Trading(k) /\ Delivers(k) /\ (OnBinance(k) => Contract(k) # "PERPETUAL")
DatedKeeps(k) ==
    IF OnBinance(k) THEN Trading(k) /\ Contract(k) = "CURRENT_QUARTER" /\ Crypto(k)
    ELSE Delivers(k)
OptionsKeep(k) == k = "option"

Discovered(s, k) ==
    CASE s = "perp" -> PerpKeeps(k) [] s = "spot" -> SpotKeeps(k)
      [] s = "dated" -> DatedKeeps(k) [] s = "options" -> OptionsKeep(k)

(* What a tick of a connection may carry for the symbol: nothing when it   *)
(* is of another symbol or of the funding; a print only where prints are   *)
(* asked for.  The board of quotes shows everything the venue trades, the  *)
(* other connections what was discovered.                                  *)
Other == {{}}
Quote == {"bid", "ask"}
OneSided == {{"bid"}, {"ask"}}
Crossed == {{"bid", "ask", "crossed"}}
Of(listed, has) == IF listed THEN has ELSE {}

AllQuotes(k) == Other \union Of(OnBinance(k) /\ Trading(k), {Quote})
TradeShards(s, k) == Other \union Of(Discovered(s, k), {{"print"}})
PairShards(k) == Other \union Of(SpotKeeps(k), {Quote, {"print"}})
Funding(k) == Other
DatedMarks(k) == Other
DatedQuotes(k) == Of(OnBinance(k) /\ DatedKeeps(k), {Quote} \union OneSided)
BybitBoard(k) ==
    Other \union Of(k \in {"bybit perpetual", "bybit dated"}, {Quote} \union OneSided)
Chain(k) == Other \union Of(OptionsKeep(k), {Quote} \union OneSided \union Crossed)

Connections(s, k) ==
    CASE s = "perp" -> <<AllQuotes(k), TradeShards(s, k), Funding(k)>>
      [] s = "spot" -> <<PairShards(k)>>
      [] s = "dated" -> <<DatedMarks(k), DatedQuotes(k), BybitBoard(k)>>
      [] s = "options" -> <<Chain(k)>>

(* The thresholds of a segment, in the order in which they really are.     *)
MaxQuoteAge(s) ==
    CASE s = "perp" -> 0 [] s = "spot" -> 1 [] s = "dated" -> QuietAfter
      [] s = "options" -> QuietAfter + 1
Window(s) == IF s \in {"perp", "spot"} THEN QuietAfter + 1 ELSE QuietAfter + 2
MinTrades(s) == CASE s = "perp" -> 2 [] s = "spot" -> 1 [] OTHER -> 0

Links == DOMAIN Connections(segment, listing)

Never == -1
Unseen == [sides |-> {}, quoted |-> Never, mids |-> {}, prints |-> 0]
Asleep == [at |-> Never, step |-> "sleep"]
Unheard == [sides |-> {}, quotes |-> {}]
NoDeal == [kind |-> "none", at |-> Never]
Fresh == [state |-> "up", backoff |-> 1, until |-> 0]

Instants == {Never} \union 0..LastInstant

MarketTypeOK ==
    /\ <<segment, listing>> \in Plays /\ instant \in 0..LastInstant
    /\ \A l \in Links :
        /\ links[l].state \in {"up", "down"}
        /\ links[l].backoff \in 1..LongestWait
    /\ Len(ticks) <= BufferSize /\ newestTick \in Instants
    /\ sight.mids \subseteq 0..LastInstant /\ Cardinality(sight.mids) <= Ring
    /\ sight.sides \subseteq Quote /\ sight.quoted \in Instants
    /\ stage.step \in {"sleep", "drain", "decide"} /\ stage.at \in Instants
    /\ hands \in BOOLEAN
    /\ feedFaults \in 0..MaxFeedFaults

MarketInit ==
    /\ \E play \in Plays : segment = play[1] /\ listing = play[2]
    /\ instant = 0
    /\ links = [l \in Links |-> Fresh]
    /\ ticks = <<>> /\ newestTick = Never /\ sight = Unseen /\ heard = Unheard
    /\ stage = Asleep /\ hands = FALSE /\ deal = NoDeal
    /\ feedFaults = 0

-----------------------------------------------------------------------------
(* The threads of the feed: a tick is stamped as it comes.                 *)
InstantPasses ==
    /\ instant < LastInstant
    /\ instant' = instant + 1
    /\ UNCHANGED <<symbolVars, links, ticks, newestTick, sight, stage, hands, heard, deal,
                   feedFaults>>

(* A full buffer drops its oldest tick.                                    *)
Deliver(l) ==
    /\ links[l].state = "up"
    /\ \E has \in Connections(segment, listing)[l] :
        /\ ticks' = Append(IF Len(ticks) = BufferSize THEN Tail(ticks) ELSE ticks,
                          [at |-> instant, has |-> has])
        /\ heard' = IF has \intersect Quote = {} THEN heard
                    ELSE [sides |-> heard.sides \union (has \intersect Quote),
                          quotes |-> heard.quotes \union {instant}]
    /\ newestTick' = instant
    /\ UNCHANGED <<symbolVars, instant, links, sight, stage, hands, deal, feedFaults>>

(* Whatever the connection raises, the thread waits and connects again; it *)
(* never returns in order but to stop, so the backoff only grows.          *)
LoseConnection(l) ==
    /\ feedFaults < MaxFeedFaults
    /\ links[l].state = "up"
    /\ links' = [links EXCEPT ![l].state = "down",
                              ![l].until = instant + links[l].backoff,
                              ![l].backoff = IF 2 * @ > LongestWait THEN LongestWait ELSE 2 * @]
    /\ feedFaults' = feedFaults + 1
    /\ UNCHANGED <<symbolVars, instant, ticks, newestTick, sight, stage, hands, heard, deal>>

Reconnect(l) ==
    /\ links[l].state = "down" /\ instant >= links[l].until
    /\ links' = [links EXCEPT ![l].state = "up", ![l].until = 0]
    /\ UNCHANGED <<symbolVars, instant, ticks, newestTick, sight, stage, hands, heard, deal,
                   feedFaults>>

-----------------------------------------------------------------------------
(* LiveFeatureFrames.update, which folds the ticks of a poll, the oldest   *)
(* first: the sides that were ever seen, the time of the last quote, an    *)
(* observation of the mid where both sides are known by then and not       *)
(* crossed, at most one at a time (a tick is never received before the     *)
(* ticks ahead of it); the ring keeps the newest.                          *)
Trimmed(mids) == {m \in mids : Cardinality({n \in mids : n > m}) < Ring}

Quotes == {i \in DOMAIN ticks : ticks[i].has \intersect Quote # {}}
Prints == {i \in DOMAIN ticks : "print" \in ticks[i].has}

SidesBy(i) == sight.sides \union UNION {ticks[j].has \intersect Quote : j \in 1..i}

Observed == {ticks[i].at : i \in {j \in Quotes : "crossed" \notin ticks[j].has
                                                 /\ SidesBy(j) = Quote}}

LastQuoted ==
    IF Quotes = {} THEN sight.quoted
    ELSE ticks[CHOOSE i \in Quotes : \A j \in Quotes : j <= i].at

SeenAtDrain ==
    [sides |-> SidesBy(Len(ticks)),
     quoted |-> IF Quotes = {} THEN sight.quoted ELSE instant,
     mids |-> IF Quotes = {} THEN sight.mids ELSE Trimmed(sight.mids \union {instant}),
     prints |-> sight.prints + Cardinality(Prints)]

Seen ==
    [sides |-> SidesBy(Len(ticks)), quoted |-> LastQuoted,
     mids |-> Trimmed(sight.mids \union Observed),
     prints |-> sight.prints + Cardinality(Prints)]

(* The poll: the clock, the ticks that have come by then or since, the     *)
(* decision by that clock.                                                 *)
TakeClock ==
    /\ stage.step = "sleep"
    /\ stage' = [step |-> "drain", at |-> instant]
    /\ deal' = NoDeal
    /\ UNCHANGED <<symbolVars, instant, links, ticks, newestTick, sight, hands, heard,
                   feedFaults>>

Drain ==
    /\ stage.step = "drain"
    /\ ticks' = <<>>
    /\ sight' = Seen
    /\ stage' = [stage EXCEPT !.step = "decide"]
    /\ UNCHANGED <<symbolVars, instant, links, newestTick, hands, heard, deal, feedFaults>>

Live == newestTick # Never /\ stage.at - newestTick <= QuietAfter

FrameOfAll ==
    /\ sight.sides = Quote
    /\ Cardinality(sight.mids) >= MinSamples

Frame ==
    /\ sight.sides = Quote
    /\ Cardinality({m \in sight.mids : m >= stage.at - Window(segment)}) >= MinSamples

(* The dated segment asks for the delivery that came with the ticks.       *)
IsOfSegment == segment = "dated" => Delivers(listing)

AdmitsAnyAge == Frame /\ IsOfSegment /\ sight.prints >= MinTrades(segment)

AdmitsUntraded == Frame /\ IsOfSegment /\ stage.at - sight.quoted <= MaxQuoteAge(segment)

Admits ==
    /\ Frame /\ IsOfSegment
    /\ stage.at - sight.quoted <= MaxQuoteAge(segment)
    /\ sight.prints >= MinTrades(segment)

(* A position is managed on any frame; an entry needs the admission.  A    *)
(* closed position leaves the symbol free in the same poll.                *)
DecidePoll ==
    /\ stage.step = "decide"
    /\ \/ UNCHANGED <<hands, deal>>
       \/ /\ Live /\ Frame /\ hands
          /\ hands' = FALSE
          /\ deal' = [kind |-> "close", at |-> stage.at]
       \/ /\ Live /\ Admits
          /\ hands' = TRUE
          /\ deal' = [kind |-> "open", at |-> stage.at]
    /\ sight' = [sight EXCEPT !.prints = 0]
    /\ stage' = Asleep
    /\ UNCHANGED <<symbolVars, instant, links, ticks, newestTick, heard, feedFaults>>

(* A kill takes the threads, the buffer and the features; the journal      *)
(* gives the position back to the engine that is started next.             *)
RestartEngine ==
    /\ feedFaults < MaxFeedFaults
    /\ feedFaults' = feedFaults + 1
    /\ links' = [l \in Links |-> Fresh]
    /\ ticks' = <<>> /\ newestTick' = Never /\ sight' = Unseen /\ heard' = Unheard
    /\ stage' = Asleep /\ deal' = NoDeal
    /\ UNCHANGED <<symbolVars, instant, hands>>

MarketNext ==
    \/ InstantPasses \/ TakeClock \/ Drain \/ DecidePoll \/ RestartEngine
    \/ \E l \in Links : Deliver(l) \/ LoseConnection(l) \/ Reconnect(l)

-----------------------------------------------------------------------------
(* What a segment is for.                                                  *)
Meant ==
    [perp |-> {"perpetual"}, spot |-> {"pair"}, dated |-> {"quarter", "bybit dated"},
     options |-> {"option"}]

(* The engine trades on what this process has just watched.  Whenever it   *)
(* trades, the venue has quoted both sides of the symbol since the engine  *)
(* was started, and has quoted it at MinSamples moments of the window that *)
(* ended with the poll; an entry also needs a quote not older than the     *)
(* segment allows.  Nothing that a connection delivered late, that was     *)
(* dropped by a full buffer, or that an earlier process had seen makes up  *)
(* for it.  And whatever quotes the connections bring, it trades only      *)
(* instruments of the kind that its segment is for.                        *)
TradesNeedALiveMarket ==
    deal.kind # "none" =>
        /\ listing \in Meant[segment]
        /\ heard.sides = Quote
        /\ Cardinality({q \in heard.quotes : q >= deal.at - Window(segment)}) >=
               MinSamples
        /\ deal.kind = "open" =>
               \E q \in heard.quotes : q >= deal.at - MaxQuoteAge(segment)

MarketSpec == MarketInit /\ [][MarketNext]_marketVars
=============================================================================
