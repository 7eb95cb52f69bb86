------------------------------- MODULE Brains -------------------------------
(***************************************************************************)
(* How a segment bot comes to want a trade: the rule brains of the four    *)
(* segments (perp, spot, dated, options segment_brains.py), the learned    *)
(* brains (learn/learned_brains.py) with the calibration that the bot fits *)
(* from its own closed trades (learn/online_calibration.py), the tail's    *)
(* advice (segment/profit_tail.py) and the arbiter (segment/arbiter.py).   *)
(* A quantity is an integer: a fraction of price in steps, a probability in*)
(* parts of Certain, the level of a signal by the thresholds it passes.    *)
(***************************************************************************)
EXTENDS Integers, Sequences, FiniteSets

CONSTANTS
    Spread,         \* the quoted spread
    TakeProfit,     \* profit_tail.take_profit
    MinBin,         \* MIN_BIN_COUNT
    MinScores,      \* MIN_CONFORMAL_SCORES
    ScoreWindow,    \* CONFORMAL_WINDOW
    Nothing         \* what a frame, a model or a record does not have

Certain == 20

ASSUME BrainsAssumption ==
    /\ {Spread, TakeProfit, MinBin, MinScores, ScoreWindow} \subseteq Nat
    /\ MinBin > 0 /\ MinScores > 0 /\ ScoreWindow >= MinScores
    /\ Nothing \notin Int

Largest(x, y) == IF x < y THEN y ELSE x
Smallest(x, y) == IF x < y THEN x ELSE y
Size(x) == Largest(x, -x)

-----------------------------------------------------------------------------
(* The rule brains.  A view is what they read of a frame.  A level of 1 or *)
(* more passes the threshold for a long, one of -2 or less the stricter one*)
(* for a short; a basis or an edge of -2 or 2 is worth its costs.          *)
TapeBlocks(v) ==
    v.quote # "tight" \/ v.tape = "thin" \/ v.flow = Nothing
BasisBlocks(v) ==
    v.expiry \in {"unknown", "settling"} \/ v.quote # "tight" \/ v.basis = Nothing
ChainBlocks(v) ==
    ~v.named \/ ~v.chain \/ v.edge = Nothing \/ v.money # "near" \/ v.quote # "tight"

Confidence(strength) == 11 + Smallest(8, strength)
Strength(v) == 2 * (Largest(0, Size(v.flow) - 1) + Largest(0, Size(v.drift) - 1))

PerpBull(v) ==
    IF ~TapeBlocks(v) /\ v.flow >= 1 /\ v.drift >= 1 THEN Confidence(Strength(v)) ELSE Nothing
PerpBear(v) ==
    IF ~TapeBlocks(v) /\ ~v.crowded /\ v.flow <= -2 /\ v.drift <= -2
    THEN Confidence(Strength(v)) ELSE Nothing
SpotBull(v) ==
    IF ~TapeBlocks(v) /\ v.drift >= 1 /\ v.flow >= 1 THEN Confidence(Strength(v)) ELSE Nothing
SpotBear(v) ==
    IF ~TapeBlocks(v) /\ v.drift <= -2 /\ v.flow <= -2
    THEN Confidence(Strength(v)) ELSE Nothing
DatedBull(v) ==
    IF ~BasisBlocks(v) /\ v.basis <= -2 THEN Confidence(4 * (Size(v.basis) - 2)) ELSE Nothing
DatedBear(v) ==
    IF ~BasisBlocks(v) /\ v.basis >= 2 THEN Confidence(4 * (Size(v.basis) - 2)) ELSE Nothing
OptionsBull(v) ==
    IF ~ChainBlocks(v) /\ v.edge <= -2 THEN Confidence(4 * (Size(v.edge) - 2)) ELSE Nothing
OptionsBear(v) ==
    IF ~ChainBlocks(v) /\ v.edge >= 2 THEN Confidence(4 * (Size(v.edge) - 2)) ELSE Nothing

RuleBull(s, v) ==
    CASE s = "perp" -> PerpBull(v) [] s = "spot" -> SpotBull(v)
      [] s = "dated" -> DatedBull(v) [] s = "options" -> OptionsBull(v)
RuleBear(s, v) ==
    CASE s = "perp" -> PerpBear(v) [] s = "spot" -> SpotBear(v)
      [] s = "dated" -> DatedBear(v) [] s = "options" -> OptionsBear(v)

-----------------------------------------------------------------------------
(* The calibration: observations and positives per score, the recent       *)
(* non-conformities, and how often it was updated.                         *)
Uncalibrated == [bins |-> [s \in {} |-> 0], scores |-> <<>>, updates |-> 0]

Bin(cal, score) ==
    IF score \in DOMAIN cal.bins THEN cal.bins[score] ELSE [seen |-> 0, positive |-> 0]

(* A bin with too few observations passes the raw score through.           *)
Probability(cal, score) ==
    IF Bin(cal, score).seen < MinBin THEN score
    ELSE (Certain * Bin(cal, score).positive) \div Bin(cal, score).seen

(* The score at rank ceil((n + 1)(1 - alpha)) of n, with alpha 0.35.       *)
Rank(n) == Smallest(n, (13 * (n + 1) + 19) \div 20)
Established(cal) == Len(cal.scores) >= MinScores
ErrorQuantile(cal) ==
    CHOOSE q \in {cal.scores[i] : i \in DOMAIN cal.scores} :
        LET below == {i \in DOMAIN cal.scores : cal.scores[i] < q}
            upTo == {i \in DOMAIN cal.scores : cal.scores[i] <= q}
        IN  Cardinality(below) < Rank(Len(cal.scores))
            /\ Rank(Len(cal.scores)) <= Cardinality(upTo)

NonConformity(probability) == Certain - Largest(probability, Certain - probability)
Abstains(cal, probability) ==
    ~Established(cal) \/ NonConformity(probability) > ErrorQuantile(cal)

Right(score, outcome) == (2 * score >= Certain) = (outcome = 1)

Recent(scores) ==
    IF Len(scores) > ScoreWindow
    THEN SubSeq(scores, Len(scores) - ScoreWindow + 1, Len(scores)) ELSE scores

(* observe: one realised outcome of a decision that was acted on.          *)
Observed(cal, score, outcome) ==
    [bins |-> [s \in DOMAIN cal.bins \union {score} |->
                  IF s # score THEN cal.bins[s]
                  ELSE [seen |-> Bin(cal, score).seen + 1,
                        positive |-> Bin(cal, score).positive + outcome]],
     scores |-> Recent(Append(cal.scores, IF Right(score, outcome) THEN NonConformity(score)
                                          ELSE Certain)),
     updates |-> cal.updates + 1]

(* The two learned brains read one score, the bear in reverse and with a   *)
(* penalty; the warm-up gives no score.                                    *)
LearnedBull(cal, score) ==
    IF score # Nothing /\ ~Abstains(cal, Probability(cal, score))
       /\ 2 * Probability(cal, score) > Certain
    THEN Probability(cal, score) ELSE Nothing
LearnedBear(cal, score) ==
    IF score # Nothing /\ ~Abstains(cal, Probability(cal, score))
       /\ Certain - Probability(cal, score) > Certain \div 2 + 1
    THEN Certain - Probability(cal, score) ELSE Nothing

-----------------------------------------------------------------------------
(* The tail's advice: what a trade may earn after the spread is crossed    *)
(* twice, and how far it may go wrong.  The learned tail has quantiles of  *)
(* its own; without them, or without a score, the rule answers.            *)
RuleAdvice(v) ==
    IF v.quote = "none" \/ v.reach = Nothing THEN [net |-> 0, loss |-> TakeProfit]
    ELSE [net |-> Smallest(TakeProfit, v.reach) - 2 * Spread,
          loss |-> Largest(v.reach, TakeProfit)]
LearnedAdvice(forecast) ==
    [net |-> forecast.median - 2 * Spread, loss |-> Largest(0, -forecast.low)]
Advice(v, score, forecast) ==
    IF forecast = Nothing \/ score = Nothing THEN RuleAdvice(v) ELSE LearnedAdvice(forecast)

(* The bar of a segment.                                                   *)
MinConfidence(s) == IF s = "spot" THEN 12 ELSE 11
MinMargin == 1
MaxLossTail(s) ==
    CASE s \in {"perp", "spot"} -> TakeProfit + 1 [] s = "dated" -> TakeProfit + 2
      [] s = "options" -> TakeProfit + 3

(* The arbiter: the side that is the more confident, by enough, or none.   *)
Selected(s, bull, bear, advice) ==
    LET long == IF bull = Nothing THEN 0 ELSE bull
        short == IF bear = Nothing THEN 0 ELSE bear
        surest == Largest(long, short)
    IN  IF /\ long # short /\ surest >= MinConfidence(s)
           /\ surest - Smallest(long, short) >= MinMargin
           /\ advice.net > 0 /\ advice.loss <= MaxLossTail(s)
        THEN IF long > short THEN "LONG" ELSE "SHORT"
        ELSE "ABSTAIN"
=============================================================================
