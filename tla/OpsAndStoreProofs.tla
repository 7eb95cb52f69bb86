-------------------------- MODULE OpsAndStoreProofs --------------------------
(***************************************************************************)
(* What the parts of MCData promise, for any constants.  First the watches *)
(* of the host, for any number of processes and venues and any length of   *)
(* time: the budget of requests, the halts of venues, and the ledger of    *)
(* outages.  Then what turns files and connections into what others rely   *)
(* on: the market a live bot sees, the bars a backtest reads, and the      *)
(* boards an operator reads.                                               *)
(***************************************************************************)
EXTENDS Integers, Sequences, RateBudget, VenueHalts, LivenessLedger, BarStore, StatusWall,
        LiveFeed, LineLogProofs, FiniteSetTheorems

-----------------------------------------------------------------------------
(* The budget.  What a state is worth is its tokens and the refill that is *)
(* due on it; a call can only lower that by what it grants, time raises it *)
(* by no more than the refill, and a boot makes nothing of it.             *)

LEMMA MaxOfTwo ==
    ASSUME NEW x \in Int, NEW y \in Int
    PROVE  Max({x, y}) = IF x >= y THEN x ELSE y
BY DEF Max

LEMMA MinOfTwo ==
    ASSUME NEW x \in Int, NEW y \in Int
    PROVE  Min({x, y}) = IF x <= y THEN x ELSE y
BY DEF Min

Caller == [step : {"outside", "decided", "emptied"}, next : Bucket, granted : Nat]

(* Types, the bounds aside.                                                *)
BudgetTyped ==
    /\ pulse \in Nat /\ bootedAt \in 0 .. pulse
    /\ bucket \in Bucket /\ blank \in BOOLEAN
    /\ spender \in [Spenders -> Caller]
    /\ spent \in Nat /\ wipes \in Nat

(* One caller is inside the lock, and the file is empty while it writes.   *)
OneInside ==
    /\ \A p, q \in Spenders :
        spender[p].step # "outside" /\ spender[q].step # "outside" => p = q
    /\ \A p \in Spenders : spender[p].step = "emptied" => blank

(* The time for which a refill of the state b is due.                      *)
Due(b) == IF Uptime >= b.updatedAt THEN Uptime - b.updatedAt ELSE 0
Worth(b) == b.tokens + Refill * Due(b)

Allowance == Capacity * (1 + wipes) + Refill * pulse
Fits(weight) == spent + weight <= Allowance

BudgetInv ==
    /\ BudgetTyped /\ OneInside
    /\ (\A p \in Spenders : spender[p].step # "emptied") => Fits(Worth(Read))
    /\ \A p \in Spenders :
        spender[p].step # "outside" => Fits(spender[p].granted + Worth(spender[p].next))

LEMMA OutsideIsACaller == Outside \in Caller /\ Outside.step = "outside"
BY BudgetAssumption DEF Outside, FullBucket, Bucket, Caller

LEMMA ReadWorth ==
    ASSUME BudgetTyped
    PROVE  Read \in Bucket /\ Uptime \in Nat /\ (blank => Worth(Read) = Capacity)
<1>1. Uptime \in Nat
    BY DEF BudgetTyped, Uptime
<1>2. FullBucket \in Bucket
    BY BudgetAssumption DEF FullBucket, Bucket
<1>3. CASE blank
    <2>1. Read = [tokens |-> Capacity, updatedAt |-> Uptime, blockedUntil |-> 0]
        BY <1>3 DEF Read, FullBucket
    <2>2. Read \in Bucket /\ Read.tokens = Capacity /\ Read.updatedAt = Uptime
        BY <1>1, <2>1, BudgetAssumption DEF Bucket
    <2>3. Due(Read) = 0
        BY <1>1, <2>2 DEF Due
    <2> QED BY <1>1, <2>2, <2>3, BudgetAssumption DEF Worth
<1>4. CASE ~blank
    BY <1>1, <1>4 DEF Read, BudgetTyped
<1> QED BY <1>3, <1>4

LEMMA AllowanceType ==
    ASSUME NEW w \in Nat, NEW n \in Nat
    PROVE  Capacity * (1 + w) + Refill * n \in Nat
<1>1. Capacity * (1 + w) \in Nat /\ Refill * n \in Nat
    BY BudgetAssumption
<1> QED BY <1>1

LEMMA WorthType ==
    ASSUME BudgetTyped, NEW b \in Bucket
    PROVE  Due(b) \in Nat /\ Worth(b) \in Nat /\ b.tokens <= Worth(b)
<1>1. b.tokens \in Nat /\ b.updatedAt \in Nat /\ Uptime \in Nat
    BY DEF Bucket, BudgetTyped, Uptime
<1>2. Due(b) \in Nat
    BY <1>1 DEF Due
<1>3. Refill * Due(b) \in Nat
    BY <1>2, BudgetAssumption
<1> QED BY <1>1, <1>2, <1>3 DEF Worth

(* A refill adds no more than is due, and leaves nothing due.              *)
LEMMA RefillWorth ==
    ASSUME BudgetTyped, NEW b \in Bucket
    PROVE  /\ Refilled(b) \in Bucket /\ Refilled(b).tokens <= Worth(b)
           /\ \A n \in Nat : n <= Refilled(b).tokens =>
                /\ [Refilled(b) EXCEPT !.tokens = @ - n] \in Bucket
                /\ n + Worth([Refilled(b) EXCEPT !.tokens = @ - n]) <= Worth(b)
<1> DEFINE filled == b.tokens + Refill * Due(b)
           level == IF Capacity <= filled THEN Capacity ELSE filled
<1>1. b.tokens \in Nat /\ b.updatedAt \in Nat /\ Uptime \in Nat
    BY DEF Bucket, BudgetTyped, Uptime
<1>2. filled \in Nat /\ filled = Worth(b)
    BY WorthType DEF Worth
<1>3. Max({Uptime, b.updatedAt}) - b.updatedAt = Due(b)
    BY <1>1, MaxOfTwo DEF Due
<1>4. Min({Capacity, filled}) = level /\ level \in Nat /\ level <= filled
    <2> HIDE DEF filled
    <2> QED BY <1>2, MinOfTwo, BudgetAssumption
<1>5. Refilled(b) = [tokens |-> level, updatedAt |-> Uptime, blockedUntil |-> b.blockedUntil]
    <2>1. b.tokens + Refill * (Max({Uptime, b.updatedAt}) - b.updatedAt) = filled
        BY <1>3
    <2>2. Refilled(b) = [b EXCEPT !.tokens = level, !.updatedAt = Uptime]
        BY <1>4, <2>1 DEF Refilled
    <2> HIDE DEF level
    <2> QED BY <2>2 DEF Bucket
<1> HIDE DEF filled, level
<1>6. Refilled(b) \in Bucket /\ Refilled(b).tokens = level /\ Refilled(b).updatedAt = Uptime
    BY <1>1, <1>4, <1>5 DEF Bucket
<1>7. ASSUME NEW n \in Nat, n <= level
      PROVE  /\ [Refilled(b) EXCEPT !.tokens = @ - n] \in Bucket
             /\ n + Worth([Refilled(b) EXCEPT !.tokens = @ - n]) <= Worth(b)
    <2> DEFINE c == [Refilled(b) EXCEPT !.tokens = @ - n]
    <2>1. c \in Bucket /\ c.tokens = level - n /\ c.updatedAt = Uptime
        BY <1>4, <1>6, <1>7 DEF Bucket
    <2> HIDE DEF c
    <2>2. Due(c) = 0
        BY <1>1, <2>1 DEF Due
    <2>3. Worth(c) = level - n
        BY <1>4, <1>7, <2>1, <2>2, BudgetAssumption DEF Worth
    <2> QED BY <1>2, <1>4, <1>7, <2>1, <2>3 DEF c
<1> QED BY <1>2, <1>4, <1>6, <1>7

(* A call that is decided is worth no more than the state it read.         *)
LEMMA DecideFits ==
    ASSUME BudgetInv, NEW p \in Spenders, NEW next \in Bucket, NEW granted \in Nat,
           granted + Worth(next) <= Worth(Read), Decide(p, next, granted)
    PROVE  BudgetInv'
<1> USE DEF BudgetInv
<1>1. /\ \A q \in Spenders : spender[q].step = "outside"
      /\ spender' = [spender EXCEPT ![p] =
                        [step |-> "decided", next |-> next, granted |-> granted]]
      /\ UNCHANGED <<pulse, bootedAt, bucket, blank, spent, wipes>>
    BY DEF Decide, LockFree
<1>2. BudgetTyped'
    BY <1>1 DEF BudgetTyped, Caller
<1>3. /\ spender'[p].step = "decided" /\ spender'[p].next = next
      /\ spender'[p].granted = granted
      /\ \A q \in Spenders \ {p} : spender'[q].step = "outside"
    BY <1>1 DEF BudgetTyped
<1>4. OneInside'
    BY <1>3 DEF OneInside
<1>5. Fits(Worth(Read))' /\ Fits(Worth(Read))
    BY <1>1 DEF Fits, Allowance, Worth, Due, Uptime, Read
<1>6. Fits(granted + Worth(next))
    <2>1. Worth(Read) \in Nat /\ Worth(next) \in Nat
        BY ReadWorth, WorthType
    <2>2. Allowance \in Nat /\ spent \in Nat
        BY BudgetAssumption DEF BudgetTyped, Allowance
    <2> QED BY <1>5, <2>1, <2>2 DEF Fits
<1>7. Fits(spender[p].granted + Worth(spender[p].next))'
    BY <1>1, <1>3, <1>6 DEF Fits, Allowance, Worth, Due, Uptime
<1> QED BY <1>2, <1>3, <1>4, <1>5, <1>7

LEMMA DecisionStep ==
    ASSUME BudgetInv, NEW p \in Spenders,
           \/ Banned(p) \/ Look(p) \/ AskForBan(p)
           \/ \E w \in Weights : Refused(p, w) \/ Granted(p, w)
           \/ \E length \in BanLengths : NoteRateLimited(p, length)
    PROVE  BudgetInv'
<1>1. Read \in Bucket /\ Uptime \in Nat /\ Worth(Read) \in Nat /\ BudgetTyped
    BY ReadWorth, WorthType DEF BudgetInv
<1>2. CASE Banned(p) \/ AskForBan(p)
    <2>1. Decide(p, Read, 0)
        BY <1>2 DEF Banned, AskForBan
    <2>2. 0 + Worth(Read) <= Worth(Read)
        BY <1>1
    <2> QED BY <1>1, <2>1, <2>2, DecideFits
<1>3. ASSUME NEW n \in Nat, n <= Refilled(Read).tokens,
             Decide(p, [Refilled(Read) EXCEPT !.tokens = @ - n], n)
      PROVE  BudgetInv'
    <2> DEFINE c == [Refilled(Read) EXCEPT !.tokens = @ - n]
    <2>1. c \in Bucket /\ n + Worth(c) <= Worth(Read)
        BY <1>1, <1>3, RefillWorth
    <2>2. Decide(p, c, n)
        BY <1>3
    <2> HIDE DEF c
    <2> QED BY <2>1, <2>2, DecideFits
<1>4. Refilled(Read) \in Bucket
    BY <1>1, RefillWorth
<1>5. ASSUME Decide(p, Refilled(Read), 0) PROVE BudgetInv'
    <2>1. [Refilled(Read) EXCEPT !.tokens = @ - 0] = Refilled(Read) /\ 0 <= Refilled(Read).tokens
        BY <1>4 DEF Bucket
    <2> QED BY <1>3, <1>5, <2>1
<1>6. CASE Look(p) \/ \E w \in Weights : Refused(p, w)
    BY <1>5, <1>6 DEF Look, Refused
<1>7. ASSUME NEW w \in Weights, Granted(p, w) PROVE BudgetInv'
    <2>1. w \in Nat /\ w <= Refilled(Read).tokens
        BY <1>4, <1>7, BudgetAssumption DEF Granted, Bucket
    <2> QED BY <1>3, <1>7, <2>1 DEF Granted
<1>8. ASSUME NEW length \in BanLengths, NoteRateLimited(p, length) PROVE BudgetInv'
    <2> DEFINE c == [tokens |-> 0, updatedAt |-> Uptime, blockedUntil |-> Uptime + length]
    <2>1. c \in Bucket /\ c.tokens = 0 /\ c.updatedAt = Uptime
        BY <1>1, BudgetAssumption DEF Bucket
    <2>2. Decide(p, c, 0)
        BY <1>8 DEF NoteRateLimited
    <2> HIDE DEF c
    <2>3. Due(c) = 0
        BY <1>1, <2>1 DEF Due
    <2>4. Worth(c) = 0
        BY <2>1, <2>3, BudgetAssumption DEF Worth
    <2>5. 0 + Worth(c) <= Worth(Read)
        BY <1>1, <2>4
    <2> QED BY <2>1, <2>2, <2>5, DecideFits
<1> QED BY <1>2, <1>6, <1>7, <1>8

LEMMA WriteFits ==
    ASSUME BudgetInv, NEW p \in Spenders, Truncate(p) \/ WriteBucket(p)
    PROVE  BudgetInv'
<1> USE DEF BudgetInv
<1>1. BudgetTyped /\ \A q \in Spenders \ {p} : spender[q].step = "outside"
    BY DEF OneInside, Truncate, WriteBucket, BudgetTyped
<1>2. Fits(spender[p].granted + Worth(spender[p].next))
    BY DEF Truncate, WriteBucket
<1>3. CASE Truncate(p)
    <2>1. /\ spender' = [spender EXCEPT ![p].step = "emptied"] /\ blank' = TRUE
          /\ UNCHANGED <<pulse, bootedAt, bucket, spent, wipes>>
        BY <1>3 DEF Truncate
    <2>2. /\ spender'[p].step = "emptied" /\ spender'[p].next = spender[p].next
          /\ spender'[p].granted = spender[p].granted
          /\ \A q \in Spenders \ {p} : spender'[q].step = "outside"
        BY <1>1, <2>1 DEF BudgetTyped, Caller
    <2>3. BudgetTyped' /\ OneInside'
        BY <1>1, <2>1, <2>2 DEF BudgetTyped, Caller, OneInside
    <2>4. Fits(spender[p].granted + Worth(spender[p].next))'
        BY <1>2, <2>1, <2>2 DEF Fits, Allowance, Worth, Due, Uptime
    <2> QED BY <2>2, <2>3, <2>4
<1>4. CASE WriteBucket(p)
    <2>1. /\ bucket' = spender[p].next /\ blank' = FALSE
          /\ spent' = spent + spender[p].granted
          /\ spender' = [spender EXCEPT ![p] = Outside]
          /\ UNCHANGED <<pulse, bootedAt, wipes>>
        BY <1>4 DEF WriteBucket
    <2>2. \A q \in Spenders : spender'[q].step = "outside"
        BY <1>1, <2>1, OutsideIsACaller DEF BudgetTyped
    <2>3. BudgetTyped'
        <3>1. spender[p].next \in Bucket /\ spender[p].granted \in Nat
            BY DEF BudgetTyped, Caller
        <3>2. spender' \in [Spenders -> Caller]
            BY <2>1, OutsideIsACaller DEF BudgetTyped
        <3>3. bucket' \in Bucket /\ blank' \in BOOLEAN
            BY <2>1, <3>1
        <3>4. spent' \in Nat /\ wipes' \in Nat /\ pulse' \in Nat /\ bootedAt' \in 0 .. pulse'
            BY <2>1, <3>1 DEF BudgetTyped
        <3> QED BY <3>2, <3>3, <3>4 DEF BudgetTyped
    <2>4. OneInside'
        BY <2>2 DEF OneInside
    <2>5. Fits(Worth(Read))'
        <3>1. Worth(Read)' = Worth(spender[p].next)
            BY <2>1 DEF Worth, Due, Uptime, Read
        <3>2. Worth(spender[p].next) \in Nat /\ spender[p].granted \in Nat
            BY WorthType DEF BudgetTyped, Caller
        <3>3. Allowance' = Allowance /\ Allowance \in Nat /\ spent \in Nat
            BY <2>1, BudgetAssumption DEF BudgetTyped, Allowance
        <3> QED BY <1>2, <2>1, <3>1, <3>2, <3>3 DEF Fits
    <2> QED BY <2>2, <2>3, <2>4, <2>5
<1> QED BY <1>3, <1>4

LEMMA KillFits ==
    ASSUME BudgetInv, NEW p \in Spenders, KillSpender(p)
    PROVE  BudgetInv'
<1> USE DEF BudgetInv
<1>1. BudgetTyped /\ spender[p].step # "outside"
      /\ \A q \in Spenders \ {p} : spender[q].step = "outside"
    BY DEF OneInside, KillSpender, BudgetTyped
<1>2. /\ wipes' = IF spender[p].step = "emptied" THEN wipes + 1 ELSE wipes
      /\ spender' = [spender EXCEPT ![p] = Outside]
      /\ UNCHANGED <<pulse, bootedAt, bucket, blank, spent>>
    BY DEF KillSpender
<1>3. \A q \in Spenders : spender'[q].step = "outside"
    BY <1>1, <1>2, OutsideIsACaller DEF BudgetTyped
<1>4. BudgetTyped'
    BY <1>2, OutsideIsACaller DEF BudgetTyped
<1>5. OneInside'
    BY <1>3 DEF OneInside
<1>6. Worth(Read)' = Worth(Read)
    BY <1>2 DEF Worth, Due, Uptime, Read
<1>7. Fits(Worth(Read))'
    <2>1. CASE spender[p].step # "emptied"
        <3>1. Fits(Worth(Read))
            BY <1>1, <2>1
        <3> QED BY <1>2, <1>6, <2>1, <3>1 DEF Fits, Allowance
    <2>2. CASE spender[p].step = "emptied"
        <3>1. Fits(spender[p].granted + Worth(spender[p].next))
            BY <1>1
        <3>2. Worth(spender[p].next) \in Nat /\ spender[p].granted \in Nat
            BY WorthType DEF BudgetTyped, Caller
        <3>3. Allowance \in Nat /\ spent \in Nat /\ Allowance' = Allowance + Capacity
            BY <1>2, <2>2, BudgetAssumption DEF BudgetTyped, Allowance
        <3>4. spent <= Allowance
            BY <3>1, <3>2, <3>3 DEF Fits
        <3>5. Worth(Read) = Capacity
            BY <1>1, <2>2, ReadWorth DEF OneInside
        <3> QED BY <1>2, <1>6, <3>3, <3>4, <3>5, BudgetAssumption DEF Fits
    <2> QED BY <2>1, <2>2
<1> QED BY <1>3, <1>4, <1>5, <1>7

LEMMA ClockFits ==
    ASSUME BudgetInv, PulseMoves \/ Boot
    PROVE  BudgetInv'
<1> USE DEF BudgetInv
<1>1. UNCHANGED <<bucket, blank, spender, spent, wipes>>
    BY DEF PulseMoves, Boot
<1>2. BudgetTyped' /\ OneInside'
    BY <1>1 DEF PulseMoves, Boot, BudgetTyped, OneInside
<1>3. Allowance \in Nat /\ Allowance' \in Nat /\ spent \in Nat /\ Capacity \in Nat
    <2>1. wipes \in Nat /\ wipes' \in Nat /\ pulse \in Nat /\ pulse' \in Nat /\ spent \in Nat
        BY <1>2 DEF BudgetTyped
    <2> QED BY <2>1, AllowanceType, BudgetAssumption DEF Allowance
(* Time is worth to a state no more than to the allowance.                 *)
<1>4. ASSUME NEW b \in Bucket
      PROVE  Worth(b)' - Worth(b) <= Allowance' - Allowance
    <2>1. b.tokens \in Nat /\ b.updatedAt \in Nat
        BY DEF Bucket
    <2>2. CASE PulseMoves
        <3>1. Due(b) \in Nat /\ Due(b)' \in Nat /\ Due(b)' <= Due(b) + 1
            BY <2>1, <2>2 DEF PulseMoves, Due, Uptime, BudgetTyped
        <3>2. Refill * Due(b)' <= Refill * Due(b) + Refill
            <4>1. \A n \in Nat, m \in Nat : m <= n + 1 => Refill * m <= Refill * n + Refill
                BY BudgetAssumption
            <4> QED BY <3>1, <4>1
        <3>3. Allowance' = Allowance + Refill
            <4>1. Refill * (pulse + 1) = Refill * pulse + Refill
                BY BudgetAssumption DEF BudgetTyped
            <4>2. Refill * pulse \in Nat /\ Capacity * (1 + wipes) \in Nat
                BY BudgetAssumption DEF BudgetTyped
            <4> QED BY <1>1, <2>2, <4>1, <4>2, BudgetAssumption DEF PulseMoves, Allowance
        <3>4. Refill * Due(b) \in Nat /\ Refill * Due(b)' \in Nat
            BY <3>1, BudgetAssumption
        <3> QED BY <1>3, <2>1, <3>2, <3>3, <3>4, BudgetAssumption DEF Worth
    <2>3. CASE Boot
        <3>1. Allowance' = Allowance
            BY <1>1, <2>3 DEF Boot, Allowance
        <3>2. Due(b)' = 0
            BY <2>1, <2>3 DEF Boot, Due, Uptime, BudgetTyped
        <3>3. Worth(b)' = b.tokens
            BY <2>1, <3>2, BudgetAssumption DEF Worth
        <3>4. b.tokens <= Worth(b) /\ Worth(b) \in Nat
            BY WorthType
        <3> QED BY <1>3, <2>1, <3>1, <3>3, <3>4
    <2> QED BY <2>2, <2>3
<1>5. \A b \in Bucket : Worth(b) \in Nat /\ Worth(b)' \in Int
    <2> SUFFICES ASSUME NEW b \in Bucket PROVE Worth(b)' \in Int
        BY WorthType
    <2>1. b.tokens \in Nat /\ b.updatedAt \in Nat
        BY DEF Bucket
    <2>2. Due(b)' \in Nat
        BY <1>2, <2>1 DEF Due, Uptime, BudgetTyped
    <2> QED BY <2>1, <2>2, BudgetAssumption DEF Worth
<1>6. ASSUME NEW p \in Spenders, spender[p].step # "outside"
      PROVE  Fits(spender[p].granted + Worth(spender[p].next))'
    <2>1. spender[p].next \in Bucket /\ spender[p].granted \in Nat
        BY DEF BudgetTyped, Caller
    <2>2. PICK b \in Bucket, n \in Nat : b = spender[p].next /\ n = spender[p].granted
        BY <2>1
    <2>3. spent + (n + Worth(b)) <= Allowance
        BY <1>6, <2>2 DEF Fits
    <2>4. spent' + (n + Worth(b)') <= Allowance'
        BY <1>1, <1>3, <1>4, <1>5, <2>3
    <2> QED BY <1>1, <2>2, <2>4 DEF Fits, Worth, Due
<1>7. ASSUME \A p \in Spenders : spender[p].step # "emptied"
      PROVE  Fits(Worth(Read))'
    <2>1. Fits(Worth(Read))
        BY <1>7
    <2>2. CASE blank
        <3>1. Worth(Read) = Capacity
            BY <2>2, ReadWorth
        <3>2. Worth(Read)' = Capacity
            <4>0. pulse' \in Nat /\ bootedAt' \in Nat /\ bootedAt' <= pulse'
                BY <1>1 DEF PulseMoves, Boot, BudgetTyped
            <4>1. PICK u \in Nat : u = pulse' - bootedAt'
                <5>1. \A x, y \in Nat : y <= x => \E u \in Nat : u = x - y
                    BY SMT
                <5> QED BY <4>0, <5>1, Zenon
            <4>2. Read' = [tokens |-> Capacity, updatedAt |-> u, blockedUntil |-> 0]
                BY <1>1, <2>2, <4>1 DEF Read, FullBucket, Uptime
            <4>3. Read'.tokens = Capacity /\ Read'.updatedAt = u
                BY <4>2
            <4>4. Due(Read)' = IF u >= Read'.updatedAt THEN u - Read'.updatedAt ELSE 0
                BY <4>1 DEF Due, Uptime
            <4>5. Worth(Read)' = Capacity + Refill * 0
                BY <4>1, <4>3, <4>4 DEF Worth
            <4> QED BY <4>5, BudgetAssumption
        <3>3. Allowance <= Allowance'
            <4>1. \A n \in Nat : Refill * (n + 1) = Refill * n + Refill /\ Refill * n \in Nat
                BY BudgetAssumption
            <4>2. Capacity * (1 + wipes) \in Nat
                BY BudgetAssumption DEF BudgetTyped
            <4> QED BY <1>1, <4>1, <4>2, BudgetAssumption
                   DEF PulseMoves, Boot, Allowance, BudgetTyped
        <3> QED BY <1>1, <1>3, <2>1, <3>1, <3>2, <3>3 DEF Fits
    <2>3. CASE ~blank
        <3>1. PICK b \in Bucket : b = bucket
            BY DEF BudgetTyped
        <3>2. spent + Worth(b) <= Allowance
            BY <2>1, <2>3, <3>1 DEF Fits, Read
        <3>3. spent' + Worth(b)' <= Allowance'
            BY <1>1, <1>3, <1>4, <1>5, <3>2
        <3> QED BY <1>1, <2>3, <3>1, <3>3 DEF Fits, Worth, Due, Read
    <2> QED BY <2>2, <2>3
<1>8. \A p \in Spenders : spender'[p] = spender[p]
    BY <1>1
<1> QED BY <1>2, <1>6, <1>7, <1>8

LEMMA BudgetInvHolds == BudgetSpec => []BudgetInv
<1>1. BudgetInit => BudgetInv
    <2> SUFFICES ASSUME BudgetInit PROVE BudgetInv
        OBVIOUS
    <2>1. /\ pulse = 0 /\ bootedAt = 0 /\ bucket = FullBucket /\ blank = TRUE
          /\ spender = [p \in Spenders |-> Outside] /\ spent = 0 /\ wipes = 0
        BY DEF BudgetInit
    <2>2. \A p \in Spenders : spender[p].step = "outside"
        BY <2>1, OutsideIsACaller
    <2>3. BudgetTyped
        <3>1. FullBucket \in Bucket
            BY BudgetAssumption DEF FullBucket, Bucket
        <3> QED BY <2>1, <3>1, OutsideIsACaller DEF BudgetTyped
    <2>4. OneInside
        BY <2>2 DEF OneInside
    <2>5. Fits(Worth(Read))
        <3>1. Worth(Read) = Capacity
            BY <2>1, <2>3, ReadWorth
        <3>2. Allowance = Capacity * 1 + Refill * 0
            BY <2>1 DEF Allowance
        <3> QED BY <2>1, <3>1, <3>2, BudgetAssumption DEF Fits
    <2> QED BY <2>2, <2>3, <2>4, <2>5 DEF BudgetInv
<1>2. BudgetInv /\ [BudgetNext]_budgetVars => BudgetInv'
    <2> SUFFICES ASSUME BudgetInv, [BudgetNext]_budgetVars PROVE BudgetInv'
        OBVIOUS
    <2>1. CASE PulseMoves \/ Boot
        BY <2>1, ClockFits
    <2>2. ASSUME NEW p \in Spenders,
                 \/ Banned(p) \/ Look(p) \/ AskForBan(p)
                 \/ \E w \in Weights : Refused(p, w) \/ Granted(p, w)
                 \/ \E length \in BanLengths : NoteRateLimited(p, length)
          PROVE  BudgetInv'
        BY <2>2, DecisionStep
    <2>3. ASSUME NEW p \in Spenders, Truncate(p) \/ WriteBucket(p) PROVE BudgetInv'
        BY <2>3, WriteFits
    <2>4. ASSUME NEW p \in Spenders, KillSpender(p) PROVE BudgetInv'
        BY <2>4, KillFits
    <2>5. CASE UNCHANGED budgetVars
        BY <2>5 DEF budgetVars, BudgetInv, BudgetTyped, OneInside, Fits, Allowance, Worth, Due,
                    Uptime, Read
    <2> QED BY <2>1, <2>2, <2>3, <2>4, <2>5 DEF BudgetNext
<1> QED BY <1>1, <1>2, PTL DEF BudgetSpec

(* However many processes poll, and wherever they are killed, what they    *)
(* spend fits one bucket, its refill, and a bucket for every state that a  *)
(* kill emptied (rate_budget.py, try_spend).                               *)
THEOREM SpendingFits == BudgetSpec => []SpendFits
<1>1. BudgetInv => SpendFits
    <2> SUFFICES ASSUME BudgetInv PROVE spent <= Allowance
        BY DEF SpendFits, Allowance
    <2>1. BudgetTyped
        BY DEF BudgetInv
    <2>2. Allowance \in Nat /\ spent \in Nat
        BY <2>1, AllowanceType DEF BudgetTyped, Allowance
    <2>3. CASE \A p \in Spenders : spender[p].step # "emptied"
        <3>1. Worth(Read) \in Nat /\ Fits(Worth(Read))
            BY <2>1, <2>3, ReadWorth, WorthType DEF BudgetInv
        <3> QED BY <2>2, <3>1 DEF Fits
    <2>4. ASSUME NEW p \in Spenders, spender[p].step = "emptied" PROVE spent <= Allowance
        <3>1. Worth(spender[p].next) \in Nat /\ spender[p].granted \in Nat
            BY <2>1, WorthType DEF BudgetTyped, Caller
        <3>2. Fits(spender[p].granted + Worth(spender[p].next))
            BY <2>4 DEF BudgetInv
        <3> QED BY <2>2, <3>1, <3>2 DEF Fits
    <2> QED BY <2>3, <2>4
<1> QED BY <1>1, BudgetInvHolds, PTL

-----------------------------------------------------------------------------
(* The halts.  A venue whose corrupting report was kept stays halted, and  *)
(* its dwell begins no earlier than that, in the file and in the copy of a *)
(* pass, until the dwell is over.                                          *)

WatchPass == [step : {"none", "observe", "persist"}, entries : [Venues -> Entry],
              left : SUBSET Venues, at : SUBSET Venues]

HaltsTyped ==
    /\ wall \in Ticks /\ halts \in [Venues -> Entry] /\ watch \in WatchPass
    /\ lastCorrupt \in [Venues -> (0 .. wall) \union {NeverYet}]

StaysHalted(v, e) ==
    \/ lastCorrupt[v] = NeverYet
    \/ e.halted /\ e.healthySince >= lastCorrupt[v]
    \/ wall >= lastCorrupt[v] + Dwell

HaltsInv ==
    /\ HaltsTyped
    /\ \A v \in Venues : StaysHalted(v, halts[v])
    /\ watch.step # "none" => \A v \in Venues : StaysHalted(v, watch.entries[v])
    /\ \A v \in watch.at : watch.entries[v].halted /\ watch.entries[v].healthySince = NeverYet

LEMMA NoEntryIsAnEntry == NoEntries \in [Venues -> Entry] /\ NoPass \in WatchPass
<1>1. NoEntry \in Entry
    BY HaltsAssumption DEF NoEntry, Entry, NeverYet
<1>2. NoEntries \in [Venues -> Entry]
    BY <1>1 DEF NoEntries
<1> QED BY <1>2 DEF NoPass, WatchPass

LEMMA WatchFields ==
    ASSUME HaltsTyped
    PROVE  /\ watch.entries \in [Venues -> Entry] /\ watch.left \in SUBSET Venues
           /\ watch.at \in SUBSET Venues /\ wall \in Nat /\ wall < NeverYet /\ NeverYet \in Nat
           /\ \A v \in Venues : lastCorrupt[v] \in (0 .. wall) \union {NeverYet}
BY HaltsAssumption DEF HaltsTyped, WatchPass, Ticks, NeverYet

(* What a report makes of an entry.                                        *)
LEMMA ObservedEntry ==
    ASSUME HaltsTyped, NEW v \in Venues, NEW e \in Entry, StaysHalted(v, e)
    PROVE  /\ Sick(e) \in Entry /\ StaysHalted(v, Sick(e))
           /\ Healthy(e) \in Entry /\ StaysHalted(v, Healthy(e))
<1>1. /\ wall \in Nat /\ wall < NeverYet /\ NeverYet \in Nat
      /\ lastCorrupt[v] \in (0 .. wall) \union {NeverYet} /\ Dwell \in Nat
    BY HaltsAssumption, WatchFields DEF HaltsTyped
<1>2. Sick(e) \in Entry /\ StaysHalted(v, Sick(e))
    BY <1>1 DEF Sick, Entry, StaysHalted
<1>3. e.halted \in BOOLEAN /\ e.healthySince \in 0 .. NeverYet
    BY DEF Entry
<1>4. PICK since \in 0 .. NeverYet :
        since = IF e.healthySince = NeverYet THEN wall ELSE e.healthySince
    BY <1>1, <1>3
<1>5. PICK h \in BOOLEAN : h = (e.halted /\ wall - since < Dwell)
    OBVIOUS
<1>6. Healthy(e) = [known |-> TRUE, halted |-> h, healthySince |-> since]
    BY <1>4, <1>5 DEF Healthy
<1>7. Healthy(e) \in Entry /\ Healthy(e).halted = h /\ Healthy(e).healthySince = since
    BY <1>6 DEF Entry
<1>8. StaysHalted(v, Healthy(e))
    <2>1. CASE lastCorrupt[v] = NeverYet \/ wall >= lastCorrupt[v] + Dwell
        BY <2>1 DEF StaysHalted
    <2>2. CASE ~(lastCorrupt[v] = NeverYet \/ wall >= lastCorrupt[v] + Dwell)
        <3>1. e.halted /\ e.healthySince >= lastCorrupt[v]
            BY <2>2 DEF StaysHalted
        <3>2. since >= lastCorrupt[v]
            BY <1>1, <1>4, <2>2, <3>1
        <3>3. wall - since < Dwell
            BY <1>1, <1>4, <2>2, <3>2
        <3> QED BY <1>5, <1>7, <3>1, <3>2, <3>3 DEF StaysHalted
    <2> QED BY <2>1, <2>2
<1> QED BY <1>2, <1>7, <1>8

LEMMA PassStep ==
    ASSUME HaltsInv, BeginPass \/ Persist \/ EndPass \/ KillPass
    PROVE  HaltsInv'
<1> USE DEF HaltsInv
<1>1. HaltsTyped /\ UNCHANGED wall
    BY DEF BeginPass, Persist, EndPass, KillPass
<1>2. CASE BeginPass
    <2>1. /\ watch' = [step |-> "observe", entries |-> halts, left |-> Venues, at |-> {}]
          /\ UNCHANGED <<halts, lastCorrupt>>
        BY <1>2 DEF BeginPass
    <2>2. watch' \in WatchPass /\ watch'.entries = halts /\ watch'.at = {}
        BY <1>1, <2>1 DEF HaltsTyped, WatchPass
    <2> QED BY <1>1, <2>1, <2>2 DEF HaltsTyped, StaysHalted, NeverYet
<1>3. CASE EndPass \/ KillPass
    <2>1. watch' = NoPass /\ UNCHANGED <<halts, lastCorrupt>>
        BY <1>3 DEF EndPass, KillPass
    <2>2. watch' \in WatchPass /\ watch'.at = {} /\ watch'.step = "none"
        BY <2>1, NoEntryIsAnEntry DEF NoPass
    <2> QED BY <1>1, <2>1, <2>2 DEF HaltsTyped, StaysHalted, NeverYet
<1>4. CASE Persist
    <2>1. /\ watch.step = "persist" /\ halts' = watch.entries
          /\ lastCorrupt' = [v \in Venues |-> IF v \in watch.at THEN wall ELSE lastCorrupt[v]]
          /\ watch' = [watch EXCEPT !.step = "observe", !.at = {}]
        BY <1>4 DEF Persist
    <2>2. watch' \in WatchPass /\ watch'.entries = watch.entries /\ watch'.at = {}
        BY <1>1, <2>1 DEF HaltsTyped, WatchPass
    <2>3. lastCorrupt' \in [Venues -> (0 .. wall') \union {NeverYet}]
        BY <1>1, <2>1, WatchFields DEF HaltsTyped
    <2>4. HaltsTyped'
        BY <1>1, <2>1, <2>2, <2>3, WatchFields DEF HaltsTyped, NeverYet
    <2>5. ASSUME NEW v \in Venues PROVE StaysHalted(v, watch.entries[v])'
        <3>1. StaysHalted(v, watch.entries[v])
            BY <2>1
        <3>2. PICK e \in Entry : e = watch.entries[v]
            BY WatchFields
        <3>3. CASE v \in watch.at
            <4>1. lastCorrupt'[v] = wall /\ e.halted /\ e.healthySince = NeverYet
                BY <2>1, <3>2, <3>3
            <4> QED BY <1>1, <2>2, <3>2, <4>1, WatchFields DEF StaysHalted
        <3>4. CASE v \notin watch.at
            <4>1. lastCorrupt'[v] = lastCorrupt[v]
                BY <2>1, <3>4
            <4> QED BY <1>1, <2>2, <3>1, <4>1 DEF StaysHalted, NeverYet
        <3> QED BY <3>3, <3>4
    <2> QED BY <2>1, <2>2, <2>4, <2>5 DEF StaysHalted
<1> QED BY <1>2, <1>3, <1>4

LEMMA ObserveStep ==
    ASSUME HaltsInv, NEW v \in Venues, Observe(v) \/ SkipVenue(v)
    PROVE  HaltsInv'
<1> USE DEF HaltsInv
<1>1. /\ HaltsTyped /\ watch.step = "observe" /\ UNCHANGED <<wall, halts, lastCorrupt>>
      /\ \A u \in Venues : StaysHalted(u, watch.entries[u])
    BY DEF Observe, SkipVenue
<1>2. CASE SkipVenue(v)
    <2>1. watch' = [watch EXCEPT !.left = @ \ {v}]
        BY <1>2 DEF SkipVenue
    <2>2. watch' \in WatchPass /\ watch'.entries = watch.entries /\ watch'.at = watch.at
        BY <1>1, <2>1 DEF HaltsTyped, WatchPass
    <2> QED BY <1>1, <2>2 DEF HaltsTyped, StaysHalted, NeverYet
<1>3. CASE Observe(v)
    <2>1. PICK e \in Entry : e = watch.entries[v]
        BY <1>1, WatchFields
    <2>2. PICK after \in Entry :
            /\ after = IF v \in corrupting THEN Sick(e) ELSE Healthy(e)
            /\ StaysHalted(v, after)
        BY <1>1, <2>1, ObservedEntry
    <2>3. watch' = [step |-> "persist", entries |-> [watch.entries EXCEPT ![v] = after],
                    left |-> watch.left \ {v}, at |-> {v} \intersect corrupting]
        BY <1>3, <2>1, <2>2 DEF Observe
    <2>4. /\ watch' \in WatchPass /\ watch'.entries[v] = after
          /\ \A u \in Venues \ {v} : watch'.entries[u] = watch.entries[u]
          /\ watch'.at = {v} \intersect corrupting
        BY <1>1, <2>3, WatchFields DEF WatchPass
    <2>5. \A u \in Venues : StaysHalted(u, watch'.entries[u])
        BY <1>1, <2>2, <2>4
    <2>6. \A u \in watch'.at : watch'.entries[u].halted /\ watch'.entries[u].healthySince = NeverYet
        <3>1. v \in corrupting => after.halted /\ after.healthySince = NeverYet
            BY <2>2 DEF Sick
        <3> QED BY <2>4, <3>1
    <2> QED BY <1>1, <2>4, <2>5, <2>6 DEF HaltsTyped, StaysHalted, NeverYet
<1> QED BY <1>2, <1>3

LEMMA HaltsInvHolds == HaltsSpec => []HaltsInv
<1>1. HaltsInit => HaltsInv
    <2> SUFFICES ASSUME HaltsInit PROVE HaltsInv
        OBVIOUS
    <2>1. /\ wall = 0 /\ halts = NoEntries /\ watch = NoPass
          /\ lastCorrupt = [v \in Venues |-> NeverYet]
        BY DEF HaltsInit
    <2>2. HaltsTyped
        BY <2>1, NoEntryIsAnEntry, HaltsAssumption DEF HaltsTyped, Ticks
    <2>3. watch.at = {} /\ watch.step = "none"
        BY <2>1 DEF NoPass
    <2> QED BY <2>1, <2>2, <2>3 DEF HaltsInv, StaysHalted
<1>2. HaltsInv /\ [HaltsNext]_haltVars => HaltsInv'
    <2> SUFFICES ASSUME HaltsInv, [HaltsNext]_haltVars PROVE HaltsInv'
        OBVIOUS
    <2>1. CASE BeginPass \/ Persist \/ EndPass \/ KillPass
        BY <2>1, PassStep
    <2>2. ASSUME NEW v \in Venues, Observe(v) \/ SkipVenue(v) PROVE HaltsInv'
        BY <2>2, ObserveStep
    <2>3. CASE WallMoves
        <3>1. /\ wall < LastTick /\ wall' = wall + 1 /\ UNCHANGED <<halts, watch, lastCorrupt>>
            BY <2>3 DEF WallMoves
        <3>2. /\ HaltsTyped /\ wall \in Nat /\ LastTick \in Nat /\ Dwell \in Nat
              /\ \A v \in Venues : lastCorrupt[v] \in Nat
            BY HaltsAssumption, WatchFields DEF HaltsInv
        <3>3. HaltsTyped'
            BY <3>1, <3>2 DEF HaltsTyped, Ticks, NeverYet
        <3>4. \A v \in Venues : \A e : StaysHalted(v, e) => StaysHalted(v, e)'
            BY <3>1, <3>2 DEF StaysHalted, NeverYet
        <3> QED BY <3>1, <3>3, <3>4 DEF HaltsInv
    <2>4. CASE UNCHANGED <<wall, halts, watch, lastCorrupt>>
        BY <2>4 DEF HaltsInv, HaltsTyped, Ticks, StaysHalted, NeverYet
    <2>5. ASSUME NEW v \in Venues, DayBegins(v) \/ Corrupts(v) PROVE HaltsInv'
        BY <2>4, <2>5 DEF DayBegins, Corrupts
    <2> QED BY <2>1, <2>2, <2>3, <2>4, <2>5 DEF HaltsNext, haltVars
<1> QED BY <1>1, <1>2, PTL DEF HaltsSpec

(* No venue is traded before it looked healthy for the dwell since its     *)
(* last corrupting report was kept, whatever day begins and whichever pass *)
(* is killed (venue_halts.py, observe).                                    *)
THEOREM HaltsOutlast == HaltsSpec => []HaltsOutlastTheirCause
<1>1. HaltsInv => HaltsOutlastTheirCause
    BY DEF HaltsInv, StaysHalted, HaltsOutlastTheirCause, Tradeable
<1> QED BY <1>1, HaltsInvHolds, PTL

-----------------------------------------------------------------------------
(* The ledger of outages.                                                  *)

Line == Outage \union {Torn}

LEMMA TornIsNoOutage == Torn \notin Outage
<1>1. \A o \in Outage : DOMAIN o = {"last", "returned", "reconstructed"}
    BY DEF Outage
<1>2. DOMAIN Torn = {"event"}
    BY DEF Torn
<1>3. "event" \notin {"last", "returned", "reconstructed"}
    OBVIOUS
<1> QED BY <1>1, <1>2, <1>3, Zenon

LEMMA RowsAreOutages ==
    ASSUME NEW l \in Seq(Line)
    PROVE  /\ WholeRows(l) \subseteq Outage /\ DOMAIN l = 1 .. Len(l) /\ Len(l) \in Nat
           /\ \A i \in 1 .. Len(l) : l[i] \in Line /\ (l[i] # Torn => l[i] \in WholeRows(l))
           /\ \A o \in WholeRows(l) : \E i \in 1 .. Len(l) : l[i] = o /\ l[i] # Torn
           /\ IsFiniteSet(TornLines(l)) /\ TornLines(l) \subseteq 1 .. Len(l)
<1>1. DOMAIN l = 1 .. Len(l) /\ Len(l) \in Nat /\ \A i \in 1 .. Len(l) : l[i] \in Line
    BY LenProperties, ElementOfSeq
<1>2. \A i \in 1 .. Len(l) : l[i] # Torn => l[i] \in Outage
    BY <1>1 DEF Line
<1>3. WholeRows(l) \subseteq Outage
    BY <1>1, <1>2, Zenon DEF WholeRows
<1>4. TornLines(l) \subseteq 1 .. Len(l)
    BY <1>1 DEF TornLines
<1>5. IsFiniteSet(1 .. Len(l))
    BY <1>1, FS_Interval
<1> QED BY <1>1, <1>3, <1>4, <1>5, FS_Subset, Zenon DEF WholeRows

LEMMA PutLine ==
    ASSUME NEW l \in Seq(Line), NEW u \in BOOLEAN, u => l # <<>>, NEW row \in Line
    PROVE  /\ Put(l, u, row) \in Seq(Line) /\ Put(l, u, row) # <<>>
           /\ Put(l, u, row)[Len(Put(l, u, row))] = IF u THEN Torn ELSE row
           /\ ~u => AddsItself(l, row, Put(l, u, row))
           /\ u => TakesTheLast(l, Put(l, u, row))
<1>1. Torn \in Line
    BY DEF Line
<1> QED BY <1>1, PutReads, ZenonT(60)

HoleComing == stamp # 0 /\ tick.now - stamp > Threshold

Records(o, i) == <<o.last, o.returned>> = <<seen[i], seen[i + 1]>>

Ticking == [step : {"none", "append", "stamp"}, now : 0 .. LastBeat]

(* Types; the stamps rise, and the stamp file holds the last of them.      *)
LedgerTyped ==
    /\ beat \in Beats /\ stamp \in 0 .. LastBeat
    /\ outages \in Seq(Line) /\ outagesCut \in BOOLEAN
    /\ tick \in Ticking
    /\ seen \in Seq(Beats)
    /\ stepsBack \in Nat

StampsRise ==
    /\ \A i, j \in 1 .. Len(seen) : i < j => seen[i] < seen[j]
    /\ stamp = IF Len(seen) = 0 THEN 0 ELSE seen[Len(seen)]
    /\ tick.step # "none" => tick.now \in Beats /\ tick.now >= stamp

(* A row that may yet be lost is that of a hole that never came about, and *)
(* a tick only writes a row or a stamp of its own hole.                    *)
CutLine ==
    /\ outagesCut => outages # <<>>
    /\ outagesCut /\ outages[Len(outages)] # Torn =>
        \A i \in Holes : ~Records(outages[Len(outages)], i)
    /\ tick.step = "append" => HoleComing
    /\ tick.step = "stamp" /\ outagesCut => ~HoleComing

(* A torn line that has not cost its row yet, or whose row is the one the  *)
(* next stamp will need.                                                   *)
Debt ==
    \/ outagesCut /\ outages[Len(outages)] = Torn
    \/ /\ tick.step = "stamp" /\ HoleComing
       /\ \A o \in ReadOutages : <<o.last, o.returned>> # <<stamp, tick.now>>

CountOf(debt) == IF debt THEN 1 ELSE 0

HolesAreCounted == Cardinality(Unrecorded) + CountOf(Debt) <= Cardinality(TornLines(outages))

(* While the clock is not set back.                                        *)
RowsArePast ==
    stepsBack = 0 =>
        /\ tick.step # "none" => tick.now <= beat
        /\ \A o \in ReadOutages :
            /\ o.returned <= beat /\ (tick.step # "none" => o.returned <= tick.now)
            /\ \A i \in 1 .. Len(seen) : seen[i] <= o.last \/ o.returned <= seen[i]

LedgerInv == LedgerTyped /\ StampsRise /\ CutLine /\ HolesAreCounted /\ RowsArePast

LEMMA LedgerFacts ==
    ASSUME LedgerTyped
    PROVE  /\ ReadOutages = WholeRows(outages) /\ ReadOutages \subseteq Outage
           /\ Len(seen) \in Nat /\ DOMAIN seen = 1 .. Len(seen)
           /\ \A i \in 1 .. Len(seen) : seen[i] \in Nat
           /\ beat \in Nat /\ stamp \in Nat /\ tick.now \in Nat
           /\ Holes \subseteq 1 .. Len(seen) - 1
           /\ IsFiniteSet(Unrecorded) /\ Cardinality(Unrecorded) \in Nat
           /\ IsFiniteSet(TornLines(outages)) /\ Cardinality(TornLines(outages)) \in Nat
<1>1. ReadOutages = WholeRows(outages)
    BY DEF ReadOutages, WholeRows
<1>2. ReadOutages \subseteq Outage /\ IsFiniteSet(TornLines(outages))
    BY <1>1, RowsAreOutages DEF LedgerTyped
<1>3. Len(seen) \in Nat /\ DOMAIN seen = 1 .. Len(seen) /\ \A i \in 1 .. Len(seen) : seen[i] \in Nat
    <2>1. Len(seen) \in Nat /\ DOMAIN seen = 1 .. Len(seen)
        BY LenProperties DEF LedgerTyped
    <2>2. \A i \in 1 .. Len(seen) : seen[i] \in Beats
        BY ElementOfSeq, Zenon DEF LedgerTyped
    <2>3. \A b \in Beats : b \in Nat
        BY LivenessAssumption DEF Beats
    <2> QED BY <2>1, <2>2, <2>3
<1>4. beat \in Nat /\ stamp \in Nat /\ tick.now \in Nat
    BY LivenessAssumption DEF LedgerTyped, Beats, Ticking
<1>5. Holes \subseteq 1 .. Len(seen) - 1 /\ Unrecorded \subseteq Holes
    BY <1>3 DEF Holes, Unrecorded
<1>6. IsFiniteSet(1 .. Len(seen) - 1)
    BY <1>3, FS_Interval
<1>7. IsFiniteSet(Unrecorded)
    BY <1>5, <1>6, FS_Subset
<1> QED BY <1>1, <1>2, <1>3, <1>4, <1>5, <1>7, FS_CardinalityType

LEMMA LessDebt ==
    ASSUME LedgerInv, NEW d \in BOOLEAN, d => Debt
    PROVE  Cardinality(Unrecorded) + CountOf(d) <= Cardinality(TornLines(outages))
<1>1. CountOf(d) <= CountOf(Debt) /\ CountOf(d) \in Nat /\ CountOf(Debt) \in Nat
    BY DEF CountOf
<1> QED BY <1>1, LedgerFacts DEF LedgerInv, HolesAreCounted

(* Nobody writes.                                                          *)
LEMMA ClockOrBeginStep ==
    ASSUME LedgerInv, BeatMoves \/ BeatStepsBack \/ BeginTick
    PROVE  LedgerInv'
<1>1. UNCHANGED <<stamp, outages, outagesCut, seen>>
    BY DEF BeatMoves, BeatStepsBack, BeginTick
<1>2. LedgerTyped /\ StampsRise /\ CutLine /\ RowsArePast
    BY DEF LedgerInv
<1>3. /\ ReadOutages' = ReadOutages /\ Holes' = Holes /\ Unrecorded' = Unrecorded
      /\ TornLines(outages)' = TornLines(outages)
      /\ \A o, i : Records(o, i)' = Records(o, i)
    BY <1>1 DEF ReadOutages, Holes, Unrecorded, TornLines, Records
<1>4. /\ beat \in Nat /\ stamp \in Nat /\ ReadOutages \subseteq Outage
      /\ \A o \in Outage : o.last \in Beats /\ o.returned \in Beats
      /\ \A b \in Beats : b \in Nat
    BY <1>2, LedgerFacts, LivenessAssumption DEF Outage, Beats
<1>5. CASE BeatMoves \/ BeatStepsBack
    <2>1. /\ tick' = tick /\ beat' \in Beats /\ stepsBack' \in Nat
          /\ stepsBack' = 0 => stepsBack = 0 /\ beat' = beat + 1
        BY <1>2, <1>5, LivenessAssumption DEF BeatMoves, BeatStepsBack, LedgerTyped, Beats
    <2>2. LedgerTyped' /\ StampsRise'
        BY <1>1, <1>2, <2>1 DEF LedgerTyped, StampsRise
    <2>3. CutLine' /\ HolesAreCounted'
        BY <1>1, <1>2, <1>3, <2>1 DEF CutLine, HoleComing, HolesAreCounted, Debt, LedgerInv
    <2>4. RowsArePast'
        <3>1. tick.now \in Nat
            BY <1>2, LedgerFacts
        <3> QED BY <1>1, <1>2, <1>3, <1>4, <2>1, <3>1 DEF RowsArePast
    <2> QED BY <2>2, <2>3, <2>4 DEF LedgerInv
<1>6. CASE BeginTick
    <2>1. /\ tick.step = "none" /\ beat' = beat /\ stepsBack' = stepsBack
          /\ tick' = IF beat < stamp THEN NoTick ELSE [step |-> FirstStep(beat), now |-> beat]
        BY <1>6 DEF BeginTick
    <2>2. /\ tick' \in Ticking
          /\ tick'.step # "none" => tick'.now = beat /\ beat >= stamp /\ tick'.step = FirstStep(beat)
        <3>1. FirstStep(beat) \in {"append", "stamp"} /\ beat \in 0 .. LastBeat
            BY <1>2, LivenessAssumption DEF FirstStep, LedgerTyped, Beats
        <3>2. NoTick \in Ticking /\ NoTick.step = "none"
            BY LivenessAssumption DEF NoTick, Ticking
        <3>3. CASE beat < stamp
            BY <2>1, <3>2, <3>3
        <3>4. CASE ~(beat < stamp)
            <4>1. tick' = [step |-> FirstStep(beat), now |-> beat]
                BY <2>1, <3>4
            <4> QED BY <1>4, <3>1, <3>4, <4>1 DEF Ticking
        <3> QED BY <3>3, <3>4
    <2>3. LedgerTyped' /\ StampsRise'
        BY <1>1, <1>2, <2>1, <2>2 DEF LedgerTyped, StampsRise
    <2>4. /\ tick'.step = "append" => HoleComing'
          /\ tick'.step = "stamp" => ~HoleComing'
        BY <1>1, <2>2 DEF FirstStep, HoleComing
    <2>5. CutLine'
        BY <1>1, <1>2, <1>3, <2>4 DEF CutLine
    <2>6. HolesAreCounted'
        <3>1. PICK d \in BOOLEAN : d = (outagesCut /\ outages[Len(outages)] = Torn)
            OBVIOUS
        <3>2. Debt' = d
            BY <1>1, <2>4, <3>1 DEF Debt
        <3>3. d => Debt
            BY <3>1 DEF Debt
        <3> QED BY <1>3, <3>2, <3>3, LessDebt DEF HolesAreCounted
    <2>7. RowsArePast'
        BY <1>1, <1>2, <1>3, <1>4, <2>1, <2>2 DEF RowsArePast
    <2> QED BY <2>3, <2>5, <2>6, <2>7 DEF LedgerInv
<1> QED BY <1>5, <1>6

LEMMA HoleRow ==
    ASSUME LedgerInv, tick.step = "append"
    PROVE  /\ RowOfHole \in Outage /\ RowOfHole.last = stamp /\ RowOfHole.returned = tick.now
           /\ RowOfHole # Torn /\ Len(seen) # 0 /\ stamp = seen[Len(seen)] /\ stamp < tick.now
<1>1. HoleComing /\ stamp \in 0 .. LastBeat /\ tick.now \in Beats /\ Threshold \in Nat /\ LastBeat \in Nat
    BY LivenessAssumption DEF LedgerInv, LedgerTyped, CutLine, StampsRise
<1>2. stamp \in Beats /\ stamp < tick.now
    BY <1>1 DEF HoleComing, Beats
<1>3. RowOfHole \in Outage /\ RowOfHole.last = stamp /\ RowOfHole.returned = tick.now
    BY <1>1, <1>2 DEF RowOfHole, Outage
<1>4. Len(seen) # 0 /\ stamp = seen[Len(seen)]
    BY <1>1 DEF HoleComing, LedgerInv, StampsRise
<1> QED BY <1>2, <1>3, <1>4, TornIsNoOutage

(* The row of the hole to come, or what a kill leaves of it: every line    *)
(* lost is a torn one, and a row lost by gluing was that of no hole.       *)
LEMMA PutCovers ==
    ASSUME LedgerInv, tick.step = "append", NEW row \in {Torn, RowOfHole},
           outages' = Put(outages, outagesCut, row), UNCHANGED <<stamp, seen>>
    PROVE  /\ outages' \in Seq(Line) /\ outages' # <<>>
           /\ ReadOutages' \subseteq ReadOutages \union {RowOfHole}
           /\ ~outagesCut /\ row # Torn => RowOfHole \in ReadOutages'
           /\ outages'[Len(outages')] = IF outagesCut THEN Torn ELSE row
           /\ Holes' = Holes
           /\ Cardinality(Unrecorded') + CountOf(outagesCut \/ row = Torn)
                    <= Cardinality(TornLines(outages)')
           /\ Cardinality(Unrecorded') \in Nat /\ Cardinality(TornLines(outages)') \in Nat
<1>1. /\ LedgerTyped /\ CutLine /\ outages \in Seq(Line) /\ outagesCut \in BOOLEAN
      /\ outagesCut => outages # <<>>
      /\ row \in Line /\ RowOfHole \in Outage
    BY HoleRow DEF LedgerInv, LedgerTyped, CutLine, Line
<1>2. /\ outages' \in Seq(Line) /\ outages' # <<>>
      /\ ~outagesCut => AddsItself(outages, row, outages')
      /\ outagesCut => TakesTheLast(outages, outages')
      /\ outages'[Len(outages')] = IF outagesCut THEN Torn ELSE row
    BY <1>1, PutLine, Zenon
<1>3. ReadOutages = WholeRows(outages) /\ ReadOutages' = WholeRows(outages')
    BY DEF ReadOutages, WholeRows
<1>4. ReadOutages' \subseteq ReadOutages \union {RowOfHole}
    BY <1>1, <1>2, <1>3 DEF AddsItself, TakesTheLast
<1>5. Holes' = Holes
    BY DEF Holes
<1>6. Unrecorded' \subseteq Unrecorded
    <2> SUFFICES ASSUME NEW i \in Holes, NEW o \in ReadOutages, Records(o, i)
                 PROVE  \E r \in ReadOutages' : Records(r, i)
        BY <1>5 DEF Unrecorded, Records
    <2>1. CASE ~outagesCut
        BY <1>2, <1>3, <2>1 DEF AddsItself
    <2>2. CASE outagesCut
        <3>1. o # Torn
            BY <1>1, LedgerFacts, TornIsNoOutage
        <3>2. o # outages[Len(outages)]
            BY <1>1, <2>2, <3>1 DEF CutLine
        <3> QED BY <1>2, <1>3, <2>2, <3>2 DEF TakesTheLast
    <2> QED BY <2>1, <2>2
<1>7. /\ IsFiniteSet(Unrecorded) /\ IsFiniteSet(TornLines(outages))
      /\ Cardinality(Unrecorded) \in Nat /\ Cardinality(TornLines(outages)) \in Nat
      /\ TornLines(outages) \subseteq 1 .. Len(outages) /\ Len(outages) \in Nat
    BY <1>1, LedgerFacts, RowsAreOutages
<1>8. Cardinality(Unrecorded') <= Cardinality(Unrecorded) /\ Cardinality(Unrecorded') \in Nat
    <2>1. Unrecorded' \in SUBSET Unrecorded
        BY <1>6
    <2> QED BY <1>7, <2>1, FS_Subset, FS_CardinalityType
<1>9. Cardinality(Unrecorded) + CountOf(outagesCut \/ row = Torn) <= Cardinality(TornLines(outages'))
    <2>0. Cardinality(Unrecorded) <= Cardinality(TornLines(outages))
        <3>1. Cardinality(Unrecorded) + CountOf(FALSE) <= Cardinality(TornLines(outages))
            BY LessDebt
        <3> QED BY <1>7, <3>1 DEF CountOf
    <2>1. CASE ~outagesCut /\ row # Torn
        <3>1. TornLines(outages') = TornLines(outages)
            BY <1>2, <2>1 DEF AddsItself
        <3> QED BY <1>7, <2>0, <2>1, <3>1 DEF CountOf
    <2>2. ASSUME NEW n \in Nat, n \notin TornLines(outages),
                 TornLines(outages') = TornLines(outages) \union {n}
          PROVE  Cardinality(Unrecorded) + CountOf(outagesCut \/ row = Torn)
                    <= Cardinality(TornLines(outages'))
        <3>1. Cardinality(TornLines(outages')) = Cardinality(TornLines(outages)) + 1
            BY <1>7, <2>2, FS_AddElement
        <3> QED BY <1>7, <2>0, <3>1 DEF CountOf
    <2>3. CASE ~outagesCut /\ row = Torn
        <3>1. TornLines(outages') = TornLines(outages) \union {Len(outages) + 1}
            BY <1>2, <2>3 DEF AddsItself
        <3>2. Len(outages) + 1 \notin TornLines(outages) /\ Len(outages) + 1 \in Nat
            BY <1>7
        <3> QED BY <2>2, <3>1, <3>2
    <2>4. CASE outagesCut /\ outages[Len(outages)] # Torn
        <3>1. TornLines(outages') = TornLines(outages) \union {Len(outages)}
            BY <1>2, <2>4 DEF TakesTheLast
        <3>2. Len(outages) \notin TornLines(outages)
            BY <2>4 DEF TornLines
        <3> QED BY <1>7, <2>2, <3>1, <3>2
    <2>5. CASE outagesCut /\ outages[Len(outages)] = Torn
        <3>1. Len(outages) \in TornLines(outages)
            <4>1. Len(outages) # 0
                BY <1>1, <2>5, EmptySeq, LenProperties
            <4>2. Len(outages) \in DOMAIN outages
                BY <1>1, <1>7, <4>1, RowsAreOutages
            <4> QED BY <2>5, <4>2 DEF TornLines
        <3>2. TornLines(outages') = TornLines(outages)
            <4>1. TornLines(outages') = TornLines(outages) \union {Len(outages)}
                BY <1>2, <2>5 DEF TakesTheLast
            <4> QED BY <3>1, <4>1
        <3>3. Debt
            BY <2>5 DEF Debt
        <3>4. Cardinality(Unrecorded) + CountOf(TRUE) <= Cardinality(TornLines(outages))
            BY <3>3, LessDebt
        <3>5. (outagesCut \/ row = Torn) = TRUE
            BY <2>5, <1>1
        <3> QED BY <3>2, <3>4, <3>5
    <2> QED BY <1>1, <2>1, <2>3, <2>4, <2>5, Zenon
<1>10. CountOf(outagesCut \/ row = Torn) \in Nat /\ Cardinality(TornLines(outages')) \in Nat
    BY <1>2, RowsAreOutages, FS_CardinalityType DEF CountOf
<1>11. Cardinality(Unrecorded') + CountOf(outagesCut \/ row = Torn) <= Cardinality(TornLines(outages)')
    <2>1. PICK k \in Nat : k = CountOf(outagesCut \/ row = Torn)
        BY <1>10
    <2>2. Cardinality(Unrecorded) + k <= Cardinality(TornLines(outages)')
        BY <1>9, <2>1
    <2>3. Cardinality(Unrecorded') + k <= Cardinality(TornLines(outages)')
        BY <1>7, <1>8, <1>10, <2>2
    <2> QED BY <2>1, <2>3
<1>12. ~outagesCut /\ row # Torn => RowOfHole \in ReadOutages'
    BY <1>2, <1>3 DEF AddsItself
<1> QED BY <1>2, <1>4, <1>5, <1>8, <1>10, <1>11, <1>12

LEMMA AppendStep ==
    ASSUME LedgerInv, AppendOutage
    PROVE  LedgerInv'
<1>1. /\ tick.step = "append" /\ outages' = Put(outages, outagesCut, RowOfHole)
      /\ outagesCut' = FALSE /\ tick' = [tick EXCEPT !.step = "stamp"]
      /\ UNCHANGED <<beat, stamp, seen, stepsBack>>
    BY DEF AppendOutage
<1>2. LedgerTyped /\ StampsRise /\ CutLine /\ RowsArePast
    BY DEF LedgerInv
<1>3. /\ outages' \in Seq(Line) /\ outages' # <<>>
      /\ ReadOutages' \subseteq ReadOutages \union {RowOfHole}
      /\ ~outagesCut => RowOfHole \in ReadOutages'
      /\ Cardinality(Unrecorded') + CountOf(outagesCut) <= Cardinality(TornLines(outages)')
      /\ RowOfHole \in Outage /\ RowOfHole.last = stamp /\ RowOfHole.returned = tick.now
    <2>1. RowOfHole # Torn /\ outagesCut \in BOOLEAN
        BY <1>1, <1>2, HoleRow DEF LedgerTyped
    <2>2. (outagesCut \/ RowOfHole = Torn) = outagesCut
        BY <2>1
    <2> HIDE DEF Holes
    <2> QED BY <1>1, <2>1, <2>2, HoleRow, PutCovers
<1>4. tick' \in Ticking /\ tick'.step = "stamp" /\ tick'.now = tick.now
    BY <1>1, <1>2 DEF LedgerTyped, Ticking
<1>5. LedgerTyped' /\ StampsRise'
    BY <1>1, <1>2, <1>3, <1>4 DEF LedgerTyped, StampsRise
<1>6. CutLine'
    BY <1>1, <1>4 DEF CutLine
<1>7. HolesAreCounted'
    <2>1. PICK d \in BOOLEAN : d = Debt'
        BY DEF Debt
    <2>2. d => outagesCut
        BY <1>1, <1>3, <1>4, <2>1 DEF Debt
    <2>3. CountOf(d) <= CountOf(outagesCut) /\ CountOf(d) \in Nat /\ CountOf(outagesCut) \in Nat
        BY <2>2 DEF CountOf
    <2>4. Cardinality(Unrecorded') \in Nat /\ Cardinality(TornLines(outages)') \in Nat
        BY <1>1, PutCovers
    <2> QED BY <1>3, <2>1, <2>3, <2>4 DEF HolesAreCounted
<1>8. RowsArePast'
    <2>1. \A i \in 1 .. Len(seen) : seen[i] <= stamp
        <3>1. /\ Len(seen) \in Nat /\ Len(seen) # 0 /\ stamp = seen[Len(seen)] /\ stamp \in Nat
              /\ \A i, j \in 1 .. Len(seen) : i < j => seen[i] < seen[j]
            BY <1>1, <1>2, LedgerFacts, HoleRow DEF StampsRise
        <3>2. \A i \in 1 .. Len(seen) : i = Len(seen) \/ seen[i] < seen[Len(seen)]
            BY <3>1
        <3>3. \A i \in 1 .. Len(seen) : seen[i] \in Nat
            BY <1>2, LedgerFacts
        <3> QED BY <3>1, <3>2, <3>3
    <2> QED BY <1>1, <1>2, <1>3, <1>4, <2>1, LedgerFacts DEF RowsArePast
<1> QED BY <1>5, <1>6, <1>7, <1>8 DEF LedgerInv

LEMMA KillStep ==
    ASSUME LedgerInv, KillTick
    PROVE  LedgerInv'
<1>1. tick' = NoTick /\ UNCHANGED <<beat, stamp, seen, stepsBack>>
    BY DEF KillTick
<1>2. LedgerTyped /\ StampsRise /\ CutLine /\ RowsArePast
    BY DEF LedgerInv
<1>3. tick' \in Ticking /\ tick'.step = "none" /\ StampsRise'
    BY <1>1, <1>2, LivenessAssumption DEF NoTick, Ticking, StampsRise
<1>4. CASE UNCHANGED <<outages, outagesCut>>
    <2>1. /\ ReadOutages' = ReadOutages /\ Holes' = Holes /\ Unrecorded' = Unrecorded
          /\ TornLines(outages)' = TornLines(outages)
          /\ \A o, i : Records(o, i)' = Records(o, i)
        BY <1>1, <1>4 DEF ReadOutages, Holes, Unrecorded, TornLines, Records
    <2>2. LedgerTyped' /\ CutLine' /\ RowsArePast'
        BY <1>1, <1>2, <1>3, <1>4, <2>1 DEF LedgerTyped, CutLine, RowsArePast
    <2>3. HolesAreCounted'
        <3>1. PICK d \in BOOLEAN : d = (outagesCut /\ outages[Len(outages)] = Torn)
            OBVIOUS
        <3>2. Debt' = d
            BY <1>3, <1>4, <3>1 DEF Debt
        <3>3. d => Debt
            BY <3>1 DEF Debt
        <3> QED BY <2>1, <3>2, <3>3, LessDebt DEF HolesAreCounted
    <2> QED BY <1>3, <2>2, <2>3 DEF LedgerInv
<1>5. ASSUME tick.step = "append", outagesCut' = TRUE,
             NEW part \in PartOf(RowOfHole), outages' = Put(outages, outagesCut, part)
      PROVE  LedgerInv'
    <2>1. part \in {Torn, RowOfHole} /\ outagesCut \in BOOLEAN
        BY <1>2, <1>5 DEF PartOf, LedgerTyped
    <2>2. /\ outages' \in Seq(Line) /\ outages' # <<>>
          /\ ReadOutages' \subseteq ReadOutages \union {RowOfHole}
          /\ outages'[Len(outages')] = IF outagesCut THEN Torn ELSE part
          /\ Holes' = Holes
          /\ Cardinality(Unrecorded') + CountOf(outagesCut \/ part = Torn)
                <= Cardinality(TornLines(outages)')
        BY <1>1, <1>5, <2>1, PutCovers
    <2>3. /\ RowOfHole \in Outage /\ RowOfHole.last = stamp /\ RowOfHole.returned = tick.now
          /\ RowOfHole # Torn /\ Len(seen) # 0 /\ stamp = seen[Len(seen)] /\ stamp < tick.now
        BY <1>5, HoleRow
    <2>4. /\ Len(seen) \in Nat /\ Holes \subseteq 1 .. Len(seen) - 1 /\ stamp \in Nat
          /\ \A i \in 1 .. Len(seen) : seen[i] \in Nat
          /\ \A i, j \in 1 .. Len(seen) : i < j => seen[i] < seen[j]
        BY <1>2, LedgerFacts DEF StampsRise
    <2>5. \A i \in 1 .. Len(seen) : seen[i] <= stamp /\ (i # Len(seen) => seen[i] < stamp)
        <3>1. \A i \in 1 .. Len(seen) : i = Len(seen) \/ seen[i] < seen[Len(seen)]
            BY <2>3, <2>4
        <3> QED BY <2>3, <2>4, <3>1
    <2>6. LedgerTyped'
        BY <1>1, <1>2, <1>3, <1>5, <2>2 DEF LedgerTyped
    <2>7. CutLine'
        <3>1. ASSUME outages'[Len(outages')] # Torn, NEW i \in Holes
              PROVE  ~Records(outages[Len(outages)], i)'
            <4>1. outages'[Len(outages')] = RowOfHole
                BY <2>1, <2>2, <3>1
            <4>2. seen[i] < stamp
                BY <2>4, <2>5
            <4>3. seen[i] # stamp
                BY <2>4, <4>2
            <4> QED BY <1>1, <2>3, <4>1, <4>3 DEF Records
        <3> QED BY <1>3, <2>2, <3>1 DEF CutLine
    <2>8. HolesAreCounted'
        <3>1. Debt' = (outagesCut \/ part = Torn)
            <4>1. Debt' = (outages'[Len(outages')] = Torn)
                BY <1>3, <1>5 DEF Debt
            <4> QED BY <2>1, <2>2, <4>1
        <3> QED BY <2>2, <3>1 DEF HolesAreCounted
    <2>9. RowsArePast'
        <3>1. ASSUME stepsBack = 0, NEW o \in ReadOutages'
              PROVE  /\ o.returned <= beat
                     /\ \A i \in 1 .. Len(seen) : seen[i] <= o.last \/ o.returned <= seen[i]
            <4>1. CASE o \in ReadOutages
                BY <1>2, <3>1, <4>1 DEF RowsArePast
            <4>2. CASE o = RowOfHole
                BY <1>2, <1>5, <2>3, <2>5, <3>1, <4>2 DEF RowsArePast
            <4> QED BY <2>2, <4>1, <4>2
        <3> QED BY <1>1, <1>3, <3>1 DEF RowsArePast
    <2> QED BY <1>3, <2>6, <2>7, <2>8, <2>9 DEF LedgerInv
<1> QED BY <1>4, <1>5 DEF KillTick

LEMMA StampStep ==
    ASSUME LedgerInv, ReplaceStamp
    PROVE  LedgerInv'
<1>1. /\ tick.step = "stamp" /\ stamp' = tick.now /\ tick' = NoTick
      /\ seen' = IF stamp = tick.now THEN seen ELSE Append(seen, tick.now)
      /\ UNCHANGED <<beat, outages, outagesCut, stepsBack>>
    BY DEF ReplaceStamp
<1>2. /\ LedgerTyped /\ StampsRise /\ CutLine /\ RowsArePast
      /\ tick.now \in Beats /\ tick.now >= stamp /\ tick.now \in Nat /\ stamp \in Nat
    BY <1>1, LedgerFacts DEF LedgerInv, StampsRise
<1>3. tick' \in Ticking /\ tick'.step = "none"
    BY <1>1, LivenessAssumption DEF NoTick, Ticking
<1>4. ReadOutages' = ReadOutages /\ TornLines(outages)' = TornLines(outages)
    BY <1>1 DEF ReadOutages, TornLines
<1>5. PICK d \in BOOLEAN : d = (outagesCut /\ outages[Len(outages)] = Torn)
    OBVIOUS
<1>6. Debt' = d /\ (d => Debt)
    BY <1>1, <1>3, <1>5 DEF Debt
<1>7. PICK n \in Nat : n = Len(seen)
    BY <1>2, LedgerFacts
<1>8. /\ \A i \in 1 .. n : seen[i] \in Nat
      /\ \A i, j \in 1 .. n : i < j => seen[i] < seen[j]
      /\ stamp = IF n = 0 THEN 0 ELSE seen[n]
      /\ Holes = {i \in 1 .. n - 1 : seen[i + 1] - seen[i] > Threshold}
    BY <1>2, <1>7, LedgerFacts DEF StampsRise, Holes
<1>9. CASE stamp = tick.now
    <2>1. seen' = seen /\ stamp' = stamp
        BY <1>1, <1>9
    <2>2. Holes' = Holes /\ Unrecorded' = Unrecorded /\ \A o, i : Records(o, i)' = Records(o, i)
        BY <1>4, <2>1 DEF Holes, Unrecorded, Records
    <2>3. LedgerTyped' /\ StampsRise' /\ CutLine' /\ RowsArePast'
        BY <1>1, <1>2, <1>3, <1>4, <2>1, <2>2 DEF LedgerTyped, StampsRise, CutLine, RowsArePast
    <2>4. HolesAreCounted'
        BY <1>4, <1>6, <2>2, LessDebt DEF HolesAreCounted
    <2> QED BY <2>3, <2>4 DEF LedgerInv
<1>10. CASE stamp # tick.now
    <2>1. seen' = Append(seen, tick.now) /\ stamp < tick.now
        BY <1>1, <1>2, <1>10
    <2>2. /\ seen' \in Seq(Beats) /\ Len(seen') = n + 1 /\ seen'[n + 1] = tick.now
          /\ \A i \in 1 .. n : seen'[i] = seen[i]
        BY <1>2, <1>7, <2>1 DEF LedgerTyped
    <2>3. \A i \in 1 .. n : seen[i] < tick.now
        <3>1. \A i \in 1 .. n : i = n \/ seen[i] < seen[n]
            BY <1>8
        <3> QED BY <1>2, <1>8, <2>1, <3>1
    <2>4. LedgerTyped'
        BY <1>1, <1>2, <1>3, <2>2, LivenessAssumption DEF LedgerTyped, Beats
    <2>5. StampsRise'
        <3>1. ASSUME NEW i \in 1 .. n + 1, NEW j \in 1 .. n + 1, i < j
              PROVE  seen'[i] < seen'[j]
            <4>1. i \in 1 .. n
                BY <3>1
            <4>2. CASE j = n + 1
                BY <2>2, <2>3, <4>1, <4>2
            <4>3. CASE j \in 1 .. n
                BY <1>8, <2>2, <3>1, <4>1, <4>3
            <4> QED BY <4>2, <4>3
        <3> QED BY <1>1, <1>3, <2>2, <3>1 DEF StampsRise
    <2>6. Holes' = Holes \union (IF HoleComing THEN {n} ELSE {})
        <3>1. Holes' = {i \in 1 .. n : seen'[i + 1] - seen'[i] > Threshold}
            BY <2>2 DEF Holes
        <3>2. \A i \in 1 .. n - 1 : seen'[i + 1] = seen[i + 1] /\ seen'[i] = seen[i]
            BY <2>2
        <3>3. n # 0 => seen'[n + 1] - seen'[n] = tick.now - stamp
            BY <1>8, <2>2
        <3>4. stamp # 0 <=> n # 0
            <4>1. n # 0 => seen[n] \in Beats
                BY <1>2, <1>7, ElementOfSeq DEF LedgerTyped
            <4> QED BY <1>8, <4>1 DEF Beats
        <3> QED BY <1>8, <3>1, <3>2, <3>3, <3>4 DEF HoleComing
    <2>7. \A o : /\ \A i \in Holes : Records(o, i)' = Records(o, i)
                 /\ HoleComing => Records(o, n)' = (<<o.last, o.returned>> = <<stamp, tick.now>>)
        <3>1. \A i \in Holes : i \in 1 .. n /\ i + 1 \in 1 .. n
            BY <1>8
        <3>2. HoleComing => n \in 1 .. n /\ seen[n] = stamp
            BY <1>8 DEF HoleComing
        <3> QED BY <2>2, <3>1, <3>2 DEF Records
    <2>8. CutLine'
        <3>1. outagesCut => ~HoleComing
            BY <1>1, <1>2 DEF CutLine
        <3> QED BY <1>1, <1>2, <1>3, <2>6, <2>7, <3>1 DEF CutLine
    <2>9. HolesAreCounted'
        <3>1. /\ IsFiniteSet(Unrecorded) /\ Cardinality(Unrecorded) \in Nat
              /\ Cardinality(TornLines(outages)) \in Nat
            BY <1>2, LedgerFacts
        <3>2. CASE HoleComing /\ \A o \in ReadOutages : <<o.last, o.returned>> # <<stamp, tick.now>>
            <4>1. Unrecorded' = Unrecorded \union {n}
                BY <1>4, <2>6, <2>7, <3>2 DEF Unrecorded, Records
            <4>2. Cardinality(Unrecorded') <= Cardinality(Unrecorded) + 1 /\ Cardinality(Unrecorded') \in Nat
                BY <3>1, <4>1, FS_AddElement
            <4>3. Debt /\ ~d
                BY <1>1, <1>2, <1>5, <3>2 DEF Debt, CutLine
            <4>4. Cardinality(Unrecorded) + CountOf(TRUE) <= Cardinality(TornLines(outages))
                BY <4>3, LessDebt
            <4>5. CountOf(TRUE) = 1 /\ CountOf(FALSE) = 0
                BY DEF CountOf
            <4>6. Debt' = FALSE
                BY <1>6, <4>3
            <4>7. Cardinality(Unrecorded) + 1 <= Cardinality(TornLines(outages))
                BY <4>4, <4>5, Zenon
            <4>8. Cardinality(Unrecorded') + 0 <= Cardinality(TornLines(outages))
                BY <3>1, <4>2, <4>7
            <4>9. Cardinality(Unrecorded') + CountOf(FALSE) <= Cardinality(TornLines(outages))
                BY <4>5, <4>8, Zenon
            <4> QED BY <1>4, <4>6, <4>9 DEF HolesAreCounted
        <3>3. CASE ~(HoleComing /\ \A o \in ReadOutages : <<o.last, o.returned>> # <<stamp, tick.now>>)
            <4>1. Unrecorded' = Unrecorded
                BY <1>4, <2>6, <2>7, <3>3 DEF Unrecorded, Records
            <4> QED BY <1>4, <1>6, <4>1, LessDebt DEF HolesAreCounted
        <3> QED BY <3>2, <3>3
    <2>10. RowsArePast'
        <3>1. ASSUME stepsBack = 0, NEW o \in ReadOutages, NEW i \in 1 .. n + 1
              PROVE  seen'[i] <= o.last \/ o.returned <= seen'[i]
            <4>1. CASE i = n + 1
                BY <1>1, <1>2, <2>2, <3>1, <4>1 DEF RowsArePast
            <4>2. CASE i \in 1 .. n
                BY <1>2, <1>7, <2>2, <3>1, <4>2 DEF RowsArePast
            <4> QED BY <4>1, <4>2
        <3> QED BY <1>1, <1>2, <1>3, <1>4, <2>2, <3>1 DEF RowsArePast
    <2> QED BY <2>4, <2>5, <2>8, <2>9, <2>10 DEF LedgerInv
<1> QED BY <1>9, <1>10

LEMMA LedgerInvHolds == LivenessSpec => []LedgerInv
<1>1. LivenessInit => LedgerInv
    <2> SUFFICES ASSUME LivenessInit PROVE LedgerInv
        OBVIOUS
    <2>1. /\ beat = 1 /\ stamp = 0 /\ outages = <<>> /\ outagesCut = FALSE
          /\ tick = NoTick /\ seen = <<>> /\ stepsBack = 0
        BY DEF LivenessInit
    <2>2. NoTick \in Ticking /\ NoTick.step = "none"
        BY LivenessAssumption DEF NoTick, Ticking
    <2>3. Len(seen) = 0 /\ Holes = {} /\ Unrecorded = {} /\ ReadOutages = {} /\ TornLines(outages) = {}
        BY <2>1 DEF Holes, Unrecorded, ReadOutages, TornLines
    <2>4. LedgerTyped
        <3>1. 1 \in Beats /\ 0 \in 0 .. LastBeat
            BY LivenessAssumption DEF Beats
        <3>2. \A S : <<>> \in Seq(S)
            BY EmptySeq
        <3> QED BY <2>1, <2>2, <3>1, <3>2 DEF LedgerTyped
    <2>5. StampsRise /\ CutLine /\ RowsArePast
        BY <2>1, <2>2, <2>3 DEF StampsRise, CutLine, RowsArePast
    <2>6. HolesAreCounted
        <3>1. Debt = FALSE
            BY <2>1, <2>2 DEF Debt
        <3> QED BY <2>3, <3>1, FS_EmptySet DEF HolesAreCounted, CountOf
    <2> QED BY <2>4, <2>5, <2>6 DEF LedgerInv
<1>2. LedgerInv /\ [LivenessNext]_livenessVars => LedgerInv'
    <2> SUFFICES ASSUME LedgerInv, [LivenessNext]_livenessVars PROVE LedgerInv'
        OBVIOUS
    <2>1. CASE BeatMoves \/ BeatStepsBack \/ BeginTick
        BY <2>1, ClockOrBeginStep
    <2>2. CASE AppendOutage
        BY <2>2, AppendStep
    <2>3. CASE ReplaceStamp
        BY <2>3, StampStep
    <2>4. CASE KillTick
        BY <2>4, KillStep
    <2>5. CASE UNCHANGED livenessVars
        <3>1. UNCHANGED <<beat, stamp, outages, outagesCut, tick, seen, stepsBack>>
            BY <2>5 DEF livenessVars
        <3>2. /\ ReadOutages' = ReadOutages /\ Holes' = Holes /\ Unrecorded' = Unrecorded
              /\ TornLines(outages)' = TornLines(outages) /\ Debt' = Debt
              /\ \A o, i : Records(o, i)' = Records(o, i)
            BY <3>1 DEF ReadOutages, Holes, Unrecorded, TornLines, Debt, HoleComing, Records
        <3>3. LedgerTyped' /\ StampsRise' /\ HolesAreCounted'
            BY <3>1, <3>2 DEF LedgerInv, LedgerTyped, StampsRise, HolesAreCounted
        <3>4. CutLine' /\ RowsArePast'
            BY <3>1, <3>2 DEF LedgerInv, CutLine, HoleComing, RowsArePast
        <3> QED BY <3>3, <3>4 DEF LedgerInv
    <2> QED BY <2>1, <2>2, <2>3, <2>4, <2>5 DEF LivenessNext
<1> QED BY <1>1, <1>2, PTL DEF LivenessSpec

(* Every hole between two stamps of a host is in the ledger, but for one   *)
(* at most for every torn line, and no row of a clock that is never set    *)
(* back claims a moment at which the host was seen (record_liveness).      *)
THEOREM OutagesRecorded == LivenessSpec => []OutagesAreOnRecord
<1>1. LedgerInv => OutagesAreOnRecord
    <2> SUFFICES ASSUME LedgerInv PROVE OutagesAreOnRecord
        OBVIOUS
    <2>1. LedgerTyped /\ RowsArePast
        BY DEF LedgerInv
    <2>2. Cardinality(Unrecorded) + CountOf(FALSE) <= Cardinality(TornLines(outages))
        BY LessDebt
    <2>3. Cardinality(Unrecorded) <= Cardinality(TornLines(outages))
        BY <2>1, <2>2, LedgerFacts DEF CountOf
    <2>4. \A o \in ReadOutages : o.last \in Nat /\ o.returned \in Nat
        BY <2>1, LedgerFacts, LivenessAssumption DEF Outage, Beats
    <2>5. /\ DOMAIN seen = 1 .. Len(seen)
          /\ \A i \in 1 .. Len(seen) : seen[i] \in Nat
        BY <2>1, LedgerFacts
    <2> QED BY <2>1, <2>3, <2>4, <2>5 DEF OutagesAreOnRecord, TornLines, RowsArePast
<1> QED BY <1>1, LedgerInvHolds, PTL


-----------------------------------------------------------------------------
(* What a live bot sees.  The invariant relates what the engine has folded *)
(* and what still lies in the buffer to what the venue has quoted since    *)
(* the engine was started, and says of every quote and print that a        *)
(* connection of the segment can bring it.                                 *)

Brings(part) == \E l \in Links : \E has \in Connections(segment, listing)[l] :
                    has \intersect part # {}

Tick == [at : Nat, has : UNION {Connections(segment, listing)[l] : l \in Links}]

(* Types, the bounds aside.                                                *)
MarketTyped ==
    /\ <<segment, listing>> \in Plays /\ instant \in Nat
    /\ ticks \in Seq(Tick)
    /\ sight.quoted \in Int /\ sight.prints \in Nat /\ sight.sides \subseteq Quote
    /\ stage.at \in Int
    /\ heard.sides \subseteq Quote /\ heard.quotes \subseteq Nat
    /\ IsFiniteSet(heard.quotes)

IsHeard(message) ==
    message.has \intersect Quote # {} =>
        message.at \in heard.quotes /\ message.has \intersect Quote \subseteq heard.sides

WasHeard ==
    /\ \A i \in DOMAIN ticks : IsHeard(ticks[i])
    /\ sight.sides \subseteq heard.sides /\ sight.mids \subseteq heard.quotes
    /\ sight.sides # {} => sight.quoted \in heard.quotes

CanBe ==
    /\ heard.sides # {} => Brings(Quote)
    /\ sight.prints > 0 => Brings({"print"})
    /\ hands => listing \in Meant[segment]

MarketInv == MarketTyped /\ WasHeard /\ CanBe /\ TradesNeedALiveMarket

(* What a segment admits is of its kind, whatever its connections bring.   *)
LEMMA AdmittedIsMeant ==
    ASSUME MarketTyped, CanBe, WasHeard, Admits
    PROVE  listing \in Meant[segment]
<1>1. segment \in {"perp", "spot", "dated", "options"}
    BY LiveFeedAssumption DEF MarketTyped
<1>2. Brings(Quote)
    BY DEF Admits, Frame, CanBe, WasHeard, Quote
<1>3. PICK l \in Links : \E has \in Connections(segment, listing)[l] : has \intersect Quote # {}
    BY <1>2 DEF Brings
<1>4. CASE segment = "perp"
    <2>1. sight.prints > 0
        BY <1>4 DEF Admits, MinTrades, MarketTyped
    <2>2. PICK k \in Links :
              \E has \in Connections(segment, listing)[k] : has \intersect {"print"} # {}
        BY <2>1 DEF CanBe, Brings
    <2>3. Connections(segment, listing) =
              <<AllQuotes(listing), TradeShards("perp", listing), Funding(listing)>>
        BY <1>4 DEF Connections
    <2>4. PerpKeeps(listing)
        BY <2>2, <2>3 DEF Links, AllQuotes, TradeShards, Funding, Other, Of, Quote, Discovered
    <2>5. listing = "perpetual"
        BY <2>4 DEF PerpKeeps, OnBinance, Trading, Contract
    <2> QED BY <1>4, <2>5 DEF Meant
<1>5. CASE segment = "spot"
    <2>1. Connections(segment, listing) = <<PairShards(listing)>>
        BY <1>5 DEF Connections
    <2>2. SpotKeeps(listing)
        BY <1>3, <2>1 DEF Links, PairShards, Other, Of, Quote
    <2> QED BY <1>5, <2>2 DEF Meant, SpotKeeps
<1>6. CASE segment = "dated"
    <2>1. Connections(segment, listing) =
              <<DatedMarks(listing), DatedQuotes(listing), BybitBoard(listing)>>
        BY <1>6 DEF Connections
    <2>2. \/ OnBinance(listing) /\ DatedKeeps(listing)
          \/ listing \in {"bybit perpetual", "bybit dated"}
        <3>1. PICK has \in Connections(segment, listing)[l] : has \intersect Quote # {}
            BY <1>3
        <3>2. l = 1 \/ l = 2 \/ l = 3
            BY <2>1 DEF Links
        <3>3. CASE l = 1
            <4>1. has \in {{}}
                BY <2>1, <3>1, <3>3 DEF DatedMarks, Other
            <4> QED BY <3>1, <4>1
        <3>4. CASE l = 2
            <4>1. has \in Of(OnBinance(listing) /\ DatedKeeps(listing), {Quote} \union OneSided)
                BY <2>1, <3>1, <3>4 DEF DatedQuotes
            <4>2. ASSUME ~(OnBinance(listing) /\ DatedKeeps(listing)) PROVE FALSE
                <5>1. Of(OnBinance(listing) /\ DatedKeeps(listing), {Quote} \union OneSided) = {}
                    BY <4>2, Zenon DEF Of
                <5> QED BY <4>1, <5>1
            <4> QED BY <4>2, Zenon
        <3>5. CASE l = 3
            <4>1. has \in {{}} \union Of(listing \in {"bybit perpetual", "bybit dated"},
                                        {Quote} \union OneSided)
                <5>1. has \in BybitBoard(listing)
                    BY <2>1, <3>1, <3>5
                <5> QED BY <5>1, Zenon DEF BybitBoard, Other
            <4>2. has \in Of(listing \in {"bybit perpetual", "bybit dated"},
                            {Quote} \union OneSided)
                BY <3>1, <4>1
            <4>3. ASSUME ~(listing \in {"bybit perpetual", "bybit dated"}) PROVE FALSE
                <5>1. Of(listing \in {"bybit perpetual", "bybit dated"},
                         {Quote} \union OneSided) = {}
                    BY <4>3, Zenon DEF Of
                <5> QED BY <4>2, <5>1
            <4> QED BY <4>3, Zenon
        <3> QED BY <3>2, <3>3, <3>4, <3>5, Zenon
    <2>3. Delivers(listing)
        BY <1>6 DEF Admits, IsOfSegment
    <2>4. listing \in {"quarter", "bybit dated"}
        BY <2>2, <2>3 DEF OnBinance, DatedKeeps, Delivers, Contract, Trading
    <2> QED BY <1>6, <2>4 DEF Meant
<1>7. CASE segment = "options"
    <2>1. Connections(segment, listing) = <<Chain(listing)>>
        BY <1>7 DEF Connections
    <2>2. OptionsKeep(listing)
        BY <1>3, <2>1 DEF Links, Chain, Other, Of, Quote
    <2> QED BY <1>7, <2>2 DEF Meant, OptionsKeep
<1> QED BY <1>1, <1>4, <1>5, <1>6, <1>7

(* What a poll folds was heard.                                            *)
LEMMA SeenWasHeard ==
    ASSUME MarketTyped, WasHeard
    PROVE  /\ Seen.sides \subseteq heard.sides /\ Seen.sides \subseteq Quote
           /\ Seen.mids \subseteq heard.quotes
           /\ Seen.quoted \in Int
           /\ Seen.sides # {} => Seen.quoted \in heard.quotes
           /\ Seen.prints \in Nat
           /\ Seen.prints > sight.prints => \E i \in DOMAIN ticks : "print" \in ticks[i].has
<1> DEFINE n == Len(ticks)
<1>1. n \in Nat /\ DOMAIN ticks = 1..n
    BY DEF MarketTyped
<1>2. \A i \in 1..n : IsHeard(ticks[i])
    BY <1>1 DEF WasHeard
<1>3. Quotes \subseteq 1..n /\ Prints \subseteq 1..n
    BY <1>1 DEF Quotes, Prints
<1>4. \A i \in Quotes : ticks[i].at \in heard.quotes /\ ticks[i].has \intersect Quote \subseteq heard.sides
    BY <1>1, <1>2, <1>3 DEF Quotes, IsHeard
<1>5. SidesBy(n) \subseteq heard.sides
    <2> SUFFICES ASSUME NEW x \in SidesBy(n) PROVE x \in heard.sides
        OBVIOUS
    <2>1. CASE x \in sight.sides
        BY <2>1 DEF WasHeard
    <2>2. CASE \E j \in 1..n : x \in ticks[j].has \intersect Quote
        BY <2>2, <1>2 DEF IsHeard
    <2> QED BY <2>1, <2>2 DEF SidesBy
<1>6. Quotes # {} => LastQuoted \in heard.quotes
    <2> SUFFICES ASSUME Quotes # {} PROVE LastQuoted \in heard.quotes
        OBVIOUS
    <2>1. Last(Quotes) \in Quotes /\ \A j \in Quotes : j <= Last(Quotes)
        BY <1>1, <1>3, LastIn
    <2>2. (CHOOSE i \in Quotes : \A j \in Quotes : j <= i) \in Quotes
        BY <2>1
    <2> QED BY <2>2, <1>4 DEF LastQuoted
<1>7. SidesBy(n) # {} => Quotes # {} \/ sight.sides # {}
    BY <1>1 DEF SidesBy, Quotes
<1>8. Quotes = {} => LastQuoted = sight.quoted
    BY DEF LastQuoted
<1>9. Observed \subseteq heard.quotes
    <2> SUFFICES ASSUME NEW x \in Observed PROVE x \in heard.quotes
        OBVIOUS
    <2>1. PICK i \in Quotes : x = ticks[i].at
        BY Zenon DEF Observed
    <2> QED BY <2>1, <1>4
<1>10. IsFiniteSet(Prints) /\ Cardinality(Prints) \in Nat
    <2>1. IsFiniteSet(1..n)
        BY <1>1, FS_Interval
    <2>2. IsFiniteSet(Prints)
        BY <1>3, <2>1, FS_Subset
    <2> QED BY <2>2, FS_CardinalityType
<1>11. Prints = {} => Cardinality(Prints) = 0
    BY FS_EmptySet
<1>12. sight.prints \in Nat /\ heard.quotes \subseteq Nat /\ heard.sides \subseteq Quote /\ sight.quoted \in Int
    BY DEF MarketTyped
<1>13. /\ Seen.sides = SidesBy(n) /\ Seen.quoted = LastQuoted
       /\ Seen.mids = Trimmed(sight.mids \union Observed)
       /\ Seen.prints = sight.prints + Cardinality(Prints)
    BY DEF Seen
<1>14. Seen.mids \subseteq heard.quotes
    BY <1>9, <1>13 DEF Trimmed, WasHeard
<1>15. Seen.sides # {} => Seen.quoted \in heard.quotes
    BY <1>6, <1>7, <1>8, <1>13 DEF WasHeard
<1>16. Seen.quoted \in Int
    BY <1>6, <1>8, <1>12, <1>13
<1>17. Seen.prints > sight.prints => Prints # {}
    BY <1>10, <1>11, <1>12, <1>13
<1>18. Prints # {} => \E i \in DOMAIN ticks : "print" \in ticks[i].has
    BY DEF Prints
<1>19. Seen.prints \in Nat
    BY <1>10, <1>12, <1>13
<1> HIDE DEF n
<1> QED BY <1>5, <1>12, <1>13, <1>14, <1>15, <1>16, <1>17, <1>18, <1>19

LEMMA MarketStarts == MarketInit => MarketInv
<1> SUFFICES ASSUME MarketInit PROVE MarketInv
    OBVIOUS
<1>1. <<segment, listing>> \in Plays
    BY LiveFeedAssumption DEF MarketInit
<1>2. /\ sight = Unseen /\ heard = Unheard /\ stage = Asleep /\ deal = NoDeal
      /\ instant = 0 /\ ticks = <<>> /\ hands = FALSE
    BY DEF MarketInit
<1>3. ticks \in Seq(Tick) /\ DOMAIN ticks = {}
    BY <1>2
<1>4. IsFiniteSet(heard.quotes)
    BY <1>2, FS_EmptySet DEF Unheard
<1>5. MarketTyped
    BY <1>1, <1>2, <1>3, <1>4 DEF MarketTyped, Unseen, Unheard, Asleep, Never
<1>6. WasHeard /\ CanBe
    BY <1>2, <1>3 DEF WasHeard, CanBe, Unseen, Unheard
<1>7. TradesNeedALiveMarket
    BY <1>2 DEF TradesNeedALiveMarket, NoDeal
<1> QED BY <1>5, <1>6, <1>7 DEF MarketInv

(* Time passes, and quotes are only ever added: what was traded stays      *)
(* justified.                                                              *)
LEMMA DealStays ==
    ASSUME TradesNeedALiveMarket, UNCHANGED <<segment, listing, deal>>,
           heard.sides \subseteq heard'.sides, heard.quotes \subseteq heard'.quotes,
           heard'.sides \subseteq Quote, IsFiniteSet(heard'.quotes)
    PROVE  TradesNeedALiveMarket'
<1> SUFFICES ASSUME deal.kind # "none"
             PROVE  TradesNeedALiveMarket'
    BY DEF TradesNeedALiveMarket
<1> DEFINE In(quotes) == {q \in quotes : q >= deal.at - Window(segment)}
<1>1. In(heard.quotes) \subseteq In(heard'.quotes)
    OBVIOUS
<1>2. IsFiniteSet(In(heard'.quotes))
    BY FS_Subset
<1>3. Cardinality(In(heard.quotes)) <= Cardinality(In(heard'.quotes))
    BY <1>1, <1>2, FS_Subset
<1>4. /\ Cardinality(In(heard.quotes)) \in Nat /\ Cardinality(In(heard'.quotes)) \in Nat
      /\ MinSamples \in Nat
    BY <1>1, <1>2, FS_Subset, FS_CardinalityType, LiveFeedAssumption
<1>5. Cardinality(In(heard.quotes)) >= MinSamples
    BY DEF TradesNeedALiveMarket
<1>6. Cardinality(In(heard'.quotes)) >= MinSamples
    BY <1>3, <1>4, <1>5
<1>7. /\ listing' \in Meant[segment'] /\ heard'.sides = Quote
      /\ deal'.kind = "open" =>
             \E q \in heard'.quotes : q >= deal'.at - MaxQuoteAge(segment')
    BY DEF TradesNeedALiveMarket
<1> QED BY <1>6, <1>7 DEF TradesNeedALiveMarket

LEMMA DeliverKeepsMarketInv ==
    ASSUME MarketInv, NEW l \in Links, Deliver(l)
    PROVE  MarketInv'
<1>1. PICK has \in Connections(segment, listing)[l] :
          /\ ticks' = Append(IF Len(ticks) = BufferSize THEN Tail(ticks) ELSE ticks,
                            [at |-> instant, has |-> has])
          /\ heard' = IF has \intersect Quote = {} THEN heard
                      ELSE [sides |-> heard.sides \union (has \intersect Quote),
                            quotes |-> heard.quotes \union {instant}]
    BY DEF Deliver
<1>2. UNCHANGED <<segment, listing, instant, sight, stage, hands, deal>>
    BY DEF Deliver, symbolVars
<1> DEFINE message == [at |-> instant, has |-> has]
           kept == IF Len(ticks) = BufferSize THEN Tail(ticks) ELSE ticks
<1>3. Links' = Links /\ Tick' = Tick /\ (Brings(Quote))' = Brings(Quote)
                     /\ (Brings({"print"}))' = Brings({"print"})
    BY <1>2 DEF Links, Tick, Brings
<1>4. message \in Tick
    BY DEF MarketInv, MarketTyped, Tick
<1>5. /\ heard.sides \subseteq heard'.sides /\ heard.quotes \subseteq heard'.quotes
      /\ heard'.sides \subseteq Quote /\ heard'.quotes \subseteq Nat
      /\ has \intersect Quote # {} =>
             instant \in heard'.quotes /\ has \intersect Quote \subseteq heard'.sides
    BY <1>1 DEF MarketInv, MarketTyped
<1>6. IsFiniteSet(heard'.quotes)
    <2>1. heard'.quotes = heard.quotes \/ heard'.quotes = heard.quotes \union {instant}
        BY <1>1
    <2>2. IsFiniteSet(heard.quotes)
        BY DEF MarketInv, MarketTyped
    <2>3. IsFiniteSet(heard.quotes \union {instant})
        BY <2>2, FS_AddElement
    <2> QED BY <2>1, <2>2, <2>3
<1>7. heard'.sides # {} => Brings(Quote)
    <2>1. CASE has \intersect Quote = {}
        BY <1>1, <2>1 DEF MarketInv, CanBe
    <2>2. CASE has \intersect Quote # {}
        BY <2>2 DEF Brings
    <2> QED BY <2>1, <2>2
<1>8. ticks \in Seq(Tick) /\ kept \in Seq(Tick) /\ ticks' = Append(kept, message)
    <2>1. ticks \in Seq(Tick) /\ BufferSize \in Nat /\ BufferSize > 0
        BY LiveFeedAssumption DEF MarketInv, MarketTyped
    <2>2. ticks # <<>> => Tail(ticks) \in Seq(Tick)
        BY <2>1
    <2>3. Len(ticks) = BufferSize => ticks # <<>>
        BY <2>1
    <2> QED BY <1>1, <2>1, <2>2, <2>3
<1>9. \A i \in DOMAIN ticks' : ticks'[i] = message \/ \E j \in DOMAIN ticks : ticks'[i] = ticks[j]
    <2> SUFFICES ASSUME NEW i \in DOMAIN ticks', ticks'[i] # message
                 PROVE  \E j \in DOMAIN ticks : ticks'[i] = ticks[j]
        OBVIOUS
    <2>1. i \in 1..Len(kept) /\ ticks'[i] = kept[i]
        BY <1>8
    <2>2. CASE kept = ticks
        BY <2>1, <2>2, <1>8
    <2>3. CASE kept # ticks
        <3>1. kept = Tail(ticks) /\ ticks # <<>>
            BY <2>3, LiveFeedAssumption
        <3>2. i + 1 \in DOMAIN ticks /\ kept[i] = ticks[i + 1]
            BY <3>1, <2>1, <1>8
        <3> QED BY <3>2, <2>1
    <2> QED BY <2>2, <2>3
<1> HIDE DEF message, kept
<1>10. MarketTyped'
    BY <1>2, <1>3, <1>5, <1>6, <1>8, <1>4 DEF MarketInv, MarketTyped
<1>11. (\A i \in DOMAIN ticks : IsHeard(ticks[i]))'
    <2> DEFINE Has(t) == t.has \intersect Quote # {} =>
                             t.at \in heard'.quotes /\ t.has \intersect Quote \subseteq heard'.sides
    <2>1. Has(message)
        BY <1>5 DEF message
    <2>2. ASSUME NEW j \in DOMAIN ticks PROVE Has(ticks[j])
        <3>1. IsHeard(ticks[j])
            BY DEF MarketInv, WasHeard
        <3> QED BY <3>1, <1>5 DEF IsHeard
    <2>3. ASSUME NEW i \in DOMAIN ticks' PROVE Has(ticks'[i])
        <3>1. CASE ticks'[i] = message
            BY <3>1, <2>1
        <3>2. CASE \E j \in DOMAIN ticks : ticks'[i] = ticks[j]
            <4>1. PICK j \in DOMAIN ticks : ticks'[i] = ticks[j]
                BY <3>2
            <4> QED BY <4>1, <2>2
        <3> QED BY <3>1, <3>2, <1>9
    <2> QED BY <2>3 DEF IsHeard
<1>12. WasHeard'
    BY <1>2, <1>5, <1>11 DEF MarketInv, WasHeard
<1>13. CanBe'
    BY <1>2, <1>3, <1>7 DEF MarketInv, CanBe
<1>14. TradesNeedALiveMarket'
    BY <1>2, <1>5, <1>6, DealStays DEF MarketInv
<1> QED BY <1>10, <1>12, <1>13, <1>14 DEF MarketInv

LEMMA DrainKeepsMarketInv ==
    ASSUME MarketInv, Drain
    PROVE  MarketInv'
<1>1. /\ ticks' = <<>> /\ sight' = Seen
      /\ stage' = [stage EXCEPT !.step = "decide"]
      /\ UNCHANGED <<segment, listing, instant, hands, heard, deal>>
    BY DEF Drain, symbolVars
<1>2. /\ Seen.sides \subseteq heard.sides /\ Seen.sides \subseteq Quote
      /\ Seen.mids \subseteq heard.quotes
      /\ Seen.quoted \in Int
      /\ Seen.sides # {} => Seen.quoted \in heard.quotes
      /\ Seen.prints \in Nat
      /\ Seen.prints > sight.prints => \E i \in DOMAIN ticks : "print" \in ticks[i].has
    BY SeenWasHeard DEF MarketInv
<1>3. stage'.at = stage.at
    <2>1. CASE "at" \in DOMAIN stage
        BY <1>1, <2>1
    <2> QED BY <1>1, <2>1
<1>4. Links' = Links /\ Tick' = Tick /\ (Brings(Quote))' = Brings(Quote)
                     /\ (Brings({"print"}))' = Brings({"print"})
    BY <1>1 DEF Links, Tick, Brings
<1>5. MarketTyped'
    BY <1>1, <1>2, <1>3, <1>4 DEF MarketInv, MarketTyped
<1>6. WasHeard'
    BY <1>1, <1>2 DEF MarketInv, WasHeard
<1>7. Seen.prints > 0 => Brings({"print"})
    <2>1. CASE sight.prints > 0
        BY <2>1 DEF MarketInv, CanBe
    <2>2. CASE ~(sight.prints > 0) /\ Seen.prints > 0
        <3>1. Seen.prints > sight.prints
            BY <2>2 DEF MarketInv, MarketTyped
        <3>2. PICK i \in DOMAIN ticks : "print" \in ticks[i].has
            BY <1>2, <3>1
        <3>3. ticks[i] \in Tick
            BY DEF MarketInv, MarketTyped
        <3> QED BY <3>2, <3>3 DEF Tick, Brings
    <2> QED BY <2>1, <2>2
<1>8. CanBe'
    BY <1>1, <1>4, <1>7 DEF MarketInv, CanBe
<1>9. TradesNeedALiveMarket'
    BY <1>1, DealStays DEF MarketInv, MarketTyped
<1> QED BY <1>5, <1>6, <1>8, <1>9 DEF MarketInv

(* What a decision rests on: the frame is of what was heard.               *)
LEMMA FrameWasHeard ==
    ASSUME MarketInv, Frame
    PROVE  /\ heard.sides = Quote
           /\ Cardinality({q \in heard.quotes : q >= stage.at - Window(segment)}) >= MinSamples
<1> DEFINE In(quotes) == {q \in quotes : q >= stage.at - Window(segment)}
<1>1. In(sight.mids) \subseteq In(heard.quotes)
    BY DEF MarketInv, WasHeard
<1>2. IsFiniteSet(In(heard.quotes))
    BY FS_Subset DEF MarketInv, MarketTyped
<1>3. /\ Cardinality(In(sight.mids)) <= Cardinality(In(heard.quotes))
      /\ Cardinality(In(sight.mids)) \in Nat /\ Cardinality(In(heard.quotes)) \in Nat
    BY <1>1, <1>2, FS_Subset, FS_CardinalityType
<1>4. Cardinality(In(sight.mids)) >= MinSamples /\ MinSamples \in Nat
    BY LiveFeedAssumption DEF Frame
<1>5. Cardinality(In(heard.quotes)) >= MinSamples
    BY <1>3, <1>4
<1>6. heard.sides = Quote
    BY DEF Frame, MarketInv, WasHeard, MarketTyped
<1> QED BY <1>5, <1>6

LEMMA DecideKeepsMarketInv ==
    ASSUME MarketInv, DecidePoll
    PROVE  MarketInv'
<1>1. /\ sight' = [sight EXCEPT !.prints = 0] /\ stage' = Asleep
      /\ UNCHANGED <<segment, listing, instant, ticks, heard>>
    BY DEF DecidePoll, symbolVars
<1>2. Links' = Links /\ Tick' = Tick /\ (Brings(Quote))' = Brings(Quote)
                     /\ (Brings({"print"}))' = Brings({"print"})
    BY <1>1 DEF Links, Tick, Brings
<1>3. /\ sight'.sides = sight.sides /\ sight'.quoted = sight.quoted /\ sight'.mids = sight.mids
      /\ sight'.prints \in Nat /\ ~(sight'.prints > 0)
    BY <1>1
<1>4. MarketTyped'
    BY <1>1, <1>2, <1>3 DEF MarketInv, MarketTyped, Asleep, Never
<1>5. WasHeard'
    BY <1>1, <1>3 DEF MarketInv, WasHeard, IsHeard
<1>6. CASE UNCHANGED <<hands, deal>>
    <2>1. TradesNeedALiveMarket'
        BY <1>1, <1>6, DealStays DEF MarketInv, MarketTyped
    <2> QED BY <1>1, <1>2, <1>3, <1>4, <1>5, <1>6, <2>1 DEF MarketInv, CanBe
<1>7. CASE Frame /\ hands /\ hands' = FALSE /\ deal' = [kind |-> "close", at |-> stage.at]
    <2>1. listing \in Meant[segment]
        BY <1>7 DEF MarketInv, CanBe
    <2>2. TradesNeedALiveMarket'
        BY <1>1, <1>7, <2>1, FrameWasHeard DEF TradesNeedALiveMarket
    <2> QED BY <1>1, <1>2, <1>3, <1>4, <1>5, <1>7, <2>2 DEF MarketInv, CanBe
<1>8. CASE Admits /\ hands' = TRUE /\ deal' = [kind |-> "open", at |-> stage.at]
    <2>1. listing \in Meant[segment]
        BY <1>8, AdmittedIsMeant DEF MarketInv
    <2>2. Frame /\ sight.quoted \in heard.quotes
        BY <1>8 DEF Admits, Frame, MarketInv, WasHeard, Quote
    <2>3. sight.quoted >= stage.at - MaxQuoteAge(segment)
        <3>1. MaxQuoteAge(segment) \in Int
            <4>1. segment \in {"perp", "spot", "dated", "options"} /\ QuietAfter \in Nat
                BY LiveFeedAssumption DEF MarketInv, MarketTyped
            <4> QED BY <4>1 DEF MaxQuoteAge
        <3> QED BY <1>8, <3>1 DEF Admits, MarketInv, MarketTyped
    <2>4. TradesNeedALiveMarket'
        BY <1>1, <1>8, <2>1, <2>2, <2>3, FrameWasHeard DEF TradesNeedALiveMarket
    <2> QED BY <1>1, <1>2, <1>3, <1>4, <1>5, <1>8, <2>1, <2>4 DEF MarketInv, CanBe
<1> QED BY <1>6, <1>7, <1>8 DEF DecidePoll

LEMMA MarketSteps == MarketInv /\ [MarketNext]_marketVars => MarketInv'
<1> SUFFICES ASSUME MarketInv, [MarketNext]_marketVars PROVE MarketInv'
    OBVIOUS
<1>1. ASSUME UNCHANGED <<segment, listing, ticks, sight, heard, hands>>,
             instant' \in Nat, stage'.at \in Int, TradesNeedALiveMarket'
      PROVE  MarketInv'
    <2>1. Links' = Links /\ Tick' = Tick /\ (Brings(Quote))' = Brings(Quote)
                         /\ (Brings({"print"}))' = Brings({"print"})
        BY <1>1 DEF Links, Tick, Brings
    <2>2. MarketTyped'
        BY <1>1, <2>1 DEF MarketInv, MarketTyped
    <2>3. WasHeard' /\ CanBe'
        BY <1>1, <2>1 DEF MarketInv, WasHeard, CanBe, IsHeard
    <2> QED BY <1>1, <2>2, <2>3 DEF MarketInv
<1>2. ASSUME UNCHANGED <<segment, listing, heard, deal>> PROVE TradesNeedALiveMarket'
    BY <1>2, DealStays DEF MarketInv, MarketTyped
<1>3. instant \in Nat /\ stage.at \in Int
    BY DEF MarketInv, MarketTyped
<1>4. CASE InstantPasses
    BY <1>1, <1>2, <1>3, <1>4 DEF InstantPasses, symbolVars
<1>5. CASE TakeClock
    <2>1. TradesNeedALiveMarket'
        BY <1>5 DEF TakeClock, NoDeal, TradesNeedALiveMarket
    <2> QED BY <1>1, <1>3, <1>5, <2>1 DEF TakeClock, symbolVars
<1>6. CASE Drain
    BY <1>6, DrainKeepsMarketInv
<1>7. CASE DecidePoll
    BY <1>7, DecideKeepsMarketInv
<1>8. CASE RestartEngine
    <2>1. /\ ticks' = <<>> /\ sight' = Unseen /\ heard' = Unheard /\ stage' = Asleep
          /\ deal' = NoDeal /\ UNCHANGED <<segment, listing, instant, hands>>
        BY <1>8 DEF RestartEngine, symbolVars
    <2>2. ticks' \in Seq(Tick') /\ DOMAIN ticks' = {} /\ IsFiniteSet(heard'.quotes)
        BY <2>1, FS_EmptySet DEF Unheard
    <2>3. MarketTyped'
        BY <2>1, <2>2 DEF MarketInv, MarketTyped, Unseen, Unheard, Asleep, Never
    <2>4. WasHeard' /\ CanBe'
        BY <2>1, <2>2 DEF MarketInv, WasHeard, CanBe, Unseen, Unheard
    <2>5. TradesNeedALiveMarket'
        BY <2>1 DEF TradesNeedALiveMarket, NoDeal
    <2> QED BY <2>3, <2>4, <2>5 DEF MarketInv
<1>9. CASE \E l \in Links : Deliver(l)
    BY <1>9, DeliverKeepsMarketInv
<1>10. CASE \E l \in Links : LoseConnection(l) \/ Reconnect(l)
    BY <1>1, <1>2, <1>3, <1>10 DEF LoseConnection, Reconnect, symbolVars
<1>11. CASE UNCHANGED marketVars
    BY <1>1, <1>2, <1>3, <1>11 DEF marketVars, symbolVars
<1> QED BY <1>4, <1>5, <1>6, <1>7, <1>8, <1>9, <1>10, <1>11 DEF MarketNext

(* live_engine.py poll_once over live_feed.py and live_features.py:        *)
(* whatever the connections deliver, lose and deliver late, and however    *)
(* often the engine is killed, it trades only what its segment is for, on  *)
(* what the venue has quoted to this process in the window of the poll.    *)
THEOREM LiveTrades == MarketSpec => []TradesNeedALiveMarket
<1>1. MarketInv => TradesNeedALiveMarket
    BY DEF MarketInv
<1> QED BY <1>1, MarketStarts, MarketSteps, PTL DEF MarketSpec

-----------------------------------------------------------------------------
(* The bars.                                                               *)

LEMMA MaxIn ==
    ASSUME NEW n \in Nat, NEW S \in SUBSET (0..n), S # {}
    PROVE  Max(S) \in S /\ \A x \in S : x <= Max(S)
<1> DEFINE I == {x + 1 : x \in S}
<1>1. I \in SUBSET (1..(n + 1)) /\ I # {} /\ n + 1 \in Nat
    <2>1. PICK x \in S : TRUE
        OBVIOUS
    <2>2. x + 1 \in I
        BY <2>1
    <2>3. \A i \in I : i \in 1..(n + 1)
        OBVIOUS
    <2> QED BY <2>2, <2>3
<1>2. Last(I) \in I /\ \A j \in I : j <= Last(I)
    <2> HIDE DEF I
    <2> QED BY <1>1, LastIn
<1>3. PICK m \in S : Last(I) = m + 1
    BY <1>2
<1>4. \A x \in S : m >= x
    <2> SUFFICES ASSUME NEW x \in S PROVE m >= x
        OBVIOUS
    <2>1. x + 1 <= m + 1
        BY <1>2, <1>3
    <2> QED BY <2>1
<1>5. Max(S) \in S /\ \A x \in S : Max(S) >= x
    BY <1>4, Zenon DEF Max
<1> QED BY <1>5

LEMMA HoursAndDays ==
    ASSUME NEW m \in Nat
    PROVE  HourOf(m) \in Nat /\ DayOf(m) \in Nat
<1>1. MinutesPerHour * HoursPerDay \in Nat \ {0}
    BY BarAssumption
<1>2. \A k \in Nat \ {0} : m \div k \in Nat
    OBVIOUS
<1> QED BY <1>1, <1>2, BarAssumption DEF HourOf, DayOf

(* Nothing in the store is dated before a trade it rests on was received.  *)
Dated(row) ==
    /\ row.available \in Nat /\ row.trades \subseteq tape
    /\ \A t \in row.trades : t.received <= row.available

BarsTyped ==
    /\ minute \in Minutes /\ tape \subseteq Trade /\ readable \subseteq tape
    /\ \A t \in tape : t.received <= minute

RowsAreDated == \A p \in parts \union build.left : \A r \in p.rows : Dated(r)

LEMMA AvailableAfterAll ==
    ASSUME NEW event \in Nat, NEW trades \in SUBSET Trade
    PROVE  /\ Available(event, trades) \in Nat /\ event + 1 <= Available(event, trades)
           /\ \A t \in trades : t.received <= Available(event, trades)
<1> DEFINE S == {event + 1} \union {t.received : t \in trades}
           n == event + 1 + LastMinute
<1>1. n \in Nat /\ FirstMinute \in Nat /\ LastMinute \in Nat
    BY BarAssumption
<1>2. S \in SUBSET (0..n) /\ S # {}
    BY <1>1 DEF Trade, Minutes
<1>3. Max(S) \in S /\ \A x \in S : x <= Max(S)
    <2> HIDE DEF S, n
    <2> QED BY <1>1, <1>2, MaxIn
<1>4. Available(event, trades) = Max(S)
    BY DEF Available
<1>5. \A t \in trades : t.received \in S
    OBVIOUS
<1>6. event + 1 \in S
    OBVIOUS
<1> DEFINE last == Max(S)
<1>7. last \in Nat
    <2>1. last \in 0..n
        <3> HIDE DEF S, n
        <3> QED BY <1>2, <1>3
    <2> QED BY <2>1
<1>8. event + 1 <= last /\ \A t \in trades : t.received <= last
    <2> HIDE DEF S
    <2> QED BY <1>3, <1>5, <1>6
<1> HIDE DEF S
<1>9. Available(event, trades) = last
    BY <1>4
<1> QED BY <1>7, <1>8, <1>9

LEMMA BarsAreDated ==
    ASSUME BarsTyped, NEW trades \in SUBSET tape, NEW r \in Bars(trades)
    PROVE  /\ Dated(r) /\ r.event \in Nat /\ r.trades = {t \in trades : t.event = r.event}
<1>1. PICK m \in {t.event : t \in trades} : r = Bar(m, {t \in trades : t.event = m})
    BY DEF Bars
<1>2. m \in Nat /\ {t \in trades : t.event = m} \in SUBSET Trade
    BY DEF BarsTyped, Trade
<1>3. /\ r.event = m /\ r.trades = {t \in trades : t.event = m}
      /\ r.available = Available(m, {t \in trades : t.event = m})
    BY <1>1 DEF Bar
<1>4. r.available \in Nat /\ \A t \in r.trades : t.received <= r.available
    BY <1>2, <1>3, AvailableAfterAll
<1> QED BY <1>2, <1>3, <1>4 DEF Dated

LEMMA PartsHaveRows ==
    ASSUME NEW id, NEW rows, NEW p \in PartsOf(id, rows)
    PROVE  p.id = id /\ p.rows \subseteq rows
BY DEF PartsOf

LEMMA BarsTypedKept ==
    ASSUME BarsTyped, BarsNext
    PROVE  BarsTyped' /\ tape \subseteq tape' /\ readable \subseteq readable'
<1>1. FirstMinute \in Nat /\ LastMinute \in Nat /\ Lags \subseteq Nat /\ GarbledEvents \subseteq Nat
    BY BarAssumption
<1>2. ASSUME NEW event \in Nat, Receive(event)
      PROVE  BarsTyped' /\ tape \subseteq tape' /\ readable \subseteq readable'
    <2>1. minute \in Minutes /\ minute \in Nat
        BY <1>1 DEF BarsTyped, Minutes
    <2>2. /\ tape' = tape \union {[event |-> event, received |-> minute]}
          /\ readable' = readable \/ readable' = tape
          /\ minute' = minute
        BY <1>2 DEF Receive
    <2>3. tape' \subseteq Trade
        BY <2>1, <2>2 DEF BarsTyped, Trade
    <2>4. \A t \in tape' : t.received <= minute
        BY <2>1, <2>2 DEF BarsTyped
    <2> QED BY <2>1, <2>2, <2>3, <2>4 DEF BarsTyped
<1>3. CASE MinutePasses
    <2>1. /\ minute' = minute + 1 /\ minute < LastMinute /\ minute \in Nat
          /\ UNCHANGED <<tape, readable>>
        BY <1>1, <1>3 DEF MinutePasses, BarsTyped, Minutes
    <2>2. \A t \in tape : t.received \in Nat
        BY <1>1 DEF BarsTyped, Trade, Minutes
    <2> QED BY <1>1, <2>1, <2>2 DEF BarsTyped, Minutes
<1>4. CASE Flush \/ CloseHour
    BY <1>4 DEF Flush, CloseHour, BarsTyped
<1>5. CASE \E lag \in Lags : lag <= minute /\ Receive(minute - lag)
    <2>1. PICK lag \in Lags : lag <= minute /\ Receive(minute - lag)
        BY <1>5
    <2>2. minute - lag \in Nat
        BY <1>1, <2>1 DEF BarsTyped, Minutes
    <2> QED BY <1>2, <2>1, <2>2
<1>6. CASE \E event \in GarbledEvents : Receive(event)
    BY <1>1, <1>2, <1>6
<1>7. ASSUME UNCHANGED <<minute, tape, readable>>
      PROVE  BarsTyped' /\ tape \subseteq tape' /\ readable \subseteq readable'
    BY <1>7 DEF BarsTyped
<1>8. CASE \E tier \in Tiers : LiveBuild(tier) \/ LiveRestart(tier)
    BY <1>7, <1>8 DEF LiveBuild, LiveRestart
<1>9. CASE \E d \in {DayOf(minute) - 1, DayOf(minute)} : BeginBuild(d) \/ Correct(d)
    BY <1>7, <1>9 DEF BeginBuild, Correct
<1>10. CASE (\E p \in build.left : WritePart(p)) \/ ReadHours \/ ReadRaises \/ EndBuild \/ KillBuild
    BY <1>7, <1>10 DEF WritePart, ReadHours, ReadRaises, EndBuild, KillBuild
<1> QED BY <1>3, <1>4, <1>5, <1>6, <1>8, <1>9, <1>10 DEF BarsNext

LEMMA RowsAreDatedKept ==
    ASSUME BarsTyped, RowsAreDated, BarsNext
    PROVE  RowsAreDated'
<1>1. tape \subseteq tape' /\ BarsTyped'
    BY BarsTypedKept
<1>2. ASSUME NEW r, Dated(r) PROVE Dated(r)'
    BY <1>1, <1>2 DEF Dated
<1>3. ASSUME NEW new, parts' \union build'.left \subseteq parts \union build.left \union new,
             \A p \in new : \A r \in p.rows : Dated(r)
      PROVE  RowsAreDated'
    <2> SUFFICES ASSUME NEW p \in parts' \union build'.left, NEW r \in p.rows
                 PROVE  Dated(r)'
        BY DEF RowsAreDated
    <2>1. Dated(r)
        BY <1>3 DEF RowsAreDated
    <2> QED BY <2>1, <1>2
<1>4. ASSUME parts' \union build'.left \subseteq parts \union build.left PROVE RowsAreDated'
    <2> SUFFICES ASSUME NEW p \in parts' \union build'.left, NEW r \in p.rows
                 PROVE  Dated(r)'
        BY DEF RowsAreDated
    <2>1. Dated(r)
        BY <1>4 DEF RowsAreDated
    <2> QED BY <2>1, <1>2
<1>5. CASE MinutePasses \/ Flush \/ CloseHour
    BY <1>4, <1>5 DEF MinutePasses, Flush, CloseHour
<1>6. CASE \E event \in Nat : Receive(event)
    BY <1>4, <1>6 DEF Receive
<1>7. CASE \E tier \in Tiers : LiveRestart(tier)
    BY <1>4, <1>7 DEF LiveRestart
<1>8. ASSUME NEW tier \in Tiers, LiveBuild(tier) PROVE RowsAreDated'
    <2> DEFINE read == {t \in readable : HourOf(t.received) = HourOf(minute)}
               rows == {r \in Bars(read) : r.event > marks[tier]
                                           /\ \E t \in read : r.event < t.event}
               new == PartsOf(LiveId(rows), rows)
    <2>1. parts' = parts \union new /\ build' = build
        BY <1>8 DEF LiveBuild
    <2>2. read \in SUBSET tape
        BY DEF BarsTyped
    <2>3. \A r \in rows : Dated(r)
        BY <2>2, BarsAreDated
    <2>4. \A p \in new : \A r \in p.rows : Dated(r)
        BY <2>3, PartsHaveRows
    <2> HIDE DEF new
    <2> QED BY <1>3, <2>1, <2>4
<1>9. ASSUME NEW d, Correct(d) PROVE RowsAreDated'
    <2> DEFINE read == InHours(Looked(d) \ {claimed})
               rows == {[r EXCEPT !.available = minute] : r \in Bars(Kept(d, read))}
               id == [NoId EXCEPT !.kind = "fix", !.of = d, !.through = minute]
               new == PartsOf(id, rows)
    <2>1. parts' = parts \union new /\ build' = build
        BY <1>9 DEF Correct
    <2>2. Kept(d, read) \in SUBSET tape
        BY DEF InHours, Kept
    <2>3. ASSUME NEW r \in rows PROVE Dated(r)
        <3>1. PICK s \in Bars(Kept(d, read)) : r = [s EXCEPT !.available = minute]
            OBVIOUS
        <3>2. s.trades \subseteq tape
            BY <2>2, <3>1, BarsAreDated DEF Dated
        <3>3. PICK m, of, from : s = [event |-> m, trades |-> of, available |-> from]
            BY <3>1 DEF Bars, Bar
        <3>4. r = [event |-> m, trades |-> of, available |-> minute]
            BY <3>1, <3>3
        <3>5. r.trades = s.trades /\ r.available = minute
            BY <3>3, <3>4
        <3>6. minute \in Nat
            BY BarAssumption DEF BarsTyped, Minutes
        <3> QED BY <3>2, <3>5, <3>6 DEF Dated, BarsTyped
    <2>4. \A p \in new : \A r \in p.rows : Dated(r)
        <3> HIDE DEF rows, id
        <3> QED BY <2>3, PartsHaveRows
    <2> HIDE DEF new
    <2> QED BY <1>3, <2>1, <2>4
<1>10. ASSUME build'.left \subseteq {}, parts' = parts PROVE RowsAreDated'
    BY <1>3, <1>10
<1>11. CASE \E d : BeginBuild(d)
    BY <1>10, <1>11 DEF BeginBuild
<1>12. CASE ReadHours
    <2> DEFINE read == InHours(build.hours) \intersect readable
               new == PartsOf(build.id, Bars(Kept(build.id.of, read)))
    <2>1. parts' = parts /\ build'.left \subseteq build.left \union new
        <3>1. CASE Taken(new)
            BY <1>12, <3>1 DEF ReadHours, NoBuild
        <3>2. CASE ~Taken(new)
            <4>1. build' = [build EXCEPT !.step = "write", !.left = new,
                                         !.stranded = Stranded(build.id.of, read)]
                BY <1>12, <3>2 DEF ReadHours
            <4>2. build'.left = new \/ build'.left = build.left
                <5> HIDE DEF new
                <5> QED BY <4>1
            <4>3. parts' = parts
                BY <1>12 DEF ReadHours
            <4> HIDE DEF new
            <4> QED BY <4>2, <4>3
        <3> QED BY <3>1, <3>2
    <2>2. Kept(build.id.of, read) \in SUBSET tape
        BY DEF InHours, Kept
    <2>3. \A p \in new : \A r \in p.rows : Dated(r)
        BY <2>2, BarsAreDated, PartsHaveRows
    <2> HIDE DEF new
    <2> QED BY <1>3, <2>1, <2>3
<1>13. CASE \E p \in build.left : WritePart(p)
    <2>1. parts' \union build'.left \subseteq parts \union build.left
        BY <1>13 DEF WritePart
    <2> QED BY <1>4, <2>1
<1>14. CASE ReadRaises \/ KillBuild \/ EndBuild
    BY <1>10, <1>14 DEF ReadRaises, KillBuild, EndBuild, NoBuild
<1>15. ASSUME NEW lag \in Lags, lag <= minute, Receive(minute - lag)
       PROVE  \E event \in Nat : Receive(event)
    <2>1. minute - lag \in Nat
        BY <1>15, BarAssumption DEF BarsTyped, Minutes
    <2> QED BY <1>15, <2>1
<1>16. ASSUME NEW event \in GarbledEvents, Receive(event)
       PROVE  \E e \in Nat : Receive(e)
    BY <1>16, BarAssumption
<1> QED BY <1>5, <1>6, <1>7, <1>8, <1>9, <1>11, <1>12, <1>13, <1>14, <1>15, <1>16 DEF BarsNext

LEMMA NothingFromTheFutureHolds ==
    ASSUME BarsTyped, RowsAreDated
    PROVE  NothingFromTheFuture
<1> SUFFICES ASSUME NEW m \in EventsStored, NEW clock \in Minutes,
                    NEW r \in Served(m, clock), NEW t \in r.trades
             PROVE  t.received <= clock
    BY DEF NothingFromTheFuture
<1>1. PICK x \in Candidates(m, clock) : r = x[1]
    BY DEF Served
<1>2. /\ x \in UNION {p.rows \X {p} : p \in parts} /\ x[1].available <= clock
    BY <1>1 DEF Candidates
<1>3. PICK p \in parts : x \in p.rows \X {p}
    BY <1>2
<1>4. r \in p.rows /\ r.available <= clock
    BY <1>1, <1>2, <1>3
<1>5. Dated(r)
    BY <1>3, <1>4 DEF RowsAreDated
<1>6. t.received <= r.available /\ r.available \in Nat /\ t \in Trade
    BY <1>5 DEF Dated, BarsTyped
<1> QED BY <1>4, <1>6, BarAssumption DEF Trade, Minutes

(* A build in progress: what it will vouch for.  What it has listed and    *)
(* does not name as unread can be read; once it has read, each of these    *)
(* trades is in a part, is another build's, or is kept for the quarantine. *)
UnreadableAreClaimed == tape \ readable \subseteq InHours({claimed})

Placed(t) ==
    IF DayOf(t.event) = build.id.of
    THEN \E p \in parts \union build.left : \E r \in p.rows : p.id.kind = "day" /\ t \in r.trades
    ELSE LeftToAnother(build.id.of, t) \/ t \in build.stranded

IsBuild ==
    /\ build.step \in {"none", "read", "write"}
    /\ build = [step |-> build.step, id |-> build.id, hours |-> build.hours,
                left |-> build.left, stranded |-> build.stranded, asked |-> build.asked]

BuildIsListed ==
    build.step # "none" =>
        /\ build.id.kind = "day" /\ build.id.of \in Int
        /\ build.hours \subseteq OwnHours(build.id.of) \union Ahead(build.id.of)
        /\ build.asked \subseteq tape
        /\ \A t \in build.asked : HourOf(t.received) \in build.hours \union build.id.unread

BuildCanRead ==
    build.step = "read" =>
        \A t \in build.asked : HourOf(t.received) \in build.hours => t \in readable

BuildHasPlaced ==
    build.step = "write" =>
        \A t \in build.asked : HourOf(t.received) \in build.id.unread \/ Placed(t)

BarsInv ==
    /\ BarsTyped /\ RowsAreDated /\ UnreadableAreClaimed
    /\ IsBuild /\ BuildIsListed /\ BuildCanRead /\ BuildHasPlaced
    /\ IdsVouchForTheirTrades

LEMMA BarsStart == BarsInit => BarsInv
<1> SUFFICES ASSUME BarsInit PROVE BarsInv
    OBVIOUS
<1>1. BarsTyped
    <2>1. FirstMinute \in Minutes
        BY BarAssumption DEF Minutes
    <2> QED BY <2>1 DEF BarsInit, BarsTyped
<1>2. RowsAreDated /\ UnreadableAreClaimed
    BY DEF BarsInit, RowsAreDated, UnreadableAreClaimed, NoBuild
<1>3. build.step = "none" /\ IsBuild
    BY DEF BarsInit, NoBuild, IsBuild
<1>4. IdsVouchForTheirTrades
    BY DEF BarsInit, IdsVouchForTheirTrades
<1> QED BY <1>1, <1>2, <1>3, <1>4 DEF BarsInv, BuildIsListed, BuildCanRead, BuildHasPlaced

(* Parts and quarantines are only ever added: what an id vouches for stays.*)
LEMMA VouchedStays ==
    ASSUME IdsVouchForTheirTrades, parts \subseteq parts', quarantine \subseteq quarantine',
           asked' = asked
    PROVE  IdsVouchForTheirTrades'
<1>1. ASSUME NEW t, Stored(t) PROVE Stored(t)'
    BY <1>1 DEF Stored
<1>2. ASSUME NEW t, Quarantined(t) PROVE Quarantined(t)'
    BY <1>2 DEF Quarantined
<1>3. ASSUME NEW d, NEW t, LeftToAnother(d, t) PROVE LeftToAnother(d, t)'
    BY <1>3 DEF LeftToAnother
<1> QED BY <1>1, <1>2, <1>3 DEF IdsVouchForTheirTrades

LEMMA PlacedStays ==
    ASSUME NEW t, Placed(t), parts \union build.left \subseteq parts' \union build'.left,
           build'.id = build.id, build'.stranded = build.stranded
    PROVE  Placed(t)'
<1>1. ASSUME NEW d, LeftToAnother(d, t) PROVE LeftToAnother(d, t)'
    BY <1>1 DEF LeftToAnother
<1> QED BY <1>1 DEF Placed

LEMMA ReadableAreKept ==
    ASSUME BarsTyped, UnreadableAreClaimed, BarsNext
    PROVE  UnreadableAreClaimed'
<1>1. ASSUME NEW event, Receive(event) PROVE UnreadableAreClaimed'
    <2> DEFINE trade == [event |-> event, received |-> minute]
    <2>1. /\ tape' = tape \union {trade} /\ claimed' = HourOf(minute)
          /\ readable' = IF claimed = HourOf(minute) THEN readable ELSE tape
        BY <1>1 DEF Receive
    <2> SUFFICES ASSUME NEW t \in tape' \ readable' PROVE HourOf(t.received) = claimed'
        BY DEF UnreadableAreClaimed, InHours
    <2>2. CASE t = trade
        BY <2>1, <2>2
    <2>3. CASE t \in tape
        <3>1. claimed = HourOf(minute) /\ t \notin readable
            BY <2>1, <2>3
        <3>2. HourOf(t.received) = claimed
            BY <2>3, <3>1 DEF UnreadableAreClaimed, InHours
        <3> QED BY <2>1, <3>1, <3>2
    <2> QED BY <2>1, <2>2, <2>3
<1>2. ASSUME readable' = tape, tape' = tape PROVE UnreadableAreClaimed'
    BY <1>2 DEF UnreadableAreClaimed
<1>3. ASSUME UNCHANGED <<tape, readable, claimed>> PROVE UnreadableAreClaimed'
    BY <1>3 DEF UnreadableAreClaimed, InHours, HourOf
<1>4. CASE MinutePasses
    BY <1>3, <1>4 DEF MinutePasses
<1>5. CASE Flush \/ CloseHour
    BY <1>2, <1>5 DEF Flush, CloseHour
<1>6. CASE \/ \E lag \in Lags : lag <= minute /\ Receive(minute - lag)
           \/ \E event \in GarbledEvents : Receive(event)
    BY <1>1, <1>6
<1>7. CASE \E tier \in Tiers : LiveBuild(tier) \/ LiveRestart(tier)
    BY <1>3, <1>7 DEF LiveBuild, LiveRestart
<1>8. CASE \E d \in {DayOf(minute) - 1, DayOf(minute)} : BeginBuild(d) \/ Correct(d)
    BY <1>3, <1>8 DEF BeginBuild, Correct
<1>9. CASE (\E p \in build.left : WritePart(p)) \/ ReadHours \/ ReadRaises \/ EndBuild \/ KillBuild
    BY <1>3, <1>9 DEF WritePart, ReadHours, ReadRaises, EndBuild, KillBuild
<1> QED BY <1>4, <1>5, <1>6, <1>7, <1>8, <1>9 DEF BarsNext

BuildKept ==
    IsBuild' /\ BuildIsListed' /\ BuildCanRead' /\ BuildHasPlaced' /\ IdsVouchForTheirTrades'

LEMMA OthersKeepTheBuild ==
    ASSUME BarsInv, tape \subseteq tape', readable \subseteq readable', parts \subseteq parts',
           UNCHANGED <<build, asked, quarantine>>
    PROVE  BuildKept
<1>1. IsBuild'
    BY DEF BarsInv, IsBuild
<1>2. BuildIsListed'
    BY DEF BarsInv, BuildIsListed, OwnHours, Ahead, HourOf
<1>3. BuildCanRead'
    BY DEF BarsInv, BuildCanRead, HourOf
<1>4. BuildHasPlaced'
    <2> SUFFICES ASSUME build.step = "write", NEW t \in build.asked
                 PROVE  HourOf(t.received) \in build.id.unread \/ Placed(t)'
        BY DEF BuildHasPlaced, HourOf
    <2> QED BY PlacedStays DEF BarsInv, BuildHasPlaced
<1>5. IdsVouchForTheirTrades'
    BY VouchedStays DEF BarsInv
<1> QED BY <1>1, <1>2, <1>3, <1>4, <1>5 DEF BuildKept

LEMMA NoBuildKeeps ==
    ASSUME BarsInv, build' = NoBuild, parts \subseteq parts', quarantine \subseteq quarantine',
           asked' = asked
    PROVE  BuildKept
<1>1. IsBuild' /\ BuildIsListed' /\ BuildCanRead' /\ BuildHasPlaced'
    BY DEF NoBuild, IsBuild, BuildIsListed, BuildCanRead, BuildHasPlaced
<1>2. IdsVouchForTheirTrades'
    BY VouchedStays DEF BarsInv
<1> QED BY <1>1, <1>2 DEF BuildKept

LEMMA BeginKeeps ==
    ASSUME BarsInv, NEW d \in Int, BeginBuild(d)
    PROVE  BuildKept
<1>1. /\ build' = [step |-> "read", id |-> DayId(d), hours |-> Looked(d) \ {claimed},
                   left |-> {}, stranded |-> {}, asked |-> InHours(Looked(d))]
      /\ UNCHANGED <<tape, readable, parts, quarantine, asked>>
    BY DEF BeginBuild
<1>2. DayId(d).kind = "day" /\ DayId(d).of = d /\ DayId(d).unread = Looked(d) \intersect {claimed}
    BY DEF DayId, Unread
<1>3. Looked(d) \subseteq OwnHours(d) \union Ahead(d)
    BY DEF Looked, Captured
<1>4. \A t \in InHours(Looked(d)) : t \in tape /\ HourOf(t.received) \in Looked(d)
    BY DEF InHours
<1>5. IsBuild'
    BY <1>1 DEF IsBuild
<1>6. BuildIsListed'
    BY <1>1, <1>2, <1>3, <1>4 DEF BuildIsListed, OwnHours, Ahead, HourOf
<1>7. BuildCanRead'
    <2> SUFFICES ASSUME NEW t \in InHours(Looked(d)), HourOf(t.received) \in Looked(d) \ {claimed}
                 PROVE  t \in readable
        BY <1>1 DEF BuildCanRead, HourOf
    <2> QED BY <1>4 DEF BarsInv, UnreadableAreClaimed, InHours
<1>8. BuildHasPlaced'
    BY <1>1 DEF BuildHasPlaced
<1>9. IdsVouchForTheirTrades'
    BY <1>1, VouchedStays DEF BarsInv
<1> QED BY <1>5, <1>6, <1>7, <1>8, <1>9 DEF BuildKept

(* What the build has read it has placed.                                  *)
LEMMA ReadIsPlaced ==
    ASSUME BarsInv, NEW d \in Int, NEW read \in SUBSET tape, NEW t \in read,
           HourOf(t.received) \in OwnHours(d) \union Ahead(d)
    PROVE  \/ DayOf(t.event) = d /\ \E r \in Bars(Kept(d, read)) : t \in r.trades
           \/ LeftToAnother(d, t)
           \/ t \in Stranded(d, read)
<1>1. /\ t.event \in Nat /\ t.received \in Nat
      /\ DayOf(t.event) \in Int /\ HourOf(t.received) \in Int /\ HoursPerDay \in Int
      /\ LookaheadHours \in Int
    BY HoursAndDays, BarAssumption DEF BarsInv, BarsTyped, Trade, Minutes
<1>2. CASE DayOf(t.event) = d
    <2>1. t \in Kept(d, read)
        BY <1>2 DEF Kept
    <2>2. Bar(t.event, {s \in Kept(d, read) : s.event = t.event}) \in Bars(Kept(d, read))
        BY <2>1 DEF Bars
    <2>3. t \in Bar(t.event, {s \in Kept(d, read) : s.event = t.event}).trades
        BY <2>1 DEF Bar
    <2> QED BY <1>2, <2>2, <2>3
<1>3. CASE DayOf(t.event) > d
    BY <1>3 DEF LeftToAnother
<1>4. CASE DayOf(t.event) < d /\ ~Covered(d, t)
    BY <1>4 DEF Stranded
<1>5. CASE DayOf(t.event) < d /\ Covered(d, t)
    <2>1. /\ HourOf(t.received) - d * HoursPerDay \in 0 .. LookaheadHours - 1
          /\ DayOf(t.event) = d - 1
        BY <1>1, <1>5 DEF Covered
    <2>2. d * HoursPerDay \in Int /\ d - 1 + 1 = d
        BY <1>1
    <2>3. HourOf(t.received) \in (d - 1 + 1) * HoursPerDay ..
                                     (d - 1 + 1) * HoursPerDay + LookaheadHours - 1
        BY <1>1, <2>1, <2>2
    <2> QED BY <2>1, <2>3 DEF LeftToAnother, Ahead
<1> QED BY <1>1, <1>2, <1>3, <1>4, <1>5

LEMMA ReadHoursKeeps ==
    ASSUME BarsInv, ReadHours
    PROVE  BuildKept
<1> DEFINE d == build.id.of
           read == InHours(build.hours) \intersect readable
           new == PartsOf(build.id, Bars(Kept(d, read)))
<1>1. build.step = "read" /\ UNCHANGED <<tape, readable, parts, quarantine, asked>>
    BY DEF ReadHours
<1>2. CASE Taken(new)
    <2>1. build' = NoBuild
        BY <1>2 DEF ReadHours
    <2> QED BY <1>1, <2>1, NoBuildKeeps
<1>3. CASE ~Taken(new)
    <2>1. build' = [build EXCEPT !.step = "write", !.left = new, !.stranded = Stranded(d, read)]
        BY <1>3 DEF ReadHours
    <2> HIDE DEF new, d
    <2>2. build' = [step |-> "write", id |-> build.id, hours |-> build.hours, left |-> new,
                    stranded |-> Stranded(d, read), asked |-> build.asked]
        BY <2>1, Zenon DEF BarsInv, IsBuild
    <2>3. IsBuild' /\ BuildCanRead'
        BY <2>2 DEF IsBuild, BuildCanRead
    <2>4. BuildIsListed'
        BY <1>1, <2>2 DEF BarsInv, BuildIsListed, OwnHours, Ahead, HourOf
    <2>5. ASSUME NEW t \in build.asked, HourOf(t.received) \notin build.id.unread
          PROVE  Placed(t)'
        <3>1. /\ d \in Int /\ build.id.kind = "day" /\ HourOf(t.received) \in build.hours
              /\ HourOf(t.received) \in OwnHours(d) \union Ahead(d) /\ t \in tape
            BY <1>1, <2>5 DEF BarsInv, BuildIsListed, d
        <3>2. t \in read /\ read \in SUBSET tape
            BY <1>1, <3>1 DEF BarsInv, BarsTyped, BuildCanRead, InHours
        <3> HIDE DEF read
        <3>3. \/ DayOf(t.event) = d /\ \E r \in Bars(Kept(d, read)) : t \in r.trades
              \/ LeftToAnother(d, t)
              \/ t \in Stranded(d, read)
            BY <3>1, <3>2, ReadIsPlaced
        <3>4. build'.id.of = d /\ build'.left = new /\ build'.stranded = Stranded(d, read)
            BY <2>2 DEF d
        <3>5. CASE DayOf(t.event) = d /\ \E r \in Bars(Kept(d, read)) : t \in r.trades
            <4>1. PICK r \in Bars(Kept(d, read)) : t \in r.trades
                BY <3>5
            <4>2. \E p \in new : p.id = build.id /\ r \in p.rows
                <5> DEFINE rows == Bars(Kept(d, read))
                           part == [id |-> build.id, hour |-> HourOf(r.available),
                                    rows |-> {x \in rows : HourOf(x.available) = HourOf(r.available)}]
                <5>1. part \in PartsOf(build.id, rows)
                    <6>1. HourOf(r.available) \in {HourOf(x.available) : x \in rows}
                        BY <4>1
                    <6> HIDE DEF rows
                    <6> QED BY <6>1 DEF PartsOf
                <5>2. part.id = build.id /\ r \in part.rows
                    BY <4>1
                <5> HIDE DEF part, rows
                <5> QED BY <5>1, <5>2 DEF new, rows
            <4> QED BY <3>1, <3>4, <3>5, <4>1, <4>2 DEF Placed, DayOf
        <3>6. CASE DayOf(t.event) # d
            BY <3>3, <3>4, <3>6 DEF Placed, LeftToAnother, DayOf, HourOf, Ahead
        <3>7. DayOf(t.event) = d => \E r \in Bars(Kept(d, read)) : t \in r.trades
            <4>1. DayOf(t.event) = d => ~ LeftToAnother(d, t) /\ t \notin Stranded(d, read)
                BY <3>1 DEF LeftToAnother, Stranded
            <4> QED BY <3>3, <4>1, Zenon
        <3>8. CASE DayOf(t.event) = d
            BY <3>5, <3>7, <3>8, Zenon
        <3> QED BY <3>6, <3>8, Zenon
    <2>6. BuildHasPlaced'
        <3>1. build'.asked = build.asked /\ build'.id = build.id
            BY <2>2
        <3> QED BY <3>1, <2>5 DEF BuildHasPlaced, HourOf
    <2>7. IdsVouchForTheirTrades'
        BY <1>1, VouchedStays DEF BarsInv
    <2> QED BY <2>3, <2>4, <2>6, <2>7 DEF BuildKept
<1> QED BY <1>2, <1>3

LEMMA WritePartKeeps ==
    ASSUME BarsInv, NEW p \in build.left, WritePart(p)
    PROVE  BuildKept
<1>1. /\ build.step = "write" /\ parts' = parts \union {p}
      /\ build' = [build EXCEPT !.left = @ \ {p}]
      /\ UNCHANGED <<tape, readable, quarantine, asked>>
    BY DEF WritePart
<1>2. build' = [step |-> build.step, id |-> build.id, hours |-> build.hours,
                left |-> build.left \ {p}, stranded |-> build.stranded, asked |-> build.asked]
    BY <1>1, Zenon DEF BarsInv, IsBuild
<1>3. IsBuild' /\ BuildCanRead'
    BY <1>1, <1>2 DEF BarsInv, IsBuild, BuildCanRead
<1>4. BuildIsListed'
    BY <1>1, <1>2 DEF BarsInv, BuildIsListed, OwnHours, Ahead, HourOf
<1>5. BuildHasPlaced'
    <2> SUFFICES ASSUME NEW t \in build.asked
                 PROVE  HourOf(t.received) \in build.id.unread \/ Placed(t)'
        BY <1>2 DEF BuildHasPlaced, HourOf
    <2>1. parts \union build.left \subseteq parts' \union build'.left
        BY <1>1, <1>2
    <2> QED BY <1>1, <1>2, <2>1, PlacedStays DEF BarsInv, BuildHasPlaced
<1>6. IdsVouchForTheirTrades'
    BY <1>1, VouchedStays DEF BarsInv
<1> QED BY <1>3, <1>4, <1>5, <1>6 DEF BuildKept

LEMMA EndBuildKeeps ==
    ASSUME BarsInv, EndBuild
    PROVE  BuildKept
<1> DEFINE named == IF build.stranded = {} THEN {}
                    ELSE {[id |-> build.id, trades |-> build.stranded]}
           raises == named # {} /\ \E q \in quarantine : q.id = build.id
<1>1. /\ build.step = "write" /\ build.left = {} /\ build' = NoBuild
      /\ quarantine' = IF raises THEN quarantine ELSE quarantine \union named
      /\ asked' = IF raises THEN asked ELSE asked \union ({build.id} \X build.asked)
      /\ UNCHANGED <<tape, readable, parts>>
    BY DEF EndBuild
<1>2. quarantine \subseteq quarantine'
    BY <1>1
<1>3. CASE raises
    <2>1. asked' = asked
        BY <1>1, <1>3
    <2> QED BY <1>1, <1>2, <2>1, NoBuildKeeps
<1>4. CASE ~raises
    <2>1. IsBuild' /\ BuildIsListed' /\ BuildCanRead' /\ BuildHasPlaced'
        BY <1>1 DEF NoBuild, IsBuild, BuildIsListed, BuildCanRead, BuildHasPlaced
    <2>2. asked' = asked \union ({build.id} \X build.asked) /\ quarantine' = quarantine \union named
        BY <1>1, <1>4
    <2>3. ASSUME NEW t, Stored(t) PROVE Stored(t)'
        BY <1>1, <2>3 DEF Stored
    <2>4. ASSUME NEW t, Quarantined(t) PROVE Quarantined(t)'
        BY <1>2, <2>4 DEF Quarantined
    <2>5. ASSUME NEW d, NEW t, LeftToAnother(d, t) PROVE LeftToAnother(d, t)'
        BY <2>5 DEF LeftToAnother
    <2>6. ASSUME NEW t \in build.asked, HourOf(t.received) \notin build.id.unread
          PROVE  IF DayOf(t.event) = build.id.of THEN Stored(t)'
                 ELSE LeftToAnother(build.id.of, t) \/ Quarantined(t)'
        <3>1. Placed(t)
            BY <1>1, <2>6 DEF BarsInv, BuildHasPlaced
        <3>2. CASE DayOf(t.event) = build.id.of
            <4>1. Stored(t)
                BY <1>1, <3>1, <3>2 DEF Placed, Stored
            <4> QED BY <3>2, <4>1, <2>3
        <3>3. CASE DayOf(t.event) # build.id.of /\ t \in build.stranded
            <4>1. [id |-> build.id, trades |-> build.stranded] \in quarantine'
                BY <2>2, <3>3
            <4> QED BY <3>3, <4>1 DEF Quarantined
        <3>4. CASE DayOf(t.event) # build.id.of /\ LeftToAnother(build.id.of, t)
            BY <3>4
        <3> QED BY <3>1, <3>2, <3>3, <3>4 DEF Placed
    <2>7. ASSUME NEW w \in asked'
          PROVE  \/ HourOf(w[2].received) \in w[1].unread
                 \/ IF DayOf(w[2].event) = w[1].of THEN Stored(w[2])'
                    ELSE LeftToAnother(w[1].of, w[2]) \/ Quarantined(w[2])'
        <3>1. CASE w \in asked
            BY <3>1, <2>3, <2>4 DEF BarsInv, IdsVouchForTheirTrades
        <3>2. CASE w \in {build.id} \X build.asked
            <4>1. w[1] = build.id /\ w[2] \in build.asked
                BY <3>2
            <4> HIDE DEF named, raises
            <4> QED BY <4>1, <2>6
        <3> QED BY <2>2, <3>1, <3>2
    <2>8. IdsVouchForTheirTrades'
        BY <2>7, <2>5 DEF IdsVouchForTheirTrades, DayOf, HourOf
    <2> QED BY <2>1, <2>8 DEF BuildKept
<1> QED BY <1>3, <1>4

LEMMA BarsSteps ==
    BarsInv /\ [FeedNext]_<<barVars, feedVars>> => BarsInv'
<1> SUFFICES ASSUME BarsInv, [FeedNext]_<<barVars, feedVars>> PROVE BarsInv'
    OBVIOUS
<1>1. CASE UNCHANGED barVars
    <2>1. UNCHANGED <<minute, tape, readable, claimed, parts, quarantine, build, asked>>
        BY <1>1 DEF barVars
    <2>2. BarsTyped' /\ RowsAreDated' /\ UnreadableAreClaimed'
        BY <2>1 DEF BarsInv, BarsTyped, RowsAreDated, Dated, UnreadableAreClaimed, InHours,
                    Minutes, Trade, HourOf
    <2>3. BuildKept
        BY <2>1, OthersKeepTheBuild
    <2> QED BY <2>2, <2>3 DEF BarsInv, BuildKept
<1>2. CASE BarsNext
    <2>1. BarsTyped' /\ tape \subseteq tape' /\ readable \subseteq readable'
        BY <1>2, BarsTypedKept DEF BarsInv
    <2>2. RowsAreDated' /\ UnreadableAreClaimed'
        BY <1>2, RowsAreDatedKept, ReadableAreKept DEF BarsInv
    <2>3. ASSUME parts \subseteq parts', UNCHANGED <<build, asked, quarantine>> PROVE BuildKept
        BY <2>1, <2>3, OthersKeepTheBuild
    <2>4. ASSUME MinutePasses \/ Flush \/ CloseHour PROVE BuildKept
        BY <2>3, <2>4 DEF MinutePasses, Flush, CloseHour
    <2>5. ASSUME NEW event, Receive(event) PROVE BuildKept
        BY <2>3, <2>5 DEF Receive
    <2>6. ASSUME \E tier \in Tiers : LiveBuild(tier) \/ LiveRestart(tier) PROVE BuildKept
        BY <2>3, <2>6 DEF LiveBuild, LiveRestart
    <2>7. ASSUME NEW d, Correct(d) PROVE BuildKept
        BY <2>3, <2>7 DEF Correct
    <2>8. ASSUME NEW d \in {DayOf(minute) - 1, DayOf(minute)}, BeginBuild(d) PROVE BuildKept
        <3>1. d \in Int
            BY HoursAndDays, BarAssumption DEF BarsInv, BarsTyped, Minutes
        <3> QED BY <2>8, <3>1, BeginKeeps
    <2>9. ASSUME ReadRaises \/ KillBuild PROVE BuildKept
        BY <2>9, NoBuildKeeps DEF ReadRaises, KillBuild
    <2>10. ASSUME ReadHours PROVE BuildKept
        BY <2>10, ReadHoursKeeps
    <2>11. ASSUME \E p \in build.left : WritePart(p) PROVE BuildKept
        BY <2>11, WritePartKeeps
    <2>12. ASSUME EndBuild PROVE BuildKept
        BY <2>12, EndBuildKeeps
    <2>13. BuildKept
        BY <1>2, <2>4, <2>5, <2>6, <2>7, <2>8, <2>9, <2>10, <2>11, <2>12 DEF BarsNext
    <2> QED BY <2>1, <2>2, <2>13 DEF BarsInv, BuildKept
<1> QED BY <1>1, <1>2 DEF FeedNext, Poll

LEMMA BarsInvariant == FeedSpec => []BarsInv
<1>1. BarsInit /\ FeedInit => BarsInv
    BY BarsStart
<1> QED BY <1>1, BarsSteps, PTL DEF FeedSpec

(* clock_gated_reader.py over build_snapshot.py, build_live.py and         *)
(* republish_day: whatever order the builds, the corrections and the live  *)
(* builders write in, a replay sees no trade before it was received.       *)
THEOREM ReplaysAreCausal == FeedSpec => []NothingFromTheFuture
<1>1. BarsInv => NothingFromTheFuture
    BY NothingFromTheFutureHolds DEF BarsInv
<1> QED BY <1>1, BarsInvariant, PTL

(* compute_snapshot_id, _unread_hours and the stranded trades: an id that  *)
(* refuses every later build like it leaves no trade of its hours out      *)
(* without a word, however the recorder runs on while the build reads.     *)
THEOREM IdsVouch == FeedSpec => []IdsVouchForTheirTrades
<1>1. BarsInv => IdsVouchForTheirTrades
    BY DEF BarsInv
<1> QED BY <1>1, BarsInvariant, PTL

-----------------------------------------------------------------------------
(* The boards.  The invariant says of each pass, of the kept answer and of *)
(* the page how old the evidence for a green answer can be.                *)

States(i) == {"sound"} \union Conditions(Ask(i))

(* How much later than its start a pass may be stamped, and how much older *)
(* than its start a kept answer may be.                                    *)
StampSlack == IF board.page \in {"build-progress", "plan", "blotter", "console"} THEN MaxPass ELSE 0
KeptSlack == IF IsKept THEN Ttl + MaxPass ELSE 0

(* The evidence, and that a piece was last sound in the past.              *)
EvidenceTyped ==
    /\ board \in Boards /\ moment \in Nat
    /\ \A i \in Asks : evidence[i] \in States(i) /\ spoiled[i] \in Nat /\ spoiled[i] <= moment
    /\ DOMAIN evidence = Asks /\ DOMAIN spoiled = Asks

IsPass(q) ==
    q = [step |-> q.step, known |-> q.known, began |-> q.began, saw |-> q.saw,
         state |-> q.state, at |-> q.at]

IsTimed(q) ==
    /\ q.began \in Nat /\ q.began <= moment /\ moment <= q.began + MaxPass
    /\ q.at \in Nat /\ q.at <= q.began + StampSlack

(* What a pass saw in order was in order when it began, or later.          *)
HasSeen(q) ==
    /\ DOMAIN q.saw \subseteq Asks
    /\ \A i \in DOMAIN q.saw :
        /\ q.saw[i] \in States(i)
        /\ Finding(q.saw, i) = Pass => LastSound(i) >= q.began

HasEarned(q) ==
    q.state = board.tile.best =>
        \A i \in Asks : LastSound(i) + (IF q.step = "keep" THEN 0 ELSE KeptSlack) >= q.began

PassesInv ==
    /\ DOMAIN passing = Passes
    /\ \A p \in Passes :
        /\ IsPass(passing[p])
        /\ passing[p].step # "idle" =>
               IsTimed(passing[p]) /\ HasSeen(passing[p]) /\ HasEarned(passing[p])

Earned(answer, slack) ==
    /\ answer.at \in Nat
    /\ answer.state = board.tile.best => \A i \in Asks : LastSound(i) + slack >= answer.at

WallInv ==
    /\ EvidenceTyped /\ PassesInv
    /\ Earned(held, MaxPass) /\ Earned(page, Slack)

LEMMA SlackTypes ==
    /\ Ttl \in Nat /\ StaleAfter \in Nat /\ MaxPass \in Nat /\ LastMoment \in Nat
    /\ StampSlack \in Nat /\ KeptSlack \in Nat /\ Slack = StampSlack + KeptSlack
BY StatusWallAssumption DEF StampSlack, KeptSlack, Slack

LEMMA LastSoundType ==
    ASSUME EvidenceTyped, NEW i \in Asks
    PROVE  LastSound(i) \in Nat /\ LastSound(i) <= moment
BY DEF EvidenceTyped, LastSound

LEMMA GreenIsEarnedHolds ==
    ASSUME WallInv
    PROVE  GreenIsEarned
<1> SUFFICES ASSUME page.state = board.tile.best, ~Warned, NEW i \in Asks
             PROVE  LastSound(i) + Slack >= (IF HasBanner THEN moment - StaleAfter ELSE page.at)
    BY DEF GreenIsEarned
<1>1. LastSound(i) + Slack >= page.at /\ page.at \in Nat /\ moment \in Nat
    BY DEF WallInv, Earned, EvidenceTyped
<1>2. LastSound(i) \in Nat /\ Slack \in Nat /\ StaleAfter \in Nat
    BY SlackTypes, LastSoundType DEF WallInv
<1>3. CASE HasBanner
    <2>1. ~(moment - page.at > StaleAfter)
        BY <1>3 DEF Warned
    <2> QED BY <1>1, <1>2, <1>3, <2>1
<1> QED BY <1>1, <1>3

LEMMA WallStarts == WallInit => WallInv
<1> SUFFICES ASSUME WallInit PROVE WallInv
    OBVIOUS
<1>1. EvidenceTyped
    BY DEF WallInit, EvidenceTyped, States
<1>2. \A p \in Passes : passing[p] = Idle
    BY DEF WallInit
<1>3. PassesInv
    BY <1>2 DEF WallInit, PassesInv, IsPass, Idle
<1>4. board.tile.best # "none"
    BY TilesAssumption DEF WallInit, TellsBest
<1>5. Earned(held, MaxPass) /\ Earned(page, Slack)
    BY <1>4 DEF WallInit, Earned, NoAnswer
<1> QED BY <1>1, <1>3, <1>5 DEF WallInv

(* Evidence is not mended: a piece that was in order at some time stays a  *)
(* piece that was in order then.                                           *)
LEMMA SoundnessStays ==
    ASSUME EvidenceTyped, board' = board,
           \/ MomentPasses
           \/ \E i \in Asks : Spoil(i)
           \/ UNCHANGED <<evidence, spoiled, moment>>
    PROVE  /\ EvidenceTyped' /\ Asks' = Asks
           /\ moment' \in Nat /\ moment <= moment'
           /\ \A i \in Asks : LastSound(i)' >= LastSound(i)
<1>1. Asks' = Asks /\ (\A i : Ask(i)' = Ask(i)) /\ \A i : States(i)' = States(i)
    BY DEF Asks, Ask, States, Conditions
<1>2. \A i \in Asks : LastSound(i) \in Nat /\ LastSound(i) <= moment
    BY LastSoundType
<1>3. CASE MomentPasses
    <2>1. moment' = moment + 1 /\ UNCHANGED <<evidence, spoiled>> /\ moment \in Nat
        BY <1>3 DEF MomentPasses, EvidenceTyped
    <2>2. EvidenceTyped'
        BY <1>1, <2>1 DEF EvidenceTyped
    <2>3. \A i \in Asks : LastSound(i)' >= LastSound(i)
        BY <1>1, <2>1 DEF LastSound, EvidenceTyped
    <2> QED BY <1>1, <2>1, <2>2, <2>3
<1>4. ASSUME NEW k \in Asks, Spoil(k)
      PROVE  /\ EvidenceTyped' /\ moment' = moment
             /\ \A i \in Asks : LastSound(i)' >= LastSound(i)
    <2>1. PICK c \in Conditions(Ask(k)) : evidence' = [evidence EXCEPT ![k] = c]
        BY <1>4 DEF Spoil
    <2>2. /\ spoiled' = [spoiled EXCEPT ![k] = moment] /\ moment' = moment
          /\ evidence[k] = "sound"
        BY <1>4 DEF Spoil
    <2>3. ASSUME NEW i \in Asks
          PROVE  /\ evidence'[i] \in States(i) /\ spoiled'[i] \in Nat /\ spoiled'[i] <= moment
                 /\ LastSound(i)' >= LastSound(i)
        <3>1. CASE i = k
            <4>1. evidence'[i] = c /\ spoiled'[i] = moment
                BY <2>1, <2>2, <3>1 DEF EvidenceTyped
            <4>2. LastSound(i)' = moment
                BY <1>1, <2>2, <4>1 DEF LastSound
            <4> QED BY <1>2, <2>1, <3>1, <4>1, <4>2 DEF States, EvidenceTyped
        <3>2. CASE i # k
            <4>1. evidence'[i] = evidence[i] /\ spoiled'[i] = spoiled[i]
                BY <2>1, <2>2, <3>2 DEF EvidenceTyped
            <4>2. LastSound(i)' = LastSound(i)
                BY <1>1, <2>2, <4>1 DEF LastSound
            <4> QED BY <1>2, <4>1, <4>2 DEF EvidenceTyped
        <3> QED BY <3>1, <3>2
    <2>4. DOMAIN evidence' = Asks /\ DOMAIN spoiled' = Asks
        BY <2>1, <2>2 DEF EvidenceTyped
    <2>5. EvidenceTyped'
        BY <1>1, <2>2, <2>3, <2>4 DEF EvidenceTyped
    <2> QED BY <2>2, <2>3, <2>5
<1>5. CASE UNCHANGED <<evidence, spoiled, moment>>
    <2>1. EvidenceTyped'
        BY <1>1, <1>5 DEF EvidenceTyped
    <2>2. \A i \in Asks : LastSound(i)' = LastSound(i)
        BY <1>1, <1>5 DEF LastSound
    <2> QED BY <1>1, <1>2, <1>5, <2>1, <2>2 DEF EvidenceTyped
<1>6. moment \in Nat
    BY DEF EvidenceTyped
<1> QED BY <1>1, <1>3, <1>4, <1>5, <1>6

WorldMoves ==
    /\ board' = board
    /\ \/ MomentPasses
       \/ \E i \in Asks : Spoil(i)
       \/ UNCHANGED <<evidence, spoiled, moment>>

LEMMA BoardStays ==
    ASSUME board' = board
    PROVE  /\ Slack' = Slack /\ KeptSlack' = KeptSlack /\ StampSlack' = StampSlack
           /\ Passes' = Passes
           /\ \A saw : \A i : Finding(saw, i)' = Finding(saw, i)
BY DEF Slack, KeptSlack, StampSlack, IsKept, IsMeasuredBySystem, Passes, Finding, Ask

LEMMA PassStays ==
    ASSUME EvidenceTyped, WorldMoves, NEW q,
           IsTimed(q), HasSeen(q), HasEarned(q), moment' <= q.began + MaxPass
    PROVE  IsTimed(q)' /\ HasSeen(q)' /\ HasEarned(q)'
<1>1. /\ EvidenceTyped' /\ Asks' = Asks /\ moment \in Nat
      /\ moment' \in Nat /\ moment <= moment'
      /\ \A i \in Asks : LastSound(i)' >= LastSound(i)
    BY SoundnessStays DEF WorldMoves, EvidenceTyped
<1>2. \A i \in Asks : LastSound(i) \in Nat /\ LastSound(i)' \in Nat
    <2>1. ASSUME NEW i \in Asks PROVE LastSound(i)' \in Nat
        <3>1. i \in Asks'
            BY <1>1
        <3> QED BY <1>1, <3>1 DEF EvidenceTyped, LastSound
    <2> QED BY <2>1, LastSoundType
<1>3. /\ StampSlack' = StampSlack /\ KeptSlack' = KeptSlack
      /\ \A i : Finding(q.saw, i)' = Finding(q.saw, i)
    BY BoardStays DEF WorldMoves
<1>4. StampSlack \in Nat /\ KeptSlack \in Nat
    BY SlackTypes
<1>5. q.began \in Nat
    BY DEF IsTimed
<1>6. IsTimed(q)'
    BY <1>1, <1>3 DEF IsTimed
<1>7. HasSeen(q)'
    <2>1. \A i : States(i)' = States(i)
        BY DEF States, Ask, WorldMoves
    <2> QED BY <1>1, <1>2, <1>3, <1>5, <2>1 DEF HasSeen
<1>8. HasEarned(q)'
    <2> SUFFICES ASSUME q.state = board.tile.best, NEW i \in Asks
                 PROVE  LastSound(i)' + (IF q.step = "keep" THEN 0 ELSE KeptSlack) >= q.began
        BY <1>1, <1>3 DEF HasEarned, WorldMoves
    <2>1. LastSound(i) + (IF q.step = "keep" THEN 0 ELSE KeptSlack) >= q.began
        BY DEF HasEarned
    <2> QED BY <2>1, <1>1, <1>2, <1>4, <1>5
<1> QED BY <1>6, <1>7, <1>8

LEMMA AnswerStays ==
    ASSUME EvidenceTyped, WorldMoves, NEW answer, NEW slack \in Nat, Earned(answer, slack)
    PROVE  Earned(answer, slack)'
<1>1. /\ EvidenceTyped' /\ Asks' = Asks /\ \A i \in Asks : LastSound(i)' >= LastSound(i)
    BY SoundnessStays DEF WorldMoves
<1>2. \A i \in Asks : LastSound(i) \in Nat /\ LastSound(i)' \in Nat
    <2>1. ASSUME NEW i \in Asks PROVE LastSound(i)' \in Nat
        <3>1. i \in Asks'
            BY <1>1
        <3> QED BY <1>1, <3>1 DEF EvidenceTyped, LastSound
    <2> QED BY <2>1, LastSoundType
<1>3. answer.at \in Nat
    BY DEF Earned
<1> SUFFICES ASSUME answer.state = board.tile.best, NEW i \in Asks
             PROVE  LastSound(i)' + slack >= answer.at
    BY <1>1, <1>3 DEF Earned, WorldMoves
<1>4. LastSound(i) + slack >= answer.at
    BY DEF Earned
<1> QED BY <1>1, <1>2, <1>3, <1>4

(* One pass moves, the evidence stands.                                    *)
LEMMA PassMoves ==
    ASSUME EvidenceTyped, PassesInv, UNCHANGED <<board, evidence, spoiled, moment>>,
           NEW p \in Passes, NEW q, Moves(p, q), IsPass(q),
           q.step # "idle" => IsTimed(q) /\ HasSeen(q) /\ HasEarned(q)
    PROVE  PassesInv'
<1>1. /\ Passes' = Passes /\ passing' = [passing EXCEPT ![p] = q] /\ WorldMoves
    BY BoardStays DEF Moves, WorldMoves
<1>2. DOMAIN passing' = Passes /\ \A r \in Passes : passing'[r] = IF r = p THEN q ELSE passing[r]
    BY <1>1 DEF PassesInv
<1>3. ASSUME NEW r \in Passes, NEW s, s = passing'[r]
      PROVE  IsPass(s) /\ (s.step # "idle" => IsTimed(s)' /\ HasSeen(s)' /\ HasEarned(s)')
    <2>1. IsPass(s) /\ (s.step # "idle" => IsTimed(s) /\ HasSeen(s) /\ HasEarned(s))
        BY <1>2, <1>3 DEF PassesInv
    <2>2. s.step # "idle" => moment' <= s.began + MaxPass
        BY <2>1 DEF IsTimed
    <2> QED BY <2>1, <2>2, <1>1, PassStays
<1>4. ASSUME NEW r \in Passes
      PROVE  /\ IsPass(passing[r])'
             /\ (passing[r].step # "idle" =>
                    IsTimed(passing[r]) /\ HasSeen(passing[r]) /\ HasEarned(passing[r]))'
    <2>1. PICK s : s = passing'[r]
        OBVIOUS
    <2>2. IsPass(s) /\ (s.step # "idle" => IsTimed(s)' /\ HasSeen(s)' /\ HasEarned(s)')
        BY <1>3, <2>1
    <2> QED BY <2>1, <2>2
<1> QED BY <1>1, <1>2, <1>4 DEF PassesInv

LEMMA FirstIn ==
    ASSUME NEW n \in Nat, NEW I \in SUBSET (1..n), I # {}
    PROVE  (CHOOSE i \in I : \A j \in I : i <= j) \in I
<1> DEFINE J == {n + 1 - i : i \in I}
<1>1. J \in SUBSET (1..n) /\ J # {}
    <2>1. ASSUME NEW i \in I PROVE n + 1 - i \in 1..n
        <3>1. i \in 1..n
            OBVIOUS
        <3> QED BY <3>1
    <2>2. \A j \in J : j \in 1..n
        BY <2>1
    <2>3. PICK i : i \in I
        OBVIOUS
    <2>4. n + 1 - i \in J
        BY <2>3
    <2> QED BY <2>2, <2>4
<1>2. Last(J) \in J /\ \A j \in J : j <= Last(J)
    <2> HIDE DEF J
    <2> QED BY <1>1, LastIn
<1>3. PICK i \in I : Last(J) = n + 1 - i
    BY <1>2
<1>4. ASSUME NEW j \in I PROVE i <= j
    <2>1. n + 1 - j \in J
        OBVIOUS
    <2>2. n + 1 - j <= n + 1 - i
        BY <1>2, <1>3, <2>1
    <2> QED BY <2>2
<1> QED BY <1>4

LEMMA AsksAreNumbered ==
    ASSUME EvidenceTyped
    PROVE  \E n \in Nat : Asks = 1..n
BY TilesAssumption DEF EvidenceTyped, TellsBest, Asks

(* A probe answers the best only when every piece it saw was in order.     *)
LEMMA BestMeansPass ==
    ASSUME EvidenceTyped, NEW saw, DOMAIN saw \subseteq Asks,
           \A i \in DOMAIN saw : saw[i] \in States(i),
           Verdict(saw) = board.tile.best
    PROVE  \A i \in DOMAIN saw : Finding(saw, i) = Pass
<1> DEFINE settling == {i \in DOMAIN saw : Settles(saw, i)}
           missing == {i \in DOMAIN saw : Finding(saw, i) = Missing}
<1>1. TellsBest(board.tile)
    BY TilesAssumption DEF EvidenceTyped
<1>2. ASSUME NEW i \in DOMAIN saw, Finding(saw, i) # Pass
      PROVE  saw[i] \in Conditions(Ask(i)) /\ Finding(saw, i) = Ask(i)[saw[i]]
    BY <1>2 DEF Finding, States
<1>3. settling = {}
    <2> SUFFICES ASSUME settling # {} PROVE FALSE
        OBVIOUS
    <2> DEFINE first == CHOOSE i \in settling : \A j \in settling : i <= j
    <2>1. PICK n \in Nat : Asks = 1..n
        BY AsksAreNumbered
    <2>2. first \in settling
        <3>1. settling \in SUBSET (1..n)
            BY <2>1
        <3> HIDE DEF settling
        <3> QED BY <3>1, FirstIn
    <2>3. Verdict(saw) = Finding(saw, first)
        BY DEF Verdict
    <2> HIDE DEF first
    <2>4. Finding(saw, first) # Pass /\ first \in DOMAIN saw
        BY <2>2 DEF Settles
    <2>5. saw[first] \in Conditions(Ask(first)) /\ Ask(first)[saw[first]] = board.tile.best
        BY <1>2, <2>3, <2>4
    <2> QED BY <1>1, <2>4, <2>5 DEF TellsBest, Asks, Ask
<1>4. missing = {}
    <2> SUFFICES ASSUME NEW i \in missing PROVE FALSE
        OBVIOUS
    <2>1. i \in DOMAIN saw /\ Ask(i)[saw[i]] = Missing /\ saw[i] \in Conditions(Ask(i))
        BY <1>2 DEF Missing, Pass
    <2>2. board.tile.best \notin {PARTIAL, board.tile.none}
        BY <1>1, <2>1 DEF TellsBest, Asks, Ask
    <2>3. Verdict(saw) \in {PARTIAL, board.tile.none}
        BY <1>3 DEF Verdict
    <2> QED BY <2>2, <2>3
<1> QED BY <1>3, <1>4 DEF Settles

LEMMA SeenNow ==
    ASSUME EvidenceTyped, NEW i \in Asks, NEW saw, saw[i] = evidence[i], Finding(saw, i) = Pass
    PROVE  LastSound(i) = moment
BY DEF LastSound, Finding

PassOf(s, step, saw, state, at) ==
    [step |-> step, known |-> s.known, began |-> s.began, saw |-> saw, state |-> state, at |-> at]

LEMMA PassExcept ==
    ASSUME NEW s, IsPass(s), NEW step, NEW saw, NEW state
    PROVE  /\ [s EXCEPT !.step = step] = PassOf(s, step, s.saw, s.state, s.at)
           /\ [s EXCEPT !.saw = saw] = PassOf(s, s.step, saw, s.state, s.at)
           /\ [s EXCEPT !.step = step, !.state = state] = PassOf(s, step, s.saw, state, s.at)
<1> DEFINE u == PassOf(s, step, s.saw, s.state, s.at)
<1>1. s = PassOf(s, s.step, s.saw, s.state, s.at)
    BY DEF IsPass, PassOf
<1>2. [s EXCEPT !.step = step] = u /\ [s EXCEPT !.saw = saw] = PassOf(s, s.step, saw, s.state, s.at)
    BY <1>1 DEF PassOf
<1>3. [u EXCEPT !.state = state] = PassOf(s, step, s.saw, state, s.at)
    BY DEF PassOf
<1>4. u = PassOf(s, step, s.saw, s.state, s.at)
    OBVIOUS
<1> HIDE DEF u
<1> QED BY <1>2, <1>3, <1>4, Zenon

LEMMA OpenedPass ==
    ASSUME NEW s, IsPass(s), NEW step, NEW at
    PROVE  [s EXCEPT !.step = step, !.at = at] = PassOf(s, step, s.saw, s.state, at)
<1> DEFINE u == PassOf(s, step, s.saw, s.state, s.at)
<1>1. [s EXCEPT !.step = step] = u
    BY PassExcept
<1>2. [u EXCEPT !.at = at] = PassOf(s, step, s.saw, s.state, at)
    BY DEF PassOf
<1> HIDE DEF u
<1> QED BY <1>1, <1>2, Zenon

LEMMA SeenPass ==
    ASSUME NEW s, IsPass(s), NEW saw, NEW at
    PROVE  [s EXCEPT !.saw = saw, !.at = at] = PassOf(s, s.step, saw, s.state, at)
<1> DEFINE u == PassOf(s, s.step, saw, s.state, s.at)
<1>1. [s EXCEPT !.saw = saw] = u
    BY PassExcept
<1>2. [u EXCEPT !.at = at] = PassOf(s, s.step, saw, s.state, at)
    BY DEF PassOf
<1> HIDE DEF u
<1> QED BY <1>1, <1>2, Zenon

LEMMA LaunchKeeps ==
    ASSUME WallInv, NEW p \in Passes, Launch(p)
    PROVE  PassesInv'
<1> DEFINE saw == [i \in {k \in Asks : IsFact(k)} |-> evidence[i]]
           q == [step |-> "probe", known |-> TRUE, began |-> moment, saw |-> saw,
                 state |-> "none", at |-> moment]
<1>1. Moves(p, q) /\ UNCHANGED <<board, evidence, spoiled, moment>>
    <2> DEFINE to == [Idle EXCEPT !.step = "probe", !.known = TRUE, !.began = moment,
                                  !.saw = [i \in {k \in Asks : IsFact(k)} |-> evidence[i]],
                                  !.at = moment]
    <2>1. Moves(p, to) /\ UNCHANGED <<board, evidence, spoiled, moment>>
        BY Zenon DEF Launch
    <2>2. to = q
        <3> DEFINE yes == TRUE
                   a == [Idle EXCEPT !.step = "probe"]
                   b == [a EXCEPT !.known = yes]
                   c == [b EXCEPT !.began = moment]
        <3> HIDE DEF yes, a, b, c, saw
        <3>1. a = [step |-> "probe", known |-> Idle.known, began |-> Idle.began, saw |-> Idle.saw,
                   state |-> Idle.state, at |-> Idle.at]
            <4>1. IsPass(Idle)
                BY DEF IsPass, Idle
            <4> QED BY <4>1 DEF IsPass, a
        <3>2. b = [step |-> "probe", known |-> yes, began |-> Idle.began, saw |-> Idle.saw,
                   state |-> Idle.state, at |-> Idle.at]
            BY <3>1 DEF b
        <3>3. c = [step |-> "probe", known |-> yes, began |-> moment, saw |-> Idle.saw,
                   state |-> Idle.state, at |-> Idle.at]
            BY <3>2 DEF c
        <3>4. IsPass(c) /\ PassOf(c, c.step, saw, c.state, moment) = q
            <4>1. Idle.state = "none"
                BY DEF Idle
            <4> QED BY <3>3, <4>1 DEF IsPass, PassOf, yes
        <3> HIDE DEF q
        <3>5. [c EXCEPT !.saw = saw, !.at = moment] = q
            BY <3>4, SeenPass
        <3>6. [Idle EXCEPT !.step = "probe", !.known = TRUE, !.began = moment, !.saw = saw,
                           !.at = moment] = q
            BY <3>5, Zenon DEF yes, a, b, c
        <3> QED BY <3>6, Zenon DEF saw
    <2> HIDE DEF to, q
    <2> QED BY <2>1, <2>2
<1>2. moment \in Nat /\ MaxPass \in Nat /\ StampSlack \in Nat
    BY SlackTypes DEF WallInv, EvidenceTyped
<1>3. IsPass(q) /\ IsTimed(q)
    BY <1>2 DEF IsPass, IsTimed
<1>4. \A i \in DOMAIN saw : i \in Asks /\ saw[i] = evidence[i]
    OBVIOUS
<1>5. HasSeen(q)
    <2>1. DOMAIN saw \subseteq Asks
        OBVIOUS
    <2>2. ASSUME NEW i \in DOMAIN saw
          PROVE  saw[i] \in States(i) /\ (Finding(saw, i) = Pass => LastSound(i) >= moment)
        <3> HIDE DEF saw
        <3>1. saw[i] \in States(i)
            BY <1>4 DEF WallInv, EvidenceTyped
        <3>2. Finding(saw, i) = Pass => LastSound(i) = moment
            BY <1>4, SeenNow DEF WallInv
        <3> QED BY <1>2, <3>1, <3>2
    <2> HIDE DEF saw
    <2> QED BY <2>1, <2>2 DEF HasSeen
<1>6. HasEarned(q)
    BY TilesAssumption DEF HasEarned, WallInv, EvidenceTyped, TellsBest
<1> HIDE DEF q
<1> QED BY <1>1, <1>3, <1>5, <1>6, PassMoves DEF WallInv

LEMMA UseKeptKeeps ==
    ASSUME WallInv, NEW p \in Passes, UseKept(p)
    PROVE  PassesInv'
<1> DEFINE s == passing[p]
           q == [step |-> "open", known |-> s.known, began |-> s.began, saw |-> s.saw,
                 state |-> held.state, at |-> s.at]
<1>1. /\ s.step = "probe" /\ KeptIsUsable
      /\ Moves(p, [s EXCEPT !.step = "open", !.state = held.state])
      /\ UNCHANGED <<board, evidence, spoiled, moment>>
    BY DEF UseKept, At
<1>2. IsPass(s) /\ IsTimed(s) /\ HasSeen(s)
    BY <1>1 DEF WallInv, PassesInv
<1>3. [s EXCEPT !.step = "open", !.state = held.state] = q
    <2> HIDE DEF s
    <2>1. [s EXCEPT !.step = "open", !.state = held.state] = PassOf(s, "open", s.saw, held.state, s.at)
        BY <1>2, PassExcept
    <2> QED BY <2>1, Zenon DEF PassOf, q
<1> HIDE DEF s
<1>4. IsPass(q) /\ IsTimed(q) /\ HasSeen(q)
    BY <1>2 DEF IsPass, IsTimed, HasSeen
<1>5. HasEarned(q)
    <2> SUFFICES ASSUME held.state = board.tile.best, NEW i \in Asks
                 PROVE  LastSound(i) + KeptSlack >= s.began
        BY DEF HasEarned
    <2>1. LastSound(i) + MaxPass >= held.at /\ held.at \in Nat
        BY DEF WallInv, Earned
    <2>2. moment - held.at < Ttl /\ KeptSlack = Ttl + MaxPass
        BY <1>1 DEF KeptIsUsable, KeptSlack
    <2>3. s.began \in Nat /\ s.began <= moment /\ moment \in Nat
        BY <1>2 DEF IsTimed, WallInv, EvidenceTyped
    <2>4. Ttl \in Nat /\ MaxPass \in Nat /\ LastSound(i) \in Nat
        BY SlackTypes, LastSoundType DEF WallInv
    <2> QED BY <2>1, <2>2, <2>3, <2>4
<1> HIDE DEF q
<1> QED BY <1>1, <1>3, <1>4, <1>5, PassMoves DEF WallInv

LEMMA AskNextKeeps ==
    ASSUME WallInv, NEW p \in Passes, AskNext(p)
    PROVE  PassesInv'
<1> DEFINE s == passing[p]
           left == Asks \ DOMAIN s.saw
           i == CHOOSE k \in left : \A j \in left : k <= j
           saw == [k \in {i} \union DOMAIN s.saw |-> IF k = i THEN evidence[i] ELSE s.saw[k]]
           q == [step |-> s.step, known |-> s.known, began |-> s.began, saw |-> saw,
                 state |-> s.state, at |-> s.at]
<1>1. /\ s.step = "probe" /\ left # {}
      /\ Moves(p, [s EXCEPT !.saw = saw])
      /\ UNCHANGED <<board, evidence, spoiled, moment>>
    BY DEF AskNext, At
<1>2. IsPass(s) /\ IsTimed(s) /\ HasSeen(s) /\ HasEarned(s)
    BY <1>1 DEF WallInv, PassesInv
<1>3. [s EXCEPT !.saw = saw] = q
    <2> HIDE DEF saw, s
    <2> QED BY <1>2, PassExcept, Zenon DEF PassOf, q
<1>4. i \in Asks
    <2>1. PICK n \in Nat : Asks = 1..n
        BY AsksAreNumbered DEF WallInv
    <2>2. left \in SUBSET (1..n)
        BY <2>1
    <2> HIDE DEF left
    <2> QED BY <1>1, <2>1, <2>2, FirstIn
<1>5. /\ DOMAIN saw = {i} \union DOMAIN s.saw
      /\ \A k \in DOMAIN saw : saw[k] = IF k = i THEN evidence[i] ELSE s.saw[k]
    <2> HIDE DEF i, s
    <2> QED OBVIOUS
<1> HIDE DEF s, i, saw
<1>6. IsPass(q) /\ IsTimed(q) /\ HasEarned(q)
    BY <1>2 DEF IsPass, IsTimed, HasEarned
<1>7. HasSeen(q)
    <2>1. DOMAIN saw \subseteq Asks
        BY <1>2, <1>4, <1>5 DEF HasSeen
    <2>2. s.began \in Nat /\ s.began <= moment /\ moment \in Nat
        BY <1>2 DEF IsTimed, WallInv, EvidenceTyped
    <2>3. ASSUME NEW k \in DOMAIN saw
          PROVE  saw[k] \in States(k) /\ (Finding(saw, k) = Pass => LastSound(k) >= s.began)
        <3>1. CASE k = i
            <4>1. saw[k] = evidence[k]
                BY <1>5, <3>1
            <4>2. saw[k] \in States(k)
                BY <1>4, <3>1, <4>1 DEF WallInv, EvidenceTyped
            <4>3. Finding(saw, k) = Pass => LastSound(k) = moment
                BY <1>4, <3>1, <4>1, SeenNow DEF WallInv
            <4> QED BY <2>2, <4>2, <4>3
        <3>2. CASE k # i
            <4>1. k \in DOMAIN s.saw /\ saw[k] = s.saw[k]
                BY <1>5, <3>2
            <4>2. Finding(saw, k) = Finding(s.saw, k)
                BY <4>1 DEF Finding
            <4> QED BY <1>2, <4>1, <4>2 DEF HasSeen
        <3> QED BY <3>1, <3>2
    <2> QED BY <2>1, <2>3 DEF HasSeen
<1> HIDE DEF q
<1> QED BY <1>1, <1>3, <1>6, <1>7, PassMoves DEF WallInv

LEMMA JudgeKeeps ==
    ASSUME WallInv, NEW p \in Passes, Judge(p)
    PROVE  PassesInv'
<1> DEFINE s == passing[p]
           to == IF IsKept /\ ~Raised(s.saw) THEN "keep" ELSE "open"
<1>1. PICK clock \in Stamps(p) :
          Moves(p, [s EXCEPT !.step = to, !.state = Verdict(s.saw), !.saw = <<>>, !.at = clock])
    BY DEF Judge
<1> DEFINE q == [step |-> to, known |-> s.known, began |-> s.began, saw |-> <<>>,
                 state |-> Verdict(s.saw), at |-> clock]
<1>2. /\ s.step = "probe" /\ UNCHANGED <<board, evidence, spoiled, moment>>
      /\ DOMAIN s.saw = Asks \/ \E k \in DOMAIN s.saw : Settles(s.saw, k)
    BY DEF Judge, At
<1>3. IsPass(s) /\ IsTimed(s) /\ HasSeen(s)
    BY <1>2 DEF WallInv, PassesInv
<1>4. [s EXCEPT !.step = to, !.state = Verdict(s.saw), !.saw = <<>>, !.at = clock] = q
    <2> HIDE DEF to, s
    <2>1. [s EXCEPT !.step = to, !.state = Verdict(s.saw), !.saw = <<>>, !.at = clock]
            = PassOf(s, to, <<>>, Verdict(s.saw), clock)
        <3> DEFINE verdict == Verdict(s.saw)
                   none == <<>>
                   u == [s EXCEPT !.step = to, !.state = verdict]
        <3> HIDE DEF verdict, none, u, q
        <3>1. u = PassOf(s, to, s.saw, verdict, s.at)
            BY <1>3, PassExcept DEF u
        <3>2. IsPass(u)
            BY <3>1 DEF IsPass, PassOf
        <3>3. [u EXCEPT !.saw = none, !.at = clock] = PassOf(u, u.step, none, u.state, clock)
            BY <3>2, SeenPass
        <3>4. PassOf(u, u.step, none, u.state, clock) = PassOf(s, to, none, verdict, clock)
            BY <3>1 DEF PassOf
        <3> QED BY <3>3, <3>4, Zenon DEF u, none, verdict
    <2> QED BY <2>1, Zenon DEF PassOf, q
<1>5. clock \in Nat /\ clock <= s.began + StampSlack
    <2>1. clock = s.at \/ (clock = moment /\ board.page \in {"plan", "console", "blotter"})
        BY DEF Stamps
    <2>2. moment \in Nat /\ MaxPass \in Nat
        BY SlackTypes DEF WallInv, EvidenceTyped
    <2>3. CASE clock = s.at
        BY <1>3, <2>3 DEF IsTimed
    <2>4. CASE clock = moment /\ board.page \in {"plan", "console", "blotter"}
        <3>1. StampSlack = MaxPass
            BY <2>4 DEF StampSlack
        <3> QED BY <1>3, <2>2, <2>4, <3>1 DEF IsTimed
    <2> QED BY <2>1, <2>3, <2>4
<1> HIDE DEF s, to
<1>6. IsPass(q) /\ IsTimed(q) /\ HasSeen(q)
    BY <1>3, <1>5 DEF IsPass, IsTimed, HasSeen
<1>7. HasEarned(q)
    <2> SUFFICES ASSUME Verdict(s.saw) = board.tile.best, NEW i \in Asks
                 PROVE  LastSound(i) + (IF to = "keep" THEN 0 ELSE KeptSlack) >= s.began
        BY DEF HasEarned
    <2>1. \A k \in DOMAIN s.saw : Finding(s.saw, k) = Pass
        BY <1>3, BestMeansPass DEF WallInv, HasSeen
    <2>2. DOMAIN s.saw = Asks
        BY <1>2, <2>1 DEF Settles
    <2>3. LastSound(i) >= s.began
        BY <1>3, <2>1, <2>2 DEF HasSeen
    <2>4. LastSound(i) \in Nat /\ KeptSlack \in Nat /\ s.began \in Nat
        BY <1>3, SlackTypes, LastSoundType DEF WallInv, IsTimed
    <2> QED BY <2>3, <2>4
<1> HIDE DEF q
<1> QED BY <1>1, <1>2, <1>4, <1>6, <1>7, PassMoves DEF WallInv

LEMMA HeldStays ==
    ASSUME WallInv, WorldMoves, held' = held
    PROVE  Earned(held, MaxPass)'
<1>1. PICK h : h = held
    OBVIOUS
<1>2. Earned(h, MaxPass)'
    BY <1>1, SlackTypes, AnswerStays DEF WallInv
<1> QED BY <1>1, <1>2

LEMMA PageStays ==
    ASSUME WallInv, WorldMoves, page' = page
    PROVE  Earned(page, Slack)'
<1>1. PICK g : g = page
    OBVIOUS
<1>2. PICK n \in Nat : n = Slack
    BY SlackTypes
<1>3. Earned(g, n)'
    BY <1>1, <1>2, AnswerStays DEF WallInv
<1>4. Slack' = Slack
    BY BoardStays DEF WorldMoves
<1> QED BY <1>1, <1>2, <1>3, <1>4

LEMMA KeepKeeps ==
    ASSUME WallInv, NEW p \in Passes, Keep(p)
    PROVE  PassesInv' /\ Earned(held, MaxPass)'
<1> DEFINE s == passing[p]
           q == [step |-> "open", known |-> s.known, began |-> s.began, saw |-> s.saw,
                 state |-> s.state, at |-> s.at]
<1>1. /\ s.step = "keep" /\ Moves(p, [s EXCEPT !.step = "open"])
      /\ UNCHANGED <<board, evidence, spoiled, moment, page>>
      /\ held' = held \/ held' = [state |-> s.state, at |-> moment]
    BY DEF Keep, At
<1>2. IsPass(s) /\ IsTimed(s) /\ HasSeen(s) /\ HasEarned(s)
    BY <1>1 DEF WallInv, PassesInv
<1>3. [s EXCEPT !.step = "open"] = q
    <2> HIDE DEF s
    <2> QED BY <1>2, PassExcept, Zenon DEF PassOf, q
<1> HIDE DEF s
<1>4. IsPass(q) /\ IsTimed(q) /\ HasSeen(q)
    BY <1>2 DEF IsPass, IsTimed, HasSeen
<1>5. \A i \in Asks : LastSound(i) \in Nat /\ (s.state = board.tile.best => LastSound(i) >= s.began)
    <2>1. \A i \in Asks : LastSound(i) \in Nat
        BY LastSoundType DEF WallInv
    <2> QED BY <1>1, <1>2, <2>1 DEF HasEarned
<1>6. s.began \in Nat /\ moment \in Nat /\ moment <= s.began + MaxPass /\ MaxPass \in Nat /\ KeptSlack \in Nat
    BY <1>2, SlackTypes DEF IsTimed, WallInv, EvidenceTyped
<1>7. HasEarned(q)
    BY <1>5, <1>6 DEF HasEarned
<1>8. PassesInv'
    <2> HIDE DEF q
    <2> QED BY <1>1, <1>3, <1>4, <1>7, PassMoves DEF WallInv
<1>9. Earned(held, MaxPass)'
    <2> DEFINE made == [state |-> s.state, at |-> moment]
    <2>1. WorldMoves
        BY <1>1 DEF WorldMoves
    <2>2. Earned(made, MaxPass)
        BY <1>5, <1>6 DEF Earned
    <2>3. PICK h : h \in {held, made} /\ h = held'
        BY <1>1
    <2>4. Earned(h, MaxPass)
        BY <2>2, <2>3 DEF WallInv
    <2>5. Earned(h, MaxPass)'
        BY <1>6, <2>1, <2>4, AnswerStays DEF WallInv
    <2> QED BY <2>3, <2>5
<1> QED BY <1>8, <1>9

LEMMA OpenPageKeeps ==
    ASSUME WallInv, NEW p \in Passes, OpenPage(p)
    PROVE  PassesInv' /\ Earned(page, Slack)'
<1> DEFINE s == passing[p]
           clock == IF board.page = "build-progress" THEN moment ELSE s.at
           q == [step |-> "fill", known |-> s.known, began |-> s.began, saw |-> s.saw,
                 state |-> s.state, at |-> clock]
<1>1. /\ s.step = "open"
      /\ Moves(p, [s EXCEPT !.step = "fill", !.at = clock])
      /\ UNCHANGED <<board, evidence, spoiled, moment, held>>
      /\ page' = page \/ page' = NoAnswer
    BY DEF OpenPage, At
<1>2. IsPass(s) /\ IsTimed(s) /\ HasSeen(s) /\ HasEarned(s)
    BY <1>1 DEF WallInv, PassesInv
<1>3. [s EXCEPT !.step = "fill", !.at = clock] = q
    <2> HIDE DEF clock, s
    <2>1. [s EXCEPT !.step = "fill", !.at = clock] = PassOf(s, "fill", s.saw, s.state, clock)
        BY <1>2, OpenedPass
    <2> QED BY <2>1, Zenon DEF PassOf, q
<1>4. IsTimed(q)
    <2>1. moment \in Nat /\ MaxPass \in Nat
        BY SlackTypes DEF WallInv, EvidenceTyped
    <2> HIDE DEF s
    <2> QED BY <1>2, <2>1 DEF IsTimed, StampSlack
<1>5. IsPass(q) /\ HasSeen(q) /\ HasEarned(q)
    <2> HIDE DEF clock
    <2> QED BY <1>1, <1>2 DEF IsPass, HasSeen, HasEarned
<1>6. PassesInv'
    <2> HIDE DEF q, clock
    <2> QED BY <1>1, <1>3, <1>4, <1>5, PassMoves DEF WallInv
<1>7. Earned(page, Slack)'
    <2>1. WorldMoves /\ Slack' = Slack
        BY <1>1, BoardStays DEF WorldMoves
    <2>2. PICK g : g \in {page, NoAnswer} /\ g = page'
        BY <1>1
    <2>3. PICK n \in Nat : n = Slack
        BY SlackTypes
    <2>4. board.tile.best # "none"
        BY TilesAssumption DEF WallInv, EvidenceTyped, TellsBest
    <2>5. Earned(g, n)
        BY <2>2, <2>3, <2>4 DEF WallInv, Earned, NoAnswer
    <2>6. Earned(g, n)'
        BY <2>1, <2>5, AnswerStays DEF WallInv
    <2> QED BY <2>1, <2>2, <2>3, <2>6
<1> QED BY <1>6, <1>7

LEMMA IdleIsFine == IsPass(Idle) /\ Idle.step = "idle"
BY DEF IsPass, Idle

LEMMA FillPageKeeps ==
    ASSUME WallInv, NEW p \in Passes, FillPage(p)
    PROVE  PassesInv' /\ Earned(page, Slack)'
<1> DEFINE s == passing[p]
           made == [state |-> s.state, at |-> s.at]
<1>1. /\ s.step = "fill" /\ page' = made /\ Moves(p, Idle)
      /\ UNCHANGED <<board, evidence, spoiled, moment, held>>
    BY DEF FillPage, At
<1>2. IsTimed(s) /\ HasEarned(s)
    BY <1>1 DEF WallInv, PassesInv
<1>3. PassesInv'
    BY <1>1, IdleIsFine, PassMoves DEF WallInv
<1>4. WorldMoves /\ Slack' = Slack
    BY <1>1, BoardStays DEF WorldMoves
<1>5. PICK n \in Nat : n = Slack
    BY SlackTypes
<1>6. Earned(made, n)
    <2>1. \A i \in Asks : LastSound(i) \in Nat
        BY LastSoundType DEF WallInv
    <2>2. StampSlack \in Nat /\ KeptSlack \in Nat /\ n = StampSlack + KeptSlack
        BY <1>5, SlackTypes
    <2> HIDE DEF s
    <2>3. s.at \in Nat /\ s.began \in Nat /\ s.at <= s.began + StampSlack
        BY <1>2 DEF IsTimed
    <2> SUFFICES ASSUME s.state = board.tile.best, NEW i \in Asks
                 PROVE  LastSound(i) + n >= s.at
        BY <2>3 DEF Earned
    <2>4. LastSound(i) + KeptSlack >= s.began
        BY <1>1, <1>2 DEF HasEarned
    <2> QED BY <2>1, <2>2, <2>3, <2>4
<1> HIDE DEF made
<1>7. PICK g : g = made
    OBVIOUS
<1>8. Earned(g, n)'
    BY <1>4, <1>6, <1>7, AnswerStays DEF WallInv
<1> QED BY <1>1, <1>3, <1>4, <1>5, <1>7, <1>8

LEMMA KillKeeps ==
    ASSUME WallInv, NEW p \in Passes, KillPassing(p)
    PROVE  PassesInv' /\ Earned(held, MaxPass)'
<1>1. /\ Moves(p, Idle) /\ UNCHANGED <<board, evidence, spoiled, moment, page>>
      /\ held' = held \/ held' = NoAnswer
    BY DEF KillPassing
<1>2. PassesInv'
    BY <1>1, IdleIsFine, PassMoves DEF WallInv
<1>3. WorldMoves /\ MaxPass \in Nat
    BY <1>1, SlackTypes DEF WorldMoves
<1>4. PICK h : h \in {held, NoAnswer} /\ h = held'
    BY <1>1
<1>5. board.tile.best # "none"
    BY TilesAssumption DEF WallInv, EvidenceTyped, TellsBest
<1>6. Earned(h, MaxPass)
    BY <1>4, <1>5 DEF WallInv, Earned, NoAnswer
<1>7. Earned(h, MaxPass)'
    BY <1>3, <1>6, AnswerStays DEF WallInv
<1> QED BY <1>2, <1>4, <1>7

LEMMA LoopRestartsKeeps ==
    ASSUME WallInv, LoopRestarts
    PROVE  PassesInv'
<1>1. /\ passing' = [p \in Passes |-> [passing[p] EXCEPT !.known = FALSE]]
      /\ WorldMoves /\ UNCHANGED <<board, evidence, spoiled, moment>>
    BY DEF LoopRestarts, WorldMoves
<1>2. Passes' = Passes /\ DOMAIN passing' = Passes
    BY <1>1 DEF Passes
<1>3. ASSUME NEW p \in Passes, NEW q, q = passing'[p]
      PROVE  IsPass(q) /\ (q.step # "idle" => IsTimed(q)' /\ HasSeen(q)' /\ HasEarned(q)')
    <2> DEFINE s == passing[p]
    <2>1. q = [s EXCEPT !.known = FALSE]
        BY <1>1, <1>3
    <2>2. IsPass(s) /\ (s.step # "idle" => IsTimed(s) /\ HasSeen(s) /\ HasEarned(s))
        BY DEF WallInv, PassesInv
    <2> HIDE DEF s
    <2>3. q = [step |-> s.step, known |-> FALSE, began |-> s.began, saw |-> s.saw,
               state |-> s.state, at |-> s.at]
        BY <2>1, <2>2, Zenon DEF IsPass
    <2>4. IsPass(q) /\ (q.step # "idle" => IsTimed(q) /\ HasSeen(q) /\ HasEarned(q))
        BY <2>2, <2>3 DEF IsPass, IsTimed, HasSeen, HasEarned
    <2>5. q.step # "idle" => moment' <= q.began + MaxPass
        BY <1>1, <2>4 DEF IsTimed
    <2> QED BY <1>1, <2>4, <2>5, PassStays DEF WallInv
<1>4. ASSUME NEW p \in Passes
      PROVE  /\ IsPass(passing[p])'
             /\ (passing[p].step # "idle" =>
                    IsTimed(passing[p]) /\ HasSeen(passing[p]) /\ HasEarned(passing[p]))'
    <2>1. PICK q : q = passing'[p]
        OBVIOUS
    <2>2. IsPass(q) /\ (q.step # "idle" => IsTimed(q)' /\ HasSeen(q)' /\ HasEarned(q)')
        BY <1>3, <2>1
    <2> QED BY <2>1, <2>2
<1> QED BY <1>2, <1>4 DEF PassesInv

LEMMA WorldKeeps ==
    ASSUME WallInv, MomentPasses \/ (\E i \in Asks : Spoil(i)) \/ UNCHANGED wallVars
    PROVE  WallInv'
<1>1. WorldMoves /\ UNCHANGED <<board, passing, held, page>>
    BY DEF WorldMoves, MomentPasses, Spoil, wallVars
<1>2. EvidenceTyped' /\ Passes' = Passes
    BY <1>1, SoundnessStays, BoardStays DEF WallInv, WorldMoves
<1>3. \A p \in Passes : passing[p].step # "idle" => moment' <= passing[p].began + MaxPass
    <2> SUFFICES ASSUME NEW p \in Passes, passing[p].step # "idle"
                 PROVE  moment' <= passing[p].began + MaxPass
        OBVIOUS
    <2>1. IsTimed(passing[p]) /\ moment \in Nat /\ MaxPass \in Nat
        BY SlackTypes DEF WallInv, PassesInv, EvidenceTyped
    <2>2. passing[p].began \in Nat /\ moment <= passing[p].began + MaxPass
        BY <2>1 DEF IsTimed
    <2>3. \/ moment' = moment + 1 /\ moment - passing[p].began < MaxPass
          \/ moment' = moment
        BY DEF MomentPasses, Spoil, wallVars
    <2> QED BY <2>1, <2>2, <2>3
<1>4. ASSUME NEW p \in Passes
      PROVE  /\ IsPass(passing[p])'
             /\ (passing[p].step # "idle" =>
                    IsTimed(passing[p]) /\ HasSeen(passing[p]) /\ HasEarned(passing[p]))'
    <2>1. PICK s : s = passing[p]
        OBVIOUS
    <2>2. IsPass(s) /\ (s.step # "idle" => IsTimed(s) /\ HasSeen(s) /\ HasEarned(s))
        BY <2>1 DEF WallInv, PassesInv
    <2>3. s.step # "idle" => IsTimed(s)' /\ HasSeen(s)' /\ HasEarned(s)'
        BY <1>1, <1>3, <2>1, <2>2, PassStays DEF WallInv
    <2>4. passing'[p] = s
        BY <1>1, <2>1
    <2> QED BY <2>2, <2>3, <2>4
<1>5. PassesInv'
    BY <1>1, <1>2, <1>4 DEF PassesInv, WallInv
<1> QED BY <1>1, <1>2, <1>5, HeldStays, PageStays DEF WallInv

LEMMA WallSteps ==
    ASSUME WallInv, [WallNext]_wallVars
    PROVE  WallInv'
<1>1. ASSUME LoopRestarts \/ \E p \in Passes : Passing(p)
      PROVE  WallInv'
    <2>1. WorldMoves /\ EvidenceTyped'
        <3>1. UNCHANGED <<board, evidence, spoiled, moment>>
            BY <1>1 DEF LoopRestarts, Passing, Launch, UseKept, AskNext, Judge, Keep,
                        OpenPage, FillPage, KillPassing
        <3> QED BY <3>1, SoundnessStays, SMTT(60) DEF WorldMoves, WallInv
    <2>2. CASE LoopRestarts
        <3>1. UNCHANGED <<held, page>>
            BY <2>2 DEF LoopRestarts
        <3> QED BY <2>1, <2>2, <3>1, LoopRestartsKeeps, HeldStays, PageStays DEF WallInv
    <2>3. ASSUME NEW p \in Passes, Launch(p) \/ UseKept(p) \/ AskNext(p) \/ Judge(p)
          PROVE  WallInv'
        <3>1. UNCHANGED <<held, page>>
            BY <2>3 DEF Launch, UseKept, AskNext, Judge
        <3>2. PassesInv'
            BY <2>3, LaunchKeeps, UseKeptKeeps, AskNextKeeps, JudgeKeeps
        <3> QED BY <2>1, <3>1, <3>2, HeldStays, PageStays, SMTT(60) DEF WallInv
    <2>4. ASSUME NEW p \in Passes, Keep(p) \/ KillPassing(p)
          PROVE  WallInv'
        <3>1. PassesInv' /\ Earned(held, MaxPass)'
            BY <2>4, KeepKeeps, KillKeeps
        <3>2. page' = page
            BY <2>4 DEF Keep, KillPassing
        <3> QED BY <2>1, <3>1, <3>2, PageStays DEF WallInv
    <2>5. ASSUME NEW p \in Passes, OpenPage(p) \/ FillPage(p)
          PROVE  WallInv'
        <3>1. PassesInv' /\ Earned(page, Slack)'
            BY <2>5, OpenPageKeeps, FillPageKeeps
        <3>2. held' = held
            BY <2>5 DEF OpenPage, FillPage
        <3> QED BY <2>1, <3>1, <3>2, HeldStays DEF WallInv
    <2> QED BY <1>1, <2>2, <2>3, <2>4, <2>5 DEF Passing
<1> QED BY <1>1, WorldKeeps DEF WallNext

(* No tile of any page is green for evidence that was not there, whatever  *)
(* the tiles, how long an answer is kept, how long a pass takes and how    *)
(* many run: a page that shows the best of a tile and does not call itself *)
(* stale rests on pieces each of which was in order within the banner's    *)
(* tolerance and the page's slack (statuswall/cli.py's                     *)
(* measured_periodically and write_wall, the loop of                       *)
(* boards_supervisor.sh, with passes killed, overlapping and launched by   *)
(* a loop that does not know of the others).                               *)
THEOREM GreenTellsTheTruth == WallSpec => []GreenIsEarned
<1>1. WallInit => WallInv
    BY WallStarts
<1>2. WallInv /\ [WallNext]_wallVars => WallInv'
    BY WallSteps
<1>3. WallInv => GreenIsEarned
    BY GreenIsEarnedHolds
<1> QED BY <1>1, <1>2, <1>3, PTL DEF WallSpec

=============================================================================
