------------------------------ MODULE RateBudget ------------------------------
(***************************************************************************)
(* RateBudget: a token bucket for one venue in a file that the processes   *)
(* of the host share.  A call takes the lock, reads the state, changes it, *)
(* empties the file and writes it, and lets go of the lock; the file is    *)
(* written in place, so a kill inside the call may leave it empty.         *)
(*                                                                         *)
(* The clock is monotonic, and begins anew when the host boots.            *)
(***************************************************************************)
EXTENDS Naturals, FiniteSetsExt

CONSTANTS
    Spenders,       \* processes that poll the venue
    Capacity, Refill,
    Weights,        \* the weights of requests
    BanLengths,     \* retry_after_seconds
    LastPulse,      \* bound: of time
    MaxSpenderKills,\* bound: processes killed inside a call
    MaxBoots        \* bound: boots of the host

ASSUME BudgetAssumption ==
    /\ Capacity \in Nat /\ Refill \in Nat /\ Weights \subseteq Nat \ {0}
    /\ BanLengths \subseteq Nat
    /\ LastPulse \in Nat /\ MaxSpenderKills \in Nat /\ MaxBoots \in Nat

VARIABLES
    pulse,          \* the time
    bootedAt,       \* when the host booted
    bucket,         \* the state file
    blank,          \* the file is empty: every field has its default
    spender,        \* process -> its step, the state it will write, the weight it is granted
    spent,          \* history: the weight of all requests granted
    wipes,          \* history: states that a kill emptied
    spenderKills, boots

budgetVars == <<pulse, bootedAt, bucket, blank, spender, spent, wipes, spenderKills, boots>>

Bucket == [tokens : Nat, updatedAt : Nat, blockedUntil : Nat]
FullBucket == [tokens |-> Capacity, updatedAt |-> 0, blockedUntil |-> 0]
Outside == [step |-> "outside", next |-> FullBucket, granted |-> 0]

BudgetTypeOK ==
    /\ pulse \in 0 .. LastPulse /\ bootedAt \in 0 .. pulse
    /\ bucket \in Bucket /\ blank \in BOOLEAN
    /\ spender \in [Spenders -> [step : {"outside", "decided", "emptied"}, next : Bucket,
                                 granted : Weights \union {0}]]
    /\ spent \in Nat /\ wipes \in 0 .. spenderKills
    /\ spenderKills \in 0 .. MaxSpenderKills /\ boots \in 0 .. MaxBoots

BudgetInit ==
    /\ pulse = 0 /\ bootedAt = 0
    /\ bucket = FullBucket /\ blank = TRUE
    /\ spender = [p \in Spenders |-> Outside]
    /\ spent = 0 /\ wipes = 0
    /\ spenderKills = 0 /\ boots = 0

-----------------------------------------------------------------------------
Uptime == pulse - bootedAt

(* The state as it is read, with defaults for what the file lacks.         *)
Read == IF blank THEN [FullBucket EXCEPT !.updatedAt = Uptime] ELSE bucket

(* Mutant of Refilled: a clock that went back takes tokens out.            *)
RefilledBackwards(b) ==
    [b EXCEPT !.tokens = Min({Capacity, @ + Refill * (Uptime - b.updatedAt)}),
              !.updatedAt = Uptime]

(* _refill_into: a clock that is behind the state refills nothing.         *)
Refilled(b) ==
    [b EXCEPT !.tokens = Min({Capacity, @ + Refill * (Max({Uptime, b.updatedAt}) - b.updatedAt)}),
              !.updatedAt = Uptime]

(* Mutant of LockFree: nobody takes the lock.                              *)
NeverLocked(p) == spender[p].step = "outside"

(* flock.                                                                  *)
LockFree(p) == \A q \in Spenders : spender[q].step = "outside"

(* Inside the lock: what will be written, and what is granted.             *)
Decide(p, next, granted) ==
    /\ LockFree(p)
    /\ spender' = [spender EXCEPT ![p] = [step |-> "decided", next |-> next, granted |-> granted]]
    /\ UNCHANGED <<pulse, bootedAt, bucket, blank, spent, wipes, spenderKills, boots>>

(* try_spend, while a ban is in force; with too little in the bucket; and  *)
(* with enough.                                                            *)
Banned(p) == Uptime < Read.blockedUntil /\ Decide(p, Read, 0)

Refused(p, w) ==
    /\ Uptime >= Read.blockedUntil /\ Refilled(Read).tokens < w
    /\ Decide(p, Refilled(Read), 0)

Granted(p, w) ==
    /\ Uptime >= Read.blockedUntil /\ Refilled(Read).tokens >= w
    /\ Decide(p, [Refilled(Read) EXCEPT !.tokens = @ - w], w)

(* remaining, and blocked_for.                                             *)
Look(p) == Uptime >= Read.blockedUntil /\ Decide(p, Refilled(Read), 0)
AskForBan(p) == Decide(p, Read, 0)

(* note_rate_limited: the last answer of the venue is the ban in force.    *)
NoteRateLimited(p, length) ==
    Decide(p, [tokens |-> 0, updatedAt |-> Uptime, blockedUntil |-> Uptime + length], 0)

(* The file is emptied, and written; then the caller sends its request.    *)
Truncate(p) ==
    /\ spender[p].step = "decided"
    /\ blank' = TRUE
    /\ spender' = [spender EXCEPT ![p].step = "emptied"]
    /\ UNCHANGED <<pulse, bootedAt, bucket, spent, wipes, spenderKills, boots>>

WriteBucket(p) ==
    /\ spender[p].step = "emptied"
    /\ bucket' = spender[p].next /\ blank' = FALSE
    /\ spent' = spent + spender[p].granted
    /\ spender' = [spender EXCEPT ![p] = Outside]
    /\ UNCHANGED <<pulse, bootedAt, wipes, spenderKills, boots>>

(* A kill inside the call releases the lock.                               *)
KillSpender(p) ==
    /\ spender[p].step # "outside" /\ spenderKills < MaxSpenderKills
    /\ spenderKills' = spenderKills + 1
    /\ wipes' = IF spender[p].step = "emptied" THEN wipes + 1 ELSE wipes
    /\ spender' = [spender EXCEPT ![p] = Outside]
    /\ UNCHANGED <<pulse, bootedAt, bucket, blank, spent, boots>>

PulseMoves ==
    /\ pulse < LastPulse
    /\ pulse' = pulse + 1
    /\ UNCHANGED <<bootedAt, bucket, blank, spender, spent, wipes, spenderKills, boots>>

(* The host boots: no process is left, and the clock is at its beginning.  *)
Boot ==
    /\ boots < MaxBoots /\ \A p \in Spenders : spender[p].step = "outside"
    /\ boots' = boots + 1
    /\ bootedAt' = pulse
    /\ UNCHANGED <<pulse, bucket, blank, spender, spent, wipes, spenderKills>>

BudgetNext ==
    \/ PulseMoves \/ Boot
    \/ \E p \in Spenders :
        \/ Banned(p) \/ Look(p) \/ AskForBan(p)
        \/ \E w \in Weights : Refused(p, w) \/ Granted(p, w)
        \/ \E length \in BanLengths : NoteRateLimited(p, length)
        \/ Truncate(p) \/ WriteBucket(p) \/ KillSpender(p)

BudgetSpec == BudgetInit /\ [][BudgetNext]_budgetVars

-----------------------------------------------------------------------------
(* However many processes poll, and whenever they are killed or the host   *)
(* boots, what they spend together fits one bucket and its refill since    *)
(* the beginning, and one more bucket for each state a kill emptied.       *)
SpendFits == spent <= Capacity * (1 + wipes) + Refill * pulse
=============================================================================
