----------------------------- MODULE TokenBucket -----------------------------
(***************************************************************************)
(* What the per-IP rate limiter promises: every source address has a token *)
(* bucket of its own that holds at most Burst tokens, gains one every      *)
(* Interval units of time, and is never forgotten.  A connection is        *)
(* allowed exactly when the bucket holds a whole token, which it takes.    *)
(*                                                                         *)
(* Levels are counted in units of 1/Interval token, the amount gained in   *)
(* one unit of time.  watched, used and since are history: an observer     *)
(* counts what one address has taken, from a time of its choosing on.      *)
(***************************************************************************)
EXTENDS Naturals

CONSTANTS
    IPs,        \* source addresses
    Burst,      \* tokens a full bucket holds
    Interval,   \* units of time per token
    MaxTime     \* bound: the length of a behaviour

VARIABLES
    now,        \* the time
    level,      \* level[ip]: what the bucket of ip holds
    answer,     \* answer[ip]: what the last connection of ip was told
    watched,    \* the address whose connections are counted
    used,       \* what it has taken since the count began
    since       \* the time since the count began

bucketVars == <<now, level, answer, watched, used, since>>

Full == Burst * Interval

Answers == {"none", "allowed", "refused"}

BucketInit ==
    /\ now = 0
    /\ level = [ip \in IPs |-> Full]
    /\ answer = [ip \in IPs |-> "none"]
    /\ watched \in IPs
    /\ used = 0
    /\ since = 0

(* A unit of time passes and every bucket that is not full gains. *)
BucketTick ==
    /\ now < MaxTime
    /\ now' = now + 1
    /\ level' = [ip \in IPs |-> IF level[ip] < Full THEN level[ip] + 1
                                                    ELSE level[ip]]
    /\ since' = since + 1
    /\ UNCHANGED <<answer, watched, used>>

Allowed(ip) ==
    /\ level[ip] >= Interval
    /\ level' = [level EXCEPT ![ip] = @ - Interval]
    /\ used' = IF ip = watched THEN used + Interval ELSE used
    /\ answer' = [answer EXCEPT ![ip] = "allowed"]
    /\ UNCHANGED <<now, watched, since>>

Refused(ip) ==
    /\ level[ip] < Interval
    /\ answer' = [answer EXCEPT ![ip] = "refused"]
    /\ UNCHANGED <<now, level, watched, used, since>>

(* An observer begins to count the connections of ip. *)
BeginCount(ip) ==
    /\ watched' = ip
    /\ used' = 0
    /\ since' = 0
    /\ UNCHANGED <<now, level, answer>>

BucketNext ==
    \/ BucketTick
    \/ \E ip \in IPs : Allowed(ip) \/ Refused(ip) \/ BeginCount(ip)

BucketSpec == BucketInit /\ [][BucketNext]_bucketVars

BucketTypeOK ==
    /\ now \in Nat
    /\ level \in [IPs -> 0..Full]
    /\ answer \in [IPs -> Answers]
    /\ watched \in IPs
    /\ used \in Nat
    /\ since \in Nat

(* In no stretch of time, wherever it begins, is one address allowed more   *)
(* connections than a full bucket and the tokens gained meanwhile.          *)
WindowBound == used <= Full + since

(* Why: what has been taken plus what is left never exceeds that amount. *)
BucketInv ==
    /\ BucketTypeOK
    /\ used + level[watched] <= Full + since
=============================================================================
