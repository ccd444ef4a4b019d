----------------------------- MODULE RateLimiter -----------------------------
(***************************************************************************)
(* internal/ratelimit/limiter.go: IPLimiter, one golang.org/x/time/rate    *)
(* limiter per source address, made on the address's first connection and  *)
(* deleted by a background goroutine once the address has been silent for  *)
(* DefaultRateLimitCleanup.  Its mutex makes Allow and evictStale one step *)
(* each.                                                                   *)
(*                                                                         *)
(* A rate.Limiter brings its token count up to date only when it allows:   *)
(* tokens is the count at time last.  As in TokenBucket, amounts are in    *)
(* units of 1/Interval token.                                              *)
(***************************************************************************)
EXTENDS Naturals

CONSTANTS
    IPs,        \* source addresses
    Burst,      \* config.DefaultRateLimitBurst
    Interval,   \* config.DefaultRateLimitInterval, in units of time
    Cleanup,    \* config.DefaultRateLimitCleanup, in units of time
    MaxTime     \* bound: the length of a behaviour

(* The constants of config/constants.go: 10 tokens, one a second, and ten   *)
(* minutes, in which a bucket of ten tokens fills up sixty times over.      *)
ASSUME LimiterAssumption ==
    /\ Burst \in Nat \ {0}
    /\ Interval \in Nat \ {0}
    /\ Cleanup \in Nat \ {0}
    /\ MaxTime \in Nat
    /\ Burst * Interval <= Cleanup

VARIABLES
    now,        \* time.Now()
    known,      \* the keys of IPLimiter.limiters
    tokens,     \* tokens[ip]: rate.Limiter.tokens
    last,       \* last[ip]: rate.Limiter.last
    lastSeen,   \* lastSeen[ip]: entry.lastSeen
    tick,       \* ticker.C of cleanup holds a tick: 0 or 1
    sweeper,    \* the cleanup goroutine: "running", "stopping" or "gone"
    answer,     \* answer[ip]: what the last call of Allow returned
    watched,    \* history: the address whose connections are counted
    used,       \* history: what it was allowed since the count began
    since       \* history: the time since the count began

limiterVars == <<now, known, tokens, last, lastSeen, tick, sweeper, answer,
                 watched, used, since>>

Capacity == Burst * Interval

Init ==
    /\ now = 0
    /\ known = {}
    /\ tokens = [ip \in IPs |-> Capacity]
    /\ last = [ip \in IPs |-> 0]
    /\ lastSeen = [ip \in IPs |-> 0]
    /\ tick = 0
    /\ sweeper = "running"
    /\ answer = [ip \in IPs |-> "none"]
    /\ watched \in IPs
    /\ used = 0
    /\ since = 0

(* Time passes; the ticker fires every Cleanup and drops a tick that finds  *)
(* the channel full.                                                        *)
Tick ==
    /\ now < MaxTime
    /\ now' = now + 1
    /\ tick' = IF now' % Cleanup = 0 THEN 1 ELSE tick
    /\ since' = since + 1
    /\ UNCHANGED <<known, tokens, last, lastSeen, sweeper, answer, watched,
                   used>>

(* rate.Limiter.advance: the tokens of ip at this time, a full bucket for a *)
(* limiter that is made now.                                                *)
Advanced(ip) ==
    IF ip \in known /\ tokens[ip] + (now - last[ip]) < Capacity
    THEN tokens[ip] + (now - last[ip])
    ELSE Capacity

(* Mutant: half a token is enough. *)
AllowHalf(ip) ==
    LET ok == 2 * Advanced(ip) >= Interval
    IN  /\ known' = known \cup {ip}
        /\ lastSeen' = [lastSeen EXCEPT ![ip] = now]
        /\ tokens' = [tokens EXCEPT ![ip] = IF ok THEN Advanced(ip) - Interval ELSE @]
        /\ last' = [last EXCEPT ![ip] = IF ok THEN now ELSE @]
        /\ used' = IF ok /\ ip = watched THEN used + Interval ELSE used
        /\ answer' = [answer EXCEPT ![ip] = IF ok THEN "allowed" ELSE "refused"]
        /\ UNCHANGED <<now, tick, sweeper, watched, since>>

(* Allow: make the entry if there is none, stamp it, and ask its limiter,   *)
(* which takes a token, or is left as it was when there is none to take.    *)
Allow(ip) ==
    LET ok == Advanced(ip) >= Interval
    IN  /\ known' = known \cup {ip}
        /\ lastSeen' = [lastSeen EXCEPT ![ip] = now]
        /\ tokens' = [tokens EXCEPT ![ip] = IF ok THEN Advanced(ip) - Interval ELSE @]
        /\ last' = [last EXCEPT ![ip] = IF ok THEN now ELSE @]
        /\ used' = IF ok /\ ip = watched THEN used + Interval ELSE used
        /\ answer' = [answer EXCEPT ![ip] = IF ok THEN "allowed" ELSE "refused"]
        /\ UNCHANGED <<now, tick, sweeper, watched, since>>

(* Mutant: every entry is dropped, however lately it was seen. *)
StaleAlways(ip) == ip \in known

(* lastSeen.Before(now - Cleanup), strictly. *)
Stale(ip) == ip \in known /\ lastSeen[ip] + Cleanup < now

(* evictStale deletes every stale entry; a deleted one has no state left. *)
EvictStale ==
    /\ known' = {ip \in known : ~Stale(ip)}
    /\ tokens' = [ip \in IPs |-> IF Stale(ip) THEN Capacity ELSE tokens[ip]]
    /\ last' = [ip \in IPs |-> IF Stale(ip) THEN 0 ELSE last[ip]]
    /\ lastSeen' = [ip \in IPs |-> IF Stale(ip) THEN 0 ELSE lastSeen[ip]]

(* The cleanup loop: select takes a tick, or the stop signal once it is     *)
(* there; when both are there it takes either.                              *)
CleanupSweep ==
    /\ sweeper # "gone"
    /\ tick = 1
    /\ tick' = 0
    /\ EvictStale
    /\ UNCHANGED <<now, sweeper, answer, watched, used, since>>

CleanupReturn ==
    /\ sweeper = "stopping"
    /\ sweeper' = "gone"
    /\ UNCHANGED <<now, known, tokens, last, lastSeen, tick, answer, watched,
                   used, since>>

(* Stop closes the stop channel; runServe calls it once. *)
Stop ==
    /\ sweeper = "running"
    /\ sweeper' = "stopping"
    /\ UNCHANGED <<now, known, tokens, last, lastSeen, tick, answer, watched,
                   used, since>>

(* An observer begins to count the connections of ip (history only). *)
BeginCount(ip) ==
    /\ watched' = ip
    /\ used' = 0
    /\ since' = 0
    /\ UNCHANGED <<now, known, tokens, last, lastSeen, tick, sweeper, answer>>

Next ==
    \/ Tick
    \/ \E ip \in IPs : Allow(ip)
    \/ \E ip \in IPs : BeginCount(ip)
    \/ CleanupSweep
    \/ CleanupReturn
    \/ Stop

Spec == Init /\ [][Next]_limiterVars
-----------------------------------------------------------------------------
(* Types; a bucket is stamped no later than its entry, and an entry not in  *)
(* the future, so elapsed times are never negative.                         *)
TypeOK ==
    /\ now \in Nat
    /\ known \in SUBSET IPs
    /\ tokens \in [IPs -> 0..Capacity]
    /\ last \in [IPs -> Nat]
    /\ lastSeen \in [IPs -> Nat]
    /\ tick \in {0, 1}
    /\ sweeper \in {"running", "stopping", "gone"}
    /\ answer \in [IPs -> {"none", "allowed", "refused"}]
    /\ watched \in IPs
    /\ used \in Nat
    /\ since \in Nat
    /\ \A ip \in IPs : last[ip] <= lastSeen[ip] /\ lastSeen[ip] <= now

Bucket == INSTANCE TokenBucket WITH level <- [ip \in IPs |-> Advanced(ip)]

(* Deleting the entries of silent addresses is invisible: with eviction,    *)
(* lazy refilling and entries made on demand, every connection gets the     *)
(* answer it would get from a bucket kept for its address for ever.         *)
ForgettingIsInvisible == Bucket!BucketSpec

(* However its connections fall around an eviction, no address is allowed   *)
(* more than Burst connections and one per Interval in any stretch of time. *)
RateBound == Bucket!WindowBound
=============================================================================
