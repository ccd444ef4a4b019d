-------------------------- MODULE RateLimiterProofs --------------------------
(***************************************************************************)
(* The per-IP limiter implements token buckets that are never forgotten,   *)
(* for every set of addresses, burst, interval and cleanup period in which *)
(* an empty bucket fills up.                                               *)
(***************************************************************************)
EXTENDS RateLimiter, TLAPS

(* A bucket's capacity is a natural number no larger than the cleanup time. *)
LEMMA CapacityFits == Capacity \in Nat /\ Capacity <= Cleanup /\ Interval <= Capacity
  <1>1. Burst * Interval \in Nat /\ Interval <= Burst * Interval
    BY LimiterAssumption
  <1> QED
    BY <1>1, LimiterAssumption DEF Capacity

(* The count brought up to date lies between nothing and a full bucket. *)
LEMMA AdvancedRange ==
    ASSUME TypeOK, NEW ip \in IPs
    PROVE  Advanced(ip) \in 0..Capacity
  BY CapacityFits DEF TypeOK, Advanced

(* Types and the order of the time stamps are preserved by every step. *)
LEMMA LimiterTypeStep ==
    ASSUME TypeOK, [Next]_limiterVars
    PROVE  TypeOK'
  <1> USE CapacityFits, LimiterAssumption
  <1>1. CASE Tick
    BY <1>1 DEF TypeOK, Tick
  <1>2. ASSUME NEW ip \in IPs, Allow(ip) PROVE TypeOK'
    <2>1. Advanced(ip) \in 0..Capacity
      BY AdvancedRange
    <2>2. tokens' \in [IPs -> 0..Capacity]
      BY <1>2, <2>1 DEF TypeOK, Allow
    <2>3. /\ last' \in [IPs -> Nat]
          /\ lastSeen' \in [IPs -> Nat]
          /\ \A x \in IPs : last'[x] <= lastSeen'[x] /\ lastSeen'[x] <= now
      BY <1>2 DEF TypeOK, Allow
    <2>4. /\ known' \in SUBSET IPs
          /\ used' \in Nat
          /\ answer' \in [IPs -> {"none", "allowed", "refused"}]
      BY <1>2 DEF TypeOK, Allow
    <2> QED
      BY <1>2, <2>2, <2>3, <2>4 DEF TypeOK, Allow
  <1>3. ASSUME NEW ip \in IPs, BeginCount(ip) PROVE TypeOK'
    BY <1>3 DEF TypeOK, BeginCount
  <1>4. CASE CleanupSweep
    BY <1>4 DEF TypeOK, CleanupSweep, EvictStale
  <1>5. CASE CleanupReturn
    BY <1>5 DEF TypeOK, CleanupReturn
  <1>6. CASE Stop
    BY <1>6 DEF TypeOK, Stop
  <1>7. CASE UNCHANGED limiterVars
    BY <1>7 DEF TypeOK, limiterVars
  <1> QED
    BY <1>1, <1>2, <1>3, <1>4, <1>5, <1>6, <1>7 DEF Next

(* Types hold, and no elapsed time is ever negative. *)
THEOREM LimiterTypeCorrect == Spec => []TypeOK
  <1>1. Init => TypeOK
    BY CapacityFits DEF Init, TypeOK
  <1> QED
    BY <1>1, LimiterTypeStep, PTL DEF Spec

(* The sweep deletes only entries whose bucket has filled up again, so the  *)
(* count of no address changes.                                             *)
LEMMA SweepChangesNoLevel ==
    ASSUME TypeOK, CleanupSweep, NEW ip \in IPs
    PROVE  Advanced(ip)' = Advanced(ip)
  <1>1. CASE Stale(ip)
    <2>1. ip \notin known'
      BY <1>1 DEF CleanupSweep, EvictStale
    <2>2. tokens[ip] + (now - last[ip]) >= Capacity
      BY <1>1, CapacityFits, LimiterAssumption DEF Stale, TypeOK
    <2> QED
      BY <2>1, <2>2, CapacityFits DEF Advanced, TypeOK
  <1>2. CASE ~Stale(ip)
    BY <1>2 DEF CleanupSweep, EvictStale, Advanced, TypeOK
  <1> QED
    BY <1>1, <1>2

(* Every step of the limiter is a step of the buckets, or none. *)
LEMMA LimiterStepSimulation ==
    ASSUME TypeOK, [Next]_limiterVars
    PROVE  [Bucket!BucketNext]_(Bucket!bucketVars)
  <1> USE CapacityFits, LimiterAssumption
  <1> DEFINE bar == [ip \in IPs |-> Advanced(ip)]
  <1>1. CASE Tick
    <2>1. ASSUME NEW ip \in IPs
          PROVE  Advanced(ip)' = IF Advanced(ip) < Capacity THEN Advanced(ip) + 1
                                                            ELSE Advanced(ip)
      <3>1. now' = now + 1 /\ UNCHANGED <<known, tokens, last>>
        BY <1>1 DEF Tick
      <3>2. /\ tokens[ip] \in 0..Capacity /\ last[ip] \in Nat /\ now \in Nat
            /\ last[ip] <= now
        BY DEF TypeOK
      <3>3. CASE ip \notin known
        BY <3>1, <3>3 DEF Advanced
      <3>4. CASE ip \in known
        BY <3>1, <3>2, <3>4 DEF Advanced
      <3> QED
        BY <3>3, <3>4
    <2>2. bar' = [ip \in IPs |-> IF bar[ip] < Bucket!Full THEN bar[ip] + 1
                                                          ELSE bar[ip]]
      <3>1. Bucket!Full = Capacity
        BY DEF Bucket!Full, Capacity
      <3>2. \A ip \in IPs : bar'[ip] = IF bar[ip] < Capacity THEN bar[ip] + 1
                                                           ELSE bar[ip]
        BY <2>1
      <3> QED
        BY <3>1, <3>2
    <2>3. Bucket!BucketTick
      BY <1>1, <2>2 DEF Tick, Bucket!BucketTick
    <2> QED
      BY <2>3 DEF Bucket!BucketNext
  <1>2. ASSUME NEW ip \in IPs, Allow(ip)
        PROVE  Bucket!Allowed(ip) \/ Bucket!Refused(ip)
    <2>1. \A x \in IPs : x # ip => Advanced(x)' = Advanced(x)
      BY <1>2 DEF Allow, Advanced, TypeOK
    <2>2. CASE Advanced(ip) >= Interval
      <3>1. Advanced(ip) \in 0..Capacity
        BY AdvancedRange
      <3>2. Advanced(ip)' = Advanced(ip) - Interval
        BY <1>2, <2>2, <3>1 DEF Allow, Advanced, TypeOK
      <3>3. bar' = [bar EXCEPT ![ip] = @ - Interval]
        BY <2>1, <3>2
      <3> QED
        BY <1>2, <2>2, <3>3 DEF Allow, Bucket!Allowed
    <2>3. CASE ~(Advanced(ip) >= Interval)
      <3>0. Advanced(ip) \in 0..Capacity
        BY AdvancedRange
      <3>1. ip \in known
        BY <2>3 DEF Advanced
      <3>2. Advanced(ip)' = Advanced(ip)
        BY <1>2, <2>3, <3>1 DEF Allow, Advanced, TypeOK
      <3>3. bar' = bar
        BY <2>1, <3>2
      <3> QED
        BY <1>2, <2>3, <3>0, <3>3 DEF Allow, Bucket!Refused
    <2> QED
      BY <2>2, <2>3
  <1>3. ASSUME NEW ip \in IPs, BeginCount(ip) PROVE Bucket!BeginCount(ip)
    BY <1>3 DEF BeginCount, Bucket!BeginCount, Advanced
  <1>4. CASE CleanupSweep
    <2>1. bar' = bar
      BY <1>4, SweepChangesNoLevel
    <2> QED
      BY <1>4, <2>1 DEF CleanupSweep, Bucket!bucketVars
  <1>5. CASE CleanupReturn \/ Stop \/ UNCHANGED limiterVars
    <2>1. bar' = bar
      BY <1>5 DEF CleanupReturn, Stop, limiterVars, Advanced
    <2> QED
      BY <1>5, <2>1 DEF CleanupReturn, Stop, limiterVars, Bucket!bucketVars
  <1> QED
    BY <1>1, <1>2, <1>3, <1>4, <1>5 DEF Next, Bucket!BucketNext

(* The limiter with eviction implements the buckets that are never evicted: *)
(* limiter.go's cleanup is invisible to the connections it judges.          *)
THEOREM LimiterForgetsInvisibly == Spec => ForgettingIsInvisible
  <1>1. Init => Bucket!BucketInit
    BY CapacityFits DEF Init, Bucket!BucketInit, Bucket!Full, Capacity, Advanced
  <1>2. TypeOK /\ [Next]_limiterVars => [Bucket!BucketNext]_(Bucket!bucketVars)
    BY LimiterStepSimulation
  <1> QED
    BY <1>1, <1>2, LimiterTypeCorrect, PTL
    DEF Spec, ForgettingIsInvisible, Bucket!BucketSpec
-----------------------------------------------------------------------------
(* In the buckets, what was taken since the count began and what is left    *)
(* never exceed a full bucket and what was gained meanwhile.                *)
LEMMA BucketStep ==
    ASSUME Bucket!BucketInv, Bucket!BucketTypeOK',
           [Bucket!BucketNext]_(Bucket!bucketVars)
    PROVE  Bucket!BucketInv'
  <1> DEFINE bar == [ip \in IPs |-> Advanced(ip)]
             Bound == used + bar[watched] <= Capacity + since
  <1>0. Bucket!Full = Capacity /\ Capacity \in Nat /\ Interval \in Nat
    BY CapacityFits, LimiterAssumption DEF Bucket!Full, Capacity
  <1>1. /\ used \in Nat /\ since \in Nat /\ watched \in IPs
        /\ bar[watched] \in 0..Capacity /\ Bound
    BY <1>0 DEF Bucket!BucketInv, Bucket!BucketTypeOK
  <1>2. bar' \in [IPs -> 0..Capacity] /\ watched' \in IPs
    BY <1>0 DEF Bucket!BucketTypeOK
  <1> SUFFICES used' + bar'[watched'] <= Capacity + since'
    BY <1>0 DEF Bucket!BucketInv
  <1> HIDE DEF bar
  <1>3. CASE Bucket!BucketTick
    <2>1. bar'[watched] = IF bar[watched] < Capacity THEN bar[watched] + 1
                                                     ELSE bar[watched]
      BY <1>0, <1>1, <1>3 DEF Bucket!BucketTick, bar
    <2> QED
      BY <1>0, <1>1, <1>3, <2>1 DEF Bucket!BucketTick
  <1>4. ASSUME NEW ip \in IPs, Bucket!Allowed(ip)
        PROVE  used' + bar'[watched'] <= Capacity + since'
    <2>1. /\ bar[ip] >= Interval /\ bar' = [bar EXCEPT ![ip] = @ - Interval]
          /\ used' = (IF ip = watched THEN used + Interval ELSE used)
          /\ watched' = watched /\ since' = since
      BY <1>4 DEF Bucket!Allowed, bar
    <2>2. bar'[watched] = IF ip = watched THEN bar[watched] - Interval
                                          ELSE bar[watched]
      BY <1>1, <2>1 DEF bar
    <2> QED
      BY <1>0, <1>1, <2>1, <2>2
  <1>5. ASSUME NEW ip \in IPs, Bucket!Refused(ip)
        PROVE  used' + bar'[watched'] <= Capacity + since'
    BY <1>1, <1>5 DEF Bucket!Refused, bar
  <1>6. ASSUME NEW ip \in IPs, Bucket!BeginCount(ip)
        PROVE  used' + bar'[watched'] <= Capacity + since'
    <2>1. used' = 0 /\ since' = 0
      BY <1>6 DEF Bucket!BeginCount
    <2>2. bar'[watched'] \in 0..Capacity
      BY <1>2
    <2> QED
      BY <1>0, <2>1, <2>2
  <1>7. CASE UNCHANGED Bucket!bucketVars
    BY <1>1, <1>7 DEF Bucket!bucketVars, bar
  <1> QED
    BY <1>3, <1>4, <1>5, <1>6, <1>7 DEF Bucket!BucketNext

(* No address is ever allowed more than Burst connections and one more per  *)
(* Interval in a stretch of time, whatever limiter.go evicts meanwhile.     *)
THEOREM LimiterBoundsRate == Spec => []RateBound
  <1>1. Init => Bucket!BucketInv
    BY CapacityFits DEF Init, Bucket!BucketInv, Bucket!BucketTypeOK,
       Bucket!Answers, Bucket!Full, Capacity, Advanced
  <1>2. TypeOK /\ TypeOK' /\ Bucket!BucketInv /\ [Next]_limiterVars
        => Bucket!BucketInv'
    <2> SUFFICES ASSUME TypeOK, TypeOK', Bucket!BucketInv, [Next]_limiterVars
                 PROVE  Bucket!BucketInv'
      OBVIOUS
    <2>1. [Bucket!BucketNext]_(Bucket!bucketVars)
      BY LimiterStepSimulation
    <2>2. Bucket!BucketTypeOK'
      <3>1. \A ip \in IPs : Advanced(ip)' \in 0..Capacity
        BY CapacityFits DEF TypeOK, Advanced
      <3> QED
        BY <3>1 DEF TypeOK, Bucket!BucketTypeOK, Bucket!Answers, Bucket!Full,
                    Capacity
    <2> QED
      BY <2>1, <2>2, BucketStep
  <1>3. Bucket!BucketInv => RateBound
    <2> SUFFICES ASSUME Bucket!BucketInv PROVE used <= Capacity + since
      BY DEF RateBound, Bucket!WindowBound, Bucket!Full, Capacity
    <2>1. Bucket!Full = Capacity /\ Capacity \in Nat
      BY CapacityFits DEF Bucket!Full, Capacity
    <2>2. /\ used \in Nat /\ since \in Nat /\ watched \in IPs
          /\ Advanced(watched) \in 0..Capacity
          /\ used + Advanced(watched) <= Capacity + since
      BY <2>1 DEF Bucket!BucketInv, Bucket!BucketTypeOK
    <2> QED
      BY <2>1, <2>2
  <1> QED
    BY <1>1, <1>2, <1>3, LimiterTypeCorrect, PTL DEF Spec
=============================================================================
