--------------------------- MODULE DetectorProofs ---------------------------
(***************************************************************************)
(* The sliding windows of Detector, for every number of addresses,         *)
(* services, workers and events and for all thresholds and windows.  The   *)
(* inductive invariant is DetInv of Detector.                              *)
(***************************************************************************)
EXTENDS Detector, FiniteSetTheorems, TLAPS

(* The events detected are among those received, hence finitely many. *)
LEMMA DoneTaken ==
    ASSUME TypeOK
    PROVE  /\ Done \subseteq 1..taken
           /\ Done \subseteq 1..Len(events)
           /\ Done \subseteq 1..MaxEvents
           /\ IsFiniteSet(Done)
<1>1. Done \subseteq 1..taken /\ taken \in 0..Len(events) /\ Len(events) \in Nat
    BY DEF TypeOK, Done
<1>2. IsFiniteSet(1..taken)
    BY <1>1, FS_Interval
<1>3. IsFiniteSet(Done)
    BY <1>1, <1>2, FS_Subset
<1>4. Len(events) <= MaxEvents /\ MaxEvents \in Nat
    BY DetectorAssumption DEF TypeOK
<1> QED
    BY <1>1, <1>3, <1>4

(* Counting over finite sets is monotone. *)
LEMMA Counting ==
    ASSUME NEW T, IsFiniteSet(T), NEW S \in SUBSET T
    PROVE  /\ IsFiniteSet(S)
           /\ Cardinality(S) \in Nat /\ Cardinality(T) \in Nat
           /\ Cardinality(S) <= Cardinality(T)
BY FS_Subset, FS_CardinalityType
-----------------------------------------------------------------------------
(* A step that detects nothing leaves the past as it was. *)
PastUnchanged ==
    /\ UNCHANGED <<authHits, services, found, done>>
    /\ \A n \in 1..taken : events'[n] = events[n]

(* A step that leaves the past alone leaves the sets read off it alone.     *)
LEMMA PastSets ==
    ASSUME TypeOK, PastUnchanged
    PROVE  /\ Done' = Done
           /\ \A n \in Done : events'[n] = events[n]
           /\ \A ip \in IPs : /\ Of(ip)' = Of(ip)
                              /\ Logins(ip)' = Logins(ip)
                              /\ Connects(ip)' = Connects(ip)
<1>1. Done' = Done
    BY DEF PastUnchanged, Done
<1>2. \A n \in Done : events'[n] = events[n]
    BY DoneTaken DEF PastUnchanged
<1>3. \A ip \in IPs : Of(ip)' = Of(ip)
    BY <1>1, <1>2 DEF Of
<1>4. \A ip \in IPs : \A n \in Of(ip) : events'[n] = events[n]
    BY <1>2 DEF Of
<1>5. \A ip \in IPs : Logins(ip)' = Logins(ip)
    BY <1>3, <1>4 DEF Logins
<1>6. \A ip \in IPs : Connects(ip)' = Connects(ip)
    BY <1>3, <1>4 DEF Connects
<1> QED
    BY <1>1, <1>2, <1>3, <1>5, <1>6

(* It keeps every part of DetInv that is about the past.                    *)
LEMMA PastKeeps ==
    ASSUME DetInv, PastUnchanged
    PROVE  (WindowsSound /\ WindowsComplete /\ AlarmSound /\ BurstCaught /\ ScanCaught)'
<1> TypeOK
    BY DEF DetInv
<1>0. /\ Done' = Done
      /\ \A n \in Done : events'[n] = events[n]
      /\ \A ip \in IPs : /\ Of(ip)' = Of(ip)
                         /\ Logins(ip)' = Logins(ip)
                         /\ Connects(ip)' = Connects(ip)
      /\ authHits' = authHits /\ services' = services /\ found' = found
    BY PastSets DEF PastUnchanged
<1>1. \A ip \in IPs : /\ \A n \in Of(ip) : n \in Done /\ events'[n] = events[n]
                      /\ Logins(ip) \subseteq Of(ip) /\ Connects(ip) \subseteq Of(ip)
    BY <1>0 DEF Of, Logins, Connects
<1>2. WindowsSound'
    BY <1>0, <1>1 DEF DetInv, WindowsSound, Active
<1>3. \A ip \in IPs : LatestLogins(ip)' = LatestLogins(ip)
    BY <1>0, <1>1 DEF LatestLogins
<1>4. \A ip \in IPs : Brief(ip)' = Brief(ip)
    BY <1>0, <1>1 DEF Brief
<1>5. \A ip \in IPs : {events[n].svc : n \in Connects(ip)}' = {events[n].svc : n \in Connects(ip)}
    BY <1>0, <1>1
<1>6. WindowsComplete'
    BY <1>0, <1>3, <1>4, <1>5 DEF DetInv, WindowsComplete, Active
<1>7. BurstCaught'
    BY <1>0, <1>3 DEF DetInv, BurstCaught
<1>8. ScanCaught'
    BY <1>0, <1>4, <1>5 DEF DetInv, ScanCaught
<1>9. AlarmSound'
  <2> SUFFICES ASSUME NEW ip \in IPs, NEW n \in Of(ip)
               PROVE  /\ "T1110" \in found[n] =>
                           Cardinality({m \in Logins(ip) : events[m].at + BruteForceWindow > events[n].at}')
                               >= BruteForceThreshold
                      /\ "T1046" \in found[n] =>
                           Cardinality({s \in Services : \E m \in Connects(ip) :
                                   events[m].svc = s /\ events[m].at + ScanWindow >= events[n].at}')
                               >= ScanThreshold
    BY <1>0 DEF AlarmSound
  <2>1. n \in Done /\ events'[n] = events[n]
    BY <1>1
  <2>2. {m \in Logins(ip) : events[m].at + BruteForceWindow > events[n].at}'
        = {m \in Logins(ip) : events[m].at + BruteForceWindow > events[n].at}
    BY <1>0, <1>1, <2>1
  <2>3. {s \in Services : \E m \in Connects(ip) :
             events[m].svc = s /\ events[m].at + ScanWindow >= events[n].at}'
        = {s \in Services : \E m \in Connects(ip) :
             events[m].svc = s /\ events[m].at + ScanWindow >= events[n].at}
    BY <1>0, <1>1, <2>1
  <2> QED
    BY <2>1, <2>2, <2>3 DEF DetInv, AlarmSound
<1> QED
    BY <1>2, <1>6, <1>7, <1>8, <1>9
-----------------------------------------------------------------------------
(* What the detection of event n, of address a, adds to the past. *)
LEMMA DetectSets ==
    ASSUME TypeOK, HandFresh, NEW w \in Workers, Detect(w),
           NEW n, n = hand[w], NEW a, a = events[n].ip
    PROVE  /\ n \in 1..taken /\ n \in 1..MaxEvents /\ n \notin Done
           /\ events[n] \in Event /\ a \in IPs
           /\ events' = events /\ Done' = Done \cup {n}
           /\ Of(a)' = Of(a) \cup {n}
           /\ Logins(a)' = IF events[n].kind = "login" THEN Logins(a) \cup {n} ELSE Logins(a)
           /\ Connects(a)' = IF events[n].kind = "connect" THEN Connects(a) \cup {n} ELSE Connects(a)
           /\ \A ip \in IPs \ {a} : /\ Of(ip)' = Of(ip)
                                     /\ Logins(ip)' = Logins(ip)
                                     /\ Connects(ip)' = Connects(ip)
<1>1. n \in 1..taken /\ n \notin Done /\ n \in 1..Len(events) /\ n \in 1..MaxEvents
  <2>1. n # 0 /\ n \in 0..taken
    BY DEF Detect, TypeOK
  <2>2. taken \in 0..Len(events) /\ Len(events) \in Nat /\ Len(events) <= MaxEvents
    BY DEF TypeOK
  <2>3. n \notin Done
    BY <2>1 DEF HandFresh
  <2> QED
    BY <2>1, <2>2, <2>3, DetectorAssumption
<1>2. events[n] \in Event /\ a \in IPs
  <2>1. events[n] \in Event
    BY <1>1 DEF TypeOK
  <2> QED
    BY <2>1 DEF Event
<1>3. events' = events /\ Done' = Done \cup {n}
  <2>1. events' = events /\ done' = Append(done, n) /\ done \in Seq(1..taken)
    BY DEF Detect, TypeOK
  <2>2. DOMAIN done' = 1..(Len(done) + 1) /\ DOMAIN done = 1..Len(done) /\ Len(done) \in Nat
    BY <1>1, <2>1
  <2>3. done'[Len(done) + 1] = n /\ \A i \in 1..Len(done) : done'[i] = done[i]
    BY <1>1, <2>1, <2>2
  <2> QED
    BY <2>1, <2>2, <2>3 DEF Done
<1>4. Of(a)' = Of(a) \cup {n} /\ \A ip \in IPs \ {a} : Of(ip)' = Of(ip)
    BY <1>3 DEF Of
<1>5. /\ Logins(a)' = IF events[n].kind = "login" THEN Logins(a) \cup {n} ELSE Logins(a)
      /\ \A ip \in IPs \ {a} : Logins(ip)' = Logins(ip)
    BY <1>3, <1>4 DEF Logins
<1>6. /\ Connects(a)' = IF events[n].kind = "connect" THEN Connects(a) \cup {n} ELSE Connects(a)
      /\ \A ip \in IPs \ {a} : Connects(ip)' = Connects(ip)
    BY <1>3, <1>4 DEF Connects
<1> QED
    BY <1>1, <1>2, <1>3, <1>4, <1>5, <1>6

(* The windows and the verdict it leaves behind. *)
LEMMA DetectEffect ==
    ASSUME TypeOK, HandFresh, NEW w \in Workers, Detect(w),
           NEW n, n = hand[w], NEW a, a = events[n].ip
    PROVE  /\ authHits' = [authHits EXCEPT ![a] = AuthHitsAfter(n)]
           /\ services' = [services EXCEPT ![a] = ServicesAfter(n)]
           /\ authHits'[a] = AuthHitsAfter(n) /\ services'[a] = ServicesAfter(n)
           /\ \A ip \in IPs \ {a} : authHits'[ip] = authHits[ip] /\ services'[ip] = services[ip]
           /\ found'[n] = DetectSingleEvent(events[n]) \cup DetectMultiEvent(n)
           /\ \A m \in Done : found'[m] = found[m]
<1>1. /\ authHits' = [authHits EXCEPT ![a] = AuthHitsAfter(n)]
      /\ services' = [services EXCEPT ![a] = ServicesAfter(n)]
      /\ found' = [found EXCEPT ![n] = DetectSingleEvent(events[n]) \cup DetectMultiEvent(n)]
    BY DEF Detect
<1>2. n \in 1..MaxEvents /\ n \notin Done /\ a \in IPs /\ Done \subseteq 1..MaxEvents
    BY DetectSets, DoneTaken
<1>3. /\ authHits \in [IPs -> SUBSET (1..taken)]
      /\ services \in [IPs -> [Services -> Nat]]
      /\ found \in [1..MaxEvents -> SUBSET Techniques]
    BY DEF TypeOK
<1> QED
    BY <1>1, <1>2, <1>3

(* The window techniques come from the windows alone. *)
LEMMA SingleEventRules ==
    ASSUME NEW e \in Event
    PROVE  /\ "T1110" \notin DetectSingleEvent(e) /\ "T1046" \notin DetectSingleEvent(e)
           /\ DetectSingleEvent(e) \subseteq Techniques
<1>1. e.cmd \subseteq CommandFacts
    BY DEF Event
<1>2. /\ "T1110" \notin DetectCommand(e.cmd) /\ "T1046" \notin DetectCommand(e.cmd)
      /\ DetectCommand(e.cmd) \subseteq Techniques
    BY <1>1 DEF DetectCommand, CommandFacts, CommandRules, Techniques
<1> QED
    BY <1>2 DEF DetectSingleEvent, Techniques, CommandRules

(* The moved windows hold detected events of the address only, and only     *)
(* what is inside them.                                                     *)
LEMMA DetectWindowsSound ==
    ASSUME TypeOK, HandFresh, WindowsSound, NEW w \in Workers, Detect(w),
           NEW n, n = hand[w], NEW a, a = events[n].ip
    PROVE  /\ AuthHitsAfter(n) \subseteq Logins(a)'
           /\ events[n].kind = "login" =>
                 \A m \in AuthHitsAfter(n) : events[m].at + BruteForceWindow > events[n].at
           /\ \A s \in Active(ServicesAfter(n)) :
                 /\ \E m \in Connects(a)' : events[m].svc = s /\ events[m].at = ServicesAfter(n)[s]
                 /\ ServicesAfter(n)[s] + ScanWindow >= events[n].at
           /\ WindowsSound'
<1>0. /\ a \in IPs /\ events' = events /\ events[n] \in Event
      /\ Logins(a)' = IF events[n].kind = "login" THEN Logins(a) \cup {n} ELSE Logins(a)
      /\ Connects(a)' = IF events[n].kind = "connect" THEN Connects(a) \cup {n} ELSE Connects(a)
      /\ \A ip \in IPs \ {a} : Logins(ip)' = Logins(ip) /\ Connects(ip)' = Connects(ip)
    BY DetectSets
<1>1. AuthHitsAfter(n) \subseteq Logins(a)'
    BY <1>0 DEF WindowsSound, AuthHitsAfter, PruneWindow
<1>2. events[n].kind = "login" =>
          \A m \in AuthHitsAfter(n) : events[m].at + BruteForceWindow > events[n].at
    BY DEF AuthHitsAfter, PruneWindow
<1>3. ASSUME NEW s \in Active(ServicesAfter(n))
      PROVE  /\ \E m \in Connects(a)' : events[m].svc = s /\ events[m].at = ServicesAfter(n)[s]
             /\ ServicesAfter(n)[s] + ScanWindow >= events[n].at
  <2>0. s \in Services /\ ServicesAfter(n)[s] # 0
    BY DEF Active
  <2>1. CASE events[n].kind = "connect" /\ events[n].svc = s
    <3>1. ServicesAfter(n)[s] = events[n].at
        BY <2>0, <2>1 DEF ServicesAfter
    <3>2. n \in Connects(a)' /\ events[n].at \in Nat
        BY <1>0, <2>1 DEF Event
    <3> QED
        BY <2>1, <3>1, <3>2, DetectorAssumption
  <2>2. CASE ~(events[n].kind = "connect" /\ events[n].svc = s)
    <3>1. /\ ServicesAfter(n)[s] = services[a][s]
          /\ services[a][s] + ScanWindow >= events[n].at
        BY <2>0, <2>2 DEF ServicesAfter
    <3>2. s \in Active(services[a])
        BY <2>0, <3>1 DEF Active
    <3>3. PICK m \in Connects(a) : events[m].svc = s /\ events[m].at = services[a][s]
        BY <1>0, <3>2 DEF WindowsSound
    <3> QED
        BY <1>0, <3>1, <3>3
  <2> QED
    BY <2>1, <2>2
<1>4. WindowsSound'
  <2>1. /\ authHits'[a] = AuthHitsAfter(n) /\ services'[a] = ServicesAfter(n)
        /\ \A ip \in IPs \ {a} : authHits'[ip] = authHits[ip] /\ services'[ip] = services[ip]
    BY DetectEffect
  <2>2. ASSUME NEW ip \in IPs, ip # a
        PROVE  /\ authHits'[ip] \subseteq Logins(ip)'
               /\ \A s \in Active(services'[ip]) :
                     \E m \in Connects(ip)' : events[m].svc = s /\ events[m].at = services'[ip][s]
    BY <1>0, <2>1, <2>2 DEF WindowsSound
  <2>3. /\ authHits'[a] \subseteq Logins(a)'
        /\ \A s \in Active(services'[a]) :
              \E m \in Connects(a)' : events[m].svc = s /\ events[m].at = services'[a][s]
    BY <1>1, <1>3, <2>1
  <2>4. Active(services[a])' = Active(services'[a])
        /\ \A ip \in IPs : Active(services[ip])' = Active(services'[ip])
    BY DEF Active
  <2> QED
    BY <1>0, <2>2, <2>3, <2>4 DEF WindowsSound
<1> QED
    BY <1>1, <1>2, <1>3, <1>4

(* The moved windows hold all of the latest logins, and all the services of *)
(* a brief visit.                                                           *)
LEMMA DetectWindowsComplete ==
    ASSUME TypeOK, HandFresh, WindowsSound, WindowsComplete, NEW w \in Workers, Detect(w),
           NEW n, n = hand[w], NEW a, a = events[n].ip
    PROVE  /\ LatestLogins(a)' \subseteq AuthHitsAfter(n)
           /\ Brief(a)' => {events[m].svc : m \in Connects(a)'} \subseteq Active(ServicesAfter(n))
           /\ \A ip \in IPs \ {a} : /\ LatestLogins(ip)' = LatestLogins(ip)
                                     /\ Brief(ip)' = Brief(ip)
           /\ WindowsComplete'
<1>0. /\ a \in IPs /\ events' = events /\ events[n] \in Event /\ n \in 1..taken
      /\ Of(a)' = Of(a) \cup {n}
      /\ Logins(a)' = IF events[n].kind = "login" THEN Logins(a) \cup {n} ELSE Logins(a)
      /\ Connects(a)' = IF events[n].kind = "connect" THEN Connects(a) \cup {n} ELSE Connects(a)
      /\ \A ip \in IPs \ {a} : /\ Of(ip)' = Of(ip)
                                /\ Logins(ip)' = Logins(ip)
                                /\ Connects(ip)' = Connects(ip)
    BY DetectSets
<1>1. LatestLogins(a)' \subseteq AuthHitsAfter(n)
  <2>1. CASE events[n].kind = "login"
    <3> SUFFICES ASSUME NEW m \in Logins(a) \cup {n},
                        \A k \in Logins(a) \cup {n} : events[k].at < events[m].at + BruteForceWindow
                 PROVE  m \in AuthHitsAfter(n)
        BY <1>0, <2>1 DEF LatestLogins
    <3>1. m \in authHits[a] \cup {n}
        BY <1>0 DEF WindowsComplete, LatestLogins
    <3>2. events[m].at + BruteForceWindow > events[n].at
      <4>1. events[n].at < events[m].at + BruteForceWindow
        OBVIOUS
      <4> QED
        BY <4>1
    <3> QED
        BY <2>1, <3>1, <3>2 DEF AuthHitsAfter, PruneWindow
  <2>2. CASE events[n].kind # "login"
    <3>1. LatestLogins(a)' = LatestLogins(a)
        BY <1>0, <2>2 DEF LatestLogins
    <3> QED
        BY <1>0, <2>2, <3>1 DEF WindowsComplete, AuthHitsAfter
  <2> QED
    BY <2>1, <2>2
<1>2. ASSUME Brief(a)', NEW m \in Connects(a)'
      PROVE  events[m].svc \in Active(ServicesAfter(n))
  <2>1. /\ m \in Of(a)' /\ events[m] \in Event /\ events[m].svc \in Services
        /\ \A k \in Of(a)' : events[n].at <= events[k].at + ScanWindow
    <3>1. m \in Of(a) \cup {n} /\ Of(a) \subseteq Done
        BY <1>0 DEF Of, Connects
    <3>2. m \in 1..taken /\ taken \in 0..Len(events) /\ Len(events) \in Nat
      <4>1. m \in 1..taken
        BY <1>0, <3>1, DoneTaken
      <4> QED
        BY <4>1 DEF TypeOK
    <3>3. events[m] \in Event
        BY <3>2 DEF TypeOK
    <3>4. \A k \in Of(a)' : events[n].at <= events[k].at + ScanWindow
        BY <1>0, <1>2 DEF Brief
    <3>5. events[m].svc \in Services
        BY <3>3 DEF Event
    <3> QED
        BY <1>0, <3>1, <3>3, <3>4, <3>5
  <2>2. CASE events[n].kind = "connect" /\ events[n].svc = events[m].svc
    <3>1. events[n].at \in Nat \ {0}
        BY <1>0 DEF Event
    <3>2. ServicesAfter(n)[events[m].svc] = events[n].at
        BY <2>1, <2>2, <3>1, DetectorAssumption DEF ServicesAfter
    <3> QED
        BY <2>1, <3>1, <3>2 DEF Active
  <2>3. CASE ~(events[n].kind = "connect" /\ events[n].svc = events[m].svc)
    <3>1. m \in Connects(a)
        BY <1>0, <2>3
    <3>2. Brief(a)
        BY <1>0, <1>2 DEF Brief
    <3>3. events[m].svc \in Active(services[a])
        BY <1>0, <3>1, <3>2 DEF WindowsComplete
    <3>4. PICK k \in Connects(a) : events[k].svc = events[m].svc
                                   /\ events[k].at = services[a][events[m].svc]
        BY <1>0, <3>3 DEF WindowsSound
    <3>5. events[n].at <= services[a][events[m].svc] + ScanWindow
        BY <1>0, <2>1, <3>4 DEF Connects
    <3>6. services[a][events[m].svc] + ScanWindow >= events[n].at
        BY <3>5
    <3>7. ServicesAfter(n)[events[m].svc] = services[a][events[m].svc]
        BY <2>1, <2>3, <3>6 DEF ServicesAfter
    <3> QED
        BY <2>1, <3>3, <3>7 DEF Active
  <2> QED
    BY <2>2, <2>3
<1>3. \A ip \in IPs \ {a} : /\ LatestLogins(ip)' = LatestLogins(ip)
                            /\ Brief(ip)' = Brief(ip)
    BY <1>0 DEF LatestLogins, Brief
<1>4. WindowsComplete'
  <2>1. /\ authHits'[a] = AuthHitsAfter(n) /\ services'[a] = ServicesAfter(n)
        /\ \A ip \in IPs \ {a} : authHits'[ip] = authHits[ip] /\ services'[ip] = services[ip]
    BY DetectEffect
  <2>2. \A ip \in IPs : Active(services[ip])' = Active(services'[ip])
    BY DEF Active
  <2>3. \A ip \in IPs \ {a} :
            /\ LatestLogins(ip)' \subseteq authHits'[ip]
            /\ Brief(ip)' => {events[m].svc : m \in Connects(ip)'} \subseteq Active(services'[ip])
    BY <1>0, <1>3, <2>1 DEF WindowsComplete
  <2>4. /\ LatestLogins(a)' \subseteq authHits'[a]
        /\ Brief(a)' => {events[m].svc : m \in Connects(a)'} \subseteq Active(services'[a])
    BY <1>1, <1>2, <2>1
  <2> QED
    BY <1>0, <2>2, <2>3, <2>4 DEF WindowsComplete
<1> QED
    BY <1>1, <1>2, <1>3, <1>4

(* The verdict on n is right, and the verdicts before it stay right. *)
LEMMA DetectAlarmSound ==
    ASSUME TypeOK, HandFresh, WindowsSound, AlarmSound, NEW w \in Workers, Detect(w),
           NEW n, n = hand[w], NEW a, a = events[n].ip
    PROVE  AlarmSound'
<1> DEFINE Near(ip, k) == {m \in Logins(ip) : events[m].at + BruteForceWindow > events[k].at}
           Touched(ip, k) == {s \in Services : \E m \in Connects(ip) :
                                 events[m].svc = s /\ events[m].at + ScanWindow >= events[k].at}
<1>0. /\ a \in IPs /\ events' = events /\ events[n] \in Event /\ n \notin Done
      /\ Done' = Done \cup {n}
      /\ Of(a)' = Of(a) \cup {n}
      /\ Logins(a) \subseteq Logins(a)' /\ Connects(a) \subseteq Connects(a)'
      /\ \A ip \in IPs \ {a} : /\ Of(ip)' = Of(ip)
                                /\ Logins(ip)' = Logins(ip)
                                /\ Connects(ip)' = Connects(ip)
    BY DetectSets
<1>1. /\ found'[n] = DetectSingleEvent(events[n]) \cup DetectMultiEvent(n)
      /\ \A m \in Done : found'[m] = found[m]
    BY DetectEffect
<1>2. \A ip \in IPs : Of(ip) \subseteq Done /\ Logins(ip) \subseteq Done
                      /\ Logins(ip)' \subseteq Done'
    BY DEF Of, Logins
<1>3. IsFiniteSet(Done') /\ IsFiniteSet(Services)
    BY <1>0, DoneTaken, FS_AddElement, DetectorAssumption
<1>4. \A ip \in IPs : \A k \in Done' :
          /\ IsFiniteSet(Near(ip, k)') /\ IsFiniteSet(Touched(ip, k)')
          /\ Near(ip, k) \subseteq Near(ip, k)' /\ Touched(ip, k) \subseteq Touched(ip, k)'
  <2> TAKE ip \in IPs
  <2> TAKE k \in Done'
  <2>1. Near(ip, k)' \subseteq Done' /\ Touched(ip, k)' \subseteq Services
    BY <1>2
  <2>2. IsFiniteSet(Near(ip, k)') /\ IsFiniteSet(Touched(ip, k)')
    BY <1>3, <2>1, FS_Subset
  <2>3. Logins(ip) \subseteq Logins(ip)' /\ Connects(ip) \subseteq Connects(ip)'
    BY <1>0
  <2>4. Near(ip, k) \subseteq Near(ip, k)' /\ Touched(ip, k) \subseteq Touched(ip, k)'
    BY <1>0, <2>3
  <2> QED
    BY <2>2, <2>4
<1>5. ASSUME NEW ip \in IPs, NEW k \in Of(ip)
      PROVE  /\ "T1110" \in found'[k] => Cardinality(Near(ip, k)') >= BruteForceThreshold
             /\ "T1046" \in found'[k] => Cardinality(Touched(ip, k)') >= ScanThreshold
  <2>1. k \in Done /\ k \in Done' /\ found'[k] = found[k]
    BY <1>0, <1>1, <1>2
  <2>2. /\ "T1110" \in found[k] => Cardinality(Near(ip, k)) >= BruteForceThreshold
        /\ "T1046" \in found[k] => Cardinality(Touched(ip, k)) >= ScanThreshold
    BY DEF AlarmSound
  <2>3. /\ Cardinality(Near(ip, k)) <= Cardinality(Near(ip, k)')
        /\ Cardinality(Near(ip, k)) \in Nat /\ Cardinality(Near(ip, k)') \in Nat
    BY <1>4, <2>1, Counting
  <2>4. /\ Cardinality(Touched(ip, k)) <= Cardinality(Touched(ip, k)')
        /\ Cardinality(Touched(ip, k)) \in Nat /\ Cardinality(Touched(ip, k)') \in Nat
    BY <1>4, <2>1, Counting
  <2> HIDE DEF Near, Touched
  <2> QED
    BY <2>1, <2>2, <2>3, <2>4, DetectorAssumption
<1>6. /\ "T1110" \in found'[n] => Cardinality(Near(a, n)') >= BruteForceThreshold
      /\ "T1046" \in found'[n] => Cardinality(Touched(a, n)') >= ScanThreshold
  <2>1. /\ "T1110" \in found'[n] => /\ events[n].kind = "login"
                                    /\ Cardinality(AuthHitsAfter(n)) >= BruteForceThreshold
        /\ "T1046" \in found'[n] => Cardinality(Active(ServicesAfter(n))) >= ScanThreshold
    BY <1>0, <1>1, SingleEventRules DEF DetectMultiEvent
  <2>2. events[n].kind = "login" => AuthHitsAfter(n) \subseteq Near(a, n)'
    BY <1>0, DetectWindowsSound
  <2>3. Active(ServicesAfter(n)) \subseteq Touched(a, n)'
    <3> SUFFICES ASSUME NEW s \in Active(ServicesAfter(n))
                 PROVE  s \in Services /\ \E m \in Connects(a)' :
                            events[m].svc = s /\ events[m].at + ScanWindow >= events[n].at
        BY <1>0
    <3>1. s \in Services
        BY DEF Active
    <3>2. PICK m \in Connects(a)' : events[m].svc = s /\ events[m].at = ServicesAfter(n)[s]
        BY DetectWindowsSound
    <3>3. ServicesAfter(n)[s] + ScanWindow >= events[n].at
        BY DetectWindowsSound
    <3> QED
        BY <3>1, <3>2, <3>3
  <2>4. n \in Done'
    BY <1>0
  <2> HIDE DEF Near, Touched
  <2> IsFiniteSet(Near(a, n)') /\ IsFiniteSet(Touched(a, n)')
    BY <1>0, <1>4, <2>4
  <2>5. events[n].kind = "login" =>
            /\ Cardinality(AuthHitsAfter(n)) <= Cardinality(Near(a, n)')
            /\ Cardinality(AuthHitsAfter(n)) \in Nat /\ Cardinality(Near(a, n)') \in Nat
    BY <2>2, Counting
  <2>6. /\ Cardinality(Active(ServicesAfter(n))) <= Cardinality(Touched(a, n)')
        /\ Cardinality(Active(ServicesAfter(n))) \in Nat /\ Cardinality(Touched(a, n)') \in Nat
    BY <2>3, Counting
  <2> QED
    BY <2>1, <2>5, <2>6, DetectorAssumption
<1>7. \A ip \in IPs : \A k \in Of(ip)' :
          /\ "T1110" \in found'[k] => Cardinality(Near(ip, k)') >= BruteForceThreshold
          /\ "T1046" \in found'[k] => Cardinality(Touched(ip, k)') >= ScanThreshold
  <2> HIDE DEF Near, Touched
  <2> TAKE ip \in IPs
  <2> TAKE k \in Of(ip)'
  <2>1. CASE k \in Of(ip)
    BY <1>5, <2>1
  <2>2. CASE k \notin Of(ip)
    <3>1. ip = a /\ k = n
        BY <1>0, <2>2
    <3> QED
        BY <1>6, <3>1
  <2> QED
    BY <2>1, <2>2
<1> QED
    BY <1>7 DEF AlarmSound

(* Since they hold that much, the verdict on n does not miss it.            *)
LEMMA DetectCaught ==
    ASSUME DetInv, NEW w \in Workers, Detect(w),
           NEW n, n = hand[w], NEW a, a = events[n].ip
    PROVE  BurstCaught' /\ ScanCaught'
<1> TypeOK /\ HandFresh /\ WindowsSound /\ WindowsComplete
    BY DEF DetInv
<1>0. /\ a \in IPs /\ events' = events /\ n \notin Done /\ Done' = Done \cup {n}
      /\ Of(a)' = Of(a) \cup {n}
      /\ Logins(a)' = IF events[n].kind = "login" THEN Logins(a) \cup {n} ELSE Logins(a)
      /\ Connects(a)' = IF events[n].kind = "connect" THEN Connects(a) \cup {n} ELSE Connects(a)
      /\ \A ip \in IPs \ {a} : /\ Of(ip)' = Of(ip)
                                /\ Logins(ip)' = Logins(ip)
                                /\ Connects(ip)' = Connects(ip)
    BY DetectSets
<1>1. /\ found'[n] = DetectSingleEvent(events[n]) \cup DetectMultiEvent(n)
      /\ \A m \in Done : found'[m] = found[m]
    BY DetectEffect
<1>2. \A ip \in IPs : Of(ip) \subseteq Done /\ Logins(ip) \subseteq Done
                      /\ Logins(ip)' \subseteq Done'
    BY DEF Of, Logins
<1>3. IsFiniteSet(AuthHitsAfter(n)) /\ IsFiniteSet(Active(ServicesAfter(n)))
  <2>1. IsFiniteSet(Done') /\ IsFiniteSet(Services)
    BY <1>0, DoneTaken, FS_AddElement, DetectorAssumption
  <2>2. AuthHitsAfter(n) \subseteq Done' /\ Active(ServicesAfter(n)) \subseteq Services
    BY <1>0, <1>2, DetectWindowsSound DEF Active
  <2> QED
    BY <2>1, <2>2, FS_Subset
<1>4. /\ LatestLogins(a)' \subseteq AuthHitsAfter(n)
      /\ Brief(a)' => {events[m].svc : m \in Connects(a)'} \subseteq Active(ServicesAfter(n))
      /\ \A ip \in IPs \ {a} : LatestLogins(ip)' = LatestLogins(ip) /\ Brief(ip)' = Brief(ip)
    BY DetectWindowsComplete
<1>5. BurstCaught'
  <2> SUFFICES ASSUME NEW ip \in IPs, Cardinality(LatestLogins(ip)') >= BruteForceThreshold
               PROVE  \E k \in Logins(ip)' : "T1110" \in found'[k]
    BY DEF BurstCaught
  <2>1. CASE ip = a /\ events[n].kind = "login"
    <3>1. Cardinality(AuthHitsAfter(n)) >= BruteForceThreshold
      <4>1. /\ Cardinality(LatestLogins(a)') <= Cardinality(AuthHitsAfter(n))
            /\ Cardinality(LatestLogins(a)') \in Nat /\ Cardinality(AuthHitsAfter(n)) \in Nat
        BY <1>3, <1>4, Counting
      <4> QED
        BY <2>1, <4>1, DetectorAssumption
    <3>2. "T1110" \in DetectMultiEvent(n)
        BY <2>1, <3>1 DEF DetectMultiEvent
    <3> QED
        BY <1>0, <1>1, <2>1, <3>2
  <2>2. CASE ~(ip = a /\ events[n].kind = "login")
    <3>1. Logins(ip)' = Logins(ip) /\ LatestLogins(ip)' = LatestLogins(ip)
      <4>1. Logins(ip)' = Logins(ip)
        BY <1>0, <2>2
      <4> QED
        BY <1>0, <4>1 DEF LatestLogins
    <3>2. PICK k \in Logins(ip) : "T1110" \in found[k]
        BY <3>1 DEF DetInv, BurstCaught
    <3> QED
        BY <1>1, <1>2, <3>1, <3>2
  <2> QED
    BY <2>1, <2>2
<1>6. ScanCaught'
  <2> SUFFICES ASSUME NEW ip \in IPs, Brief(ip)',
                      Cardinality({events[m].svc : m \in Connects(ip)'}) >= ScanThreshold
               PROVE  \E k \in Of(ip)' : "T1046" \in found'[k]
    BY <1>0 DEF ScanCaught
  <2>1. CASE ip = a
    <3> DEFINE Svcs == {events[m].svc : m \in Connects(ip)'}
    <3>1. Cardinality(Active(ServicesAfter(n))) >= ScanThreshold
      <4>0. Svcs \subseteq Active(ServicesAfter(n))
        BY <1>4, <2>1
      <4>1. /\ Cardinality(Svcs) <= Cardinality(Active(ServicesAfter(n)))
            /\ Cardinality(Svcs) \in Nat /\ Cardinality(Active(ServicesAfter(n))) \in Nat
        BY <1>3, <4>0, Counting
      <4>2. Cardinality(Svcs) >= ScanThreshold
        OBVIOUS
      <4> HIDE DEF Svcs
      <4> QED
        BY <4>1, <4>2, DetectorAssumption
    <3>2. "T1046" \in DetectMultiEvent(n)
        BY <3>1 DEF DetectMultiEvent
    <3> QED
        BY <1>0, <1>1, <2>1, <3>2
  <2>2. CASE ip # a
    <3>1. Of(ip)' = Of(ip) /\ Connects(ip)' = Connects(ip) /\ Brief(ip)
        BY <1>0, <1>4, <2>2
    <3>2. PICK k \in Of(ip) : "T1046" \in found[k]
        BY <3>1 DEF DetInv, ScanCaught
    <3> QED
        BY <1>1, <1>2, <3>1, <3>2
  <2> QED
    BY <2>1, <2>2
<1> QED
    BY <1>5, <1>6
-----------------------------------------------------------------------------
(* DetInv holds before the first event.                                     *)
LEMMA InitDetInv == Init => DetInv
<1> SUFFICES ASSUME Init PROVE DetInv
    OBVIOUS
<1>1. /\ Done = {} /\ \A ip \in IPs : Of(ip) = {} /\ Logins(ip) = {} /\ Connects(ip) = {}
      /\ \A ip \in IPs : Active(services[ip]) = {} /\ LatestLogins(ip) = {}
    BY DEF Init, Done, Of, Logins, Connects, Active, LatestLogins
<1>2. TypeOK
  <2>1. Len(events) = 0 /\ events \in Seq(Event) /\ done \in Seq(1..taken)
    BY DEF Init
  <2> QED
    <3>1. EntriesKept
        BY <1>1 DEF Init, EntriesKept
    <3>2. /\ authHits \in [IPs -> SUBSET (1..taken)] /\ services \in [IPs -> [Services -> Nat]]
          /\ found \in [1..MaxEvents -> SUBSET Techniques] /\ hand \in [Workers -> 0..taken]
        BY DEF Init
    <3> QED
        BY <2>1, <3>1, <3>2, DetectorAssumption DEF Init, TypeOK
<1>3. HandFresh /\ WindowsSound /\ AlarmSound
    BY <1>1 DEF Init, HandFresh, WindowsSound, AlarmSound
<1>4. WindowsComplete
    BY <1>1 DEF Init, WindowsComplete
<1>5. Cardinality({}) = 0
    BY FS_EmptySet
<1>6. BurstCaught
    BY <1>1, <1>5, DetectorAssumption DEF BurstCaught
<1>7. ScanCaught
  <2>1. \A ip \in IPs : {events[n].svc : n \in Connects(ip)} = {}
    BY <1>1
  <2> QED
    BY <1>5, <2>1, DetectorAssumption DEF ScanCaught
<1> QED
    BY <1>2, <1>3, <1>4, <1>6, <1>7 DEF DetInv

(* Detect keeps the types, and the events in the hands of other workers new. *)
LEMMA DetectTypeOK ==
    ASSUME TypeOK, HandFresh, NEW w \in Workers, Detect(w)
    PROVE  TypeOK' /\ HandFresh'
<1>0. PICK n, a : n = hand[w] /\ a = events[n].ip
    OBVIOUS
<1>1. /\ n \in 1..taken /\ n \in 1..MaxEvents /\ n \notin Done
      /\ events[n] \in Event /\ a \in IPs
      /\ events' = events /\ Done' = Done \cup {n}
    BY <1>0, DetectSets
<1>2. /\ authHits' = [authHits EXCEPT ![a] = AuthHitsAfter(n)]
      /\ services' = [services EXCEPT ![a] = ServicesAfter(n)]
    BY <1>0, DetectEffect
<1>3. AuthHitsAfter(n) \in SUBSET (1..taken)
    BY <1>0, <1>1 DEF TypeOK, AuthHitsAfter, PruneWindow
<1>4. ServicesAfter(n) \in [Services -> Nat]
  <2>1. services[a] \in [Services -> Nat]
    BY <1>1 DEF TypeOK
  <2>2. events[n].at \in Nat
    BY <1>1 DEF Event
  <2> QED
    BY <1>0, <2>1, <2>2 DEF ServicesAfter
<1>5. /\ authHits' \in [IPs -> SUBSET (1..taken)]
      /\ services' \in [IPs -> [Services -> Nat]]
    BY <1>1, <1>2, <1>3, <1>4 DEF TypeOK
<1>6. found' \in [1..MaxEvents -> SUBSET Techniques]
  <2>1. DetectSingleEvent(events[n]) \cup DetectMultiEvent(n) \in SUBSET Techniques
    BY <1>1, SingleEventRules DEF DetectMultiEvent, Techniques
  <2>2. found' = [found EXCEPT ![n] = DetectSingleEvent(events[n]) \cup DetectMultiEvent(n)]
    BY <1>0 DEF Detect
  <2> QED
    BY <2>1, <2>2 DEF TypeOK
<1>7. known' = {ip \in IPs : authHits'[ip] # {} \/ Active(services'[ip]) # {}}
  <2>1. known' = IF AuthHitsAfter(n) = {} /\ Active(ServicesAfter(n)) = {}
                 THEN known \ {a} ELSE known \cup {a}
    BY <1>0 DEF Detect
  <2>2. known = {ip \in IPs : authHits[ip] # {} \/ Active(services[ip]) # {}}
    BY DEF TypeOK, EntriesKept
  <2>3. /\ authHits'[a] = AuthHitsAfter(n) /\ services'[a] = ServicesAfter(n)
        /\ \A ip \in IPs \ {a} : authHits'[ip] = authHits[ip] /\ services'[ip] = services[ip]
    BY <1>0, DetectEffect
  <2> QED
    BY <1>1, <2>1, <2>2, <2>3
<1>8. EntriesKept'
    BY <1>7 DEF EntriesKept, Active
<1>9. hand' \in [Workers -> 0..taken] /\ done' \in Seq(1..taken) /\ taken' = taken /\ now' = now
  <2>1. hand' \in [Workers -> 0..taken] /\ taken' = taken /\ now' = now
    BY DEF TypeOK, Detect
  <2>2. done' = Append(done, n)
    BY <1>0 DEF Detect
  <2>3. done' \in Seq(1..taken)
    BY <1>1, <2>2 DEF TypeOK
  <2> QED
    BY <2>1, <2>3
<1>10. TypeOK'
    BY <1>1, <1>5, <1>6, <1>8, <1>9 DEF TypeOK
<1>11. HandFresh'
  <2>1. hand' = [hand EXCEPT ![w] = 0] /\ hand \in [Workers -> 0..taken]
    BY DEF Detect, TypeOK
  <2>2. \A v \in Workers : hand'[v] # 0 => v # w /\ hand'[v] = hand[v] /\ hand[v] # n
    BY <1>0, <1>1, <2>1 DEF HandFresh
  <2> QED
    BY <1>1, <2>2 DEF HandFresh
<1> QED
    BY <1>10, <1>11

(* Every step keeps DetInv.                                                 *)
LEMMA NextDetInv == DetInv /\ [Next]_detVars => DetInv'
<1> SUFFICES ASSUME DetInv, [Next]_detVars PROVE DetInv'
    OBVIOUS
<1> TypeOK /\ HandFresh
    BY DEF DetInv
<1>1. CASE Tick
  <2>1. PastUnchanged
    BY <1>1 DEF Tick, PastUnchanged
  <2>2. TypeOK'
    <3>1. EntriesKept'
        BY <1>1 DEF Tick, TypeOK, EntriesKept, Active
    <3> QED
        BY <1>1, <3>1 DEF Tick, TypeOK
  <2>3. HandFresh'
    BY <1>1 DEF Tick, HandFresh, Done
  <2> QED
    BY <2>1, <2>2, <2>3, PastKeeps DEF DetInv
<1>2. ASSUME NEW ip \in IPs, NEW svc \in Services, NEW kind \in Kinds,
             NEW cmd \in Commands \cup {{}}, NEW at \in 1..now, Publish(ip, svc, kind, cmd, at)
      PROVE  DetInv'
  <2> DEFINE e == [ip |-> ip, svc |-> svc, kind |-> kind, cmd |-> cmd, at |-> at]
  <2>1. e \in Event
    <3>1. kind \in EventTypes
        BY <1>2, DetectorAssumption DEF Publish, EventTypes, Published
    <3>2. cmd \in SUBSET CommandFacts
        BY DetectorAssumption
    <3>3. at \in Nat \ {0}
        BY DEF TypeOK
    <3> QED
        BY <3>1, <3>2, <3>3 DEF Event
  <2>2. events' = Append(events, e) /\ UNCHANGED <<now, taken, hand, known, authHits, services, found, done>>
        /\ Len(events) < MaxEvents
    BY <1>2 DEF Publish
  <2> HIDE DEF e
  <2>3. /\ events' \in Seq(Event) /\ Len(events') = Len(events) + 1 /\ Len(events) \in Nat
        /\ \A n \in 1..Len(events) : events'[n] = events[n]
    BY <2>1, <2>2 DEF TypeOK
  <2>4. taken \in 0..Len(events) /\ taken \in Nat
    BY DEF TypeOK
  <2>5. PastUnchanged
    BY <2>2, <2>3, <2>4 DEF PastUnchanged
  <2>6. TypeOK'
    <3>1. EntriesKept'
        BY <2>2 DEF TypeOK, EntriesKept, Active
    <3> QED
        BY <2>2, <2>3, <2>4, <3>1, DetectorAssumption DEF TypeOK
  <2>7. HandFresh'
    BY <2>2 DEF HandFresh, Done
  <2> QED
    BY <2>5, <2>6, <2>7, PastKeeps DEF DetInv
<1>3. ASSUME NEW w \in Workers, Take(w)
      PROVE  DetInv'
  <2>1. PastUnchanged
    BY <1>3 DEF Take, PastUnchanged
  <2>2. /\ taken' = taken + 1 /\ taken < Len(events) /\ hand' = [hand EXCEPT ![w] = taken + 1]
        /\ UNCHANGED <<now, events, known, authHits, services, found, done>>
    BY <1>3 DEF Take
  <2>3. taken \in Nat /\ Len(events) \in Nat /\ taken' \in 0..Len(events)
    BY <2>2 DEF TypeOK
  <2>4. TypeOK'
    <3>1. 1..taken \subseteq 1..taken' /\ 0..taken \subseteq 0..taken'
        BY <2>2, <2>3
    <3>2. hand' \in [Workers -> 0..taken']
        BY <2>2, <2>3, <3>1 DEF TypeOK
    <3>3. authHits' \in [IPs -> SUBSET (1..taken')]
        BY <2>2, <3>1 DEF TypeOK
    <3>4. done' \in Seq(1..taken')
        BY <2>2, <3>1 DEF TypeOK
    <3>5. EntriesKept'
        BY <2>2 DEF TypeOK, EntriesKept, Active
    <3> QED
        BY <2>2, <2>3, <3>2, <3>3, <3>4, <3>5 DEF TypeOK
  <2>5. HandFresh'
    <3>1. Done' = Done /\ Done \subseteq 1..taken
        BY <2>2, DoneTaken DEF Done
    <3>2. hand \in [Workers -> 0..taken]
        BY DEF TypeOK
    <3> QED
        BY <2>2, <2>3, <3>1, <3>2 DEF HandFresh
  <2> QED
    BY <2>1, <2>4, <2>5, PastKeeps DEF DetInv
<1>4. ASSUME NEW w \in Workers, Detect(w)
      PROVE  DetInv'
  <2>1. PICK n, a : n = hand[w] /\ a = events[n].ip
    OBVIOUS
  <2>2. TypeOK' /\ HandFresh'
    BY <1>4, DetectTypeOK
  <2>3. WindowsSound' /\ WindowsComplete'
    BY <1>4, <2>1, DetectWindowsSound, DetectWindowsComplete DEF DetInv
  <2>4. AlarmSound' /\ BurstCaught' /\ ScanCaught'
    BY <1>4, <2>1, DetectAlarmSound, DetectCaught DEF DetInv
  <2> QED
    BY <2>2, <2>3, <2>4 DEF DetInv
<1>5. CASE UNCHANGED detVars
  <2>1. PastUnchanged
    BY <1>5 DEF detVars, PastUnchanged
  <2>2. TypeOK'
    <3>1. EntriesKept'
        <4>1. EntriesKept /\ known' = known /\ authHits' = authHits /\ services' = services
            BY <1>5 DEF detVars, TypeOK
        <4> QED
            BY <4>1 DEF EntriesKept
    <3> QED
        BY <1>5, <3>1 DEF detVars, TypeOK
  <2>3. HandFresh'
    BY <1>5 DEF detVars, HandFresh, Done
  <2> QED
    BY <2>1, <2>2, <2>3, PastKeeps DEF DetInv
<1> QED
    BY <1>1, <1>2, <1>3, <1>4, <1>5 DEF Next

(* DetInv is an invariant of the detector. *)
THEOREM DetectorInvariant == Spec => []DetInv
<1> QED
    BY InitDetInv, NextDetInv, PTL DEF Spec

(* Types, and an address has an entry in Detector.state exactly while one   *)
(* of its windows holds something.                                          *)
THEOREM DetectorTypeCorrect == Spec => []TypeOK
<1>1. DetInv => TypeOK
    BY DEF DetInv
<1> QED
    BY <1>1, DetectorInvariant, PTL

(* detectMultiEvent raises no false alarm, in whatever order the workers    *)
(* call it.                                                                 *)
THEOREM DetectorRaisesNoFalseAlarm == Spec => []AlarmSound
<1>1. DetInv => AlarmSound
    BY DEF DetInv
<1> QED
    BY <1>1, DetectorInvariant, PTL

(* detectMultiEvent misses no burst of logins for the order of the workers. *)
THEOREM DetectorCatchesBursts == Spec => []BurstCaught
<1>1. DetInv => BurstCaught
    BY DEF DetInv
<1> QED
    BY <1>1, DetectorInvariant, PTL

(* Nor a scan that is over within the window. *)
THEOREM DetectorCatchesScans == Spec => []ScanCaught
<1>1. DetInv => ScanCaught
    BY DEF DetInv
<1> QED
    BY <1>1, DetectorInvariant, PTL
-----------------------------------------------------------------------------
(* The invariant behind ExactInOrder. *)
ExactInv == DetInv /\ ServicesKept /\ ExactInOrder

(* The past of the i-th event detected, of its address, and what counting   *)
(* over a past P of the events ev says of event e.                          *)
PastOf(i) == {done[j] : j \in 1..i} \cap Of(events[done[i]].ip)

LoginsNear(ev, P, e) == {m \in P : ev[m].kind = "login" /\ e.at - ev[m].at < BruteForceWindow}
ServicesNear(ev, P, e) ==
    {ev[m].svc : m \in {k \in P : ev[k].kind = "connect" /\ e.at - ev[k].at <= ScanWindow}}

Verdict(ev, P, e) ==
    {t \in {"T1110"} : /\ e.kind = "login"
                       /\ Cardinality(LoginsNear(ev, P, e)) >= BruteForceThreshold}
    \cup {t \in {"T1046"} : Cardinality(ServicesNear(ev, P, e)) >= ScanThreshold}

LEMMA VerdictIs ==
    ASSUME NEW i
    PROVE  /\ WindowVerdict(i) = Verdict(events, PastOf(i), events[done[i]])
           /\ WindowVerdict(i)' = Verdict(events', PastOf(i)', events'[done'[i]])
BY DEF WindowVerdict, Verdict, PastOf, LoginsNear, ServicesNear

(* A verdict depends on the events of its past alone. *)
LEMMA VerdictOfPast ==
    ASSUME NEW ev, NEW ev2, NEW P, NEW e, \A m \in P : ev2[m] = ev[m]
    PROVE  Verdict(ev2, P, e) = Verdict(ev, P, e)
<1>1. LoginsNear(ev2, P, e) = LoginsNear(ev, P, e)
    BY DEF LoginsNear
<1>2. ServicesNear(ev2, P, e) = ServicesNear(ev, P, e)
    BY DEF ServicesNear
<1> QED
    BY <1>1, <1>2 DEF Verdict

(* A step that detects nothing keeps it. *)
LEMMA PastKeepsExact ==
    ASSUME ExactInv, PastUnchanged
    PROVE  ServicesKept' /\ ExactInOrder'
<1> TypeOK
    BY DEF ExactInv, DetInv
<1>0. /\ Done' = Done
      /\ \A n \in Done : events'[n] = events[n]
      /\ \A ip \in IPs : Of(ip)' = Of(ip) /\ Connects(ip)' = Connects(ip)
      /\ services' = services /\ found' = found /\ done' = done
    BY PastSets DEF PastUnchanged
<1>1. \A i \in DOMAIN done : done[i] \in Done /\ events'[done[i]] = events[done[i]]
    BY <1>0 DEF Done
<1>2. \A ip \in IPs : InOrder(ip)' => InOrder(ip)
    BY <1>0, <1>1 DEF InOrder
<1>3. \A ip \in IPs : /\ \A n \in Of(ip) : n \in Done /\ events'[n] = events[n]
                      /\ Connects(ip) \subseteq Of(ip)
    BY <1>0 DEF Of, Connects
<1>4. ServicesKept'
    BY <1>0, <1>2, <1>3 DEF ExactInv, ServicesKept
<1>5. ASSUME NEW i \in DOMAIN done
      PROVE  WindowVerdict(i)' = WindowVerdict(i)
  <2>0. done[i] \in Done /\ events'[done[i]] = events[done[i]] /\ done[i] \in 1..Len(events)
    BY <1>1, DoneTaken
  <2>1. /\ done[i] \in Done /\ events'[done[i]] = events[done[i]] /\ events[done[i]].ip \in IPs
        /\ events'[done'[i]] = events[done[i]]
    <3>1. events[done[i]] \in Event
        BY <2>0 DEF TypeOK
    <3> QED
        BY <1>0, <2>0, <3>1 DEF Event
  <2>2. PastOf(i)' = PastOf(i)
    BY <1>0, <2>1 DEF PastOf
  <2>3. \A m \in PastOf(i) : events'[m] = events[m]
    BY <1>3, <2>1 DEF PastOf
  <2>4. Verdict(events', PastOf(i), events[done[i]]) = Verdict(events, PastOf(i), events[done[i]])
    BY <2>3, VerdictOfPast
  <2> QED
    BY <2>1, <2>2, <2>4, VerdictIs
<1>6. ExactInOrder'
    BY <1>0, <1>1, <1>2, <1>5 DEF ExactInv, ExactInOrder
<1> QED
    BY <1>4, <1>6

(* The order of an address seen so far is that of its events. *)
LEMMA OrderedSoFar ==
    ASSUME TypeOK, HandFresh, NEW w \in Workers, Detect(w),
           NEW n, n = hand[w], NEW a, a = events[n].ip
    PROVE  /\ DOMAIN done' = DOMAIN done \cup {Len(done) + 1}
           /\ Len(done) + 1 \notin DOMAIN done
           /\ done'[Len(done) + 1] = n /\ \A i \in DOMAIN done : done'[i] = done[i]
           /\ \A ip \in IPs : InOrder(ip)' => InOrder(ip)
           /\ InOrder(a)' => \A k \in Of(a)' : events[k].at <= events[n].at
<1>0. /\ events' = events /\ n \notin Done /\ n \in 1..taken /\ Of(a)' = Of(a) \cup {n}
      /\ events[n] \in Event
    BY DetectSets
<1>1. /\ DOMAIN done' = DOMAIN done \cup {Len(done) + 1} /\ Len(done) + 1 \notin DOMAIN done
      /\ done'[Len(done) + 1] = n /\ \A i \in DOMAIN done : done'[i] = done[i] /\ i < Len(done) + 1
  <2>1. done' = Append(done, n) /\ done \in Seq(1..taken)
    BY DEF Detect, TypeOK
  <2>2. DOMAIN done' = 1..(Len(done) + 1) /\ DOMAIN done = 1..Len(done) /\ Len(done) \in Nat
    BY <1>0, <2>1
  <2>3. done'[Len(done) + 1] = n /\ \A i \in 1..Len(done) : done'[i] = done[i]
    BY <1>0, <2>1, <2>2
  <2> QED
    BY <2>2, <2>3
<1>2. \A ip \in IPs : InOrder(ip)' => InOrder(ip)
    BY <1>0, <1>1 DEF InOrder
<1>3. ASSUME InOrder(a)', NEW k \in Of(a)'
      PROVE  events[k].at <= events[n].at
  <2>1. CASE k = n
    <3>1. events[n].at \in Nat
        BY <1>0 DEF Event
    <3> QED
        BY <2>1, <3>1
  <2>2. CASE k # n
    <3>1. k \in Done /\ events[k].ip = a
        BY <1>0, <2>2 DEF Of
    <3>2. PICK i \in DOMAIN done : done[i] = k
        BY <3>1 DEF Done
    <3> QED
        BY <1>0, <1>1, <1>3, <3>1, <3>2 DEF InOrder
  <2> QED
    BY <2>1, <2>2
<1> QED
    BY <1>1, <1>2, <1>3

(* Detect keeps the services of an address that is seen in order.           *)
LEMMA DetectServicesKept ==
    ASSUME ExactInv, NEW w \in Workers, Detect(w),
           NEW n, n = hand[w], NEW a, a = events[n].ip
    PROVE  ServicesKept'
<1> TypeOK /\ HandFresh
    BY DEF ExactInv, DetInv
<1>0. /\ a \in IPs /\ events' = events /\ events[n] \in Event /\ n \notin Done
      /\ Of(a)' = Of(a) \cup {n}
      /\ Connects(a)' = IF events[n].kind = "connect" THEN Connects(a) \cup {n} ELSE Connects(a)
      /\ \A ip \in IPs \ {a} : Of(ip)' = Of(ip) /\ Connects(ip)' = Connects(ip)
    BY DetectSets
<1>1. /\ services'[a] = ServicesAfter(n)
      /\ \A ip \in IPs \ {a} : services'[ip] = services[ip]
    BY DetectEffect
<1>2. /\ \A ip \in IPs : InOrder(ip)' => InOrder(ip)
      /\ InOrder(a)' => \A k \in Of(a)' : events[k].at <= events[n].at
    BY OrderedSoFar
<1>3. \A ip \in IPs : \A m \in Connects(ip) : m \in Of(ip) /\ m \in Done /\ events[m] \in Event
  <2>1. \A m \in Done : events[m] \in Event
    BY DoneTaken DEF TypeOK
  <2> QED
    BY <2>1 DEF Connects, Of
<1>4. ASSUME InOrder(a)', NEW m \in Connects(a)',
             \A k \in Of(a)' : events[k].at <= events[m].at + ScanWindow
      PROVE  ServicesAfter(n)[events[m].svc] >= events[m].at
  <2> DEFINE s == events[m].svc
  <2>0. events[m] \in Event /\ events[n] \in Event /\ m \in Of(a)'
    BY <1>0, <1>3
  <2>1. s \in Services /\ events[m].at \in Nat /\ events[n].at \in Nat /\ ScanWindow \in Nat
    BY <2>0, DetectorAssumption DEF Event
  <2>2. events[m].at <= events[n].at /\ events[n].at <= events[m].at + ScanWindow
    BY <1>0, <1>2, <1>4, <2>0
  <2>3. CASE events[n].kind = "connect" /\ events[n].svc = s
    <3>1. ServicesAfter(n)[s] = events[n].at
        BY <2>1, <2>3 DEF ServicesAfter
    <3> QED
        BY <2>1, <2>2, <3>1
  <2>4. CASE ~(events[n].kind = "connect" /\ events[n].svc = s)
    <3>1. m \in Connects(a)
        BY <1>0, <2>4
    <3>2. services[a][s] >= events[m].at /\ services[a][s] \in Nat
        BY <1>0, <1>2, <1>4, <2>1, <3>1 DEF ExactInv, ServicesKept, TypeOK
    <3>3. services[a][s] + ScanWindow >= events[n].at
        BY <2>1, <2>2, <3>2
    <3>4. ServicesAfter(n)[s] = services[a][s]
        BY <2>1, <2>4, <3>3 DEF ServicesAfter
    <3> QED
        BY <3>2, <3>4
  <2> QED
    BY <2>3, <2>4
<1>5. ASSUME NEW ip \in IPs, InOrder(ip)', NEW m \in Connects(ip)',
             \A k \in Of(ip)' : events[k].at <= events[m].at + ScanWindow
      PROVE  services'[ip][events[m].svc] >= events[m].at
  <2>1. CASE ip = a
    BY <1>1, <1>4, <1>5, <2>1
  <2>2. CASE ip # a
    <3>1. Of(ip)' = Of(ip) /\ Connects(ip)' = Connects(ip) /\ services'[ip] = services[ip] /\ InOrder(ip)
        BY <1>0, <1>1, <1>2, <1>5, <2>2
    <3> QED
        BY <1>5, <3>1 DEF ExactInv, ServicesKept
  <2> QED
    BY <2>1, <2>2
<1> QED
    BY <1>0, <1>5 DEF ServicesKept

(* Its windows then hold exactly what counting over the past would count.   *)
LEMMA DetectExactWindows ==
    ASSUME ExactInv, NEW w \in Workers, Detect(w),
           NEW n, n = hand[w], NEW a, a = events[n].ip, InOrder(a)'
    PROVE  /\ events[n].kind = "login" => AuthHitsAfter(n) = LoginsNear(events, Of(a)', events[n])
           /\ Active(ServicesAfter(n)) = ServicesNear(events, Of(a)', events[n])
<1> TypeOK /\ HandFresh /\ WindowsSound /\ WindowsComplete
    BY DEF ExactInv, DetInv
<1>0. /\ a \in IPs /\ events' = events /\ events[n] \in Event /\ n \in 1..taken
      /\ Of(a)' = Of(a) \cup {n}
    BY DetectSets
<1>1. \A k \in Of(a)' : events[k].at <= events[n].at
    BY OrderedSoFar
<1>2. \A k \in Of(a)' : events[k] \in Event /\ events[k].at \in Nat \ {0} /\ events[k].svc \in Services
  <2>1. \A m \in Done : events[m] \in Event
    BY DoneTaken DEF TypeOK
  <2>2. \A k \in Of(a)' : events[k] \in Event
    BY <1>0, <2>1 DEF Of
  <2> QED
    BY <2>2 DEF Event
<1>3. /\ Logins(a)' = {k \in Of(a)' : events[k].kind = "login"}
      /\ Connects(a)' = {k \in Of(a)' : events[k].kind = "connect"}
    BY <1>0 DEF Logins, Connects
<1>4. n \in Of(a)' /\ BruteForceWindow \in Nat /\ ScanWindow \in Nat
    BY <1>0, DetectorAssumption
<1>5. ASSUME events[n].kind = "login"
      PROVE  AuthHitsAfter(n) = LoginsNear(events, Of(a)', events[n])
  <2>1. ASSUME NEW m \in AuthHitsAfter(n)
        PROVE  m \in LoginsNear(events, Of(a)', events[n])
    <3>1. m \in Logins(a)' /\ events[m].at + BruteForceWindow > events[n].at
        BY <1>5, DetectWindowsSound
    <3> QED
        BY <1>2, <1>3, <1>4, <3>1 DEF LoginsNear
  <2>2. ASSUME NEW m \in LoginsNear(events, Of(a)', events[n])
        PROVE  m \in AuthHitsAfter(n)
    <3>1. m \in Logins(a)' /\ m \in Of(a)' /\ events[n].at - events[m].at < BruteForceWindow
        BY <1>3 DEF LoginsNear
    <3>2. \A k \in Logins(a)' : events[k].at < events[m].at + BruteForceWindow
      <4> TAKE k \in Logins(a)'
      <4>1. k \in Of(a)' /\ events[k].at <= events[n].at
        BY <1>1, <1>3
      <4>2. events[k].at \in Nat /\ events[m].at \in Nat /\ events[n].at \in Nat
        BY <1>2, <1>4, <3>1, <4>1
      <4> QED
        BY <1>4, <3>1, <4>1, <4>2
    <3>3. m \in LatestLogins(a)'
        BY <1>0, <3>1, <3>2 DEF LatestLogins
    <3> QED
        BY <3>3, DetectWindowsComplete
  <2> QED
    BY <2>1, <2>2
<1>6. ASSUME NEW s \in Active(ServicesAfter(n))
      PROVE  s \in ServicesNear(events, Of(a)', events[n])
  <2>1. PICK m \in Connects(a)' : events[m].svc = s /\ events[m].at = ServicesAfter(n)[s]
    BY DetectWindowsSound
  <2>2. events[m].at + ScanWindow >= events[n].at
    BY <2>1, DetectWindowsSound
  <2>3. m \in Of(a)' /\ events[m].kind = "connect"
    BY <1>3
  <2>4. events[n].at - events[m].at <= ScanWindow
    <3>1. events[m].at \in Nat /\ events[n].at \in Nat
        BY <1>2, <1>4, <2>3
    <3> QED
        BY <1>4, <2>2, <3>1
  <2> QED
    BY <2>1, <2>3, <2>4 DEF ServicesNear
<1>7. ASSUME NEW s \in ServicesNear(events, Of(a)', events[n])
      PROVE  s \in Active(ServicesAfter(n))
  <2>1. PICK m \in Of(a)' : /\ events[m].kind = "connect" /\ events[n].at - events[m].at <= ScanWindow
                            /\ s = events[m].svc
    BY DEF ServicesNear
  <2>2. m \in Connects(a)' /\ s \in Services /\ events[m].at \in Nat \ {0} /\ events[n].at \in Nat
    BY <1>2, <1>3, <1>4, <2>1
  <2>3. \A k \in Of(a)' : events[k].at <= events[m].at + ScanWindow
    <3> TAKE k \in Of(a)'
    <3>1. events[k].at <= events[n].at /\ events[k].at \in Nat
        BY <1>1, <1>2
    <3> QED
        BY <1>4, <2>1, <2>2, <3>1
  <2>4. services'[a][s] >= events[m].at
    BY <1>0, <2>1, <2>2, <2>3, DetectServicesKept DEF ServicesKept
  <2>5. ServicesAfter(n)[s] >= events[m].at
    BY <2>4, DetectEffect
  <2>6. ServicesAfter(n)[s] # 0
    BY <2>2, <2>5
  <2> QED
    BY <2>2, <2>6 DEF Active
<1> QED
    BY <1>5, <1>6, <1>7

(* So the verdict on n is exact, and those before stay so.                  *)
LEMMA DetectExact ==
    ASSUME ExactInv, NEW w \in Workers, Detect(w),
           NEW n, n = hand[w], NEW a, a = events[n].ip
    PROVE  ExactInOrder'
<1> TypeOK /\ HandFresh
    BY DEF ExactInv, DetInv
<1>l. PICK last : last = Len(done) + 1
    OBVIOUS
<1>0. /\ a \in IPs /\ events' = events /\ n \notin Done /\ events[n] \in Event
      /\ Done' = Done \cup {n} /\ Of(a)' = Of(a) \cup {n}
      /\ \A ip \in IPs \ {a} : Of(ip)' = Of(ip)
    BY DetectSets
<1>1. /\ DOMAIN done' = DOMAIN done \cup {last} /\ last \notin DOMAIN done
      /\ done'[last] = n /\ \A i \in DOMAIN done : done'[i] = done[i]
      /\ \A ip \in IPs : InOrder(ip)' => InOrder(ip)
    BY <1>l, OrderedSoFar
<1>2. /\ found'[n] = DetectSingleEvent(events[n]) \cup DetectMultiEvent(n)
      /\ \A m \in Done : found'[m] = found[m]
    BY DetectEffect
<1>d. DOMAIN done = 1..Len(done) /\ Len(done) \in Nat
    BY DEF TypeOK
<1>3. ASSUME NEW i \in DOMAIN done
      PROVE  WindowVerdict(i)' = WindowVerdict(i) /\ found'[done'[i]] = found[done[i]]
  <2>1. done[i] \in Done /\ done'[i] = done[i] /\ i \in 1..Len(done)
    BY <1>1, <1>d DEF Done
  <2>2. \A j \in 1..i : j \in DOMAIN done /\ done'[j] = done[j] /\ done[j] \in Done
    BY <1>1, <1>d, <2>1 DEF Done
  <2>3. events[done[i]] \in Event
    BY <2>1, DoneTaken DEF TypeOK
  <2>4. {done'[j] : j \in 1..i} = {done[j] : j \in 1..i} /\ {done[j] : j \in 1..i} \subseteq Done
    BY <2>2
  <2>5. PICK ip \in IPs : ip = events[done[i]].ip
    BY <2>3 DEF Event
  <2>6. PastOf(i)' = PastOf(i)
    <3>1. /\ PastOf(i) = {done[j] : j \in 1..i} \cap Of(ip)
          /\ PastOf(i)' = {done'[j] : j \in 1..i} \cap Of(ip)'
        BY <1>0, <2>1, <2>5 DEF PastOf
    <3>2. \A m \in Done : m \in Of(ip)' <=> m \in Of(ip)
        BY <1>0, <2>5
    <3> QED
        BY <2>4, <3>1, <3>2
  <2> QED
    BY <1>0, <1>2, <2>1, <2>6, VerdictIs
<1>4. ASSUME InOrder(a)'
      PROVE  found'[n] \cap {"T1110", "T1046"} = WindowVerdict(last)'
  <2>1. PastOf(last)' = Of(a)'
    <3>1. {done'[j] : j \in 1..last} = Done'
        BY <1>1, <1>d, <1>l DEF Done
    <3>2. Of(a)' \subseteq Done'
        BY DEF Of
    <3>3. PastOf(last)' = {done'[j] : j \in 1..last} \cap Of(a)'
        BY <1>0, <1>1 DEF PastOf
    <3> QED
        BY <3>1, <3>2, <3>3
  <2>2. WindowVerdict(last)' = Verdict(events, Of(a)', events[n])
    BY <1>0, <1>1, <2>1, VerdictIs
  <2>3. Verdict(events, Of(a)', events[n]) = DetectMultiEvent(n)
    <3>1. /\ events[n].kind = "login" => AuthHitsAfter(n) = LoginsNear(events, Of(a)', events[n])
          /\ Active(ServicesAfter(n)) = ServicesNear(events, Of(a)', events[n])
        BY <1>4, DetectExactWindows
    <3> QED
        BY <3>1 DEF Verdict, DetectMultiEvent
  <2>4. found'[n] \cap {"T1110", "T1046"} = DetectMultiEvent(n)
    <3>1. "T1110" \notin DetectSingleEvent(events[n]) /\ "T1046" \notin DetectSingleEvent(events[n])
        BY <1>0, SingleEventRules
    <3>2. DetectMultiEvent(n) \subseteq {"T1110", "T1046"}
        BY DEF DetectMultiEvent
    <3> QED
        BY <1>2, <3>1, <3>2
  <2> QED
    BY <2>2, <2>3, <2>4
<1>5. ASSUME NEW ip \in IPs, InOrder(ip)', NEW i \in DOMAIN done', events[done'[i]].ip = ip
      PROVE  found'[done'[i]] \cap {"T1110", "T1046"} = WindowVerdict(i)'
  <2>1. CASE i \in DOMAIN done
    <3>1. done'[i] = done[i] /\ InOrder(ip) /\ events[done[i]].ip = ip
        BY <1>1, <1>5, <2>1
    <3>2. found[done[i]] \cap {"T1110", "T1046"} = WindowVerdict(i)
        BY <2>1, <3>1 DEF ExactInv, ExactInOrder
    <3> QED
        BY <1>3, <2>1, <3>2
  <2>2. CASE i \notin DOMAIN done
    <3>1. i = last /\ ip = a /\ done'[i] = n
        BY <1>1, <1>5, <2>2
    <3> QED
        BY <1>4, <1>5, <3>1
  <2> QED
    BY <2>1, <2>2
<1> QED
    BY <1>0, <1>5 DEF ExactInOrder

LEMMA NextExactInv == ExactInv /\ [Next]_detVars => ExactInv'
<1> SUFFICES ASSUME ExactInv, [Next]_detVars PROVE ExactInv'
    OBVIOUS
<1>1. DetInv'
    BY NextDetInv DEF ExactInv
<1>2. CASE \E w \in Workers : Detect(w)
  <2>1. PICK w \in Workers : Detect(w)
    BY <1>2
  <2>2. PICK n, a : n = hand[w] /\ a = events[n].ip
    OBVIOUS
  <2>3. ServicesKept' /\ ExactInOrder'
    BY <2>1, <2>2, DetectServicesKept, DetectExact
  <2> QED
    BY <1>1, <2>3 DEF ExactInv
<1>3. CASE ~\E w \in Workers : Detect(w)
  <2>1. PastUnchanged
    <3> TypeOK
        BY DEF ExactInv, DetInv
    <3>1. CASE Tick
        BY <3>1 DEF Tick, PastUnchanged
    <3>2. CASE UNCHANGED detVars
        BY <3>2 DEF detVars, PastUnchanged
    <3>3. CASE \E w \in Workers : Take(w)
        BY <3>3 DEF Take, PastUnchanged
    <3>4. ASSUME NEW ip \in IPs, NEW svc \in Services, NEW kind \in Kinds,
                 NEW cmd \in Commands \cup {{}}, NEW at \in 1..now, Publish(ip, svc, kind, cmd, at)
          PROVE  PastUnchanged
      <4>1. PICK e : events' = Append(events, e) /\ UNCHANGED <<authHits, services, found, done>>
        BY <3>4 DEF Publish
      <4>2. \A k \in 1..Len(events) : events'[k] = events[k]
        BY <4>1 DEF TypeOK
      <4>3. taken \in 0..Len(events) /\ Len(events) \in Nat
        BY DEF TypeOK
      <4> QED
        BY <4>1, <4>2, <4>3 DEF PastUnchanged
    <3> QED
        BY <1>3, <3>1, <3>2, <3>3, <3>4 DEF Next
  <2> QED
    BY <1>1, <2>1, PastKeepsExact DEF ExactInv
<1> QED
    BY <1>2, <1>3

(* detectMultiEvent reports exactly what counting over the whole past would *)
(* as long as an address is detected in the order of its timestamps, for    *)
(* all thresholds and windows: at neither boundary does pruneWindow, the    *)
(* expiry of services or the deletion of entries lose or keep one too many. *)
THEOREM DetectorExactInOrder == Spec => []ExactInOrder
<1>1. Init => ExactInv
  <2> SUFFICES ASSUME Init PROVE ExactInv
    OBVIOUS
  <2>1. DOMAIN done = {}
    BY DEF Init
  <2>2. \A ip \in IPs : Connects(ip) = {}
    BY <2>1 DEF Connects, Of, Done
  <2> QED
    BY <2>1, <2>2, InitDetInv DEF ExactInv, ServicesKept, ExactInOrder
<1>2. ExactInv => ExactInOrder
    BY DEF ExactInv
<1> QED
    BY <1>1, <1>2, NextExactInv, PTL DEF Spec
=============================================================================
