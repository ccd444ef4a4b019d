------------------------------ MODULE Detector ------------------------------
(***************************************************************************)
(* internal/mitre/detector.go, called by the worker pool of                *)
(* internal/event/processor.go: per-address sliding windows over the       *)
(* timestamps of events.  Events are stamped when a service builds them,   *)
(* delivered in the order they are published, and reach Detect in the      *)
(* order the workers happen to get there; the windows are moved by the     *)
(* timestamps, not by a clock.                                             *)
(*                                                                         *)
(* An event is named by its place in events, the sequence of those the     *)
(* processor's channel was given, so a slice of timestamps is modelled by  *)
(* the set of the events they were taken from.  Time starts at 1; 0 is the *)
(* zero of a missing entry.                                                *)
(***************************************************************************)
EXTENDS Integers, Sequences, FiniteSets

CONSTANTS
    IPs,                    \* source addresses
    Services,               \* the services that are enabled
    Kinds,                  \* the event types that occur
    Commands,               \* the commands that occur: sets of CommandFacts
    Workers,                \* goroutines of the processor
    BruteForceThreshold,    \* bruteForceThreshold
    BruteForceWindow,       \* bruteForceWindow
    ScanThreshold,          \* scanThreshold
    ScanWindow,             \* scanWindow
    Skew,                   \* bound: how long from a timestamp to Publish
    MaxQueue,               \* bound: events waiting in the channel
    MaxEvents,              \* bound: events published
    MaxTime                 \* bound: the length of a behaviour

(* What detectCommand tells of a command: that it has a text, and the rules *)
(* the text matches.                                                        *)
CommandRules == {"T1082", "T1083", "T1016", "T1057", "T1105", "T1053.003", "T1496"}
CommandFacts == CommandRules \cup {"text"}

ASSUME DetectorAssumption ==
    /\ Services \subseteq {"ssh", "http", "ftp", "smb", "mysql", "redis"}
    /\ IsFiniteSet(Services)
    /\ Commands \subseteq SUBSET CommandFacts
    /\ BruteForceThreshold \in Nat \ {0}
    /\ BruteForceWindow \in Nat \ {0}
    /\ ScanThreshold \in Nat \ {0}
    /\ ScanWindow \in Nat
    /\ Skew \in Nat
    /\ MaxQueue \in Nat
    /\ MaxEvents \in Nat
    /\ MaxTime \in Nat

VARIABLES
    now,        \* time.Now()
    events,     \* the events published, in the order of the channel
    taken,      \* how many of them workers have received
    hand,       \* hand[w]: the event worker w holds and has not detected, or 0
    known,      \* the keys of Detector.state
    authHits,   \* authHits[ip]: the events behind ipState.authHits
    services,   \* services[ip][svc]: ipState.services, 0 when not there
    found,      \* found[n]: the techniques Detect returned for event n
    done        \* history: the events detected, in that order

detVars == <<now, events, taken, hand, known, authHits, services, found, done>>

(* The event types each service publishes (server.go and its handlers). *)
Published ==
    [ssh   |-> {"connect", "login", "command", "exploit", "disconnect"},
     http  |-> {"request", "scan"},
     ftp   |-> {"connect", "login", "command", "upload", "disconnect"},
     smb   |-> {"connect", "scan"},
     mysql |-> {"connect", "login", "command", "disconnect"},
     redis |-> {"connect", "command", "exploit", "disconnect"}]

EventTypes == UNION {Published[s] : s \in DOMAIN Published}

Event == [ip : IPs, svc : Services, kind : EventTypes, cmd : SUBSET CommandFacts,
          at : Nat \ {0}]

Init ==
    /\ now = 1
    /\ events = <<>>
    /\ taken = 0
    /\ hand = [w \in Workers |-> 0]
    /\ known = {}
    /\ authHits = [ip \in IPs |-> {}]
    /\ services = [ip \in IPs |-> [s \in Services |-> 0]]
    /\ found = [n \in 1..MaxEvents |-> {}]
    /\ done = <<>>

Tick ==
    /\ now < MaxTime
    /\ now' = now + 1
    /\ UNCHANGED <<events, taken, hand, known, authHits, services, found, done>>

(* A handler takes time.Now() into an event and publishes it; others may   *)
(* get between the two.                                                    *)
Publish(ip, svc, kind, cmd, at) ==
    /\ Len(events) < MaxEvents /\ Len(events) < taken + MaxQueue
    /\ kind \in Published[svc] \cap Kinds
    /\ kind # "command" => cmd = {}
    /\ at \in 1..now /\ now <= at + Skew
    /\ events' = Append(events, [ip |-> ip, svc |-> svc, kind |-> kind,
                                 cmd |-> cmd, at |-> at])
    /\ UNCHANGED <<now, taken, hand, known, authHits, services, found, done>>

(* work: an idle worker receives the next event of the channel. *)
Take(w) ==
    /\ hand[w] = 0
    /\ taken < Len(events)
    /\ taken' = taken + 1
    /\ hand' = [hand EXCEPT ![w] = taken + 1]
    /\ UNCHANGED <<now, events, known, authHits, services, found, done>>

(* detectCommand: the lists of texts a command is compared with are left    *)
(* out, what it matched is in cmd.                                          *)
DetectCommand(cmd) == IF "text" \in cmd THEN {"T1059.004"} \cup (cmd \ {"text"}) ELSE {}

(* detectSingleEvent *)
DetectSingleEvent(e) ==
    CASE e.kind = "login"   -> {"T1078"} \cup (IF e.svc = "ssh" THEN {"T1021.004"} ELSE {})
      [] e.kind = "command" -> DetectCommand(e.cmd)
      [] e.kind = "exploit" -> {"T1190"}
      [] e.kind = "scan"    -> {"T1595"}
      [] e.kind = "upload"  -> {"T1105"}
      [] e.kind = "connect" -> IF e.svc = "ssh" THEN {"T1133"} ELSE {}
      [] OTHER              -> {}

(* Mutant: the oldest timestamps are kept, whatever the time. *)
PruneWindowNever(hits, at) == hits

(* pruneWindow keeps what is strictly inside the window that ends at at,    *)
(* and what is later than at.                                               *)
PruneWindow(hits, at) == {m \in hits : events[m].at + BruteForceWindow > at}

(* Mutant: the window before is not carried over. *)
AuthHitsAfterFresh(n) == IF events[n].kind = "login" THEN {n}
                         ELSE authHits[events[n].ip]

(* detectMultiEvent: only a login appends to the window and prunes it. *)
AuthHitsAfter(n) ==
    IF events[n].kind = "login"
    THEN PruneWindow(authHits[events[n].ip] \cup {n}, events[n].at)
    ELSE authHits[events[n].ip]

(* Mutant: a service is counted until its window has passed by one more. *)
ServicesAfterLong(n) ==
    [s \in Services |->
        LET ts == IF events[n].kind = "connect" /\ events[n].svc = s
                  THEN events[n].at ELSE services[events[n].ip][s]
        IN  IF ts + ScanWindow + 1 >= events[n].at THEN ts ELSE 0]

(* Mutant: a service stamped exactly ScanWindow ago has expired. *)
ServicesAfterShort(n) ==
    [s \in Services |->
        LET ts == IF events[n].kind = "connect" /\ events[n].svc = s
                  THEN events[n].at ELSE services[events[n].ip][s]
        IN  IF ts + ScanWindow > events[n].at THEN ts ELSE 0]

(* detectMultiEvent: a connection stamps its service, then every event      *)
(* drops the services stamped more than ScanWindow before it.               *)
ServicesAfter(n) ==
    [s \in Services |->
        LET ts == IF events[n].kind = "connect" /\ events[n].svc = s
                  THEN events[n].at ELSE services[events[n].ip][s]
        IN  IF ts + ScanWindow >= events[n].at THEN ts ELSE 0]

Active(svcs) == {s \in Services : svcs[s] # 0}

(* What the two windows say, once they have been moved by event n. *)
DetectMultiEvent(n) ==
    {t \in {"T1110"} : /\ events[n].kind = "login"
                       /\ Cardinality(AuthHitsAfter(n)) >= BruteForceThreshold}
    \cup {t \in {"T1046"} : Cardinality(Active(ServicesAfter(n))) >= ScanThreshold}

(* Mutant: an entry that holds nothing stays in the map. *)
DetectKeeps(w) ==
    LET n  == hand[w]
        ip == events[n].ip
    IN  /\ n # 0
        /\ authHits' = [authHits EXCEPT ![ip] = AuthHitsAfter(n)]
        /\ services' = [services EXCEPT ![ip] = ServicesAfter(n)]
        /\ known' = known \cup {ip}
        /\ found' = [found EXCEPT ![n] = DetectSingleEvent(events[n]) \cup DetectMultiEvent(n)]
        /\ hand' = [hand EXCEPT ![w] = 0]
        /\ done' = Append(done, n)
        /\ UNCHANGED <<now, events, taken>>

(* Detect, one step under the detector's mutex: the entry of the address is *)
(* made if there is none, moved, and deleted when nothing is left in it.    *)
Detect(w) ==
    LET n  == hand[w]
        ip == events[n].ip
    IN  /\ n # 0
        /\ authHits' = [authHits EXCEPT ![ip] = AuthHitsAfter(n)]
        /\ services' = [services EXCEPT ![ip] = ServicesAfter(n)]
        /\ known' = IF AuthHitsAfter(n) = {} /\ Active(ServicesAfter(n)) = {}
                    THEN known \ {ip} ELSE known \cup {ip}
        /\ found' = [found EXCEPT ![n] = DetectSingleEvent(events[n]) \cup DetectMultiEvent(n)]
        /\ hand' = [hand EXCEPT ![w] = 0]
        /\ done' = Append(done, n)
        /\ UNCHANGED <<now, events, taken>>

Next ==
    \/ Tick
    \/ \E ip \in IPs, svc \in Services, kind \in Kinds, cmd \in Commands \cup {{}},
          at \in 1..now : Publish(ip, svc, kind, cmd, at)
    \/ \E w \in Workers : Take(w)
    \/ \E w \in Workers : Detect(w)

Spec == Init /\ [][Next]_detVars
-----------------------------------------------------------------------------
Done == {done[i] : i \in DOMAIN done}
Of(ip) == {n \in Done : events[n].ip = ip}
Logins(ip) == {n \in Of(ip) : events[n].kind = "login"}
Connects(ip) == {n \in Of(ip) : events[n].kind = "connect"}

Techniques == CommandRules \cup {"T1059.004", "T1078", "T1021.004", "T1190", "T1595",
                                 "T1133", "T1110", "T1046"}

EntriesKept == known = {ip \in IPs : authHits[ip] # {} \/ Active(services[ip]) # {}}

(* Types; a worker's event is one it received; windows hold events of their *)
(* address; and an address has an entry exactly while one of its windows    *)
(* holds something, so an address that never logs in or connects costs no   *)
(* memory.                                                                  *)
TypeOK ==
    /\ now \in Nat \ {0}
    /\ events \in Seq(Event) /\ Len(events) <= MaxEvents
    /\ taken \in 0..Len(events)
    /\ hand \in [Workers -> 0..taken]
    /\ authHits \in [IPs -> SUBSET (1..taken)]
    /\ services \in [IPs -> [Services -> Nat]]
    /\ found \in [1..MaxEvents -> SUBSET Techniques]
    /\ done \in Seq(1..taken)
    /\ EntriesKept

(* No false alarm, in whatever order the workers come: when Detect reports  *)
(* T1110 for an event, BruteForceThreshold logins of the address were seen  *)
(* that are later than the event less the window; when it reports T1046,    *)
(* connections to ScanThreshold services were.                              *)
AlarmSound ==
    \A ip \in IPs : \A n \in Of(ip) :
        /\ "T1110" \in found[n] =>
             Cardinality({m \in Logins(ip) : events[m].at + BruteForceWindow > events[n].at})
                 >= BruteForceThreshold
        /\ "T1046" \in found[n] =>
             Cardinality({s \in Services : \E m \in Connects(ip) :
                             events[m].svc = s /\ events[m].at + ScanWindow >= events[n].at})
                 >= ScanThreshold

(* The logins of ip seen in the window that ends at its latest one. *)
LatestLogins(ip) ==
    {m \in Logins(ip) : \A k \in Logins(ip) : events[k].at < events[m].at + BruteForceWindow}

(* No burst is missed for the order of the workers alone: once the window   *)
(* that ends at an address's latest login holds BruteForceThreshold of its  *)
(* logins, T1110 has been reported, in whatever order they were detected.   *)
BurstCaught ==
    \A ip \in IPs :
        Cardinality(LatestLogins(ip)) >= BruteForceThreshold
            => \E n \in Logins(ip) : "T1110" \in found[n]

(* The events of ip seen are no further apart than ScanWindow. *)
Brief(ip) == \A m, k \in Of(ip) : events[k].at <= events[m].at + ScanWindow

(* A scan that is over within ScanWindow is reported in whatever order its  *)
(* connections are detected.                                                *)
ScanCaught ==
    \A ip \in IPs :
        /\ Brief(ip)
        /\ Cardinality({events[n].svc : n \in Connects(ip)}) >= ScanThreshold
        => \E n \in Of(ip) : "T1046" \in found[n]

(* The i-th event detected, judged by what had been detected by then. *)
WindowVerdict(i) ==
    LET e    == events[done[i]]
        Past == {done[j] : j \in 1..i} \cap Of(e.ip)
    IN  {t \in {"T1110"} :
            /\ e.kind = "login"
            /\ Cardinality({m \in Past : /\ events[m].kind = "login"
                                         /\ e.at - events[m].at < BruteForceWindow})
                  >= BruteForceThreshold}
        \cup {t \in {"T1046"} :
            Cardinality({events[m].svc : m \in {k \in Past : /\ events[k].kind = "connect"
                                                             /\ e.at - events[k].at <= ScanWindow}})
                >= ScanThreshold}

(* The events of ip have been detected in the order of their timestamps. *)
InOrder(ip) ==
    \A i, j \in DOMAIN done :
        i < j /\ events[done[i]].ip = ip /\ events[done[j]].ip = ip
            => events[done[i]].at <= events[done[j]].at

(* While the events of an address are detected in the order of their        *)
(* timestamps, Detect reports exactly what counting over the whole past     *)
(* would: pruning and deleting entries lose nothing, at either boundary.    *)
ExactInOrder ==
    \A ip \in IPs : InOrder(ip) =>
        \A i \in DOMAIN done :
            events[done[i]].ip = ip => found[done[i]] \cap {"T1110", "T1046"} = WindowVerdict(i)

(* The inductive invariant behind AlarmSound, BurstCaught and ScanCaught.   *)
(* An event is held by one worker at most and not yet detected; the windows *)
(* hold detected events of their address only; the logins of the latest     *)
(* window are all there; and so are the services of an address that has     *)
(* been seen for no longer than ScanWindow.                                 *)
HandFresh ==
    /\ \A w \in Workers : hand[w] # 0 => hand[w] \notin Done
    /\ \A v, w \in Workers : hand[v] # 0 /\ hand[v] = hand[w] => v = w

WindowsSound ==
    \A ip \in IPs :
        /\ authHits[ip] \subseteq Logins(ip)
        /\ \A s \in Active(services[ip]) :
              \E m \in Connects(ip) : events[m].svc = s /\ events[m].at = services[ip][s]

WindowsComplete ==
    \A ip \in IPs :
        /\ LatestLogins(ip) \subseteq authHits[ip]
        /\ Brief(ip) => {events[n].svc : n \in Connects(ip)} \subseteq Active(services[ip])

DetInv == TypeOK /\ HandFresh /\ WindowsSound /\ WindowsComplete
          /\ AlarmSound /\ BurstCaught /\ ScanCaught

(* What ExactInOrder needs besides: as long as an address is seen in order, *)
(* a service connected to within ScanWindow of everything seen since is in  *)
(* the map, stamped with that connection or a later one.                    *)
ServicesKept ==
    \A ip \in IPs : InOrder(ip) =>
        \A m \in Connects(ip) :
            (\A k \in Of(ip) : events[k].at <= events[m].at + ScanWindow)
                => services[ip][events[m].svc] >= events[m].at
=============================================================================
