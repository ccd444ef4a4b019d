------------------------------ MODULE Processor ------------------------------
(***************************************************************************)
(* internal/event/processor.go and the statements of internal/store/pgx.go *)
(* and internal/store/redis.go it issues: a pool of workers that takes     *)
(* events from one channel and turns each into a fixed sequence of calls   *)
(* of the stores.  A call that fails is logged and the next one is made;   *)
(* no transaction holds the calls of an event together.                    *)
(*                                                                         *)
(* The database is modelled by which statements it accepts: the partitions *)
(* EnsurePartitions makes at start-up, and the NOT NULL columns of the     *)
(* migrations.  An event is named by its place in events, which is also    *)
(* its timestamp.  The channel is closed by bus.Shutdown only after every  *)
(* worker has returned, so workers always leave through ctx.Done.          *)
(***************************************************************************)
EXTENDS Naturals, Sequences, FiniteSets

CONSTANTS
    IPs,            \* source addresses
    PrivateIPs,     \* those that are loopback or private, or no address
    Kinds,          \* the event types that occur
    Techniques,     \* what the detector may report
    Detections,     \* Detections[kind]: the answers Detect may give for it
    Workers,        \* config.DefaultProcessorWorkers goroutines
    QueueSize,      \* config.DefaultEventBusBuffer
    MonthsAhead,    \* months EnsurePartitions prepares after the current one
    Faults,         \* does a store fail for reasons of its own: 0 or 1
    MaxMonth,       \* bound: months the process runs for
    MaxEvents       \* bound: events published

ASSUME ProcessorAssumption ==
    /\ PrivateIPs \subseteq IPs
    /\ Kinds \subseteq {"connect", "login", "other"}
    /\ DOMAIN Detections = Kinds
    /\ \A kind \in Kinds : \A found \in Detections[kind] :
          /\ found \in Seq(Techniques)
          /\ \A i, j \in DOMAIN found : found[i] = found[j] => i = j
    /\ Techniques \cap {"events", "credentials", "attackers", "iocs", "stream"} = {}
    /\ QueueSize \in Nat \ {0}
    /\ MonthsAhead \in Nat
    /\ Faults \in {0, 1}
    /\ MaxMonth \in Nat
    /\ MaxEvents \in Nat

VARIABLES
    events,     \* the events the channel accepted, in its order
    taken,      \* how many of them workers have received
    hand,       \* hand[w]: the event worker w is processing, 0 for none
    calls,      \* calls[w]: the store calls worker w has left to make for it
    workers,    \* workers[w]: "working", or "gone" once work has returned
    ctx,        \* the context of the pool: "live" or "cancelled"
    tags,       \* tags[n]: the techniques detected in event n
    rows,       \* <<n, c>>: call c made for event n was accepted
    refused,    \* <<n, c, why>>: it was refused
    attackers   \* attackers[ip]: its row, with total_events 0 if there is none

procVars == <<events, taken, hand, calls, workers, ctx, tags, rows,
              refused, attackers>>

Event == [ip : IPs, kind : Kinds, month : Nat]

AttackerRow == [first : Nat, last : Nat, events : Nat, sessions : Nat]

NoRow == [first |-> 0, last |-> 0, events |-> 0, sessions |-> 0]

Init ==
    /\ events = <<>>
    /\ taken = 0
    /\ hand = [w \in Workers |-> 0]
    /\ calls = [w \in Workers |-> <<>>]
    /\ workers = [w \in Workers |-> "working"]
    /\ ctx = "live"
    /\ tags = [n \in 1..MaxEvents |-> {}]
    /\ rows = {}
    /\ refused = {}
    /\ attackers = [ip \in IPs |-> NoRow]

(* A service publishes an event, month months after the process started,    *)
(* and the processor's channel has room for it (an event that finds it full *)
(* is dropped: EventBus).                                                   *)
Deliver(ip, kind, month) ==
    /\ Len(events) < MaxEvents
    /\ Len(events) < taken + QueueSize
    /\ \A n \in 1..Len(events) : events[n].month <= month
    /\ events' = Append(events, [ip |-> ip, kind |-> kind, month |-> month])
    /\ UNCHANGED <<taken, hand, calls, workers, ctx, tags, rows, refused,
                   attackers>>

(* runServe's context is cancelled: a signal, or a service that failed. *)
Cancel ==
    /\ ctx = "live"
    /\ ctx' = "cancelled"
    /\ UNCHANGED <<events, taken, hand, calls, workers, tags, rows, refused,
                   attackers>>

(* ipIOC: the source address, unless it is not a public one; its Tags are   *)
(* never set.                                                               *)
IpIOC(e) == IF e.ip \in PrivateIPs THEN {} ELSE {[value |-> e.ip, tags |-> "nil"]}

(* persist and stream: the calls made for event e when the techniques of    *)
(* found were detected in it.                                               *)
CallsFor(e, found) ==
    <<"events">> \o found
    \o (IF e.kind = "login" THEN <<"credentials">> ELSE <<>>)
    \o <<"attackers">>
    \o (IF IpIOC(e) # {} THEN <<"iocs">> ELSE <<>>)
    \o <<"stream">>

(* work receives an event, and process enriches it and runs the detector,   *)
(* whose answer, one of each technique at most, is found.                   *)
Take(w, found) ==
    /\ workers[w] = "working"
    /\ hand[w] = 0
    /\ taken < Len(events)
    /\ found \in Detections[events[taken + 1].kind]
    /\ taken' = taken + 1
    /\ hand' = [hand EXCEPT ![w] = taken + 1]
    /\ calls' = [calls EXCEPT ![w] = CallsFor(events[taken + 1], found)]
    /\ tags' = [tags EXCEPT ![taken + 1] = {found[i] : i \in DOMAIN found}]
    /\ UNCHANGED <<events, workers, ctx, rows, refused, attackers>>

(* Mutant: a worker leaves in the middle of an event. *)
LeaveHolding(w) ==
    /\ workers[w] = "working"
    /\ ctx = "cancelled"
    /\ workers' = [workers EXCEPT ![w] = "gone"]
    /\ UNCHANGED <<events, taken, hand, calls, ctx, tags, rows, refused,
                   attackers>>

(* work returns at an idle moment once its context is cancelled; select may *)
(* as well take another event.                                              *)
Leave(w) ==
    /\ workers[w] = "working"
    /\ hand[w] = 0
    /\ ctx = "cancelled"
    /\ workers' = [workers EXCEPT ![w] = "gone"]
    /\ UNCHANGED <<events, taken, hand, calls, ctx, tags, rows, refused,
                   attackers>>
-----------------------------------------------------------------------------
(* The months each time-ranged table has a partition for: EnsurePartitions  *)
(* runs once, before the services start, and for two of the three tables.   *)
Partitions ==
    [events |-> 0..MonthsAhead, sessions |-> 0..MonthsAhead, credentials |-> {}]

(* Why the stores cannot take call c for event e, if they cannot: a row of  *)
(* a partitioned table needs its partition, and iocs.tags, given a nil      *)
(* slice, is NULL where the column is NOT NULL.  The other tables take any  *)
(* row; InsertEvent and UpsertAttacker replace nil tags by an empty array.  *)
Obstacles(e, c) ==
    {why \in {"no partition"} : c \in DOMAIN Partitions /\ e.month \notin Partitions[c]}
    \cup {why \in {"null"} : c = "iocs" /\ \E ioc \in IpIOC(e) : ioc.tags = "nil"}

(* Mutant: the total is written, not added to. *)
UpsertedSet(row, n) ==
    [first    |-> IF row.events = 0 THEN n ELSE row.first,
     last     |-> n,
     events   |-> 1,
     sessions |-> row.sessions + (IF events[n].kind = "connect" THEN 1 ELSE 0)]

(* buildAttacker and the ON CONFLICT clause of UpsertAttacker. *)
Upserted(row, n) ==
    [first    |-> IF row.events = 0 THEN n ELSE row.first,
     last     |-> n,
     events   |-> row.events + 1,
     sessions |-> row.sessions + (IF events[n].kind = "connect" THEN 1 ELSE 0)]

(* Mutant: a call that fails ends the processing of the event. *)
ReturnGivesUp(w, n, c, why) ==
    /\ calls' = [calls EXCEPT ![w] = IF why = "none" THEN Tail(@) ELSE <<>>]
    /\ hand' = [hand EXCEPT ![w] = IF calls'[w] = <<>> THEN 0 ELSE @]
    /\ rows' = IF why = "none" THEN rows \cup {<<n, c>>} ELSE rows
    /\ refused' = IF why = "none" THEN refused ELSE refused \cup {<<n, c, why>>}

(* Mutant: a refused call is made again, for ever. *)
ReturnRetries(w, n, c, why) ==
    /\ calls' = [calls EXCEPT ![w] = IF why = "none" THEN Tail(@) ELSE @]
    /\ hand' = [hand EXCEPT ![w] = IF calls'[w] = <<>> THEN 0 ELSE @]
    /\ rows' = IF why = "none" THEN rows \cup {<<n, c>>} ELSE rows
    /\ refused' = IF why = "none" THEN refused ELSE refused \cup {<<n, c, why>>}

(* A call returns, refused for the reason why, or accepted when there is    *)
(* none; either way the worker goes on to the next.                         *)
Return(w, n, c, why) ==
    /\ calls' = [calls EXCEPT ![w] = Tail(@)]
    /\ hand' = [hand EXCEPT ![w] = IF Tail(calls[w]) = <<>> THEN 0 ELSE @]
    /\ rows' = IF why = "none" THEN rows \cup {<<n, c>>} ELSE rows
    /\ refused' = IF why = "none" THEN refused ELSE refused \cup {<<n, c, why>>}

(* The outcomes a call may have: it fails for what stands in its way, or    *)
(* because it is made with a cancelled context; if neither, it succeeds, or *)
(* the store is out of reach.                                               *)
Outcomes(n, c) ==
    LET must == Obstacles(events[n], c) \cup {why \in {"cancelled"} : ctx = "cancelled"}
    IN  IF must # {} THEN must ELSE {"none"} \cup {why \in {"fault"} : Faults = 1}

(* One store call of worker w: InsertEvent, InsertDetection,                *)
(* InsertCredential, UpsertIOC or PublishEvent.                             *)
Call(w) ==
    /\ calls[w] # <<>>
    /\ Head(calls[w]) # "attackers"
    /\ \E why \in Outcomes(hand[w], Head(calls[w])) :
          Return(w, hand[w], Head(calls[w]), why)
    /\ UNCHANGED <<events, taken, workers, ctx, tags, attackers>>

UpsertAttacker(w) ==
    /\ calls[w] # <<>>
    /\ Head(calls[w]) = "attackers"
    /\ \E why \in Outcomes(hand[w], "attackers") :
          /\ Return(w, hand[w], "attackers", why)
          /\ attackers' = IF why # "none" THEN attackers
                          ELSE [attackers EXCEPT ![events[hand[w]].ip] = Upserted(@, hand[w])]
    /\ UNCHANGED <<events, taken, workers, ctx, tags>>

Work(w) ==
    \/ \E found \in UNION {Detections[kind] : kind \in Kinds} : Take(w, found)
    \/ Call(w)
    \/ UpsertAttacker(w)
    \/ Leave(w)

Next ==
    \/ Cancel
    \/ \E ip \in IPs, kind \in Kinds, month \in 0..MaxMonth : Deliver(ip, kind, month)
    \/ \E w \in Workers : Work(w)

(* Goroutines are scheduled and store calls return. *)
Fairness == \A w \in Workers : WF_procVars(Work(w))

Spec == Init /\ [][Next]_procVars
FairSpec == Spec /\ Fairness
-----------------------------------------------------------------------------
Image(s) == {s[i] : i \in DOMAIN s}
Stores == {"events", "credentials", "attackers", "iocs", "stream"} \cup Techniques
Reasons == {"no partition", "null", "cancelled", "fault"}

(* Types; a worker has calls left exactly while it holds an event, and it   *)
(* holds none when it is gone, so an event that was taken is always carried *)
(* through.                                                                 *)
TypeOK ==
    /\ events \in Seq(Event) /\ Len(events) <= MaxEvents
    /\ taken \in 0..Len(events)
    /\ hand \in [Workers -> 0..taken]
    /\ calls \in [Workers -> Seq(Stores)]
    /\ workers \in [Workers -> {"working", "gone"}]
    /\ ctx \in {"live", "cancelled"}
    /\ tags \in [1..MaxEvents -> SUBSET Techniques]
    /\ rows \subseteq (1..taken) \X Stores
    /\ refused \subseteq (1..taken) \X Stores \X Reasons
    /\ attackers \in [IPs -> AttackerRow]
    /\ \A w \in Workers : /\ hand[w] = 0 <=> calls[w] = <<>>
                          /\ workers[w] = "gone" => hand[w] = 0

(* The calls an event is owed, and those a worker still has to make for it. *)
Due(n) ==
    {"events", "attackers", "stream"} \cup tags[n]
    \cup {c \in {"credentials"} : events[n].kind = "login"}
    \cup {c \in {"iocs"} : events[n].ip \notin PrivateIPs}

Ahead(n) == UNION {Image(calls[w]) : w \in {v \in Workers : hand[v] = n}}

(* One failure costs one row: whatever fails and whichever workers run at   *)
(* the same time, each call an event is owed is accepted, refused or still  *)
(* to be made, and only one of the three, and no other call is made.        *)
OneFailureCostsOneRow ==
    \A n \in 1..taken :
        LET kept  == {c \in Stores : <<n, c>> \in rows}
            lost  == {c \in Stores : \E why \in Reasons : <<n, c, why>> \in refused}
        IN  /\ kept \cup lost \cup Ahead(n) = Due(n)
            /\ kept \cap lost = {} /\ (kept \cup lost) \cap Ahead(n) = {}

(* Counted(ip): the events of ip whose upsert was accepted. *)
Counted(ip) == {n \in 1..taken : events[n].ip = ip /\ <<n, "attackers">> \in rows}

(* No update of an attacker's row is lost between workers: total_events is  *)
(* the number of upserts accepted, total_sessions that of connections among *)
(* them, and both times are timestamps of such events.                      *)
TotalsMatch ==
    \A ip \in IPs :
        /\ attackers[ip].events = Cardinality(Counted(ip))
        /\ attackers[ip].sessions = Cardinality({n \in Counted(ip) : events[n].kind = "connect"})
        /\ Counted(ip) # {} => {attackers[ip].first, attackers[ip].last} \subseteq Counted(ip)

Handled(n) == n <= taken /\ \A w \in Workers : hand[w] # n

(* Every event the channel accepted is carried through, unless the process  *)
(* is told to stop: no failing store holds up the pool.                     *)
EventHandled ==
    \A n \in 1..MaxEvents : n <= Len(events) ~> Handled(n) \/ ctx = "cancelled"

(* Once the context is cancelled every worker returns, so proc.Start does.  *)
ShutdownCompletes ==
    ctx = "cancelled" ~> \A w \in Workers : workers[w] = "gone"
-----------------------------------------------------------------------------
(* What the architecture document says: of an event that has been handled   *)
(* the store has the credentials, if it is a login, and the source address, *)
(* unless it is a private one.  (The header of store/pgx.go says that the   *)
(* partition a row needs is made on insert.)                                *)
RowsPersisted ==
    ctx = "live" /\ Faults = 0 =>
        \A n \in 1..taken : Handled(n) =>
            /\ events[n].kind = "login" => <<n, "credentials">> \in rows
            /\ events[n].ip \notin PrivateIPs => <<n, "iocs">> \in rows

(* What it says of attackers: an upsert updates last-seen.  The time an     *)
(* attacker was last seen is not before the time it was first seen.         *)
LastSeenUpdated == \A ip \in IPs : attackers[ip].first <= attackers[ip].last
=============================================================================
