------------------------------ MODULE EventBus ------------------------------
(***************************************************************************)
(* internal/event/bus.go: the in-process fan-out bus between the honeypot  *)
(* services, which publish, and the event processor and the dashboard's    *)
(* websocket handlers, which subscribe.                                    *)
(*                                                                         *)
(* A channel is created by one Subscribe, so a subscription and its        *)
(* channel share one identity s \in Subs.  Publish holds the read half of  *)
(* an RWMutex for its whole loop and takes one step per subscriber, so     *)
(* publishers interleave with each other and with the consumers, which     *)
(* receive from the channels without any lock.  Subscribe, Unsubscribe and *)
(* Shutdown hold the write half, which excludes every other access to the  *)
(* list, and a consumer sees only its own channel: each is one step, taken *)
(* once the lock it announced is granted.                                  *)
(***************************************************************************)
EXTENDS Naturals, Sequences

CONSTANTS
    Publishers,   \* goroutines that call Publish (connection handlers)
    Subs,         \* subscriptions, each made at most once
    Topics,       \* topic names, TopicAll among them
    TopicAll,     \* config.TopicAll, the wildcard
    TopicSets,    \* the topic sets that callers subscribe with
    BufSize,      \* capacity of every subscription's channel
    MaxEvents     \* bound: the number of Publish calls

ASSUME BusAssumption ==
    /\ TopicAll \in Topics
    /\ TopicSets \subseteq SUBSET Topics
    /\ BufSize \in Nat \ {0}
    /\ MaxEvents \in Nat

VARIABLES
    subscribers,  \* Bus.subscribers, the slice of listed subscriptions
    closed,       \* Bus.closed
    topics,       \* topics[s]: the topic set s subscribed with
    chan,         \* chan[s]: "none" before Subscribe, "open", or "closed"
    buf,          \* buf[s]: the events in the channel of s
    readers,      \* the publishers that hold the read lock
    writer,       \* the operation whose Lock() is announced, NoCall if none
    cursor,       \* cursor[p]: the loop position of p in subscribers
    sent,         \* the number of Publish calls begun, which numbers events
    cur,          \* cur[p]: number and topic of the event p is publishing
    got,          \* history: got[s], the events the consumer of s received
    dropped,      \* history: dropped[s], the events s lost to a full channel
    panics        \* closed channels that were sent on or closed again

busVars == <<subscribers, closed, topics, chan, buf, readers, writer, cursor,
             sent, cur, got, dropped, panics>>

(* An event: who published it, and a number in the order Publish was called *)
(* (its payload does not matter to the bus).                                *)
Event(p, n) == [pub |-> p, seq |-> n]
NoEvent == [seq |-> 0, topic |-> TopicAll]
Events == [pub : Publishers, seq : Nat]

NoCall == <<"none">>
SubscribeCall(s) == <<"subscribe", s>>
UnsubscribeCall(s) == <<"unsubscribe", s>>
ShutdownCall == <<"shutdown">>
-----------------------------------------------------------------------------
(***************************************************************************)
(* sync.RWMutex: writers serialise among themselves, and an announced      *)
(* writer holds back new readers and waits for those that are inside.      *)
(***************************************************************************)
RLock(p) ==
    /\ p \notin readers
    /\ writer = NoCall

Lock(c) ==
    /\ writer = NoCall
    /\ writer' = c
    /\ UNCHANGED <<subscribers, closed, topics, chan, buf, readers, cursor,
                   sent, cur, got, dropped, panics>>

(* Mutant: the writer does not wait for the readers that are inside. *)
LockedUnguarded(c) == writer = c

Locked(c) ==
    /\ writer = c
    /\ readers = {}

Unlock == writer' = NoCall

(* A caller subscribes once per subscription, may unsubscribe it any number *)
(* of times, and runServe shuts the bus down once.                          *)
LockRequest ==
    \/ \E s \in Subs : chan[s] = "none" /\ Lock(SubscribeCall(s))
    \/ \E s \in Subs : chan[s] # "none" /\ Lock(UnsubscribeCall(s))
    \/ ~closed /\ Lock(ShutdownCall)
-----------------------------------------------------------------------------
Matches(s, t) == t \in topics[s] \/ TopicAll \in topics[s]

(* Publish up to its loop: RLock, and return at once on a closed bus. *)
PublishBegin(p, t) ==
    /\ RLock(p)
    /\ sent < MaxEvents
    /\ sent' = sent + 1
    /\ IF closed
       THEN UNCHANGED <<readers, cursor, cur>>
       ELSE /\ readers' = readers \cup {p}
            /\ UNCHANGED cursor
            /\ cur' = [cur EXCEPT ![p] = [seq |-> sent + 1, topic |-> t]]
    /\ UNCHANGED <<subscribers, closed, topics, chan, buf, writer, got,
                   dropped, panics>>

(* Mutant: a channel takes one event more than its capacity. *)
TrySendOverfull(s, ev) ==
    /\ buf' = [buf EXCEPT
                 ![s] = IF Len(@) <= BufSize THEN Append(@, ev) ELSE @]
    /\ UNCHANGED <<dropped, panics>>

(* Mutant: the select has no default, so the send waits for room. *)
TrySendBlocks(s, ev) ==
    /\ Len(buf[s]) < BufSize
    /\ buf' = [buf EXCEPT ![s] = Append(@, ev)]
    /\ UNCHANGED <<dropped, panics>>

(* The select with a default: deliver, or drop when the channel is full.  A *)
(* send on a closed channel panics whether or not there is room.            *)
TrySend(s, ev) ==
    LET open == chan[s] # "closed"
        room == Len(buf[s]) < BufSize
    IN  /\ panics' = IF open THEN panics ELSE panics \cup {s}
        /\ buf' = [buf EXCEPT ![s] = IF open /\ room THEN Append(@, ev) ELSE @]
        /\ dropped' = [dropped EXCEPT
                         ![s] = IF open /\ ~room THEN @ \cup {ev} ELSE @]

(* Mutant: the loop comes round to the subscriber it has just sent to. *)
PublishStepAgain(p) ==
    /\ p \in readers
    /\ cursor[p] <= Len(subscribers)
    /\ LET s == subscribers[cursor[p]]
       IN  IF Matches(s, cur[p].topic) /\ Len(buf[s]) < BufSize
           THEN /\ TrySend(s, Event(p, cur[p].seq))
                /\ UNCHANGED cursor
           ELSE /\ cursor' = [cursor EXCEPT ![p] = @ + 1]
                /\ UNCHANGED <<buf, dropped, panics>>
    /\ UNCHANGED <<subscribers, closed, topics, chan, readers, writer, sent,
                   cur, got>>

(* One iteration of the loop over the subscribers. *)
PublishStep(p) ==
    /\ p \in readers
    /\ cursor[p] <= Len(subscribers)
    /\ LET s == subscribers[cursor[p]]
       IN  IF Matches(s, cur[p].topic)
           THEN TrySend(s, Event(p, cur[p].seq))
           ELSE UNCHANGED <<buf, dropped, panics>>
    /\ cursor' = [cursor EXCEPT ![p] = @ + 1]
    /\ UNCHANGED <<subscribers, closed, topics, chan, readers, writer, sent,
                   cur, got>>

(* Mutant: the read lock is not released. *)
PublishEndLeaks(p) ==
    /\ p \in readers
    /\ cursor[p] > Len(subscribers)
    /\ UNCHANGED busVars

(* The deferred RUnlock; the call's local variables are gone. *)
PublishEnd(p) ==
    /\ p \in readers
    /\ cursor[p] > Len(subscribers)
    /\ readers' = readers \ {p}
    /\ cursor' = [cursor EXCEPT ![p] = 1]
    /\ cur' = [cur EXCEPT ![p] = NoEvent]
    /\ UNCHANGED <<subscribers, closed, topics, chan, buf, writer, sent, got,
                   dropped, panics>>
-----------------------------------------------------------------------------
(* Subscribe makes the channel and lists it; it does not look at closed. *)
Subscribe(s, T) ==
    /\ Locked(SubscribeCall(s))
    /\ topics' = [topics EXCEPT ![s] = T]
    /\ chan' = [chan EXCEPT ![s] = "open"]
    /\ subscribers' = Append(subscribers, s)
    /\ Unlock
    /\ UNCHANGED <<closed, buf, readers, cursor, sent, cur, got, dropped,
                   panics>>

Listed == {subscribers[i] : i \in 1..Len(subscribers)}

(* append(subscribers[:i], subscribers[i+1:]...): the tail moves down. *)
RemoveIndex(i) ==
    [j \in 1..(Len(subscribers) - 1) |->
        IF j < i THEN subscribers[j] ELSE subscribers[j + 1]]

(* Unsubscribe closes the channel and removes it, if it is still listed. *)
Unsubscribe(s) ==
    /\ Locked(UnsubscribeCall(s))
    /\ \/ \E i \in 1..Len(subscribers) :
             /\ subscribers[i] = s
             /\ \A j \in 1..(i - 1) : subscribers[j] # s
             /\ panics' = panics \cup {x \in {s} : chan[x] = "closed"}
             /\ chan' = [chan EXCEPT ![s] = "closed"]
             /\ subscribers' = RemoveIndex(i)
       \/ /\ s \notin Listed
          /\ UNCHANGED <<panics, chan, subscribers>>
    /\ Unlock
    /\ UNCHANGED <<closed, topics, buf, readers, cursor, sent, cur, got,
                   dropped>>

(* Mutant: the closed channels stay in the list. *)
ShutdownKeepsList ==
    /\ Locked(ShutdownCall)
    /\ closed' = TRUE
    /\ panics' = panics \cup {s \in Listed : chan[s] = "closed"}
    /\ chan' = [s \in Subs |-> IF s \in Listed THEN "closed" ELSE chan[s]]
    /\ Unlock
    /\ UNCHANGED <<subscribers, topics, buf, readers, cursor, sent, cur, got,
                   dropped>>

(* Shutdown closes every listed channel and forgets the list. *)
Shutdown ==
    /\ Locked(ShutdownCall)
    /\ closed' = TRUE
    /\ panics' = panics \cup {s \in Listed : chan[s] = "closed"}
    /\ chan' = [s \in Subs |-> IF s \in Listed THEN "closed" ELSE chan[s]]
    /\ subscribers' = <<>>
    /\ Unlock
    /\ UNCHANGED <<topics, buf, readers, cursor, sent, cur, got, dropped>>

(* The consumer of s takes the oldest event; a closed channel still drains. *)
Receive(s) ==
    /\ buf[s] # <<>>
    /\ buf' = [buf EXCEPT ![s] = Tail(@)]
    /\ got' = [got EXCEPT ![s] = Append(@, Head(buf[s]))]
    /\ UNCHANGED <<subscribers, closed, topics, chan, readers, writer, cursor,
                   sent, cur, dropped, panics>>
-----------------------------------------------------------------------------
Init ==
    /\ subscribers = <<>>
    /\ closed = FALSE
    /\ topics = [s \in Subs |-> {}]
    /\ chan = [s \in Subs |-> "none"]
    /\ buf = [s \in Subs |-> <<>>]
    /\ readers = {}
    /\ writer = NoCall
    /\ cursor = [p \in Publishers |-> 1]
    /\ sent = 0
    /\ cur = [p \in Publishers |-> NoEvent]
    /\ got = [s \in Subs |-> <<>>]
    /\ dropped = [s \in Subs |-> {}]
    /\ panics = {}

PublishNext(p) ==
    \/ \E t \in Topics \ {TopicAll} : PublishBegin(p, t)
    \/ PublishStep(p)
    \/ PublishEnd(p)

WriterNext ==
    \/ \E s \in Subs, T \in TopicSets : Subscribe(s, T)
    \/ \E s \in Subs : Unsubscribe(s)
    \/ Shutdown

Next ==
    \/ \E p \in Publishers : PublishNext(p)
    \/ LockRequest
    \/ WriterNext
    \/ \E s \in Subs : Receive(s)

(***************************************************************************)
(* Fairness: a goroutine inside Publish or holding the lock keeps running  *)
(* (it never blocks there).  Nothing is assumed of the consumers, which    *)
(* may be arbitrarily slow, nor of anyone starting a new call.             *)
(***************************************************************************)
Fairness ==
    /\ \A p \in Publishers : WF_busVars(PublishStep(p) \/ PublishEnd(p))
    /\ WF_busVars(WriterNext)

Spec == Init /\ [][Next]_busVars

FairSpec == Spec /\ Fairness
-----------------------------------------------------------------------------
WriteCalls ==
    {ShutdownCall} \cup {SubscribeCall(s) : s \in Subs}
                   \cup {UnsubscribeCall(s) : s \in Subs}

ListTypeOK ==
    /\ subscribers \in Seq(Subs)
    /\ closed \in BOOLEAN
    /\ topics \in [Subs -> SUBSET Topics]
    /\ chan \in [Subs -> {"none", "open", "closed"}]
    /\ readers \in SUBSET Publishers
    /\ writer \in WriteCalls \cup {NoCall}

CallTypeOK ==
    /\ cursor \in [Publishers -> Nat \ {0}]
    /\ sent \in Nat
    /\ cur \in [Publishers -> [seq : Nat, topic : Topics]]

StreamTypeOK ==
    /\ buf \in [Subs -> Seq(Events)]
    /\ \A s \in Subs : Len(buf[s]) <= BufSize
    /\ got \in [Subs -> Seq(Events)]
    /\ dropped \in [Subs -> SUBSET Events]
    /\ panics \in SUBSET Subs

(* Type correctness; a channel never holds more than its capacity. *)
TypeOK == ListTypeOK /\ CallTypeOK /\ StreamTypeOK

(* No goroutine panics in bus.go: whatever the order of Publish, Subscribe, *)
(* Unsubscribe and Shutdown, a closed channel is neither sent on nor closed *)
(* a second time (a dashboard leaving while the server shuts down).         *)
NoPanic == panics = {}

(* What the lock and the removal keep true of the list: a listed channel is *)
(* open and listed once, and only an unmade subscription is being made.     *)
ListedOpen ==
    /\ \A i \in 1..Len(subscribers) : chan[subscribers[i]] = "open"
    /\ \A i, j \in 1..Len(subscribers) :
          subscribers[i] = subscribers[j] => i = j
    /\ \A s \in Subs : writer = SubscribeCall(s) => chan[s] = "none"

BusInv == TypeOK /\ ListedOpen /\ NoPanic

(* What the consumer of s has taken and will still take from its channel. *)
Stream(s) == got[s] \o buf[s]

(* One publisher's events reach each consumer in the order it published     *)
(* them and at most once, though they may have gaps (drops, unsubscription) *)
(* and other publishers' events in between.                                 *)
FifoPerPublisher ==
    \A s \in Subs : \A i, j \in 1..Len(Stream(s)) :
        i < j /\ Stream(s)[i].pub = Stream(s)[j].pub
            => Stream(s)[i].seq < Stream(s)[j].seq

(* The loop of p has yet to reach subscriber s. *)
Ahead(p, s) == \E k \in cursor[p]..Len(subscribers) : subscribers[k] = s

(* Why: events are numbered in the order they are published, and a channel  *)
(* the loop of p has yet to reach holds nothing of p as new as its event.   *)
(* The read lock carries this: the list ahead of the loop does not change.  *)
FifoInv ==
    /\ FifoPerPublisher
    /\ \A s \in Subs : \A i \in 1..Len(Stream(s)) : Stream(s)[i].seq <= sent
    /\ \A p \in readers : cur[p].seq <= sent
    /\ \A p \in readers, s \in Subs : Ahead(p, s) =>
          \A i \in 1..Len(Stream(s)) :
              Stream(s)[i].pub = p => Stream(s)[i].seq < cur[p].seq

InStream(s, ev) == \E i \in 1..Len(Stream(s)) : Stream(s)[i] = ev

(* When Publish returns, every channel in the list whose topics match has   *)
(* been offered the event: it is in the stream or was dropped for lack of   *)
(* room.  The list cannot shift under the loop and hide a subscriber.       *)
NobodySkipped ==
    [][\A p \in Publishers : PublishEnd(p) =>
         \A s \in Listed : Matches(s, cur[p].topic) =>
             \/ InStream(s, Event(p, cur[p].seq))
             \/ Event(p, cur[p].seq) \in dropped[s]]_busVars

(* Why: a loop begins at the head of the list, and what it has passed has   *)
(* been offered its event; nothing offered is taken back.                   *)
Offered(p, s) == InStream(s, Event(p, cur[p].seq)) \/ Event(p, cur[p].seq) \in dropped[s]

OfferInv ==
    /\ \A p \in Publishers \ readers : cursor[p] = 1
    /\ \A p \in readers : \A k \in 1..Len(subscribers) :
          k < cursor[p] /\ Matches(subscribers[k], cur[p].topic) => Offered(p, subscribers[k])

(* A slow or stopped consumer never holds a honeypot service up: a Publish  *)
(* that has begun returns, with no fairness assumed of any consumer.        *)
PublishReturns ==
    \A p \in Publishers : p \in readers ~> p \notin readers

(* Subscribe, Unsubscribe and Shutdown get the lock they wait for. *)
WriterGetsLock == writer # NoCall ~> writer = NoCall
=============================================================================
