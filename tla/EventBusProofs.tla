--------------------------- MODULE EventBusProofs ---------------------------
(***************************************************************************)
(* The bus is safe for every set of publishers, subscriptions, topics and  *)
(* channel capacities.                                                     *)
(***************************************************************************)
EXTENDS EventBus, TLAPS, SequenceTheorems

(* No pending lock, or a pending Shutdown, is not a pending Subscribe. *)
LEMMA CallsDiffer ==
    \A s \in Subs : /\ NoCall # SubscribeCall(s)
                    /\ ShutdownCall # SubscribeCall(s)
  BY DEF NoCall, ShutdownCall, SubscribeCall

(* The initial state satisfies the inductive invariant. *)
LEMMA InitBusInv == Init => BusInv
  <1> SUFFICES ASSUME Init PROVE BusInv
    OBVIOUS
  <1> USE BusAssumption DEF Init
  <1>1. ListTypeOK
    <2>1. closed \in BOOLEAN
      OBVIOUS
    <2> QED
      BY <2>1 DEF ListTypeOK
  <1>2. CallTypeOK
    BY DEF CallTypeOK, NoEvent
  <1>3. StreamTypeOK
    BY DEF StreamTypeOK
  <1>4. subscribers = <<>> /\ Len(subscribers) = 0
    OBVIOUS
  <1>5. ListedOpen /\ NoPanic
    BY <1>4, CallsDiffer DEF ListedOpen, NoPanic
  <1> QED
    BY <1>1, <1>2, <1>3, <1>5 DEF BusInv, TypeOK

(* Every step keeps the list, the lock and the channel states well typed. *)
LEMMA ListTypeStep ==
    ASSUME ListTypeOK, [Next]_busVars
    PROVE  ListTypeOK'
  <1> USE BusAssumption DEF ListTypeOK
  <1>1. ASSUME NEW p \in Publishers, NEW t \in Topics \ {TopicAll},
               PublishBegin(p, t)
        PROVE  ListTypeOK'
    BY <1>1 DEF PublishBegin
  <1>2. ASSUME NEW p \in Publishers, PublishStep(p) PROVE ListTypeOK'
    BY <1>2 DEF PublishStep
  <1>3. ASSUME NEW p \in Publishers, PublishEnd(p) PROVE ListTypeOK'
    BY <1>3 DEF PublishEnd
  <1>4. ASSUME LockRequest PROVE ListTypeOK'
    BY <1>4 DEF LockRequest, Lock, WriteCalls
  <1>5. ASSUME NEW s \in Subs, NEW T \in TopicSets, Subscribe(s, T)
        PROVE  ListTypeOK'
    BY <1>5 DEF Subscribe, Unlock
  <1>6. ASSUME NEW s \in Subs, Unsubscribe(s) PROVE ListTypeOK'
    <2>1. ASSUME NEW i \in 1..Len(subscribers)
          PROVE  RemoveIndex(i) \in Seq(Subs)
      <3>1. Len(subscribers) - 1 \in Nat
        BY <2>1
      <3>2. \A j \in 1..(Len(subscribers) - 1) :
               (IF j < i THEN subscribers[j] ELSE subscribers[j + 1]) \in Subs
        BY <2>1
      <3> QED
        BY <3>1, <3>2, IsASeq DEF RemoveIndex
    <2>2. subscribers' \in Seq(Subs)
      BY <1>6, <2>1 DEF Unsubscribe
    <2>3. chan' \in [Subs -> {"none", "open", "closed"}]
      BY <1>6 DEF Unsubscribe
    <2> QED
      BY <1>6, <2>2, <2>3 DEF Unsubscribe, Unlock
  <1>7. ASSUME Shutdown PROVE ListTypeOK'
    BY <1>7 DEF Shutdown, Unlock
  <1>8. ASSUME NEW s \in Subs, Receive(s) PROVE ListTypeOK'
    BY <1>8 DEF Receive
  <1>9. CASE UNCHANGED busVars
    BY <1>9 DEF busVars
  <1> QED
    BY <1>1, <1>2, <1>3, <1>4, <1>5, <1>6, <1>7, <1>8, <1>9
    DEF Next, PublishNext, WriterNext

(* Every step keeps the local variables of the Publish calls well typed. *)
LEMMA CallTypeStep ==
    ASSUME CallTypeOK, [Next]_busVars
    PROVE  CallTypeOK'
  <1> USE BusAssumption DEF CallTypeOK
  <1>1. ASSUME NEW p \in Publishers, NEW t \in Topics \ {TopicAll},
               PublishBegin(p, t)
        PROVE  CallTypeOK'
    BY <1>1 DEF PublishBegin
  <1>2. ASSUME NEW p \in Publishers, PublishStep(p) PROVE CallTypeOK'
    BY <1>2 DEF PublishStep
  <1>3. ASSUME NEW p \in Publishers, PublishEnd(p) PROVE CallTypeOK'
    BY <1>3 DEF PublishEnd, NoEvent
  <1>4. ASSUME UNCHANGED <<cursor, sent, cur>> PROVE CallTypeOK'
    BY <1>4
  <1> QED
    BY <1>1, <1>2, <1>3, <1>4
    DEF Next, PublishNext, WriterNext, LockRequest, Lock, Subscribe,
        Unsubscribe, Shutdown, Receive, busVars

(* Every step keeps the channels' contents well typed and within capacity. *)
LEMMA StreamTypeStep ==
    ASSUME TypeOK, [Next]_busVars
    PROVE  StreamTypeOK'
  <1> USE BusAssumption DEF StreamTypeOK, TypeOK
  <1>1. ASSUME NEW p \in Publishers, PublishStep(p) PROVE StreamTypeOK'
    <2> DEFINE s == subscribers[cursor[p]]
               ev == Event(p, cur[p].seq)
    <2>1. s \in Subs
      BY <1>1 DEF ListTypeOK, CallTypeOK, PublishStep
    <2>2. ev \in Events
      BY DEF CallTypeOK, Event, Events
    <2>3. CASE Matches(s, cur[p].topic)
      <3>1. TrySend(s, ev) /\ got' = got
        BY <1>1, <2>3 DEF PublishStep
      <3>2. /\ buf' \in [Subs -> Seq(Events)]
            /\ \A x \in Subs : Len(buf'[x]) <= BufSize
        BY <3>1, <2>1, <2>2 DEF TrySend
      <3>3. dropped' \in [Subs -> SUBSET Events]
        BY <3>1, <2>1, <2>2 DEF TrySend
      <3>4. panics' \in SUBSET Subs
        BY <3>1, <2>1 DEF TrySend
      <3> QED
        BY <3>1, <3>2, <3>3, <3>4
    <2>4. CASE ~Matches(s, cur[p].topic)
      BY <1>1, <2>4 DEF PublishStep
    <2> QED
      BY <2>3, <2>4
  <1>2. ASSUME NEW s \in Subs, Receive(s) PROVE StreamTypeOK'
    BY <1>2 DEF Receive
  <1>3. ASSUME NEW s \in Subs, Unsubscribe(s) PROVE StreamTypeOK'
    BY <1>3 DEF Unsubscribe
  <1>4. ASSUME Shutdown PROVE StreamTypeOK'
    <2>1. Listed \subseteq Subs
      BY DEF Listed, ListTypeOK
    <2> QED
      BY <1>4, <2>1 DEF Shutdown
  <1>5. ASSUME UNCHANGED <<buf, got, dropped, panics>> PROVE StreamTypeOK'
    BY <1>5
  <1> QED
    BY <1>1, <1>2, <1>3, <1>4, <1>5
    DEF Next, PublishNext, PublishBegin, PublishEnd, WriterNext, LockRequest,
        Lock, Subscribe, busVars

(* A listed subscription has an open channel. *)
LEMMA ListedAreOpen ==
    ASSUME ListedOpen PROVE \A s \in Listed : chan[s] = "open"
  BY DEF Listed, ListedOpen

(* The list stays a list of distinct open channels, so nothing panics. *)
LEMMA ListStep ==
    ASSUME BusInv, [Next]_busVars
    PROVE  ListedOpen' /\ NoPanic'
  <1> USE BusAssumption DEF BusInv, TypeOK, NoPanic
  <1>1. ASSUME NEW p \in Publishers, NEW t \in Topics \ {TopicAll},
               PublishBegin(p, t)
        PROVE  ListedOpen' /\ NoPanic'
    BY <1>1 DEF ListedOpen, PublishBegin
  <1>2. ASSUME NEW p \in Publishers, PublishStep(p)
        PROVE  ListedOpen' /\ NoPanic'
    <2>1. chan[subscribers[cursor[p]]] = "open"
      <3>1. cursor[p] \in 1..Len(subscribers)
        BY <1>2 DEF ListTypeOK, CallTypeOK, PublishStep
      <3> QED
        BY <3>1 DEF ListedOpen
    <2>2. panics' = {}
      BY <1>2, <2>1 DEF PublishStep, TrySend
    <2> QED
      BY <1>2, <2>2 DEF ListedOpen, PublishStep
  <1>3. ASSUME NEW p \in Publishers, PublishEnd(p)
        PROVE  ListedOpen' /\ NoPanic'
    BY <1>3 DEF ListedOpen, PublishEnd
  <1>4. ASSUME LockRequest PROVE ListedOpen' /\ NoPanic'
    <2>1. UNCHANGED <<subscribers, chan, panics>>
      BY <1>4 DEF LockRequest, Lock
    <2>2. ASSUME NEW s \in Subs, writer' = SubscribeCall(s)
          PROVE  chan[s] = "none"
      <3>1. CASE \E x \in Subs : chan[x] = "none" /\ Lock(SubscribeCall(x))
        <4>1. PICK x \in Subs : chan[x] = "none" /\ writer' = SubscribeCall(x)
          BY <3>1 DEF Lock
        <4>2. SubscribeCall(x) = SubscribeCall(s)
          BY <2>2, <4>1
        <4>3. x = s
          BY <4>2 DEF SubscribeCall
        <4> QED
          BY <4>1, <4>3
      <3>2. CASE \E x \in Subs : chan[x] # "none" /\ Lock(UnsubscribeCall(x))
        <4>1. PICK x \in Subs : writer' = UnsubscribeCall(x)
          BY <3>2 DEF Lock
        <4>2. UnsubscribeCall(x) = SubscribeCall(s)
          BY <2>2, <4>1
        <4> QED
          BY <4>2 DEF UnsubscribeCall, SubscribeCall
      <3>3. CASE Lock(ShutdownCall)
        BY <2>2, <3>3, CallsDiffer DEF Lock
      <3> QED
        BY <1>4, <3>1, <3>2, <3>3 DEF LockRequest
    <2> QED
      BY <2>1, <2>2 DEF ListedOpen
  <1>5. ASSUME NEW s \in Subs, NEW T \in TopicSets, Subscribe(s, T)
        PROVE  ListedOpen' /\ NoPanic'
    <2>1. chan[s] = "none"
      BY <1>5 DEF ListedOpen, Subscribe, Locked
    <2>2. \A i \in 1..Len(subscribers) :
             subscribers[i] # s /\ subscribers[i] \in Subs
      BY <2>1 DEF ListedOpen, ListTypeOK
    <2>3. /\ Len(subscribers') = Len(subscribers) + 1
          /\ \A i \in 1..Len(subscribers) : subscribers'[i] = subscribers[i]
          /\ subscribers'[Len(subscribers) + 1] = s
          /\ Len(subscribers) \in Nat
      BY <1>5 DEF Subscribe, ListTypeOK
    <2>4. /\ chan'[s] = "open"
          /\ \A x \in Subs : x # s => chan'[x] = chan[x]
      BY <1>5 DEF Subscribe, ListTypeOK
    <2>5. \A i \in 1..Len(subscribers') : chan'[subscribers'[i]] = "open"
      BY <2>2, <2>3, <2>4 DEF ListedOpen
    <2>6. \A i, j \in 1..Len(subscribers') :
             subscribers'[i] = subscribers'[j] => i = j
      BY <2>2, <2>3 DEF ListedOpen
    <2>7. writer' = NoCall /\ panics' = panics
      BY <1>5 DEF Subscribe, Unlock
    <2> QED
      BY <2>5, <2>6, <2>7, CallsDiffer DEF ListedOpen
  <1>6. ASSUME NEW s \in Subs, Unsubscribe(s)
        PROVE  ListedOpen' /\ NoPanic'
    <2>0. writer' = NoCall
      BY <1>6 DEF Unsubscribe, Unlock
    <2>1. CASE UNCHANGED <<panics, chan, subscribers>>
      BY <2>0, <2>1, CallsDiffer DEF ListedOpen
    <2>2. ASSUME NEW i \in 1..Len(subscribers),
                 subscribers[i] = s,
                 panics' = panics \cup {x \in {s} : chan[x] = "closed"},
                 chan' = [chan EXCEPT ![s] = "closed"],
                 subscribers' = RemoveIndex(i)
          PROVE  ListedOpen' /\ NoPanic'
      <3>1. panics' = {}
        BY <2>2 DEF ListedOpen
      <3>2. Len(subscribers) \in Nat /\ Len(subscribers) - 1 \in Nat
        BY <2>2 DEF ListTypeOK
      <3>3. /\ Len(subscribers') = Len(subscribers) - 1
            /\ \A j \in 1..(Len(subscribers) - 1) :
                  subscribers'[j] = IF j < i THEN subscribers[j]
                                             ELSE subscribers[j + 1]
        <4>1. DOMAIN subscribers' = 1..(Len(subscribers) - 1)
          BY <2>2 DEF RemoveIndex
        <4>2. subscribers' \in Seq(Subs)
          BY ListTypeStep DEF ListTypeOK
        <4>3. Len(subscribers') = Len(subscribers) - 1
          BY <3>2, <4>1, <4>2, LenProperties
        <4> QED
          BY <2>2, <4>3 DEF RemoveIndex
      <3>4. \A j \in 1..(Len(subscribers) - 1) :
               \E k \in 1..Len(subscribers) :
                  /\ k # i
                  /\ subscribers'[j] = subscribers[k]
                  /\ k = IF j < i THEN j ELSE j + 1
        BY <3>2, <3>3
      <3>5. ASSUME NEW j \in 1..Len(subscribers')
            PROVE  chan'[subscribers'[j]] = "open"
        <4>1. PICK k \in 1..Len(subscribers) :
                 k # i /\ subscribers'[j] = subscribers[k]
          BY <3>3, <3>4
        <4>2. subscribers[k] # s /\ subscribers[k] \in Subs
          BY <2>2, <4>1 DEF ListedOpen, ListTypeOK
        <4> QED
          BY <2>2, <4>1, <4>2 DEF ListedOpen, ListTypeOK
      <3>6. ASSUME NEW j \in 1..Len(subscribers'),
                   NEW k \in 1..Len(subscribers'),
                   subscribers'[j] = subscribers'[k]
            PROVE  j = k
        <4>1. /\ j \in 1..(Len(subscribers) - 1)
              /\ k \in 1..(Len(subscribers) - 1)
          BY <3>3
        <4> QED
          BY <3>2, <3>3, <3>6, <4>1 DEF ListedOpen
      <3> QED
        BY <2>0, <3>1, <3>5, <3>6, CallsDiffer DEF ListedOpen
    <2> QED
      BY <1>6, <2>1, <2>2 DEF Unsubscribe
  <1>7. ASSUME Shutdown PROVE ListedOpen' /\ NoPanic'
    <2>1. panics' = {}
      BY <1>7, ListedAreOpen DEF Shutdown
    <2>2. subscribers' = <<>> /\ Len(subscribers') = 0 /\ writer' = NoCall
      BY <1>7 DEF Shutdown, Unlock
    <2> QED
      BY <2>1, <2>2, CallsDiffer DEF ListedOpen
  <1>8. ASSUME NEW s \in Subs, Receive(s) PROVE ListedOpen' /\ NoPanic'
    BY <1>8 DEF ListedOpen, Receive
  <1>9. CASE UNCHANGED busVars
    BY <1>9 DEF ListedOpen, busVars
  <1> QED
    BY <1>1, <1>2, <1>3, <1>4, <1>5, <1>6, <1>7, <1>8, <1>9
    DEF Next, PublishNext, WriterNext

(* The inductive invariant of the bus holds in every reachable state. *)
THEOREM BusInvariant == Spec => []BusInv
  <1>1. Init => BusInv
    BY InitBusInv
  <1>2. BusInv /\ [Next]_busVars => BusInv'
    BY ListTypeStep, CallTypeStep, StreamTypeStep, ListStep DEF BusInv, TypeOK
  <1> QED
    BY <1>1, <1>2, PTL DEF Spec

(* Types are respected and no channel holds more than its capacity. *)
THEOREM BusTypeCorrect == Spec => []TypeOK
  <1>1. BusInv => TypeOK
    BY DEF BusInv
  <1> QED
    BY <1>1, BusInvariant, PTL

(* bus.go never sends on a closed channel nor closes one twice. *)
THEOREM BusNeverPanics == Spec => []NoPanic
  <1>1. BusInv => NoPanic
    BY DEF BusInv
  <1> QED
    BY <1>1, BusInvariant, PTL
-----------------------------------------------------------------------------
(* Appending to the second of two sequences appends to their concatenation. *)
LEMMA AppendToStream ==
    ASSUME NEW g \in Seq(Events), NEW b \in Seq(Events), NEW e \in Events
    PROVE  g \o Append(b, e) = Append(g \o b, e)
  OBVIOUS

(* Moving the head of b to the end of g does not change g \o b. *)
LEMMA ReceiveFromStream ==
    ASSUME NEW g \in Seq(Events), NEW b \in Seq(Events), b # <<>>
    PROVE  Append(g, Head(b)) \o Tail(b) = g \o b
  OBVIOUS

(* A step of Publish appends its event to the stream of the subscriber at   *)
(* the cursor, or changes no stream.                                        *)
LEMMA StreamOfPublish ==
    ASSUME TypeOK, NEW p \in Publishers, PublishStep(p)
    PROVE  LET c == subscribers[cursor[p]]
               ev == Event(p, cur[p].seq)
           IN  /\ c \in Subs
               /\ \A s \in Subs : s # c => Stream(s)' = Stream(s)
               /\ \A s \in Subs : s = c =>
                     \/ Stream(s)' = Stream(s)
                     \/ Stream(s)' = Append(Stream(s), ev)
  <1> DEFINE c == subscribers[cursor[p]]
             ev == Event(p, cur[p].seq)
  <1>1. c \in Subs /\ ev \in Events
    BY DEF TypeOK, ListTypeOK, CallTypeOK, PublishStep, Event, Events
  <1>2. got' = got /\ (TrySend(c, ev) \/ buf' = buf)
    BY DEF PublishStep
  <1>3. \A s \in Subs : s # c => buf'[s] = buf[s]
    BY <1>1, <1>2 DEF TrySend, TypeOK, StreamTypeOK
  <1>4. buf'[c] = buf[c] \/ buf'[c] = Append(buf[c], ev)
    BY <1>1, <1>2 DEF TrySend, TypeOK, StreamTypeOK
  <1>5. got[c] \o Append(buf[c], ev) = Append(got[c] \o buf[c], ev)
    <2>1. got[c] \in Seq(Events) /\ buf[c] \in Seq(Events)
      BY <1>1 DEF TypeOK, StreamTypeOK
    <2> HIDE DEF c, ev
    <2> QED
      BY <1>1, <2>1, AppendToStream
  <1>6. \A s \in Subs : s # c => Stream(s)' = Stream(s)
    BY <1>2, <1>3 DEF Stream
  <1>7. \A s \in Subs : s = c => /\ Stream(s)' = got[c] \o buf'[c]
                                  /\ Stream(s) = got[c] \o buf[c]
    BY <1>2 DEF Stream
  <1> QED
    BY <1>1, <1>4, <1>5, <1>6, <1>7

(* Every other step leaves all the streams alone. *)
LEMMA StreamUnchanged ==
    ASSUME TypeOK, [Next]_busVars,
           ~ \E p \in Publishers : PublishStep(p)
    PROVE  \A s \in Subs : Stream(s)' = Stream(s)
  <1>1. ASSUME NEW r \in Subs, Receive(r), NEW s \in Subs
        PROVE  Stream(s)' = Stream(s)
    <2>1. CASE s = r
      BY <1>1, <2>1, ReceiveFromStream
      DEF Receive, Stream, TypeOK, StreamTypeOK
    <2>2. CASE s # r
      BY <1>1, <2>2 DEF Receive, Stream, TypeOK, StreamTypeOK
    <2> QED
      BY <2>1, <2>2
  <1>2. CASE UNCHANGED <<buf, got>>
    BY <1>2 DEF Stream
  <1> QED
    BY <1>1, <1>2
    DEF Next, PublishNext, PublishBegin, PublishEnd, WriterNext, LockRequest,
        Lock, Subscribe, Unsubscribe, Shutdown, busVars

(* An appended event sits at the end and moves nothing. *)
LEMMA AppendedAt ==
    ASSUME NEW q \in Seq(Events), NEW e \in Events
    PROVE  /\ Len(Append(q, e)) = Len(q) + 1
           /\ \A i \in 1..Len(q) : Append(q, e)[i] = q[i]
           /\ Append(q, e)[Len(q) + 1] = e
  OBVIOUS

(* Streams are sequences of events. *)
LEMMA StreamType ==
    ASSUME TypeOK PROVE \A s \in Subs : Stream(s) \in Seq(Events)
  BY DEF TypeOK, StreamTypeOK, Stream

(* One step of Publish keeps the streams ordered. *)
LEMMA FifoPublish ==
    ASSUME BusInv, FifoInv, NEW p \in Publishers, PublishStep(p)
    PROVE  FifoInv'
  <1> DEFINE c == subscribers[cursor[p]]
             ev == Event(p, cur[p].seq)
  <1>1. /\ c \in Subs
        /\ \A s \in Subs : s # c => Stream(s)' = Stream(s)
        /\ \A s \in Subs : s = c => \/ Stream(s)' = Stream(s)
                                    \/ Stream(s)' = Append(Stream(s), ev)
    BY StreamOfPublish DEF BusInv
  <1>2. /\ ev \in Events /\ ev.pub = p /\ ev.seq = cur[p].seq
        /\ cur[p].seq \in Nat /\ sent \in Nat /\ cur[p].seq <= sent
        /\ cursor[p] \in 1..Len(subscribers) /\ p \in readers
    BY DEF BusInv, TypeOK, ListTypeOK, CallTypeOK, PublishStep, Event, Events,
           FifoInv
  <1>3. /\ UNCHANGED <<subscribers, readers, sent, cur>>
        /\ cursor'[p] = cursor[p] + 1
        /\ \A q \in Publishers : q # p => cursor'[q] = cursor[q]
    BY DEF PublishStep, BusInv, TypeOK, CallTypeOK
  <1>4. \A i \in 1..Len(Stream(c)) :
           Stream(c)[i].pub = p => Stream(c)[i].seq < cur[p].seq
    <2>1. Ahead(p, c)
      BY <1>2 DEF Ahead
    <2> QED
      BY <1>1, <1>2, <2>1 DEF FifoInv
  <1>5. Stream(c) \in Seq(Events) /\ \A s \in Subs : Stream(s) \in Seq(Events)
    BY <1>1, StreamType DEF BusInv
  <1> HIDE DEF c, ev
  <1>6. ASSUME NEW s \in Subs,
               Stream(s)' = Stream(s) \/ (s = c /\ Stream(s)' = Append(Stream(s), ev))
        PROVE  /\ \A i, j \in 1..Len(Stream(s)') :
                     i < j /\ Stream(s)'[i].pub = Stream(s)'[j].pub
                        => Stream(s)'[i].seq < Stream(s)'[j].seq
               /\ \A i \in 1..Len(Stream(s)') : Stream(s)'[i].seq <= sent
    <2>1. CASE Stream(s)' = Stream(s)
      BY <2>1 DEF FifoInv, FifoPerPublisher
    <2>2. CASE s = c /\ Stream(s)' = Append(Stream(s), ev)
      <3>1. /\ Len(Stream(s)') = Len(Stream(s)) + 1
            /\ \A i \in 1..Len(Stream(s)) : Stream(s)'[i] = Stream(s)[i]
            /\ Stream(s)'[Len(Stream(s)) + 1] = ev
            /\ Len(Stream(s)) \in Nat
        BY <1>2, <1>5, <2>2, AppendedAt
      <3> QED
        BY <1>2, <1>4, <2>2, <3>1 DEF FifoInv, FifoPerPublisher
    <2> QED
      BY <1>6, <2>1, <2>2
  <1>7. \A s \in Subs : Stream(s)' = Stream(s)
                        \/ (s = c /\ Stream(s)' = Append(Stream(s), ev))
    BY <1>1
  <1>8. ASSUME NEW q \in readers, NEW s \in Subs, Ahead(q, s)',
               NEW i \in 1..Len(Stream(s)'),
               Stream(s)'[i].pub = q
        PROVE  Stream(s)'[i].seq < cur[q].seq
    <2>0. q \in Publishers /\ Len(subscribers) \in Nat
      BY DEF BusInv, TypeOK, ListTypeOK
    <2>1. PICK k \in cursor'[q]..Len(subscribers) : subscribers[k] = s
      BY <1>3, <1>8 DEF Ahead
    <2>2. k \in cursor[q]..Len(subscribers) /\ k \in 1..Len(subscribers)
      <3>1. cursor[q] \in Nat \ {0}
        BY <2>0 DEF BusInv, TypeOK, CallTypeOK
      <3>2. cursor'[q] \in {cursor[q], cursor[q] + 1}
        BY <1>3, <2>0
      <3> QED
        BY <2>0, <2>1, <3>1, <3>2
    <2>3. Ahead(q, s)
      BY <2>1, <2>2 DEF Ahead
    <2>4. CASE Stream(s)' = Stream(s)
      BY <1>8, <2>3, <2>4 DEF FifoInv
    <2>5. CASE s = c /\ Stream(s)' = Append(Stream(s), ev)
      <3>1. q # p
        <4>1. SUFFICES ASSUME q = p PROVE FALSE
          OBVIOUS
        <4>2. k # cursor[p]
          BY <1>2, <1>3, <2>1, <2>2, <4>1
        <4>3. subscribers[k] = subscribers[cursor[p]]
          BY <2>1, <2>5 DEF c
        <4> QED
          BY <1>2, <2>2, <4>2, <4>3 DEF BusInv, ListedOpen
      <3>2. /\ Len(Stream(s)') = Len(Stream(s)) + 1
            /\ \A j \in 1..Len(Stream(s)) : Stream(s)'[j] = Stream(s)[j]
            /\ Stream(s)'[Len(Stream(s)) + 1] = ev
            /\ Len(Stream(s)) \in Nat
        BY <1>2, <1>5, <2>5, AppendedAt
      <3>3. i \in 1..Len(Stream(s))
        BY <1>2, <1>8, <3>1, <3>2
      <3>4. Stream(s)'[i] = Stream(s)[i]
        BY <3>2, <3>3
      <3> QED
        BY <1>8, <2>3, <3>3, <3>4 DEF FifoInv
    <2> QED
      BY <1>7, <2>4, <2>5
  <1> QED
    BY <1>3, <1>6, <1>7, <1>8 DEF FifoInv, FifoPerPublisher

(* A step that changes no stream and moves no loop keeps them ordered; one  *)
(* that changes the list holds the lock alone, so no loop is under way.     *)
LEMMA FifoOther ==
    ASSUME BusInv, FifoInv, [Next]_busVars,
           ~ \E p \in Publishers : PublishStep(p)
    PROVE  FifoInv'
  <1>1. \A s \in Subs : Stream(s)' = Stream(s)
    BY StreamUnchanged DEF BusInv
  <1>2. sent \in Nat /\ \A q \in Publishers : cur[q].seq \in Nat
    BY DEF BusInv, TypeOK, CallTypeOK
  <1>3. \A s \in Subs : Stream(s) \in Seq(Events)
    BY StreamType DEF BusInv
  <1>4. ASSUME NEW p \in Publishers, NEW t \in Topics \ {TopicAll},
               PublishBegin(p, t)
        PROVE  FifoInv'
    <2>1. sent' = sent + 1 /\ UNCHANGED subscribers
      BY <1>4 DEF PublishBegin
    <2>2. ASSUME NEW s \in Subs, NEW i \in 1..Len(Stream(s))
          PROVE  Stream(s)[i].seq \in Nat /\ Stream(s)[i].seq <= sent
      <3>1. Stream(s)[i] \in Events
        BY <1>3, <2>2, ElementOfSeq
      <3> QED
        BY <2>2, <3>1 DEF FifoInv, Events
    <2>3. \A q \in readers' : q = p \/ (q \in readers /\ q # p)
      BY <1>4 DEF PublishBegin, RLock
    <2>4. ASSUME NEW q \in readers, q # p
          PROVE  cur'[q] = cur[q] /\ cursor'[q] = cursor[q] /\ q \in Publishers
      BY <1>4, <2>4 DEF PublishBegin, BusInv, TypeOK, CallTypeOK, ListTypeOK
    <2>5. p \in readers' => cur'[p].seq = sent + 1
      BY <1>4 DEF PublishBegin, RLock, BusInv, TypeOK, CallTypeOK
    <2>6. \A q \in readers' : cur'[q].seq <= sent'
      BY <1>2, <2>1, <2>3, <2>4, <2>5 DEF FifoInv
    <2>7. \A s \in Subs : \A i \in 1..Len(Stream(s)) : Stream(s)[i].seq <= sent'
      BY <1>2, <2>1, <2>2
    <2>8. ASSUME NEW q \in readers', NEW s \in Subs, Ahead(q, s)',
                 NEW i \in 1..Len(Stream(s)), Stream(s)[i].pub = q
          PROVE  Stream(s)[i].seq < cur'[q].seq
      <3>1. CASE q = p
        BY <1>2, <2>2, <2>5, <2>8, <3>1
      <3>2. CASE q \in readers /\ q # p
        <4>1. Ahead(q, s)
          BY <2>1, <2>4, <2>8, <3>2 DEF Ahead
        <4> QED
          BY <2>4, <2>8, <3>2, <4>1 DEF FifoInv
      <3> QED
        BY <2>3, <3>1, <3>2
    <2> QED
      BY <1>1, <2>6, <2>7, <2>8 DEF FifoInv, FifoPerPublisher
  <1>5. ASSUME NEW p \in Publishers, PublishEnd(p) PROVE FifoInv'
    <2>1. /\ UNCHANGED <<sent, subscribers>>
          /\ \A q \in readers' : /\ q \in readers
                                 /\ cur'[q] = cur[q]
                                 /\ cursor'[q] = cursor[q]
      BY <1>5 DEF PublishEnd, BusInv, TypeOK, CallTypeOK, ListTypeOK
    <2>2. \A q \in readers', s \in Subs : Ahead(q, s)' => Ahead(q, s)
      BY <2>1 DEF Ahead
    <2> QED
      BY <1>1, <2>1, <2>2 DEF FifoInv, FifoPerPublisher
  <1>6. CASE readers' = {} /\ sent' = sent
    BY <1>1, <1>6 DEF FifoInv, FifoPerPublisher
  <1>7. CASE UNCHANGED <<subscribers, readers, cursor, cur, sent>>
    <2>1. \A q \in readers', s \in Subs : Ahead(q, s)' => Ahead(q, s)
      BY <1>7 DEF Ahead
    <2> QED
      BY <1>1, <1>7, <2>1 DEF FifoInv, FifoPerPublisher
  <1> QED
    BY <1>4, <1>5, <1>6, <1>7
    DEF Next, PublishNext, WriterNext, LockRequest, Lock, Subscribe,
        Unsubscribe, Shutdown, Locked, Receive, busVars

(* Each publisher's events reach each consumer in order and at most once,   *)
(* because Publish holds the read lock for its whole loop.                  *)
THEOREM BusIsFifo == Spec => []FifoPerPublisher
  <1>1. Init => FifoInv
    <2> SUFFICES ASSUME Init PROVE FifoInv
      OBVIOUS
    <2>1. readers = {} /\ \A s \in Subs : Stream(s) = <<>>
      BY DEF Init, Stream
    <2>2. \A s \in Subs : Len(Stream(s)) = 0
      BY <2>1
    <2> QED
      BY <2>1, <2>2 DEF FifoInv, FifoPerPublisher
  <1>2. BusInv /\ FifoInv /\ [Next]_busVars => FifoInv'
    BY FifoPublish, FifoOther
  <1>3. FifoInv => FifoPerPublisher
    BY DEF FifoInv
  <1> QED
    BY <1>1, <1>2, <1>3, BusInvariant, PTL DEF Spec
-----------------------------------------------------------------------------
(* One step of Publish offers its event to the subscriber at the cursor and *)
(* takes back nothing that was offered before.                              *)
LEMMA OfferOfPublish ==
    ASSUME BusInv, NEW p \in Publishers, PublishStep(p),
           NEW c, c = subscribers[cursor[p]]
    PROVE  /\ \A q \in Publishers, s \in Subs : Offered(q, s) => Offered(q, s)'
           /\ Matches(c, cur[p].topic) => Offered(p, c)'
  <1>0. PICK ev : ev = Event(p, cur[p].seq)
    OBVIOUS
  <1>1. /\ c \in Subs
        /\ \A s \in Subs : s # c => Stream(s)' = Stream(s)
        /\ Stream(c)' = Stream(c) \/ Stream(c)' = Append(Stream(c), ev)
    BY <1>0, StreamOfPublish DEF BusInv
  <1>2. /\ ev \in Events /\ chan[c] = "open" /\ cur' = cur /\ got' = got /\ subscribers' = subscribers
        /\ cursor[p] \in 1..Len(subscribers)
    <2>1. cursor[p] \in 1..Len(subscribers)
      BY DEF PublishStep, BusInv, TypeOK, ListTypeOK, CallTypeOK
    <2> QED
      BY <1>0, <2>1 DEF BusInv, ListedOpen, TypeOK, CallTypeOK, PublishStep, Event, Events
  <1>3. \A s \in Subs : Stream(s) \in Seq(Events)
    BY StreamType DEF BusInv
  <1>4. ASSUME NEW s \in Subs, NEW e, InStream(s, e)
        PROVE  InStream(s, e)'
    <2>1. PICK i \in 1..Len(Stream(s)) : Stream(s)[i] = e
      BY <1>4 DEF InStream
    <2>2. i \in 1..Len(Stream(s)') /\ Stream(s)'[i] = e
      <3>1. CASE Stream(s)' = Stream(s)
        BY <2>1, <3>1
      <3>2. CASE Stream(s)' = Append(Stream(s), ev)
        BY <1>2, <1>3, <2>1, <3>2, AppendedAt
      <3> QED
        BY <1>1, <3>1, <3>2
    <2> QED
      BY <2>2 DEF InStream
  <1>5. \A s \in Subs : dropped[s] \subseteq dropped'[s]
    <2>1. dropped \in [Subs -> SUBSET Events]
      BY DEF BusInv, TypeOK, StreamTypeOK
    <2>2. TrySend(c, ev) \/ dropped' = dropped
      BY <1>0 DEF PublishStep
    <2>3. CASE TrySend(c, ev)
      <3>1. PICK D : dropped' = [dropped EXCEPT ![c] = D] /\ dropped[c] \subseteq D
        BY <2>3 DEF TrySend
      <3> QED
        BY <1>1, <2>1, <3>1
    <2> QED
      BY <2>2, <2>3
  <1>6. \A q \in Publishers, s \in Subs : Offered(q, s) => Offered(q, s)'
    BY <1>2, <1>4, <1>5 DEF Offered
  <1>7. ASSUME Matches(c, cur[p].topic)
        PROVE  Offered(p, c)'
    <2>1. TrySend(c, ev)
      BY <1>0, <1>7 DEF PublishStep
    <2>2. CASE Len(buf[c]) < BufSize
      <3>1. buf'[c] = Append(buf[c], ev)
        BY <1>1, <1>2, <2>1, <2>2 DEF TrySend, BusInv, TypeOK, StreamTypeOK
      <3>2. got[c] \in Seq(Events) /\ buf[c] \in Seq(Events)
        BY <1>1 DEF BusInv, TypeOK, StreamTypeOK
      <3>3. Stream(c)' = Append(Stream(c), ev)
        <4>1. PICK g \in Seq(Events), b \in Seq(Events) : g = got[c] /\ b = buf[c]
          BY <3>2
        <4>2. Stream(c) = g \o b /\ Stream(c)' = g \o Append(b, ev)
          BY <1>2, <3>1, <4>1 DEF Stream
        <4>3. g \o Append(b, ev) = Append(g \o b, ev)
          BY <1>2, AppendToStream
        <4> QED
          BY <4>2, <4>3
      <3>4. /\ Len(Stream(c)') = Len(Stream(c)) + 1 /\ Len(Stream(c)) \in Nat
            /\ Stream(c)'[Len(Stream(c)) + 1] = ev
        BY <1>1, <1>2, <1>3, <3>3, AppendedAt
      <3>5. InStream(c, ev)'
        BY <3>4 DEF InStream
      <3> QED
        BY <1>0, <1>2, <3>5 DEF Offered
    <2>3. CASE ~(Len(buf[c]) < BufSize)
      <3>1. ev \in dropped'[c]
        BY <1>1, <1>2, <2>1, <2>3 DEF TrySend, BusInv, TypeOK, StreamTypeOK
      <3> QED
        BY <1>0, <1>2, <3>1 DEF Offered
    <2> QED
      BY <2>2, <2>3
  <1> QED
    BY <1>6, <1>7

(* Every step keeps OfferInv: a step that changes the list holds the lock   *)
(* alone, so no loop is under way.                                          *)
LEMMA OfferStep ==
    ASSUME BusInv, OfferInv, [Next]_busVars
    PROVE  OfferInv'
  <1>0. /\ Len(subscribers) \in Nat /\ readers \subseteq Publishers
        /\ cursor \in [Publishers -> Nat \ {0}]
        /\ \A k \in 1..Len(subscribers) : subscribers[k] \in Subs
    BY DEF BusInv, TypeOK, ListTypeOK, CallTypeOK
  <1>1. ASSUME NEW p \in Publishers, PublishStep(p) PROVE OfferInv'
    <2>1. PICK c : c = subscribers[cursor[p]]
      OBVIOUS
    <2>2. /\ \A q \in Publishers, s \in Subs : Offered(q, s) => Offered(q, s)'
          /\ Matches(c, cur[p].topic) => Offered(p, c)'
      BY <1>1, <2>1, OfferOfPublish
    <2>3. /\ UNCHANGED <<subscribers, readers, cur, topics>> /\ p \in readers
          /\ cursor'[p] = cursor[p] + 1
          /\ \A q \in Publishers : q # p => cursor'[q] = cursor[q]
      BY <1>0, <1>1 DEF PublishStep
    <2>4. ASSUME NEW q \in readers, NEW k \in 1..Len(subscribers), k < cursor'[q],
                 NEW s \in Subs, s = subscribers[k], Matches(s, cur[q].topic)
          PROVE  Offered(q, s)'
      <3>1. CASE k < cursor[q]
        BY <1>0, <2>2, <2>4, <3>1 DEF OfferInv
      <3>2. CASE ~(k < cursor[q])
        <4>1. q = p /\ k = cursor[p]
          BY <1>0, <2>3, <2>4, <3>2
        <4>2. s = c
          BY <2>1, <2>4, <4>1
        <4> QED
          BY <2>2, <2>4, <4>1, <4>2
      <3> QED
        BY <3>1, <3>2
    <2>5. ASSUME NEW q \in readers', NEW k \in 1..Len(subscribers'), k < cursor'[q],
                 Matches(subscribers[k], cur[q].topic)'
          PROVE  Offered(q, subscribers[k])'
      <3>1. PICK s \in Subs : s = subscribers[k]
        BY <1>0, <2>3
      <3>2. Matches(s, cur[q].topic)
        BY <2>3, <2>5, <3>1 DEF Matches
      <3>3. Offered(q, s)'
        BY <2>3, <2>4, <2>5, <3>1, <3>2
      <3> QED
        BY <2>3, <3>1, <3>3 DEF Offered
    <2>6. \A q \in Publishers \ readers' : cursor'[q] = 1
      BY <2>3 DEF OfferInv
    <2> QED
      BY <2>5, <2>6 DEF OfferInv
  <1>2. ASSUME ~ \E p \in Publishers : PublishStep(p) PROVE OfferInv'
    <2>1. /\ \A s \in Subs : Stream(s)' = Stream(s)
          /\ dropped' = dropped
      <3>1. \A s \in Subs : Stream(s)' = Stream(s)
        BY <1>2, StreamUnchanged DEF BusInv
      <3>2. dropped' = dropped
        BY <1>2 DEF Next, PublishNext, PublishBegin, PublishEnd, WriterNext, LockRequest,
            Lock, Subscribe, Unsubscribe, Shutdown, Receive, busVars
      <3> QED
        BY <3>1, <3>2
    <2>2. ASSUME UNCHANGED <<subscribers, topics>>,
                 \A q \in Publishers \ readers' : cursor'[q] = 1,
                 \A q \in readers' : \/ cursor'[q] = 1
                                     \/ q \in readers /\ cur'[q] = cur[q] /\ cursor'[q] = cursor[q]
          PROVE  OfferInv'
      <3>1. ASSUME NEW q \in readers', NEW k \in 1..Len(subscribers'), k < cursor'[q],
                   Matches(subscribers[k], cur[q].topic)'
            PROVE  Offered(q, subscribers[k])'
        <4>1. q \in readers /\ cur'[q] = cur[q] /\ cursor'[q] = cursor[q]
          BY <2>2, <3>1
        <4>2. PICK s \in Subs : s = subscribers[k]
          BY <1>0, <2>2
        <4>3. Matches(s, cur[q].topic)
          BY <2>2, <3>1, <4>1, <4>2 DEF Matches
        <4>4. Offered(q, s)
          BY <2>2, <3>1, <4>1, <4>2, <4>3 DEF OfferInv
        <4>5. Offered(q, s)'
          BY <2>1, <4>1, <4>4 DEF Offered, InStream
        <4> QED
          BY <2>2, <4>2, <4>5 DEF Offered
      <3> QED
        BY <2>2, <3>1 DEF OfferInv
    <2>3. ASSUME NEW p \in Publishers, NEW t \in Topics \ {TopicAll}, PublishBegin(p, t)
          PROVE  OfferInv'
      <3>1. /\ UNCHANGED <<subscribers, topics, cursor>> /\ p \notin readers /\ cursor[p] = 1
            /\ readers' = readers \/ readers' = readers \cup {p}
            /\ \A q \in Publishers : q # p => cur'[q] = cur[q]
        BY <2>3 DEF PublishBegin, RLock, OfferInv, BusInv, TypeOK, CallTypeOK
      <3> QED
        BY <1>0, <2>2, <3>1 DEF OfferInv
    <2>4. ASSUME NEW p \in Publishers, PublishEnd(p) PROVE OfferInv'
      <3>1. /\ UNCHANGED <<subscribers, topics>> /\ readers' = readers \ {p} /\ cursor'[p] = 1
            /\ \A q \in Publishers : q # p => cur'[q] = cur[q] /\ cursor'[q] = cursor[q]
        BY <2>4 DEF PublishEnd, BusInv, TypeOK, CallTypeOK
      <3> QED
        BY <1>0, <2>2, <3>1 DEF OfferInv
    <2>5. CASE readers = {} /\ UNCHANGED <<readers, cursor>>
      BY <2>5 DEF OfferInv
    <2>6. CASE UNCHANGED <<subscribers, topics, readers, cursor, cur>>
      BY <2>2, <2>6 DEF OfferInv
    <2> QED
      BY <1>2, <2>3, <2>4, <2>5, <2>6
      DEF Next, PublishNext, WriterNext, LockRequest, Lock, Subscribe,
          Unsubscribe, Shutdown, Locked, Receive, busVars
  <1> QED
    BY <1>1, <1>2

(* When Publish returns, every listed channel whose topics match has been   *)
(* offered the event: nobody is skipped because others subscribe, leave or  *)
(* shut the bus down, which wait for the read lock of the loop.             *)
THEOREM BusSkipsNobody == Spec => NobodySkipped
  <1>1. Init => OfferInv
    BY DEF Init, OfferInv
  <1>2. BusInv /\ OfferInv /\ [Next]_busVars => OfferInv'
    BY OfferStep
  <1>3. ASSUME BusInv, OfferInv
        PROVE  [\A p \in Publishers : PublishEnd(p) =>
                  \A s \in Listed : Matches(s, cur[p].topic) =>
                      \/ InStream(s, Event(p, cur[p].seq))
                      \/ Event(p, cur[p].seq) \in dropped[s]]_busVars
    <2> SUFFICES ASSUME NEW p \in Publishers, PublishEnd(p),
                        NEW s \in Listed, Matches(s, cur[p].topic)
                 PROVE  Offered(p, s)
      BY DEF Offered
    <2>1. PICK k \in 1..Len(subscribers) : subscribers[k] = s
      BY DEF Listed
    <2>2. p \in readers /\ k < cursor[p]
      <3>1. cursor[p] \in Nat /\ Len(subscribers) \in Nat
        BY <1>3 DEF BusInv, TypeOK, ListTypeOK, CallTypeOK
      <3> QED
        BY <3>1 DEF PublishEnd
    <2> QED
      BY <1>3, <2>1, <2>2 DEF OfferInv
  <1> QED
    BY <1>1, <1>2, <1>3, BusInvariant, PTL DEF Spec, NobodySkipped
=============================================================================
