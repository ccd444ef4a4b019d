-------------------------- MODULE ProcessorProofs --------------------------
(***************************************************************************)
(* Theorems about Processor, for any number of workers, events, addresses  *)
(* and months, any detector and any pattern of failing stores.             *)
(***************************************************************************)
EXTENDS Processor, FiniteSetTheorems, TLAPS

(* s names no call twice. *)
Unrepeated(s) == \A i, j \in DOMAIN s : s[i] = s[j] => i = j

(* What two sequences hold, one after the other. *)
LEMMA ConcatImage ==
    ASSUME NEW S, NEW s \in Seq(S), NEW t \in Seq(S)
    PROVE  /\ s \o t \in Seq(S)
           /\ Image(s \o t) = Image(s) \cup Image(t)
           /\ Unrepeated(s) /\ Unrepeated(t) /\ Image(s) \cap Image(t) = {}
                 => Unrepeated(s \o t)
<1>1. /\ s \o t \in Seq(S) /\ Len(s) \in Nat /\ Len(t) \in Nat
      /\ DOMAIN s = 1..Len(s) /\ DOMAIN t = 1..Len(t)
      /\ DOMAIN (s \o t) = 1..(Len(s) + Len(t))
      /\ \A i \in 1..(Len(s) + Len(t)) :
            (s \o t)[i] = IF i <= Len(s) THEN s[i] ELSE t[i - Len(s)]
  OBVIOUS
<1>2. Image(s \o t) \subseteq Image(s) \cup Image(t)
  BY <1>1 DEF Image
<1>3. ASSUME NEW i \in 1..Len(s) PROVE s[i] \in Image(s \o t)
  <2>1. i \in 1..(Len(s) + Len(t)) /\ (s \o t)[i] = s[i]
    BY <1>1
  <2> QED BY <1>1, <2>1 DEF Image
<1>4. ASSUME NEW i \in 1..Len(t) PROVE t[i] \in Image(s \o t)
  <2>1. /\ i + Len(s) \in 1..(Len(s) + Len(t)) /\ (s \o t)[i + Len(s)] = t[i]
    BY <1>1
  <2> QED BY <1>1, <2>1 DEF Image
<1>5. ASSUME Unrepeated(s), Unrepeated(t), Image(s) \cap Image(t) = {}
      PROVE  Unrepeated(s \o t)
  <2> SUFFICES ASSUME NEW i \in 1..(Len(s) + Len(t)), NEW j \in 1..(Len(s) + Len(t)),
                      (s \o t)[i] = (s \o t)[j]
               PROVE  i = j
    BY <1>1 DEF Unrepeated
  <2>0. \A k \in 1..Len(s), l \in 1..Len(t) : s[k] # t[l]
    BY <1>1, <1>5 DEF Image
  <2>1. CASE i <= Len(s) /\ j <= Len(s)
    BY <1>1, <1>5, <2>1 DEF Unrepeated
  <2>2. CASE i > Len(s) /\ j > Len(s)
    <3>1. i - Len(s) \in 1..Len(t) /\ j - Len(s) \in 1..Len(t)
      BY <1>1, <2>2
    <3> QED BY <1>1, <1>5, <2>2, <3>1 DEF Unrepeated
  <2>3. CASE i <= Len(s) /\ j > Len(s)
    BY <1>1, <2>0, <2>3
  <2>4. CASE i > Len(s) /\ j <= Len(s)
    BY <1>1, <2>0, <2>4
  <2> QED BY <1>1, <2>1, <2>2, <2>3, <2>4
<1>6. Image(s) \cup Image(t) \subseteq Image(s \o t)
  BY <1>1, <1>3, <1>4 DEF Image
<1> QED BY <1>1, <1>2, <1>5, <1>6

(* A sequence of one call, or of none. *)
LEMMA ShortImage ==
    ASSUME NEW S, NEW c \in S
    PROVE  /\ <<c>> \in Seq(S) /\ Image(<<c>>) = {c} /\ Unrepeated(<<c>>)
           /\ <<>> \in Seq(S) /\ Image(<<>>) = {} /\ Unrepeated(<<>>)
BY DEF Image, Unrepeated

(* Making the first of the calls that are left leaves the others. *)
LEMMA HeadOff ==
    ASSUME NEW S, NEW s \in Seq(S), s # <<>>
    PROVE  /\ Head(s) \in S /\ Tail(s) \in Seq(S)
           /\ Image(s) = {Head(s)} \cup Image(Tail(s))
           /\ Unrepeated(s) => Head(s) \notin Image(Tail(s)) /\ Unrepeated(Tail(s))
           /\ Image(s) \subseteq S
<1>1. /\ Len(s) \in Nat \ {0} /\ Tail(s) \in Seq(S) /\ Len(Tail(s)) = Len(s) - 1
      /\ DOMAIN s = 1..Len(s) /\ DOMAIN Tail(s) = 1..(Len(s) - 1)
      /\ Head(s) = s[1] /\ s[1] \in S
      /\ \A i \in 1..(Len(s) - 1) : Tail(s)[i] = s[i + 1]
      /\ \A i \in 1..Len(s) : s[i] \in S
  OBVIOUS
<1>2. Image(s) \subseteq {Head(s)} \cup Image(Tail(s))
  <2> SUFFICES ASSUME NEW i \in 1..Len(s) PROVE s[i] = s[1] \/ s[i] \in Image(Tail(s))
    BY <1>1 DEF Image
  <2>1. CASE i # 1
    <3>1. i - 1 \in 1..(Len(s) - 1) /\ Tail(s)[i - 1] = s[i]
      BY <1>1, <2>1
    <3> QED BY <1>1, <3>1 DEF Image
  <2> QED BY <2>1
<1>3. {Head(s)} \cup Image(Tail(s)) \subseteq Image(s)
  <2>1. \A i \in 1..(Len(s) - 1) : i + 1 \in 1..Len(s)
    BY <1>1
  <2>2. 1 \in 1..Len(s)
    BY <1>1
  <2> QED BY <1>1, <2>1, <2>2 DEF Image
<1>4. ASSUME Unrepeated(s) PROVE Head(s) \notin Image(Tail(s)) /\ Unrepeated(Tail(s))
  <2>1. \A i \in 1..(Len(s) - 1) : i + 1 \in 1..Len(s) /\ i + 1 # 1
    BY <1>1
  <2>2. 1 \in 1..Len(s)
    BY <1>1
  <2>3. Head(s) \notin Image(Tail(s))
    BY <1>1, <1>4, <2>1, <2>2 DEF Image, Unrepeated
  <2>4. ASSUME NEW i \in 1..(Len(s) - 1), NEW j \in 1..(Len(s) - 1), Tail(s)[i] = Tail(s)[j]
        PROVE  i = j
    <3>1. i + 1 = j + 1
      BY <1>1, <1>4, <2>1, <2>4 DEF Unrepeated
    <3> QED BY <3>1
  <2> QED BY <1>1, <2>3, <2>4 DEF Unrepeated
<1> QED BY <1>1, <1>2, <1>3, <1>4 DEF Image
-----------------------------------------------------------------------------
(* The calls made for an event are those it is owed, each of them once.     *)
LEMMA CallsDue ==
    ASSUME NEW e \in Event, NEW found \in Detections[e.kind]
    PROVE  /\ CallsFor(e, found) \in Seq(Stores)
           /\ CallsFor(e, found) # <<>>
           /\ Unrepeated(CallsFor(e, found))
           /\ Image(CallsFor(e, found)) =
                 {"events", "attackers", "stream"} \cup Image(found)
                 \cup {c \in {"credentials"} : e.kind = "login"}
                 \cup {c \in {"iocs"} : e.ip \notin PrivateIPs}
           /\ Image(found) \subseteq Techniques
<1> DEFINE creds == IF e.kind = "login" THEN <<"credentials">> ELSE <<>>
           iocs  == IF IpIOC(e) # {} THEN <<"iocs">> ELSE <<>>
           first == <<"events">>
           upsert == <<"attackers">>
           last == <<"stream">>
           q1 == first \o found
           q2 == q1 \o creds
           q3 == q2 \o upsert
           q4 == q3 \o iocs
           q5 == q4 \o last
<1>1. /\ found \in Seq(Stores) /\ Unrepeated(found) /\ Image(found) \subseteq Techniques
  <2>1. found \in Seq(Techniques) /\ Unrepeated(found)
    BY ProcessorAssumption DEF Event, Unrepeated
  <2>2. \A i \in DOMAIN found : found[i] \in Techniques
    BY <2>1
  <2> QED BY <2>1, <2>2 DEF Stores, Image
<1>2. Techniques \cap {"events", "credentials", "attackers", "iocs", "stream"} = {}
  BY ProcessorAssumption
<1>3. /\ \A c \in {"events", "credentials", "attackers", "iocs", "stream"} :
            <<c>> \in Seq(Stores) /\ Image(<<c>>) = {c} /\ Unrepeated(<<c>>)
      /\ <<>> \in Seq(Stores) /\ Image(<<>>) = {} /\ Unrepeated(<<>>)
  BY ShortImage DEF Stores
<1>4. /\ creds \in Seq(Stores) /\ Unrepeated(creds)
      /\ Image(creds) = {c \in {"credentials"} : e.kind = "login"}
  BY <1>3
<1>5. /\ iocs \in Seq(Stores) /\ Unrepeated(iocs)
      /\ Image(iocs) = {c \in {"iocs"} : e.ip \notin PrivateIPs}
  <2>1. IpIOC(e) # {} <=> e.ip \notin PrivateIPs
    BY DEF IpIOC
  <2> QED BY <1>3, <2>1
<1>6. /\ q1 \in Seq(Stores) /\ Unrepeated(q1) /\ Image(q1) = {"events"} \cup Image(found)
  <2>1. Image(first) \cap Image(found) = {}
    BY <1>1, <1>2, <1>3
  <2>2. first \in Seq(Stores) /\ Unrepeated(first) /\ Image(first) = {"events"}
    BY <1>3
  <2> HIDE DEF first
  <2> QED BY <1>1, <2>1, <2>2, ConcatImage
<1>7. /\ q2 \in Seq(Stores) /\ Unrepeated(q2) /\ Image(q2) = Image(q1) \cup Image(creds)
  <2>1. Image(q1) \cap Image(creds) = {}
    BY <1>1, <1>2, <1>4, <1>6
  <2> HIDE DEF q1, creds
  <2> QED BY <1>4, <1>6, <2>1, ConcatImage
<1>8. /\ q3 \in Seq(Stores) /\ Unrepeated(q3) /\ Image(q3) = Image(q2) \cup {"attackers"}
  <2>1. Image(q2) \cap Image(upsert) = {}
    BY <1>1, <1>2, <1>3, <1>4, <1>6, <1>7
  <2>2. upsert \in Seq(Stores) /\ Unrepeated(upsert) /\ Image(upsert) = {"attackers"}
    BY <1>3
  <2> HIDE DEF q2, upsert
  <2> QED BY <1>7, <2>1, <2>2, ConcatImage
<1>9. /\ q4 \in Seq(Stores) /\ Unrepeated(q4) /\ Image(q4) = Image(q3) \cup Image(iocs)
  <2>1. Image(q3) \cap Image(iocs) = {}
    BY <1>1, <1>2, <1>4, <1>5, <1>6, <1>7, <1>8
  <2> HIDE DEF q3, iocs
  <2> QED BY <1>5, <1>8, <2>1, ConcatImage
<1>10. /\ q5 \in Seq(Stores) /\ Unrepeated(q5) /\ Image(q5) = Image(q4) \cup {"stream"}
  <2>1. Image(q4) \cap Image(last) = {}
    BY <1>1, <1>2, <1>3, <1>4, <1>5, <1>6, <1>7, <1>8, <1>9
  <2>2. last \in Seq(Stores) /\ Unrepeated(last) /\ Image(last) = {"stream"}
    BY <1>3
  <2> HIDE DEF q4, last
  <2> QED BY <1>9, <2>1, <2>2, ConcatImage
<1>11. CallsFor(e, found) = q5
  BY DEF CallsFor
<1>12. Image(q5) = {"events", "attackers", "stream"} \cup Image(found)
                   \cup {c \in {"credentials"} : e.kind = "login"}
                   \cup {c \in {"iocs"} : e.ip \notin PrivateIPs}
  <2> HIDE DEF q5, q4, q3, q2, q1, creds, iocs
  <2> QED BY <1>4, <1>5, <1>6, <1>7, <1>8, <1>9, <1>10
<1>13. q5 # <<>>
  <2> HIDE DEF q5
  <2> QED BY <1>3, <1>10
<1> HIDE DEF q5
<1> QED BY <1>1, <1>10, <1>11, <1>12, <1>13
-----------------------------------------------------------------------------
(* No two workers hold the same event, and none has a call twice. *)
Apart ==
    /\ \A v, w \in Workers : hand[v] = hand[w] /\ hand[w] # 0 => v = w
    /\ \A w \in Workers : Unrepeated(calls[w])

(* What became of call c for event n. *)
Kept(n, c) == <<n, c>> \in rows
Lost(n, c) == \E why \in Reasons : <<n, c, why>> \in refused
Left(n, c) == \E w \in Workers : hand[w] = n /\ c \in Image(calls[w])

(* OneFailureCostsOneRow, call by call. *)
Fates ==
    \A n \in 1..taken, c \in Stores :
        /\ (Kept(n, c) \/ Lost(n, c) \/ Left(n, c)) <=> c \in Due(n)
        /\ ~(Kept(n, c) /\ Lost(n, c))
        /\ ~(Kept(n, c) /\ Left(n, c))
        /\ ~(Lost(n, c) /\ Left(n, c))

ProcessorInv == TypeOK /\ Apart /\ Fates /\ TotalsMatch

(* Call by call is the same as for all the calls of an event. *)
LEMMA FatesSuffice == TypeOK /\ Fates => OneFailureCostsOneRow
<1> SUFFICES ASSUME TypeOK, Fates, NEW n \in 1..taken
             PROVE  LET kept  == {c \in Stores : <<n, c>> \in rows}
                        lost  == {c \in Stores : \E why \in Reasons : <<n, c, why>> \in refused}
                    IN  /\ kept \cup lost \cup Ahead(n) = Due(n)
                        /\ kept \cap lost = {} /\ (kept \cup lost) \cap Ahead(n) = {}
  BY DEF OneFailureCostsOneRow
<1>1. n \in 1..MaxEvents
  BY ProcessorAssumption DEF TypeOK
<1>2. Due(n) \subseteq Stores
  BY <1>1 DEF Due, Stores, TypeOK
<1>3. \A w \in Workers : Image(calls[w]) \subseteq Stores
  BY DEF TypeOK, Image
<1>4. \A c : c \in Ahead(n) <=> c \in Stores /\ Left(n, c)
  BY <1>3 DEF Ahead, Left
<1> QED BY <1>2, <1>4 DEF Fates, Kept, Lost

(* The workers begin with nothing to do. *)
LEMMA ProcessorInit == Init => ProcessorInv
<1> SUFFICES ASSUME Init PROVE ProcessorInv
  OBVIOUS
<1>1. TypeOK
  BY ProcessorAssumption DEF Init, TypeOK, NoRow, AttackerRow
<1>2. Apart
  BY DEF Init, Apart, Unrepeated
<1>3. Fates
  BY DEF Init, Fates
<1>4. \A ip \in IPs : Counted(ip) = {} /\ {n \in Counted(ip) : events[n].kind = "connect"} = {}
  BY DEF Init, Counted
<1>5. TotalsMatch
  BY <1>4, FS_EmptySet DEF Init, TotalsMatch, NoRow
<1> QED BY <1>1, <1>2, <1>3, <1>5 DEF ProcessorInv

(* What is true of an event once it is taken stays true while the events,   *)
(* the workers' work and the rows stay as they are.                         *)
LEMMA TotalsKept ==
    ASSUME TypeOK, TotalsMatch, attackers' = attackers, taken' = taken,
           \A n \in 1..taken : events'[n] = events[n],
           \A n \in 1..taken : <<n, "attackers">> \in rows' <=> <<n, "attackers">> \in rows
    PROVE  TotalsMatch'
<1>1. \A ip \in IPs : Counted(ip)' = Counted(ip)
  BY DEF Counted
<1>2. \A ip \in IPs : Counted(ip) \subseteq 1..taken
  BY DEF Counted
<1>3. \A ip \in IPs : {n \in Counted(ip) : events[n].kind = "connect"}'
                      = {n \in Counted(ip) : events[n].kind = "connect"}
  BY <1>1, <1>2
<1> QED BY <1>1, <1>3 DEF TotalsMatch

(* An event enters the channel. *)
LEMMA DeliverStep ==
    ASSUME ProcessorInv, NEW ip \in IPs, NEW kind \in Kinds, NEW month \in 0..MaxMonth,
           Deliver(ip, kind, month)
    PROVE  ProcessorInv'
<1> USE DEF ProcessorInv, Deliver
<1>1. [ip |-> ip, kind |-> kind, month |-> month] \in Event
  BY ProcessorAssumption DEF Event
<1>2. /\ events' \in Seq(Event) /\ Len(events') = Len(events) + 1
      /\ \A n \in 1..taken : events'[n] = events[n]
  BY <1>1 DEF TypeOK
<1>3. TypeOK'
  <2>1. Len(events') <= MaxEvents /\ taken' \in 0..Len(events')
    BY <1>2, ProcessorAssumption DEF TypeOK
  <2> QED BY <1>2, <2>1 DEF TypeOK
<1>4. Apart'
  BY DEF Apart
<1>5. \A n \in 1..taken : Due(n)' = Due(n)
  BY <1>2 DEF Due
<1>6. Fates'
  <2>1. \A n, c : /\ Kept(n, c)' <=> Kept(n, c)
                  /\ Lost(n, c)' <=> Lost(n, c)
                  /\ Left(n, c)' <=> Left(n, c)
    BY DEF Kept, Lost, Left
  <2> QED BY <1>5, <2>1 DEF Fates
<1>7. TotalsMatch'
  BY <1>2, TotalsKept
<1> QED BY <1>3, <1>4, <1>6, <1>7

(* A worker takes an event: it owes the calls of that event, and no other   *)
(* worker has taken it.                                                     *)
LEMMA TakeStep ==
    ASSUME ProcessorInv, NEW w \in Workers, NEW found, Take(w, found)
    PROVE  ProcessorInv'
<1> USE DEF ProcessorInv
<1>0. PICK n \in Nat : n = taken + 1
  BY DEF TypeOK
<1> DEFINE e == events[n]
           q == CallsFor(e, found)
<1>1. /\ n \in 1..Len(events) /\ n \in 1..MaxEvents /\ e \in Event
      /\ taken \in Nat /\ n \notin 1..taken /\ 1..n = (1..taken) \cup {n}
  BY <1>0, ProcessorAssumption DEF TypeOK, Take
<1>2. /\ q \in Seq(Stores) /\ q # <<>> /\ Unrepeated(q)
      /\ Image(q) = {"events", "attackers", "stream"} \cup Image(found)
                    \cup {c \in {"credentials"} : e.kind = "login"}
                    \cup {c \in {"iocs"} : e.ip \notin PrivateIPs}
      /\ Image(found) \subseteq Techniques
  BY <1>0, <1>1, CallsDue DEF Take
<1>3. /\ taken' = n /\ hand' = [hand EXCEPT ![w] = n] /\ calls' = [calls EXCEPT ![w] = q]
      /\ tags' = [tags EXCEPT ![n] = Image(found)]
      /\ UNCHANGED <<events, workers, ctx, rows, refused, attackers>>
      /\ workers[w] = "working" /\ hand[w] = 0 /\ calls[w] = <<>>
  BY <1>0 DEF Take, Image, TypeOK
<1> HIDE DEF q
<1>4. \A v \in Workers : hand[v] \in 0..taken /\ hand[v] # n
  BY <1>1 DEF TypeOK
<1>5. TypeOK'
  <2>1. /\ hand' \in [Workers -> 0..n] /\ calls' \in [Workers -> Seq(Stores)]
        /\ tags' \in [1..MaxEvents -> SUBSET Techniques]
    BY <1>1, <1>2, <1>3, <1>4 DEF TypeOK
  <2>2. rows \subseteq (1..n) \X Stores /\ refused \subseteq (1..n) \X Stores \X Reasons
    BY <1>1 DEF TypeOK
  <2>3. \A v \in Workers : (hand'[v] = 0 <=> calls'[v] = <<>>) /\ (workers[v] = "gone" => hand'[v] = 0)
    BY <1>1, <1>2, <1>3 DEF TypeOK
  <2> QED BY <1>1, <1>3, <2>1, <2>2, <2>3 DEF TypeOK
<1>6. Apart'
  BY <1>1, <1>2, <1>3, <1>4 DEF Apart, TypeOK
<1>7. Fates'
  <2>1. ASSUME NEW m \in 1..taken, NEW c \in Stores
        PROVE  /\ Due(m)' = Due(m) /\ (Left(m, c)' <=> Left(m, c))
               /\ (Kept(m, c)' <=> Kept(m, c)) /\ (Lost(m, c)' <=> Lost(m, c))
    <3>1. m # n /\ m # 0 /\ m \in 1..MaxEvents
      BY <1>0, <1>1, ProcessorAssumption
    <3>2. Due(m)' = Due(m)
      BY <1>3, <3>1 DEF Due, TypeOK
    <3>3. Left(m, c)' <=> Left(m, c)
      BY <1>3, <3>1 DEF Left, TypeOK
    <3> QED BY <1>3, <3>2, <3>3 DEF Kept, Lost
  <2>2. ASSUME NEW c \in Stores
        PROVE  ~Kept(n, c)' /\ ~Lost(n, c)' /\ (Left(n, c)' <=> c \in Due(n)')
    <3>1. ~Kept(n, c)' /\ ~Lost(n, c)'
      BY <1>1, <1>3 DEF Kept, Lost, TypeOK
    <3>2. Due(n)' = Image(q)
      BY <1>1, <1>2, <1>3 DEF Due, TypeOK
    <3>3. Left(n, c)' <=> c \in Image(q)
      BY <1>3, <1>4 DEF Left, TypeOK
    <3> QED BY <3>1, <3>2, <3>3
  <2>3. ASSUME NEW m \in 1..n, NEW c \in Stores
        PROVE  /\ (Kept(m, c)' \/ Lost(m, c)' \/ Left(m, c)') <=> c \in Due(m)'
               /\ ~(Kept(m, c)' /\ Lost(m, c)')
               /\ ~(Kept(m, c)' /\ Left(m, c)')
               /\ ~(Lost(m, c)' /\ Left(m, c)')
    <3>1. CASE m = n
      BY <2>2, <3>1
    <3>2. CASE m # n
      <4>1. m \in 1..taken
        BY <1>1, <3>2
      <4> QED BY <2>1, <4>1 DEF Fates
    <3> QED BY <3>1, <3>2
  <2> QED BY <1>3, <2>3 DEF Fates
<1>8. TotalsMatch'
  <2>1. <<n, "attackers">> \notin rows
    BY <1>1 DEF TypeOK
  <2>2. \A ip \in IPs : Counted(ip)' = Counted(ip)
    BY <1>1, <1>3, <2>1 DEF Counted
  <2> QED BY <1>3, <2>2 DEF TotalsMatch
<1> QED BY <1>5, <1>6, <1>7, <1>8

(* The reasons a call may be refused for are the ones Reasons lists. *)
LEMMA OutcomesListed ==
    ASSUME NEW n, NEW c, NEW why \in Outcomes(n, c)
    PROVE  why \in Reasons \cup {"none"}
BY DEF Outcomes, Obstacles, Reasons

(* A call of worker w has returned: it is no longer ahead, and it is kept   *)
(* or lost; nothing changes for any other call of any event.                *)
LEMMA ReturnStep ==
    ASSUME TypeOK, Apart, Fates, NEW w \in Workers, NEW why \in Reasons \cup {"none"},
           calls[w] # <<>>, Return(w, hand[w], Head(calls[w]), why),
           UNCHANGED <<events, taken, workers, ctx, tags>>,
           attackers' \in [IPs -> AttackerRow]
    PROVE  /\ TypeOK' /\ Apart' /\ Fates'
           /\ hand[w] \in 1..taken
           /\ <<hand[w], Head(calls[w])>> \notin rows
           /\ rows' = IF why = "none" THEN rows \cup {<<hand[w], Head(calls[w])>>} ELSE rows
<1>0. PICK n \in 1..taken, c \in Stores, t \in Seq(Stores) :
          /\ n = hand[w] /\ c = Head(calls[w]) /\ t = Tail(calls[w])
          /\ Image(calls[w]) = {c} \cup Image(t)
          /\ c \notin Image(t) /\ Unrepeated(t)
  <2>1. hand[w] # 0
    BY DEF TypeOK
  <2>2. hand[w] \in 1..taken
    BY <2>1 DEF TypeOK
  <2>3. calls[w] \in Seq(Stores)
    BY DEF TypeOK
  <2>4. Unrepeated(calls[w])
    BY DEF Apart
  <2> QED BY <2>2, <2>3, <2>4, HeadOff
<1>1. /\ calls' = [calls EXCEPT ![w] = t]
      /\ hand' = [hand EXCEPT ![w] = IF t = <<>> THEN 0 ELSE n]
      /\ rows' = IF why = "none" THEN rows \cup {<<n, c>>} ELSE rows
      /\ refused' = IF why = "none" THEN refused ELSE refused \cup {<<n, c, why>>}
  BY <1>0 DEF Return, TypeOK
<1>2. TypeOK'
  <2>1. hand' \in [Workers -> 0..taken]
    <3>1. (IF t = <<>> THEN 0 ELSE n) \in 0..taken
      <4>1. taken \in Nat
        BY DEF TypeOK
      <4> QED BY <4>1
    <3> QED BY <1>1, <3>1 DEF TypeOK
  <2>4. calls' \in [Workers -> Seq(Stores)]
    BY <1>1 DEF TypeOK
  <2>2. rows' \subseteq (1..taken) \X Stores /\ refused' \subseteq (1..taken) \X Stores \X Reasons
    <3>1. rows \subseteq (1..taken) \X Stores /\ refused \subseteq (1..taken) \X Stores \X Reasons
      BY DEF TypeOK
    <3> QED BY <1>1, <3>1
  <2>3. \A v \in Workers : (hand'[v] = 0 <=> calls'[v] = <<>>) /\ (workers[v] = "gone" => hand'[v] = 0)
    BY <1>0, <1>1 DEF TypeOK
  <2> QED BY <2>1, <2>2, <2>3, <2>4 DEF TypeOK
<1>3. Apart'
  BY <1>0, <1>1 DEF Apart, TypeOK
<1>4. ASSUME NEW m \in 1..taken, NEW d \in Stores
      PROVE  Left(m, d)' <=> Left(m, d) /\ ~(m = n /\ d = c)
  <2>0. /\ hand \in [Workers -> 0..taken] /\ calls \in [Workers -> Seq(Stores)]
        /\ m # 0
    BY DEF TypeOK
  <2>1. m # 0 /\ \A v \in Workers \ {w} : hand'[v] = hand[v] /\ calls'[v] = calls[v]
    BY <1>1, <2>0
  <2>2. CASE m = n
    <3>1. \A v \in Workers : hand[v] = n => v = w
      BY <1>0, <2>1, <2>2 DEF Apart
    <3>2. Left(n, d) <=> d \in Image(calls[w])
      BY <1>0, <3>1 DEF Left
    <3>3. Left(n, d)' <=> d \in Image(t)
      <4>1. calls'[w] = t /\ hand'[w] = IF t = <<>> THEN 0 ELSE n
        BY <1>1, <2>0
      <4>2. Image(<<>>) = {}
        BY DEF Image
      <4> QED BY <2>1, <2>2, <3>1, <4>1, <4>2 DEF Left
    <3> QED BY <1>0, <2>2, <3>2, <3>3
  <2>3. CASE m # n
    <3>1. hand[w] # m /\ hand'[w] # m
      BY <1>0, <1>1, <2>0, <2>3
    <3> QED BY <2>1, <2>3, <3>1 DEF Left
  <2> QED BY <2>2, <2>3
<1>5. ASSUME NEW m \in 1..taken, NEW d \in Stores
      PROVE  /\ Kept(m, d)' <=> Kept(m, d) \/ (m = n /\ d = c /\ why = "none")
             /\ Lost(m, d)' <=> Lost(m, d) \/ (m = n /\ d = c /\ why # "none")
  BY <1>1 DEF Kept, Lost
<1>6. Left(n, c) /\ ~Kept(n, c) /\ ~Lost(n, c)
  BY <1>0 DEF Left, Fates
<1>7. \A m \in 1..taken : Due(m)' = Due(m)
  BY DEF Due
<1>8. Fates'
  <2> SUFFICES ASSUME NEW m \in 1..taken, NEW d \in Stores
               PROVE  /\ (Kept(m, d)' \/ Lost(m, d)' \/ Left(m, d)') <=> d \in Due(m)'
                      /\ ~(Kept(m, d)' /\ Lost(m, d)')
                      /\ ~(Kept(m, d)' /\ Left(m, d)')
                      /\ ~(Lost(m, d)' /\ Left(m, d)')
    BY DEF Fates
  <2>1. /\ (Kept(m, d) \/ Lost(m, d) \/ Left(m, d)) <=> d \in Due(m)
        /\ ~(Kept(m, d) /\ Lost(m, d))
        /\ ~(Kept(m, d) /\ Left(m, d))
        /\ ~(Lost(m, d) /\ Left(m, d))
    BY DEF Fates
  <2> QED BY <1>4, <1>5, <1>6, <1>7, <2>1
<1> QED BY <1>0, <1>1, <1>2, <1>3, <1>6, <1>8 DEF Kept

(* A call of another table than attackers. *)
LEMMA CallStep ==
    ASSUME ProcessorInv, NEW w \in Workers, Call(w)
    PROVE  ProcessorInv'
<1> USE DEF ProcessorInv
<1>1. PICK why \in Outcomes(hand[w], Head(calls[w])) : Return(w, hand[w], Head(calls[w]), why)
  BY DEF Call
<1>2. /\ calls[w] # <<>> /\ Head(calls[w]) # "attackers"
      /\ UNCHANGED <<events, taken, workers, ctx, tags, attackers>>
  BY DEF Call
<1>3. why \in Reasons \cup {"none"}
  BY OutcomesListed
<1>4. attackers' \in [IPs -> AttackerRow]
  BY <1>2 DEF TypeOK
<1>5. /\ TypeOK' /\ Apart' /\ Fates'
      /\ rows' = IF why = "none" THEN rows \cup {<<hand[w], Head(calls[w])>>} ELSE rows
  BY <1>1, <1>2, <1>3, <1>4, ReturnStep
<1>6. \A n \in 1..taken : <<n, "attackers">> \in rows' <=> <<n, "attackers">> \in rows
  BY <1>2, <1>5
<1>7. TotalsMatch'
  BY <1>2, <1>6, TotalsKept
<1> QED BY <1>5, <1>7

(* The upsert of an attacker, in one statement. *)
LEMMA UpsertAttackerStep ==
    ASSUME ProcessorInv, NEW w \in Workers, UpsertAttacker(w)
    PROVE  ProcessorInv'
<1> USE DEF ProcessorInv
<1>0. calls[w] # <<>> /\ Head(calls[w]) = "attackers" /\ UNCHANGED <<events, taken, workers, ctx, tags>>
  BY DEF UpsertAttacker
<1>1. PICK why \in Outcomes(hand[w], "attackers") :
          /\ Return(w, hand[w], "attackers", why)
          /\ attackers' = IF why # "none" THEN attackers
                          ELSE [attackers EXCEPT ![events[hand[w]].ip] = Upserted(@, hand[w])]
  BY DEF UpsertAttacker
<1>2. why \in Reasons \cup {"none"}
  BY OutcomesListed
<1>3. hand[w] \in 1..taken /\ events[hand[w]] \in Event
  BY <1>0 DEF TypeOK
<1>4. attackers' \in [IPs -> AttackerRow]
  <2>1. attackers \in [IPs -> AttackerRow] /\ events[hand[w]].ip \in IPs /\ hand[w] \in Nat
    BY <1>3 DEF TypeOK, Event
  <2>2. \A row \in AttackerRow : Upserted(row, hand[w]) \in AttackerRow
    BY <2>1 DEF Upserted, AttackerRow
  <2> QED BY <1>1, <2>1, <2>2
<1>5. /\ TypeOK' /\ Apart' /\ Fates'
      /\ <<hand[w], "attackers">> \notin rows
      /\ rows' = IF why = "none" THEN rows \cup {<<hand[w], "attackers">>} ELSE rows
  BY <1>0, <1>1, <1>2, <1>4, ReturnStep
<1>6. CASE why # "none"
  BY <1>0, <1>1, <1>5, <1>6, TotalsKept
<1>7. CASE why = "none"
  <2>0. PICK n \in 1..taken : n = hand[w]
    BY <1>3
  <2>1. PICK ip \in IPs : ip = events[n].ip
    BY <1>3, <2>0 DEF Event
  <2>2. attackers' = [attackers EXCEPT ![ip] = Upserted(attackers[ip], n)]
    BY <1>1, <1>7, <2>0, <2>1
  <2>3. /\ Counted(ip)' = Counted(ip) \cup {n} /\ n \notin Counted(ip)
        /\ \A other \in IPs \ {ip} : Counted(other)' = Counted(other)
    BY <1>0, <1>5, <1>7, <2>0, <2>1 DEF Counted
  <2> DEFINE Connected(a) == {m \in Counted(a) : events[m].kind = "connect"}
  <2>4. /\ Connected(ip)' = Connected(ip) \cup (IF events[n].kind = "connect" THEN {n} ELSE {})
        /\ n \notin Connected(ip)
        /\ \A other \in IPs \ {ip} : Connected(other)' = Connected(other)
    BY <1>0, <2>3
  <2>5. IsFiniteSet(Counted(ip)) /\ IsFiniteSet(Connected(ip))
    <3>1. IsFiniteSet(1..taken)
      BY FS_Interval DEF TypeOK
    <3>2. Counted(ip) \subseteq 1..taken /\ Connected(ip) \subseteq 1..taken
      BY DEF Counted
    <3> QED BY <3>1, <3>2, FS_Subset
  <2> HIDE DEF Connected
  <2>6. /\ Cardinality(Counted(ip)') = Cardinality(Counted(ip)) + 1
        /\ Cardinality(Connected(ip)') =
              Cardinality(Connected(ip)) + (IF events[n].kind = "connect" THEN 1 ELSE 0)
    <3>1. Cardinality(Counted(ip)') = Cardinality(Counted(ip)) + 1
      BY <2>3, <2>5, FS_AddElement
    <3>2. CASE events[n].kind = "connect"
      <4>1. Connected(ip)' = Connected(ip) \cup {n}
        BY <2>4, <3>2
      <4> QED BY <2>4, <2>5, <3>1, <3>2, <4>1, FS_AddElement
    <3>3. CASE events[n].kind # "connect"
      <4>1. Connected(ip)' = Connected(ip)
        BY <2>4, <3>3
      <4>2. Cardinality(Connected(ip)) \in Nat
        BY <2>5, FS_CardinalityType
      <4> QED BY <3>1, <3>3, <4>1, <4>2
    <3> QED BY <3>1, <3>2, <3>3
  <2>7. /\ attackers[ip].events = Cardinality(Counted(ip))
        /\ attackers[ip].sessions = Cardinality(Connected(ip))
        /\ Counted(ip) # {} => {attackers[ip].first, attackers[ip].last} \subseteq Counted(ip)
    BY DEF TotalsMatch, Connected
  <2>8. attackers[ip].events = 0 => Counted(ip) = {}
    BY <2>5, <2>7, FS_EmptySet
  <2>9. /\ attackers'[ip].events = attackers[ip].events + 1
        /\ attackers'[ip].sessions = attackers[ip].sessions + (IF events[n].kind = "connect" THEN 1 ELSE 0)
        /\ attackers'[ip].first = (IF attackers[ip].events = 0 THEN n ELSE attackers[ip].first)
        /\ attackers'[ip].last = n
        /\ \A other \in IPs \ {ip} : attackers'[other] = attackers[other]
    BY <2>2 DEF TypeOK, Upserted, AttackerRow
  <2>10. /\ attackers'[ip].events = Cardinality(Counted(ip)')
         /\ attackers'[ip].sessions = Cardinality(Connected(ip)')
    BY <2>6, <2>7, <2>9
  <2>11. Counted(ip) = {} => attackers[ip].events = 0
    BY <2>7, FS_EmptySet
  <2>12. {attackers'[ip].first, attackers'[ip].last} \subseteq Counted(ip)'
    BY <2>3, <2>7, <2>9, <2>11
  <2>13. ASSUME NEW other \in IPs \ {ip}
         PROVE  /\ attackers'[other].events = Cardinality(Counted(other)')
                /\ attackers'[other].sessions = Cardinality(Connected(other)')
                /\ Counted(other)' # {} =>
                     {attackers'[other].first, attackers'[other].last} \subseteq Counted(other)'
    <3>1. /\ attackers[other].events = Cardinality(Counted(other))
          /\ attackers[other].sessions = Cardinality(Connected(other))
          /\ Counted(other) # {} =>
               {attackers[other].first, attackers[other].last} \subseteq Counted(other)
      BY DEF TotalsMatch, Connected
    <3>2. /\ Counted(other)' = Counted(other) /\ Connected(other)' = Connected(other)
          /\ attackers'[other] = attackers[other]
      BY <2>3, <2>4, <2>9
    <3> QED BY <3>1, <3>2
  <2>14. TotalsMatch'
    BY <2>10, <2>12, <2>13 DEF TotalsMatch, Connected
  <2> QED BY <1>5, <2>14
<1> QED BY <1>6, <1>7

(* The context is cancelled, a worker leaves, or nothing happens. *)
LEMMA QuietStep ==
    ASSUME ProcessorInv, UNCHANGED <<events, taken, hand, calls, tags, rows, refused, attackers>>,
           ctx' \in {"live", "cancelled"}, workers' \in [Workers -> {"working", "gone"}],
           \A w \in Workers : workers'[w] = "gone" => hand[w] = 0
    PROVE  ProcessorInv'
<1> USE DEF ProcessorInv
<1>1. TypeOK'
  BY DEF TypeOK
<1>2. Apart'
  BY DEF Apart
<1>3. Fates'
  <2>1. \A n, c : /\ Kept(n, c)' <=> Kept(n, c)
                  /\ Lost(n, c)' <=> Lost(n, c)
                  /\ Left(n, c)' <=> Left(n, c)
    BY DEF Kept, Lost, Left
  <2>2. \A n : Due(n)' = Due(n)
    BY DEF Due
  <2> QED BY <2>1, <2>2 DEF Fates
<1>4. TotalsMatch'
  BY TotalsKept
<1> QED BY <1>1, <1>2, <1>3, <1>4

(* Every step of the pool preserves the invariant. *)
LEMMA ProcessorStep == ProcessorInv /\ [Next]_procVars => ProcessorInv'
<1> SUFFICES ASSUME ProcessorInv, [Next]_procVars PROVE ProcessorInv'
  OBVIOUS
<1>0. TypeOK
  BY DEF ProcessorInv
<1>1. CASE Cancel
  BY <1>0, <1>1, QuietStep DEF Cancel, TypeOK
<1>2. ASSUME NEW ip \in IPs, NEW kind \in Kinds, NEW month \in 0..MaxMonth,
             Deliver(ip, kind, month)
      PROVE  ProcessorInv'
  BY <1>2, DeliverStep
<1>3. ASSUME NEW w \in Workers, NEW found, Take(w, found) PROVE ProcessorInv'
  BY <1>3, TakeStep
<1>4. ASSUME NEW w \in Workers, Call(w) PROVE ProcessorInv'
  BY <1>4, CallStep
<1>5. ASSUME NEW w \in Workers, UpsertAttacker(w) PROVE ProcessorInv'
  BY <1>5, UpsertAttackerStep
<1>6. ASSUME NEW w \in Workers, Leave(w) PROVE ProcessorInv'
  BY <1>0, <1>6, QuietStep DEF Leave, TypeOK
<1>7. CASE UNCHANGED procVars
  BY <1>0, <1>7, QuietStep DEF procVars, TypeOK
<1> QED BY <1>1, <1>2, <1>3, <1>4, <1>5, <1>6, <1>7 DEF Next, Work

(* The inductive invariant of the pool. *)
THEOREM ProcessorInductive == Spec => []ProcessorInv
BY ProcessorInit, ProcessorStep, PTL DEF Spec

(* A worker has calls left exactly while it holds an event, and holds none  *)
(* once it is gone: process carries every event it takes through to stream. *)
THEOREM TypeCorrect == Spec => []TypeOK
<1>1. ProcessorInv => TypeOK
  BY DEF ProcessorInv
<1> QED BY <1>1, ProcessorInductive, PTL

(* Whatever stores fail and however many workers run, each call process     *)
(* owes an event is made once and is kept, lost or still to be made.        *)
THEOREM OneFailureCostsOneRowHolds == Spec => []OneFailureCostsOneRow
<1>1. ProcessorInv => OneFailureCostsOneRow
  BY FatesSuffice DEF ProcessorInv
<1> QED BY <1>1, ProcessorInductive, PTL

(* No worker's upsert of an attacker is lost or counted twice.              *)
THEOREM TotalsMatchHolds == Spec => []TotalsMatch
<1>1. ProcessorInv => TotalsMatch
  BY DEF ProcessorInv
<1> QED BY <1>1, ProcessorInductive, PTL
=============================================================================
