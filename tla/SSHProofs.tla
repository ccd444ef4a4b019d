----------------------------- MODULE SSHProofs -----------------------------
(***************************************************************************)
(* Theorems about SSH, for any number of channels, any capacity, any lines *)
(* and requests, and any number of packets.                                *)
(***************************************************************************)
EXTENDS SSH, SequenceTheorems, TLAPS

(* The lemmas about paths are those of FTPProofs.  They are about constants *)
(* alone, so any connection will do; this one satisfies FTPAssumption.      *)
OnPaths == INSTANCE FTPProofs WITH
    CwdPaths <- {}, Plain <- {}, Limit <- 1, MaxCommands <- 0, MaxData <- 0,
    ctx <- "live", ctrl <- "open", handler <- "top", login <- "init", cwd <- <<>>,
    dataListen <- 0, listeners <- {}, peer <- <<>>, got <- 0, log <- <<>>,
    upload <- FALSE

(* What a client may send at any time. *)
OpenSession == {[kind |-> "open", type |-> "session", to |-> c] : c \in Channels}
OpenOther   == {[kind |-> "open", type |-> t, to |-> t] : t \in {"direct-tcpip", "other"}}
RequestSent == {[kind |-> "request", of |-> r, to |-> c] : r \in Requests, c \in Channels}
DataSent    == {[kind |-> "data", of |-> l, to |-> c] : l \in ShellLines, c \in Channels}
EndSent     == {[kind |-> k, to |-> c] : k \in {"eof", "close", "adjust"}, c \in Channels}
AllPackets  == OpenSession \cup OpenOther \cup RequestSent \cup DataSent \cup EndSent

Lines    == ShellLines \cup {r.line : r \in Requests} \cup {NoLine}
RecEvent == [type : {"i", "o", "r"}, line : Lines]
Chan     == [state : {"free", "offered", "open", "closed"}, reqs : Seq(Requests),
             data : Seq(ShellLines), eof : BOOLEAN]

(***************************************************************************)
(* The inductive invariant.  Of the mux: what it holds, and the channels   *)
(* it has offered.                                                         *)
(***************************************************************************)
HeldOK(h, m) == Len(h) = IF m = "waiting" THEN 1 ELSE 0

MuxOK ==
    /\ client \in {"here", "gone"}
    /\ sent \in 0..MaxPackets
    /\ mux \in {"reading", "waiting", "ended"}
    /\ HeldOK(held, mux)
    /\ held \in Seq(AllPackets)
    /\ conn \in {"serving", "ended"}

OffersOK == chans \in Seq(OpenSession \cup OpenOther) /\ Len(chans) <= Cap

ChanOK == chan \in [Channels -> Chan] /\ \A c \in Channels : Len(chan[c].reqs) <= Cap

(* Of the goroutines of a channel, its recording and its file. *)
GoroutinesOK ==
    /\ waiter \in [Channels -> {"none", "accepting", "waiting", "returned"}]
    /\ worker \in [Channels -> {"none", "idle", "shell", "save", "saving", "returned"}]
    /\ \A c \in Channels : worker[c] = "none" <=> waiter[c] # "waiting"

RecordsOK ==
    /\ rec \in [Channels -> Seq(RecEvent)]
    /\ published \in [Channels -> Seq(Lines)]
    /\ pos \in [Channels -> Nat]
    /\ \A c \in Channels : pos[c] <= Len(rec[c]) + 1

(* A channel is offered once: it waits in chans with nobody serving it, or   *)
(* the mux still has it, or it is being served.                              *)
Offer(q, i) == q[i] \in OpenSession

OfferedOnce ==
    /\ \A i \in DOMAIN chans : Offer(chans, i) =>
          /\ chan[chans[i].to].state # "free"
          /\ waiter[chans[i].to] = "none"
          /\ \A j \in DOMAIN chans : Offer(chans, j) /\ chans[j].to = chans[i].to => i = j
    /\ \A i \in DOMAIN held : Offer(held, i) => chan[held[i].to].state = "free"
    /\ \A c \in Channels : waiter[c] # "none" => chan[c].state # "free"

(* While one channel saves alone the file is what it has written so far of  *)
(* its recording; when it has ended, all of it.                             *)
FileSoFar ==
    /\ disk = [file |-> disk.file, by |-> disk.by, whole |-> disk.whole]
    /\ disk.whole \in BOOLEAN
    /\ disk.whole =>
          /\ disk.by \in Channels
          /\ worker[disk.by] \in {"saving", "returned"}
          /\ \A c \in Channels : worker[c] = "saving" => c = disk.by
          /\ disk.file = SubSeq(Recording(disk.by), 1, pos[disk.by])
          /\ worker[disk.by] = "returned" => pos[disk.by] = Len(rec[disk.by]) + 1

(* A recording has as input what was published. *)
InputsPublished == \A c \in Channels : InputsAre(rec[c], published[c])

SSHInv == /\ MuxOK /\ OffersOK /\ ChanOK /\ GoroutinesOK
          /\ RecordsOK /\ OfferedOnce /\ FileSoFar /\ InputsPublished
-----------------------------------------------------------------------------
(* Sequences: what an append leaves and adds, two of them in a row. *)
LEMMA AppendTwo ==
  ASSUME NEW S, NEW s \in Seq(S), NEW a \in S, NEW b \in S
  PROVE  /\ Append(s, a) \o <<b>> = Append(Append(s, a), b)
         /\ s \o <<a, b>> = Append(Append(s, a), b)
         /\ Append(s, a) \o <<>> = Append(s, a)
<1>1. Append(s, a) \in Seq(S)
  BY AppendProperties
<1>2. Append(s, a) \o <<b>> = Append(Append(s, a), b)
  BY <1>1, AppendIsConcat
<1>3. Append(s, a) = s \o <<a>>
  BY AppendIsConcat
<1>4. <<a>> \in Seq(S) /\ <<b>> \in Seq(S) /\ <<a>> \o <<b>> = <<a, b>>
  <2>1. <<a>> \in Seq(S) /\ <<b>> \in Seq(S) /\ <<a, b>> \in Seq(S)
    OBVIOUS
  <2>2. /\ Append(<<a>>, b) = <<a>> \o <<b>>
        /\ Append(<<a>>, b) \in Seq(S)
        /\ Len(Append(<<a>>, b)) = Len(<<a>>) + 1
        /\ \A i \in 1..Len(<<a>>) : Append(<<a>>, b)[i] = <<a>>[i]
        /\ Append(<<a>>, b)[Len(<<a>>) + 1] = b
    BY <2>1, AppendIsConcat, AppendProperties
  <2>3. Len(<<a>>) = 1 /\ <<a>>[1] = a /\ Len(<<a, b>>) = 2 /\ <<a, b>>[1] = a /\ <<a, b>>[2] = b
    OBVIOUS
  <2>4. \A i \in 1..2 : i = 1 \/ i = 2
    OBVIOUS
  <2>5. Append(<<a>>, b) = <<a, b>>
    <3> DEFINE s1 == Append(<<a>>, b)
                s2 == <<a, b>>
    <3>1. s1 \in Seq(S) /\ s2 \in Seq(S) /\ Len(s1) = Len(s2)
      BY <2>1, <2>2, <2>3
    <3>2. \A i \in 1..2 : s1[i] = s2[i]
      <4>1. \A i \in 1..1 : s1[i] = <<a>>[i]
        BY <2>2, <2>3
      <4>2. s1[1] = s2[1]
        BY <4>1, <2>3
      <4>3. s1[1 + 1] = b
        BY <2>2, <2>3
      <4>4. s1[2] = s2[2]
        BY <4>3, <2>3
      <4> QED BY <4>2, <4>4, <2>4
    <3>3. Len(s1) = 2
      BY <2>2, <2>3
    <3> HIDE DEF s1, s2
    <3>4. s1 = s2
      BY <3>1, <3>2, <3>3, SeqEqual
    <3> QED BY <3>4 DEF s1, s2
  <2> QED BY <2>1, <2>2, <2>5
<1>5. (s \o <<a>>) \o <<b>> = s \o (<<a>> \o <<b>>)
  BY <1>4, ConcatAssociative
<1> QED
  BY <1>1, <1>2, <1>3, <1>4, <1>5, ConcatEmptySeq

(* A line recorded and published is an input of the recording. *)
LEMMA InputRecorded ==
  ASSUME NEW ev \in Seq(RecEvent), NEW ls \in Seq(Lines), NEW l \in Lines,
         InputsAre(ev, ls)
  PROVE  InputsAre(Append(ev, Input(l)), Append(ls, l))
<1> DEFINE e2 == Append(ev, Input(l))
           l2 == Append(ls, l)
<1>1. Input(l) \in RecEvent /\ Input(l).type = "i"
  BY DEF Input, RecEvent
<1>2. PICK at \in [DOMAIN ls -> DOMAIN ev] :
        /\ \A j, k \in DOMAIN ls : j < k => at[j] < at[k]
        /\ \A k \in DOMAIN ls : ev[at[k]] = Input(ls[k])
        /\ \A i \in DOMAIN ev : ev[i].type = "i" => \E k \in DOMAIN ls : at[k] = i
  BY DEF InputsAre
<1>3. PICK m \in Nat : m = Len(ev) /\ DOMAIN ev = 1..m
  BY LenProperties
<1>4. PICK n \in Nat : n = Len(ls) /\ DOMAIN ls = 1..n
  BY LenProperties
<1>5. /\ DOMAIN e2 = 1..(m + 1)
      /\ \A i \in 1..m : e2[i] = ev[i]
      /\ e2[m + 1] = Input(l)
  BY <1>1, <1>3, AppendProperties, LenProperties
<1>6. /\ DOMAIN l2 = 1..(n + 1)
      /\ \A i \in 1..n : l2[i] = ls[i]
      /\ l2[n + 1] = l
  BY <1>4, AppendProperties, LenProperties
<1> DEFINE at2 == [k \in 1..(n + 1) |-> IF k = n + 1 THEN m + 1 ELSE at[k]]
<1> HIDE DEF e2, l2
<1>a. \A k \in 1..n : at[k] \in 1..m
  BY <1>2, <1>3, <1>4
<1>b. \A k \in 1..n : k \in 1..(n + 1) /\ k # n + 1
  OBVIOUS
<1>7. \A k \in 1..n : at2[k] = at[k] /\ at[k] \in 1..m
  BY <1>a, <1>b
<1>8. at2[n + 1] = m + 1
  OBVIOUS
<1>9. at2 \in [1..(n + 1) -> 1..(m + 1)]
  BY <1>a
<1> HIDE DEF at2
<1>10. \A k \in 1..(n + 1) : k = n + 1 \/ k \in 1..n
  OBVIOUS
<1>11. \A k \in 1..(m + 1) : k = m + 1 \/ k \in 1..m
  OBVIOUS
<1>12. \A j, k \in 1..(n + 1) : j < k => at2[j] < at2[k]
  <2> TAKE j, k \in 1..(n + 1)
  <2> HAVE j < k
  <2>1. j \in 1..n
    OBVIOUS
  <2>2. CASE k = n + 1
    BY <2>1, <2>2, <1>7, <1>8
  <2>3. CASE k \in 1..n
    BY <2>1, <2>3, <1>7, <1>2, <1>4
  <2> QED BY <2>2, <2>3, <1>10
<1>13. \A k \in 1..(n + 1) : e2[at2[k]] = Input(l2[k])
  <2> TAKE k \in 1..(n + 1)
  <2>1. CASE k = n + 1
    BY <2>1, <1>8, <1>5, <1>6
  <2>2. CASE k \in 1..n
    <3>1. e2[at2[k]] = ev[at[k]]
      BY <2>2, <1>7, <1>5
    <3>2. ev[at[k]] = Input(ls[k])
      BY <2>2, <1>2, <1>4
    <3> QED BY <2>2, <3>1, <3>2, <1>6
  <2> QED BY <2>1, <2>2, <1>10
<1>14. \A i \in 1..(m + 1) : e2[i].type = "i" => \E k \in 1..(n + 1) : at2[k] = i
  <2> TAKE i \in 1..(m + 1)
  <2> HAVE e2[i].type = "i"
  <2>1. CASE i = m + 1
    BY <2>1, <1>8
  <2>2. CASE i \in 1..m
    <3>1. PICK k \in 1..n : at[k] = i
      BY <2>2, <1>2, <1>3, <1>4, <1>5
    <3>2. k \in 1..(n + 1) /\ at2[k] = i
      BY <3>1, <1>7
    <3> QED BY <3>2
  <2> QED BY <2>1, <2>2, <1>11
<1>15. InputsAre(e2, l2)
  <2>1. at2 \in [DOMAIN l2 -> DOMAIN e2]
    BY <1>5, <1>6, <1>9
  <2>2. /\ \A j, k \in DOMAIN l2 : j < k => at2[j] < at2[k]
        /\ \A k \in DOMAIN l2 : e2[at2[k]] = Input(l2[k])
    BY <1>6, <1>12, <1>13
  <2>3. \A i \in DOMAIN e2 : e2[i].type = "i" => \E k \in DOMAIN l2 : at2[k] = i
    BY <1>5, <1>6, <1>14
  <2> QED BY <2>1, <2>2, <2>3 DEF InputsAre
<1> QED BY <1>15 DEF e2, l2

(* An event that is no input leaves the inputs alone. *)
LEMMA OutputRecorded ==
  ASSUME NEW ev \in Seq(RecEvent), NEW ls \in Seq(Lines), NEW x \in RecEvent,
         x.type # "i", InputsAre(ev, ls)
  PROVE  InputsAre(Append(ev, x), ls)
<1> DEFINE e2 == Append(ev, x)
<1>2. PICK at \in [DOMAIN ls -> DOMAIN ev] :
        /\ \A j, k \in DOMAIN ls : j < k => at[j] < at[k]
        /\ \A k \in DOMAIN ls : ev[at[k]] = Input(ls[k])
        /\ \A i \in DOMAIN ev : ev[i].type = "i" => \E k \in DOMAIN ls : at[k] = i
  BY DEF InputsAre
<1>3. PICK m \in Nat : m = Len(ev) /\ DOMAIN ev = 1..m
  BY LenProperties
<1>5. /\ DOMAIN e2 = 1..(m + 1)
      /\ \A i \in 1..m : e2[i] = ev[i]
      /\ e2[m + 1] = x
  BY <1>3, AppendProperties, LenProperties
<1> HIDE DEF e2
<1>6. at \in [DOMAIN ls -> DOMAIN e2]
  BY <1>2, <1>3, <1>5
<1>7. \A k \in DOMAIN ls : e2[at[k]] = Input(ls[k])
  BY <1>2, <1>3, <1>5
<1>8. \A i \in DOMAIN e2 : e2[i].type = "i" => \E k \in DOMAIN ls : at[k] = i
  <2> TAKE i \in DOMAIN e2
  <2> HAVE e2[i].type = "i"
  <2>1. i \in 1..m
    BY <1>5
  <2> QED BY <2>1, <1>2, <1>3, <1>5
<1>9. InputsAre(e2, ls)
  BY <1>2, <1>6, <1>7, <1>8 DEF InputsAre
<1> QED BY <1>9 DEF e2

(* A file is its header and then the events. *)
LEMMA HeaderFirst ==
  ASSUME NEW ev \in Seq(RecEvent)
  PROVE  /\ <<Header>> \o ev \in Seq(RecEvent \cup {Header})
         /\ Len(<<Header>> \o ev) = Len(ev) + 1
         /\ DOMAIN (<<Header>> \o ev) = 1..(Len(ev) + 1)
         /\ (<<Header>> \o ev)[1] = Header
         /\ \A i \in 1..Len(ev) : (<<Header>> \o ev)[i + 1] = ev[i]
<1> DEFINE S == RecEvent \cup {Header}
           h == <<Header>>
<1>1. h \in Seq(S) /\ Len(h) = 1 /\ h[1] = Header
  OBVIOUS
<1>2. ev \in Seq(S) /\ Len(ev) \in Nat
  BY SeqMonotonic, LenProperties
<1> HIDE DEF h, S
<1>3. /\ h \o ev \in Seq(S)
      /\ Len(h \o ev) = Len(h) + Len(ev)
      /\ \A i \in 1..(Len(h) + Len(ev)) : (h \o ev)[i] = IF i <= Len(h) THEN h[i] ELSE ev[i - Len(h)]
  BY <1>1, <1>2, ConcatProperties
<1>4. Len(h \o ev) = Len(ev) + 1
  BY <1>1, <1>2, <1>3
<1>5. DOMAIN (h \o ev) = 1..(Len(ev) + 1)
  BY <1>3, <1>4, LenProperties
<1>6. \A i \in 1..(1 + Len(ev)) : (h \o ev)[i] = IF i <= 1 THEN h[i] ELSE ev[i - 1]
  BY <1>1, <1>3
<1>7. (h \o ev)[1] = Header
  BY <1>6, <1>1, <1>2
<1>8. \A i \in 1..Len(ev) : (h \o ev)[i + 1] = ev[i]
  <2> TAKE i \in 1..Len(ev)
  <2>1. i + 1 \in 1..(1 + Len(ev)) /\ ~(i + 1 <= 1) /\ (i + 1) - 1 = i
    BY <1>2
  <2> QED BY <2>1, <1>6
<1> QED BY <1>3, <1>4, <1>5, <1>7, <1>8 DEF h, S

(* The header of a file is no input. *)
LEMMA HeaderIsNoInput ==
  ASSUME NEW ev \in Seq(RecEvent), NEW ls \in Seq(Lines), InputsAre(ev, ls)
  PROVE  InputsAre(<<Header>> \o ev, ls)
<1> DEFINE e2 == <<Header>> \o ev
<1>1. PICK at \in [DOMAIN ls -> DOMAIN ev] :
        /\ \A j, k \in DOMAIN ls : j < k => at[j] < at[k]
        /\ \A k \in DOMAIN ls : ev[at[k]] = Input(ls[k])
        /\ \A i \in DOMAIN ev : ev[i].type = "i" => \E k \in DOMAIN ls : at[k] = i
  BY DEF InputsAre
<1>2. PICK m \in Nat : m = Len(ev) /\ DOMAIN ev = 1..m
  BY LenProperties
<1>3. /\ DOMAIN e2 = 1..(m + 1)
      /\ e2[1] = Header
      /\ \A i \in 1..m : e2[i + 1] = ev[i]
  BY <1>2, HeaderFirst
<1>4. Header.type # "i"
  BY DEF Header
<1> DEFINE at2 == [k \in DOMAIN ls |-> at[k] + 1]
<1> HIDE DEF e2
<1>5. \A k \in DOMAIN ls : at[k] \in 1..m /\ at2[k] = at[k] + 1
  BY <1>1, <1>2
<1>6. at2 \in [DOMAIN ls -> DOMAIN e2]
  BY <1>5, <1>3
<1> HIDE DEF at2
<1>7. \A j, k \in DOMAIN ls : j < k => at2[j] < at2[k]
  BY <1>5, <1>1
<1>8. \A k \in DOMAIN ls : e2[at2[k]] = Input(ls[k])
  BY <1>5, <1>3, <1>1
<1>9. \A i \in DOMAIN e2 : e2[i].type = "i" => \E k \in DOMAIN ls : at2[k] = i
  <2> TAKE i \in DOMAIN e2
  <2> HAVE e2[i].type = "i"
  <2>1. PICK j \in 1..m : i = j + 1
    <3>1. i \in 1..(m + 1) /\ i # 1
      BY <1>3, <1>4
    <3>2. i - 1 \in 1..m /\ i = (i - 1) + 1
      BY <3>1
    <3> QED BY <3>2
  <2>2. ev[j].type = "i"
    BY <2>1, <1>3
  <2>3. PICK k \in DOMAIN ls : at[k] = j
    BY <2>2, <1>1, <1>2
  <2> QED BY <2>1, <2>3, <1>5
<1>10. InputsAre(e2, ls)
  BY <1>6, <1>7, <1>8, <1>9 DEF InputsAre
<1> QED BY <1>10 DEF e2

(* A file written up to its p-th line and then the next is written up to that. *)
LEMMA WrittenOn ==
  ASSUME NEW S, NEW R \in Seq(S), NEW p \in Nat, p < Len(R)
  PROVE  WriteAt(SubSeq(R, 1, p), p + 1, R[p + 1]) = SubSeq(R, 1, p + 1)
<1> DEFINE f == SubSeq(R, 1, p)
           g == SubSeq(R, 1, p + 1)
<1>1. /\ f \in Seq(S) /\ Len(f) = p
      /\ \A i \in 1..p : f[i] = R[i]
  <2>1. \A i \in 1..p : R[i] \in S
    BY LenProperties
  <2> QED BY <2>1, SubSeqProperties
<1>2. /\ g \in Seq(S) /\ Len(g) = p + 1
      /\ \A i \in 1..(p + 1) : g[i] = R[i]
  <2>1. \A i \in 1..(p + 1) : R[i] \in S
    BY LenProperties
  <2> QED BY <2>1, SubSeqProperties
<1> HIDE DEF f, g
<1>3. WriteAt(f, p + 1, R[p + 1]) = [k \in 1..(p + 1) |-> g[k]]
  <2>1. \A k \in 1..(p + 1) : (IF k = p + 1 THEN R[p + 1]
                                ELSE IF k <= Len(f) THEN f[k] ELSE Hole) = g[k]
    BY <1>1, <1>2
  <2>2. (IF p + 1 > Len(f) THEN p + 1 ELSE Len(f)) = p + 1
    BY <1>1
  <2> QED BY <2>1, <2>2 DEF WriteAt
<1>4. g = [k \in 1..(p + 1) |-> g[k]]
  BY <1>2, LenProperties
<1> QED BY <1>3, <1>4 DEF f, g
-----------------------------------------------------------------------------
(* What the mux holds: nothing, or the packet it waits with. *)
LEMMA HeldFacts ==
  /\ \A p : HeldOK(<<p>>, "waiting")
  /\ \A m : m # "waiting" => HeldOK(<<>>, m)
  /\ \A h, m, S : h \in Seq(S) /\ HeldOK(h, m) =>
        /\ m # "waiting" => h = <<>>
        /\ m = "waiting" => Head(h) \in S /\ 1 \in DOMAIN h /\ Head(h) = h[1]
<1>1. \A p : HeldOK(<<p>>, "waiting")
  BY DEF HeldOK
<1>2. \A m : m # "waiting" => HeldOK(<<>>, m)
  BY DEF HeldOK
<1>3. ASSUME NEW h, NEW m, NEW S, h \in Seq(S), HeldOK(h, m)
      PROVE  /\ m # "waiting" => h = <<>>
             /\ m = "waiting" => Head(h) \in S /\ 1 \in DOMAIN h /\ Head(h) = h[1]
  <2>1. PICK n \in Nat : n = Len(h) /\ n = IF m = "waiting" THEN 1 ELSE 0
    BY <1>3, LenProperties DEF HeldOK
  <2>2. ASSUME m # "waiting" PROVE h = <<>>
    BY <1>3, <2>1, <2>2, EmptySeq
  <2>3. ASSUME m = "waiting" PROVE Head(h) \in S /\ 1 \in DOMAIN h /\ Head(h) = h[1]
    <3>1. n > 0
      BY <2>1, <2>3
    <3>2. DOMAIN h = 1..n
      BY <2>1, <1>3, LenProperties
    <3>a. Len(h) > 0
      BY <2>1, <3>1
    <3>3. h # <<>>
      BY <3>a, EmptySeq
    <3>4. Head(h) \in S
      BY <1>3, <3>3, HeadTailProperties
    <3>5. Head(h) = h[1]
      BY <1>3, <3>3
    <3> QED BY <3>1, <3>2, <3>4, <3>5
  <2> QED BY <2>2, <2>3
<1> QED BY <1>1, <1>2, <1>3

(* The packets of each kind. *)
LEMMA PacketKinds ==
  /\ \A p \in OpenSession : p.kind = "open" /\ p.type = "session" /\ p.to \in Channels
  /\ \A p \in OpenOther : p.kind = "open" /\ p.type # "session"
  /\ \A p \in RequestSent : p.kind = "request" /\ p.to \in Channels /\ p.of \in Requests
  /\ \A p \in DataSent : p.kind = "data" /\ p.to \in Channels /\ p.of \in ShellLines
  /\ \A p \in EndSent : p.kind \in {"eof", "close", "adjust"} /\ p.to \in Channels
<1>1. \A p \in OpenSession : p.kind = "open" /\ p.type = "session" /\ p.to \in Channels
  BY DEF OpenSession
<1>2. \A p \in OpenOther : p.kind = "open" /\ p.type # "session"
  BY DEF OpenOther
<1>3. \A p \in RequestSent : p.kind = "request" /\ p.to \in Channels /\ p.of \in Requests
  BY DEF RequestSent
<1>4. \A p \in DataSent : p.kind = "data" /\ p.to \in Channels /\ p.of \in ShellLines
  BY DEF DataSent
<1>5. \A p \in EndSent : p.kind \in {"eof", "close", "adjust"} /\ p.to \in Channels
  BY DEF EndSent
<1> QED BY <1>1, <1>2, <1>3, <1>4, <1>5

(* A client opens a channel it has not opened before. *)
LEMMA PacketsSent ==
  ASSUME NEW p \in Packets
  PROVE  p \in AllPackets /\ (p \in OpenSession => chan[p.to].state = "free")
<1>1. CASE \E c \in Channels : chan[c].state = "free" /\ p = [kind |-> "open", type |-> "session", to |-> c]
  BY <1>1 DEF AllPackets, OpenSession
<1>2. CASE p \in OpenOther
  BY <1>2, PacketKinds DEF AllPackets
<1>3. CASE p \in RequestSent
  BY <1>3, PacketKinds DEF AllPackets
<1>4. CASE p \in DataSent
  BY <1>4, PacketKinds DEF AllPackets
<1>5. CASE p \in EndSent
  BY <1>5, PacketKinds DEF AllPackets
<1> QED
  <2>1. \/ \E c \in Channels : chan[c].state = "free" /\ p = [kind |-> "open", type |-> "session", to |-> c]
        \/ \E t \in {"direct-tcpip", "other"} : p = [kind |-> "open", type |-> t, to |-> t]
        \/ \E c \in Channels : \E r \in Requests : p = [kind |-> "request", of |-> r, to |-> c]
        \/ \E c \in Channels : \E l \in ShellLines : p = [kind |-> "data", of |-> l, to |-> c]
        \/ \E c \in Channels : \E k \in {"eof", "close", "adjust"} : p = [kind |-> k, to |-> c]
    <3> DEFINE A == {[kind |-> "open", type |-> t, to |-> c] :
                      t \in {"session"}, c \in {c \in Channels : chan[c].state = "free"}}
               U(c) == {[kind |-> "request", of |-> r, to |-> c] : r \in Requests}
                       \cup {[kind |-> "data", of |-> l, to |-> c] : l \in ShellLines}
                       \cup {[kind |-> k, to |-> c] : k \in {"eof", "close", "adjust"}}
               D == {c \in Channels : chan[c].state = "open"}
    <3>1. p \in A \/ p \in OpenOther \/ p \in UNION {U(c) : c \in D}
      BY DEF Packets, OpenOther
    <3>2. ASSUME p \in A
          PROVE  \E c \in Channels : chan[c].state = "free" /\ p = [kind |-> "open", type |-> "session", to |-> c]
      BY <3>2
    <3>3. ASSUME p \in OpenOther
          PROVE  \E t \in {"direct-tcpip", "other"} : p = [kind |-> "open", type |-> t, to |-> t]
      BY <3>3, Zenon DEF OpenOther
    <3>4. ASSUME p \in UNION {U(c) : c \in D} PROVE \E c \in Channels : p \in U(c)
      BY <3>4, Zenon
    <3>5. ASSUME NEW c \in Channels, p \in U(c)
          PROVE  \/ \E r \in Requests : p = [kind |-> "request", of |-> r, to |-> c]
                 \/ \E l \in ShellLines : p = [kind |-> "data", of |-> l, to |-> c]
                 \/ \E k \in {"eof", "close", "adjust"} : p = [kind |-> k, to |-> c]
      BY <3>5, Zenon
    <3> HIDE DEF A, U, D
    <3> QED BY <3>1, <3>2, <3>3, <3>4, <3>5, Zenon
  <2> QED BY <2>1, <1>1, <1>2, <1>3, <1>4, <1>5 DEF OpenOther, RequestSent, DataSent, EndSent
-----------------------------------------------------------------------------
(* Initially nothing is open. *)
LEMMA InitInv == Init => SSHInv
<1> SUFFICES ASSUME Init PROVE SSHInv
  OBVIOUS
<1> USE DEF Init
<1>1. MuxOK
  BY HeldFacts, SSHAssumption, EmptySeq DEF MuxOK
<1>2. OffersOK
  BY SSHAssumption, EmptySeq DEF OffersOK
<1>3. ChanOK
  <2>1. \A c \in Channels : chan[c] \in Chan /\ Len(chan[c].reqs) = 0
    BY EmptySeq DEF Chan
  <2> QED BY <2>1, SSHAssumption DEF ChanOK
<1>4. GoroutinesOK
  BY DEF GoroutinesOK
<1>5. RecordsOK
  BY EmptySeq DEF RecordsOK
<1>6. OfferedOnce
  BY DEF OfferedOnce
<1>7. FileSoFar
  BY DEF FileSoFar
<1>8. InputsPublished
  <2>1. InputsAre(<<>>, <<>>)
    <3>1. DOMAIN <<>> = {}
      OBVIOUS
    <3>2. <<>> \in [DOMAIN <<>> -> DOMAIN <<>>]
      BY <3>1
    <3> QED BY <3>1, <3>2 DEF InputsAre
  <2> QED BY <2>1 DEF InputsPublished
<1> QED BY <1>1, <1>2, <1>3, <1>4, <1>5, <1>6, <1>7, <1>8 DEF SSHInv-----------------------------------------------------------------------------
(* One channel as the mux sees it changes, and the others do not. *)
LEMMA ChanUpdate ==
  ASSUME ChanOK, NEW c \in Channels, NEW r \in Chan, Len(r.reqs) <= Cap,
         chan' = [chan EXCEPT ![c] = r]
  PROVE  ChanOK' /\ \A d \in Channels : chan'[d] = IF d = c THEN r ELSE chan[d]
<1>1. \A d \in Channels : chan'[d] = IF d = c THEN r ELSE chan[d]
  BY DEF ChanOK
<1>2. chan' \in [Channels -> Chan]
  BY DEF ChanOK
<1> QED BY <1>1, <1>2 DEF ChanOK

(* What each field of a channel may become. *)
LEMMA ChanFields ==
  ASSUME NEW ch \in Chan
  PROVE  /\ \A s \in {"free", "offered", "open", "closed"} :
               /\ [ch EXCEPT !.state = s] \in Chan
               /\ [ch EXCEPT !.state = s].reqs = ch.reqs
               /\ [ch EXCEPT !.state = s].state = s
         /\ /\ [ch EXCEPT !.eof = TRUE] \in Chan
            /\ [ch EXCEPT !.eof = TRUE].reqs = ch.reqs
            /\ [ch EXCEPT !.eof = TRUE].state = ch.state
         /\ /\ [ch EXCEPT !.eof = TRUE, !.state = "closed"] \in Chan
            /\ [ch EXCEPT !.eof = TRUE, !.state = "closed"].reqs = ch.reqs
            /\ [ch EXCEPT !.eof = TRUE, !.state = "closed"].state = "closed"
BY DEF Chan

(* A packet that finds room is handed on: no queue grows past its capacity, *)
(* no channel becomes free again, and a new one joins those on offer.       *)
LEMMA HandedOn ==
  ASSUME OffersOK, ChanOK, GoroutinesOK, OfferedOnce, NEW p \in AllPackets,
         Room(p), HandOn(p), p \in OpenSession => chan[p.to].state = "free",
         held' = <<>>, waiter' = waiter
  PROVE  OffersOK' /\ ChanOK' /\ OfferedOnce'
<1> USE SSHAssumption
<1>1. /\ ChanOK'
      /\ \A d \in Channels : chan[d].state # "free" => chan'[d].state # "free"
      /\ p \in OpenSession => chan'[p.to].state # "free"
  <2>1. CASE p \in OpenSession
    <3>1. p.to \in Channels /\ chan' = [chan EXCEPT ![p.to].state = "offered"]
      BY <2>1, PacketKinds DEF HandOn
    <3>2. PICK c \in Channels : c = p.to
      BY <3>1
    <3>3. PICK r : r = [chan[c] EXCEPT !.state = "offered"]
      OBVIOUS
    <3>4. r \in Chan /\ r.reqs = chan[c].reqs /\ r.state = "offered"
      BY <3>3, ChanFields DEF ChanOK
    <3>5. chan' = [chan EXCEPT ![c] = r]
      BY <3>1, <3>2, <3>3
    <3>6. Len(r.reqs) <= Cap
      BY <3>4 DEF ChanOK
    <3>7. ChanOK' /\ \A d \in Channels : chan'[d] = IF d = c THEN r ELSE chan[d]
      BY <3>4, <3>5, <3>6, ChanUpdate
    <3> QED BY <3>2, <3>4, <3>7
  <2>2. CASE p \in OpenOther
    BY <2>2, PacketKinds DEF HandOn, ChanOK
  <2>3. CASE p \in RequestSent
    <3>1. /\ p.to \in Channels /\ p.of \in Requests
          /\ chan' = [chan EXCEPT ![p.to].reqs = Append(@, p.of)]
          /\ p \notin OpenSession
      BY <2>3, PacketKinds DEF HandOn
    <3>2. Len(chan[p.to].reqs) < Cap
      BY <2>3, PacketKinds DEF Room
    <3>3. PICK c \in Channels, x \in Requests : c = p.to /\ x = p.of
      BY <3>1
    <3>4. PICK q : q = Append(chan[c].reqs, x)
      OBVIOUS
    <3>5. chan[c] \in Chan /\ chan[c].reqs \in Seq(Requests)
      BY DEF ChanOK, Chan
    <3>6. q \in Seq(Requests) /\ Len(q) <= Cap
      <4>1. Len(chan[c].reqs) < Cap /\ Len(chan[c].reqs) \in Nat
        BY <3>2, <3>3, <3>5, LenProperties
      <4> QED BY <4>1, <3>4, <3>5, AppendProperties
    <3>a. PICK ch \in Chan : ch = chan[c]
      BY <3>5
    <3>7. PICK r : r = [ch EXCEPT !.reqs = q]
      OBVIOUS
    <3>8. r \in Chan /\ r.reqs = q /\ r.state = chan[c].state
      BY <3>7, <3>6, <3>a DEF Chan
    <3>9. chan' = [chan EXCEPT ![c] = r]
      BY <3>1, <3>3, <3>4, <3>7, <3>a
    <3>10. ChanOK' /\ \A d \in Channels : chan'[d] = IF d = c THEN r ELSE chan[d]
      BY <3>6, <3>8, <3>9, ChanUpdate
    <3> QED BY <3>1, <3>8, <3>10
  <2>4. CASE p \in DataSent
    <3>1. /\ p.to \in Channels /\ p.of \in ShellLines
          /\ chan' = [chan EXCEPT ![p.to].data = Append(@, p.of)]
          /\ p \notin OpenSession
      BY <2>4, PacketKinds DEF HandOn
    <3>3. PICK c \in Channels, x \in ShellLines : c = p.to /\ x = p.of
      BY <3>1
    <3>4. PICK q : q = Append(chan[c].data, x)
      OBVIOUS
    <3>5. chan[c] \in Chan /\ chan[c].data \in Seq(ShellLines) /\ Len(chan[c].reqs) <= Cap
      BY DEF ChanOK, Chan
    <3>6. q \in Seq(ShellLines)
      BY <3>4, <3>5, AppendProperties
    <3>a. PICK ch \in Chan : ch = chan[c]
      BY <3>5
    <3>7. PICK r : r = [ch EXCEPT !.data = q]
      OBVIOUS
    <3>8. r \in Chan /\ r.reqs = chan[c].reqs /\ r.state = chan[c].state
      BY <3>7, <3>6, <3>a DEF Chan
    <3>9. chan' = [chan EXCEPT ![c] = r]
      BY <3>1, <3>3, <3>4, <3>7, <3>a
    <3>10. ChanOK' /\ \A d \in Channels : chan'[d] = IF d = c THEN r ELSE chan[d]
      BY <3>5, <3>8, <3>9, ChanUpdate
    <3> QED BY <3>1, <3>8, <3>10
  <2>5. CASE p \in EndSent
    <3>1. PICK c \in Channels : c = p.to
      BY <2>5, PacketKinds
    <3>2. chan[c] \in Chan /\ Len(chan[c].reqs) <= Cap
      BY DEF ChanOK
    <3>3. p \notin OpenSession
      BY <2>5, PacketKinds
    <3>4. CASE p.kind = "eof"
      <4>1. chan' = [chan EXCEPT ![c].eof = TRUE]
        BY <3>4, <3>1 DEF HandOn
      <4>2. PICK r : r = [chan[c] EXCEPT !.eof = TRUE]
        OBVIOUS
      <4>3. r \in Chan /\ r.reqs = chan[c].reqs /\ r.state = chan[c].state
        BY <4>2, <3>2, ChanFields
      <4>4. chan' = [chan EXCEPT ![c] = r]
        BY <4>1, <4>2
      <4>5. ChanOK' /\ \A d \in Channels : chan'[d] = IF d = c THEN r ELSE chan[d]
        BY <3>2, <4>3, <4>4, ChanUpdate
      <4> QED BY <3>3, <4>3, <4>5
    <3>5. CASE p.kind = "close"
      <4>1. chan' = [chan EXCEPT ![c].eof = TRUE, ![c].state = "closed"]
        BY <3>5, <3>1 DEF HandOn
      <4>2. PICK r : r = [chan[c] EXCEPT !.eof = TRUE, !.state = "closed"]
        OBVIOUS
      <4>3. r \in Chan /\ r.reqs = chan[c].reqs /\ r.state = "closed"
        BY <4>2, <3>2, ChanFields
      <4>4. chan' = [chan EXCEPT ![c] = r]
        BY <4>1, <4>2, <3>2 DEF ChanOK, Chan
      <4>5. ChanOK' /\ \A d \in Channels : chan'[d] = IF d = c THEN r ELSE chan[d]
        BY <3>2, <4>3, <4>4, ChanUpdate
      <4> QED BY <3>3, <4>3, <4>5
    <3>6. CASE p.kind = "adjust"
      <4>1. chan' = chan
        BY <3>6 DEF HandOn
      <4> QED BY <3>3, <4>1 DEF ChanOK
    <3> QED BY <3>4, <3>5, <3>6, <2>5, PacketKinds
  <2> QED BY <2>1, <2>2, <2>3, <2>4, <2>5 DEF AllPackets
<1>2. CASE p \in OpenSession \cup OpenOther
  <2>1. Len(chans) < Cap /\ chans' = Append(chans, p)
    BY <1>2, PacketKinds DEF Room, HandOn
  <2>2. PICK n \in Nat : n = Len(chans) /\ DOMAIN chans = 1..n
    BY LenProperties DEF OffersOK
  <2>3. /\ chans' \in Seq(OpenSession \cup OpenOther)
        /\ Len(chans') = n + 1
        /\ \A i \in 1..n : chans'[i] = chans[i]
        /\ chans'[n + 1] = p
    BY <1>2, <2>1, <2>2, AppendProperties DEF OffersOK
  <2>4. DOMAIN chans' = 1..(n + 1)
    BY <2>3, LenProperties
  <2>5. OffersOK'
    BY <2>1, <2>2, <2>3 DEF OffersOK
  <2>6. \A i \in DOMAIN chans' : i = n + 1 \/ i \in DOMAIN chans
    BY <2>2, <2>4
  <2>7. p \in OpenSession => waiter[p.to] = "none"
    BY PacketKinds DEF OfferedOnce
  <2>8. \A i \in DOMAIN chans : Offer(chans, i) /\ p \in OpenSession => chans[i].to # p.to
    BY DEF OfferedOnce
  <2>9. ASSUME NEW i \in DOMAIN chans', Offer(chans', i)
        PROVE  /\ chan'[chans'[i].to].state # "free"
               /\ waiter'[chans'[i].to] = "none"
               /\ \A j \in DOMAIN chans' : Offer(chans', j) /\ chans'[j].to = chans'[i].to => i = j
    <3>1. CASE i = n + 1
      <4>1. p \in OpenSession
        BY <2>9, <3>1, <2>3 DEF Offer
      <4>2. \A j \in DOMAIN chans : Offer(chans', j) => chans'[j].to # p.to
        BY <4>1, <2>8, <2>3, <2>2 DEF Offer
      <4> QED BY <4>1, <4>2, <3>1, <2>3, <2>6, <2>7, <1>1
    <3>2. CASE i \in DOMAIN chans
      <4>1. chans'[i] = chans[i] /\ Offer(chans, i)
        BY <3>2, <2>9, <2>3, <2>2 DEF Offer
      <4>2. chans[i].to \in Channels
        BY <4>1, PacketKinds DEF Offer
      <4>3. chan[chans[i].to].state # "free" /\ waiter[chans[i].to] = "none"
        BY <4>1, <3>2 DEF OfferedOnce
      <4>4. ASSUME NEW j \in DOMAIN chans', Offer(chans', j), chans'[j].to = chans'[i].to
            PROVE  i = j
        <5>1. j # n + 1
          BY <4>4, <4>1, <2>3, <2>8, <3>2 DEF Offer
        <5>2. j \in DOMAIN chans /\ chans'[j] = chans[j] /\ Offer(chans, j)
          BY <5>1, <4>4, <2>6, <2>3, <2>2 DEF Offer
        <5> QED BY <5>2, <4>4, <4>1, <3>2 DEF OfferedOnce
      <4> QED BY <4>1, <4>2, <4>3, <4>4, <1>1
    <3> QED BY <3>1, <3>2, <2>6
  <2>10. DOMAIN held' = {}
    OBVIOUS
  <2>11. \A c \in Channels : waiter'[c] # "none" => chan'[c].state # "free"
    BY <1>1 DEF OfferedOnce
  <2>12. OfferedOnce'
    BY <2>9, <2>10, <2>11 DEF OfferedOnce
  <2> QED BY <2>5, <2>12, <1>1
<1>3. CASE p \notin OpenSession \cup OpenOther
  <2>1. chans' = chans
    BY <1>3, PacketKinds DEF HandOn, AllPackets
  <2>2. DOMAIN held' = {}
    OBVIOUS
  <2>3. \A i \in DOMAIN chans : Offer(chans, i) => chans[i].to \in Channels
    BY PacketKinds DEF Offer
  <2>4. OfferedOnce'
    BY <2>1, <2>2, <2>3, <1>1 DEF OfferedOnce
  <2> QED BY <2>1, <2>4, <1>1 DEF OffersOK
<1> QED BY <1>2, <1>3-----------------------------------------------------------------------------
(* Recordings and the file do not change where no goroutine of a channel works. *)
LEMMA RecordsKept ==
  ASSUME RecordsOK, FileSoFar, InputsPublished, UNCHANGED workerVars
  PROVE  RecordsOK' /\ FileSoFar' /\ InputsPublished'
<1> USE DEF workerVars
<1>1. RecordsOK'
  BY DEF RecordsOK
<1>2. FileSoFar'
  BY DEF FileSoFar, Recording
<1>3. InputsPublished'
  BY DEF InputsPublished
<1> QED BY <1>1, <1>2, <1>3

(* The mux reads a packet. *)
LEMMA MuxReadInv == SSHInv /\ MuxRead => SSHInv'
<1> SUFFICES ASSUME SSHInv, MuxRead PROVE SSHInv'
  OBVIOUS
<1>1. MuxOK /\ OffersOK /\ ChanOK /\ GoroutinesOK /\ RecordsOK /\ OfferedOnce /\ FileSoFar /\ InputsPublished
  BY DEF SSHInv
<1>2. /\ mux = "reading" /\ sent < MaxPackets /\ sent' = sent + 1
      /\ UNCHANGED <<client, conn, waiter, worker>> /\ UNCHANGED workerVars
  BY DEF MuxRead, workerVars
<1>3. PICK p \in Packets :
         \/ Room(p) /\ HandOn(p) /\ UNCHANGED <<mux, held>>
         \/ ~Room(p) /\ mux' = "waiting" /\ held' = <<p>> /\ UNCHANGED <<chans, chan>>
  BY DEF MuxRead
<1>4. p \in AllPackets /\ (p \in OpenSession => chan[p.to].state = "free")
  BY PacketsSent
<1>5. RecordsOK' /\ FileSoFar' /\ InputsPublished'
  BY <1>1, <1>2, RecordsKept
<1>6. GoroutinesOK'
  BY <1>1, <1>2 DEF GoroutinesOK
<1>7. held = <<>>
  BY <1>1, <1>2, HeldFacts DEF MuxOK
<1>8. sent' \in 0..MaxPackets
  BY <1>1, <1>2, SSHAssumption DEF MuxOK
<1>9. CASE Room(p) /\ HandOn(p) /\ UNCHANGED <<mux, held>>
  <2>1. MuxOK'
    BY <1>1, <1>2, <1>8, <1>9 DEF MuxOK
  <2>2. OffersOK' /\ ChanOK' /\ OfferedOnce'
    BY <1>1, <1>2, <1>4, <1>7, <1>9, HandedOn
  <2> QED BY <2>1, <2>2, <1>5, <1>6 DEF SSHInv
<1>10. CASE ~Room(p) /\ mux' = "waiting" /\ held' = <<p>> /\ UNCHANGED <<chans, chan>>
  <2>1. MuxOK'
    <3>1. <<p>> \in Seq(AllPackets)
      BY <1>4
    <3>2. HeldOK(held, mux)'
      BY <1>10, HeldFacts
    <3> QED BY <1>1, <1>2, <1>8, <1>10, <3>1, <3>2 DEF MuxOK
  <2>2. OffersOK' /\ ChanOK'
    BY <1>1, <1>10 DEF OffersOK, ChanOK
  <2>3. \A i \in DOMAIN held' : held'[i] = p
    BY <1>10
  <2>4. \A i \in DOMAIN held' : Offer(held', i) => chan'[held'[i].to].state = "free"
    BY <2>3, <1>4, <1>10 DEF Offer
  <2>5. OfferedOnce'
    BY <1>1, <1>2, <1>10, <2>4 DEF OfferedOnce
  <2> QED BY <2>1, <2>2, <2>5, <1>5, <1>6 DEF SSHInv
<1> QED BY <1>3, <1>9, <1>10

(* The mux gets rid of the packet it holds. *)
LEMMA MuxResumeInv == SSHInv /\ MuxResume => SSHInv'
<1> SUFFICES ASSUME SSHInv, MuxResume PROVE SSHInv'
  OBVIOUS
<1>1. MuxOK /\ OffersOK /\ ChanOK /\ GoroutinesOK /\ RecordsOK /\ OfferedOnce /\ FileSoFar /\ InputsPublished
  BY DEF SSHInv
<1>2. /\ mux = "waiting" /\ mux' = "reading" /\ held' = <<>>
      /\ UNCHANGED <<client, sent, conn, waiter, worker>> /\ UNCHANGED workerVars
  BY DEF MuxResume, workerVars
<1>3. PICK p : p = Head(held)
  OBVIOUS
<1>4. Room(p) /\ HandOn(p)
  BY <1>3 DEF MuxResume
<1>5. p \in AllPackets /\ 1 \in DOMAIN held /\ held[1] = p
  BY <1>1, <1>2, <1>3, HeldFacts DEF MuxOK
<1>6. p \in OpenSession => chan[p.to].state = "free"
  BY <1>1, <1>5 DEF OfferedOnce, Offer
<1>7. RecordsOK' /\ FileSoFar' /\ InputsPublished'
  BY <1>1, <1>2, RecordsKept
<1>8. GoroutinesOK'
  BY <1>1, <1>2 DEF GoroutinesOK
<1>9. MuxOK'
  <2>1. held' \in Seq(AllPackets) /\ HeldOK(held, mux)'
    BY <1>2, EmptySeq, HeldFacts
  <2> QED BY <1>1, <1>2, <2>1 DEF MuxOK
<1>10. OffersOK' /\ ChanOK' /\ OfferedOnce'
  BY <1>1, <1>2, <1>4, <1>5, <1>6, HandedOn
<1> QED BY <1>7, <1>8, <1>9, <1>10 DEF SSHInv

(* The mux closes the open channels, or the client leaves. *)
LEMMA MuxEndInv == SSHInv /\ (MuxEnd \/ ClientLeaves) => SSHInv'
<1> SUFFICES ASSUME SSHInv, MuxEnd \/ ClientLeaves PROVE SSHInv'
  OBVIOUS
<1>1. MuxOK /\ OffersOK /\ ChanOK /\ GoroutinesOK /\ RecordsOK /\ OfferedOnce /\ FileSoFar /\ InputsPublished
  BY DEF SSHInv
<1>2. UNCHANGED <<sent, held, chans, conn, waiter, worker>> /\ UNCHANGED workerVars
  BY DEF MuxEnd, ClientLeaves, workerVars
<1>3. RecordsOK' /\ FileSoFar' /\ InputsPublished'
  BY <1>1, <1>2, RecordsKept
<1>4. GoroutinesOK' /\ OffersOK'
  BY <1>1, <1>2 DEF GoroutinesOK, OffersOK
<1>5. MuxOK'
  <2>1. CASE MuxEnd
    <3>1. held = <<>> /\ HeldOK(<<>>, "ended")
      <4>1. held \in Seq(AllPackets) /\ HeldOK(held, mux) /\ mux # "waiting"
        BY <1>1, <2>1 DEF MuxOK, MuxEnd
      <4>2. held = <<>>
        BY <4>1, HeldFacts
      <4>3. HeldOK(<<>>, "ended")
        BY HeldFacts
      <4> QED BY <4>2, <4>3
    <3>2. HeldOK(held, mux)'
      BY <3>1, <1>2, <2>1 DEF MuxEnd
    <3> QED BY <1>1, <1>2, <2>1, <3>2 DEF MuxOK, MuxEnd
  <2>2. CASE ClientLeaves
    BY <1>1, <1>2, <2>2 DEF MuxOK, ClientLeaves
  <2> QED BY <2>1, <2>2
<1>6. /\ ChanOK'
      /\ \A c \in Channels : chan'[c].state = "free" <=> chan[c].state = "free"
  <2>1. CASE MuxEnd
    <3> DEFINE closed(c) == [chan[c] EXCEPT !.eof = TRUE, !.state = "closed"]
    <3>1. chan' = [c \in Channels |-> IF chan[c].state = "open" THEN closed(c) ELSE chan[c]]
      BY <2>1 DEF MuxEnd
    <3>2. \A c \in Channels : closed(c) \in Chan /\ closed(c).reqs = chan[c].reqs /\ closed(c).state = "closed"
      BY <1>1, ChanFields DEF ChanOK
    <3> HIDE DEF closed
    <3>3. \A c \in Channels : chan'[c] = chan[c] \/ (chan'[c] = closed(c) /\ chan[c].state = "open")
      BY <3>1
    <3>4. chan' \in [Channels -> Chan]
      BY <3>1, <3>2, <1>1 DEF ChanOK
    <3>5. \A c \in Channels : Len(chan'[c].reqs) <= Cap
      BY <3>2, <3>3, <1>1 DEF ChanOK
    <3>6. \A c \in Channels : chan'[c].state = "free" <=> chan[c].state = "free"
      BY <3>2, <3>3
    <3> QED BY <3>4, <3>5, <3>6 DEF ChanOK
  <2>2. CASE ClientLeaves
    BY <1>1, <2>2 DEF ChanOK, ClientLeaves
  <2> QED BY <2>1, <2>2
<1>7. OfferedOnce'
  <2>1. \A i \in DOMAIN chans : Offer(chans, i) => chans[i].to \in Channels
    BY PacketKinds DEF Offer
  <2>2. \A i \in DOMAIN held : Offer(held, i) => held[i].to \in Channels
    BY PacketKinds DEF Offer
  <2> QED BY <1>1, <1>2, <1>6, <2>1, <2>2 DEF OfferedOnce
<1> QED BY <1>3, <1>4, <1>5, <1>6, <1>7 DEF SSHInv
(* A channel is taken from those on offer: none of the others is the same. *)
LEMMA ServeInv == SSHInv /\ Serve => SSHInv'
<1> SUFFICES ASSUME SSHInv, Serve PROVE SSHInv'
  OBVIOUS
<1>1. MuxOK /\ OffersOK /\ ChanOK /\ GoroutinesOK /\ RecordsOK /\ OfferedOnce /\ FileSoFar /\ InputsPublished
  BY DEF SSHInv
<1>2. UNCHANGED <<client, sent, mux, held, chan, worker>> /\ UNCHANGED workerVars
  BY DEF Serve, ServeChannel, ServeEnd, muxVars, workerVars
<1>3. RecordsOK' /\ FileSoFar' /\ InputsPublished'
  BY <1>1, <1>2, RecordsKept
<1>4. MuxOK' /\ ChanOK'
  BY <1>1, <1>2 DEF Serve, ServeChannel, ServeEnd, MuxOK, ChanOK
<1>5. CASE ServeEnd
  <2>1. UNCHANGED <<chans, waiter>>
    BY <1>5 DEF ServeEnd, muxVars
  <2>2. OffersOK' /\ GoroutinesOK' /\ OfferedOnce'
    BY <1>1, <1>2, <2>1 DEF OffersOK, GoroutinesOK, OfferedOnce
  <2> QED BY <1>3, <1>4, <2>2 DEF SSHInv
<1>6. CASE ServeChannel
  <2>1. PICK p : p = Head(chans)
    OBVIOUS
  <2>2. /\ chans # <<>> /\ chans' = Tail(chans)
        /\ waiter' = IF p.type = "session" THEN [waiter EXCEPT ![p.to] = "accepting"] ELSE waiter
    BY <1>6, <2>1 DEF ServeChannel
  <2>3. PICK n \in Nat : n = Len(chans) /\ DOMAIN chans = 1..n
    BY <1>1, LenProperties DEF OffersOK
  <2>4. /\ p \in OpenSession \cup OpenOther /\ p = chans[1] /\ n >= 1
        /\ chans' \in Seq(OpenSession \cup OpenOther)
        /\ Len(chans') = n - 1
        /\ \A i \in 1..(n - 1) : chans'[i] = chans[i + 1]
    BY <1>1, <2>1, <2>2, <2>3, HeadTailProperties DEF OffersOK
  <2>5. DOMAIN chans' = 1..(n - 1)
    BY <2>4, LenProperties
  <2>6. OffersOK'
    BY <1>1, <2>3, <2>4, SSHAssumption DEF OffersOK
  <2>7. p.type = "session" <=> Offer(chans, 1)
    BY <2>4, PacketKinds DEF Offer
  <2>8. Offer(chans, 1) => p.to \in Channels /\ waiter[p.to] = "none" /\ chan[p.to].state # "free"
    BY <1>1, <2>3, <2>4, PacketKinds DEF Offer, OfferedOnce
  <2>9. \A i \in 1..(n - 1) : /\ i + 1 \in DOMAIN chans /\ 1 \in DOMAIN chans /\ i + 1 # 1
                              /\ Offer(chans', i) => Offer(chans, i + 1)
    BY <2>3, <2>4 DEF Offer
  <2>10. \A i \in 1..(n - 1) : Offer(chans', i) /\ Offer(chans, 1) => chans'[i].to # p.to
    BY <1>1, <2>4, <2>9 DEF OfferedOnce
  <2>11. GoroutinesOK'
    <3>1. CASE Offer(chans, 1)
      BY <1>1, <1>2, <2>2, <2>7, <2>8, <3>1 DEF GoroutinesOK
    <3>2. CASE ~Offer(chans, 1)
      BY <1>1, <1>2, <2>2, <2>7, <3>2 DEF GoroutinesOK
    <3> QED BY <3>1, <3>2
  <2>12. \A c \in Channels : waiter'[c] = waiter[c] \/ (Offer(chans, 1) /\ c = p.to)
    BY <1>1, <2>2, <2>7, <2>8 DEF GoroutinesOK
  <2>13. OfferedOnce'
    <3>1. ASSUME NEW i \in DOMAIN chans', Offer(chans', i)
          PROVE  /\ chan'[chans'[i].to].state # "free"
                 /\ waiter'[chans'[i].to] = "none"
                 /\ \A j \in DOMAIN chans' : Offer(chans', j) /\ chans'[j].to = chans'[i].to => i = j
      <4>1. i \in 1..(n - 1) /\ i + 1 \in DOMAIN chans /\ Offer(chans, i + 1) /\ chans'[i] = chans[i + 1]
        BY <3>1, <2>4, <2>5, <2>9
      <4>2. chans[i + 1].to \in Channels
        BY <4>1, PacketKinds DEF Offer
      <4>3. chan[chans[i + 1].to].state # "free" /\ waiter[chans[i + 1].to] = "none"
        BY <4>1, <1>1 DEF OfferedOnce
      <4>4. waiter'[chans'[i].to] = "none"
        BY <4>1, <4>2, <4>3, <2>10, <2>12, <3>1
      <4>5. ASSUME NEW j \in DOMAIN chans', Offer(chans', j), chans'[j].to = chans'[i].to
            PROVE  i = j
        <5>1. j \in 1..(n - 1) /\ j + 1 \in DOMAIN chans /\ Offer(chans, j + 1) /\ chans'[j] = chans[j + 1]
          BY <4>5, <2>4, <2>5, <2>9
        <5>2. i + 1 = j + 1
          BY <5>1, <4>1, <4>5, <1>1 DEF OfferedOnce
        <5> QED BY <5>1, <5>2, <4>1
      <4> QED BY <4>1, <4>3, <4>4, <4>5, <1>2
    <3>2. \A i \in DOMAIN held' : Offer(held', i) => chan'[held'[i].to].state = "free"
      BY <1>1, <1>2 DEF OfferedOnce
    <3>3. \A c \in Channels : waiter'[c] # "none" => chan'[c].state # "free"
      BY <1>1, <1>2, <2>8, <2>12 DEF OfferedOnce
    <3> QED BY <3>1, <3>2, <3>3 DEF OfferedOnce
  <2> QED BY <1>3, <1>4, <2>6, <2>11, <2>13 DEF SSHInv
<1> QED BY <1>5, <1>6 DEF Serve

(* The state of the channels that are not free may change without the offers *)
(* being concerned.                                                          *)
LEMMA OffersKept ==
  ASSUME OfferedOnce, UNCHANGED <<chans, held>>,
         \A c \in Channels : chan'[c].state = "free" <=> chan[c].state = "free",
         \A c \in Channels : waiter'[c] = "none" <=> waiter[c] = "none"
  PROVE  OfferedOnce'
<1>1. \A i \in DOMAIN chans : Offer(chans, i) => chans[i].to \in Channels
  BY PacketKinds DEF Offer
<1>2. \A i \in DOMAIN held : Offer(held, i) => held[i].to \in Channels
  BY PacketKinds DEF Offer
<1>3. ASSUME NEW i \in DOMAIN chans', Offer(chans', i)
      PROVE  /\ chan'[chans'[i].to].state # "free"
             /\ waiter'[chans'[i].to] = "none"
             /\ \A j \in DOMAIN chans' : Offer(chans', j) /\ chans'[j].to = chans'[i].to => i = j
  BY <1>1, <1>3 DEF OfferedOnce
<1>4. \A i \in DOMAIN held' : Offer(held', i) => chan'[held'[i].to].state = "free"
  BY <1>2 DEF OfferedOnce
<1>5. \A c \in Channels : waiter'[c] # "none" => chan'[c].state # "free"
  BY DEF OfferedOnce
<1> QED BY <1>3, <1>4, <1>5 DEF OfferedOnce

(* A file saved by channels that were saving already, or are not now, is as  *)
(* it was when neither it nor a recording changes and a saver goes on or     *)
(* returns with all lines written.                                           *)
LEMMA FileKept ==
  ASSUME FileSoFar, RecordsOK, GoroutinesOK, NEW c \in Channels,
         worker[c] \notin {"saving", "returned"}, worker'[c] # "saving",
         \A d \in Channels : d # c => worker'[d] = worker[d] /\ rec'[d] = rec[d],
         UNCHANGED <<pos, disk>>
  PROVE  FileSoFar'
<1>1. disk.whole => disk.by # c
  BY DEF FileSoFar
<1>2. \A d \in Channels : d # c => Recording(d)' = Recording(d)
  BY DEF Recording
<1> QED BY <1>1, <1>2 DEF FileSoFar

(* Accept succeeds or fails. *)
LEMMA handleSessionInv ==
  ASSUME SSHInv, NEW c \in Channels, handleSession(c)
  PROVE  SSHInv'
<1>1. MuxOK /\ OffersOK /\ ChanOK /\ GoroutinesOK /\ RecordsOK /\ OfferedOnce /\ FileSoFar /\ InputsPublished
  BY DEF SSHInv
<1>2. UNCHANGED <<client, sent, mux, held, chans, conn, cwd, rec, pos, published, disk>>
  BY DEF handleSession
<1>3. waiter[c] = "accepting" /\ worker[c] = "none"
  BY <1>1 DEF handleSession, GoroutinesOK
<1>4. MuxOK' /\ OffersOK' /\ RecordsOK' /\ InputsPublished'
  BY <1>1, <1>2 DEF MuxOK, OffersOK, RecordsOK, InputsPublished
<1>5. CASE /\ waiter' = [waiter EXCEPT ![c] = "waiting"]
           /\ worker' = [worker EXCEPT ![c] = "idle"]
           /\ chan' = [chan EXCEPT ![c].state = "open"]
  <2>1. PICK r : r = [chan[c] EXCEPT !.state = "open"]
    OBVIOUS
  <2>2. r \in Chan /\ r.reqs = chan[c].reqs /\ r.state = "open"
    BY <2>1, <1>1, ChanFields DEF ChanOK
  <2>3. Len(r.reqs) <= Cap
    BY <2>2, <1>1 DEF ChanOK
  <2>4. chan' = [chan EXCEPT ![c] = r]
    BY <1>5, <2>1
  <2>5. ChanOK' /\ \A d \in Channels : chan'[d] = IF d = c THEN r ELSE chan[d]
    BY <1>1, <2>2, <2>3, <2>4, ChanUpdate
  <2>6. GoroutinesOK'
    BY <1>1, <1>5 DEF GoroutinesOK
  <2>7. chan[c].state # "free"
    BY <1>1, <1>3 DEF OfferedOnce
  <2>8. \A d \in Channels : waiter'[d] = "none" <=> waiter[d] = "none"
    BY <1>1, <1>3, <1>5 DEF GoroutinesOK
  <2>9. \A d \in Channels : chan'[d].state = "free" <=> chan[d].state = "free"
    BY <2>2, <2>5, <2>7
  <2>10. OfferedOnce'
    BY <1>1, <1>2, <2>8, <2>9, OffersKept
  <2>11. /\ worker'[c] # "saving"
         /\ \A d \in Channels : d # c => worker'[d] = worker[d] /\ rec'[d] = rec[d]
    BY <1>1, <1>2, <1>5 DEF GoroutinesOK
  <2>12. FileSoFar'
    BY <1>1, <1>2, <1>3, <2>11, FileKept
  <2> QED BY <1>4, <2>5, <2>6, <2>10, <2>12 DEF SSHInv
<1>6. CASE waiter' = [waiter EXCEPT ![c] = "returned"] /\ UNCHANGED <<worker, chan>>
  <2>1. GoroutinesOK'
    BY <1>1, <1>3, <1>6 DEF GoroutinesOK
  <2>2. \A d \in Channels : waiter'[d] = "none" <=> waiter[d] = "none"
    BY <1>1, <1>3, <1>6 DEF GoroutinesOK
  <2>3. OfferedOnce'
    BY <1>1, <1>2, <1>6, <2>2, OffersKept
  <2>4. ChanOK' /\ FileSoFar'
    BY <1>1, <1>2, <1>6, RecordsKept DEF ChanOK, workerVars
  <2> QED BY <1>4, <2>1, <2>3, <2>4 DEF SSHInv
<1> QED BY <1>5, <1>6 DEF handleSession-----------------------------------------------------------------------------
(* The goroutine of a channel goes on to another stage. *)
LEMMA StageOK ==
  ASSUME GoroutinesOK, NEW c \in Channels, worker[c] # "none", UNCHANGED waiter,
         NEW w \in {"idle", "shell", "save", "saving", "returned"},
         worker' = [worker EXCEPT ![c] = w]
  PROVE  /\ GoroutinesOK' /\ worker'[c] = w
         /\ \A d \in Channels : d # c => worker'[d] = worker[d]
BY DEF GoroutinesOK

(* A recording that grows keeps what its Save has written. *)
LEMMA RecordGrows ==
  ASSUME RecordsOK, InputsPublished, NEW c \in Channels,
         NEW ev \in Seq(RecEvent), Len(ev) >= Len(rec[c]), NEW ls \in Seq(Lines),
         InputsAre(ev, ls), UNCHANGED pos,
         rec' = [rec EXCEPT ![c] = ev], published' = [published EXCEPT ![c] = ls]
  PROVE  /\ RecordsOK' /\ InputsPublished'
         /\ \A d \in Channels : d # c => rec'[d] = rec[d]
<1>1. /\ rec' \in [Channels -> Seq(RecEvent)] /\ published' \in [Channels -> Seq(Lines)]
      /\ \A d \in Channels : /\ rec'[d] = IF d = c THEN ev ELSE rec[d]
                             /\ published'[d] = IF d = c THEN ls ELSE published[d]
  <2>1. rec \in [Channels -> Seq(RecEvent)] /\ published \in [Channels -> Seq(Lines)]
    BY DEF RecordsOK
  <2>2. rec' \in [Channels -> Seq(RecEvent)] /\ \A d \in Channels : rec'[d] = IF d = c THEN ev ELSE rec[d]
    BY <2>1
  <2>3. published' \in [Channels -> Seq(Lines)] /\ \A d \in Channels : published'[d] = IF d = c THEN ls ELSE published[d]
    BY <2>1
  <2> QED BY <2>2, <2>3
<1>2. \A d \in Channels : Len(rec'[d]) \in Nat /\ Len(rec[d]) \in Nat /\ Len(rec'[d]) >= Len(rec[d])
  BY <1>1, LenProperties DEF RecordsOK
<1>3. RecordsOK'
  <2>1. \A d \in Channels : pos[d] <= Len(rec'[d]) + 1
    BY <1>2 DEF RecordsOK
  <2> QED BY <1>1, <2>1 DEF RecordsOK
<1>4. InputsPublished'
  BY <1>1 DEF InputsPublished
<1> QED BY <1>1, <1>3, <1>4

(* The recorder's events. *)
LEMMA EventsRecorded ==
  /\ Output \in RecEvent /\ Output.type # "i"
  /\ Resize \in RecEvent /\ Resize.type # "i"
  /\ \A l \in Lines : Input(l) \in RecEvent
BY DEF Output, Resize, Input, RecEvent, Lines

(* An output or a resize is recorded. *)
LEMMA OutputGrows ==
  ASSUME RecordsOK, InputsPublished, NEW c \in Channels,
         NEW x \in RecEvent, x.type # "i", UNCHANGED <<pos, published>>,
         rec' = [rec EXCEPT ![c] = Append(@, x)]
  PROVE  /\ RecordsOK' /\ InputsPublished'
         /\ \A d \in Channels : d # c => rec'[d] = rec[d]
<1>1. rec[c] \in Seq(RecEvent) /\ published[c] \in Seq(Lines) /\ InputsAre(rec[c], published[c])
  BY DEF RecordsOK, InputsPublished
<1>2. PICK ev : ev = Append(rec[c], x)
  OBVIOUS
<1>3. ev \in Seq(RecEvent) /\ Len(ev) = Len(rec[c]) + 1 /\ Len(rec[c]) \in Nat
  BY <1>1, <1>2, AppendProperties, LenProperties
<1>4. InputsAre(ev, published[c])
  BY <1>1, <1>2, OutputRecorded
<1>5. published' = [published EXCEPT ![c] = published[c]]
  BY DEF RecordsOK
<1>6. rec' = [rec EXCEPT ![c] = ev] /\ Len(ev) >= Len(rec[c])
  BY <1>2, <1>3
<1> QED BY <1>1, <1>3, <1>4, <1>5, <1>6, RecordGrows

(* A line is recorded and published, and perhaps what it prints recorded.  *)
LEMMA LineGrows ==
  ASSUME RecordsOK, InputsPublished, NEW c \in Channels, NEW l \in Lines, UNCHANGED pos,
         NEW ev, rec' = [rec EXCEPT ![c] = ev],
         \/ ev = Append(rec[c], Input(l))
         \/ ev = Append(Append(rec[c], Input(l)), Output),
         published' = [published EXCEPT ![c] = Append(@, l)]
  PROVE  /\ RecordsOK' /\ InputsPublished'
         /\ \A d \in Channels : d # c => rec'[d] = rec[d]
<1>1. rec[c] \in Seq(RecEvent) /\ published[c] \in Seq(Lines) /\ InputsAre(rec[c], published[c])
  BY DEF RecordsOK, InputsPublished
<1>2. PICK e1 : e1 = Append(rec[c], Input(l))
  OBVIOUS
<1>3. PICK ls : ls = Append(published[c], l)
  OBVIOUS
<1>4. /\ e1 \in Seq(RecEvent) /\ Len(e1) = Len(rec[c]) + 1
      /\ Len(rec[c]) \in Nat /\ ls \in Seq(Lines)
  BY <1>1, <1>2, <1>3, EventsRecorded, AppendProperties, LenProperties
<1>5. InputsAre(e1, ls)
  BY <1>1, <1>2, <1>3, InputRecorded
<1>6. ev \in Seq(RecEvent) /\ Len(ev) >= Len(rec[c]) /\ InputsAre(ev, ls)
  <2>1. CASE ev = e1
    BY <1>4, <1>5, <2>1
  <2>2. CASE ev = Append(e1, Output)
    <3>1. ev \in Seq(RecEvent) /\ Len(ev) = Len(e1) + 1
      BY <1>4, <2>2, EventsRecorded, AppendProperties
    <3>2. InputsAre(ev, ls)
      BY <1>4, <1>5, <2>2, EventsRecorded, OutputRecorded
    <3> QED BY <1>4, <3>1, <3>2
  <2> QED BY <1>2, <2>1, <2>2
<1>7. published' = [published EXCEPT ![c] = ls]
  BY <1>3
<1> QED BY <1>4, <1>6, <1>7, RecordGrows

(* What Command leaves in the recording. *)
LEMMA CommandRecords ==
  ASSUME RecordsOK, InputsPublished, NEW c \in Channels, NEW l \in Lines, UNCHANGED pos,
         NEW dir, Command(c, l, dir)
  PROVE  /\ RecordsOK' /\ InputsPublished'
         /\ \A d \in Channels : d # c => rec'[d] = rec[d]
<1>1. rec[c] \in Seq(RecEvent)
  BY DEF RecordsOK
<1>2. PICK ev : ev = Append(rec[c], Input(l)) \o IF DispatchCommand(l, dir).prints THEN <<Output>> ELSE <<>>
  OBVIOUS
<1>3. rec' = [rec EXCEPT ![c] = ev] /\ published' = [published EXCEPT ![c] = Append(@, l)]
  BY <1>2 DEF Command
<1>4. \/ ev = Append(rec[c], Input(l)) \o <<Output>>
      \/ ev = Append(rec[c], Input(l)) \o <<>>
  BY <1>2
<1>5. \/ ev = Append(rec[c], Input(l))
      \/ ev = Append(Append(rec[c], Input(l)), Output)
  BY <1>1, <1>4, AppendTwo, EventsRecorded
<1> QED BY <1>3, <1>5, LineGrows

(* The first of the requests or of the data of a channel is taken. *)
LEMMA QueueTaken ==
  ASSUME ChanOK, NEW c \in Channels,
         \/ chan[c].reqs # <<>> /\ chan' = [chan EXCEPT ![c].reqs = Tail(@)]
         \/ chan[c].data # <<>> /\ chan' = [chan EXCEPT ![c].data = Tail(@)]
  PROVE  ChanOK' /\ \A d \in Channels : chan'[d].state = chan[d].state
<1>1. PICK ch \in Chan : ch = chan[c]
  BY DEF ChanOK
<1>2. /\ ch.reqs \in Seq(Requests) /\ ch.data \in Seq(ShellLines)
      /\ Len(ch.reqs) <= Cap /\ Len(ch.reqs) \in Nat
  BY <1>1, LenProperties DEF ChanOK, Chan
<1>3. CASE chan[c].reqs # <<>> /\ chan' = [chan EXCEPT ![c].reqs = Tail(@)]
  <2>1. PICK q : q = Tail(ch.reqs)
    OBVIOUS
  <2>2. q \in Seq(Requests) /\ Len(q) <= Cap
    BY <1>1, <1>2, <1>3, <2>1, HeadTailProperties, SSHAssumption
  <2>3. PICK r : r = [ch EXCEPT !.reqs = q]
    OBVIOUS
  <2>4. r \in Chan /\ r.reqs = q /\ r.state = ch.state
    BY <2>2, <2>3 DEF Chan
  <2>5. chan' = [chan EXCEPT ![c] = r]
    BY <1>1, <1>3, <2>1, <2>3
  <2>6. ChanOK' /\ \A d \in Channels : chan'[d] = IF d = c THEN r ELSE chan[d]
    BY <2>2, <2>4, <2>5, ChanUpdate
  <2> QED BY <1>1, <2>4, <2>6
<1>4. CASE chan[c].data # <<>> /\ chan' = [chan EXCEPT ![c].data = Tail(@)]
  <2>1. PICK q : q = Tail(ch.data)
    OBVIOUS
  <2>2. q \in Seq(ShellLines)
    BY <1>1, <1>2, <1>4, <2>1, HeadTailProperties
  <2>3. PICK r : r = [ch EXCEPT !.data = q]
    OBVIOUS
  <2>4. r \in Chan /\ r.reqs = ch.reqs /\ r.state = ch.state
    BY <2>2, <2>3 DEF Chan
  <2>5. chan' = [chan EXCEPT ![c] = r]
    BY <1>1, <1>4, <2>1, <2>3
  <2>6. ChanOK' /\ \A d \in Channels : chan'[d] = IF d = c THEN r ELSE chan[d]
    BY <1>2, <2>4, <2>5, ChanUpdate
  <2> QED BY <1>1, <2>4, <2>6
<1> QED BY <1>3, <1>4-----------------------------------------------------------------------------
(* The goroutine of a channel leaves the mux, handleConnection and the other *)
(* goroutine of the channel alone.                                           *)
LEMMA WorkFrame ==
  ASSUME SSHInv, UNCHANGED <<client, sent, mux, held, chans, conn, waiter>>,
         ChanOK', \A d \in Channels : chan'[d].state = chan[d].state
  PROVE  MuxOK' /\ OffersOK' /\ OfferedOnce'
<1>1. MuxOK /\ OffersOK /\ OfferedOnce
  BY DEF SSHInv
<1>2. OfferedOnce'
  BY <1>1, OffersKept
<1> QED BY <1>1, <1>2 DEF MuxOK, OffersOK

(* A request is handled. *)
LEMMA handleSessionRequestInv ==
  ASSUME SSHInv, NEW c \in Channels, handleSessionRequest(c)
  PROVE  SSHInv'
<1>1. MuxOK /\ OffersOK /\ ChanOK /\ GoroutinesOK /\ RecordsOK /\ OfferedOnce /\ FileSoFar /\ InputsPublished
  BY DEF SSHInv
<1>2. /\ worker[c] = "idle" /\ chan[c].reqs # <<>>
      /\ chan' = [chan EXCEPT ![c].reqs = Tail(@)]
      /\ UNCHANGED <<client, sent, mux, held, chans, conn, waiter, pos, disk>>
  BY DEF handleSessionRequest
<1>3. ChanOK' /\ \A d \in Channels : chan'[d].state = chan[d].state
  BY <1>1, <1>2, QueueTaken
<1>4. MuxOK' /\ OffersOK' /\ OfferedOnce'
  BY <1>2, <1>3, WorkFrame
<1>5. PICK r : r = Head(chan[c].reqs)
  OBVIOUS
<1>6. r \in Requests /\ r.line \in Lines
  <2>1. chan[c].reqs \in Seq(Requests)
    BY <1>1 DEF ChanOK, Chan
  <2> QED BY <1>2, <1>5, <2>1, HeadTailProperties DEF Lines
<1>7. \/ /\ r.type \in {"pty-req", "window-change", "env"}
         /\ rec' = IF r.type = "env" THEN rec ELSE [rec EXCEPT ![c] = Append(@, Resize)]
         /\ UNCHANGED <<worker, published>>
      \/ /\ rec' = [rec EXCEPT ![c] = Append(@, Output)]
         /\ worker' = [worker EXCEPT ![c] = "shell"]
         /\ UNCHANGED published
      \/ /\ Command(c, r.line, Home)
         /\ worker' = [worker EXCEPT ![c] = "returned"]
  BY <1>5 DEF handleSessionRequest
<1>8. /\ RecordsOK' /\ InputsPublished'
      /\ \A d \in Channels : d # c => rec'[d] = rec[d]
  <2>1. CASE UNCHANGED <<rec, published>>
    BY <1>1, <1>2, <2>1 DEF RecordsOK, InputsPublished
  <2>2. CASE rec' = [rec EXCEPT ![c] = Append(@, Resize)] /\ UNCHANGED published
    BY <1>1, <1>2, <2>2, EventsRecorded, OutputGrows
  <2>3. CASE rec' = [rec EXCEPT ![c] = Append(@, Output)] /\ UNCHANGED published
    BY <1>1, <1>2, <2>3, EventsRecorded, OutputGrows
  <2>4. CASE Command(c, r.line, Home)
    BY <1>1, <1>2, <1>6, <2>4, CommandRecords
  <2> QED BY <1>7, <2>1, <2>2, <2>3, <2>4
<1>9. PICK w \in {"idle", "shell", "returned"} : worker' = [worker EXCEPT ![c] = w]
  <2>1. worker = [worker EXCEPT ![c] = "idle"]
    BY <1>1, <1>2 DEF GoroutinesOK
  <2> QED BY <1>7, <2>1
<1>10. /\ GoroutinesOK' /\ worker'[c] = w
       /\ \A d \in Channels : d # c => worker'[d] = worker[d]
  BY <1>1, <1>2, <1>9, StageOK
<1>11. FileSoFar'
  BY <1>1, <1>2, <1>8, <1>10, FileKept
<1> QED BY <1>3, <1>4, <1>8, <1>10, <1>11 DEF SSHInv

(* A line is typed into the shell. *)
LEMMA ShellLineInv ==
  ASSUME SSHInv, NEW c \in Channels, ShellLine(c)
  PROVE  SSHInv'
<1>1. MuxOK /\ OffersOK /\ ChanOK /\ GoroutinesOK /\ RecordsOK /\ OfferedOnce /\ FileSoFar /\ InputsPublished
  BY DEF SSHInv
<1>2. /\ worker[c] = "shell" /\ chan[c].data # <<>>
      /\ chan' = [chan EXCEPT ![c].data = Tail(@)]
      /\ UNCHANGED <<client, sent, mux, held, chans, conn, waiter, pos, disk>>
  BY DEF ShellLine
<1>3. ChanOK' /\ \A d \in Channels : chan'[d].state = chan[d].state
  BY <1>1, <1>2, QueueTaken
<1>4. MuxOK' /\ OffersOK' /\ OfferedOnce'
  BY <1>2, <1>3, WorkFrame
<1>5. PICK line : line = Head(chan[c].data)
  OBVIOUS
<1>6. line \in Lines
  <2>1. chan[c].data \in Seq(ShellLines)
    BY <1>1 DEF ChanOK, Chan
  <2> QED BY <1>2, <1>5, <2>1, HeadTailProperties DEF Lines
<1>7. \/ UNCHANGED <<worker, rec, published>>
      \/ /\ rec' = [rec EXCEPT ![c] = @ \o <<Input(line), Output>>]
         /\ published' = [published EXCEPT ![c] = Append(@, line)]
         /\ worker' = [worker EXCEPT ![c] = "save"]
      \/ /\ Command(c, line, cwd[c])
         /\ UNCHANGED worker
  BY <1>5 DEF ShellLine
<1>8. /\ RecordsOK' /\ InputsPublished'
      /\ \A d \in Channels : d # c => rec'[d] = rec[d]
  <2>1. CASE UNCHANGED <<rec, published>>
    BY <1>1, <1>2, <2>1 DEF RecordsOK, InputsPublished
  <2>2. CASE /\ rec' = [rec EXCEPT ![c] = @ \o <<Input(line), Output>>]
             /\ published' = [published EXCEPT ![c] = Append(@, line)]
    <3>1. PICK ev : ev = rec[c] \o <<Input(line), Output>>
      OBVIOUS
    <3>2. ev = Append(Append(rec[c], Input(line)), Output)
      BY <1>1, <1>6, <3>1, AppendTwo, EventsRecorded DEF RecordsOK
    <3>3. rec' = [rec EXCEPT ![c] = ev]
      BY <2>2, <3>1
    <3> QED BY <1>1, <1>2, <1>6, <2>2, <3>2, <3>3, LineGrows
  <2>3. CASE Command(c, line, cwd[c])
    BY <1>1, <1>2, <1>6, <2>3, CommandRecords
  <2> QED BY <1>7, <2>1, <2>2, <2>3
<1>9. PICK w \in {"shell", "save"} : worker' = [worker EXCEPT ![c] = w]
  <2>1. worker = [worker EXCEPT ![c] = "shell"]
    BY <1>1, <1>2 DEF GoroutinesOK
  <2> QED BY <1>7, <2>1
<1>10. /\ GoroutinesOK' /\ worker'[c] = w
       /\ \A d \in Channels : d # c => worker'[d] = worker[d]
  BY <1>1, <1>2, <1>9, StageOK
<1>11. FileSoFar'
  BY <1>1, <1>2, <1>8, <1>10, FileKept
<1> QED BY <1>3, <1>4, <1>8, <1>10, <1>11 DEF SSHInv

(* dispatchRequests returns, or the shell finds no more data. *)
LEMMA LeaveInv ==
  ASSUME SSHInv, NEW c \in Channels, DispatchEnds(c) \/ ShellEOF(c)
  PROVE  SSHInv'
<1>1. MuxOK /\ OffersOK /\ ChanOK /\ GoroutinesOK /\ RecordsOK /\ OfferedOnce /\ FileSoFar /\ InputsPublished
  BY DEF SSHInv
<1>2. /\ worker[c] \in {"idle", "shell"}
      /\ UNCHANGED <<client, sent, mux, held, chans, chan, conn, waiter, rec, pos, published, disk>>
  BY DEF DispatchEnds, ShellEOF, muxVars
<1>3. PICK w \in {"save", "returned"} : worker' = [worker EXCEPT ![c] = w]
  BY DEF DispatchEnds, ShellEOF
<1>4. /\ GoroutinesOK' /\ worker'[c] = w
      /\ \A d \in Channels : d # c => worker'[d] = worker[d]
  BY <1>1, <1>2, <1>3, StageOK
<1>5. FileSoFar'
  BY <1>1, <1>2, <1>4, FileKept
<1>6. ChanOK' /\ RecordsOK' /\ InputsPublished'
  BY <1>1, <1>2 DEF ChanOK, RecordsOK, InputsPublished
<1>7. MuxOK' /\ OffersOK' /\ OfferedOnce'
  BY <1>2, <1>6, WorkFrame
<1> QED BY <1>4, <1>5, <1>6, <1>7 DEF SSHInv
(* A Save may only begin, go on, end or fail: the recordings stay. *)
LEMMA SaveFrame ==
  ASSUME SSHInv, NEW c \in Channels, SaveCreate(c) \/ SaveWrite(c) \/ SaveEnd(c) \/ SaveFails(c)
  PROVE  /\ UNCHANGED <<rec, published>>
         /\ MuxOK' /\ OffersOK' /\ OfferedOnce' /\ ChanOK' /\ InputsPublished'
         /\ worker[c] \in {"save", "saving"}
<1>1. ChanOK /\ InputsPublished
  BY DEF SSHInv
<1>2. /\ UNCHANGED <<client, sent, mux, held, chans, chan, conn, waiter, rec, published>>
      /\ worker[c] \in {"save", "saving"}
  BY DEF SaveCreate, SaveWrite, SaveEnd, SaveFails, muxVars
<1>3. ChanOK' /\ InputsPublished'
  BY <1>1, <1>2 DEF ChanOK, InputsPublished
<1>4. MuxOK' /\ OffersOK' /\ OfferedOnce'
  BY <1>2, <1>3, WorkFrame
<1> QED BY <1>2, <1>3, <1>4

(* Create leaves an empty file, and it is this Save's alone if no other is *)
(* under way.                                                              *)
LEMMA SaveCreateInv ==
  ASSUME SSHInv, NEW c \in Channels, SaveCreate(c)
  PROVE  SSHInv'
<1>1. MuxOK /\ OffersOK /\ ChanOK /\ GoroutinesOK /\ RecordsOK /\ OfferedOnce /\ FileSoFar /\ InputsPublished
  BY DEF SSHInv
<1>2. /\ UNCHANGED <<rec, published>>
      /\ MuxOK' /\ OffersOK' /\ OfferedOnce' /\ ChanOK' /\ InputsPublished'
  BY SaveFrame
<1>3. /\ worker[c] = "save" /\ worker' = [worker EXCEPT ![c] = "saving"]
      /\ pos' = [pos EXCEPT ![c] = 0] /\ UNCHANGED waiter
      /\ disk'.file = <<>> /\ disk'.by = c /\ disk'.whole = (Savers = {})
  BY DEF SaveCreate
<1>4. /\ GoroutinesOK' /\ worker'[c] = "saving"
      /\ \A d \in Channels : d # c => worker'[d] = worker[d]
  BY <1>1, <1>3, StageOK
<1>5. RecordsOK' /\ pos'[c] = 0
  <2>1. /\ pos' \in [Channels -> Nat] /\ pos'[c] = 0
        /\ \A d \in Channels : pos'[d] = pos[d] \/ pos'[d] = 0
    BY <1>1, <1>3 DEF RecordsOK
  <2>2. \A d \in Channels : Len(rec[d]) \in Nat
    BY <1>1, LenProperties DEF RecordsOK
  <2>3. \A d \in Channels : pos'[d] <= Len(rec[d]) + 1
    <3> TAKE d \in Channels
    <3>1. pos[d] <= Len(rec[d]) + 1 /\ Len(rec[d]) \in Nat
      BY <1>1, <2>2 DEF RecordsOK
    <3>2. 0 <= Len(rec[d]) + 1
      BY <3>1
    <3> QED BY <3>1, <3>2, <2>1
  <2> QED BY <1>1, <1>2, <2>1, <2>3 DEF RecordsOK
<1>6. SubSeq(Recording(c)', 1, 0) = <<>>
  BY SubSeqEmpty
<1>7. disk'.whole => \A d \in Channels : worker'[d] = "saving" => d = c
  <2>1. disk'.whole => Savers = {}
    BY <1>3, Zenon
  <2>2. Savers = {} => \A d \in Channels : worker[d] # "saving"
    BY DEF Savers
  <2> QED BY <2>1, <2>2, <1>4
<1>8. FileSoFar'
  <2>1. /\ disk'.whole \in BOOLEAN
        /\ disk' = [file |-> disk'.file, by |-> disk'.by, whole |-> disk'.whole]
    BY DEF SaveCreate
  <2>2. disk'.file = SubSeq(Recording(disk.by)', 1, pos'[disk'.by])
    BY <1>3, <1>5, <1>6
  <2>3. (worker[disk.by] = "returned" => pos[disk.by] = Len(rec[disk.by]) + 1)'
    BY <1>3, <1>4
  <2> QED BY <1>3, <1>4, <1>7, <2>1, <2>2, <2>3 DEF FileSoFar
<1> QED BY <1>2, <1>4, <1>5, <1>8 DEF SSHInv

(* A line is written behind the lines this Save has written. *)
LEMMA SaveWriteInv ==
  ASSUME SSHInv, NEW c \in Channels, SaveWrite(c)
  PROVE  SSHInv'
<1>1. MuxOK /\ OffersOK /\ ChanOK /\ GoroutinesOK /\ RecordsOK /\ OfferedOnce /\ FileSoFar /\ InputsPublished
  BY DEF SSHInv
<1>2. /\ UNCHANGED <<rec, published>>
      /\ MuxOK' /\ OffersOK' /\ OfferedOnce' /\ ChanOK' /\ InputsPublished'
  BY SaveFrame
<1>3. /\ worker[c] = "saving" /\ UNCHANGED <<worker, waiter>>
      /\ pos[c] < Len(Recording(c))
      /\ pos' = [pos EXCEPT ![c] = @ + 1]
      /\ disk' = [disk EXCEPT !.file = WriteAt(@, pos[c] + 1, Recording(c)[pos[c] + 1])]
  BY DEF SaveWrite
<1>4. PICK R, p : R = Recording(c) /\ p = pos[c]
  OBVIOUS
<1>5. /\ rec[c] \in Seq(RecEvent) /\ p \in Nat
      /\ R \in Seq(RecEvent \cup {Header}) /\ Len(R) = Len(rec[c]) + 1 /\ Len(rec[c]) \in Nat
  BY <1>1, <1>4, HeaderFirst, LenProperties DEF RecordsOK, Recording
<1>6. GoroutinesOK'
  BY <1>1, <1>3 DEF GoroutinesOK
<1>7. pos' \in [Channels -> Nat] /\ \A d \in Channels : pos'[d] = IF d = c THEN p + 1 ELSE pos[d]
  BY <1>1, <1>3, <1>4 DEF RecordsOK
<1>8. RecordsOK'
  <2>1. p + 1 <= Len(rec[c]) + 1
    BY <1>3, <1>4, <1>5
  <2>2. \A d \in Channels : pos'[d] <= Len(rec'[d]) + 1
    BY <1>1, <1>2, <1>7, <2>1 DEF RecordsOK
  <2> QED BY <1>1, <1>2, <1>7, <2>2 DEF RecordsOK
<1>9. FileSoFar'
  <2>a. /\ disk'.by = disk.by /\ disk'.whole = disk.whole
        /\ disk'.file = WriteAt(disk.file, p + 1, R[p + 1])
        /\ disk' = [file |-> disk'.file, by |-> disk'.by, whole |-> disk'.whole]
    BY <1>1, <1>3, <1>4 DEF FileSoFar
  <2>1. CASE ~disk.whole
    BY <1>1, <2>1, <2>a DEF FileSoFar
  <2>2. CASE disk.whole
    <3>1. c = disk.by /\ disk.file = SubSeq(R, 1, p)
      BY <1>1, <1>3, <1>4, <2>2 DEF FileSoFar
    <3>2. WriteAt(SubSeq(R, 1, p), p + 1, R[p + 1]) = SubSeq(R, 1, p + 1)
      BY <1>3, <1>4, <1>5, WrittenOn
    <3>3. /\ disk'.by \in Channels /\ worker'[disk'.by] = "saving"
          /\ \A d \in Channels : worker'[d] = "saving" => d = disk'.by
      BY <1>1, <1>3, <2>2, <2>a, <3>1 DEF FileSoFar
    <3>4. Recording(c)' = R
      BY <1>2, <1>4 DEF Recording
    <3>5. disk'.file = SubSeq(Recording(disk.by)', 1, pos'[disk'.by])
      BY <2>a, <3>1, <3>2, <3>4, <1>7
    <3> QED BY <1>1, <2>2, <2>a, <3>3, <3>5 DEF FileSoFar
  <2> QED BY <2>1, <2>2, <1>1 DEF FileSoFar
<1> QED BY <1>2, <1>6, <1>8, <1>9 DEF SSHInv
(* A Save that ends has written every line. *)
LEMMA SaveEndInv ==
  ASSUME SSHInv, NEW c \in Channels, SaveEnd(c)
  PROVE  SSHInv'
<1>1. MuxOK /\ OffersOK /\ ChanOK /\ GoroutinesOK /\ RecordsOK /\ OfferedOnce /\ FileSoFar /\ InputsPublished
  BY DEF SSHInv
<1>2. /\ UNCHANGED <<rec, published>>
      /\ MuxOK' /\ OffersOK' /\ OfferedOnce' /\ ChanOK' /\ InputsPublished'
  BY SaveFrame
<1>3. /\ worker[c] = "saving" /\ worker' = [worker EXCEPT ![c] = "returned"]
      /\ pos[c] = Len(Recording(c))
      /\ UNCHANGED <<waiter, pos, disk>>
  BY DEF SaveEnd
<1>4. /\ GoroutinesOK' /\ worker'[c] = "returned"
      /\ \A d \in Channels : d # c => worker'[d] = worker[d]
  BY <1>1, <1>3, StageOK
<1>5. RecordsOK'
  BY <1>1, <1>2, <1>3 DEF RecordsOK
<1>6. pos[c] = Len(rec[c]) + 1
  BY <1>1, <1>3, HeaderFirst DEF RecordsOK, Recording
<1>7. FileSoFar'
  <2>1. disk.whole => c = disk.by
    BY <1>1, <1>3 DEF FileSoFar
  <2>2. \A d \in Channels : Recording(d)' = Recording(d)
    BY <1>2 DEF Recording
  <2> QED BY <1>1, <1>2, <1>3, <1>4, <1>6, <2>1, <2>2 DEF FileSoFar
<1> QED BY <1>2, <1>4, <1>5, <1>7 DEF SSHInv

(* A Save that fails before it has the file leaves it as it was, and later   *)
(* not whole.                                                                *)
LEMMA SaveFailsInv ==
  ASSUME SSHInv, NEW c \in Channels, SaveFails(c)
  PROVE  SSHInv'
<1>1. MuxOK /\ OffersOK /\ ChanOK /\ GoroutinesOK /\ RecordsOK /\ OfferedOnce /\ FileSoFar /\ InputsPublished
  BY DEF SSHInv
<1>2. /\ UNCHANGED <<rec, published>>
      /\ MuxOK' /\ OffersOK' /\ OfferedOnce' /\ ChanOK' /\ InputsPublished'
      /\ worker[c] \in {"save", "saving"}
  BY SaveFrame
<1>3. /\ worker' = [worker EXCEPT ![c] = "returned"]
      /\ disk' = [disk EXCEPT !.whole = @ /\ worker[c] = "save"]
      /\ UNCHANGED <<waiter, pos>>
  BY DEF SaveFails
<1>4. /\ GoroutinesOK' /\ worker'[c] = "returned"
      /\ \A d \in Channels : d # c => worker'[d] = worker[d]
  BY <1>1, <1>2, <1>3, StageOK
<1>5. RecordsOK'
  BY <1>1, <1>2, <1>3 DEF RecordsOK
<1>6. FileSoFar'
  <2>1. PICK w \in BOOLEAN : w = (disk.whole /\ worker[c] = "save")
    OBVIOUS
  <2>2. disk' = [disk EXCEPT !.whole = w]
    BY <1>3, <2>1
  <2>3. /\ disk'.by = disk.by /\ disk'.file = disk.file /\ disk'.whole = w
        /\ disk' = [file |-> disk'.file, by |-> disk'.by, whole |-> disk'.whole]
    BY <1>1, <2>2 DEF FileSoFar
  <2>4. w => disk.whole /\ worker[c] = "save"
    BY <2>1
  <2>5. w => disk.by # c
    BY <1>1, <2>4 DEF FileSoFar
  <2>6. \A d \in Channels : Recording(d)' = Recording(d)
    BY <1>2 DEF Recording
  <2>7. CASE ~w
    BY <2>3, <2>7 DEF FileSoFar
  <2>8. CASE w
    <3>1. /\ disk.whole /\ disk.by \in Channels /\ disk.by # c
          /\ worker'[disk.by] = worker[disk.by]
      BY <1>1, <1>4, <2>4, <2>5, <2>8 DEF FileSoFar
    <3>2. \A d \in Channels : worker'[d] = "saving" => d = disk.by
      BY <1>1, <1>4, <3>1 DEF FileSoFar
    <3> QED BY <1>1, <1>2, <1>3, <2>3, <2>6, <3>1, <3>2 DEF FileSoFar
  <2> QED BY <2>7, <2>8
<1> QED BY <1>2, <1>4, <1>5, <1>6 DEF SSHInv

(* A stuttering step. *)
LEMMA StutterInv == SSHInv /\ UNCHANGED sshVars => SSHInv'
<1> SUFFICES ASSUME SSHInv, UNCHANGED sshVars PROVE SSHInv'
  OBVIOUS
<1>1. MuxOK /\ OffersOK /\ ChanOK /\ GoroutinesOK /\ RecordsOK /\ OfferedOnce /\ FileSoFar /\ InputsPublished
  BY DEF SSHInv
<1>2. UNCHANGED <<client, sent, mux, held, chans, conn, chan, waiter, worker>> /\ UNCHANGED workerVars
  BY DEF sshVars, muxVars, workerVars
<1>3. RecordsOK' /\ FileSoFar' /\ InputsPublished'
  BY <1>1, <1>2, RecordsKept
<1>4. ChanOK' /\ GoroutinesOK'
  BY <1>1, <1>2 DEF ChanOK, GoroutinesOK
<1>5. MuxOK' /\ OffersOK' /\ OfferedOnce'
  BY <1>2, <1>4, WorkFrame
<1> QED BY <1>3, <1>4, <1>5 DEF SSHInv

(* Every step of a goroutine preserves the invariant. *)
LEMMA NextInv == SSHInv /\ [Next]_sshVars => SSHInv'
<1> SUFFICES ASSUME SSHInv, [Next]_sshVars PROVE SSHInv'
  OBVIOUS
<1>1. CASE Mux
  BY <1>1, MuxReadInv, MuxResumeInv, MuxEndInv DEF Mux
<1>2. CASE ClientLeaves
  BY <1>2, MuxEndInv
<1>3. CASE Serve
  BY <1>3, ServeInv
<1>4. ASSUME NEW c \in Channels, handleSession(c) PROVE SSHInv'
  BY <1>4, handleSessionInv
<1>5. ASSUME NEW c \in Channels, Work(c) PROVE SSHInv'
  BY <1>5, handleSessionRequestInv, ShellLineInv, LeaveInv, SaveCreateInv, SaveWriteInv,
     SaveEndInv, SaveFailsInv DEF Work
<1>6. CASE UNCHANGED sshVars
  BY <1>6, StutterInv
<1> QED BY <1>1, <1>2, <1>3, <1>4, <1>5, <1>6 DEF Next

(* A window is open or shut. *)
WindowsOK == window \in [Channels -> {"open", "shut"}]

LEMMA WindowsInit == Init => WindowsOK
BY DEF Init, WindowsOK

LEMMA WindowsStep == WindowsOK /\ [Next]_sshVars => WindowsOK'
<1> SUFFICES ASSUME WindowsOK, [Next]_sshVars PROVE WindowsOK'
  OBVIOUS
<1>1. ASSUME UNCHANGED window \/ \E x, w : w \in {"open", "shut"} /\ window' = [window EXCEPT ![x] = w]
      PROVE  WindowsOK'
  BY <1>1 DEF WindowsOK
<1>2. ASSUME NEW p, HandOn(p) PROVE WindowsOK'
  <2>1. UNCHANGED window \/ window' = [window EXCEPT ![p.to] = "open"]
    BY <1>2, Zenon DEF HandOn
  <2> QED BY <1>1, <2>1
<1>3. ASSUME NEW c \in Channels, Writes(c) PROVE WindowsOK'
  BY <1>1, <1>3 DEF Writes
<1>4. CASE Mux \/ ClientLeaves \/ Serve
  <2>1. CASE MuxRead
    BY <1>1, <1>2, <2>1 DEF MuxRead
  <2>2. CASE MuxResume
    BY <1>2, <2>2 DEF MuxResume
  <2>3. CASE MuxEnd
    <3>1. UNCHANGED window
      BY <2>3, Zenon DEF MuxEnd
    <3> QED BY <1>1, <3>1
  <2>4. CASE ClientLeaves
    BY <1>1, <2>4 DEF ClientLeaves
  <2>5. CASE ServeChannel \/ ServeEnd
    BY <1>1, <2>5 DEF ServeChannel, ServeEnd
  <2> QED BY <1>4, <2>1, <2>2, <2>3, <2>4, <2>5 DEF Mux, Serve
<1>5. ASSUME NEW c \in Channels, handleSession(c) \/ Work(c) PROVE WindowsOK'
  <2>1. CASE handleSession(c)
    BY <1>1, <2>1 DEF handleSession
  <2>2. CASE handleSessionRequest(c)
    <3>1. UNCHANGED window \/ Writes(c)
      BY <2>2, Zenon DEF handleSessionRequest
    <3> QED BY <1>1, <1>3, <3>1
  <2>3. CASE ShellLine(c)
    BY <1>3, <2>3 DEF ShellLine
  <2>4. CASE DispatchEnds(c) \/ ShellEOF(c)
    BY <1>1, <2>4 DEF DispatchEnds, ShellEOF
  <2>5. CASE SaveCreate(c) \/ SaveWrite(c) \/ SaveEnd(c) \/ SaveFails(c)
    BY <1>1, <2>5 DEF SaveCreate, SaveWrite, SaveEnd, SaveFails
  <2> QED BY <1>5, <2>1, <2>2, <2>3, <2>4, <2>5 DEF Work
<1>6. CASE UNCHANGED sshVars
  BY <1>1, <1>6 DEF sshVars
<1> QED BY <1>4, <1>5, <1>6 DEF Next

(* What the invariant says of the types. *)
LEMMA InvTypes == SSHInv /\ WindowsOK => TypeOK
<1> SUFFICES ASSUME SSHInv, WindowsOK PROVE TypeOK
  OBVIOUS
<1>1. /\ client \in {"here", "gone"} /\ sent \in 0..MaxPackets
      /\ mux \in {"reading", "waiting", "ended"} /\ conn \in {"serving", "ended"}
      /\ Len(chans) <= Cap
  BY DEF SSHInv, MuxOK, OffersOK
<1>2. Len(held) = IF mux = "waiting" THEN 1 ELSE 0
  BY DEF SSHInv, MuxOK, HeldOK
<1>3. ASSUME NEW c \in Channels
      PROVE  /\ chan[c].state \in {"free", "offered", "open", "closed"}
             /\ Len(chan[c].reqs) <= Cap
             /\ window[c] \in {"open", "shut"}
  BY DEF SSHInv, ChanOK, Chan, WindowsOK
<1>4. ASSUME NEW c \in Channels
      PROVE  /\ waiter[c] \in {"none", "accepting", "waiting", "returned"}
             /\ worker[c] \in {"none", "idle", "shell", "save", "saving", "returned"}
             /\ worker[c] = "none" <=> waiter[c] # "waiting"
  BY DEF SSHInv, GoroutinesOK
<1>5. ASSUME NEW c \in Channels PROVE pos[c] \in 0..Len(Recording(c))
  <2>1. rec[c] \in Seq(RecEvent) /\ pos[c] \in Nat /\ pos[c] <= Len(rec[c]) + 1
    BY DEF SSHInv, RecordsOK
  <2>2. Len(Recording(c)) = Len(rec[c]) + 1 /\ Len(rec[c]) \in Nat
    BY <2>1, HeaderFirst, LenProperties DEF Recording
  <2> QED BY <2>1, <2>2
<1> HIDE DEF TypeOK
<1> QED BY <1>1, <1>2, <1>3, <1>4, <1>5, Zenon DEF TypeOK

(* A file written alone and to its end is the recording, and its inputs are *)
(* what was published.                                                      *)
LEMMA InvReplay == SSHInv => ReplayIsWhole
<1> SUFFICES ASSUME SSHInv, disk.whole, Savers = {}
             PROVE  disk.file = Recording(disk.by) /\ InputsAre(disk.file, published[disk.by])
  BY DEF ReplayIsWhole
<1>1. PICK c \in Channels : c = disk.by
  BY DEF SSHInv, FileSoFar
<1>2. worker[c] = "returned"
  BY <1>1 DEF SSHInv, FileSoFar, Savers
<1>3. /\ rec[c] \in Seq(RecEvent) /\ published[c] \in Seq(Lines)
      /\ InputsAre(rec[c], published[c])
  BY DEF SSHInv, RecordsOK, InputsPublished
<1>4. disk.file = SubSeq(Recording(c), 1, pos[c]) /\ pos[c] = Len(rec[c]) + 1
  BY <1>1, <1>2 DEF SSHInv, FileSoFar
<1>5. /\ Recording(c) \in Seq(RecEvent \cup {Header})
      /\ Len(Recording(c)) = Len(rec[c]) + 1
  BY <1>3, HeaderFirst DEF Recording
<1>6. disk.file = Recording(c)
  BY <1>4, <1>5, SubSeqFull
<1>7. InputsAre(Recording(c), published[c])
  BY <1>3, HeaderIsNoInput DEF Recording
<1> QED BY <1>1, <1>6, <1>7
-----------------------------------------------------------------------------
(***************************************************************************)
(* The invariant holds throughout.                                         *)
(***************************************************************************)
THEOREM SSHInductive == Spec => []SSHInv
BY InitInv, NextInv, PTL DEF Spec

(***************************************************************************)
(* No Go channel ever holds more than its capacity, and requests are       *)
(* dispatched for exactly the channels whose Accept succeeded, for any     *)
(* number of channels and any client.                                      *)
(***************************************************************************)
THEOREM TypeCorrect == Spec => []TypeOK
<1>1. Spec => []WindowsOK
  BY WindowsInit, WindowsStep, PTL DEF Spec
<1> QED BY <1>1, SSHInductive, InvTypes, PTL

(***************************************************************************)
(* A recording saved by one shell alone and without an error is on disk as *)
(* it was, and its inputs are the commands published, whatever the other   *)
(* channels of the connection did before, and however their Saves failed.  *)
(***************************************************************************)
THEOREM ReplayIsWholeHolds == Spec => []ReplayIsWhole
BY SSHInductive, InvReplay, PTL
-----------------------------------------------------------------------------
(* What FTPProofs says of paths, said of the shell's. *)
LEMMA SpecialIs == OnPaths!Special = Special /\ OnPaths!Here = Here
<1>1. OnPaths!Here = Here
  BY DEF OnPaths!Here, Here, OnPaths!Blank, Blank
<1> QED BY <1>1 DEF OnPaths!Special, Special

LEMMA CardinalityIsTheirs == \A S : OnPaths!Cardinality(S) = Cardinality(S)
BY DEF OnPaths!Cardinality, Cardinality

LEMMA CanonicalIsTheirs == \A q : OnPaths!Canonical(q) = Canonical(q)
<1> SUFFICES ASSUME NEW q PROVE OnPaths!Canonical(q) = Canonical(q)
  OBVIOUS
<1>1. \A i, j : /\ OnPaths!NamesIn(q, i, j) = NamesIn(q, i, j)
               /\ OnPaths!UpsIn(q, i, j) = UpsIn(q, i, j)
  BY SpecialIs DEF OnPaths!NamesIn, NamesIn, OnPaths!UpsIn, UpsIn
<1>2. \A i : OnPaths!Stays(q, i) <=> Stays(q, i)
  BY <1>1, SpecialIs, CardinalityIsTheirs DEF OnPaths!Stays, Stays
<1>3. OnPaths!Staying(q) = Staying(q)
  BY <1>2 DEF OnPaths!Staying, Staying
<1>4. \A S, k : OnPaths!Place(S, k) = Place(S, k)
  BY CardinalityIsTheirs DEF OnPaths!Place, Place
<1>5. OnPaths!Cardinality(Staying(q)) = Cardinality(Staying(q))
  BY CardinalityIsTheirs
<1> QED BY <1>3, <1>4, <1>5 DEF OnPaths!Canonical, Canonical

LEMMA CleanPartIsTheirs == \A clean, p : OnPaths!CleanFTPPart(clean, p) = CleanPart(clean, p)
BY SpecialIs DEF OnPaths!CleanFTPPart, CleanPart

LEMMA cleanPathIsTheirs == \A q : OnPaths!cleanFTPPath(q) = cleanPath(q)
BY CleanPartIsTheirs DEF OnPaths!cleanFTPPath, cleanPath

(* cleanPath returns the canonical path. *)
LEMMA CleanPathIs ==
    ASSUME NEW P, NEW q \in Seq(P)
    PROVE  cleanPath(q) = Canonical(q)
BY OnPaths!CleanIs, CanonicalIsTheirs, cleanPathIsTheirs

(* A path of names is canonical, and one part more is one turn of the loop. *)
LEMMA NamesAreCanonical ==
    ASSUME NEW P, NEW q \in Seq(P), \A i \in 1..Len(q) : q[i] \notin Special
    PROVE  Canonical(q) = q
BY OnPaths!CanonicalOfNames, CanonicalIsTheirs, SpecialIs

LEMMA OnePartMore ==
    ASSUME NEW P, NEW q \in Seq(P), NEW p \in P
    PROVE  Canonical(Append(q, p)) = CleanPart(Canonical(q), p)
BY OnPaths!CanonicalNext, CanonicalIsTheirs, CleanPartIsTheirs

LEMMA EmptyIsCanonical == Canonical(<<>>) = <<>>
BY OnPaths!CanonicalEmpty, CanonicalIsTheirs

LEMMA CleanPartCases ==
    ASSUME NEW clean, NEW p
    PROVE  /\ p \in Here => CleanPart(clean, p) = clean
           /\ CleanPart(clean, "..") = IF clean = <<>> THEN <<>> ELSE Front(clean)
BY OnPaths!CleanPartIs, CleanPartIsTheirs, SpecialIs DEF OnPaths!Front, Front
-----------------------------------------------------------------------------
(* The names of the fake file system's directories. *)
DirNames == {"bin", "boot", "dev", "etc", "home", "lib", "lib64", "media", "mnt", "opt",
             "proc", "root", "run", "sbin", "srv", "sys", "tmp", "usr", "var", "ssh",
             "cron.d", "default", "admin", "local", "log", "spool"}

LEMMA DirNamesAreNames == DirNames \cap Special = {}
<1>1. \A d \in DirNames : d # Blank /\ d # "." /\ d # ".."
  BY Zenon DEF DirNames, Blank
<1>2. \A d \in Special : d = Blank \/ d = "." \/ d = ".."
  BY Zenon DEF Special, Here
<1> QED BY <1>1, <1>2

LEMMA DirsAreNamed == Home \in Dirs /\ Dirs \subseteq Seq(DirNames)
<1>1. \A d \in DirNames, e \in DirNames : /\ <<d>> \in Seq(DirNames)
                                         /\ <<d, e>> \in Seq(DirNames)
  OBVIOUS
<1>2. <<>> \in Seq(DirNames)
  BY EmptySeq
<1>3. \A dir \in Dirs : \/ dir = <<>>
                        \/ \E d \in DirNames : dir = <<d>>
                        \/ \E d \in DirNames, e \in DirNames : dir = <<d, e>>
  BY DEF Dirs, DirNames
<1>4. Home \in Dirs
  BY DEF Home, Dirs
<1> HIDE DEF DirNames
<1>5. ASSUME NEW dir \in Dirs PROVE dir \in Seq(DirNames)
  <2>1. CASE dir = <<>>
    BY <1>2, <2>1
  <2>2. CASE \E d \in DirNames : dir = <<d>>
    BY <1>1, <2>2
  <2>3. CASE \E d \in DirNames, e \in DirNames : dir = <<d, e>>
    BY <1>1, <2>3
  <2> QED BY <1>3, <2>1, <2>2, <2>3
<1> QED BY <1>4, <1>5

(* A directory is found under its canonical path only. *)
LEMMA DirIsCanonical ==
    ASSUME NEW dir \in Dirs
    PROVE  Canonical(dir) = dir
<1>1. dir \in Seq(DirNames) /\ \A i \in 1..Len(dir) : dir[i] \in DirNames
  BY DirsAreNamed
<1>2. \A i \in 1..Len(dir) : dir[i] \notin Special
  BY <1>1, DirNamesAreNames
<1> QED BY <1>1, <1>2, NamesAreCanonical

(* Paths of one part that resolvePath treats on their own. *)
LEMMA SinglePart ==
    ASSUME NEW dir \in Dirs
    PROVE  /\ Canonical(dir \o <<".">>) = dir
           /\ Canonical(dir \o <<"..">>) = IF dir = <<>> THEN <<>> ELSE Front(dir)
           /\ Canonical(<<Blank>>) = <<>>
<1> DEFINE P == DirNames \cup {".", "..", Blank}
<1>1. "." \in P /\ ".." \in P /\ Blank \in P
  OBVIOUS
<1>2. dir \in Seq(P) /\ <<>> \in Seq(P)
  <2>1. DirNames \subseteq P
    OBVIOUS
  <2> HIDE DEF P
  <2> QED BY <2>1, DirsAreNamed, SeqMonotonic, EmptySeq
<1> HIDE DEF P
<1>3. "." \in Here /\ Blank \in Here
  BY DEF Here
<1>4. Canonical(dir) = dir
  BY DirIsCanonical
<1>5. Canonical(Append(dir, ".")) = dir
  BY <1>1, <1>2, <1>3, <1>4, OnePartMore, CleanPartCases
<1>6. Canonical(Append(dir, "..")) = IF dir = <<>> THEN <<>> ELSE Front(dir)
  BY <1>1, <1>2, <1>4, OnePartMore, CleanPartCases
<1>7. Canonical(Append(<<>>, Blank)) = <<>>
  <2>1. PICK none \in Seq(P) : none = <<>>
    BY <1>2
  <2>2. PICK blank \in P : blank = Blank
    BY <1>1
  <2>3. Canonical(Append(none, blank)) = CleanPart(Canonical(none), blank)
    BY OnePartMore
  <2>4. CleanPart(Canonical(none), blank) = Canonical(none)
    BY <1>3, <2>2, CleanPartCases
  <2>5. Canonical(none) = <<>>
    BY <2>1, EmptyIsCanonical
  <2> QED BY <2>1, <2>2, <2>3, <2>4, <2>5
<1>8. /\ dir \o <<".">> = Append(dir, ".") /\ dir \o <<"..">> = Append(dir, "..")
      /\ <<Blank>> = Append(<<>>, Blank)
  BY <1>1, <1>2
<1> QED BY <1>5, <1>6, <1>7, <1>8

LEMMA OnlyParts ==
    /\ Blank # "~" /\ Head(<<Blank>>) = Blank
    /\ Head(<<"~">>) = "~" /\ Tail(<<"~">>) = <<>>
<1>1. Blank # "~"
  BY Zenon DEF Blank
<1> QED BY <1>1

(* resolvePath leads where a path stands for, but for a relative path in    *)
(* the root directory, which it leaves as it is.                            *)
LEMMA ResolveIs ==
    ASSUME NEW dir \in Dirs, NEW P, DirNames \subseteq P,
           NEW path \in [absolute : BOOLEAN, parts : Seq(P)], path.parts # <<>>,
           path.absolute \/ Head(path.parts) # Blank
    PROVE  /\ Full(path, dir) \in Seq(P)
           /\ \/ resolvePath(path, dir) = Canonical(Full(path, dir))
              \/ /\ dir = <<>> /\ ~path.absolute /\ resolvePath(path, dir) = path.parts
                 /\ Full(path, dir) = path.parts
<1> DEFINE t == path.parts
<1>1. t \in Seq(P) /\ t # <<>> /\ path.absolute \in BOOLEAN
  OBVIOUS
<1>a. path.absolute \/ Head(t) # Blank
  OBVIOUS
<1> HIDE DEF t
<1>2. dir \in Seq(P) /\ Home \in Seq(P)
  BY DirsAreNamed, SeqMonotonic
<1>3. CASE path.absolute
  <2>1. resolvePath(path, dir) = Canonical(t)
    BY <1>1, <1>3, CleanPathIs DEF resolvePath, t
  <2>2. Full(path, dir) = t
    <3>1. Full(path, dir) = <<>> \o t
      BY <1>3 DEF Full, Start, t
    <3> QED BY <1>1, <3>1, ConcatEmptySeq
  <2> QED BY <1>1, <2>1, <2>2
<1>4. CASE ~path.absolute /\ Head(t) = "~"
  <2>1. Full(path, dir) = Home \o Tail(t)
    BY <1>4 DEF Full, Start, t
  <2>4. Home \o Tail(t) \in Seq(P)
    BY <1>1, <1>2, HeadTailProperties, ConcatProperties
  <2>2. CASE t = <<"~">>
    <3>1. resolvePath(path, dir) = Home
      BY <1>4, <2>2 DEF resolvePath, t
    <3>2. Home \o Tail(t) = Home
      BY <1>2, <2>2, OnlyParts, ConcatEmptySeq
    <3> QED BY <2>1, <2>4, <3>1, <3>2, DirsAreNamed, DirIsCanonical
  <2>3. CASE t # <<"~">>
    <3>1. t # <<Blank>>
      BY <1>4, OnlyParts
    <3>2. resolvePath(path, dir) = cleanPath(Home \o Tail(t))
      BY <1>4, <2>3, <3>1 DEF resolvePath, t
    <3> QED BY <2>1, <2>4, <3>2, CleanPathIs
  <2> QED BY <2>2, <2>3
<1>6. CASE ~path.absolute /\ Head(t) # "~"
  <2>0. t # <<"~">> /\ t # <<Blank>>
    BY <1>a, <1>6, OnlyParts
  <2>1. Full(path, dir) = dir \o t
    BY <1>6 DEF Full, Start, t
  <2>6. dir \o t \in Seq(P)
    BY <1>1, <1>2, ConcatProperties
  <2>2. CASE t = <<"..">>
    <3>1. resolvePath(path, dir) = IF dir = <<>> THEN <<>> ELSE Front(dir)
      BY <1>6, <2>0, <2>2 DEF resolvePath, t
    <3> QED BY <2>1, <2>2, <2>6, <3>1, SinglePart
  <2>3. CASE t = <<".">>
    <3>1. t # <<"..">>
      BY <2>3
    <3>2. resolvePath(path, dir) = dir
      BY <1>6, <2>0, <2>3, <3>1 DEF resolvePath, t
    <3> QED BY <2>1, <2>3, <2>6, <3>2, SinglePart
  <2>4. CASE t # <<"..">> /\ t # <<".">> /\ dir = <<>>
    <3>1. resolvePath(path, dir) = t
      BY <1>6, <2>0, <2>4 DEF resolvePath, t
    <3>2. dir \o t = t
      BY <1>1, <2>4, ConcatEmptySeq
    <3> QED BY <1>6, <2>1, <2>4, <2>6, <3>1, <3>2 DEF t
  <2>5. CASE t # <<"..">> /\ t # <<".">> /\ dir # <<>>
    <3>1. resolvePath(path, dir) = cleanPath(dir \o t)
      BY <1>6, <2>0, <2>5 DEF resolvePath, t
    <3> QED BY <2>1, <2>6, <3>1, CleanPathIs
  <2> QED BY <2>2, <2>3, <2>4, <2>5
<1> QED BY <1>1, <1>3, <1>4, <1>6

(* Where every part of a path exists, so does what it stands for. *)
LEMMA ExistingLeads ==
    ASSUME NEW dir \in Dirs, NEW P, NEW path,
           Full(path, dir) \in Seq(P), Exists(path, dir),
           Len(Start(path, dir)) <= Len(Full(path, dir)), Start(path, dir) \in Dirs
    PROVE  Canonical(Full(path, dir)) \in Dirs
<1>1. PICK q \in Seq(P) : q = Full(path, dir)
  OBVIOUS
<1>2. PICK i, n \in Nat : i = Len(Start(path, dir)) /\ n = Len(q) /\ i <= n
  <2>1. Len(Start(path, dir)) \in Nat /\ Len(q) \in Nat
    BY <1>1, DirsAreNamed, LenProperties
  <2> QED BY <1>1, <2>1
<1>3. IsDir(Canonical(SubSeq(q, 1, n)))
  BY <1>1, <1>2 DEF Exists
<1>4. SubSeq(q, 1, n) = q
  BY <1>2
<1> QED BY <1>1, <1>3, <1>4 DEF IsDir

(* A path goes on from where it starts, which exists. *)
LEMMA Starts ==
    ASSUME NEW dir \in Dirs, NEW P, DirNames \subseteq P,
           NEW path \in [absolute : BOOLEAN, parts : Seq(P)], path.parts # <<>>
    PROVE  /\ Start(path, dir) \in Dirs
           /\ Len(Start(path, dir)) <= Len(Full(path, dir))
<1>1. PICK rest \in Seq(P) : Full(path, dir) = Start(path, dir) \o rest
  BY HeadTailProperties DEF Full
<1>2. Start(path, dir) \in Dirs
  BY DirsAreNamed DEF Start, Dirs
<1>3. Start(path, dir) \in Seq(P)
  BY <1>2, DirsAreNamed, SeqMonotonic
<1>4. /\ Len(Start(path, dir) \o rest) = Len(Start(path, dir)) + Len(rest)
      /\ Len(Start(path, dir)) \in Nat /\ Len(rest) \in Nat
  BY <1>3, ConcatProperties, LenProperties
<1> QED BY <1>1, <1>2, <1>4

(***************************************************************************)
(* From any directory, cmdCD by any path, of any parts and any length,     *)
(* goes where a real shell would, which looks every part up, with two      *)
(* exceptions: a relative path in the root directory that is not clean is  *)
(* refused, since resolvePath leaves it as it is; and a path through a     *)
(* directory that does not exist, which a real shell refuses, is followed  *)
(* to what it stands for, if that exists.                                  *)
(***************************************************************************)
THEOREM CdGoes ==
    ASSUME NEW dir \in Dirs, NEW P, DirNames \subseteq P,
           NEW path \in [absolute : BOOLEAN, parts : Seq(P)], path.parts # <<>>,
           path.absolute \/ Head(path.parts) # Blank
    PROVE  \/ cmdCD(path, dir).cwd = RealShell(path, dir)
           \/ dir = <<>> /\ ~path.absolute /\ ~Clean(path) /\ cmdCD(path, dir).cwd = dir
           \/ /\ ~Exists(path, dir) /\ IsDir(Canonical(Full(path, dir)))
              /\ cmdCD(path, dir).cwd = Canonical(Full(path, dir))
<1> DEFINE to == Canonical(Full(path, dir))
<1>1. path # NoArg
  BY DEF NoArg, Relative
<1>2. cmdCD(path, dir).cwd = IF resolvePath(path, dir) \in Dirs THEN resolvePath(path, dir)
                             ELSE dir
  BY <1>1 DEF cmdCD, IsDir
<1>3. Exists(path, dir) => to \in Dirs
  BY ResolveIs, Starts, ExistingLeads
<1>4. RealShell(path, dir) = IF Exists(path, dir) THEN to ELSE dir
  BY DEF RealShell
<1> HIDE DEF to
<1>5. CASE resolvePath(path, dir) = to
  BY <1>2, <1>3, <1>4, <1>5 DEF IsDir, to
<1>6. CASE /\ dir = <<>> /\ ~path.absolute /\ resolvePath(path, dir) = path.parts
           /\ Full(path, dir) = path.parts
  <2>1. CASE path.parts \in Dirs
    <3>1. to = path.parts
      BY <1>6, <2>1, DirIsCanonical DEF to
    <3> QED BY <1>5, <1>6, <3>1
  <2>2. CASE path.parts \notin Dirs /\ Clean(path)
    <3>1. path.parts \in Seq(P) /\ DOMAIN path.parts = 1..Len(path.parts)
      OBVIOUS
    <3>2. Canonical(path.parts) = path.parts
      BY <2>2, <3>1, NamesAreCanonical DEF Clean
    <3> QED BY <1>5, <1>6, <3>2 DEF to
  <2>3. CASE path.parts \notin Dirs /\ ~Clean(path)
    BY <1>2, <1>6, <2>3
  <2> QED BY <2>1, <2>2, <2>3
<1> QED BY <1>5, <1>6, ResolveIs DEF to

(* So it agrees in every directory there is. *)
LEMMA DirsAgree == Dirs \subseteq DirsWhereCdAgrees
<1> DEFINE P == DirNames \cup TestParts
<1>1. \A path \in TestPaths :
         /\ path \in [absolute : BOOLEAN, parts : Seq(P)] /\ path.parts # <<>>
         /\ path.absolute \/ Head(path.parts) # Blank
  <2> SUFFICES ASSUME NEW path \in TestPaths
               PROVE  /\ path \in [absolute : BOOLEAN, parts : Seq(P)] /\ path.parts # <<>>
                      /\ path.absolute \/ Head(path.parts) # Blank
    OBVIOUS
  <2>0. path \in PathsOver(TestParts, 3) /\ (path.absolute \/ Head(path.parts) # Blank)
    BY DEF TestPaths
  <2>1. PICK k \in 1..3 : path \in [absolute : BOOLEAN, parts : [1..k -> TestParts]]
    BY <2>0 DEF PathsOver
  <2>2. PICK q \in [1..k -> TestParts] : q = path.parts
    BY <2>1
  <2>3. q \in Seq(P) /\ Len(q) = k
    BY DEF P
  <2>4. q # <<>>
    BY <2>3
  <2> HIDE DEF P
  <2> QED BY <2>0, <2>1, <2>2, <2>3, <2>4
<1>2. DirNames \subseteq P
  OBVIOUS
<1> HIDE DEF P
<1> QED BY <1>1, <1>2, CdGoes DEF DirsWhereCdAgrees
-----------------------------------------------------------------------------
(* Every shell is in a directory of the fake file system. *)
InDirs == cwd \in [Channels -> Dirs]

(* A command leaves it in one. *)
LEMMA CommandStays ==
    ASSUME NEW line, NEW dir \in Dirs
    PROVE  DispatchCommand(line, dir).cwd \in Dirs
<1>1. cmdCD(line.arg, dir).cwd \in Dirs
  BY DirsAreNamed DEF cmdCD, IsDir
<1> QED BY <1>1 DEF DispatchCommand

LEMMA InDirsInit == Init => InDirs
BY DirsAreNamed DEF Init, InDirs

LEMMA InDirsStep == InDirs /\ [Next]_sshVars => InDirs'
<1> SUFFICES ASSUME InDirs, [Next]_sshVars PROVE InDirs'
  OBVIOUS
<1>1. ASSUME NEW c \in Channels, handleSessionRequest(c) PROVE InDirs'
  <2>1. cwd' = cwd \/ cwd' = [cwd EXCEPT ![c] = Home]
    BY <1>1 DEF handleSessionRequest
  <2> QED BY <2>1, DirsAreNamed DEF InDirs
<1>2. ASSUME NEW c \in Channels, ShellLine(c) PROVE InDirs'
  <2>1. cwd' = cwd \/ \E line : cwd' = [cwd EXCEPT ![c] = DispatchCommand(line, cwd[c]).cwd]
    BY <1>2 DEF ShellLine
  <2>2. \A line : DispatchCommand(line, cwd[c]).cwd \in Dirs
    BY CommandStays DEF InDirs
  <2> QED BY <2>1, <2>2 DEF InDirs
<1>3. ASSUME UNCHANGED cwd PROVE InDirs'
  BY <1>3 DEF InDirs
<1>4. CASE Mux \/ ClientLeaves \/ Serve
  <2>1. CASE MuxRead
    BY <1>3, <2>1 DEF MuxRead, workerVars
  <2>2. CASE MuxResume
    BY <1>3, <2>2 DEF MuxResume, workerVars
  <2>3. CASE MuxEnd
    <3>1. UNCHANGED workerVars
      BY <2>3, Zenon DEF MuxEnd
    <3> QED BY <1>3, <3>1 DEF workerVars
  <2>4. CASE ClientLeaves
    BY <1>3, <2>4 DEF ClientLeaves, workerVars
  <2>5. CASE ServeChannel \/ ServeEnd
    BY <1>3, <2>5 DEF ServeChannel, ServeEnd, workerVars
  <2> QED BY <1>4, <2>1, <2>2, <2>3, <2>4, <2>5 DEF Mux, Serve
<1>5. ASSUME NEW c \in Channels, handleSession(c) \/ Work(c) PROVE InDirs'
  <2>1. CASE handleSession(c)
    BY <1>3, <2>1 DEF handleSession, workerVars
  <2>2. CASE DispatchEnds(c) \/ ShellEOF(c)
    BY <1>3, <2>2 DEF DispatchEnds, ShellEOF
  <2>3. CASE SaveCreate(c) \/ SaveWrite(c) \/ SaveEnd(c) \/ SaveFails(c)
    BY <1>3, <2>3 DEF SaveCreate, SaveWrite, SaveEnd, SaveFails
  <2> QED BY <1>1, <1>2, <1>5, <2>1, <2>2, <2>3 DEF Work
<1>6. CASE UNCHANGED sshVars
  BY <1>3, <1>6 DEF sshVars, workerVars
<1> QED BY <1>4, <1>5, <1>6 DEF Next

(***************************************************************************)
(* Wherever the cd commands so far have taken a shell, it is in a          *)
(* directory there is, and cmdCD and resolvePath take it where they would  *)
(* take a real shell, with the two exceptions of CdGoes and no other.      *)
(***************************************************************************)
THEOREM CdAgreesHolds == Spec => []CdAgrees
<1>1. InDirs => CdAgrees
  BY DirsAgree DEF InDirs, CdAgrees
<1>2. Spec => []InDirs
  BY InDirsInit, InDirsStep, PTL DEF Spec
<1> QED BY <1>1, <1>2, PTL
=============================================================================
