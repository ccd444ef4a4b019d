--------------------------- MODULE DashboardProofs ---------------------------
(***************************************************************************)
(* Theorems about Dashboard, for any table, any limits and offsets, any    *)
(* number of writes, ticks and failures.                                   *)
(***************************************************************************)
EXTENDS Dashboard, SequenceTheorems, FiniteSetTheorems, FunctionTheorems, TLAPS

Param == {<<>>} \cup {<<n>> : n \in Int}
Row   == [key : 0..MaxTime, last_seen : 0..MaxTime]
Pager == [phase : {"idle", "asking", "done"}, limit : Param, offset : Param,
          since : Param, stop : {"short", "total"}, owed : SUBSET Rows, failed : Nat]
Req   == [phase : {"none", "count", "select"}, limit : 1..maxPageLimit, offset : Nat,
          since : Int, total : 0..Cardinality(Rows), raced : BOOLEAN]
Page  == [rows : Seq(Rows), limit : 1..maxPageLimit, offset : Nat,
          total : 0..Cardinality(Rows), raced : BOOLEAN]

(***************************************************************************)
(* The inductive invariant.  First the types.                              *)
(***************************************************************************)
TableOK ==
    /\ endpoint \in Endpoints
    /\ clock \in Now..MaxTime
    /\ row \in [Rows -> Row]
    /\ writes \in 0..MaxWrites

ClientOK ==
    /\ pager \in Pager
    /\ req \in Req
    /\ page \in Page
    /\ Len(page.rows) <= page.limit
    /\ req.phase # "none" => pager.phase = "asking"
    /\ pager.stop = "total" => endpoint \in Counted

(* The rows of the SELECT, and those of the COUNT, as the table stands.  *)
Asked == IF endpoint = "attackers" THEN {r \in Present : row[r].last_seen >= req.since}
         ELSE IF endpoint \in {"service", "ip"} THEN Present \cap Matching
         ELSE Present

(* The total is no more than the rows there are now, and their number unless *)
(* one was created since.                                                    *)
TotalOK ==
    /\ req.phase = "count" => endpoint \in Counted
    /\ endpoint \notin Counted \/ req.phase # "select" => req.total = 0
    /\ req.total <= Cardinality(Asked)
    /\ endpoint \in Counted /\ req.phase = "select" /\ ~req.raced =>
          req.total = Cardinality(Asked)

(* A row that is owed has no other beside it in the order, and as many rows *)
(* before it as the client has been shown or more; but not where the handler *)
(* reads no offset.                                                         *)
Window == Listed(row, clock, pager.since)
Before(table, S, r) == {q \in S : table[q].key > table[r].key}
NextOffset == parsePagination(pager.limit, pager.offset).offset

OwedAhead ==
    pager.phase = "asking" /\ endpoint # "recent" =>
        \A r \in pager.owed :
            /\ r \in Window
            /\ \A q \in Present \ {r} : row[q].key # row[r].key
            /\ NextOffset <= Cardinality(Before(row, Window, r))

(* The request was made of the page that is next, and while anything is owed *)
(* of the rows that are in the window still.                                 *)
Asking ==
    req.phase # "none" =>
        /\ req.offset = NextOffset
        /\ req.since <= clock - parseDuration(pager.since)
        /\ pager.owed # {} => Asked = Window

DashInv == TableOK /\ ClientOK /\ TotalOK /\ ShortPageIsLast /\ OwedAhead /\ Asking /\ PagedWhole
-----------------------------------------------------------------------------
(* A parameter is absent or one number. *)
LEMMA Params == Limits \subseteq Param /\ Offsets \subseteq Param /\ Durations \subseteq Param
<1>1. ASSUME NEW p \in Seq(Int), Len(p) <= 1 PROVE p \in Param
  <2>1. PICK n \in Nat : n = Len(p) /\ n <= 1
    BY <1>1, LenProperties
  <2>2. CASE p = <<>>
    BY <2>2 DEF Param
  <2>3. CASE p # <<>>
    <3>1. PICK s \in Seq(Int), e \in Int : p = Append(s, e)
      BY <2>3, SequenceEmptyOrAppend
    <3>2. Len(p) = Len(s) + 1 /\ Len(s) \in Nat
      BY <3>1, AppendProperties, LenProperties
    <3>3. s = <<>>
      BY <3>2, <2>1, EmptySeq
    <3>4. Append(<<>>, e) = <<e>>
      OBVIOUS
    <3> QED BY <3>1, <3>3, <3>4 DEF Param
  <2> QED BY <2>2, <2>3
<1> QED BY <1>1, DashboardAssumption

(* parsePagination: whatever is written, at least one row and no more than   *)
(* the maximum, from a place in the list; and the place of a page follows    *)
(* that of the page before.                                                  *)
LEMMA Parsed ==
  ASSUME NEW l \in Param, NEW o \in Param
  PROVE  /\ parsePagination(l, o).limit \in 1..maxPageLimit
         /\ parsePagination(l, o).offset \in Nat
         /\ \A n \in Nat : parsePagination(l, <<n>>).offset = n
         /\ parseDuration(o) \in Int
<1> USE DashboardAssumption
<1>1. l = <<>> \/ \E n \in Int : l = <<n>>
  BY DEF Param
<1>2. o = <<>> \/ \E n \in Int : o = <<n>>
  BY DEF Param
<1>3. \A n : <<n>> # <<>> /\ <<n>>[1] = n
  OBVIOUS
<1>4. (IF l # <<>> /\ l[1] > 0 THEN l[1] ELSE defaultPageLimit) \in Nat \ {0}
  BY <1>1, <1>3
<1>5. (IF o # <<>> /\ o[1] >= 0 THEN o[1] ELSE 0) \in Nat
  BY <1>2, <1>3
<1>6. parsePagination(l, o).limit \in 1..maxPageLimit
  BY <1>4 DEF parsePagination
<1>7. parsePagination(l, o).offset \in Nat
  BY <1>5 DEF parsePagination
<1>8. \A n \in Nat : parsePagination(l, <<n>>).offset = n
  BY <1>3 DEF parsePagination
<1>9. parseDuration(o) \in Int
  BY <1>2, <1>3 DEF parseDuration
<1> QED BY <1>6, <1>7, <1>8, <1>9

(* LIMIT and OFFSET: no more than the limit; when it is less, the end of the *)
(* list; and every row that far from the offset.                             *)
LEMMA CutFacts ==
  ASSUME NEW S, NEW q \in Seq(S), NEW limit \in Nat \ {0}, NEW offset \in Nat
  PROVE  /\ Cut(q, limit, offset) \in Seq(S)
         /\ Len(Cut(q, limit, offset)) <= limit
         /\ Len(Cut(q, limit, offset)) < limit => Len(q) <= offset + Len(Cut(q, limit, offset))
         /\ \A i \in 1..Len(q) : offset < i /\ i <= offset + limit =>
               \E j \in DOMAIN Cut(q, limit, offset) : Cut(q, limit, offset)[j] = q[i]
<1>1. PICK n \in Nat : n = Len(q) /\ \A i \in 1..n : q[i] \in S
  BY LenProperties
<1>2. PICK e \in Nat : e = IF offset + limit < n THEN offset + limit ELSE n
  OBVIOUS
<1> DEFINE m == offset + 1
           c == Cut(q, limit, offset)
<1>3. c = SubSeq(q, m, e)
  BY <1>1, <1>2 DEF Cut
<1>4. \A i \in m..e : q[i] \in S
  BY <1>1, <1>2
<1>5. /\ SubSeq(q, m, e) \in Seq(S)
      /\ Len(SubSeq(q, m, e)) = IF m <= e THEN e - m + 1 ELSE 0
      /\ \A i \in 1..(e - m + 1) : SubSeq(q, m, e)[i] = q[m + i - 1]
  BY <1>4, SubSeqProperties
<1> HIDE DEF c
<1>6. PICK k \in Nat : k = Len(c) /\ DOMAIN c = 1..k
  BY <1>3, <1>5, LenProperties
<1>7. k = IF m <= e THEN e - m + 1 ELSE 0
  BY <1>3, <1>5, <1>6
<1>8. k <= limit /\ (k < limit => n <= offset + k)
  BY <1>7, <1>2
<1>9. ASSUME NEW i \in 1..n, offset < i, i <= offset + limit
      PROVE  \E j \in DOMAIN c : c[j] = q[i]
  <2>1. i - offset \in 1..(e - m + 1) /\ m + (i - offset) - 1 = i
    BY <1>9, <1>2
  <2>2. c[i - offset] = q[m + (i - offset) - 1]
    BY <1>3, <1>5, <2>1
  <2>3. i - offset \in DOMAIN c
    BY <1>6, <1>7, <2>1
  <2> QED BY <2>1, <2>2, <2>3
<1> QED BY <1>1, <1>3, <1>5, <1>6, <1>8, <1>9 DEF c

(* ORDER BY: every row is in the list, and behind exactly those with a higher *)
(* key if no other has the same.                                             *)
LEMMA SortedPlace ==
  ASSUME NEW S, IsFiniteSet(S), \A x \in S : row[x].key \in Int,
         NEW q \in Sorted(S), NEW r \in S
  PROVE  \E i \in 1..Cardinality(S) :
            /\ q[i] = r
            /\ (\A x \in S \ {r} : row[x].key # row[r].key) => Cardinality(Before(row, S, r)) = i - 1
<1>1. PICK n \in Nat : n = Cardinality(S)
  BY FS_CardinalityType
<1>2. /\ q \in [1..n -> S]
      /\ \A i, j \in 1..n : i < j => q[i] # q[j] /\ row[q[i]].key >= row[q[j]].key
  BY <1>1 DEF Sorted
<1>3. \A i, j \in 1..n : q[i] = q[j] => i = j
  BY <1>2
<1>4. q \in Injection(1..n, S)
  BY <1>2, <1>3, Fun_IsInj
<1>5. Cardinality(1..n) = n
  BY FS_Interval
<1>6. q \in Surjection(1..n, S)
  BY <1>1, <1>4, <1>5, FS_Injection
<1>7. PICK i \in 1..n : q[i] = r
  BY <1>6, Fun_SurjectionProperties
<1>8. ASSUME \A x \in S \ {r} : row[x].key # row[r].key
      PROVE  Cardinality(Before(row, S, r)) = i - 1
  <2> DEFINE f == [k \in 1..(i - 1) |-> q[k]]
             B == Before(row, S, r)
  <2>1. \A k \in 1..(i - 1) : k \in 1..n /\ k < i
    OBVIOUS
  <2>2. \A k \in 1..(i - 1) : q[k] \in B
    <3> TAKE k \in 1..(i - 1)
    <3>1. q[k] \in S /\ q[k] # r /\ row[q[k]].key >= row[r].key
      BY <1>2, <1>7, <2>1
    <3> QED BY <3>1, <1>8 DEF Before
  <2>3. f \in [1..(i - 1) -> B]
    BY <2>2
  <2>4. \A a, b \in 1..(i - 1) : f[a] = f[b] => a = b
    BY <1>3, <2>1
  <2>5. \A t \in B : \E s \in 1..(i - 1) : f[s] = t
    <3> TAKE t \in B
    <3>1. t \in S /\ row[t].key > row[r].key
      BY DEF Before
    <3>2. PICK s \in 1..n : q[s] = t
      BY <3>1, <1>6, Fun_SurjectionProperties
    <3>3. ~(i < s) /\ s # i
      BY <3>1, <3>2, <1>2, <1>7
    <3>4. s \in 1..(i - 1)
      BY <3>3
    <3> QED BY <3>2, <3>4
  <2>6. f \in Bijection(1..(i - 1), B)
    BY <2>3, <2>4, <2>5, Fun_IsBij
  <2>7. ExistsBijection(1..(i - 1), B) /\ i - 1 \in Nat
    BY <2>6 DEF ExistsBijection
  <2> HIDE DEF B
  <2>8. Cardinality(B) = i - 1
    BY <2>7, FS_CountingElements
  <2> QED BY <2>8 DEF B
<1> QED BY <1>1, <1>7, <1>8-----------------------------------------------------------------------------
(* The tables of rows are finite, and what is asked for is part of them. *)
LEMMA Finite ==
  ASSUME TableOK
  PROVE  /\ Present \subseteq Rows /\ Asked \subseteq Present /\ Window \subseteq Present
         /\ IsFiniteSet(Asked) /\ Cardinality(Asked) \in Nat
         /\ Cardinality(Asked) <= Cardinality(Rows) /\ Cardinality(Rows) \in Nat
<1>1. Present \subseteq Rows
  BY DEF Present
<1>2. Asked \subseteq Present
  BY DEF Asked
<1>3. Window \subseteq Present
  BY DEF Window, Listed
<1>4. Asked \in SUBSET Rows
  BY <1>1, <1>2
<1>5. IsFiniteSet(Asked) /\ Cardinality(Asked) <= Cardinality(Rows)
  BY <1>4, FS_Subset, DashboardAssumption
<1> QED BY <1>1, <1>2, <1>3, <1>5, FS_CardinalityType, DashboardAssumption

(* The SELECT of every endpoint is a page of what was asked for. *)
LEMMA SelectedPages ==
  ASSUME endpoint \in Endpoints
  PROVE  Selected = Pages(Asked, req.limit, IF endpoint = "recent" THEN 0 ELSE req.offset)
<1>1. Present \cap Rows = Present
  BY DEF Present
<1>2. CASE endpoint = "sessions"
  BY <1>1, <1>2 DEF Selected, Asked, ListSessions, Service
<1>3. CASE endpoint = "service"
  BY <1>3 DEF Selected, Asked, ListSessions, Service
<1>4. CASE endpoint = "iocs"
  BY <1>4 DEF Selected, Asked, ListIOCs
<1>5. CASE endpoint = "attackers"
  BY <1>5 DEF Selected, Asked, TopAttackers
<1>6. CASE endpoint = "ip"
  BY <1>6 DEF Selected, Asked, FindByIP
<1>7. CASE endpoint = "recent"
  BY <1>7 DEF Selected, Asked, RecentEvents
<1> QED BY <1>2, <1>3, <1>4, <1>5, <1>6, <1>7 DEF Endpoints

(* The table is what the client finds, and nothing has been asked for. *)
LEMMA InitInv == Init => DashInv
<1> SUFFICES ASSUME Init PROVE DashInv
  OBVIOUS
<1> USE DashboardAssumption
<1>1. TableOK
  <2>1. Tables(endpoint) \subseteq Row
    BY DEF Tables, NoRow, Row
  <2> QED BY <2>1 DEF Init, TableOK
<1>2. Cardinality(Rows) \in Nat /\ Cardinality(Asked) \in Nat
  BY <1>1, Finite
<1>3. NoRequest \in Req /\ NoPage \in Page
  <2>1. 1 \in 1..maxPageLimit /\ 0 \in 0..Cardinality(Rows) /\ <<>> \in Seq(Rows)
    BY <1>2, EmptySeq
  <2> QED BY <2>1 DEF NoRequest, NoPage, Req, Page
<1>4. pager \in Pager
  <2>1. <<>> \in Param
    BY DEF Param
  <2> QED BY <2>1 DEF Init, Pager
<1>5. ClientOK
  <2>1. Len(page.rows) <= page.limit
    BY DEF Init, NoPage
  <2> QED BY <1>3, <1>4, <2>1 DEF Init, ClientOK, NoRequest
<1>6. TotalOK
  BY <1>2 DEF Init, TotalOK, NoRequest
<1>7. ShortPageIsLast
  BY DEF Init, ShortPageIsLast, NoPage
<1>8. OwedAhead /\ Asking /\ PagedWhole
  BY DEF Init, OwedAhead, Asking, PagedWhole, NoRequest
<1> QED BY <1>1, <1>5, <1>6, <1>7, <1>8 DEF DashInv

(* A client begins: it is owed what it could find by turning all pages. *)
LEMMA BeginInv ==
  ASSUME DashInv, NEW limit \in Limits, NEW offset \in Offsets, NEW since \in Durations,
         NEW stop \in {"short", "total"}, Begin(limit, offset, since, stop)
  PROVE  DashInv'
<1>1. TableOK /\ ClientOK /\ TotalOK /\ ShortPageIsLast
  BY DEF DashInv
<1>2. /\ pager.phase = "idle" /\ (stop = "total" => endpoint \in Counted)
      /\ UNCHANGED <<endpoint, clock, row, writes, req, page>>
  BY DEF Begin
<1>3. PICK owed : owed = {r \in Listed(row, clock, since) :
                            /\ parsePagination(limit, offset).offset = 0
                            /\ \A q \in Present \ {r} : row[q].key # row[r].key}
  OBVIOUS
<1>4. pager' = [pager EXCEPT !.phase = "asking", !.limit = limit, !.offset = offset,
                             !.since = since, !.stop = stop, !.owed = owed]
  BY <1>3 DEF Begin
<1>5. owed \subseteq Rows
  <2>1. Listed(row, clock, since) \subseteq Rows
    BY DEF Listed, Present
  <2> QED BY <1>3, <2>1
<1>6. limit \in Param /\ offset \in Param /\ since \in Param
  BY Params
<1>7. /\ pager' \in Pager /\ pager'.phase = "asking" /\ pager'.limit = limit
      /\ pager'.offset = offset /\ pager'.since = since /\ pager'.stop = stop /\ pager'.owed = owed
  BY <1>1, <1>4, <1>5, <1>6 DEF ClientOK, Pager
<1>8. TableOK' /\ ShortPageIsLast'
  BY <1>1, <1>2 DEF TableOK, ShortPageIsLast
<1>9. req.phase = "none"
  BY <1>1, <1>2 DEF ClientOK, Req
<1>10. ClientOK'
  BY <1>1, <1>2, <1>7, <1>9 DEF ClientOK
<1>11. Asked' = Asked
  BY <1>2 DEF Asked, Present
<1>12. TotalOK'
  BY <1>1, <1>2, <1>11 DEF TotalOK
<1>13. Asking' /\ PagedWhole'
  BY <1>2, <1>7, <1>9 DEF Asking, PagedWhole
<1>14. OwedAhead'
  <2>1. Window' = Listed(row, clock, since) /\ Present' = Present /\ Window' \subseteq Rows
    BY <1>2, <1>7 DEF Window, Listed, Present
  <2>2. NextOffset' = parsePagination(limit, offset).offset
    BY <1>7 DEF NextOffset
  <2>3. \A r : Before(row, Window', r) \in SUBSET Rows
    BY <2>1 DEF Before
  <2>4. \A r : Cardinality(Before(row, Window', r)) \in Nat
    BY <2>3, FS_Subset, FS_CardinalityType, DashboardAssumption
  <2>5. ASSUME NEW r \in owed
        PROVE  /\ r \in Window'
               /\ \A q \in Present \ {r} : row[q].key # row[r].key
               /\ NextOffset' <= Cardinality(Before(row, Window', r))
    BY <1>3, <2>1, <2>2, <2>4, <2>5
  <2> QED BY <1>2, <1>7, <2>1, <2>5 DEF OwedAhead
<1> QED BY <1>8, <1>10, <1>12, <1>13, <1>14 DEF DashInv-----------------------------------------------------------------------------
(***************************************************************************)
(* What the writers and the clock may do to a client that turns its pages: *)
(* T are the rows written and those they tie with.                         *)
(***************************************************************************)
Changed(T) ==
    /\ pager.phase = "asking"
    /\ row' \in [Rows -> Row]
    /\ clock' \in Now..MaxTime /\ clock' >= clock
    /\ Present \subseteq Present'
    /\ \A r \in Rows : row'[r] # row[r] =>
          \A q \in Rows : row'[q].key = row'[r].key => q \in T
    /\ UNCHANGED <<endpoint, page>>
    /\ Note(T)

(* What Note leaves and changes of the client and its request. *)
LEMMA Noted ==
  ASSUME DashInv, NEW T, Changed(T)
  PROVE  /\ pager' \in Pager /\ req' \in Req
         /\ pager'.owed = IF PulledBack THEN {} ELSE pager.owed \ T
         /\ pager'.phase = pager.phase /\ pager'.limit = pager.limit /\ pager'.offset = pager.offset
         /\ pager'.since = pager.since /\ pager'.stop = pager.stop
         /\ req'.phase = req.phase /\ req'.limit = req.limit /\ req'.offset = req.offset
         /\ req'.since = req.since /\ req'.total = req.total
         /\ req'.raced <=> req.raced \/ (req.phase = "select" /\ Present # Present')
<1>1. pager \in Pager /\ req \in Req
  BY DEF DashInv, ClientOK
<1>2. PICK o : o = IF PulledBack THEN {} ELSE pager.owed \ T
  OBVIOUS
<1>3. o \in SUBSET Rows
  BY <1>1, <1>2 DEF Pager
<1>4. PICK b \in BOOLEAN : b <=> req.raced \/ (req.phase = "select" /\ Present # Present')
  OBVIOUS
<1>5. pager' = [pager EXCEPT !.owed = o]
  BY <1>2 DEF Changed, Note
<1>6. b = (req.raced \/ (req.phase = "select" /\ Present # Present'))
  BY <1>4, Zenon
<1>7. req' = [req EXCEPT !.raced = b]
  BY <1>6, Zenon DEF Changed, Note
<1>8. /\ pager' \in Pager /\ pager'.owed = o
      /\ pager'.phase = pager.phase /\ pager'.limit = pager.limit /\ pager'.offset = pager.offset
      /\ pager'.since = pager.since /\ pager'.stop = pager.stop
  BY <1>1, <1>3, <1>5 DEF Pager
<1>9. /\ req' \in Req /\ req'.raced = b
      /\ req'.phase = req.phase /\ req'.limit = req.limit /\ req'.offset = req.offset
      /\ req'.since = req.since /\ req'.total = req.total
  BY <1>1, <1>7 DEF Req
<1> QED BY <1>2, <1>4, <1>8, <1>9

(* Where nothing was pulled back the window has all the rows it had, and   *)
(* whatever was written besides is in it.                                  *)
LEMMA WindowGrows ==
  ASSUME DashInv, NEW T, Changed(T), ~PulledBack
  PROVE  /\ \A r \in Present : row'[r].key >= row[r].key
         /\ Window \subseteq Window'
         /\ endpoint = "attackers" =>
               \A r \in Rows : row'[r] # row[r] => row'[r].last_seen >= clock' - parseDuration(pager.since)
<1>1. TableOK /\ ClientOK
  BY DEF DashInv
<1>2. pager'.since = pager.since /\ endpoint' = endpoint /\ Present \subseteq Present'
  BY Noted DEF Changed
<1>3. row \in [Rows -> Row] /\ row' \in [Rows -> Row] /\ clock \in Int /\ clock' \in Int
  BY <1>1, DashboardAssumption DEF TableOK, Changed
<1>4. \A r \in Rows : /\ row[r].key \in Int /\ row'[r].key \in Int
                      /\ row[r].last_seen \in Int /\ row'[r].last_seen \in Int
  BY <1>3, DashboardAssumption DEF Row
<1>5. \A r \in Present : row'[r].key >= row[r].key
  BY <1>4 DEF PulledBack, Present
<1>6. Window \subseteq Window'
  <2>1. Window \subseteq Listed(row', clock', pager.since)
    BY DEF PulledBack, Window
  <2>2. CASE endpoint \in {"service", "ip"}
    BY <1>2, <2>2 DEF Window, Listed
  <2>3. CASE endpoint = "attackers"
    BY <1>2, <2>1, <2>3 DEF Window, Listed
  <2>4. CASE endpoint \notin {"service", "ip", "attackers"}
    BY <1>2, <2>4 DEF Window, Listed
  <2> QED BY <2>2, <2>3, <2>4
<1>7. parseDuration(pager.since) \in Int
  BY <1>1, Parsed DEF ClientOK, Pager
<1>8. endpoint = "attackers" =>
         \A r \in Rows : row'[r] # row[r] => row'[r].last_seen >= clock' - parseDuration(pager.since)
  BY <1>3, <1>4, <1>7 DEF PulledBack
<1> QED BY <1>5, <1>6, <1>8
(* No row that is owed comes to stand before the place of the next page. *)
LEMMA OwedStaysAhead ==
  ASSUME DashInv, NEW T, Changed(T)
  PROVE  OwedAhead'
<1>1. CASE PulledBack
  <2>1. pager'.owed = {}
    BY <1>1, Noted
  <2> QED BY <2>1 DEF OwedAhead
<1>2. CASE ~PulledBack
  <2>1. /\ \A r \in Present : row'[r].key >= row[r].key
        /\ Window \subseteq Window'
    BY <1>2, WindowGrows
  <2>2. /\ pager'.owed = pager.owed \ T /\ pager'.phase = pager.phase
        /\ NextOffset' = NextOffset /\ pager.phase = "asking" /\ endpoint' = endpoint
    BY <1>2, Noted DEF NextOffset, Changed
  <2>3. TableOK /\ ClientOK /\ OwedAhead
    BY DEF DashInv
  <2>4. /\ Window \subseteq Present /\ Present \subseteq Rows /\ Window' \subseteq Rows
    BY <2>3, Finite DEF Window, Listed, Present
  <2>5. \A r \in Rows : row[r].key \in Int /\ row'[r].key \in Int
    BY <2>3, DashboardAssumption DEF TableOK, Changed, Row
  <2>6. ASSUME endpoint # "recent", NEW r \in pager.owed, r \notin T
        PROVE  /\ r \in Window'
               /\ \A q \in Present' \ {r} : row'[q].key # row'[r].key
               /\ NextOffset <= Cardinality(Before(row', Window', r))
    <3>1. /\ r \in Window /\ r \in Rows /\ NextOffset <= Cardinality(Before(row, Window, r))
          /\ \A q \in Present \ {r} : row[q].key # row[r].key
      BY <2>2, <2>3, <2>4, <2>6 DEF OwedAhead
    <3>2. row'[r] = row[r]
      BY <2>6, <3>1 DEF Changed
    <3>3. \A q \in Rows : row'[q] # row[q] => row'[q].key # row'[r].key
      BY <2>6, <3>1 DEF Changed
    <3>4. ASSUME NEW q \in Present' \ {r} PROVE row'[q].key # row'[r].key
      <4>1. q \in Rows
        BY DEF Present
      <4>2. CASE row'[q] # row[q]
        BY <4>1, <4>2, <3>3
      <4>3. CASE row'[q] = row[q]
        <5>1. q \in Present
          BY <4>1, <4>3 DEF Present
        <5> QED BY <5>1, <4>3, <3>1, <3>2
      <4> QED BY <4>2, <4>3
    <3>5. Before(row, Window, r) \subseteq Before(row', Window', r)
      <4>1. ASSUME NEW q \in Window, row[q].key > row[r].key PROVE row'[q].key > row'[r].key
        <5>1. q \in Present /\ q \in Rows
          BY <2>4
        <5>2. row'[q].key >= row[q].key
          BY <2>1, <5>1
        <5> QED BY <4>1, <5>1, <5>2, <2>5, <3>1, <3>2
      <4> QED BY <4>1, <2>1 DEF Before
    <3>6. Before(row', Window', r) \in SUBSET Rows
      BY <2>4 DEF Before
    <3>7. IsFiniteSet(Before(row', Window', r))
      BY <3>6, FS_Subset, DashboardAssumption
    <3>8. /\ Cardinality(Before(row, Window, r)) <= Cardinality(Before(row', Window', r))
          /\ IsFiniteSet(Before(row, Window, r))
      BY <3>5, <3>7, FS_Subset
    <3>9. Cardinality(Before(row, Window, r)) \in Nat /\ Cardinality(Before(row', Window', r)) \in Nat
      BY <3>7, <3>8, FS_CardinalityType
    <3>10. NextOffset \in Nat
      BY <2>3, Parsed DEF NextOffset, ClientOK, Pager
    <3>11. r \in Window'
      BY <3>1, <2>1
    <3> QED BY <3>1, <3>4, <3>8, <3>9, <3>10, <3>11
  <2> QED BY <2>2, <2>6 DEF OwedAhead
<1> QED BY <1>1, <1>2

(* The request being handled still asks for the rows of the window. *)
LEMMA AskingStays ==
  ASSUME DashInv, NEW T, Changed(T)
  PROVE  Asking'
<1>1. TableOK /\ ClientOK /\ Asking
  BY DEF DashInv
<1>2. /\ req'.phase = req.phase /\ req'.offset = req.offset /\ req'.since = req.since
      /\ NextOffset' = NextOffset /\ pager'.since = pager.since /\ endpoint' = endpoint
  BY Noted DEF NextOffset, Changed
<1>3. /\ clock \in Int /\ clock' \in Int /\ clock' >= clock
      /\ parseDuration(pager.since) \in Int /\ req.since \in Int
  BY <1>1, Parsed, DashboardAssumption DEF TableOK, Changed, ClientOK, Pager, Req
<1>4. req.phase # "none" => req'.offset = NextOffset' /\ req'.since <= clock' - parseDuration(pager'.since)
  BY <1>1, <1>2, <1>3 DEF Asking
<1>5. ASSUME req.phase # "none", pager'.owed # {} PROVE Asked' = Window'
  <2>1. ~PulledBack /\ pager.owed # {}
    BY <1>5, Noted
  <2>2. /\ Window \subseteq Window'
        /\ endpoint = "attackers" =>
              \A r \in Rows : row'[r] # row[r] => row'[r].last_seen >= clock' - parseDuration(pager.since)
    BY <2>1, WindowGrows
  <2>3. CASE endpoint = "attackers"
    <3>1. Asked = Window
      BY <1>1, <1>5, <2>1 DEF Asking
    <3>2. Asked' = {r \in Present' : row'[r].last_seen >= req.since}
      BY <1>2, <2>3 DEF Asked
    <3>3. Window' = {r \in Present' : row'[r].last_seen >= clock' - parseDuration(pager.since)}
      BY <1>2, <2>3 DEF Window, Listed
    <3>4. \A r \in Rows : row'[r].last_seen \in Int
      BY DashboardAssumption DEF Changed, Row
    <3>5. Window' \subseteq Asked'
      <4>1. \A r \in Present' : r \in Rows
        BY DEF Present
      <4> QED BY <1>2, <1>3, <1>4, <1>5, <3>2, <3>3, <3>4, <4>1
    <3>6. ASSUME NEW r \in Asked' PROVE r \in Window'
      <4>1. r \in Present' /\ r \in Rows /\ row'[r].last_seen >= req.since
        BY <3>2 DEF Present
      <4>2. CASE row'[r] # row[r]
        BY <4>1, <4>2, <2>2, <2>3, <3>3
      <4>3. CASE row'[r] = row[r]
        <5>1. r \in Present /\ row[r].last_seen >= req.since
          BY <4>1, <4>3 DEF Present
        <5>2. r \in Asked
          BY <5>1, <2>3 DEF Asked
        <5> QED BY <5>2, <3>1, <2>2
      <4> QED BY <4>2, <4>3
    <3> QED BY <3>5, <3>6
  <2>4. CASE endpoint # "attackers"
    BY <1>2, <2>4 DEF Asked, Window, Listed
  <2> QED BY <2>3, <2>4
<1> QED BY <1>2, <1>4, <1>5 DEF Asking

(* A write or a tick while the client turns its pages. *)
LEMMA ChangedInv ==
  ASSUME DashInv, NEW T, Changed(T), writes' \in 0..MaxWrites
  PROVE  DashInv'
<1>1. TableOK /\ ClientOK /\ TotalOK /\ ShortPageIsLast
  BY DEF DashInv
<1>2. /\ pager' \in Pager /\ req' \in Req
      /\ pager'.phase = pager.phase /\ pager'.stop = pager.stop
      /\ req'.phase = req.phase /\ req'.total = req.total /\ pager.phase = "asking"
      /\ req'.raced <=> req.raced \/ (req.phase = "select" /\ Present # Present')
  BY Noted DEF Changed
<1>3. UNCHANGED <<endpoint, page>> /\ Present \subseteq Present'
  BY DEF Changed
<1>4. TableOK'
  BY <1>1, <1>3 DEF TableOK, Changed
<1>5. ClientOK'
  BY <1>1, <1>2, <1>3 DEF ClientOK
<1>6. ShortPageIsLast' /\ PagedWhole'
  BY <1>1, <1>2, <1>3 DEF ShortPageIsLast, PagedWhole
<1>7. TotalOK'
  <2>1. Cardinality(Asked) \in Nat /\ req.total \in Nat
    BY <1>1, Finite DEF ClientOK, Req
  <2>2. Present' \subseteq Rows /\ Asked' \subseteq Present'
    BY DEF Asked, Present
  <2>3. Asked' \in SUBSET Rows
    BY <2>2
  <2>4. IsFiniteSet(Asked') /\ Cardinality(Asked') \in Nat
    BY <2>3, FS_Subset, FS_CardinalityType, DashboardAssumption
  <2>5. CASE endpoint \in Counted /\ req.phase = "select"
    <3>1. Asked \subseteq Asked' /\ (Present = Present' => Asked' = Asked)
      BY <1>3, <2>5 DEF Asked, Counted
    <3>2. Cardinality(Asked) <= Cardinality(Asked')
      BY <3>1, <2>4, FS_Subset
    <3>3. req.total <= Cardinality(Asked) /\ (~req.raced => req.total = Cardinality(Asked))
      BY <1>1, <2>5 DEF TotalOK
    <3> QED BY <1>2, <1>3, <2>1, <2>4, <2>5, <3>1, <3>2, <3>3 DEF TotalOK
  <2>6. CASE ~(endpoint \in Counted /\ req.phase = "select")
    <3>1. req.total = 0
      BY <1>1, <2>6 DEF TotalOK
    <3>2. req.phase = "count" => endpoint \in Counted
      BY <1>1 DEF TotalOK
    <3> QED BY <1>2, <1>3, <2>4, <2>6, <3>1, <3>2 DEF TotalOK
  <2> QED BY <2>5, <2>6
<1>8. OwedAhead' /\ Asking'
  BY OwedStaysAhead, AskingStays
<1> QED BY <1>4, <1>5, <1>6, <1>7, <1>8 DEF DashInv

(* Insert, UpsertIOC and UpsertAttacker write one row, which does not vanish. *)
LEMMA WriteInv == DashInv /\ Write => DashInv'
<1> SUFFICES ASSUME DashInv, NEW r \in Rows, Insert(r) \/ UpsertIOC(r) \/ UpsertAttacker(r)
             PROVE  DashInv'
  BY DEF Write
<1> USE DashboardAssumption
<1>1. TableOK
  BY DEF DashInv
<1>2. /\ Written(r) /\ Note(Ties(r))
      /\ pager.phase = "asking"
      /\ writes' = writes \/ (writes < MaxWrites /\ writes' = writes + 1)
      /\ UNCHANGED <<endpoint, clock, page>>
  BY DEF Insert, UpsertIOC, UpsertAttacker, Written
<1>3. PICK x : /\ x \in Row /\ x.key > 0
               /\ row' = [row EXCEPT ![r] = x]
  <2>1. \A t \in Stamps : t \in 1..MaxTime
    BY <1>1 DEF Stamps, TableOK
  <2>2. \A t \in Stamps : [key |-> t, last_seen |-> t] \in Row
    BY <2>1 DEF Row
  <2>3. row[r].key \in Nat
    BY <1>1 DEF TableOK, Row
  <2>4. \A k \in row[r].key + 1 .. MaxTime : k \in 1..MaxTime
    BY <2>3
  <2>5. \A t \in Stamps, k \in row[r].key + 1 .. MaxTime : [key |-> k, last_seen |-> t] \in Row
    BY <2>1, <2>4 DEF Row
  <2>6. CASE Insert(r) \/ UpsertIOC(r)
    <3>1. PICK t \in Stamps : row' = [row EXCEPT ![r] = [key |-> t, last_seen |-> t]]
      BY <2>6 DEF Insert, UpsertIOC
    <3>2. PICK y : y = [key |-> t, last_seen |-> t]
      OBVIOUS
    <3>3. y \in Row /\ y.key = t /\ t > 0
      BY <3>2, <2>1, <2>2
    <3>4. y \in Row /\ y.key > 0 /\ row' = [row EXCEPT ![r] = y]
      BY <3>1, <3>2, <3>3
    <3> QED BY <3>4
  <2>7. CASE UpsertAttacker(r)
    <3>1. PICK t \in Stamps, k \in row[r].key + 1 .. MaxTime :
            row' = [row EXCEPT ![r] = [key |-> k, last_seen |-> t]]
      BY <2>7 DEF UpsertAttacker
    <3>2. PICK y : y = [key |-> k, last_seen |-> t]
      OBVIOUS
    <3>3. y \in Row /\ y.key = k /\ k > 0
      BY <3>2, <2>4, <2>5
    <3>4. y \in Row /\ y.key > 0 /\ row' = [row EXCEPT ![r] = y]
      BY <3>1, <3>2, <3>3
    <3> QED BY <3>4
  <2> QED BY <2>6, <2>7
<1>4. /\ row' \in [Rows -> Row] /\ row'[r] = x
      /\ \A q \in Rows : q # r => row'[q] = row[q]
  BY <1>1, <1>3 DEF TableOK
<1>5. Present \subseteq Present'
  BY <1>3, <1>4 DEF Present
<1>6. \A q \in Rows : row'[q] # row[q] =>
         \A s \in Rows : row'[s].key = row'[q].key => s \in Ties(r)
  BY <1>4 DEF Ties
<1>7. Changed(Ties(r))
  BY <1>1, <1>2, <1>4, <1>5, <1>6 DEF Changed, TableOK
<1>8. writes' \in 0..MaxWrites
  BY <1>1, <1>2 DEF TableOK
<1> QED BY <1>7, <1>8, ChangedInv

(* Time passes. *)
LEMMA TickInv == DashInv /\ Tick => DashInv'
<1> SUFFICES ASSUME DashInv, Tick PROVE DashInv'
  OBVIOUS
<1>1. TableOK
  BY DEF DashInv
<1>2. Present' = Present
  BY DEF Tick, Present
<1>3. clock' \in Now..MaxTime /\ clock' >= clock
  BY <1>1, DashboardAssumption DEF TableOK, Tick
<1>4. Changed({})
  BY <1>1, <1>2, <1>3 DEF Changed, Tick, TableOK
<1>5. writes' \in 0..MaxWrites
  BY <1>1 DEF Tick, TableOK
<1> QED BY <1>4, <1>5, ChangedInv-----------------------------------------------------------------------------
(* The handler asks for the page that is next, in the window of the moment. *)
LEMMA AskInv == DashInv /\ Ask => DashInv'
<1> SUFFICES ASSUME DashInv, Ask PROVE DashInv'
  OBVIOUS
<1> USE DashboardAssumption
<1>1. TableOK /\ ClientOK /\ OwedAhead
  BY DEF DashInv
<1>2. /\ pager.phase = "asking" /\ page' = NoPage
      /\ UNCHANGED <<endpoint, clock, row, writes, pager>>
  BY DEF Ask
<1>3. PICK p : p = parsePagination(pager.limit, pager.offset)
  OBVIOUS
<1>4. p.limit \in 1..maxPageLimit /\ p.offset \in Nat /\ parseDuration(pager.since) \in Int
  BY <1>1, <1>3, Parsed DEF ClientOK, Pager
<1>5. PICK ph \in {"count", "select"}, s \in Int :
         /\ ph = IF endpoint \in Counted THEN "count" ELSE "select"
         /\ s = clock - parseDuration(pager.since)
  BY <1>1, <1>4 DEF TableOK
<1>6. req' = [phase |-> ph, limit |-> p.limit, offset |-> p.offset, since |-> s, total |-> 0, raced |-> FALSE]
  BY <1>3, <1>5 DEF Ask, NoRequest
<1>7. Cardinality(Rows) \in Nat
  BY <1>1, Finite
<1>8. /\ req' \in Req /\ req'.phase = ph /\ req'.offset = p.offset
      /\ req'.since = s /\ req'.total = 0
  BY <1>4, <1>6, <1>7 DEF Req
<1>9. TableOK'
  BY <1>1, <1>2 DEF TableOK
<1>10. NoPage \in Page /\ Len(NoPage.rows) <= NoPage.limit /\ NoPage.total <= NoPage.offset + Len(NoPage.rows)
  <2>1. 1 \in 1..maxPageLimit /\ 0 \in 0..Cardinality(Rows) /\ <<>> \in Seq(Rows)
    BY <1>7, EmptySeq
  <2> QED BY <2>1 DEF NoPage, Page
<1>11. ClientOK' /\ ShortPageIsLast'
  BY <1>1, <1>2, <1>8, <1>10 DEF ClientOK, ShortPageIsLast
<1>12. Asked' \in SUBSET Rows
  BY DEF Asked, Present
<1>13. Cardinality(Asked') \in Nat
  BY <1>12, FS_Subset, FS_CardinalityType
<1>14. TotalOK'
  BY <1>2, <1>5, <1>8, <1>13 DEF TotalOK
<1>15. OwedAhead' /\ PagedWhole'
  BY <1>1, <1>2 DEF OwedAhead, PagedWhole, Window, Listed, Present, NextOffset
<1>16. Asking'
  <2>1. NextOffset' = p.offset
    BY <1>2, <1>3 DEF NextOffset
  <2>2. Asked' = Window'
    BY <1>2, <1>5, <1>8 DEF Asked, Window, Listed, Present
  <2>3. s <= clock' - parseDuration(pager'.since)
    BY <1>1, <1>2, <1>4, <1>5 DEF TableOK
  <2> QED BY <1>8, <2>1, <2>2, <2>3 DEF Asking
<1> QED BY <1>9, <1>11, <1>14, <1>15, <1>16 DEF DashInv

(* The COUNT. *)
LEMMA CountInv == DashInv /\ Count => DashInv'
<1> SUFFICES ASSUME DashInv, Count PROVE DashInv'
  OBVIOUS
<1>1. TableOK /\ ClientOK /\ TotalOK /\ ShortPageIsLast /\ OwedAhead /\ Asking /\ PagedWhole
  BY DEF DashInv
<1>2. req.phase = "count" /\ UNCHANGED <<endpoint, clock, row, writes, pager, page>>
  BY DEF Count
<1>3. PICK n : n = Cardinality(IF endpoint = "iocs" THEN Present ELSE ListSessions(Service).count)
  OBVIOUS
<1>4. req' = [req EXCEPT !.phase = "select", !.total = n]
  BY <1>3 DEF Count
<1>5. endpoint \in Counted => n = Cardinality(Asked)
  <2>1. Present \cap Rows = Present
    BY DEF Present
  <2> QED BY <1>3, <2>1 DEF Asked, Counted, ListSessions, Service
<1>6. endpoint \in Counted
  BY <1>1, <1>2 DEF TotalOK
<1>7. n \in 0..Cardinality(Rows)
  BY <1>1, <1>5, <1>6, Finite
<1>8. /\ req' \in Req /\ req'.phase = "select" /\ req'.total = n
      /\ req'.offset = req.offset /\ req'.since = req.since
  BY <1>1, <1>4, <1>7 DEF ClientOK, Req
<1>9. Asked' = Asked /\ Window' = Window /\ Present' = Present
  BY <1>2, <1>8 DEF Asked, Window, Listed, Present
<1>10. TableOK' /\ ShortPageIsLast' /\ PagedWhole' /\ OwedAhead'
  BY <1>1, <1>2, <1>9 DEF TableOK, ShortPageIsLast, PagedWhole, OwedAhead, NextOffset
<1>11. ClientOK'
  BY <1>1, <1>2, <1>8 DEF ClientOK
<1>12. TotalOK'
  BY <1>2, <1>5, <1>6, <1>7, <1>8, <1>9 DEF TotalOK
<1>13. Asking'
  BY <1>1, <1>2, <1>8, <1>9 DEF Asking, NextOffset
<1> QED BY <1>10, <1>11, <1>12, <1>13 DEF DashInv

(* The request is over. *)
LEMMA RequestOver ==
  ASSUME TableOK, UNCHANGED <<endpoint, clock, row, writes>>, req' = NoRequest
  PROVE  TableOK' /\ req' \in Req /\ TotalOK' /\ Asking' /\ req'.phase = "none"
<1>1. TableOK'
  BY DEF TableOK
<1>2. Cardinality(Rows) \in Nat
  BY Finite
<1>3. Asked' \in SUBSET Rows
  BY DEF Asked, Present
<1>4. Cardinality(Asked') \in Nat
  BY <1>3, FS_Subset, FS_CardinalityType, DashboardAssumption
<1>5. req' \in Req /\ req'.phase = "none" /\ req'.total = 0
  BY <1>2, DashboardAssumption DEF NoRequest, Req
<1>6. TotalOK' /\ Asking'
  BY <1>4, <1>5 DEF TotalOK, Asking
<1> QED BY <1>1, <1>5, <1>6

(* A request fails. *)
LEMMA FailsInv == DashInv /\ Fails => DashInv'
<1> SUFFICES ASSUME DashInv, Fails PROVE DashInv'
  OBVIOUS
<1>1. TableOK /\ ClientOK /\ ShortPageIsLast /\ OwedAhead /\ PagedWhole
  BY DEF DashInv
<1>2. /\ req' = NoRequest /\ pager' = [pager EXCEPT !.failed = @ + 1]
      /\ UNCHANGED <<endpoint, clock, row, writes, page>>
  BY DEF Fails
<1>3. TableOK' /\ req' \in Req /\ TotalOK' /\ Asking' /\ req'.phase = "none"
  BY <1>1, <1>2, RequestOver
<1>4. PICK n \in Nat : n = pager.failed + 1
  BY <1>1 DEF ClientOK, Pager
<1>5. pager' = [pager EXCEPT !.failed = n]
  BY <1>2, <1>4
<1>6. /\ pager' \in Pager /\ pager'.phase = pager.phase /\ pager'.limit = pager.limit
      /\ pager'.offset = pager.offset /\ pager'.since = pager.since /\ pager'.stop = pager.stop
      /\ pager'.owed = pager.owed
  BY <1>1, <1>5 DEF ClientOK, Pager
<1>7. ClientOK' /\ ShortPageIsLast'
  BY <1>1, <1>2, <1>3, <1>6 DEF ClientOK, ShortPageIsLast
<1>8. Window' = Window /\ Present' = Present /\ NextOffset' = NextOffset
  BY <1>2, <1>6 DEF Window, Listed, Present, NextOffset
<1>9. OwedAhead' /\ PagedWhole'
  BY <1>1, <1>2, <1>6, <1>8 DEF OwedAhead, PagedWhole
<1> QED BY <1>3, <1>7, <1>9 DEF DashInv

(***************************************************************************)
(* The page.  A row that is owed is in the list behind the offset, so it   *)
(* is on this page, or as far behind the next offset.                      *)
(***************************************************************************)
LEMMA OwedOnPage ==
  ASSUME DashInv, req.phase = "select", endpoint # "recent",
         NEW q \in Sorted(Asked), NEW r \in pager.owed
  PROVE  \E i \in 1..Cardinality(Asked) :
            q[i] = r /\ req.offset < i /\ Cardinality(Before(row, Window, r)) = i - 1
<1>1. TableOK /\ ClientOK /\ OwedAhead /\ Asking
  BY DEF DashInv
<1>2. Asked = Window /\ req.offset = NextOffset /\ pager.phase = "asking"
  BY <1>1 DEF Asking, ClientOK
<1>3. /\ r \in Window /\ NextOffset <= Cardinality(Before(row, Window, r))
      /\ \A x \in Present \ {r} : row[x].key # row[r].key
  BY <1>1, <1>2 DEF OwedAhead
<1>4. IsFiniteSet(Asked) /\ Asked \subseteq Present /\ Present \subseteq Rows /\ Cardinality(Asked) \in Nat
  BY <1>1, Finite
<1>5. \A x \in Asked : row[x].key \in Int
  BY <1>1, <1>4, DashboardAssumption DEF TableOK, Row
<1>6. \A x \in Asked \ {r} : row[x].key # row[r].key
  BY <1>3, <1>4
<1>7. PICK i \in 1..Cardinality(Asked) : q[i] = r /\ Cardinality(Before(row, Asked, r)) = i - 1
  BY <1>2, <1>3, <1>4, <1>5, <1>6, SortedPlace
<1>8. req.offset \in Nat /\ i \in Nat
  BY <1>1, <1>4 DEF ClientOK, Req
<1> QED BY <1>2, <1>3, <1>7, <1>8

(* The page is returned. *)
LEMMA SelectInv == DashInv /\ Select => DashInv'
<1> SUFFICES ASSUME DashInv, Select PROVE DashInv'
  OBVIOUS
<1>1. TableOK /\ ClientOK /\ TotalOK /\ OwedAhead /\ Asking
  BY DEF DashInv
<1>2. /\ req.phase = "select" /\ req' = NoRequest
      /\ UNCHANGED <<endpoint, clock, row, writes>>
  BY DEF Select
<1>3. PICK rows \in Selected :
         LET p == [rows |-> rows, limit |-> req.limit, offset |-> req.offset,
                   total |-> req.total, raced |-> req.raced]
         IN  /\ page' = p
             /\ pager' = [pager EXCEPT
                             !.owed = @ \ {rows[i] : i \in DOMAIN rows},
                             !.phase = IF More(p) THEN "asking" ELSE "done",
                             !.limit = <<p.limit>>,
                             !.offset = <<Following(p)>>]
  BY Zenon DEF Select
<1>4. PICK off \in Nat : off = IF endpoint = "recent" THEN 0 ELSE req.offset
  BY <1>1 DEF ClientOK, Req
<1>5. PICK q \in Sorted(Asked) : rows = Cut(q, req.limit, off)
  BY <1>1, <1>4, SelectedPages DEF Pages, TableOK
<1>6. PICK n \in Nat : n = Cardinality(Asked)
  BY <1>1, Finite
<1>7. q \in Seq(Asked) /\ Len(q) = n
  <2>1. q \in [1..n -> Asked]
    BY <1>6 DEF Sorted
  <2> QED BY <2>1
<1>8. /\ req.limit \in Nat \ {0} /\ req.limit \in 1..maxPageLimit /\ req.offset \in Nat
      /\ req.total \in 0..Cardinality(Rows) /\ req.total <= n /\ req.raced \in BOOLEAN
  BY <1>1, <1>6, DashboardAssumption DEF ClientOK, Req, TotalOK
<1>9. /\ rows \in Seq(Asked) /\ Len(rows) <= req.limit
      /\ Len(rows) < req.limit => n <= off + Len(rows)
      /\ \A i \in 1..n : off < i /\ i <= off + req.limit => \E j \in DOMAIN rows : rows[j] = q[i]
  <2>1. PICK lim \in Nat \ {0} : lim = req.limit
    BY <1>8
  <2>2. /\ Cut(q, lim, off) \in Seq(Asked) /\ Len(Cut(q, lim, off)) <= lim
        /\ Len(Cut(q, lim, off)) < lim => Len(q) <= off + Len(Cut(q, lim, off))
        /\ \A i \in 1..Len(q) : off < i /\ i <= off + lim =>
              \E j \in DOMAIN Cut(q, lim, off) : Cut(q, lim, off)[j] = q[i]
    BY <1>7, CutFacts
  <2>3. rows = Cut(q, lim, off)
    BY <1>5, <2>1
  <2> QED BY <1>7, <2>1, <2>2, <2>3
<1>10. rows \in Seq(Rows) /\ Len(rows) \in Nat
  <2>1. Asked \subseteq Rows
    BY <1>1, Finite
  <2> QED BY <2>1, <1>9, SeqMonotonic, LenProperties
<1> DEFINE shown == {rows[i] : i \in DOMAIN rows}
<1>11. PICK p : p = [rows |-> rows, limit |-> req.limit, offset |-> req.offset,
                     total |-> req.total, raced |-> req.raced]
  OBVIOUS
<1>12. PICK ph \in {"asking", "done"} : ph = IF More(p) THEN "asking" ELSE "done"
  OBVIOUS
<1>13. PICK owed : owed = pager.owed \ shown
  OBVIOUS
<1>14. PICK f \in Nat : f = Following(p) /\ f <= req.offset + req.limit
  <2>1. p.offset = req.offset /\ p.limit = req.limit
    BY <1>11
  <2>2. Cardinality(Rows) \in Nat
    BY <1>1, Finite
  <2>3. Following(p) \in Nat /\ Following(p) <= req.offset + req.limit
    BY <1>8, <2>1, <2>2 DEF Following
  <2> QED BY <2>3
<1>15. PICK l, o : l = <<req.limit>> /\ o = <<f>>
  OBVIOUS
<1>16. page' = p /\ pager' = [pager EXCEPT !.owed = owed, !.phase = ph, !.limit = l, !.offset = o]
  <2>1. p.limit = req.limit
    BY <1>11
  <2> QED BY <1>3, <1>11, <1>12, <1>13, <1>14, <1>15, <2>1
<1>17. l \in Param /\ o \in Param
  BY <1>8, <1>14, <1>15 DEF Param
<1>18. /\ pager' \in Pager /\ pager'.owed = owed /\ pager'.phase = ph /\ pager'.limit = l
       /\ pager'.offset = o /\ pager'.since = pager.since /\ pager'.stop = pager.stop
  <2>1. pager \in Pager /\ owed \in SUBSET Rows
    BY <1>1, <1>13 DEF ClientOK, Pager
  <2> QED BY <1>16, <1>17, <2>1 DEF Pager
<1>19. TableOK' /\ req' \in Req /\ TotalOK' /\ Asking' /\ req'.phase = "none"
  BY <1>1, <1>2, RequestOver
<1>20. /\ page' \in Page /\ page'.rows = rows /\ page'.limit = req.limit /\ page'.offset = req.offset
       /\ page'.total = req.total /\ page'.raced = req.raced
  BY <1>8, <1>10, <1>11, <1>16 DEF Page
<1>21. ClientOK'
  BY <1>1, <1>2, <1>9, <1>18, <1>19, <1>20 DEF ClientOK
<1>22. ShortPageIsLast'
  BY <1>4, <1>8, <1>9, <1>10, <1>20 DEF ShortPageIsLast
<1>23. OwedAhead'
  <2> SUFFICES ASSUME ph = "asking", endpoint # "recent", NEW r \in owed
               PROVE  /\ r \in Window'
                      /\ \A x \in Present' \ {r} : row'[x].key # row'[r].key
                      /\ NextOffset' <= Cardinality(Before(row', Window', r))
    BY <1>2, <1>18 DEF OwedAhead
  <2>1. Window' = Window /\ Present' = Present
    BY <1>2, <1>18 DEF Window, Listed, Present
  <2>2. NextOffset' \in Nat /\ NextOffset' <= req.offset + req.limit
    BY <1>14, <1>17, <1>18, <1>15, Parsed DEF NextOffset
  <2>3. r \in pager.owed /\ r \notin shown /\ pager.phase = "asking"
    BY <1>1, <1>2, <1>13 DEF ClientOK
  <2>4. PICK i \in 1..n : q[i] = r /\ req.offset < i /\ Cardinality(Before(row, Window, r)) = i - 1
    BY <1>2, <1>6, <2>3, OwedOnPage
  <2>6. ~(i <= req.offset + req.limit)
    BY <1>4, <1>9, <2>3, <2>4
  <2>7. req.offset + req.limit <= i - 1
    BY <1>8, <2>6
  <2>5. NextOffset' <= i - 1
    BY <1>8, <2>2, <2>7
  <2>8. r \in Window /\ \A x \in Present \ {r} : row[x].key # row[r].key
    BY <1>1, <2>3 DEF OwedAhead
  <2> QED BY <1>2, <2>1, <2>4, <2>5, <2>8
<1>24. PagedWhole'
  <2> SUFFICES ASSUME ph = "done", endpoint # "recent", ~(pager.stop = "total" /\ req.raced)
               PROVE  owed = {}
    BY <1>2, <1>18, <1>20 DEF PagedWhole
  <2>1. ~More(p)
    BY <1>12
  <2>2. off = req.offset
    BY <1>4
  <2>3. n <= req.offset + req.limit
    <3>1. CASE pager.stop = "total"
      <4>1. endpoint \in Counted /\ ~req.raced
        BY <1>1, <3>1 DEF ClientOK
      <4>2. req.total = n
        BY <1>1, <1>2, <1>6, <4>1 DEF TotalOK
      <4>3. ~(req.offset + req.limit < req.total)
        BY <1>11, <2>1, <3>1 DEF More
      <4> QED BY <1>8, <4>2, <4>3
    <3>2. CASE pager.stop # "total"
      <4>1. Len(rows) # req.limit
        BY <1>11, <2>1, <3>2 DEF More
      <4> QED BY <1>8, <1>9, <1>10, <2>2, <4>1
    <3> QED BY <3>1, <3>2
  <2>4. ASSUME NEW r \in pager.owed PROVE r \in shown
    <3>1. PICK i \in 1..n : q[i] = r /\ req.offset < i
      BY <1>2, <1>6, OwedOnPage
    <3>2. i <= off + req.limit /\ off < i
      BY <1>8, <2>2, <2>3, <3>1
    <3>3. PICK j \in DOMAIN rows : rows[j] = q[i]
      BY <1>9, <3>2
    <3> QED BY <3>1, <3>3
  <2> QED BY <1>13, <2>4
<1> QED BY <1>19, <1>21, <1>22, <1>23, <1>24 DEF DashInv
(* A stuttering step. *)
LEMMA StutterInv == DashInv /\ UNCHANGED dashVars => DashInv'
<1> SUFFICES ASSUME DashInv, UNCHANGED dashVars PROVE DashInv'
  OBVIOUS
<1>1. TableOK /\ ClientOK /\ TotalOK /\ ShortPageIsLast /\ OwedAhead /\ Asking /\ PagedWhole
  BY DEF DashInv
<1>2. UNCHANGED <<endpoint, clock, row, writes, pager, req, page>>
  BY DEF dashVars
<1>3. /\ Asked' = Asked /\ Window' = Window /\ Present' = Present
      /\ NextOffset' = NextOffset
  BY <1>2 DEF Asked, Window, Listed, Present, NextOffset
<1>4. TableOK' /\ ClientOK' /\ TotalOK' /\ ShortPageIsLast'
  BY <1>1, <1>2, <1>3 DEF TableOK, ClientOK, TotalOK, ShortPageIsLast
<1>5. OwedAhead' /\ Asking' /\ PagedWhole'
  BY <1>1, <1>2, <1>3 DEF OwedAhead, Asking, PagedWhole
<1> QED BY <1>4, <1>5 DEF DashInv

(* Every step preserves the invariant. *)
LEMMA NextInv == DashInv /\ [Next]_dashVars => DashInv'
<1> SUFFICES ASSUME DashInv, [Next]_dashVars PROVE DashInv'
  OBVIOUS
<1>1. CASE Write
  BY <1>1, WriteInv
<1>2. CASE Tick
  BY <1>2, TickInv
<1>3. CASE Request
  BY <1>3, AskInv, CountInv, SelectInv DEF Request
<1>4. CASE Fails
  BY <1>4, FailsInv
<1>5. ASSUME NEW limit \in Limits, NEW offset \in Offsets, NEW since \in Durations,
             NEW stop \in {"short", "total"}, Begin(limit, offset, since, stop)
      PROVE  DashInv'
  BY <1>5, BeginInv
<1>6. CASE UNCHANGED dashVars
  BY <1>6, StutterInv
<1> QED BY <1>1, <1>2, <1>3, <1>4, <1>5, <1>6 DEF Next

(* What the invariant says of the types. *)
LEMMA InvTypes == DashInv => TypeOK
<1> SUFFICES ASSUME DashInv PROVE TypeOK
  OBVIOUS
<1>1. TableOK /\ ClientOK
  BY DEF DashInv
<1>2. /\ endpoint \in Endpoints /\ clock \in Now..MaxTime /\ writes \in 0..MaxWrites
      /\ \A r \in Rows : row[r].key \in 0..MaxTime /\ row[r].last_seen \in 0..MaxTime
  BY <1>1 DEF TableOK, Row
<1>3. pager.phase \in {"idle", "asking", "done"} /\ pager.owed \subseteq Rows
  BY <1>1 DEF ClientOK, Pager
<1>4. /\ req.phase \in {"none", "count", "select"} /\ req.limit \in 1..maxPageLimit
      /\ req.offset \in Nat /\ req.total \in 0..Cardinality(Rows)
  BY <1>1 DEF ClientOK, Req
<1>5. /\ page.limit \in 1..maxPageLimit
      /\ page.offset \in Nat /\ page.total \in 0..Cardinality(Rows)
  BY <1>1 DEF ClientOK, Page
<1>6. (req.phase # "none" => pager.phase = "asking") /\ Len(page.rows) <= page.limit
  BY <1>1 DEF ClientOK
<1>7. \A x \in {req, page} :
          /\ x.limit \in 1..maxPageLimit
          /\ x.offset \in Nat
          /\ x.total \in 0..Cardinality(Rows)
  BY <1>4, <1>5
<1> QED BY <1>2, <1>3, <1>4, <1>6, <1>7 DEF TypeOK
-----------------------------------------------------------------------------
(***************************************************************************)
(* The invariant holds throughout.                                         *)
(***************************************************************************)
THEOREM DashboardInductive == Spec => []DashInv
BY InitInv, NextInv, PTL DEF Spec

(***************************************************************************)
(* Whatever a client writes as limit and offset, a request asks for at     *)
(* least one and at most maxPageLimit rows, and no page holds more.        *)
(***************************************************************************)
THEOREM TypeCorrect == Spec => []TypeOK
BY DashboardInductive, InvTypes, PTL

(***************************************************************************)
(* A page that is not full is the last by its total, though COUNT and      *)
(* SELECT see the table at two times, for any table and any writers.       *)
(***************************************************************************)
THEOREM ShortPageIsLastHolds == Spec => []ShortPageIsLast
<1>1. DashInv => ShortPageIsLast
  BY DEF DashInv
<1> QED BY <1>1, DashboardInductive, PTL

(***************************************************************************)
(* Turning the pages of LIMIT and OFFSET skips no row that was there from  *)
(* the beginning and was left alone, however many rows are written in the  *)
(* meantime and however many requests fail.                                *)
(***************************************************************************)
THEOREM PagedWholeHolds == Spec => []PagedWhole
<1>1. DashInv => PagedWhole
  BY DEF DashInv
<1> QED BY <1>1, DashboardInductive, PTL
=============================================================================
