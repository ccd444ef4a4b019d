------------------------------ MODULE Dashboard ------------------------------
(***************************************************************************)
(* The list endpoints of the dashboard API (api/handlers.go) over the      *)
(* PostgreSQL store (store/pgx.go): one client turns the pages of one      *)
(* endpoint while honeypots and processor write the rows it is reading.    *)
(*                                                                         *)
(* A page is one request and one or two statements of their own; there is  *)
(* no transaction and no cursor, only LIMIT and OFFSET into the order of   *)
(* the moment.  What a row says is left out but for what it is sorted and  *)
(* filtered by.                                                            *)
(***************************************************************************)
EXTENDS Integers, Sequences, FiniteSets

Endpoints == {"sessions", "service", "iocs", "attackers", "ip", "recent"}

CONSTANTS
    Rows,               \* the rows the table may come to have
    Matching,           \* those of the service, or the address, asked for
    Limits,             \* what a client may write as limit, <<>> for nothing
    Offsets,            \* ... and as offset of its first page
    Durations,          \* ... and as since
    defaultPageLimit, maxPageLimit, defaultStatsDuration,
    Skew,               \* bound: how late a row is written, in ticks
    Now,                \* the time when the client begins
    MaxTime,            \* bound: the last tick
    MaxWrites,          \* bound: rows written while it turns its pages, but for
                        \* iocs that are there: those are written without limit
    MaxFailures         \* bound: requests that fail

ASSUME DashboardAssumption ==
    /\ Matching \subseteq Rows /\ IsFiniteSet(Rows)
    /\ \A p \in Limits \cup Offsets \cup Durations : p \in Seq(Int) /\ Len(p) <= 1
    /\ defaultPageLimit \in Nat \ {0} /\ maxPageLimit \in Nat
    /\ defaultPageLimit <= maxPageLimit
    /\ defaultStatsDuration \in Nat
    /\ Now \in Nat \ {0} /\ MaxTime \in Nat /\ Now <= MaxTime
    /\ Skew \in Nat /\ MaxWrites \in Nat /\ MaxFailures \in Nat

VARIABLES
    endpoint,   \* what the client reads; its table is the only one here
    clock,      \* the time
    row,        \* row[r]: what r is ordered by (0: no such row), and its last_seen
    writes,     \* rows written so far, but for those iocs
    pager,      \* the client
    req,        \* the request being handled
    page        \* the page that was returned, until the next is asked for

dashVars == <<endpoint, clock, row, writes, pager, req, page>>

Present == {r \in Rows : row[r].key > 0}

(* The endpoints that answer with a total, the limit and the offset.           *)
Counted == {"sessions", "service", "iocs"}
-----------------------------------------------------------------------------
(* Mutant: a limit is taken as it comes.                                        *)
ParseUnbounded(limit, offset) ==
    [limit  |-> IF limit # <<>> THEN limit[1] ELSE defaultPageLimit,
     offset |-> IF offset # <<>> /\ offset[1] >= 0 THEN offset[1] ELSE 0]

(* Mutant: the offset is not read.                                              *)
ParseNoOffset(limit, offset) ==
    LET n == IF limit # <<>> /\ limit[1] > 0 THEN limit[1] ELSE defaultPageLimit
    IN  [limit |-> IF n > maxPageLimit THEN maxPageLimit ELSE n, offset |-> 0]

(* parsePagination: what does not parse counts as absent.                       *)
parsePagination(limit, offset) ==
    LET n == IF limit # <<>> /\ limit[1] > 0 THEN limit[1] ELSE defaultPageLimit
    IN  [limit  |-> IF n > maxPageLimit THEN maxPageLimit ELSE n,
         offset |-> IF offset # <<>> /\ offset[1] >= 0 THEN offset[1] ELSE 0]

parseDuration(since) == IF since = <<>> THEN defaultStatsDuration ELSE since[1]
-----------------------------------------------------------------------------
(* ORDER BY key DESC: rows that tie come in any order.                          *)
Sorted(S) ==
    {q \in [1..Cardinality(S) -> S] :
        \A i, j \in DOMAIN q : i < j => q[i] # q[j] /\ row[q[i]].key >= row[q[j]].key}

Ascending(S) ==
    {q \in [1..Cardinality(S) -> S] :
        \A i, j \in DOMAIN q : i < j => q[i] # q[j] /\ row[q[i]].key <= row[q[j]].key}

(* LIMIT limit OFFSET offset.                                                   *)
Cut(q, limit, offset) ==
    SubSeq(q, offset + 1, IF offset + limit < Len(q) THEN offset + limit ELSE Len(q))

(* The pages a SELECT may return.                                               *)
Pages(S, limit, offset) == {Cut(q, limit, offset) : q \in Sorted(S)}

(* Mutant: no WHERE in the COUNT.                                               *)
SessionsCountedAll(service) == [count |-> Present, list |-> Present \cap service]

(* ListSessions: the rows of its two statements; service is every row when no   *)
(* service is asked for.                                                        *)
ListSessions(service) == [count |-> Present \cap service, list |-> Present \cap service]

FindByIP(limit, offset) == Pages(Present \cap Matching, limit, offset)

RecentEvents(limit) == Pages(Present, limit, 0)

(* Mutant: the oldest first.                                                    *)
ListIOCsOldest(limit, offset) == {Cut(q, limit, offset) : q \in Ascending(Present)}

ListIOCs(limit, offset) == Pages(Present, limit, offset)

TopAttackers(since, limit, offset) ==
    Pages({r \in Present : row[r].last_seen >= since}, limit, offset)
-----------------------------------------------------------------------------
(***************************************************************************)
(* Writers.  A row is stamped when the thing happens and written up to     *)
(* Skew later, so stamps do not come in order.                             *)
(***************************************************************************)
Stamps == {t \in 1..clock : t >= clock - Skew}

(* The rows a client is asking for, as the table stands.                       *)
Listed(table, now, since) ==
    CASE endpoint \in {"service", "ip"} -> Present \cap Matching
      [] endpoint = "attackers" ->
            {r \in Present : table[r].last_seen >= now - parseDuration(since)}
      [] OTHER -> Present

(* History of a paging: pager.owed has the rows that were there at its         *)
(* beginning, have not been written or tied with one since, and are still to   *)
(* be shown; nothing is owed once a row has gone back in the order, left the   *)
(* window or been written behind it.  req.raced: a row was created between the *)
(* COUNT and the SELECT.                                                       *)
PulledBack ==
    \/ \E r \in Present : row'[r].key < row[r].key
    \/ ~(Listed(row, clock, pager.since) \subseteq Listed(row', clock', pager.since))
    \/ /\ endpoint = "attackers"
       /\ \E r \in Rows : row'[r] # row[r] /\ row'[r].last_seen < clock' - parseDuration(pager.since)

Note(touched) ==
    /\ pager' = [pager EXCEPT !.owed = IF PulledBack THEN {} ELSE @ \ touched]
    /\ req' = [req EXCEPT !.raced = @ \/ (req.phase = "select" /\ Present # Present')]

Ties(r) == {q \in Rows : row'[q].key = row'[r].key}

Written(r) ==
    /\ pager.phase = "asking"
    /\ \/ endpoint = "iocs" /\ r \in Present /\ UNCHANGED writes
       \/ writes < MaxWrites /\ writes' = writes + 1
    /\ UNCHANGED <<endpoint, clock, page>>

(* InsertEvent and InsertSession.                                              *)
Insert(r) ==
    /\ Written(r)
    /\ endpoint \in {"sessions", "service", "ip", "recent"}
    /\ r \notin Present
    /\ \E t \in Stamps : row' = [row EXCEPT ![r] = [key |-> t, last_seen |-> t]]
    /\ Note(Ties(r))

(* An ioc is ordered by last_seen, which is that of the event written last.     *)
UpsertIOC(r) ==
    /\ Written(r)
    /\ endpoint = "iocs"
    /\ \E t \in Stamps : row' = [row EXCEPT ![r] = [key |-> t, last_seen |-> t]]
    /\ Note(Ties(r))

(* An attacker by threat_score and total_events: the one never falls, the other *)
(* grows with every event.  The key is the place in that order.                 *)
UpsertAttacker(r) ==
    /\ Written(r)
    /\ endpoint = "attackers"
    /\ \E t \in Stamps, k \in row[r].key + 1 .. MaxTime :
           row' = [row EXCEPT ![r] = [key |-> k, last_seen |-> t]]
    /\ Note(Ties(r))

Tick ==
    /\ pager.phase = "asking"
    /\ clock < MaxTime
    /\ clock' = clock + 1
    /\ UNCHANGED <<endpoint, row, writes, page>>
    /\ Note({})
-----------------------------------------------------------------------------
(* A client that is told no limit has to know what it asked for.  Nothing is    *)
(* owed to one that does not begin with the first page.                         *)
Begin(limit, offset, since, stop) ==
    /\ pager.phase = "idle"
    /\ endpoint \in Counted \/ limit \in {<<n>> : n \in 1..maxPageLimit}
    /\ stop = "total" => endpoint \in Counted
    /\ since # <<>> => endpoint = "attackers"
    /\ pager' = [pager EXCEPT
                    !.phase = "asking", !.limit = limit, !.offset = offset,
                    !.since = since, !.stop = stop,
                    !.owed = {r \in Listed(row, clock, since) :
                                 /\ parsePagination(limit, offset).offset = 0
                                 /\ \A q \in Present \ {r} : row[q].key # row[r].key}]
    /\ UNCHANGED <<endpoint, clock, row, writes, req, page>>

NoRequest == [phase |-> "none", limit |-> 1, offset |-> 0, since |-> 0, total |-> 0,
              raced |-> FALSE]

NoPage == [rows |-> <<>>, limit |-> 1, offset |-> 0, total |-> 0, raced |-> FALSE]

(* The handler reads its parameters and the clock.  Two of the store's methods  *)
(* count first.                                                                 *)
Ask ==
    /\ pager.phase = "asking"
    /\ req.phase = "none"
    /\ LET p == parsePagination(pager.limit, pager.offset)
       IN  req' = [NoRequest EXCEPT
                      !.phase = IF endpoint \in Counted THEN "count" ELSE "select",
                      !.limit = p.limit, !.offset = p.offset,
                      !.since = clock - parseDuration(pager.since)]
    /\ page' = NoPage
    /\ UNCHANGED <<endpoint, clock, row, writes, pager>>

Service == IF endpoint = "service" THEN Matching ELSE Rows

Count ==
    /\ req.phase = "count"
    /\ req' = [req EXCEPT
                  !.phase = "select",
                  !.total = Cardinality(IF endpoint = "iocs" THEN Present
                                        ELSE ListSessions(Service).count)]
    /\ UNCHANGED <<endpoint, clock, row, writes, pager, page>>

(* The pages the SELECT of the handler may return.                              *)
Selected ==
    CASE endpoint \in {"sessions", "service"} ->
            Pages(ListSessions(Service).list, req.limit, req.offset)
      [] endpoint = "iocs"      -> ListIOCs(req.limit, req.offset)
      [] endpoint = "attackers" -> TopAttackers(req.since, req.limit, req.offset)
      [] endpoint = "ip"        -> FindByIP(req.limit, req.offset)
      [] endpoint = "recent"    -> RecentEvents(req.limit)

(* There is a next page for a client while the total says so, or the page is    *)
(* full.                                                                        *)
More(p) ==
    IF pager.stop = "total" THEN p.offset + p.limit < p.total
                            ELSE Len(p.rows) = p.limit

(* Where the next page begins; behind the last row a table can have all         *)
(* offsets are alike.                                                           *)
Following(p) ==
    LET next == p.offset + p.limit
    IN  IF next < Cardinality(Rows) THEN next ELSE Cardinality(Rows)

(* The page is returned and shown.                                              *)
Select ==
    /\ req.phase = "select"
    /\ \E rows \in Selected :
         LET p == [rows |-> rows, limit |-> req.limit, offset |-> req.offset,
                   total |-> req.total, raced |-> req.raced]
         IN  /\ page' = p
             /\ pager' = [pager EXCEPT
                             !.owed = @ \ {rows[i] : i \in DOMAIN rows},
                             !.phase = IF More(p) THEN "asking" ELSE "done",
                             !.limit = <<p.limit>>,
                             !.offset = <<Following(p)>>]
    /\ req' = NoRequest
    /\ UNCHANGED <<endpoint, clock, row, writes>>

(* Either statement fails: an error is returned, whatever has been read, and    *)
(* the client asks again.                                                       *)
Fails ==
    /\ req.phase \in {"count", "select"}
    /\ pager.failed < MaxFailures
    /\ pager' = [pager EXCEPT !.failed = @ + 1]
    /\ req' = NoRequest
    /\ UNCHANGED <<endpoint, clock, row, writes, page>>
-----------------------------------------------------------------------------
(* The client begins with whatever the table holds; an attacker that was not    *)
(* seen for longer is out of the window and like one that is yet to come.       *)
NoRow == [key |-> 0, last_seen |-> 0]

Tables(e) ==
    {NoRow} \cup {x \in [key : 1..Now, last_seen : 1..Now] :
                     IF e = "attackers" THEN x.last_seen >= Now - Skew
                                        ELSE x.last_seen = x.key}

Init ==
    /\ endpoint \in Endpoints
    /\ clock = Now
    /\ row \in [Rows -> Tables(endpoint)]
    /\ writes = 0
    /\ pager = [phase |-> "idle", limit |-> <<>>, offset |-> <<>>, since |-> <<>>,
                stop |-> "short", owed |-> {}, failed |-> 0]
    /\ req = NoRequest
    /\ page = NoPage

Write == \E r \in Rows : Insert(r) \/ UpsertIOC(r) \/ UpsertAttacker(r)

Request == Ask \/ Count \/ Select

Next ==
    \/ Write \/ Tick \/ Request \/ Fails
    \/ \E limit \in Limits, offset \in Offsets, since \in Durations, stop \in {"short", "total"} :
          Begin(limit, offset, since, stop)

Spec == Init /\ [][Next]_dashVars

(***************************************************************************)
(* A request that was accepted is handled, and the client asks for the     *)
(* next page.  Writers need not write.                                     *)
(***************************************************************************)
FairSpec == Spec /\ WF_dashVars(Request)
-----------------------------------------------------------------------------
(***************************************************************************)
(* Types.  Whatever a client writes as limit and offset, a request asks    *)
(* for at least one and at most maxPageLimit rows from a place in the      *)
(* list, and no page holds more than was asked for.                        *)
(***************************************************************************)
TypeOK ==
    /\ endpoint \in Endpoints
    /\ clock \in Now..MaxTime
    /\ \A r \in Rows : row[r].key \in 0..MaxTime /\ row[r].last_seen \in 0..MaxTime
    /\ writes \in 0..MaxWrites
    /\ pager.phase \in {"idle", "asking", "done"}
    /\ pager.owed \subseteq Rows
    /\ req.phase \in {"none", "count", "select"}
    /\ req.phase # "none" => pager.phase = "asking"
    /\ \A x \in {req, page} :
          /\ x.limit \in 1..maxPageLimit
          /\ x.offset \in Nat
          /\ x.total \in 0..Cardinality(Rows)
    /\ Len(page.rows) <= page.limit

(***************************************************************************)
(* A client that has turned all pages from the first has seen every row of *)
(* the list that was there when it began and was not written or tied with  *)
(* another since, although new rows push the others from page to page:     *)
(* they may be shown twice and never skipped.  It does not hold where a    *)
(* row has gone back in the order or left the window of the attackers, or  *)
(* was written with a last_seen already behind that window while a request *)
(* with an earlier one was being handled, nor for a client that goes by    *)
(* the total (pages/sessions and pages/intel of the frontend) and for      *)
(* whose last page a row came between the COUNT and the SELECT.            *)
(***************************************************************************)
PagedWhole ==
    /\ pager.phase = "done"
    /\ endpoint # "recent"
    /\ ~(pager.stop = "total" /\ page.raced)
    => pager.owed = {}

(***************************************************************************)
(* A page that is not full is the last one by its total too, although the  *)
(* two statements of ListSessions and ListIOCs see the table at two times: *)
(* the frontend never offers a page behind the end of what it was shown.   *)
(***************************************************************************)
ShortPageIsLast ==
    Len(page.rows) < page.limit => page.total <= page.offset + Len(page.rows)

(***************************************************************************)
(* Turning pages comes to an end, although rows are added, iocs that are   *)
(* there are written again and again and move about in the order, and      *)
(* requests fail.  It is not shown, and not so, if rows are added for ever *)
(* as fast as pages are turned (MaxWrites); nor of the recent events,      *)
(* whose handler reads no offset: if there are enough of them for one full *)
(* page, a client that waits for a short one is given it again and again.  *)
(***************************************************************************)
PagingEnds ==
    pager.phase = "asking" ~>
        \/ pager.phase = "done"
        \/ /\ endpoint = "recent"
           /\ Cardinality(Present) >= parsePagination(pager.limit, <<>>).limit
=============================================================================
