------------------------------ MODULE Sessions ------------------------------
(***************************************************************************)
(* The life of a connection: the handlers of the six honeypot services     *)
(* (sshd, ftpd, mysqld, redisd, smbd, httpd), the session tracker they     *)
(* share (session/tracker.go), the rows its callbacks write                *)
(* (InsertSession and UpdateSession of store/pgx.go), and runServe of      *)
(* cli/serve.go, which starts the services and stops them without waiting  *)
(* for the handlers.                                                       *)
(*                                                                         *)
(* A handler is one goroutine.  What it does for one input of its client   *)
(* is a script, a sequence of steps; todo[c] is what is left of it, and    *)
(* the handler waits for its client when nothing is.  A connection has one *)
(* session, so they share one identity.                                    *)
(***************************************************************************)
EXTENDS Naturals, Sequences, FiniteSets

CONSTANTS
    Conns,          \* connections, each made at most once
    Enabled,        \* the services that are enabled
    SensorRow,      \* has sensors a row for this sensor (the program makes none)
    Faults,         \* does the store fail for reasons of its own
    MaxChannels,    \* bound: session channels of one SSH connection
    MaxLog          \* bound: events one connection publishes before it closes

Services == {"ssh", "ftp", "mysql", "redis", "smb", "http"}

ASSUME SessionsAssumption ==
    /\ Enabled \subseteq Services
    /\ SensorRow \in BOOLEAN
    /\ Faults \in BOOLEAN
    /\ MaxChannels \in Nat
    /\ MaxLog \in Nat

VARIABLES
    proc,       \* runServe: "serving", "store closed", "bus closed", "exited"
    ctx,        \* the context of its errgroup: "live" or "cancelled"
    running,    \* the services whose Start has not returned
    svc,        \* svc[c]: the service that accepted c
    stage,      \* stage[c]: where its handler is
    todo,       \* todo[c]: the steps left of its script
    channels,   \* channels[c]: the shells and execs running for an SSH connection
    tracked,    \* the keys of Tracker.sessions
    sess,       \* sess[c]: its struct; arrays is MITRETechniques and Tags, which
                \* nobody sets (AddTechnique has no caller)
    row,        \* row[c]: its row in sessions: "none", "open" or "ended"
    log,        \* log[c]: the events given to Publish for it
    shaken      \* history: the connections whose handshake was completed

sessVars == <<proc, ctx, running, svc, stage, todo, channels, tracked, sess, row, log, shaken>>

Alive == proc # "exited"
-----------------------------------------------------------------------------
(***************************************************************************)
(* The handlers.  first is what a handler does before it first waits,      *)
(* auth and open what one input makes it do before and after its           *)
(* handshake, with the stage it goes on to, and last what it does on its   *)
(* way out.                                                                *)
(***************************************************************************)
Does(steps, next) == [does |-> steps, next |-> next]

(* Mutant: a completed handshake is not noted in the session. *)
SSHForgets == [first |-> <<"start", "insert", "connect">>,
               begin |-> "auth",
               auth  |-> {Does(<<"login">>, "auth"), Does(<<>>, "open")},
               open  |-> {Does(<<"exploit">>, "open")},
               last  |-> <<"disconnect", "end", "update">>]

(* handleConnection: the callbacks of the handshake publish every attempt;  *)
(* SetLogin follows once the handshake is complete.                         *)
SSH == [first |-> <<"start", "insert", "connect">>,
        begin |-> "auth",
        auth  |-> {Does(<<"login">>, "auth"), Does(<<"setlogin">>, "open")},
        open  |-> {Does(<<"exploit">>, "open")},
        last  |-> <<"disconnect", "end", "update">>]

(* Mutant: QUIT publishes the disconnect that is also deferred. *)
FTPTwice == [first |-> <<"start", "insert", "connect", "loop">>,
             begin |-> "open",
             auth  |-> {},
             open  |-> {Does(<<"command", "loop">>, "open"),
                        Does(<<"command", "disconnect">>, "closing")},
             last  |-> <<"disconnect", "end", "update">>]

(* Mutant: the defers are in the other order. *)
FTPEndsFirst == [first |-> <<"start", "insert", "connect", "loop">>,
                 begin |-> "open",
                 auth  |-> {},
                 open  |-> {Does(<<"command">>, "closing")},
                 last  |-> <<"end", "update", "disconnect">>]

(* handleConnection: a command, PASS, STOR and QUIT.  The defers run in the *)
(* reverse of the order they are written in.                                *)
FTP == [first |-> <<"start", "insert", "connect", "loop">>,
        begin |-> "open",
        auth  |-> {},
        open  |-> {Does(<<"command", "loop">>, "open"),
                   Does(<<"command", "login", "setlogin", "loop">>, "open"),
                   Does(<<"command", "upload", "loop">>, "open"),
                   Does(<<"command">>, "closing")},
        last  |-> <<"disconnect", "end", "update">>]

(* handleConnection: the handshake is one packet, and the reply to it may   *)
(* fail; then ping or an unknown command, USE, a query, and quit.           *)
MySQL == [first |-> <<"start", "insert", "connect">>,
          begin |-> "auth",
          auth  |-> {Does(<<"login", "setlogin", "loop">>, "open"),
                     Does(<<"login", "setlogin">>, "closing")},
          open  |-> {Does(<<"loop">>, "open"),
                     Does(<<"command", "loop">>, "open"),
                     Does(<<"query", "count", "loop">>, "open"),
                     Does(<<>>, "closing")},
          last  |-> <<"disconnect", "end", "update">>]

(* handleAccept, handleCmd and handleClose, which redcon calls in turn. *)
Redis == [first |-> <<"start", "insert", "connect">>,
          begin |-> "open",
          auth  |-> {},
          open  |-> {Does(<<"command">>, "open"),
                     Does(<<"command", "exploit">>, "open"),
                     Does(<<"command">>, "closing")},
          last  |-> <<"end", "update", "disconnect">>]

(* Mutant: a return leaves the session in the map. *)
SMBForgets == [first |-> <<"start", "insert", "connect">>,
               begin |-> "open",
               auth  |-> {},
               open  |-> {Does(<<"scan">>, "closing")},
               last  |-> <<>>]

(* handleConnection: one frame, and no disconnect event. *)
SMB == [first |-> <<"start", "insert", "connect">>,
        begin |-> "open",
        auth  |-> {},
        open  |-> {Does(<<"scan">>, "closing")},
        last  |-> <<"end", "update">>]

(* requestLogger: one request is one session, without connect event. *)
HTTP == [first |-> <<"start", "insert">>,
         begin |-> "open",
         auth  |-> {},
         open  |-> {Does(<<"request">>, "closing"), Does(<<"request", "scan">>, "closing")},
         last  |-> <<"end", "update">>]

Handler(s) ==
    CASE s = "ssh"   -> SSH
      [] s = "ftp"   -> FTP
      [] s = "mysql" -> MySQL
      [] s = "redis" -> Redis
      [] s = "smb"   -> SMB
      [] s = "http"  -> HTTP

Waiting(c) == Alive /\ stage[c] \in {"auth", "open"} /\ todo[c] = <<>>
Gone(c) == stage[c] = "closing" /\ todo[c] = <<>>

Published(c) == {log[c][i] : i \in DOMAIN log[c]}
-----------------------------------------------------------------------------
Init ==
    /\ proc = "serving"
    /\ ctx = "live"
    /\ running = Enabled
    /\ svc = [c \in Conns |-> "none"]
    /\ stage = [c \in Conns |-> "none"]
    /\ todo = [c \in Conns |-> <<>>]
    /\ channels = [c \in Conns |-> 0]
    /\ tracked = {}
    /\ sess = [c \in Conns |-> [login |-> FALSE, commands |-> 0, arrays |-> "nil",
                                 ended |-> FALSE]]
    /\ row = [c \in Conns |-> "none"]
    /\ log = [c \in Conns |-> <<>>]
    /\ shaken = {}

(* A service accepts a connection, unless its Start has returned, and the   *)
(* limiter lets it in or not.                                               *)
Accept(c, s) ==
    /\ Alive
    /\ s \in running
    /\ stage[c] = "none"
    /\ svc' = [svc EXCEPT ![c] = s]
    /\ \/ /\ stage' = [stage EXCEPT ![c] = Handler(s).begin]
          /\ todo' = [todo EXCEPT ![c] = Handler(s).first]
       \/ /\ stage' = [stage EXCEPT ![c] = "refused"]
          /\ UNCHANGED todo
    /\ UNCHANGED <<proc, ctx, running, channels, tracked, sess, row, log, shaken>>

(* The client says something and the handler runs one of its scripts.  An   *)
(* SSH handshake is complete only after an attempt to log in.               *)
Input(c) ==
    /\ Waiting(c)
    /\ Len(log[c]) < MaxLog
    /\ \E in \in (IF stage[c] = "auth" THEN Handler(svc[c]).auth ELSE Handler(svc[c]).open) :
          /\ svc[c] = "ssh" /\ in.does = <<"setlogin">> => "login" \in Published(c)
          /\ stage' = [stage EXCEPT ![c] = in.next]
          /\ todo' = [todo EXCEPT ![c] = IF in.next = "closing"
                                         THEN in.does \o Handler(svc[c]).last ELSE in.does]
          /\ shaken' = IF stage[c] = "auth" /\ in.next = "open" THEN shaken \cup {c} ELSE shaken
    /\ UNCHANGED <<proc, ctx, running, svc, channels, tracked, sess, row, log>>

Out(c) ==
    /\ Waiting(c)
    /\ stage' = [stage EXCEPT ![c] = "closing"]
    /\ todo' = [todo EXCEPT ![c] = Handler(svc[c]).last]
    /\ UNCHANGED <<proc, ctx, running, svc, channels, tracked, sess, row, log, shaken>>

(* The client leaves, or says what the handler cannot read.  The handler of *)
(* an HTTP request goes on whatever becomes of its client.                  *)
Leave(c) == svc[c] # "http" /\ Out(c)

(* Mutant: no read deadline. *)
DeadlineNever(c) == FALSE /\ Out(c)

(* The SMB handler waits for its frame for ten seconds. *)
Deadline(c) == svc[c] = "smb" /\ Out(c)

(* redcon closes its connections when ListenAndServe returns. *)
RedisClosed(c) == svc[c] = "redis" /\ "redis" \notin running /\ Out(c)
-----------------------------------------------------------------------------
(* The steps of a script. *)
Step(c, steps) ==
    /\ Alive
    /\ todo[c] # <<>>
    /\ Head(todo[c]) \in steps

Go(c) == todo' = [todo EXCEPT ![c] = Tail(@)]

(* Tracker.Start up to its unlock. *)
Start(c) ==
    /\ Step(c, {"start"})
    /\ Go(c)
    /\ tracked' = tracked \cup {c}
    /\ UNCHANGED <<proc, ctx, running, svc, stage, channels, sess, row, log, shaken>>

(* A statement of a callback reaches the database: its context is the one   *)
(* of the errgroup, which runServe assigns to the variable they captured.   *)
StoreReached == ctx = "live" /\ proc = "serving"

(* onStart: InsertSession, refused unless sensors has the row it refers to. *)
InsertSession(c) ==
    /\ Step(c, {"insert"})
    /\ Go(c)
    /\ \/ /\ StoreReached /\ SensorRow
          /\ row' = [row EXCEPT ![c] = "open"]
       \/ /\ ~StoreReached \/ ~SensorRow \/ Faults
          /\ UNCHANGED row
    /\ UNCHANGED <<proc, ctx, running, svc, stage, channels, tracked, sess, log, shaken>>

EventSteps == {"connect", "login", "command", "query", "exploit", "upload", "scan",
               "request", "disconnect"}

Publish(c) ==
    /\ Step(c, EventSteps)
    /\ Go(c)
    /\ log' = [log EXCEPT ![c] = Append(@, Head(todo[c]))]
    /\ UNCHANGED <<proc, ctx, running, svc, stage, channels, tracked, sess, row, shaken>>

SetLogin(c) ==
    /\ Step(c, {"setlogin"})
    /\ Go(c)
    /\ sess' = [sess EXCEPT ![c].login = c \in tracked \/ @]
    /\ UNCHANGED <<proc, ctx, running, svc, stage, channels, tracked, row, log, shaken>>

IncrCommandCount(c) ==
    /\ Step(c, {"count"})
    /\ Go(c)
    /\ sess' = [sess EXCEPT ![c].commands = IF c \in tracked THEN @ + 1 ELSE @]
    /\ UNCHANGED <<proc, ctx, running, svc, stage, channels, tracked, row, log, shaken>>

(* The head of the loops of FTP and MySQL, which look at the context. *)
Loop(c) ==
    /\ Step(c, {"loop"})
    /\ IF ctx = "live"
       THEN Go(c) /\ UNCHANGED stage
       ELSE /\ todo' = [todo EXCEPT ![c] = Handler(svc[c]).last]
            /\ stage' = [stage EXCEPT ![c] = "closing"]
    /\ UNCHANGED <<proc, ctx, running, svc, channels, tracked, sess, row, log, shaken>>

(* Tracker.End up to its unlock; without an entry it calls nobody. *)
End(c) ==
    /\ Step(c, {"end"})
    /\ tracked' = tracked \ {c}
    /\ IF c \in tracked
       THEN sess' = [sess EXCEPT ![c].ended = TRUE] /\ Go(c)
       ELSE UNCHANGED sess /\ todo' = [todo EXCEPT ![c] = Tail(Tail(@))]
    /\ UNCHANGED <<proc, ctx, running, svc, stage, channels, row, log, shaken>>

(* onEnd: UpdateSession.  A nil slice is NULL, which mitre_techniques and   *)
(* tags do not take; without a row the statement changes nothing.           *)
UpdateSession(c) ==
    /\ Step(c, {"update"})
    /\ Go(c)
    /\ row' = [row EXCEPT ![c] = IF StoreReached /\ @ = "open" /\ sess[c].arrays # "nil"
                                 THEN "ended" ELSE @]
    /\ UNCHANGED <<proc, ctx, running, svc, stage, channels, tracked, sess, log, shaken>>

HandlerStep(c) ==
    \/ Start(c) \/ InsertSession(c) \/ Publish(c) \/ SetLogin(c)
    \/ IncrCommandCount(c) \/ Loop(c) \/ End(c) \/ UpdateSession(c)
-----------------------------------------------------------------------------
(* handleSession: a channel gets goroutines of its own, which nobody waits  *)
(* for.                                                                     *)
OpenChannel(c) ==
    /\ Waiting(c)
    /\ svc[c] = "ssh" /\ stage[c] = "open"
    /\ channels[c] < MaxChannels
    /\ channels' = [channels EXCEPT ![c] = @ + 1]
    /\ UNCHANGED <<proc, ctx, running, svc, stage, todo, tracked, sess, row, log, shaken>>

(* RunShell and handleExec publish a command, which may have been read      *)
(* ahead of the end of the connection.                                      *)
ChannelCommand(c) ==
    /\ Alive
    /\ channels[c] > 0
    /\ Len(log[c]) < MaxLog
    /\ log' = [log EXCEPT ![c] = Append(@, "command")]
    /\ UNCHANGED <<proc, ctx, running, svc, stage, todo, channels, tracked, sess, row, shaken>>

(* Mutant: a channel is counted down by both of its goroutines. *)
ChannelEndTwice(c) ==
    /\ Alive
    /\ svc[c] = "ssh"
    /\ channels[c] >= 0
    /\ channels' = [channels EXCEPT ![c] = @ - 1]
    /\ UNCHANGED <<proc, ctx, running, svc, stage, todo, tracked, sess, row, log, shaken>>

(* The shell ends, or the command of an exec has been answered. *)
ChannelEnd(c) ==
    /\ Alive
    /\ channels[c] > 0
    /\ channels' = [channels EXCEPT ![c] = @ - 1]
    /\ UNCHANGED <<proc, ctx, running, svc, stage, todo, tracked, sess, row, log, shaken>>
-----------------------------------------------------------------------------
(* A signal, or a service that cannot listen. *)
Cancel ==
    /\ ctx = "live"
    /\ ctx' = "cancelled"
    /\ UNCHANGED <<proc, running, svc, stage, todo, channels, tracked, sess, row, log, shaken>>

(* The listener is closed and the accept loop sees the context. *)
ServiceReturns(s) ==
    /\ ctx = "cancelled"
    /\ s \in running
    /\ running' = running \ {s}
    /\ UNCHANGED <<proc, ctx, svc, stage, todo, channels, tracked, sess, row, log, shaken>>

Deferred(now, next) ==
    /\ proc = now
    /\ proc' = next
    /\ UNCHANGED <<ctx, running, svc, stage, todo, channels, tracked, sess, row, log, shaken>>

(* Mutant: g.Wait waits for the handlers as well. *)
CloseStoreWaits == ctx = "cancelled" /\ running = {} /\ tracked = {} /\ Deferred("serving", "store closed")

(* g.Wait returns (the workers have too: Processor), and the deferred       *)
(* closes follow: the streamer and the pool, the limiter and the bus; then  *)
(* the process is gone with whatever its goroutines were doing.             *)
CloseStore == ctx = "cancelled" /\ running = {} /\ Deferred("serving", "store closed")
ShutdownBus == Deferred("store closed", "bus closed")
Exit == Deferred("bus closed", "exited")

Teardown == CloseStore \/ ShutdownBus \/ Exit

Next ==
    \/ \E c \in Conns, s \in Enabled : Accept(c, s)
    \/ \E c \in Conns : Input(c) \/ Leave(c) \/ Deadline(c) \/ RedisClosed(c)
    \/ \E c \in Conns : HandlerStep(c)
    \/ \E c \in Conns : OpenChannel(c) \/ ChannelCommand(c) \/ ChannelEnd(c)
    \/ Cancel
    \/ \E s \in Enabled : ServiceReturns(s)
    \/ Teardown

(* Goroutines are scheduled, store calls return, deadlines fire; the body   *)
(* of an HTTP request is read within ReadTimeout.  Nothing is assumed of    *)
(* clients.                                                                 *)
Fairness ==
    /\ \A c \in Conns : /\ WF_sessVars(HandlerStep(c))
                        /\ WF_sessVars(Deadline(c) \/ RedisClosed(c))
                        /\ WF_sessVars(svc[c] = "http" /\ Input(c))
    /\ \A s \in Enabled : WF_sessVars(ServiceReturns(s))
    /\ WF_sessVars(Teardown)

Spec == Init /\ [][Next]_sessVars
FairSpec == Spec /\ Fairness
-----------------------------------------------------------------------------
Steps == EventSteps \cup {"start", "insert", "setlogin", "count", "loop", "end", "update"}

(* Types; a handler that runs is one of a service that is enabled. *)
TypeOK ==
    /\ proc \in {"serving", "store closed", "bus closed", "exited"}
    /\ ctx \in {"live", "cancelled"}
    /\ running \in SUBSET Enabled
    /\ svc \in [Conns -> Enabled \cup {"none"}]
    /\ stage \in [Conns -> {"none", "refused", "auth", "open", "closing"}]
    /\ todo \in [Conns -> Seq(Steps)]
    /\ channels \in [Conns -> Nat]
    /\ tracked \in SUBSET Conns
    /\ sess \in [Conns -> [login : BOOLEAN, commands : Nat, arrays : {"nil", "set"},
                        ended : BOOLEAN]]
    /\ row \in [Conns -> {"none", "open", "ended"}]
    /\ log \in [Conns -> Seq(EventSteps)]
    /\ shaken \in SUBSET Conns
    /\ \A c \in Conns : svc[c] = "none" <=> stage[c] = "none"

(* The tracker's sessions are those of the handlers between Start and End:  *)
(* none is left in the map by a handler that has gone, whichever way it     *)
(* went, and the dashboard's count is right.                                *)
NoSessionLeft ==
    \A c \in Conns :
        c \in tracked <=> /\ stage[c] \in {"auth", "open", "closing"}
                          /\ \A i \in DOMAIN todo[c] : todo[c][i] # "start"
                          /\ ~sess[c].ended /\ ~Gone(c)

(* A session's events begin with its connect event, if its service has one, *)
(* and its disconnect event is published once and last, except for what the *)
(* channels of an SSH connection still have to say.                         *)
SessionOrder ==
    \A c \in Conns : \A i \in DOMAIN log[c] :
        /\ log[c][i] = "connect" <=> i = 1 /\ svc[c] # "http"
        /\ log[c][i] = "disconnect" =>
             \A j \in DOMAIN log[c] : j > i => svc[c] = "ssh" /\ log[c][j] = "command"

(* Events are published of sessions that are in the tracker, but for the    *)
(* disconnect event of Redis and the commands of SSH channels.              *)
PublishedWhileTracked ==
    [][\A c \in Conns : log'[c] # log[c] =>
         \/ c \in tracked
         \/ svc[c] = "redis" /\ log'[c] = Append(log[c], "disconnect")
         \/ svc[c] = "ssh" /\ log'[c] = Append(log[c], "command")]_sessVars

(* The session an ended connection leaves agrees with what was published of *)
(* it.  A login is noted only if one was published.  One that was published *)
(* is noted, except where it was an attempt of an SSH handshake that broke  *)
(* off: once sshd has its connection, SetLogin must have been called before *)
(* the session ends.  Every MySQL query is counted, and nothing else is:    *)
(* the comment of session/tracker.go and the guide promise a count of       *)
(* commands of every session, but mysqld is the only caller of              *)
(* IncrCommandCount, and the commands FTP, SSH, Redis and USE publish are   *)
(* not in any count.                                                        *)
RecordAgrees ==
    \A c \in Conns : sess[c].ended =>
        /\ sess[c].login => "login" \in Published(c)
        /\ "login" \in Published(c) /\ (svc[c] = "ssh" => c \in shaken) => sess[c].login
        /\ sess[c].commands = Cardinality({i \in DOMAIN log[c] : log[c][i] = "query"})

(* The process stops when it is told to, whatever its clients do: silent    *)
(* connections do not hold it up.                                           *)
ServeReturns == ctx = "cancelled" ~> proc = "exited"

(* An SMB or HTTP client that says nothing does not keep its session for    *)
(* ever, and neither does one that has left.                                *)
BoundedStay ==
    \A c \in Conns :
        c \in tracked /\ (svc[c] \in {"smb", "http"} \/ stage[c] = "closing")
            ~> c \notin tracked \/ ~Alive

(***************************************************************************)
(* Why NoSessionLeft and PublishedWhileTracked hold: of what is left of a  *)
(* script, "start" is only ever the first step, and "end" comes once,      *)
(* after which there is nothing to publish but a Redis disconnect.         *)
(***************************************************************************)
Clean(q) == \A i \in 1..Len(q) : q[i] \notin {"start", "end"}

Finishing(q, s) ==
    \A i \in 1..Len(q) : q[i] = "update" \/ (q[i] = "disconnect" /\ s = "redis")

Ending(q, s) ==
    \E i \in 1..Len(q) :
        /\ q[i] = "end"
        /\ \A j \in 1..(i - 1) : q[j] \notin {"start", "end"}
        /\ \A j \in (i + 1)..Len(q) : q[j] = "update" \/ (q[j] = "disconnect" /\ s = "redis")

ScriptOK(c) ==
    /\ stage[c] \in {"none", "refused"} =>
          todo[c] = <<>> /\ c \notin tracked /\ ~sess[c].ended
    /\ stage[c] \in {"auth", "open"} =>
          /\ ~sess[c].ended
          /\ \/ c \in tracked /\ Clean(todo[c])
             \/ /\ c \notin tracked
                /\ todo[c] # <<>> /\ Head(todo[c]) = "start" /\ Clean(Tail(todo[c]))
    /\ stage[c] = "closing" =>
          \/ c \in tracked /\ ~sess[c].ended /\ Ending(todo[c], svc[c])
          \/ c \notin tracked /\ sess[c].ended /\ Finishing(todo[c], svc[c])

SessInv ==
    /\ TypeOK
    /\ \A c \in Conns : ScriptOK(c)
    /\ \A c \in Conns : channels[c] > 0 => svc[c] = "ssh"

(***************************************************************************)
(* Why SessionOrder and RecordAgrees hold: which step may follow which in  *)
(* a script.  z stands for what comes after the last step of q.            *)
(***************************************************************************)
Follows(a, b, s) ==
    \/ a = "start" /\ b = "insert"
    \/ a = "insert" /\ b = IF s = "http" THEN "none" ELSE "connect"
    \/ a = "connect" /\ b \in {"loop", "none"}
    \/ a = "login" /\ b = IF s = "ssh" THEN "none" ELSE "setlogin"
    \/ a = "query" /\ b = "count"
    \/ a = "loop" /\ b = "none"
    \/ a = "disconnect" /\ b = IF s = "redis" THEN "none" ELSE "end"
    \/ a = "end" /\ b = "update"
    \/ a = "update" /\ b = IF s = "redis" THEN "disconnect" ELSE "none"
    \/ /\ a \in {"setlogin", "count", "command", "upload", "exploit", "scan", "request"}
       /\ b \notin {"start", "insert", "connect", "setlogin", "count"}

Chain(q, s, z) ==
    \A i \in 1..Len(q) : Follows(q[i], IF i < Len(q) THEN q[i + 1] ELSE z, s)

Avoids(q, bad) == \A i \in 1..Len(q) : q[i] \notin bad

Opening == {"start", "insert", "connect"}

(* The step the handler of c takes next, "none" when it waits or is gone. *)
Upcoming(c) == IF todo[c] = <<>> THEN "none" ELSE Head(todo[c])

ChainOK(c) ==
    /\ Chain(todo[c], svc[c], "none")
    /\ stage[c] \in {"auth", "open"} => Avoids(todo[c], {"disconnect", "update"})
    /\ stage[c] = "closing" => Avoids(todo[c], Opening \cup {"loop"})
    /\ svc[c] = "http" => Avoids(todo[c], {"connect", "disconnect"})

(* The connect event is the first, and no channel is opened before it; once *)
(* the disconnect event is out the handler has nothing more to publish.     *)
LogOK(c) ==
    /\ stage[c] \in {"none", "refused"} \/ Upcoming(c) \in Opening
          => log[c] = <<>> /\ channels[c] = 0
    /\ stage[c] \notin {"none", "refused"} /\ Upcoming(c) \notin Opening /\ svc[c] # "http"
          => log[c] # <<>>
    /\ \A i \in 1..Len(log[c]) :
          /\ log[c][i] = "connect" <=> i = 1 /\ svc[c] # "http"
          /\ log[c][i] = "disconnect" =>
                /\ stage[c] = "closing"
                /\ Upcoming(c) \in IF svc[c] = "redis" THEN {"none"} ELSE {"end", "update", "none"}
                /\ \A j \in (i + 1)..Len(log[c]) : svc[c] = "ssh" /\ log[c][j] = "command"

Queries(q) == {i \in 1..Len(q) : q[i] = "query"}

(* The session lags behind its events by the step the handler takes next.   *)
RecordOK(c) ==
    /\ sess[c].login \/ Upcoming(c) = "setlogin" => "login" \in Published(c)
    /\ "login" \in Published(c) =>
          sess[c].login \/ svc[c] = "ssh" \/ Upcoming(c) = "setlogin"
    /\ Cardinality(Queries(log[c])) = sess[c].commands + (IF Upcoming(c) = "count" THEN 1 ELSE 0)

EventsInv == \A c \in Conns : ChainOK(c) /\ LogOK(c) /\ RecordOK(c)

(* In an SSH session that got past its handshake the login is noted, or is  *)
(* about to be.                                                             *)
ShakenOK(c) ==
    /\ stage[c] \in {"none", "refused", "auth"} => c \notin shaken
    /\ svc[c] = "ssh" /\ c \in shaken => sess[c].login \/ Upcoming(c) = "setlogin"

ShakenInv == \A c \in Conns : ShakenOK(c)

(* What the implementation guide says: the end of a session is written to   *)
(* its row; here, while the process runs.                                   *)
SessionFlushed ==
    \A c \in Conns : Gone(c) /\ ctx = "live" => row[c] = "ended"
=============================================================================
