--------------------------- MODULE SessionsProofs ---------------------------
(***************************************************************************)
(* Theorems about Sessions, for any number of connections.                 *)
(***************************************************************************)
EXTENDS Sessions, FiniteSetTheorems, TLAPS

Plain == Steps \ {"start", "end"}
ScriptSet == {q \in Seq(Steps) : Clean(q)}

(* A short sequence of plain steps is a script without start and end. *)
LEMMA PlainScripts ==
    /\ <<>> \in ScriptSet
    /\ \A a \in Plain : <<a>> \in ScriptSet
    /\ \A a, b \in Plain : <<a, b>> \in ScriptSet
    /\ \A a, b, c \in Plain : <<a, b, c>> \in ScriptSet
    /\ \A a, b, c, d \in Plain : <<a, b, c, d>> \in ScriptSet
<1>0. Plain \subseteq Steps /\ \A a \in Plain : a \notin {"start", "end"}
  BY DEF Plain
<1>1. <<>> \in ScriptSet
  BY DEF ScriptSet, Clean
<1>2. ASSUME NEW a \in Plain PROVE <<a>> \in ScriptSet
  BY <1>0 DEF ScriptSet, Clean
<1>3. ASSUME NEW a \in Plain, NEW b \in Plain PROVE <<a, b>> \in ScriptSet
  BY <1>0 DEF ScriptSet, Clean
<1>4. ASSUME NEW a \in Plain, NEW b \in Plain, NEW c \in Plain
      PROVE <<a, b, c>> \in ScriptSet
  BY <1>0 DEF ScriptSet, Clean
<1>5. ASSUME NEW a \in Plain, NEW b \in Plain, NEW c \in Plain, NEW d \in Plain
      PROVE <<a, b, c, d>> \in ScriptSet
  BY <1>0 DEF ScriptSet, Clean
<1> QED BY <1>1, <1>2, <1>3, <1>4, <1>5

Inputs == [does : ScriptSet, next : {"auth", "open", "closing"}]

(* Every handler first starts its session and last ends it, once, and what  *)
(* it does in between neither starts nor ends it.                           *)
HandlerOK(h, s) ==
    /\ h.begin \in {"auth", "open"}
    /\ h.first \in Seq(Steps) /\ h.first # <<>>
    /\ Head(h.first) = "start" /\ Clean(Tail(h.first))
    /\ h.last \in Seq(Steps) /\ Ending(h.last, s)
    /\ h.auth \subseteq Inputs /\ h.open \subseteq Inputs

(* Does makes an input of a script. *)
LEMMA DoesInput ==
    ASSUME NEW q \in ScriptSet, NEW n \in {"auth", "open", "closing"}
    PROVE  Does(q, n) \in Inputs
BY DEF Does, Inputs

(* The steps the scripts are made of. *)
LEMMA PlainSteps == {"connect", "login", "command", "query", "exploit", "upload", "scan",
                     "request", "disconnect", "insert", "setlogin", "count", "loop", "update"}
                    \subseteq Plain
BY DEF Plain, Steps, EventSteps

(* The six handlers are well formed. *)
LEMMA HandlersOK == \A s \in Services : HandlerOK(Handler(s), s)
<1>1. HandlerOK(SSH, "ssh")
  <2>1. SSH.auth \subseteq Inputs /\ SSH.open \subseteq Inputs
    BY PlainScripts, PlainSteps, DoesInput DEF SSH
  <2> QED BY <2>1 DEF SSH, HandlerOK, Steps, EventSteps, Clean, Ending
<1>2. HandlerOK(FTP, "ftp")
  <2>1. FTP.auth \subseteq Inputs /\ FTP.open \subseteq Inputs
    BY PlainScripts, PlainSteps, DoesInput DEF FTP
  <2> QED BY <2>1 DEF FTP, HandlerOK, Steps, EventSteps, Clean, Ending
<1>3. HandlerOK(MySQL, "mysql")
  <2>1. MySQL.auth \subseteq Inputs /\ MySQL.open \subseteq Inputs
    BY PlainScripts, PlainSteps, DoesInput DEF MySQL
  <2> QED BY <2>1 DEF MySQL, HandlerOK, Steps, EventSteps, Clean, Ending
<1>4. HandlerOK(Redis, "redis")
  <2>1. Redis.auth \subseteq Inputs /\ Redis.open \subseteq Inputs
    BY PlainScripts, PlainSteps, DoesInput DEF Redis
  <2> QED BY <2>1 DEF Redis, HandlerOK, Steps, EventSteps, Clean, Ending
<1>5. HandlerOK(SMB, "smb")
  <2>1. SMB.auth \subseteq Inputs /\ SMB.open \subseteq Inputs
    BY PlainScripts, PlainSteps, DoesInput DEF SMB
  <2> QED BY <2>1 DEF SMB, HandlerOK, Steps, EventSteps, Clean, Ending
<1>6. HandlerOK(HTTP, "http")
  <2>1. HTTP.auth \subseteq Inputs /\ HTTP.open \subseteq Inputs
    BY PlainScripts, PlainSteps, DoesInput DEF HTTP
  <2> QED BY <2>1 DEF HTTP, HandlerOK, Steps, EventSteps, Clean, Ending
<1>7. /\ Handler("ssh") = SSH /\ Handler("ftp") = FTP /\ Handler("mysql") = MySQL
      /\ Handler("redis") = Redis /\ Handler("smb") = SMB /\ Handler("http") = HTTP
  BY DEF Handler
<1> QED BY <1>1, <1>2, <1>3, <1>4, <1>5, <1>6, <1>7 DEF Services
-----------------------------------------------------------------------------
(* What taking the first step off a script leaves. *)
LEMMA TailScript ==
    ASSUME NEW q \in Seq(Steps), q # <<>>, NEW s
    PROVE  /\ Head(q) \in Steps /\ Tail(q) \in Seq(Steps)
           /\ Clean(q) => Clean(Tail(q)) /\ Head(q) \notin {"start", "end"}
           /\ Finishing(q, s) => /\ Finishing(Tail(q), s)
                                 /\ Head(q) = "update" \/ (Head(q) = "disconnect" /\ s = "redis")
           /\ Ending(q, s) => IF Head(q) = "end" THEN Finishing(Tail(q), s)
                              ELSE Ending(Tail(q), s) /\ Head(q) # "start"
<1>1. /\ Len(q) \in Nat \ {0} /\ Tail(q) \in Seq(Steps) /\ Len(Tail(q)) = Len(q) - 1
      /\ Head(q) = q[1] /\ q[1] \in Steps
      /\ \A i \in 1..(Len(q) - 1) : Tail(q)[i] = q[i + 1]
  OBVIOUS
<1>2. Clean(q) => Clean(Tail(q)) /\ Head(q) \notin {"start", "end"}
  BY <1>1 DEF Clean
<1>3. Finishing(q, s) => /\ Finishing(Tail(q), s)
                         /\ Head(q) = "update" \/ (Head(q) = "disconnect" /\ s = "redis")
  BY <1>1 DEF Finishing
<1>4. ASSUME Ending(q, s)
      PROVE  IF Head(q) = "end" THEN Finishing(Tail(q), s)
             ELSE Ending(Tail(q), s) /\ Head(q) # "start"
  <2>1. PICK i \in 1..Len(q) :
            /\ q[i] = "end"
            /\ \A j \in 1..(i - 1) : q[j] \notin {"start", "end"}
            /\ \A j \in (i + 1)..Len(q) : q[j] = "update" \/ (q[j] = "disconnect" /\ s = "redis")
    BY <1>4 DEF Ending
  <2>2. CASE i = 1
    BY <1>1, <2>1, <2>2 DEF Finishing
  <2>3. CASE i # 1
    <3>1. /\ i - 1 \in 1..Len(Tail(q)) /\ Tail(q)[i - 1] = "end"
          /\ \A j \in 1..(i - 2) : Tail(q)[j] \notin {"start", "end"}
          /\ \A j \in i..Len(Tail(q)) :
                Tail(q)[j] = "update" \/ (Tail(q)[j] = "disconnect" /\ s = "redis")
      BY <1>1, <2>1, <2>3
    <3>2. Ending(Tail(q), s)
      BY <3>1, <1>1 DEF Ending
    <3> QED BY <3>2, <1>1, <2>1, <2>3
  <2> QED BY <2>2, <2>3
<1> QED BY <1>1, <1>2, <1>3, <1>4

(* A handler that leaves finishes its script and then runs its last steps. *)
LEMMA ThenLast ==
    ASSUME NEW q \in Seq(Steps), NEW r \in Seq(Steps), NEW s, Clean(q), Ending(r, s)
    PROVE  q \o r \in Seq(Steps) /\ Ending(q \o r, s)
<1>1. /\ q \o r \in Seq(Steps) /\ Len(q \o r) = Len(q) + Len(r)
      /\ \A i \in 1..Len(q) : (q \o r)[i] = q[i]
      /\ \A i \in (Len(q) + 1)..(Len(q) + Len(r)) : (q \o r)[i] = r[i - Len(q)]
      /\ Len(q) \in Nat /\ Len(r) \in Nat
  OBVIOUS
<1>2. PICK i \in 1..Len(r) :
          /\ r[i] = "end"
          /\ \A j \in 1..(i - 1) : r[j] \notin {"start", "end"}
          /\ \A j \in (i + 1)..Len(r) : r[j] = "update" \/ (r[j] = "disconnect" /\ s = "redis")
  BY DEF Ending
<1>3. Len(q) + i \in 1..Len(q \o r) /\ (q \o r)[Len(q) + i] = "end"
  BY <1>1, <1>2
<1>4. ASSUME NEW j \in 1..(Len(q) + i - 1) PROVE (q \o r)[j] \notin {"start", "end"}
  <2>1. CASE j \in 1..Len(q)
    BY <1>1, <2>1 DEF Clean
  <2>2. CASE j \in (Len(q) + 1)..(Len(q) + i - 1)
    <3>1. j - Len(q) \in 1..(i - 1) /\ (q \o r)[j] = r[j - Len(q)]
      BY <1>1, <1>2, <2>2
    <3> QED BY <3>1, <1>2
  <2> QED BY <1>1, <1>2, <2>1, <2>2
<1>5. ASSUME NEW j \in (Len(q) + i + 1)..Len(q \o r)
      PROVE  (q \o r)[j] = "update" \/ ((q \o r)[j] = "disconnect" /\ s = "redis")
  <2>1. j - Len(q) \in (i + 1)..Len(r) /\ (q \o r)[j] = r[j - Len(q)]
    BY <1>1, <1>2
  <2> QED BY <2>1, <1>2
<1>6. PICK k : k = Len(q) + i
  OBVIOUS
<1>7. /\ k \in 1..Len(q \o r) /\ (q \o r)[k] = "end"
      /\ \A j \in 1..(k - 1) : (q \o r)[j] \notin {"start", "end"}
      /\ \A j \in (k + 1)..Len(q \o r) :
            (q \o r)[j] = "update" \/ ((q \o r)[j] = "disconnect" /\ s = "redis")
  BY <1>3, <1>4, <1>5, <1>6
<1> QED BY <1>1, <1>7 DEF Ending
-----------------------------------------------------------------------------
(* The invariant holds before anything has happened. *)
LEMMA InitSessInv == Init => SessInv
<1> SUFFICES ASSUME Init PROVE SessInv
  OBVIOUS
<1> USE DEF Init
<1>1. TypeOK
  BY SessionsAssumption DEF TypeOK, Services
<1>2. ASSUME NEW c \in Conns PROVE ScriptOK(c)
  BY DEF ScriptOK
<1>3. ASSUME NEW c \in Conns PROVE channels[c] > 0 => svc[c] = "ssh"
  BY SessionsAssumption
<1> QED BY <1>1, <1>2, <1>3 DEF SessInv

(* A step of one connection leaves the others as they are. *)
LEMMA OthersOK ==
    ASSUME SessInv, NEW c \in Conns,
           \A d \in Conns \ {c} : /\ stage'[d] = stage[d] /\ todo'[d] = todo[d]
                                  /\ svc'[d] = svc[d] /\ sess'[d] = sess[d]
                                  /\ d \in tracked' <=> d \in tracked,
           ScriptOK(c)'
    PROVE  \A d \in Conns : ScriptOK(d)'
BY DEF SessInv, ScriptOK

(* The service of a connection whose handler runs is one of the six. *)
LEMMA HandlerKnown ==
    ASSUME SessInv, NEW c \in Conns, stage[c] # "none"
    PROVE  svc[c] \in Services /\ HandlerOK(Handler(svc[c]), svc[c])
BY SessionsAssumption, HandlersOK DEF SessInv, TypeOK

(* A service accepts, or refuses, a connection. *)
LEMMA AcceptStep ==
    ASSUME SessInv, NEW c \in Conns, NEW s \in Enabled, Accept(c, s)
    PROVE  SessInv'
<1>1. HandlerOK(Handler(s), s) /\ s \in Services
  BY SessionsAssumption, HandlersOK
<1>2. TypeOK'
  <2>1. s # "none" /\ s \in Enabled
    BY <1>1 DEF Services
  <2>2. svc' \in [Conns -> Enabled \cup {"none"}]
    BY DEF SessInv, TypeOK, Accept
  <2>3. stage' \in [Conns -> {"none", "refused", "auth", "open", "closing"}]
    BY <1>1 DEF SessInv, TypeOK, Accept, HandlerOK
  <2>4. todo' \in [Conns -> Seq(Steps)]
    BY <1>1 DEF SessInv, TypeOK, Accept, HandlerOK
  <2>5. ASSUME NEW d \in Conns PROVE svc'[d] = "none" <=> stage'[d] = "none"
    <3>1. Handler(s).begin # "none"
      BY <1>1 DEF HandlerOK
    <3>2. CASE d = c
      BY <2>1, <3>1, <3>2 DEF SessInv, TypeOK, Accept
    <3>3. CASE d # c
      <4>1. svc'[d] = svc[d] /\ stage'[d] = stage[d]
        BY <3>3 DEF SessInv, TypeOK, Accept
      <4> QED BY <4>1 DEF SessInv, TypeOK
    <3> QED BY <3>2, <3>3
  <2> QED BY <2>2, <2>3, <2>4, <2>5 DEF SessInv, TypeOK, Accept
<1>3. ScriptOK(c)'
  <2>1. /\ stage[c] = "none" /\ todo[c] = <<>> /\ c \notin tracked /\ ~sess[c].ended
        /\ tracked' = tracked /\ sess' = sess
    BY DEF SessInv, ScriptOK, Accept
  <2>2. \/ stage'[c] = Handler(s).begin /\ todo'[c] = Handler(s).first
        \/ stage'[c] = "refused" /\ todo'[c] = todo[c]
    BY DEF SessInv, TypeOK, Accept
  <2> QED BY <1>1, <2>1, <2>2 DEF ScriptOK, HandlerOK
<1>4. \A d \in Conns : ScriptOK(d)'
  BY <1>3, OthersOK DEF SessInv, TypeOK, Accept
<1>5. channels[c] = 0
  <2>1. svc[c] = "none" /\ channels[c] \in Nat
    BY DEF SessInv, TypeOK, Accept
  <2> QED BY <2>1 DEF SessInv
<1>6. ASSUME NEW d \in Conns PROVE channels'[d] > 0 => svc'[d] = "ssh"
  BY <1>5 DEF SessInv, TypeOK, Accept
<1> QED BY <1>2, <1>4, <1>6 DEF SessInv

(* The client makes the handler run a script. *)
LEMMA InputStep ==
    ASSUME SessInv, NEW c \in Conns, Input(c)
    PROVE  SessInv'
<1>1. HandlerOK(Handler(svc[c]), svc[c]) /\ svc[c] # "none" /\ stage[c] \in {"auth", "open"}
  BY HandlerKnown DEF Input, Waiting, SessInv, TypeOK
<1>2. PICK in \in Inputs :
         /\ stage' = [stage EXCEPT ![c] = in.next]
         /\ todo' = [todo EXCEPT ![c] = IF in.next = "closing"
                                        THEN in.does \o Handler(svc[c]).last ELSE in.does]
         /\ shaken' = IF stage[c] = "auth" /\ in.next = "open" THEN shaken \cup {c} ELSE shaken
  BY <1>1 DEF Input, HandlerOK
<1>3. /\ in.does \in Seq(Steps) /\ Clean(in.does) /\ in.next \in {"auth", "open", "closing"}
      /\ in.does \o Handler(svc[c]).last \in Seq(Steps)
      /\ Ending(in.does \o Handler(svc[c]).last, svc[c])
  BY <1>1, ThenLast DEF Inputs, ScriptSet, HandlerOK
<1>4. TypeOK'
  <2>1. shaken' \in SUBSET Conns
    BY <1>2 DEF SessInv, TypeOK
  <2>2. /\ stage' \in [Conns -> {"none", "refused", "auth", "open", "closing"}]
        /\ todo' \in [Conns -> Seq(Steps)]
        /\ UNCHANGED <<proc, ctx, running, svc, channels, tracked, sess, row, log>>
    BY <1>2, <1>3 DEF SessInv, TypeOK, Input
  <2>3. \A d \in Conns : svc'[d] = "none" <=> stage'[d] = "none"
    BY <1>1, <1>2, <1>3, <2>2 DEF SessInv, TypeOK
  <2> QED BY <2>1, <2>2, <2>3 DEF SessInv, TypeOK
<1>5. c \in tracked /\ ~sess[c].ended
  BY <1>1 DEF SessInv, ScriptOK, Input, Waiting
<1>6. ScriptOK(c)'
  BY <1>2, <1>3, <1>5 DEF SessInv, TypeOK, ScriptOK, Input
<1>7. \A d \in Conns : ScriptOK(d)'
  BY <1>2, <1>6, OthersOK DEF SessInv, TypeOK, Input
<1> QED BY <1>4, <1>7 DEF SessInv, Input

(* A handler that waits is on its way out. *)
LEMMA OutStep ==
    ASSUME SessInv, NEW c \in Conns, Out(c)
    PROVE  SessInv'
<1>1. HandlerOK(Handler(svc[c]), svc[c]) /\ svc[c] # "none" /\ stage[c] \in {"auth", "open"}
  BY HandlerKnown DEF Out, Waiting, SessInv, TypeOK
<1>2. TypeOK'
  BY <1>1 DEF SessInv, TypeOK, Out, HandlerOK
<1>3. c \in tracked /\ ~sess[c].ended
  BY <1>1 DEF SessInv, ScriptOK, Out, Waiting
<1>4. ScriptOK(c)'
  BY <1>1, <1>3 DEF SessInv, TypeOK, ScriptOK, Out, HandlerOK
<1>5. \A d \in Conns : ScriptOK(d)'
  BY <1>4, OthersOK DEF SessInv, TypeOK, Out
<1> QED BY <1>2, <1>5 DEF SessInv, Out

(* A step of a script that neither starts nor ends the session. *)
LEMMA GoOK ==
    ASSUME SessInv, NEW c \in Conns, todo[c] # <<>>, Head(todo[c]) \notin {"start", "end"},
           Go(c), UNCHANGED <<svc, stage, tracked>>,
           \A d \in Conns \ {c} : sess'[d] = sess[d], sess'[c].ended = sess[c].ended
    PROVE  todo' \in [Conns -> Seq(Steps)] /\ \A d \in Conns : ScriptOK(d)'
<1>1. todo[c] \in Seq(Steps)
  BY DEF SessInv, TypeOK
<1>2. todo' \in [Conns -> Seq(Steps)] /\ todo'[c] = Tail(todo[c])
  <2>1. Tail(todo[c]) \in Seq(Steps)
    BY <1>1, TailScript
  <2> QED BY <2>1 DEF SessInv, TypeOK, Go
<1>tail. /\ Clean(todo[c]) => Clean(Tail(todo[c]))
         /\ Finishing(todo[c], svc[c]) => Finishing(Tail(todo[c]), svc[c])
         /\ Ending(todo[c], svc[c]) => Ending(Tail(todo[c]), svc[c])
  BY <1>1, TailScript
<1>now. ScriptOK(c)
  BY DEF SessInv
<1>3. ScriptOK(c)'
  <2>1. CASE stage[c] \in {"none", "refused"}
    BY <1>now, <2>1 DEF ScriptOK
  <2>2. CASE stage[c] \in {"auth", "open"}
    <3>1. c \in tracked /\ ~sess[c].ended /\ Clean(Tail(todo[c]))
      BY <1>now, <1>tail, <2>2 DEF ScriptOK
    <3> QED BY <3>1, <1>2, <2>2 DEF ScriptOK
  <2>3. CASE stage[c] = "closing"
    <3>1. \/ c \in tracked /\ ~sess[c].ended /\ Ending(Tail(todo[c]), svc[c])
          \/ c \notin tracked /\ sess[c].ended /\ Finishing(Tail(todo[c]), svc[c])
      BY <1>now, <1>tail, <2>3 DEF ScriptOK
    <3>2. \/ c \in tracked' /\ ~sess'[c].ended /\ Ending(todo'[c], svc'[c])
          \/ c \notin tracked' /\ sess'[c].ended /\ Finishing(todo'[c], svc'[c])
      BY <3>1, <1>2
    <3>3. stage'[c] = "closing"
      BY <2>3
    <3> QED BY <3>2, <3>3 DEF ScriptOK
  <2> QED BY <2>1, <2>2, <2>3 DEF SessInv, TypeOK
<1>4. \A d \in Conns \ {c} : todo'[d] = todo[d]
  BY DEF SessInv, TypeOK, Go
<1>5. \A d \in Conns : ScriptOK(d)'
  BY <1>3, <1>4, OthersOK
<1> QED BY <1>2, <1>5

Records == [login : BOOLEAN, commands : Nat, arrays : {"nil", "set"}, ended : BOOLEAN]

(* Changing one field of one record. *)
LEMMA RecordUpdate ==
    ASSUME NEW r \in Records, NEW b \in BOOLEAN, NEW n \in Nat
    PROVE  /\ [r EXCEPT !.login = b] \in Records /\ [r EXCEPT !.login = b].ended = r.ended
           /\ [r EXCEPT !.commands = n] \in Records /\ [r EXCEPT !.commands = n].ended = r.ended
           /\ [r EXCEPT !.ended = b] \in Records /\ [r EXCEPT !.ended = b].ended = b
           /\ r.login \in BOOLEAN /\ r.commands \in Nat
<1>1. r = [login |-> r.login, commands |-> r.commands, arrays |-> r.arrays, ended |-> r.ended]
      /\ r.login \in BOOLEAN /\ r.commands \in Nat /\ r.arrays \in {"nil", "set"} /\ r.ended \in BOOLEAN
  BY DEF Records
<1>2. [r EXCEPT !.login = b] =
         [login |-> b, commands |-> r.commands, arrays |-> r.arrays, ended |-> r.ended]
  BY <1>1
<1>3. [r EXCEPT !.commands = n] =
         [login |-> r.login, commands |-> n, arrays |-> r.arrays, ended |-> r.ended]
  BY <1>1
<1>4. [r EXCEPT !.ended = b] =
         [login |-> r.login, commands |-> r.commands, arrays |-> r.arrays, ended |-> b]
  BY <1>1
<1> QED BY <1>1, <1>2, <1>3, <1>4 DEF Records

(* Changing the record of one connection. *)
LEMMA SessUpdate ==
    ASSUME NEW f \in [Conns -> Records], NEW c \in Conns, NEW r \in Records, NEW g,
           g = [f EXCEPT ![c] = r]
    PROVE  g \in [Conns -> Records] /\ g[c] = r /\ \A d \in Conns \ {c} : g[d] = f[d]
OBVIOUS

(* A step that changes neither the scripts nor what they depend on. *)
LEMMA SameScripts ==
    ASSUME SessInv, UNCHANGED <<svc, stage, todo, tracked, sess>>
    PROVE  \A c \in Conns : ScriptOK(c)'
BY DEF SessInv, ScriptOK

(* The session enters the map. *)
LEMMA StartStep ==
    ASSUME SessInv, NEW c \in Conns, Start(c)
    PROVE  SessInv'
<1>1. todo[c] \in Seq(Steps) /\ todo[c] # <<>> /\ Head(todo[c]) = "start"
  BY DEF SessInv, TypeOK, Start, Step
<1>2. /\ ~Clean(todo[c]) /\ ~Finishing(todo[c], svc[c])
      /\ ~Ending(todo[c], svc[c])
  BY <1>1, TailScript
<1>3. /\ stage[c] \in {"auth", "open"} /\ ~sess[c].ended /\ Clean(Tail(todo[c]))
  BY <1>1, <1>2 DEF SessInv, TypeOK, ScriptOK
<1>4. todo' \in [Conns -> Seq(Steps)] /\ todo'[c] = Tail(todo[c])
  BY <1>1, TailScript DEF SessInv, TypeOK, Start, Go
<1>5. TypeOK'
  BY <1>4 DEF SessInv, TypeOK, Start
<1>6. ScriptOK(c)'
  <2>1. c \in tracked' /\ stage' = stage /\ sess' = sess
    BY DEF Start
  <2> QED BY <1>3, <1>4, <2>1 DEF ScriptOK
<1>7. \A d \in Conns : ScriptOK(d)'
  BY <1>6, OthersOK DEF SessInv, TypeOK, Start, Go
<1> QED BY <1>5, <1>7 DEF SessInv, Start

(* The steps between: rows, events and the counters of the session. *)
LEMMA PlainStep ==
    ASSUME SessInv, NEW c \in Conns,
           InsertSession(c) \/ Publish(c) \/ SetLogin(c) \/ IncrCommandCount(c) \/ UpdateSession(c)
    PROVE  SessInv'
<1> USE DEF SessInv
<1>1. CASE InsertSession(c)
  <2>1. todo' \in [Conns -> Seq(Steps)] /\ \A d \in Conns : ScriptOK(d)'
    BY <1>1, GoOK DEF InsertSession, Step
  <2>2. row' \in [Conns -> {"none", "open", "ended"}]
    BY <1>1 DEF InsertSession, TypeOK
  <2> QED BY <1>1, <2>1, <2>2 DEF InsertSession, TypeOK
<1>2. CASE Publish(c)
  <2>1. todo' \in [Conns -> Seq(Steps)] /\ \A d \in Conns : ScriptOK(d)'
    BY <1>2, GoOK DEF Publish, Step, EventSteps
  <2>2. log' \in [Conns -> Seq(EventSteps)]
    <3>1. Head(todo[c]) \in EventSteps /\ log[c] \in Seq(EventSteps)
      BY <1>2 DEF Publish, TypeOK, Step
    <3>2. Append(log[c], Head(todo[c])) \in Seq(EventSteps)
      BY <3>1
    <3> QED BY <1>2, <3>2 DEF Publish, TypeOK
  <2> QED BY <1>2, <2>1, <2>2 DEF Publish, TypeOK
<1>3. CASE SetLogin(c)
  <2>1. /\ sess' \in [Conns -> Records]
        /\ sess'[c].ended = sess[c].ended
        /\ \A d \in Conns \ {c} : sess'[d] = sess[d]
    <3>1. sess \in [Conns -> Records]
      BY DEF TypeOK, Records
    <3>2. PICK b \in BOOLEAN : b = (c \in tracked \/ sess[c].login)
      OBVIOUS
    <3>3. sess' = [sess EXCEPT ![c] = [sess[c] EXCEPT !.login = b]]
      BY <1>3, <3>2 DEF SetLogin
    <3>4. [sess[c] EXCEPT !.login = b] \in Records /\ [sess[c] EXCEPT !.login = b].ended = sess[c].ended
      BY <3>1, RecordUpdate
    <3> QED BY <3>1, <3>3, <3>4, SessUpdate
  <2>2. todo' \in [Conns -> Seq(Steps)] /\ \A d \in Conns : ScriptOK(d)'
    BY <1>3, <2>1, GoOK DEF SetLogin, Step
  <2> QED BY <1>3, <2>1, <2>2 DEF SetLogin, TypeOK, Records
<1>4. CASE IncrCommandCount(c)
  <2>1. /\ sess' \in [Conns -> Records]
        /\ sess'[c].ended = sess[c].ended
        /\ \A d \in Conns \ {c} : sess'[d] = sess[d]
    <3>1. sess \in [Conns -> Records]
      BY DEF TypeOK, Records
    <3>2. PICK n \in Nat : n = IF c \in tracked THEN sess[c].commands + 1 ELSE sess[c].commands
      <4>1. sess[c].commands \in Nat
        BY <3>1 DEF Records
      <4> QED BY <4>1
    <3>3. sess' = [sess EXCEPT ![c] = [sess[c] EXCEPT !.commands = n]]
      BY <1>4, <3>2 DEF IncrCommandCount
    <3>4. /\ [sess[c] EXCEPT !.commands = n] \in Records
          /\ [sess[c] EXCEPT !.commands = n].ended = sess[c].ended
      BY <3>1, RecordUpdate
    <3> QED BY <3>1, <3>3, <3>4, SessUpdate
  <2>2. todo' \in [Conns -> Seq(Steps)] /\ \A d \in Conns : ScriptOK(d)'
    BY <1>4, <2>1, GoOK DEF IncrCommandCount, Step
  <2> QED BY <1>4, <2>1, <2>2 DEF IncrCommandCount, TypeOK, Records
<1>5. CASE UpdateSession(c)
  <2>1. todo' \in [Conns -> Seq(Steps)] /\ \A d \in Conns : ScriptOK(d)'
    BY <1>5, GoOK DEF UpdateSession, Step
  <2>2. row' \in [Conns -> {"none", "open", "ended"}]
    BY <1>5 DEF UpdateSession, TypeOK
  <2> QED BY <1>5, <2>1, <2>2 DEF UpdateSession, TypeOK
<1> QED BY <1>1, <1>2, <1>3, <1>4, <1>5

(* The head of a loop goes on, or leaves when the context is cancelled. *)
LEMMA LoopStep ==
    ASSUME SessInv, NEW c \in Conns, Loop(c)
    PROVE  SessInv'
<1>1. todo[c] \in Seq(Steps) /\ todo[c] # <<>> /\ Head(todo[c]) = "loop"
  BY DEF SessInv, TypeOK, Loop, Step
<1>2. CASE ctx = "live"
  <2>1. todo' \in [Conns -> Seq(Steps)] /\ \A d \in Conns : ScriptOK(d)'
    BY <1>1, <1>2, GoOK DEF Loop
  <2> QED BY <1>2, <2>1 DEF Loop, SessInv, TypeOK
<1>3. CASE ctx # "live"
  <2>1. ~Finishing(todo[c], svc[c])
    BY <1>1, TailScript
  <2>2. c \in tracked /\ ~sess[c].ended /\ stage[c] # "none"
    BY <1>1, <2>1 DEF SessInv, TypeOK, ScriptOK
  <2>3. HandlerOK(Handler(svc[c]), svc[c]) /\ svc[c] # "none"
    BY <2>2, HandlerKnown DEF SessInv, TypeOK
  <2>left. /\ todo' = [todo EXCEPT ![c] = Handler(svc[c]).last]
           /\ stage' = [stage EXCEPT ![c] = "closing"]
           /\ UNCHANGED <<proc, ctx, running, svc, channels, tracked, sess, row, log, shaken>>
    BY <1>3 DEF Loop
  <2>last. Handler(svc[c]).last \in Seq(Steps) /\ Ending(Handler(svc[c]).last, svc[c])
    BY <2>3 DEF HandlerOK
  <2>4. TypeOK'
    BY <2>2, <2>3, <2>left, <2>last DEF SessInv, TypeOK
  <2>5. ScriptOK(c)'
    BY <2>2, <2>left, <2>last DEF SessInv, TypeOK, ScriptOK
  <2>6. \A d \in Conns : ScriptOK(d)'
    BY <2>5, <2>left, OthersOK DEF SessInv, TypeOK
  <2> QED BY <2>4, <2>6 DEF Loop, SessInv
<1> QED BY <1>2, <1>3

(* The session leaves the map; the entry is always there. *)
LEMMA EndStep ==
    ASSUME SessInv, NEW c \in Conns, End(c)
    PROVE  SessInv'
<1>1. todo[c] \in Seq(Steps) /\ todo[c] # <<>> /\ Head(todo[c]) = "end"
  BY DEF SessInv, TypeOK, End, Step
<1>2. /\ ~Clean(todo[c]) /\ ~Finishing(todo[c], svc[c])
      /\ Ending(todo[c], svc[c]) => Finishing(Tail(todo[c]), svc[c])
      /\ Tail(todo[c]) \in Seq(Steps)
  BY <1>1, TailScript
<1>3. /\ stage[c] = "closing" /\ c \in tracked /\ Finishing(Tail(todo[c]), svc[c])
  BY <1>1, <1>2 DEF SessInv, TypeOK, ScriptOK
<1>4. /\ sess' \in [Conns -> Records]
      /\ sess'[c].ended
      /\ \A d \in Conns \ {c} : sess'[d] = sess[d]
  <2>1. sess \in [Conns -> Records]
    BY DEF SessInv, TypeOK, Records
  <2>2. sess' = [sess EXCEPT ![c] = [sess[c] EXCEPT !.ended = TRUE]]
    BY <1>3 DEF End
  <2>3. [sess[c] EXCEPT !.ended = TRUE] \in Records /\ [sess[c] EXCEPT !.ended = TRUE].ended
    BY <2>1, RecordUpdate
  <2> QED BY <2>1, <2>2, <2>3, SessUpdate
<1>5. /\ todo' \in [Conns -> Seq(Steps)] /\ todo'[c] = Tail(todo[c])
      /\ \A d \in Conns \ {c} : todo'[d] = todo[d]
  BY <1>2, <1>3 DEF End, Go, SessInv, TypeOK
<1>6. TypeOK'
  BY <1>4, <1>5 DEF End, SessInv, TypeOK, Records
<1>7. ScriptOK(c)'
  <2>1. c \notin tracked' /\ stage'[c] = "closing" /\ svc'[c] = svc[c]
    BY <1>3 DEF End
  <2>2. Finishing(todo'[c], svc'[c])
    BY <1>3, <1>5, <2>1
  <2> QED BY <1>4, <2>1, <2>2 DEF ScriptOK
<1>8. \A d \in Conns : ScriptOK(d)'
  BY <1>4, <1>5, <1>7, OthersOK DEF End
<1> QED BY <1>6, <1>8 DEF SessInv, End

(* The channels of an SSH connection come, publish and go. *)
LEMMA ChannelStep ==
    ASSUME SessInv, NEW c \in Conns, OpenChannel(c) \/ ChannelCommand(c) \/ ChannelEnd(c)
    PROVE  SessInv'
<1>1. \A d \in Conns : ScriptOK(d)'
  BY SameScripts DEF OpenChannel, ChannelCommand, ChannelEnd
<1>2. CASE OpenChannel(c)
  <2>1. channels' \in [Conns -> Nat] /\ \A d \in Conns : channels'[d] > 0 => svc'[d] = "ssh"
    <3>1. /\ channels \in [Conns -> Nat] /\ svc[c] = "ssh" /\ svc' = svc
          /\ channels' = [channels EXCEPT ![c] = channels[c] + 1]
          /\ \A d \in Conns : channels[d] > 0 => svc[d] = "ssh"
      BY <1>2 DEF OpenChannel, SessInv, TypeOK
    <3>2. channels[c] + 1 \in Nat
      BY <3>1
    <3> QED BY <3>1, <3>2
  <2> QED BY <1>1, <1>2, <2>1 DEF OpenChannel, SessInv, TypeOK
<1>3. CASE ChannelCommand(c)
  <2>1. log' \in [Conns -> Seq(EventSteps)]
    <3>1. "command" \in EventSteps /\ log[c] \in Seq(EventSteps)
      BY DEF SessInv, TypeOK, EventSteps
    <3>2. Append(log[c], "command") \in Seq(EventSteps)
      BY <3>1
    <3> QED BY <1>3, <3>2 DEF ChannelCommand, SessInv, TypeOK
  <2> QED BY <1>1, <1>3, <2>1 DEF ChannelCommand, SessInv, TypeOK
<1>4. CASE ChannelEnd(c)
  <2>1. channels' \in [Conns -> Nat] /\ \A d \in Conns : channels'[d] > 0 => svc'[d] = "ssh"
    <3>1. /\ channels \in [Conns -> Nat] /\ channels[c] > 0 /\ svc' = svc
          /\ channels' = [channels EXCEPT ![c] = channels[c] - 1]
          /\ \A d \in Conns : channels[d] > 0 => svc[d] = "ssh"
      BY <1>4 DEF ChannelEnd, SessInv, TypeOK
    <3>2. channels[c] - 1 \in Nat /\ svc[c] = "ssh"
      BY <3>1
    <3> QED BY <3>1, <3>2
  <2> QED BY <1>1, <1>4, <2>1 DEF ChannelEnd, SessInv, TypeOK
<1> QED BY <1>2, <1>3, <1>4

(* Stopping the process, and doing nothing, touch no session. *)
LEMMA StopStep ==
    ASSUME SessInv, Cancel \/ (\E s \in Enabled : ServiceReturns(s)) \/ Teardown
                    \/ UNCHANGED sessVars
    PROVE  SessInv'
<1>1. UNCHANGED <<svc, stage, todo, channels, tracked, sess, row, log, shaken>>
  BY DEF Cancel, ServiceReturns, Teardown, CloseStore, ShutdownBus, Exit, Deferred, sessVars
<1>2. \A d \in Conns : ScriptOK(d)'
  BY <1>1, SameScripts
<1>3. /\ proc' \in {"serving", "store closed", "bus closed", "exited"}
      /\ ctx' \in {"live", "cancelled"}
      /\ running' \in SUBSET Enabled
  BY DEF SessInv, TypeOK, Cancel, ServiceReturns, Teardown, CloseStore, ShutdownBus, Exit,
         Deferred, sessVars
<1> QED BY <1>1, <1>2, <1>3 DEF SessInv, TypeOK

(* Every step keeps the invariant. *)
LEMMA NextSessInv == SessInv /\ [Next]_sessVars => SessInv'
<1> SUFFICES ASSUME SessInv, [Next]_sessVars PROVE SessInv'
  OBVIOUS
<1>1. ASSUME NEW c \in Conns, NEW s \in Enabled, Accept(c, s) PROVE SessInv'
  BY <1>1, AcceptStep
<1>2. ASSUME NEW c \in Conns, Input(c) \/ Leave(c) \/ Deadline(c) \/ RedisClosed(c)
      PROVE  SessInv'
  BY <1>2, InputStep, OutStep DEF Leave, Deadline, RedisClosed
<1>3. ASSUME NEW c \in Conns, HandlerStep(c) PROVE SessInv'
  BY <1>3, StartStep, PlainStep, LoopStep, EndStep DEF HandlerStep
<1>4. ASSUME NEW c \in Conns, OpenChannel(c) \/ ChannelCommand(c) \/ ChannelEnd(c)
      PROVE  SessInv'
  BY <1>4, ChannelStep
<1>5. CASE Cancel \/ (\E s \in Enabled : ServiceReturns(s)) \/ Teardown \/ UNCHANGED sessVars
  BY <1>5, StopStep
<1> QED BY <1>1, <1>2, <1>3, <1>4, <1>5 DEF Next
-----------------------------------------------------------------------------
(* The shape of the scripts and its agreement with Tracker.sessions hold at *)
(* every moment.                                                            *)
THEOREM SessionsInvariant == Spec => []SessInv
BY InitSessInv, NextSessInv, PTL DEF Spec

(* Handlers, tracker, rows and events keep their types. *)
THEOREM SessionsTypeCorrect == Spec => []TypeOK
<1>1. SessInv => TypeOK
  BY DEF SessInv
<1> QED BY <1>1, SessionsInvariant, PTL

(* Tracker.sessions holds exactly the sessions between Start and End: no    *)
(* way out of any handler leaves one behind, and none is removed early.     *)
THEOREM TrackerIsExact == Spec => []NoSessionLeft
<1>1. SessInv => NoSessionLeft
  <2> SUFFICES ASSUME SessInv, NEW c \in Conns
               PROVE  c \in tracked <=> /\ stage[c] \in {"auth", "open", "closing"}
                                        /\ \A i \in DOMAIN todo[c] : todo[c][i] # "start"
                                        /\ ~sess[c].ended /\ ~Gone(c)
    BY DEF NoSessionLeft
  <2>1. /\ todo[c] \in Seq(Steps) /\ DOMAIN todo[c] = 1..Len(todo[c])
        /\ todo[c] # <<>> => Head(todo[c]) = todo[c][1] /\ 1 \in DOMAIN todo[c]
        /\ stage[c] \in {"none", "refused", "auth", "open", "closing"}
    <3>1. todo[c] \in Seq(Steps) /\ stage[c] \in {"none", "refused", "auth", "open", "closing"}
      BY DEF SessInv, TypeOK
    <3> QED BY <3>1
  <2>2. Ending(todo[c], svc[c]) => /\ todo[c] # <<>>
                                   /\ \A i \in DOMAIN todo[c] : todo[c][i] # "start"
    <3> SUFFICES ASSUME Ending(todo[c], svc[c])
                 PROVE  /\ todo[c] # <<>>
                        /\ \A i \in DOMAIN todo[c] : todo[c][i] # "start"
      OBVIOUS
    <3>1. PICK k \in 1..Len(todo[c]) :
              /\ todo[c][k] = "end"
              /\ \A j \in 1..(k - 1) : todo[c][j] \notin {"start", "end"}
              /\ \A j \in (k + 1)..Len(todo[c]) :
                    todo[c][j] = "update" \/ (todo[c][j] = "disconnect" /\ svc[c] = "redis")
      BY DEF Ending
    <3>2. ASSUME NEW i \in 1..Len(todo[c]) PROVE todo[c][i] # "start"
      <4>1. i \in 1..(k - 1) \/ i = k \/ i \in (k + 1)..Len(todo[c])
        BY <2>1
      <4> QED BY <3>1, <4>1
    <3> QED BY <2>1, <3>1, <3>2
  <2>3. Clean(todo[c]) => \A i \in DOMAIN todo[c] : todo[c][i] # "start"
    BY <2>1 DEF Clean
  <2>4. ScriptOK(c)
    BY DEF SessInv
  <2> QED BY <2>1, <2>2, <2>3, <2>4 DEF ScriptOK, Gone
<1> QED BY <1>1, SessionsInvariant, PTL

(* No handler publishes for a session it has not started or has ended, but  *)
(* for the disconnect of handleClose and the commands of SSH channels.      *)
THEOREM HandlersPublishWhileTracked == Spec => PublishedWhileTracked
<1> DEFINE Allowed(c) == \/ c \in tracked
                         \/ svc[c] = "redis" /\ log'[c] = Append(log[c], "disconnect")
                         \/ svc[c] = "ssh" /\ log'[c] = Append(log[c], "command")
<1>1. ASSUME SessInv, [Next]_sessVars
      PROVE  [\A c \in Conns : log'[c] # log[c] => Allowed(c)]_sessVars
  <2> SUFFICES ASSUME NEW c \in Conns, log'[c] # log[c] PROVE Allowed(c)
    OBVIOUS
  <2>1. Publish(c) \/ ChannelCommand(c)
    <3>1. log \in [Conns -> Seq(EventSteps)]
      BY <1>1 DEF SessInv, TypeOK
    <3>2. UNCHANGED log \/ \E d \in Conns : Publish(d) \/ ChannelCommand(d)
      BY <1>1 DEF Next, sessVars, Accept, Input, Leave, Deadline, RedisClosed, Out, HandlerStep,
         Start, InsertSession, SetLogin, IncrCommandCount, Loop, End, UpdateSession,
         OpenChannel, ChannelEnd, Cancel, ServiceReturns, Teardown, CloseStore, ShutdownBus,
         Exit, Deferred
    <3> QED BY <3>1, <3>2 DEF Publish, ChannelCommand
  <2>2. CASE Publish(c)
    <3>1. /\ todo[c] \in Seq(Steps) /\ todo[c] # <<>> /\ Head(todo[c]) \in EventSteps
          /\ log'[c] = Append(log[c], Head(todo[c]))
      BY <1>1, <2>2 DEF Publish, Step, SessInv, TypeOK
    <3>2. Head(todo[c]) # "start" /\ Head(todo[c]) # "update"
      BY <3>1 DEF EventSteps
    <3>3. Finishing(todo[c], svc[c]) => Head(todo[c]) = "disconnect" /\ svc[c] = "redis"
      BY <3>1, <3>2, TailScript
    <3>4. ScriptOK(c) /\ stage[c] \in {"none", "refused", "auth", "open", "closing"}
      BY <1>1 DEF SessInv, TypeOK
    <3> QED BY <3>1, <3>2, <3>3, <3>4 DEF ScriptOK
  <2>3. CASE ChannelCommand(c)
    BY <1>1, <2>3 DEF ChannelCommand, SessInv, TypeOK
  <2> QED BY <2>1, <2>2, <2>3
<1> QED BY <1>1, SessionsInvariant, PTL DEF Spec, PublishedWhileTracked
-----------------------------------------------------------------------------
First(q) == IF q = <<>> THEN "none" ELSE Head(q)

Leaves == Opening \cup {"loop"}

(* What an input makes a handler do, z being the first of its last steps.   *)
InputChain(in, s, z) ==
    /\ Chain(in.does, s, IF in.next = "closing" THEN z ELSE "none")
    /\ Avoids(in.does, Opening \cup {"disconnect", "update"})
    /\ in.next = "closing" => Avoids(in.does, {"loop"})
    /\ First(in.does) # "count"
    /\ First(in.does) = "setlogin" => s = "ssh" /\ in.does = <<"setlogin">>

HandlerChains(h, s) ==
    /\ Chain(h.first, s, "none") /\ Avoids(h.first, {"disconnect", "update"})
    /\ s = "http" => Avoids(h.first, {"connect", "disconnect"})
    /\ Chain(h.last, s, "none") /\ Avoids(h.last, Leaves \cup {"setlogin", "count"})
    /\ s = "http" => Avoids(h.last, {"connect", "disconnect"})
    /\ \A in \in h.auth \cup h.open : InputChain(in, s, Head(h.last))

(* The scripts of the six handlers have their steps in such an order.       *)
LEMMA AllChains == \A s \in Services : HandlerChains(Handler(s), s)
<1>1. HandlerChains(SSH, "ssh")
  BY DEF Chain, Follows, HandlerChains, InputChain, Avoids, Opening, Leaves, First, Does, SSH
<1>2. HandlerChains(Redis, "redis")
  BY DEF Chain, Follows, HandlerChains, InputChain, Avoids, Opening, Leaves, First, Does, Redis
<1>3. HandlerChains(SMB, "smb")
  BY DEF Chain, Follows, HandlerChains, InputChain, Avoids, Opening, Leaves, First, Does, SMB
<1>4. HandlerChains(HTTP, "http")
  BY DEF Chain, Follows, HandlerChains, InputChain, Avoids, Opening, Leaves, First, Does, HTTP
<1>5. HandlerChains(FTP, "ftp")
  <2> USE DEF Chain, Follows, Avoids, Opening, Leaves, First
  <2>0. FTP.last # <<>> /\ Head(FTP.last) = "disconnect"
    BY DEF FTP
  <2>1. InputChain(Does(<<"command", "loop">>, "open"), "ftp", "disconnect")
    BY DEF InputChain, Does
  <2>2. InputChain(Does(<<"command", "login", "setlogin", "loop">>, "open"), "ftp", "disconnect")
    BY DEF InputChain, Does
  <2>3. InputChain(Does(<<"command", "upload", "loop">>, "open"), "ftp", "disconnect")
    BY DEF InputChain, Does
  <2>4. InputChain(Does(<<"command">>, "closing"), "ftp", "disconnect")
    BY DEF InputChain, Does
  <2> QED BY <2>0, <2>1, <2>2, <2>3, <2>4 DEF FTP, HandlerChains
<1>6. HandlerChains(MySQL, "mysql")
  <2> USE DEF Chain, Follows, Avoids, Opening, Leaves, First
  <2>0. MySQL.last # <<>> /\ Head(MySQL.last) = "disconnect"
    BY DEF MySQL
  <2>1. InputChain(Does(<<"login", "setlogin", "loop">>, "open"), "mysql", "disconnect")
    BY DEF InputChain, Does
  <2>2. InputChain(Does(<<"login", "setlogin">>, "closing"), "mysql", "disconnect")
    BY DEF InputChain, Does
  <2>3. InputChain(Does(<<"loop">>, "open"), "mysql", "disconnect")
    BY DEF InputChain, Does
  <2>4. InputChain(Does(<<"command", "loop">>, "open"), "mysql", "disconnect")
    BY DEF InputChain, Does
  <2>5. InputChain(Does(<<"query", "count", "loop">>, "open"), "mysql", "disconnect")
    BY DEF InputChain, Does
  <2>6. InputChain(Does(<<>>, "closing"), "mysql", "disconnect")
    BY DEF InputChain, Does
  <2> QED BY <2>0, <2>1, <2>2, <2>3, <2>4, <2>5, <2>6 DEF MySQL, HandlerChains
<1>7. /\ Handler("ssh") = SSH /\ Handler("ftp") = FTP /\ Handler("mysql") = MySQL
      /\ Handler("redis") = Redis /\ Handler("smb") = SMB /\ Handler("http") = HTTP
  BY DEF Handler
<1> QED BY <1>1, <1>2, <1>3, <1>4, <1>5, <1>6, <1>7 DEF Services
-----------------------------------------------------------------------------
(* Taking the first step off a script, *)
LEMMA ChainTail ==
    ASSUME NEW q \in Seq(Steps), q # <<>>, NEW s, Chain(q, s, "none")
    PROVE  /\ Chain(Tail(q), s, "none") /\ Follows(Head(q), First(Tail(q)), s)
           /\ \A bad : Avoids(q, bad) => Avoids(Tail(q), bad) /\ Head(q) \notin bad
<1>1. /\ Len(q) \in Nat \ {0} /\ Tail(q) \in Seq(Steps) /\ Len(Tail(q)) = Len(q) - 1
      /\ Head(q) = q[1]
      /\ \A i \in 1..(Len(q) - 1) : Tail(q)[i] = q[i + 1]
  OBVIOUS
<1>2. Chain(Tail(q), s, "none")
  BY <1>1 DEF Chain
<1>3. Follows(Head(q), First(Tail(q)), s)
  <2>1. CASE Tail(q) = <<>>
    <3>1. PICK t \in Seq(Steps) : t = Tail(q)
      BY <1>1
    <3>2. PICK n : n = Len(q)
      OBVIOUS
    <3>4. Len(t) = 0
      BY <2>1, <3>1
    <3>5. n - 1 = 0 /\ n \in Nat
      BY <1>1, <3>1, <3>2, <3>4
    <3>6. 1 \in 1..n /\ ~(1 < n)
      BY <3>5
    <3>3. Follows(q[1], "none", s)
      BY <3>2, <3>6 DEF Chain
    <3> QED BY <1>1, <2>1, <3>3 DEF First
  <2>2. CASE Tail(q) # <<>>
    <3>1. Head(Tail(q)) = Tail(q)[1] /\ Len(Tail(q)) > 0
      BY <1>1, <2>2
    <3>2. 1 \in 1..Len(q) /\ 1 < Len(q) /\ 1 \in 1..(Len(q) - 1)
      BY <1>1, <3>1
    <3>3. Follows(q[1], q[1 + 1], s) /\ Tail(q)[1] = q[1 + 1]
      BY <1>1, <3>2 DEF Chain
    <3> QED BY <1>1, <2>2, <3>1, <3>3 DEF First
  <2> QED BY <2>1, <2>2
<1>4. ASSUME NEW bad, Avoids(q, bad) PROVE Avoids(Tail(q), bad) /\ Head(q) \notin bad
  BY <1>1, <1>4 DEF Avoids
<1> QED BY <1>2, <1>3, <1>4

(* and putting the last steps of a handler after one. *)
LEMMA ChainThen ==
    ASSUME NEW q \in Seq(Steps), NEW r \in Seq(Steps), r # <<>>, NEW s,
           Chain(q, s, Head(r)), Chain(r, s, "none")
    PROVE  /\ Chain(q \o r, s, "none")
           /\ \A bad : Avoids(q, bad) /\ Avoids(r, bad) => Avoids(q \o r, bad)
           /\ First(q \o r) = IF q = <<>> THEN Head(r) ELSE First(q)
<1>1. /\ q \o r \in Seq(Steps) /\ Len(q \o r) = Len(q) + Len(r)
      /\ \A i \in 1..Len(q) : (q \o r)[i] = q[i]
      /\ \A i \in (Len(q) + 1)..(Len(q) + Len(r)) : (q \o r)[i] = r[i - Len(q)]
      /\ Len(q) \in Nat /\ Len(r) \in Nat \ {0} /\ Head(r) = r[1]
  OBVIOUS
<1>2. ASSUME NEW i \in 1..Len(q \o r)
      PROVE  Follows((q \o r)[i], IF i < Len(q \o r) THEN (q \o r)[i + 1] ELSE "none", s)
  <2>1. CASE i < Len(q)
    <3>1. (q \o r)[i] = q[i] /\ (q \o r)[i + 1] = q[i + 1] /\ i < Len(q \o r) /\ i \in 1..Len(q)
      BY <1>1, <2>1
    <3> QED BY <2>1, <3>1 DEF Chain
  <2>2. CASE i = Len(q)
    <3>1. (q \o r)[i] = q[i] /\ (q \o r)[i + 1] = Head(r) /\ i < Len(q \o r) /\ i \in 1..Len(q)
      BY <1>1, <2>2
    <3> QED BY <2>2, <3>1 DEF Chain
  <2>3. CASE i > Len(q)
    <3>1. PICK k : k = i - Len(q)
      OBVIOUS
    <3>2. /\ k \in 1..Len(r) /\ (q \o r)[i] = r[k]
          /\ (i < Len(q \o r)) <=> (k < Len(r))
      BY <1>1, <2>3, <3>1
    <3>3. Follows(r[k], IF k < Len(r) THEN r[k + 1] ELSE "none", s)
      BY <3>2 DEF Chain
    <3>4. CASE k < Len(r)
      <4>1. (q \o r)[i + 1] = r[k + 1]
        BY <1>1, <2>3, <3>1, <3>4
      <4> QED BY <3>2, <3>3, <3>4, <4>1
    <3>5. CASE ~(k < Len(r))
      BY <3>2, <3>3, <3>5
    <3> QED BY <3>4, <3>5
  <2> QED BY <1>1, <2>1, <2>2, <2>3
<1>3. ASSUME NEW bad, Avoids(q, bad), Avoids(r, bad), NEW i \in 1..Len(q \o r)
      PROVE  (q \o r)[i] \notin bad
  <2>1. CASE i \in 1..Len(q)
    BY <1>1, <1>3, <2>1 DEF Avoids
  <2>2. CASE i \notin 1..Len(q)
    <3>1. i - Len(q) \in 1..Len(r) /\ (q \o r)[i] = r[i - Len(q)]
      BY <1>1, <2>2
    <3> QED BY <1>3, <3>1 DEF Avoids
  <2> QED BY <2>1, <2>2
<1>4. First(q \o r) = IF q = <<>> THEN Head(r) ELSE First(q)
  <2>1. q \o r # <<>> /\ Head(q \o r) = (q \o r)[1]
    BY <1>1
  <2>2. CASE q = <<>>
    BY <1>1, <2>1, <2>2 DEF First
  <2>3. CASE q # <<>>
    BY <1>1, <2>1, <2>3 DEF First
  <2> QED BY <2>2, <2>3
<1> QED BY <1>2, <1>3, <1>4 DEF Chain, Avoids

(* The first step of a script is one of its steps. *)
LEMMA FirstStep ==
    ASSUME NEW q \in Seq(Steps), NEW bad, Avoids(q, bad), "none" \notin bad
    PROVE  First(q) \notin bad
<1>1. q # <<>> => 1 \in 1..Len(q) /\ Head(q) = q[1]
  OBVIOUS
<1> QED BY <1>1 DEF First, Avoids

(* M has one more event than L. *)
Grown(L, e, M) ==
    /\ Len(M) = Len(L) + 1 /\ Len(L) \in Nat /\ M[Len(L) + 1] = e /\ M # <<>>
    /\ \A i \in 1..Len(L) : M[i] = L[i]
    /\ {M[i] : i \in DOMAIN M} = {L[i] : i \in DOMAIN L} \cup {e}
    /\ Cardinality(Queries(L)) \in Nat
    /\ Cardinality(Queries(M)) = Cardinality(Queries(L)) + (IF e = "query" THEN 1 ELSE 0)

(* That is what Append does. *)
LEMMA LogGrows ==
    ASSUME NEW L \in Seq(EventSteps), NEW e \in EventSteps, NEW M, M = Append(L, e)
    PROVE  Grown(L, e, M)
<1>1. /\ Len(M) = Len(L) + 1 /\ Len(L) \in Nat /\ M[Len(L) + 1] = e /\ M # <<>>
      /\ \A i \in 1..Len(L) : M[i] = L[i]
      /\ DOMAIN M = 1..(Len(L) + 1) /\ DOMAIN L = 1..Len(L)
  OBVIOUS
<1>2. {M[i] : i \in DOMAIN M} = {L[i] : i \in DOMAIN L} \cup {e}
  BY <1>1
<1>3. /\ Queries(M) = Queries(L) \cup (IF e = "query" THEN {Len(L) + 1} ELSE {})
      /\ Len(L) + 1 \notin Queries(L)
  BY <1>1 DEF Queries
<1>4. IsFiniteSet(Queries(L)) /\ Cardinality(Queries(L)) \in Nat
  <2>1. IsFiniteSet(1..Len(L)) /\ Queries(L) \subseteq 1..Len(L)
    BY <1>1, FS_Interval DEF Queries
  <2> QED BY <2>1, FS_Subset, FS_CardinalityType
<1>5. Cardinality(Queries(M)) = Cardinality(Queries(L)) + (IF e = "query" THEN 1 ELSE 0)
  <2>1. CASE e = "query"
    <3>1. Queries(M) = Queries(L) \cup {Len(L) + 1}
      BY <1>3, <2>1
    <3> QED BY <1>3, <1>4, <2>1, <3>1, FS_AddElement
  <2>2. CASE e # "query"
    BY <1>3, <1>4, <2>2
  <2> QED BY <2>1, <2>2
<1> QED BY <1>1, <1>2, <1>4, <1>5 DEF Grown
-----------------------------------------------------------------------------
(* A step of one connection leaves the events of the others as they are.    *)
LEMMA EventsElsewhere ==
    ASSUME EventsInv, NEW c \in Conns,
           \A d \in Conns \ {c} : /\ stage'[d] = stage[d] /\ todo'[d] = todo[d]
                                  /\ svc'[d] = svc[d] /\ sess'[d] = sess[d]
                                  /\ channels'[d] = channels[d] /\ log'[d] = log[d],
           ChainOK(c)', LogOK(c)', RecordOK(c)'
    PROVE  EventsInv'
<1>1. ASSUME NEW d \in Conns, d # c PROVE ChainOK(d)' /\ LogOK(d)' /\ RecordOK(d)'
  <2>1. /\ stage'[d] = stage[d] /\ todo'[d] = todo[d]
        /\ svc'[d] = svc[d] /\ sess'[d] = sess[d]
        /\ channels'[d] = channels[d] /\ log'[d] = log[d]
    BY <1>1
  <2>2. ChainOK(d) /\ LogOK(d) /\ RecordOK(d)
    BY DEF EventsInv
  <2>3. Upcoming(d)' = Upcoming(d) /\ Published(d)' = Published(d)
    BY <2>1 DEF Upcoming, Published
  <2> QED BY <2>1, <2>2, <2>3 DEF ChainOK, LogOK, RecordOK
<1> QED BY <1>1 DEF EventsInv

(* Steps that touch no session, and new channels, which only come once the  *)
(* connect event is out.                                                    *)
LEMMA EventsSame ==
    ASSUME EventsInv, UNCHANGED <<stage, todo, svc, sess, log>>,
           \A c \in Conns : channels'[c] = channels[c] \/ channels[c] > 0
                            \/ (stage[c] = "open" /\ Upcoming(c) = "none")
    PROVE  EventsInv'
<1>1. ASSUME NEW d \in Conns PROVE ChainOK(d)' /\ LogOK(d)' /\ RecordOK(d)'
  <2>1. ChainOK(d) /\ LogOK(d) /\ RecordOK(d)
    BY DEF EventsInv
  <2>2. Upcoming(d)' = Upcoming(d) /\ Published(d)' = Published(d)
    BY DEF Upcoming, Published
  <2>3. ChainOK(d)' /\ RecordOK(d)'
    BY <2>1, <2>2 DEF ChainOK, RecordOK
  <2>4. LogOK(d)'
    BY <2>1, <2>2 DEF LogOK, Opening
  <2> QED BY <2>3, <2>4
<1> QED BY <1>1 DEF EventsInv

(* What follows a step that publishes and one that does not.                *)
LEMMA NextStep ==
    ASSUME NEW a \in Steps, NEW b, NEW s, Follows(a, b, s)
    PROVE  /\ a \in EventSteps =>
                 /\ b \notin Opening
                 /\ b = "setlogin" => a = "login"
                 /\ a = "login" => s = "ssh" \/ b = "setlogin"
                 /\ b = "count" <=> a = "query"
                 /\ a = "disconnect" => b = IF s = "redis" THEN "none" ELSE "end"
           /\ a \notin EventSteps =>
                 /\ b \in Opening => a \in Opening
                 /\ a \in Opening /\ s # "http" => b \in Opening
                 /\ b # "setlogin" /\ b # "count"
                 /\ a = "end" => b = "update"
                 /\ a = "update" /\ s # "redis" => b = "none"
<1>1. CASE a \in EventSteps
  BY <1>1 DEF Follows, EventSteps, Opening
<1>2. CASE a \notin EventSteps
  <2>1. a \in {"start", "insert", "setlogin", "count", "loop", "end", "update"}
    BY <1>2 DEF Steps
  <2> QED BY <1>2, <2>1 DEF Follows, Opening
<1> QED BY <1>1, <1>2

(* What the invariants say of a handler that has a step to take.            *)
LEMMA Stepping ==
    ASSUME SessInv, EventsInv, NEW c \in Conns, todo[c] # <<>>, Go(c)
    PROVE  /\ Head(todo[c]) \in Steps /\ Upcoming(c) = Head(todo[c])
           /\ stage[c] \in {"auth", "open", "closing"}
           /\ todo'[c] = Tail(todo[c]) /\ \A d \in Conns \ {c} : todo'[d] = todo[d]
           /\ Upcoming(c)' = First(Tail(todo[c]))
           /\ Follows(Head(todo[c]), First(Tail(todo[c])), svc[c])
           /\ stage[c] \in {"auth", "open"} => Head(todo[c]) # "disconnect"
           /\ svc[c] = "http" => Head(todo[c]) # "connect"
           /\ stage'[c] = stage[c] /\ svc'[c] = svc[c] => ChainOK(c)'
<1>1. /\ todo[c] \in Seq(Steps) /\ stage[c] \in {"none", "refused", "auth", "open", "closing"}
      /\ todo \in [Conns -> Seq(Steps)]
  BY DEF SessInv, TypeOK
<1>2. stage[c] \in {"auth", "open", "closing"}
  BY <1>1 DEF SessInv, ScriptOK
<1>3. Head(todo[c]) \in Steps
  BY <1>1
<1>4. todo'[c] = Tail(todo[c]) /\ \A d \in Conns \ {c} : todo'[d] = todo[d]
  BY <1>1 DEF Go
<1>5. Upcoming(c)' = First(Tail(todo[c])) /\ Upcoming(c) = Head(todo[c])
  BY <1>4 DEF Upcoming, First
<1>6. ChainOK(c)
  BY DEF EventsInv
<1>7. /\ Chain(Tail(todo[c]), svc[c], "none")
      /\ Follows(Head(todo[c]), First(Tail(todo[c])), svc[c])
      /\ \A bad : Avoids(todo[c], bad) => Avoids(Tail(todo[c]), bad) /\ Head(todo[c]) \notin bad
  <2>1. Chain(todo[c], svc[c], "none")
    BY <1>6 DEF ChainOK
  <2> QED BY <1>1, <2>1, ChainTail
<1>8. stage'[c] = stage[c] /\ svc'[c] = svc[c] => ChainOK(c)'
  BY <1>4, <1>6, <1>7 DEF ChainOK
<1>9. /\ stage[c] \in {"auth", "open"} => Head(todo[c]) # "disconnect"
      /\ svc[c] = "http" => Head(todo[c]) # "connect"
  BY <1>6, <1>7 DEF ChainOK
<1> QED BY <1>2, <1>3, <1>4, <1>5, <1>7, <1>8, <1>9

(* A step that publishes nothing. *)
LEMMA QuietEvents ==
    ASSUME SessInv, EventsInv, NEW c \in Conns, todo[c] # <<>>,
           Head(todo[c]) \notin EventSteps, Go(c),
           UNCHANGED <<stage, svc, channels, log>>,
           \A d \in Conns \ {c} : sess'[d] = sess[d],
           sess'[c].login <=> sess[c].login \/ Head(todo[c]) = "setlogin",
           sess'[c].commands = sess[c].commands + (IF Head(todo[c]) = "count" THEN 1 ELSE 0)
    PROVE  EventsInv'
<1>1. PICK a \in Steps : a = Head(todo[c])
  BY Stepping
<1>2. PICK b : b = First(Tail(todo[c]))
  OBVIOUS
<1>3. /\ Upcoming(c) = a /\ Upcoming(c)' = b /\ Follows(a, b, svc[c])
      /\ a \notin EventSteps /\ stage[c] \in {"auth", "open", "closing"} /\ ChainOK(c)'
  BY <1>1, <1>2, Stepping
<1>4. LogOK(c) /\ RecordOK(c)
  BY DEF EventsInv
<1>5. /\ b \in Opening => a \in Opening
      /\ a \in Opening /\ svc[c] # "http" => b \in Opening
      /\ b # "setlogin" /\ b # "count"
      /\ a = "end" => b = "update"
      /\ a = "update" /\ svc[c] # "redis" => b = "none"
  BY <1>3, NextStep
<1>6. LogOK(c)'
  <2>1. a # "none"
    BY DEF Steps, EventSteps
  <2>2. stage'[c] \in {"none", "refused"} \/ b \in Opening => log[c] = <<>> /\ channels[c] = 0
    BY <1>3, <1>4, <1>5 DEF LogOK
  <2>3. b \notin Opening /\ svc[c] # "http" => log[c] # <<>>
    BY <1>3, <1>4, <1>5 DEF LogOK
  <2>4. ASSUME NEW i \in 1..Len(log[c])
        PROVE  /\ log[c][i] = "connect" <=> i = 1 /\ svc[c] # "http"
               /\ log[c][i] = "disconnect" =>
                     /\ stage[c] = "closing"
                     /\ b \in IF svc[c] = "redis" THEN {"none"} ELSE {"end", "update", "none"}
                     /\ \A j \in (i + 1)..Len(log[c]) : svc[c] = "ssh" /\ log[c][j] = "command"
    BY <1>3, <1>4, <1>5, <2>1 DEF LogOK
  <2> QED BY <1>3, <2>2, <2>3, <2>4 DEF LogOK
<1>7. RecordOK(c)'
  <2>1. Published(c)' = Published(c)
    BY DEF Published
  <2>2. /\ sess'[c].login => "login" \in Published(c)
        /\ "login" \in Published(c) => sess'[c].login \/ svc[c] = "ssh"
    BY <1>1, <1>3, <1>4 DEF RecordOK
  <2>3. Cardinality(Queries(log[c])) = sess'[c].commands
    BY <1>1, <1>3, <1>4 DEF RecordOK
  <2>4. sess[c].commands \in Nat
    BY DEF SessInv, TypeOK
  <2>5. sess'[c].commands \in Nat
    BY <2>4
  <2> QED BY <1>3, <1>5, <2>1, <2>2, <2>3, <2>5 DEF RecordOK
<1> QED BY <1>3, <1>6, <1>7, Stepping, EventsElsewhere

(* A step that publishes an event. *)
LEMMA PublishEvents ==
    ASSUME SessInv, EventsInv, NEW c \in Conns, Publish(c)
    PROVE  EventsInv'
<1>0. /\ todo[c] # <<>> /\ Go(c) /\ UNCHANGED <<stage, svc, channels, sess>>
      /\ log' = [log EXCEPT ![c] = Append(@, Head(todo[c]))]
  BY DEF Publish, Step
<1>1. PICK a \in EventSteps : a = Head(todo[c])
  BY DEF Publish, Step
<1>2. PICK b : b = First(Tail(todo[c]))
  OBVIOUS
<1>3. /\ Upcoming(c) = a /\ Upcoming(c)' = b /\ Follows(a, b, svc[c]) /\ a \in Steps
      /\ stage[c] \in {"auth", "open", "closing"} /\ ChainOK(c)'
      /\ stage[c] \in {"auth", "open"} => a # "disconnect"
      /\ svc[c] = "http" => a # "connect"
  BY <1>0, <1>1, <1>2, Stepping
<1>4. LogOK(c) /\ RecordOK(c)
  BY DEF EventsInv
<1>5. /\ b \notin Opening
      /\ b = "setlogin" => a = "login"
      /\ a = "login" => svc[c] = "ssh" \/ b = "setlogin"
      /\ b = "count" <=> a = "query"
      /\ a = "disconnect" => b = IF svc[c] = "redis" THEN "none" ELSE "end"
  BY <1>3, NextStep
<1>6. PICK L \in Seq(EventSteps) : L = log[c]
  BY DEF SessInv, TypeOK
<1>7. PICK M : M = Append(L, a)
  OBVIOUS
<1>8. log'[c] = M /\ \A d \in Conns \ {c} : log'[d] = log[d]
  BY <1>0, <1>1, <1>6, <1>7 DEF SessInv, TypeOK
<1>9. /\ Len(M) = Len(L) + 1 /\ Len(L) \in Nat /\ M[Len(L) + 1] = a /\ M # <<>>
      /\ \A i \in 1..Len(L) : M[i] = L[i]
      /\ {M[i] : i \in DOMAIN M} = {L[i] : i \in DOMAIN L} \cup {a}
      /\ Cardinality(Queries(L)) \in Nat
      /\ Cardinality(Queries(M)) = Cardinality(Queries(L)) + (IF a = "query" THEN 1 ELSE 0)
  <2>1. Grown(L, a, M)
    BY <1>7, LogGrows
  <2> QED BY <2>1 DEF Grown
<1>10. LogOK(c)'
  <2>1. a \notin {"end", "update", "none", "start", "insert"}
    BY DEF EventSteps
  <2>2. ASSUME NEW i \in 1..Len(M)
        PROVE  /\ M[i] = "connect" <=> i = 1 /\ svc[c] # "http"
               /\ M[i] = "disconnect" =>
                     /\ stage[c] = "closing"
                     /\ b \in IF svc[c] = "redis" THEN {"none"} ELSE {"end", "update", "none"}
                     /\ \A j \in (i + 1)..Len(M) : svc[c] = "ssh" /\ M[j] = "command"
    <3>1. CASE i \in 1..Len(L)
      <4>1. M[i] = L[i] /\ (L[i] = "connect" <=> i = 1 /\ svc[c] # "http")
        BY <1>4, <1>6, <1>9, <3>1 DEF LogOK
      <4>2. L[i] # "disconnect"
        BY <1>3, <1>4, <1>6, <2>1, <3>1 DEF LogOK
      <4> QED BY <4>1, <4>2
    <3>2. CASE i = Len(L) + 1
      <4>1. M[i] = a /\ ~(\E j \in (i + 1)..Len(M) : TRUE)
        BY <1>9, <3>2
      <4>2. (i = 1) <=> (L = <<>>)
        BY <1>9, <3>2
      <4>3. a = "connect" => L = <<>> /\ svc[c] # "http"
        BY <1>3, <1>4, <1>6 DEF LogOK, Opening
      <4>4. L = <<>> /\ svc[c] # "http" => a = "connect"
        BY <1>3, <1>4, <1>6, <2>1 DEF LogOK, Opening
      <4>5. a = "disconnect" =>
               /\ stage[c] = "closing"
               /\ b \in IF svc[c] = "redis" THEN {"none"} ELSE {"end", "update", "none"}
        BY <1>3, <1>5
      <4> QED BY <4>1, <4>2, <4>3, <4>4, <4>5
    <3> QED BY <1>9, <3>1, <3>2
  <2>3. stage'[c] = stage[c] /\ svc'[c] = svc[c]
    BY <1>0
  <2> QED BY <1>3, <1>5, <1>8, <1>9, <2>2, <2>3 DEF LogOK
<1>11. RecordOK(c)'
  <2>1. Published(c)' = Published(c) \cup {a}
    BY <1>6, <1>8, <1>9 DEF Published
  <2>2. /\ sess'[c].login \/ b = "setlogin" => "login" \in Published(c) \cup {a}
        /\ "login" \in Published(c) \cup {a} =>
              sess'[c].login \/ svc[c] = "ssh" \/ b = "setlogin"
    <3>1. a # "setlogin" /\ sess'[c] = sess[c]
      BY <1>0 DEF EventSteps
    <3> QED BY <1>3, <1>4, <1>5, <3>1 DEF RecordOK
  <2>3. Cardinality(Queries(M)) = sess'[c].commands + (IF b = "count" THEN 1 ELSE 0)
    <3>1. a # "count" /\ sess'[c] = sess[c]
      BY <1>0 DEF EventSteps
    <3>2. sess[c].commands \in Nat
      BY DEF SessInv, TypeOK
    <3>3. Cardinality(Queries(L)) = sess[c].commands
      BY <1>3, <1>4, <1>6, <3>1, <3>2 DEF RecordOK
    <3> QED BY <1>5, <1>9, <3>1, <3>3
  <2>4. svc'[c] = svc[c]
    BY <1>0
  <2> QED BY <1>3, <1>8, <2>1, <2>2, <2>3, <2>4 DEF RecordOK
<1>12. \A d \in Conns \ {c} : /\ stage'[d] = stage[d] /\ todo'[d] = todo[d]
                              /\ svc'[d] = svc[d] /\ sess'[d] = sess[d]
                              /\ channels'[d] = channels[d] /\ log'[d] = log[d]
  BY <1>0, <1>8, Stepping
<1> QED BY <1>3, <1>10, <1>11, <1>12, EventsElsewhere

(* The goroutines of a channel publish a command. *)
LEMMA ChannelEvents ==
    ASSUME SessInv, EventsInv, NEW c \in Conns, ChannelCommand(c)
    PROVE  EventsInv'
<1>0. /\ UNCHANGED <<stage, svc, channels, sess, todo>> /\ channels[c] > 0
      /\ log' = [log EXCEPT ![c] = Append(@, "command")]
  BY DEF ChannelCommand
<1>1. svc[c] = "ssh"
  BY <1>0 DEF SessInv
<1>2. ChainOK(c) /\ LogOK(c) /\ RecordOK(c)
  BY DEF EventsInv
<1>3. Upcoming(c)' = Upcoming(c)
  BY <1>0 DEF Upcoming
<1>4. PICK L \in Seq(EventSteps) : L = log[c]
  BY DEF SessInv, TypeOK
<1>5. PICK M : M = Append(L, "command")
  OBVIOUS
<1>6. log'[c] = M /\ \A d \in Conns \ {c} : log'[d] = log[d]
  BY <1>0, <1>4, <1>5 DEF SessInv, TypeOK
<1>7. Grown(L, "command", M)
  BY <1>5, LogGrows DEF EventSteps
<1>8. stage[c] \notin {"none", "refused"} /\ Upcoming(c) \notin Opening /\ L # <<>>
  BY <1>0, <1>1, <1>2, <1>4 DEF LogOK
<1>9. LogOK(c)'
  <2>1. ASSUME NEW i \in 1..Len(M)
        PROVE  /\ M[i] = "connect" <=> i = 1 /\ svc[c] # "http"
               /\ M[i] = "disconnect" =>
                     /\ stage[c] = "closing"
                     /\ Upcoming(c) \in IF svc[c] = "redis" THEN {"none"}
                                        ELSE {"end", "update", "none"}
                     /\ \A j \in (i + 1)..Len(M) : svc[c] = "ssh" /\ M[j] = "command"
    <3>1. CASE i \in 1..Len(L)
      <4>1. M[i] = L[i] /\ (L[i] = "connect" <=> i = 1 /\ svc[c] # "http")
        BY <1>2, <1>4, <1>7, <3>1 DEF LogOK, Grown
      <4>2. L[i] = "disconnect" =>
                     /\ stage[c] = "closing"
                     /\ Upcoming(c) \in IF svc[c] = "redis" THEN {"none"}
                                        ELSE {"end", "update", "none"}
                     /\ \A j \in (i + 1)..Len(L) : L[j] = "command"
        BY <1>2, <1>4, <3>1 DEF LogOK
      <4>3. ASSUME L[i] = "disconnect", NEW j \in (i + 1)..Len(M) PROVE M[j] = "command"
        <5>1. /\ Len(M) = Len(L) + 1 /\ Len(L) \in Nat /\ M[Len(L) + 1] = "command"
              /\ \A k \in 1..Len(L) : M[k] = L[k]
          BY <1>7 DEF Grown
        <5>2. j = Len(L) + 1 \/ (j \in (i + 1)..Len(L) /\ j \in 1..Len(L))
          BY <3>1, <5>1
        <5> QED BY <4>2, <4>3, <5>1, <5>2
      <4> QED BY <1>1, <4>1, <4>2, <4>3
    <3>2. CASE i = Len(L) + 1
      <4>1. M[i] = "command" /\ i # 1
        BY <1>7, <1>8, <3>2 DEF Grown
      <4> QED BY <4>1
    <3> QED BY <1>7, <3>1, <3>2 DEF Grown
  <2>2. stage'[c] = stage[c] /\ svc'[c] = svc[c] /\ M # <<>>
    BY <1>0, <1>7 DEF Grown
  <2> QED BY <1>3, <1>6, <1>8, <2>1, <2>2 DEF LogOK
<1>10. RecordOK(c)'
  <2>1. Published(c)' = Published(c) \cup {"command"}
    BY <1>4, <1>6, <1>7 DEF Published, Grown
  <2>2. Cardinality(Queries(M)) = Cardinality(Queries(L))
    BY <1>7 DEF Grown
  <2>3. sess'[c] = sess[c] /\ svc'[c] = svc[c]
    BY <1>0
  <2> QED BY <1>2, <1>3, <1>4, <1>6, <2>1, <2>2, <2>3 DEF RecordOK
<1>11. ChainOK(c)'
  BY <1>0, <1>2 DEF ChainOK
<1> QED BY <1>0, <1>6, <1>9, <1>10, <1>11, EventsElsewhere
-----------------------------------------------------------------------------
(* A handler that waits, or heads its loop, is given the script q. *)
LEMMA NewScript ==
    ASSUME SessInv, EventsInv, NEW c \in Conns, stage[c] \in {"auth", "open"},
           Upcoming(c) \in {"none", "loop"},
           NEW q \in Seq(Steps), NEW st \in {"auth", "open", "closing"},
           Chain(q, svc[c], "none"),
           st # "closing" => Avoids(q, {"disconnect", "update"}),
           st = "closing" => Avoids(q, Leaves),
           svc[c] = "http" => Avoids(q, {"connect", "disconnect"}),
           First(q) \notin Opening, First(q) # "count",
           First(q) = "setlogin" => "login" \in Published(c),
           stage' = [stage EXCEPT ![c] = st], todo' = [todo EXCEPT ![c] = q],
           UNCHANGED <<svc, channels, sess, log>>
    PROVE  EventsInv'
<1>1. /\ stage'[c] = st /\ todo'[c] = q
      /\ \A d \in Conns \ {c} : stage'[d] = stage[d] /\ todo'[d] = todo[d]
  BY DEF SessInv, TypeOK
<1>2. Upcoming(c)' = First(q)
  BY <1>1 DEF Upcoming, First
<1>3. LogOK(c) /\ RecordOK(c)
  BY DEF EventsInv
<1>4. ChainOK(c)'
  BY <1>1 DEF ChainOK, Leaves
<1>5. LogOK(c)'
  <2>1. Upcoming(c) \notin Opening
    BY DEF Opening
  <2>2. svc[c] # "http" => log[c] # <<>>
    BY <1>3, <2>1 DEF LogOK
  <2>3. \A i \in 1..Len(log[c]) :
          /\ log[c][i] = "connect" <=> i = 1 /\ svc[c] # "http"
          /\ log[c][i] # "disconnect"
    BY <1>3 DEF LogOK
  <2> QED BY <1>1, <1>2, <2>2, <2>3 DEF LogOK
<1>6. RecordOK(c)'
  <2>1. Published(c)' = Published(c)
    BY DEF Published
  <2>2. /\ sess[c].login => "login" \in Published(c)
        /\ "login" \in Published(c) => sess[c].login \/ svc[c] = "ssh"
    BY <1>3 DEF RecordOK
  <2>3. Cardinality(Queries(log[c])) = sess[c].commands + 0
    BY <1>3 DEF RecordOK
  <2> QED BY <1>2, <2>1, <2>2, <2>3 DEF RecordOK
<1> QED BY <1>1, <1>4, <1>5, <1>6, EventsElsewhere

(* What is known of the script a handler leaves with. *)
LEMMA LastChain ==
    ASSUME SessInv, NEW c \in Conns, stage[c] # "none"
    PROVE  LET r == Handler(svc[c]).last IN
             /\ r \in Seq(Steps) /\ r # <<>> /\ Chain(r, svc[c], "none")
             /\ Avoids(r, Leaves) /\ First(r) = Head(r)
             /\ svc[c] = "http" => Avoids(r, {"connect", "disconnect"})
             /\ First(r) \notin Opening \cup {"count", "setlogin"}
<1>1. HandlerOK(Handler(svc[c]), svc[c]) /\ HandlerChains(Handler(svc[c]), svc[c])
  BY HandlerKnown, AllChains
<1>2. PICK r \in Seq(Steps) : r = Handler(svc[c]).last
  BY <1>1 DEF HandlerOK
<1>3. /\ Chain(r, svc[c], "none") /\ Avoids(r, Leaves \cup {"setlogin", "count"})
      /\ svc[c] = "http" => Avoids(r, {"connect", "disconnect"})
  BY <1>1, <1>2 DEF HandlerChains
<1>4. r # <<>>
  <2>1. Len(r) # 0
    <3>1. PICK i \in 1..Len(r) : r[i] = "end"
      BY <1>1, <1>2 DEF HandlerOK, Ending
    <3> QED BY <3>1
  <2> QED BY <2>1
<1>5. Avoids(r, Leaves)
  BY <1>3 DEF Avoids
<1>6. First(r) \notin Leaves \cup {"setlogin", "count"}
  BY <1>2, <1>3, FirstStep DEF Leaves, Opening
<1> QED BY <1>2, <1>3, <1>4, <1>5, <1>6 DEF First, Leaves

(* The handler is on its way out: its client has left or is given up, or    *)
(* the loop has seen the context end.                                       *)
LEMMA OutEvents ==
    ASSUME SessInv, EventsInv, NEW c \in Conns, stage[c] \in {"auth", "open"},
           Upcoming(c) \in {"none", "loop"},
           stage' = [stage EXCEPT ![c] = "closing"],
           todo' = [todo EXCEPT ![c] = Handler(svc[c]).last],
           UNCHANGED <<svc, channels, sess, log>>
    PROVE  EventsInv'
<1>1. PICK r : r = Handler(svc[c]).last
  OBVIOUS
<1>2. /\ r \in Seq(Steps) /\ Chain(r, svc[c], "none") /\ Avoids(r, Leaves)
      /\ svc[c] = "http" => Avoids(r, {"connect", "disconnect"})
      /\ First(r) \notin Opening /\ First(r) # "count" /\ First(r) # "setlogin"
  BY <1>1, LastChain
<1>3. todo' = [todo EXCEPT ![c] = r]
  BY <1>1
<1> QED BY <1>2, <1>3, NewScript

(* The client makes the handler run a script. *)
LEMMA InputEvents ==
    ASSUME SessInv, EventsInv, NEW c \in Conns, Input(c)
    PROVE  EventsInv'
<1>1. /\ stage[c] \in {"auth", "open"} /\ Upcoming(c) = "none"
      /\ UNCHANGED <<svc, channels, sess, log>>
  BY DEF Input, Waiting, Upcoming
<1>2. HandlerOK(Handler(svc[c]), svc[c]) /\ HandlerChains(Handler(svc[c]), svc[c])
  BY <1>1, HandlerKnown, AllChains
<1>3. PICK in \in Handler(svc[c]).auth \cup Handler(svc[c]).open :
         /\ svc[c] = "ssh" /\ in.does = <<"setlogin">> => "login" \in Published(c)
         /\ stage' = [stage EXCEPT ![c] = in.next]
         /\ todo' = [todo EXCEPT ![c] = IF in.next = "closing"
                                        THEN in.does \o Handler(svc[c]).last ELSE in.does]
  BY DEF Input
<1>4. in.does \in Seq(Steps) /\ in.next \in {"auth", "open", "closing"}
  BY <1>2, <1>3 DEF HandlerOK, Inputs, ScriptSet
<1>5. PICK q \in Seq(Steps), st \in {"auth", "open", "closing"} : q = in.does /\ st = in.next
  BY <1>4
<1>6. PICK r : r = Handler(svc[c]).last
  OBVIOUS
<1>7. /\ r \in Seq(Steps) /\ r # <<>> /\ Chain(r, svc[c], "none")
      /\ Avoids(r, Leaves) /\ First(r) = Head(r)
      /\ svc[c] = "http" => Avoids(r, {"connect", "disconnect"})
      /\ First(r) \notin Opening /\ First(r) # "count" /\ First(r) # "setlogin"
  BY <1>1, <1>6, LastChain
<1>8. /\ Chain(q, svc[c], IF st = "closing" THEN Head(r) ELSE "none")
      /\ Avoids(q, Opening \cup {"disconnect", "update"})
      /\ st = "closing" => Avoids(q, {"loop"})
      /\ First(q) # "count"
      /\ First(q) = "setlogin" => svc[c] = "ssh" /\ q = <<"setlogin">>
  BY <1>2, <1>3, <1>5, <1>6 DEF HandlerChains, InputChain
<1>9. /\ Avoids(q, {"disconnect", "update"}) /\ Avoids(q, {"connect", "disconnect"})
      /\ st = "closing" => Avoids(q, Leaves)
  BY <1>8 DEF Avoids, Opening, Leaves
<1>10. First(q) \notin Opening
  BY <1>8, FirstStep DEF Opening
<1>11. First(q) = "setlogin" => "login" \in Published(c)
  BY <1>3, <1>5, <1>8
<1>12. CASE st = "closing"
  <2>1. PICK w : w = q \o r
    OBVIOUS
  <2>2. w \in Seq(Steps) /\ todo' = [todo EXCEPT ![c] = w] /\ stage' = [stage EXCEPT ![c] = st]
    BY <1>3, <1>5, <1>6, <1>7, <1>12, <2>1
  <2>3. Chain(q, svc[c], Head(r))
    BY <1>8, <1>12
  <2>4. /\ Chain(w, svc[c], "none")
        /\ \A bad : Avoids(q, bad) /\ Avoids(r, bad) => Avoids(w, bad)
        /\ First(w) = IF q = <<>> THEN Head(r) ELSE First(q)
    BY <1>7, <2>1, <2>3, ChainThen
  <2>5. /\ Avoids(w, Leaves)
        /\ svc[c] = "http" => Avoids(w, {"connect", "disconnect"})
    BY <1>7, <1>9, <1>12, <2>4
  <2>6. /\ First(w) \notin Opening /\ First(w) # "count"
        /\ First(w) = "setlogin" => "login" \in Published(c)
    BY <1>7, <1>8, <1>10, <1>11, <2>4
  <2> QED BY <1>1, <1>12, <2>2, <2>4, <2>5, <2>6, NewScript
<1>13. CASE st # "closing"
  <2>1. todo' = [todo EXCEPT ![c] = q] /\ stage' = [stage EXCEPT ![c] = st]
    BY <1>3, <1>5, <1>13
  <2>2. Chain(q, svc[c], "none")
    BY <1>8, <1>13
  <2> QED BY <1>1, <1>8, <1>9, <1>10, <1>11, <1>13, <2>1, <2>2, NewScript
<1> QED BY <1>12, <1>13

(* A service accepts, or refuses, a connection. *)
LEMMA AcceptEvents ==
    ASSUME SessInv, EventsInv, NEW c \in Conns, NEW s \in Enabled, Accept(c, s)
    PROVE  EventsInv'
<1>1. HandlerOK(Handler(s), s) /\ HandlerChains(Handler(s), s)
  BY SessionsAssumption, HandlersOK, AllChains
<1>2. /\ stage[c] = "none" /\ todo[c] = <<>> /\ UNCHANGED <<channels, sess, log>>
      /\ svc'[c] = s
      /\ \A d \in Conns \ {c} : stage'[d] = stage[d] /\ todo'[d] = todo[d] /\ svc'[d] = svc[d]
      /\ \/ stage'[c] = Handler(s).begin /\ todo'[c] = Handler(s).first
         \/ stage'[c] = "refused" /\ todo'[c] = <<>>
  <2>1. stage[c] = "none" /\ todo[c] = <<>> /\ UNCHANGED <<channels, sess, log>>
    BY DEF Accept, SessInv, ScriptOK
  <2>2. /\ svc'[c] = s
        /\ \A d \in Conns \ {c} : stage'[d] = stage[d] /\ todo'[d] = todo[d] /\ svc'[d] = svc[d]
    BY DEF Accept, SessInv, TypeOK
  <2>3. \/ stage'[c] = Handler(s).begin /\ todo'[c] = Handler(s).first
        \/ stage'[c] = "refused" /\ todo'[c] = todo[c]
    BY DEF Accept, SessInv, TypeOK
  <2> QED BY <2>1, <2>2, <2>3
<1>3. LogOK(c) /\ RecordOK(c)
  BY DEF EventsInv
<1>4. log[c] = <<>> /\ channels[c] = 0
  BY <1>2, <1>3 DEF LogOK
<1>5. ChainOK(c)'
  <2>1. CASE stage'[c] = "refused" /\ todo'[c] = <<>>
    BY <1>2, <2>1 DEF ChainOK, Chain, Avoids
  <2>2. CASE stage'[c] = Handler(s).begin /\ todo'[c] = Handler(s).first
    <3>1. Handler(s).begin # "closing"
      BY <1>1 DEF HandlerOK
    <3> QED BY <1>1, <1>2, <2>2, <3>1 DEF ChainOK, HandlerChains
  <2> QED BY <1>2, <2>1, <2>2
<1>6. \/ stage'[c] = "refused" /\ Upcoming(c)' = "none"
      \/ stage'[c] \in {"auth", "open"} /\ Upcoming(c)' = "start"
  BY <1>1, <1>2 DEF HandlerOK, Upcoming
<1>7. LogOK(c)'
  BY <1>2, <1>4, <1>6 DEF LogOK, Opening
<1>8. RecordOK(c)'
  <2>1. Published(c) = {} /\ Published(c)' = Published(c)
    BY <1>2, <1>4 DEF Published
  <2>2. Upcoming(c) = "none"
    BY <1>2 DEF Upcoming
  <2>3. /\ ~sess[c].login
        /\ Cardinality(Queries(log[c])) = sess[c].commands + 0
    BY <1>3, <2>1, <2>2 DEF RecordOK
  <2> QED BY <1>2, <1>6, <2>1, <2>3 DEF RecordOK
<1> QED BY <1>2, <1>5, <1>7, <1>8, EventsElsewhere

(* A step of a script. *)
LEMMA HandlerEvents ==
    ASSUME SessInv, EventsInv, NEW c \in Conns, HandlerStep(c)
    PROVE  EventsInv'
<1>0. PICK a : a = Head(todo[c])
  OBVIOUS
<1>1. PICK r \in Records : r = sess[c]
  BY DEF SessInv, TypeOK, Records
<1>2. r.login \in BOOLEAN /\ r.commands \in Nat
  BY DEF Records
<1>3. CASE Publish(c)
  BY <1>3, PublishEvents
<1>4. ASSUME todo[c] # <<>>, a \in {"start", "insert", "loop", "end", "update"}, Go(c),
             UNCHANGED <<stage, svc, channels, log>>,
             \A d \in Conns \ {c} : sess'[d] = sess[d],
             sess'[c].login = r.login, sess'[c].commands = r.commands
      PROVE  EventsInv'
  <2>1. /\ a \notin EventSteps
        /\ sess'[c].login <=> sess[c].login \/ a = "setlogin"
        /\ sess'[c].commands = sess[c].commands + (IF a = "count" THEN 1 ELSE 0)
    BY <1>1, <1>2, <1>4 DEF EventSteps
  <2> QED BY <1>0, <1>4, <2>1, QuietEvents
<1>5. CASE Start(c) \/ InsertSession(c) \/ UpdateSession(c)
  BY <1>0, <1>1, <1>4, <1>5 DEF Start, InsertSession, UpdateSession, Step
<1>6. CASE Loop(c)
  <2>1. /\ todo[c] # <<>> /\ a = "loop" /\ UNCHANGED <<svc, channels, sess, log>>
    BY <1>0, <1>6 DEF Loop, Step
  <2>2. CASE ctx = "live"
    BY <1>1, <1>4, <1>6, <2>1, <2>2 DEF Loop
  <2>3. CASE ctx # "live"
    <3>1. /\ stage' = [stage EXCEPT ![c] = "closing"]
          /\ todo' = [todo EXCEPT ![c] = Handler(svc[c]).last]
      BY <1>6, <2>3 DEF Loop
    <3>2. Upcoming(c) = "loop"
      BY <1>0, <2>1 DEF Upcoming
    <3>3. stage[c] \in {"auth", "open"}
      <4>1. /\ stage[c] \in {"none", "refused", "auth", "open", "closing"}
            /\ todo[c] \in Seq(Steps)
        BY DEF SessInv, TypeOK
      <4>2. stage[c] \notin {"none", "refused"}
        BY <2>1 DEF SessInv, ScriptOK
      <4>3. stage[c] # "closing"
        <5>1. stage[c] = "closing" => Avoids(todo[c], {"loop"})
          BY DEF EventsInv, ChainOK, Avoids
        <5>2. 1 \in 1..Len(todo[c]) /\ todo[c][1] = "loop"
          BY <1>0, <2>1, <4>1
        <5> QED BY <5>1, <5>2 DEF Avoids
      <4> QED BY <4>1, <4>2, <4>3
    <3> QED BY <2>1, <3>1, <3>2, <3>3, OutEvents
  <2> QED BY <2>2, <2>3
<1>7. CASE End(c)
  <2>1. /\ todo[c] # <<>> /\ a = "end" /\ UNCHANGED <<stage, svc, channels, log>>
    BY <1>0, <1>7 DEF End, Step
  <2>2. c \in tracked
    <3>1. /\ stage[c] \in {"none", "refused", "auth", "open", "closing"}
          /\ todo[c] \in Seq(Steps) /\ ScriptOK(c)
      BY DEF SessInv, TypeOK
    <3>2. /\ ~Finishing(todo[c], svc[c])
          /\ 1 \in 1..Len(todo[c]) /\ todo[c][1] = "end"
      <4>1. 1 \in 1..Len(todo[c]) /\ todo[c][1] = "end"
        BY <1>0, <2>1, <3>1
      <4> QED BY <4>1 DEF Finishing
    <3> QED BY <1>0, <2>1, <3>1, <3>2 DEF ScriptOK
  <2>3. PICK e : e = [r EXCEPT !.ended = TRUE]
    OBVIOUS
  <2>4. e.login = r.login /\ e.commands = r.commands
    BY <2>3 DEF Records
  <2>5. sess' = [sess EXCEPT ![c] = e] /\ Go(c)
    BY <1>1, <1>7, <2>2, <2>3 DEF End
  <2>6. sess'[c] = e /\ \A d \in Conns \ {c} : sess'[d] = sess[d]
    BY <2>5 DEF SessInv, TypeOK
  <2> QED BY <1>4, <2>1, <2>4, <2>5, <2>6
<1>8. ASSUME todo[c] # <<>>, a \in {"setlogin", "count"} PROVE c \in tracked
  <2>1. /\ stage[c] \in {"none", "refused", "auth", "open", "closing"}
        /\ todo[c] \in Seq(Steps) /\ ScriptOK(c)
    BY DEF SessInv, TypeOK
  <2>2. ~Finishing(todo[c], svc[c])
    <3>1. 1 \in 1..Len(todo[c]) /\ todo[c][1] = a
      BY <1>0, <1>8, <2>1
    <3> QED BY <1>8, <3>1 DEF Finishing
  <2> QED BY <1>0, <1>8, <2>1, <2>2 DEF ScriptOK
<1>9. CASE SetLogin(c)
  <2>1. /\ todo[c] # <<>> /\ a = "setlogin" /\ Go(c) /\ UNCHANGED <<stage, svc, channels, log>>
    BY <1>0, <1>9 DEF SetLogin, Step
  <2>2. PICK b : b = (c \in tracked \/ sess[c].login)
    OBVIOUS
  <2>3. PICK e : e = [r EXCEPT !.login = b]
    OBVIOUS
  <2>4. b
    BY <1>8, <2>1, <2>2
  <2>5. e.login = b /\ e.commands = r.commands
    BY <2>3 DEF Records
  <2>6. sess' = [sess EXCEPT ![c] = e]
    BY <1>1, <1>9, <2>2, <2>3 DEF SetLogin
  <2>7. sess'[c] = e /\ \A d \in Conns \ {c} : sess'[d] = sess[d]
    BY <2>6 DEF SessInv, TypeOK
  <2>8. sess'[c].login
    BY <2>4, <2>5, <2>7
  <2>9. /\ a \notin EventSteps
        /\ sess'[c].commands = sess[c].commands + (IF a = "count" THEN 1 ELSE 0)
    BY <1>1, <1>2, <2>1, <2>5, <2>7 DEF EventSteps
  <2> QED BY <1>0, <2>1, <2>7, <2>8, <2>9, QuietEvents
<1>10. CASE IncrCommandCount(c)
  <2>1. /\ todo[c] # <<>> /\ a = "count" /\ Go(c) /\ UNCHANGED <<stage, svc, channels, log>>
    BY <1>0, <1>10 DEF IncrCommandCount, Step
  <2>2. PICK n : n = r.commands + 1
    OBVIOUS
  <2>3. PICK e : e = [r EXCEPT !.commands = n]
    OBVIOUS
  <2>4. c \in tracked
    BY <1>8, <2>1
  <2>5. e.login = r.login /\ e.commands = n
    BY <2>3 DEF Records
  <2>6. sess' = [sess EXCEPT ![c] = e]
    BY <1>1, <1>10, <2>2, <2>3, <2>4 DEF IncrCommandCount
  <2>7. sess'[c] = e /\ \A d \in Conns \ {c} : sess'[d] = sess[d]
    BY <2>6 DEF SessInv, TypeOK
  <2>8. /\ a \notin EventSteps /\ a # "setlogin"
        /\ sess'[c].commands = sess[c].commands + (IF a = "count" THEN 1 ELSE 0)
        /\ sess'[c].login = sess[c].login
    BY <1>1, <1>2, <2>1, <2>2, <2>5, <2>7 DEF EventSteps
  <2> QED BY <1>0, <2>1, <2>7, <2>8, QuietEvents
<1> QED BY <1>3, <1>5, <1>6, <1>7, <1>9, <1>10 DEF HandlerStep

(* A channel is opened or closed, or the process is stopped. *)
LEMMA OtherEvents ==
    ASSUME SessInv, EventsInv,
           \/ \E c \in Conns : OpenChannel(c) \/ ChannelEnd(c)
           \/ Cancel \/ (\E s \in Enabled : ServiceReturns(s)) \/ Teardown
           \/ UNCHANGED sessVars
    PROVE  EventsInv'
<1>1. ASSUME NEW c \in Conns, OpenChannel(c) \/ ChannelEnd(c) PROVE EventsInv'
  <2>1. /\ UNCHANGED <<stage, todo, svc, sess, log>>
        /\ channels[c] > 0 \/ (stage[c] = "open" /\ Upcoming(c) = "none")
    BY <1>1 DEF OpenChannel, ChannelEnd, Waiting, Upcoming
  <2>2. \A d \in Conns \ {c} : channels'[d] = channels[d]
    BY <1>1 DEF OpenChannel, ChannelEnd, SessInv, TypeOK
  <2> QED BY <2>1, <2>2, EventsSame
<1>2. CASE Cancel \/ (\E s \in Enabled : ServiceReturns(s)) \/ Teardown \/ UNCHANGED sessVars
  <2>1. UNCHANGED <<stage, todo, svc, sess, log, channels>>
    BY <1>2 DEF Cancel, ServiceReturns, Teardown, CloseStore, ShutdownBus, Exit, Deferred,
                sessVars
  <2> QED BY <2>1, EventsSame
<1> QED BY <1>1, <1>2

(* Nothing is published, and no channel open, before anything has happened. *)
LEMMA InitEventsInv == Init => EventsInv
<1> SUFFICES ASSUME Init, NEW c \in Conns PROVE ChainOK(c) /\ LogOK(c) /\ RecordOK(c)
  BY DEF EventsInv
<1>1. /\ stage[c] = "none" /\ todo[c] = <<>> /\ log[c] = <<>> /\ channels[c] = 0
      /\ svc[c] = "none" /\ ~sess[c].login /\ sess[c].commands = 0
  BY DEF Init
<1>2. Upcoming(c) = "none" /\ Published(c) = {} /\ Queries(log[c]) = {}
  BY <1>1 DEF Upcoming, Published, Queries
<1>3. Cardinality(Queries(log[c])) = 0
  BY <1>2, FS_EmptySet
<1> QED BY <1>1, <1>2, <1>3 DEF ChainOK, Chain, Avoids, LogOK, RecordOK

(* Every step keeps the events in their order and the record in agreement.  *)
LEMMA NextEventsInv == SessInv /\ EventsInv /\ [Next]_sessVars => EventsInv'
<1> SUFFICES ASSUME SessInv, EventsInv, [Next]_sessVars PROVE EventsInv'
  OBVIOUS
<1>1. ASSUME NEW c \in Conns, NEW s \in Enabled, Accept(c, s) PROVE EventsInv'
  BY <1>1, AcceptEvents
<1>2. ASSUME NEW c \in Conns, Input(c) PROVE EventsInv'
  BY <1>2, InputEvents
<1>3. ASSUME NEW c \in Conns, Leave(c) \/ Deadline(c) \/ RedisClosed(c) PROVE EventsInv'
  <2>1. Out(c)
    BY <1>3 DEF Leave, Deadline, RedisClosed
  <2>2. stage[c] \in {"auth", "open"} /\ Upcoming(c) = "none"
    BY <2>1 DEF Out, Waiting, Upcoming
  <2> QED BY <2>1, <2>2, OutEvents DEF Out
<1>4. ASSUME NEW c \in Conns, HandlerStep(c) PROVE EventsInv'
  BY <1>4, HandlerEvents
<1>5. ASSUME NEW c \in Conns, ChannelCommand(c) PROVE EventsInv'
  BY <1>5, ChannelEvents
<1>6. ASSUME NEW c \in Conns, OpenChannel(c) \/ ChannelEnd(c) PROVE EventsInv'
  BY <1>6, OtherEvents
<1>7. CASE Cancel \/ (\E s \in Enabled : ServiceReturns(s)) \/ Teardown \/ UNCHANGED sessVars
  BY <1>7, OtherEvents
<1> QED BY <1>1, <1>2, <1>3, <1>4, <1>5, <1>6, <1>7 DEF Next
-----------------------------------------------------------------------------
(* What is left of a script, the events published and the session struct    *)
(* agree at every moment.                                                   *)
THEOREM EventsInvariant == Spec => []EventsInv
<1>1. SessInv /\ EventsInv /\ [Next]_sessVars => EventsInv'
  BY NextEventsInv
<1> QED BY <1>1, InitEventsInv, SessionsInvariant, PTL DEF Spec

(* The handlers of all six services publish the connect event first, once,  *)
(* and the disconnect event once and last, however their connections end    *)
(* and whatever the goroutines of an SSH connection's channels still say.   *)
THEOREM EventsInOrder == Spec => []SessionOrder
<1>1. SessInv /\ EventsInv => SessionOrder
  <2> SUFFICES ASSUME SessInv, EventsInv, NEW c \in Conns, NEW i \in DOMAIN log[c]
               PROVE  /\ log[c][i] = "connect" <=> i = 1 /\ svc[c] # "http"
                      /\ log[c][i] = "disconnect" =>
                           \A j \in DOMAIN log[c] : j > i => svc[c] = "ssh" /\ log[c][j] = "command"
    BY DEF SessionOrder
  <2>1. log[c] \in Seq(EventSteps)
    BY DEF SessInv, TypeOK
  <2>2. DOMAIN log[c] = 1..Len(log[c]) /\ Len(log[c]) \in Nat
    BY <2>1
  <2>3. \A j \in DOMAIN log[c] : j > i => j \in (i + 1)..Len(log[c])
    BY <2>2
  <2>4. LogOK(c)
    BY DEF EventsInv
  <2> QED BY <2>2, <2>3, <2>4 DEF LogOK
<1> QED BY <1>1, SessionsInvariant, EventsInvariant, PTL

(***************************************************************************)
(* An SSH session that got past its handshake: SetLogin is the first thing *)
(* sshd does with the connection, and nothing takes the login back.        *)
(***************************************************************************)

(* A handler past its handshake does not go back to it, and what sshd does  *)
(* with a complete one is to note the login.                                *)
HandlerNotes(h, s) ==
    /\ \A in \in h.open : in.next # "auth"
    /\ s = "ssh" => \A in \in h.auth : in.next = "open" => First(in.does) = "setlogin"

LEMMA AllNote == \A s \in Services : HandlerNotes(Handler(s), s)
<1>1. HandlerNotes(SSH, "ssh")
  BY DEF HandlerNotes, SSH, Does, First
<1>2. HandlerNotes(FTP, "ftp")
  BY DEF HandlerNotes, FTP, Does
<1>3. HandlerNotes(MySQL, "mysql")
  BY DEF HandlerNotes, MySQL, Does
<1>4. HandlerNotes(Redis, "redis")
  BY DEF HandlerNotes, Redis, Does
<1>5. HandlerNotes(SMB, "smb")
  BY DEF HandlerNotes, SMB, Does
<1>6. HandlerNotes(HTTP, "http")
  BY DEF HandlerNotes, HTTP, Does
<1> QED BY <1>1, <1>2, <1>3, <1>4, <1>5, <1>6 DEF Services, Handler

(* A step of one connection leaves the others as they are. *)
LEMMA ShakenElsewhere ==
    ASSUME ShakenInv, NEW c \in Conns,
           \A d \in Conns \ {c} : /\ stage'[d] = stage[d] /\ todo'[d] = todo[d]
                                  /\ svc'[d] = svc[d] /\ sess'[d] = sess[d]
                                  /\ d \in shaken' <=> d \in shaken,
           ShakenOK(c)'
    PROVE  ShakenInv'
<1>1. ASSUME NEW d \in Conns \ {c} PROVE ShakenOK(d)'
  <2>1. ShakenOK(d)
    BY DEF ShakenInv
  <2>2. Upcoming(d)' = Upcoming(d)
    BY DEF Upcoming
  <2> QED BY <2>1, <2>2 DEF ShakenOK
<1> QED BY <1>1 DEF ShakenInv

(* The client makes the handler run a script. *)
LEMMA InputShaken ==
    ASSUME SessInv, ShakenInv, NEW c \in Conns, Input(c)
    PROVE  ShakenInv'
<1>1. /\ svc[c] \in Services /\ stage[c] \in {"auth", "open"} /\ todo[c] = <<>>
      /\ UNCHANGED <<svc, sess>>
  BY HandlerKnown DEF Input, Waiting
<1>2. PICK in \in IF stage[c] = "auth" THEN Handler(svc[c]).auth ELSE Handler(svc[c]).open :
         /\ stage' = [stage EXCEPT ![c] = in.next]
         /\ todo' = [todo EXCEPT ![c] = IF in.next = "closing"
                                        THEN in.does \o Handler(svc[c]).last ELSE in.does]
         /\ shaken' = IF stage[c] = "auth" /\ in.next = "open" THEN shaken \cup {c} ELSE shaken
  BY DEF Input
<1>3. /\ stage'[c] = in.next
      /\ in.next # "closing" => todo'[c] = in.does
      /\ \A d \in Conns \ {c} : stage'[d] = stage[d] /\ todo'[d] = todo[d]
  BY <1>2 DEF SessInv, TypeOK
<1>4. HandlerNotes(Handler(svc[c]), svc[c])
  BY <1>1, AllNote
<1>5. in.next \in {"auth", "open", "closing"}
  BY <1>1, <1>2, HandlerKnown DEF HandlerOK, Inputs
<1>6. ShakenOK(c)
  BY DEF ShakenInv
<1>7. ShakenOK(c)'
  <2>1. CASE stage[c] = "auth"
    <3>1. c \notin shaken
      BY <1>6, <2>1 DEF ShakenOK
    <3>2. in.next # "open" => c \notin shaken'
      BY <1>2, <3>1
    <3>3. ASSUME svc[c] = "ssh", in.next = "open" PROVE Upcoming(c)' = "setlogin"
      <4>1. First(in.does) = "setlogin"
        BY <1>2, <1>4, <2>1, <3>3 DEF HandlerNotes
      <4>2. todo'[c] = in.does
        BY <1>3, <3>3
      <4> QED BY <4>1, <4>2 DEF Upcoming, First
    <3>4. svc'[c] = "ssh" /\ c \in shaken' => Upcoming(c)' = "setlogin"
      BY <1>1, <3>2, <3>3
    <3>5. stage'[c] \in {"none", "refused", "auth"} => c \notin shaken'
      BY <1>3, <3>2
    <3> QED BY <3>4, <3>5 DEF ShakenOK
  <2>2. CASE stage[c] = "open"
    <3>1. in.next # "auth" /\ shaken' = shaken
      BY <1>2, <1>4, <2>2 DEF HandlerNotes
    <3>2. svc[c] = "ssh" /\ c \in shaken => sess[c].login
      BY <1>1, <1>6 DEF ShakenOK, Upcoming
    <3>3. svc'[c] = "ssh" /\ c \in shaken' => sess'[c].login
      BY <1>1, <3>1, <3>2
    <3>4. stage'[c] \notin {"none", "refused", "auth"}
      BY <1>3, <1>5, <3>1
    <3> QED BY <3>3, <3>4 DEF ShakenOK
  <2> QED BY <1>1, <2>1, <2>2
<1> QED BY <1>1, <1>2, <1>3, <1>7, ShakenElsewhere

(* SetLogin finds its session in the map. *)
LEMMA SetLoginTracked ==
    ASSUME SessInv, NEW c \in Conns, todo[c] # <<>>, Head(todo[c]) = "setlogin"
    PROVE  c \in tracked
<1>1. /\ stage[c] \in {"none", "refused", "auth", "open", "closing"}
      /\ todo[c] \in Seq(Steps) /\ ScriptOK(c)
  BY DEF SessInv, TypeOK
<1>2. ~Finishing(todo[c], svc[c])
  <2>1. 1 \in 1..Len(todo[c]) /\ todo[c][1] = "setlogin"
    BY <1>1
  <2> QED BY <2>1 DEF Finishing
<1> QED BY <1>1, <1>2 DEF ScriptOK

(* A step of a script. *)
LEMMA HandlerShaken ==
    ASSUME SessInv, ShakenInv, NEW c \in Conns, HandlerStep(c)
    PROVE  ShakenInv'
<1>1. UNCHANGED <<svc, shaken>> /\ todo[c] # <<>>
  BY DEF HandlerStep, Start, InsertSession, Publish, SetLogin, IncrCommandCount, Loop, End,
         UpdateSession, Step
<1>2. \A d \in Conns \ {c} : stage'[d] = stage[d] /\ todo'[d] = todo[d] /\ sess'[d] = sess[d]
  <2>1. CASE Start(c) \/ InsertSession(c) \/ Publish(c) \/ UpdateSession(c)
    BY <2>1 DEF Start, InsertSession, Publish, UpdateSession, Go, SessInv, TypeOK
  <2>2. CASE SetLogin(c)
    BY <2>2 DEF SetLogin, Go, SessInv, TypeOK
  <2>3. CASE IncrCommandCount(c)
    BY <2>3 DEF IncrCommandCount, Go, SessInv, TypeOK
  <2>4. CASE Loop(c)
    BY <2>4 DEF Loop, Go, SessInv, TypeOK
  <2>5. CASE End(c)
    <3>1. stage' = stage
      BY <2>5 DEF End
    <3>2. CASE c \in tracked
      BY <2>5, <3>1, <3>2 DEF End, Go, SessInv, TypeOK
    <3>3. CASE c \notin tracked
      BY <2>5, <3>1, <3>3 DEF End, SessInv, TypeOK
    <3> QED BY <3>2, <3>3
  <2> QED BY <2>1, <2>2, <2>3, <2>4, <2>5 DEF HandlerStep
<1>3. stage'[c] = stage[c] \/ stage'[c] = "closing"
  <2>1. CASE Loop(c)
    BY <2>1 DEF Loop, SessInv, TypeOK
  <2>2. CASE ~Loop(c)
    BY <2>2 DEF HandlerStep, Start, InsertSession, Publish, SetLogin, IncrCommandCount, End,
                UpdateSession
  <2> QED BY <2>1, <2>2
<1>4. sess'[c].login \/ (~sess[c].login /\ Head(todo[c]) # "setlogin")
  <2>0. PICK r \in Records : r = sess[c]
    BY DEF SessInv, TypeOK, Records
  <2>1. CASE Start(c) \/ InsertSession(c) \/ Publish(c) \/ Loop(c) \/ UpdateSession(c)
    BY <2>0, <2>1 DEF Start, InsertSession, Publish, Loop, UpdateSession, Step, EventSteps, Records
  <2>2. CASE SetLogin(c)
    <3>1. c \in tracked
      BY <1>1, <2>2, SetLoginTracked DEF SetLogin, Step
    <3>2. PICK b : b = (c \in tracked \/ sess[c].login)
      OBVIOUS
    <3>3. PICK e : e = [r EXCEPT !.login = b]
      OBVIOUS
    <3>4. sess' = [sess EXCEPT ![c] = e]
      BY <2>0, <2>2, <3>2, <3>3 DEF SetLogin
    <3>5. sess'[c] = e /\ e.login = b
      BY <2>0, <3>3, <3>4 DEF SessInv, TypeOK, Records
    <3>6. b
      BY <3>1, <3>2
    <3>7. sess'[c].login
      BY <3>5, <3>6
    <3> QED BY <3>7
  <2>3. CASE IncrCommandCount(c)
    <3>1. PICK n : n = IF c \in tracked THEN r.commands + 1 ELSE r.commands
      OBVIOUS
    <3>2. PICK e : e = [r EXCEPT !.commands = n]
      OBVIOUS
    <3>3. sess' = [sess EXCEPT ![c] = e]
      BY <2>0, <2>3, <3>1, <3>2 DEF IncrCommandCount
    <3>4. sess'[c] = e /\ e.login = r.login /\ Head(todo[c]) = "count" /\ r.login \in BOOLEAN
      BY <2>0, <2>3, <3>2, <3>3 DEF IncrCommandCount, Step, SessInv, TypeOK, Records
    <3> QED BY <2>0, <3>4
  <2>4. CASE End(c)
    <3>1. PICK e : e = [r EXCEPT !.ended = TRUE]
      OBVIOUS
    <3>2. sess' = [sess EXCEPT ![c] = e] \/ sess' = sess
      BY <2>0, <2>4, <3>1 DEF End
    <3>3. /\ e.login = r.login /\ Head(todo[c]) = "end" /\ r.login \in BOOLEAN
          /\ sess'[c] = e \/ sess'[c] = r
      BY <2>0, <2>4, <3>1, <3>2 DEF End, Step, SessInv, TypeOK, Records
    <3> QED BY <2>0, <3>3
  <2> QED BY <2>1, <2>2, <2>3, <2>4 DEF HandlerStep
<1>5. ShakenOK(c)'
  <2>1. ShakenOK(c) /\ (Upcoming(c) = "setlogin" => Head(todo[c]) = "setlogin")
    BY <1>1 DEF ShakenInv, Upcoming
  <2> QED BY <1>1, <1>3, <1>4, <2>1 DEF ShakenOK
<1> QED BY <1>1, <1>2, <1>5, ShakenElsewhere

(* Every step keeps the login of a complete SSH handshake noted. *)
LEMMA NextShakenInv == SessInv /\ ShakenInv /\ [Next]_sessVars => ShakenInv'
<1> SUFFICES ASSUME SessInv, ShakenInv, [Next]_sessVars PROVE ShakenInv'
  OBVIOUS
<1>1. ASSUME NEW c \in Conns, NEW s \in Enabled, Accept(c, s) PROVE ShakenInv'
  <2>1. /\ c \notin shaken /\ UNCHANGED <<sess, shaken>>
    BY <1>1 DEF ShakenInv, ShakenOK, Accept
  <2>2. \A d \in Conns \ {c} : stage'[d] = stage[d] /\ todo'[d] = todo[d] /\ svc'[d] = svc[d]
    BY <1>1 DEF Accept, SessInv, TypeOK
  <2>3. ShakenOK(c)'
    BY <2>1 DEF ShakenOK
  <2> QED BY <2>1, <2>2, <2>3, ShakenElsewhere
<1>2. ASSUME NEW c \in Conns, Input(c) PROVE ShakenInv'
  BY <1>2, InputShaken
<1>3. ASSUME NEW c \in Conns, Leave(c) \/ Deadline(c) \/ RedisClosed(c) PROVE ShakenInv'
  <2>1. Out(c) /\ todo[c] = <<>>
    BY <1>3 DEF Leave, Deadline, RedisClosed, Out, Waiting
  <2>2. /\ UNCHANGED <<svc, sess, shaken>> /\ stage'[c] = "closing"
        /\ \A d \in Conns \ {c} : stage'[d] = stage[d] /\ todo'[d] = todo[d]
    BY <2>1 DEF Out, SessInv, TypeOK
  <2>3. svc[c] = "ssh" /\ c \in shaken => sess[c].login
    BY <2>1 DEF ShakenInv, ShakenOK, Upcoming
  <2>4. ShakenOK(c)'
    BY <2>2, <2>3 DEF ShakenOK
  <2> QED BY <2>2, <2>4, ShakenElsewhere
<1>4. ASSUME NEW c \in Conns, HandlerStep(c) PROVE ShakenInv'
  BY <1>4, HandlerShaken
<1>5. CASE \/ \E c \in Conns : OpenChannel(c) \/ ChannelCommand(c) \/ ChannelEnd(c)
           \/ Cancel \/ (\E s \in Enabled : ServiceReturns(s)) \/ Teardown \/ UNCHANGED sessVars
  <2>1. UNCHANGED <<stage, todo, svc, sess, shaken>>
    BY <1>5 DEF OpenChannel, ChannelCommand, ChannelEnd, Cancel, ServiceReturns, Teardown,
                CloseStore, ShutdownBus, Exit, Deferred, sessVars
  <2> QED BY <2>1 DEF ShakenInv, ShakenOK, Upcoming
<1> QED BY <1>1, <1>2, <1>3, <1>4, <1>5 DEF Next

LEMMA ShakenInvariant == Spec => []ShakenInv
<1>1. Init => ShakenInv
  BY DEF Init, ShakenInv, ShakenOK
<1>2. SessInv /\ ShakenInv /\ [Next]_sessVars => ShakenInv'
  BY NextShakenInv
<1> QED BY <1>1, <1>2, SessionsInvariant, PTL DEF Spec

(* A session that has ended holds what was published of it: a login of any  *)
(* service is noted unless it was an attempt of an SSH handshake that broke *)
(* off, nothing else is noted, and every MySQL query is counted: SetLogin   *)
(* and IncrCommandCount are never lost between the event and Tracker.End.   *)
THEOREM RecordsAgree == Spec => []RecordAgrees
<1>1. SessInv /\ EventsInv /\ ShakenInv => RecordAgrees
  <2> SUFFICES ASSUME SessInv, EventsInv, ShakenInv, NEW c \in Conns, sess[c].ended
               PROVE  /\ sess[c].login => "login" \in Published(c)
                      /\ "login" \in Published(c) /\ (svc[c] = "ssh" => c \in shaken)
                           => sess[c].login
                      /\ sess[c].commands =
                            Cardinality({i \in DOMAIN log[c] : log[c][i] = "query"})
    BY DEF RecordAgrees
  <2>1. /\ log[c] \in Seq(EventSteps) /\ todo[c] \in Seq(Steps) /\ sess[c].commands \in Nat
        /\ stage[c] \in {"none", "refused", "auth", "open", "closing"} /\ ScriptOK(c)
    BY DEF SessInv, TypeOK
  <2>2. Finishing(todo[c], svc[c])
    BY <2>1 DEF ScriptOK
  <2>3. Upcoming(c) \notin {"setlogin", "count"}
    <3>1. todo[c] # <<>> => 1 \in 1..Len(todo[c]) /\ Head(todo[c]) = todo[c][1]
      BY <2>1
    <3> QED BY <2>2, <3>1 DEF Finishing, Upcoming
  <2>4. {i \in DOMAIN log[c] : log[c][i] = "query"} = Queries(log[c])
    BY <2>1 DEF Queries
  <2>5. RecordOK(c)
    BY DEF EventsInv
  <2>6. Cardinality(Queries(log[c])) = sess[c].commands + 0
    BY <2>3, <2>5 DEF RecordOK
  <2>7. sess[c].commands = Cardinality({i \in DOMAIN log[c] : log[c][i] = "query"})
    <3>1. sess[c].commands = Cardinality(Queries(log[c]))
      BY <2>1, <2>6
    <3> QED BY <2>4, <3>1
  <2>8. /\ sess[c].login => "login" \in Published(c)
        /\ "login" \in Published(c) => sess[c].login \/ svc[c] = "ssh"
    BY <2>3, <2>5 DEF RecordOK
  <2>9. svc[c] = "ssh" /\ c \in shaken => sess[c].login
    BY <2>3 DEF ShakenInv, ShakenOK
  <2> QED BY <2>7, <2>8, <2>9
<1> QED BY <1>1, SessionsInvariant, EventsInvariant, ShakenInvariant, PTL
=============================================================================
