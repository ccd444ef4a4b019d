--------------------------------- MODULE FTP ---------------------------------
(***************************************************************************)
(* One FTP connection: handleConnection of ftpd/server.go and ftpConn of   *)
(* ftpd/handler.go, with the passive listener and the data connection of   *)
(* its transfers.                                                          *)
(*                                                                         *)
(* The handler is one goroutine.  It waits for a command, for a data       *)
(* connection (ten seconds at most), or for the bytes of an upload (as     *)
(* long as it takes), and notices nothing else while it waits.  Clients    *)
(* may send commands ahead; as nothing is read ahead but text, a command   *)
(* comes into being here when it is read, and a client closes its          *)
(* connection when nothing it sent is unread.                              *)
(***************************************************************************)
EXTENDS Paths, SequencesExt

PlainCommands == {"SYST", "FEAT", "PWD", "TYPE", "SIZE", "MDTM", "MKD", "RMD", "DELE",
                  "RNFR", "RNTO", "NOOP", "HELP", "QUIT", "UNKNOWN"}

CONSTANTS
    CwdPaths,       \* the paths a client may name in CWD
    Plain,          \* the commands it may send among those answered at once
    Limit,          \* the most bytes kept of an upload (1 << 20), in blocks
    MaxCommands,    \* bound: commands of the connection
    MaxData         \* bound: blocks sent on a data connection

ASSUME FTPAssumption ==
    /\ CwdPaths \subseteq [absolute : BOOLEAN, parts : Seq(Part)]
    /\ Plain \subseteq PlainCommands
    /\ Limit \in Nat \ {0}
    /\ MaxCommands \in Nat
    /\ MaxData \in Nat

VARIABLES
    ctx,        \* the context of the process: "live" or "cancelled"
    ctrl,       \* the control connection: "open", or "closed" by the client
    handler,    \* where the handler is
    login,      \* ftpConn.state: "init", "user" or "auth"
    cwd,        \* ftpConn.cwd
    dataListen, \* ftpConn.dataListen: the number of a listener, 0 for nil
    listeners,  \* the listeners that are open
    peer,       \* the client's end of the data connection
    got,        \* blocks of the upload read so far
    log,        \* log[n]: the n-th command, the replies and events it has had
    upload      \* is there an upload in what dispatch returned of the last command

ftpVars == <<ctx, ctrl, handler, login, cwd, dataListen, listeners, peer, got, log, upload>>

(* peer.at: "none", "backlog" (connected, not yet accepted) or "accepted";   *)
(* sent counts its blocks, and it is done when it has closed its end.        *)
NoPeer == [at |-> "none", sent |-> 0, done |-> FALSE]

NoPath == Relative(<<>>)
-----------------------------------------------------------------------------
(* One turn of the loop of cleanFTPPath.                                     *)
CleanFTPPart(clean, p) ==
    CASE p \in Here -> clean
      [] p = ".."   -> IF clean = <<>> THEN clean ELSE Front(clean)
      [] OTHER      -> Append(clean, p)

cleanFTPPath(parts) ==
    LET clean[k \in 0..Len(parts)] ==
            IF k = 0 THEN <<>> ELSE CleanFTPPart(clean[k - 1], parts[k])
    IN  clean[Len(parts)]

resolveFTPPath(path, from) ==
    cleanFTPPath(IF path.absolute THEN path.parts ELSE from \o path.parts)

(* Mutant: the parent of a directory just below the root.                    *)
ParentTooShort(path) == IF Len(path) <= 2 THEN <<>> ELSE Front(path)

parentFTPPath(path) == IF path = <<>> THEN <<>> ELSE Front(path)
-----------------------------------------------------------------------------
(* Commands answered at once, whatever the state, with the code they get;    *)
(* TYPE also sets a flag that nothing reads.  No command but PASS is asked   *)
(* who is logged in.                                                         *)
Codes ==
    [SYST |-> 215, FEAT |-> 211, PWD |-> 257, TYPE |-> 200, SIZE |-> 550, MDTM |-> 550,
     MKD |-> 257, RMD |-> 250, DELE |-> 250, RNFR |-> 350, RNTO |-> 250, NOOP |-> 200,
     HELP |-> 214, QUIT |-> 221, UNKNOWN |-> 502]

Entry(cmd, path, codes) == [cmd |-> cmd, path |-> path, codes |-> codes, events |-> <<>>]

Logged(cmd, path, codes) == log' = Append(log, Entry(cmd, path, codes))

Reply(code) == [log EXCEPT ![Len(log)].codes = Append(@, code)]

(* A listener that closes resets a connection in its backlog.                *)
Close(l) ==
    /\ listeners' = listeners \ {l}
    /\ peer' = IF l \in listeners /\ peer.at = "backlog" THEN NoPeer ELSE peer

(* readLine returns a command and dispatch handles it.  All but transfers    *)
(* are answered here; handleConnection publishes next.                       *)
Reading ==
    /\ handler = "reading"
    /\ ctrl = "open"
    /\ Len(log) < MaxCommands

Answer(cmd) ==
    /\ Reading
    /\ Logged(cmd, NoPath, <<Codes[cmd]>>)
    /\ handler' = "publish"
    /\ UNCHANGED <<ctx, ctrl, login, cwd, dataListen, listeners, peer, got, upload>>

User ==
    /\ Reading
    /\ login' = "user"
    /\ Logged("USER", NoPath, <<331>>)
    /\ handler' = "publish"
    /\ UNCHANGED <<ctx, ctrl, cwd, dataListen, listeners, peer, got, upload>>

(* With a password, or with an empty one.                                    *)
Pass(cmd) ==
    /\ Reading
    /\ login' = "auth"
    /\ Logged(cmd, NoPath, <<230>>)
    /\ handler' = "publish"
    /\ UNCHANGED <<ctx, ctrl, cwd, dataListen, listeners, peer, got, upload>>

Cwd(path) ==
    /\ Reading
    /\ cwd' = resolveFTPPath(path, cwd)
    /\ Logged("CWD", path, <<250>>)
    /\ handler' = "publish"
    /\ UNCHANGED <<ctx, ctrl, login, dataListen, listeners, peer, got, upload>>

Cdup ==
    /\ Reading
    /\ cwd' = parentFTPPath(cwd)
    /\ Logged("CDUP", NoPath, <<250>>)
    /\ handler' = "publish"
    /\ UNCHANGED <<ctx, ctrl, login, dataListen, listeners, peer, got, upload>>

(* Mutant: the listener of the last PASV is not closed first.                *)
OpenPASVOver ==
    /\ Reading
    /\ Logged("PASV", NoPath, <<227>>)
    /\ dataListen' = Len(log) + 1
    /\ listeners' = listeners \cup {Len(log) + 1}
    /\ handler' = "publish"
    /\ UNCHANGED <<ctx, ctrl, login, cwd, peer, got, upload>>

(* openPASV closes the last listener and opens another; if that fails the    *)
(* closed one stays in dataListen.  Listeners are numbered by their PASV.    *)
openPASV ==
    /\ Reading
    /\ peer' = IF peer.at = "backlog" THEN NoPeer ELSE peer
    /\ \/ /\ Logged("PASV", NoPath, <<227>>)
          /\ dataListen' = Len(log) + 1
          /\ listeners' = (listeners \ {dataListen}) \cup {Len(log) + 1}
       \/ /\ Logged("PASV", NoPath, <<425>>)
          /\ listeners' = listeners \ {dataListen}
          /\ UNCHANGED dataListen
    /\ handler' = "publish"
    /\ UNCHANGED <<ctx, ctrl, login, cwd, got, upload>>

Retr ==
    /\ Reading
    /\ Close(dataListen)
    /\ dataListen' = 0
    /\ Logged("RETR", NoPath, <<550>>)
    /\ handler' = "publish"
    /\ UNCHANGED <<ctx, ctrl, login, cwd, got, upload>>

(* sendListing and recvUpload: without a listener there is nothing to do,    *)
(* otherwise the client is told to connect.                                  *)
Transfer(cmd) ==
    /\ Reading
    /\ \/ /\ dataListen = 0
          /\ Logged(cmd, NoPath, <<425>>)
          /\ handler' = "publish"
       \/ /\ dataListen # 0
          /\ Logged(cmd, NoPath, <<150>>)
          /\ handler' = "accept"
    /\ UNCHANGED <<ctx, ctrl, login, cwd, dataListen, listeners, peer, got, upload>>
-----------------------------------------------------------------------------
(* acceptData: a connection comes; the listener is closed behind it.  A       *)
(* listing is sent and the connection closed, an upload is read.              *)
AcceptData ==
    /\ handler = "accept"
    /\ dataListen \in listeners
    /\ peer.at = "backlog"
    /\ listeners' = listeners \ {dataListen}
    /\ dataListen' = 0
    /\ \/ /\ Last(log).cmd = "LIST"
          /\ peer' = NoPeer
          /\ log' = Reply(226)
          /\ handler' = "publish"
       \/ /\ Last(log).cmd = "STOR"
          /\ peer' = [peer EXCEPT !.at = "accepted"]
          /\ handler' = "receive"
          /\ UNCHANGED log
    /\ UNCHANGED <<ctx, ctrl, login, cwd, got, upload>>

(* Mutant: no deadline is set.                                                *)
AcceptForever ==
    /\ handler = "accept"
    /\ dataListen \notin listeners
    /\ dataListen' = 0
    /\ log' = Reply(425)
    /\ handler' = "publish"
    /\ UNCHANGED <<ctx, ctrl, login, cwd, listeners, peer, got, upload>>

(* Mutant: a transfer without connection returns empty data and not nil.       *)
AcceptFailsEmpty ==
    /\ handler = "accept"
    /\ Close(dataListen)
    /\ dataListen' = 0
    /\ log' = Reply(425)
    /\ upload' = TRUE
    /\ handler' = "publish"
    /\ UNCHANGED <<ctx, ctrl, login, cwd, got>>

(* ... or none does: ten seconds have passed, or the listener is a closed one. *)
AcceptFails ==
    /\ handler = "accept"
    /\ Close(dataListen)
    /\ dataListen' = 0
    /\ log' = Reply(425)
    /\ handler' = "publish"
    /\ UNCHANGED <<ctx, ctrl, login, cwd, got, upload>>

(* Mutant: all of the data is read.                                            *)
ReceiveAll ==
    /\ handler = "receive"
    /\ got < peer.sent
    /\ got' = got + 1
    /\ UNCHANGED <<ctx, ctrl, handler, login, cwd, dataListen, listeners, peer, log, upload>>

(* io.ReadAll takes what has come, up to the limit.                            *)
Receive ==
    /\ handler = "receive"
    /\ got < Limit
    /\ got < peer.sent
    /\ got' = got + 1
    /\ UNCHANGED <<ctx, ctrl, handler, login, cwd, dataListen, listeners, peer, log, upload>>

(* ... and returns at the limit or at the end of the data.                     *)
UploadEnds ==
    /\ handler = "receive"
    /\ \/ got = Limit
       \/ peer.done /\ got = peer.sent
    /\ peer' = NoPeer
    /\ got' = 0
    /\ log' = Reply(226)
    /\ upload' = TRUE
    /\ handler' = "publish"
    /\ UNCHANGED <<ctx, ctrl, login, cwd, dataListen, listeners>>
-----------------------------------------------------------------------------
Final(entry) == Last(entry.codes)

(* What handleConnection publishes of a command: the command, a login if the   *)
(* password is not empty, an upload if dispatch returned one, an empty one too. *)
EventsOf(entry, uploaded) ==
    CASE entry.cmd = "PASS" -> <<"command", "auth">>
      [] uploaded           -> <<"command", "upload">>
      [] OTHER              -> <<"command">>

Publish ==
    /\ handler = "publish"
    /\ log' = [log EXCEPT ![Len(log)].events = EventsOf(Last(log), upload)]
    /\ upload' = FALSE
    /\ handler' = IF Last(log).cmd = "QUIT" THEN "return" ELSE "top"
    /\ UNCHANGED <<ctx, ctrl, login, cwd, dataListen, listeners, peer, got>>

(* The context is looked at before every command, and only there.              *)
Top ==
    /\ handler = "top"
    /\ handler' = IF ctx = "cancelled" THEN "return" ELSE "reading"
    /\ UNCHANGED <<ctx, ctrl, login, cwd, dataListen, listeners, peer, got, log, upload>>

ReadFails ==
    /\ handler = "reading"
    /\ ctrl = "closed"
    /\ handler' = "return"
    /\ UNCHANGED <<ctx, ctrl, login, cwd, dataListen, listeners, peer, got, log, upload>>

(* The deferred calls: ftpConn.close, the disconnect event, tracker.End and    *)
(* the connection's Close.                                                     *)
Return ==
    /\ handler = "return"
    /\ handler' = "returned"
    /\ Close(dataListen)
    /\ UNCHANGED <<ctx, ctrl, login, cwd, dataListen, got, log, upload>>
-----------------------------------------------------------------------------
ClientLeaves ==
    /\ ctrl = "open"
    /\ ctrl' = "closed"
    /\ UNCHANGED <<ctx, handler, login, cwd, dataListen, listeners, peer, got, log, upload>>

Cancel ==
    /\ ctx = "live"
    /\ ctx' = "cancelled"
    /\ UNCHANGED <<ctrl, handler, login, cwd, dataListen, listeners, peer, got, log, upload>>

(* Somebody connects to the port, sends, and closes or breaks off, which       *)
(* loses what was not yet read.                                                *)
Dial ==
    /\ peer.at = "none"
    /\ listeners # {}
    /\ peer' = [NoPeer EXCEPT !.at = "backlog"]
    /\ UNCHANGED <<ctx, ctrl, handler, login, cwd, dataListen, listeners, got, log, upload>>

DataSend ==
    /\ peer.at # "none"
    /\ ~peer.done
    /\ peer.sent < MaxData
    /\ peer' = [peer EXCEPT !.sent = @ + 1]
    /\ UNCHANGED <<ctx, ctrl, handler, login, cwd, dataListen, listeners, got, log, upload>>

DataClose ==
    /\ peer.at # "none"
    /\ ~peer.done
    /\ \/ peer' = [peer EXCEPT !.done = TRUE]
       \/ peer.at = "accepted" /\ peer' = [peer EXCEPT !.done = TRUE, !.sent = got]
    /\ UNCHANGED <<ctx, ctrl, handler, login, cwd, dataListen, listeners, got, log, upload>>
-----------------------------------------------------------------------------
Init ==
    /\ ctx = "live"
    /\ ctrl = "open"
    /\ handler = "top"
    /\ login = "init"
    /\ cwd = <<>>
    /\ dataListen = 0
    /\ listeners = {}
    /\ peer = NoPeer
    /\ got = 0
    /\ log = <<>>
    /\ upload = FALSE

Dispatch ==
    \/ \E cmd \in Plain : Answer(cmd)
    \/ User
    \/ \E cmd \in {"PASS", "PASS-EMPTY"} : Pass(cmd)
    \/ \E path \in CwdPaths : Cwd(path)
    \/ Cdup \/ openPASV \/ Retr
    \/ \E cmd \in {"LIST", "STOR"} : Transfer(cmd)

Data    == Dial \/ DataSend \/ DataClose
Handler == AcceptData \/ Receive \/ UploadEnds \/ Publish \/ Top \/ ReadFails \/ Return

Next == Dispatch \/ Handler \/ AcceptFails \/ ClientLeaves \/ Cancel \/ Data

Spec == Init /\ [][Next]_ftpVars

(***************************************************************************)
(* The handler goes on when it can, and the deadline of acceptData passes. *)
(* Nothing is assumed of the client.                                       *)
(***************************************************************************)
FairSpec == Spec /\ WF_ftpVars(Handler) /\ WF_ftpVars(AcceptFails)
-----------------------------------------------------------------------------
(***************************************************************************)
(* Types; a data connection is being read only during an upload, and no    *)
(* more of it than the limit.                                              *)
(***************************************************************************)
TypeOK ==
    /\ ctx \in {"live", "cancelled"}
    /\ ctrl \in {"open", "closed"}
    /\ handler \in {"top", "reading", "accept", "receive", "publish", "return", "returned"}
    /\ login \in {"init", "user", "auth"}
    /\ dataListen \in 0..Len(log)
    /\ listeners \subseteq 1..Len(log)
    /\ peer \in [at : {"none", "backlog", "accepted"}, sent : 0..MaxData, done : BOOLEAN]
    /\ peer.at = "accepted" <=> handler = "receive"
    /\ got \in 0..Limit
    /\ upload \in BOOLEAN
    /\ got > 0 => handler = "receive" /\ got <= peer.sent

(***************************************************************************)
(* The port the client was told of last is open until it is used, and no   *)
(* other is: after 227 and before the next transfer or PASV exactly that   *)
(* listener is open, at any other time none, and none when the handler has *)
(* returned.  The listener a failed PASV leaves in dataListen is closed.   *)
(***************************************************************************)
Passive == {"PASV", "LIST", "RETR", "STOR"}

Told ==
    LET uses == {n \in DOMAIN log : log[n].cmd \in Passive}
    IN  IF uses = {} THEN {}
        ELSE LET n == CHOOSE n \in uses : \A k \in uses : k <= n
             IN  IF log[n].codes = <<227>> THEN {n} ELSE {}

ListenersAsTold ==
    /\ handler = "returned" => listeners = {}
    /\ handler \notin {"accept", "returned"} => listeners = Told
    /\ handler = "accept" => Cardinality(listeners) <= 1

(***************************************************************************)
(* Every command gets one final reply, after a 150 if it is a transfer for *)
(* which there was a listener, and before the next command is read; what   *)
(* is published of it is what the reply says has happened: an upload for   *)
(* a STOR that was told 226, a login for a password.                       *)
(***************************************************************************)
AnsweredOnce(n) ==
    LET e    == log[n]
        busy == n = Len(log) /\ handler \in {"accept", "receive"}
    IN  IF busy THEN e.codes = <<150>> /\ e.events = <<>>
        ELSE /\ Final(e) # 150
             /\ Len(e.codes) = IF e.codes[1] = 150 THEN 2 ELSE 1
             /\ (n < Len(log) \/ handler # "publish") =>
                   /\ Head(e.events) = "command"
                   /\ "upload" \in ToSet(e.events) <=> e.cmd = "STOR" /\ Final(e) = 226
                   /\ "auth" \in ToSet(e.events) <=> e.cmd = "PASS"

Answered == \A n \in DOMAIN log : AnsweredOnce(n)

(***************************************************************************)
(* The working directory is the one that all the CWD and CDUP commands     *)
(* since the last absolute path lead to together, taken as one path.       *)
(***************************************************************************)
Steps(e) == IF e.cmd = "CDUP" THEN <<"..">> ELSE e.path.parts

Walk ==
    LET walk[n \in 0..Len(log)] ==
            IF n = 0 THEN <<>>
            ELSE IF log[n].path.absolute THEN Steps(log[n])
            ELSE walk[n - 1] \o Steps(log[n])
    IN  walk[Len(log)]

CwdAgrees == cwd = Canonical(Walk)

(***************************************************************************)
(* When the client closes the control connection the handler returns in    *)
(* the end, whatever it is doing, unless it reads an upload whose sender   *)
(* has not finished: io.ReadAll has no deadline.                           *)
(***************************************************************************)
LeaveNoticed ==
    ctrl = "closed" ~> \/ handler = "returned"
                       \/ handler = "receive" /\ ~peer.done /\ got < Limit
=============================================================================
