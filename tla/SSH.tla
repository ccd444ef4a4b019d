--------------------------------- MODULE SSH ---------------------------------
(***************************************************************************)
(* One SSH connection after its handshake: handleConnection,               *)
(* handleSession, dispatchRequests and handleExec of sshd/server.go,       *)
(* RunShell of sshd/shell.go, and the recordings of session/recorder.go.   *)
(*                                                                         *)
(* golang.org/x/crypto/ssh is external.  What matters of it is that one    *)
(* goroutine, the mux, reads the connection and hands every packet on: new *)
(* channels to one Go channel, the requests of a channel to a Go channel   *)
(* of its own, both of bounded capacity, and data to a buffer.  It waits   *)
(* when the Go channel is full, and reads nothing meanwhile, neither data  *)
(* nor the end of the connection.                                          *)
(*                                                                         *)
(* Every session channel has a goroutine that takes its requests one at a  *)
(* time and runs the shell itself, and another that waits for the process  *)
(* to stop.  All channels of a connection share its session id, and with   *)
(* it the name of the file their recordings are saved to.                  *)
(***************************************************************************)
EXTENDS FakeShell, TLC

CONSTANTS
    Channels,       \* session channels the client may open
    Cap,            \* capacity of a Go channel of requests or new channels
    ShellLines,     \* the lines a client may type
    Requests,       \* the requests it may make
    Saving,         \* may a save to disk fail
    MaxPackets      \* bound: packets the client sends

ASSUME SSHAssumption ==
    /\ Cap \in Nat \ {0}
    /\ Saving \in {"reliable", "failing"}
    /\ MaxPackets \in Nat

VARIABLES
    client,     \* "here" or "gone"
    sent,       \* the number of packets read from the client
    mux,        \* "reading", "waiting" with a packet to hand on, or "ended"
    held,       \* that packet, a sequence of at most one
    chans,      \* new channels not yet taken by handleConnection
    conn,       \* handleConnection: "serving", or "ended" after tracker.End
    chan,       \* chan[c]: the channel as the mux sees it
    window,     \* window[c]: "shut" while a goroutine waits to write to it
    waiter,     \* waiter[c]: the goroutine of handleSession
    worker,     \* worker[c]: the goroutine of dispatchRequests
    cwd,        \* cwd[c]: the working directory of its shell
    rec,        \* rec[c]: Recorder.events
    pos,        \* pos[c]: the lines its Save has written
    published,  \* published[c]: the commands published for it
    disk        \* the file <session id>.cast

muxVars    == <<client, sent, mux, held, chans, chan>>
workerVars == <<worker, cwd, rec, pos, published, disk>>
sshVars    == <<muxVars, window, conn, waiter, workerVars>>
-----------------------------------------------------------------------------
(* A request of a session channel, of type "pty-req", "window-change",        *)
(* "shell", "exec" with its line, or "env" for those that change nothing,     *)
(* among them a pty-req or window-change with too short a payload.            *)
Request(type, line) == [type |-> type, line |-> line]
NoLine == Line("", NoArg)

(* What the client may send next.                                           *)
Packets ==
    {[kind |-> "open", type |-> t, to |-> c] :
         t \in {"session"}, c \in {c \in Channels : chan[c].state = "free"}}
    \cup {[kind |-> "open", type |-> t, to |-> t] : t \in {"direct-tcpip", "other"}}
    \cup UNION {  {[kind |-> "request", of |-> r, to |-> c] : r \in Requests}
             \cup {[kind |-> "data", of |-> l, to |-> c] : l \in ShellLines}
             \cup {[kind |-> k, to |-> c] : k \in {"eof", "close", "adjust"}} :
                 c \in {c \in Channels : chan[c].state = "open"}}

Room(p) ==
    CASE p.kind = "open"    -> Len(chans) < Cap
      [] p.kind = "request" -> Len(chan[p.to].reqs) < Cap
      [] OTHER              -> TRUE

(* The mux hands a packet on.  An adjustment makes the window of a channel   *)
(* wide enough for whoever waits to write.                                   *)
HandOn(p) ==
    /\ chans' = IF p.kind = "open" THEN Append(chans, p) ELSE chans
    /\ chan' = CASE p.kind = "open" /\ p.type = "session" -> [chan EXCEPT ![p.to].state = "offered"]
                 [] p.kind = "request" -> [chan EXCEPT ![p.to].reqs = Append(@, p.of)]
                 [] p.kind = "data"    -> [chan EXCEPT ![p.to].data = Append(@, p.of)]
                 [] p.kind = "eof"     -> [chan EXCEPT ![p.to].eof = TRUE]
                 [] p.kind = "close"   -> [chan EXCEPT ![p.to].eof = TRUE,
                                                       ![p.to].state = "closed"]
                 [] OTHER              -> chan
    /\ window' = IF p.kind = "adjust" THEN [window EXCEPT ![p.to] = "open"] ELSE window

(* It reads a packet.  What a client sent before it left is read before the  *)
(* end of the connection is, so a client has left when nothing else is unread. *)
MuxRead ==
    /\ mux = "reading"
    /\ client = "here"
    /\ sent < MaxPackets
    /\ \E p \in Packets :
         \/ Room(p) /\ HandOn(p) /\ UNCHANGED <<mux, held>>
         \/ ~Room(p) /\ mux' = "waiting" /\ held' = <<p>> /\ UNCHANGED <<chans, chan, window>>
    /\ sent' = sent + 1
    /\ UNCHANGED <<client, conn, waiter, workerVars>>

MuxResume ==
    /\ mux = "waiting"
    /\ Room(Head(held))
    /\ HandOn(Head(held))
    /\ mux' = "reading"
    /\ held' = <<>>
    /\ UNCHANGED <<client, sent, conn, waiter, workerVars>>

(* It finds the connection closed, and closes everything it feeds.          *)
MuxEnd ==
    /\ mux = "reading"
    /\ client = "gone"
    /\ mux' = "ended"
    /\ chan' = [c \in Channels |->
                  IF chan[c].state = "open"
                  THEN [chan[c] EXCEPT !.eof = TRUE, !.state = "closed"] ELSE chan[c]]
    /\ UNCHANGED <<client, sent, held, chans, window, conn, waiter, workerVars>>

ClientLeaves ==
    /\ client = "here"
    /\ client' = "gone"
    /\ UNCHANGED <<sent, mux, held, chans, chan, window, conn, waiter, workerVars>>
-----------------------------------------------------------------------------
(* handleConnection: a goroutine for every session channel; a forwarding     *)
(* channel is published as an exploit and rejected, like any other.          *)
ServeChannel ==
    /\ conn = "serving"
    /\ chans # <<>>
    /\ LET p == Head(chans)
       IN  waiter' = IF p.type = "session" THEN [waiter EXCEPT ![p.to] = "accepting"]
                                            ELSE waiter
    /\ chans' = Tail(chans)
    /\ UNCHANGED <<client, sent, mux, held, chan, window, conn, workerVars>>

(* ... and when the mux has closed the channel of channels: the disconnect    *)
(* event and tracker.End.                                                     *)
ServeEnd ==
    /\ conn = "serving"
    /\ chans = <<>>
    /\ mux = "ended"
    /\ conn' = "ended"
    /\ UNCHANGED <<muxVars, window, waiter, workerVars>>

(* Mutant: the error of Accept is not looked at.                              *)
AcceptUnchecked(c) ==
    /\ waiter[c] = "accepting"
    /\ \/ /\ mux # "ended"
          /\ waiter' = [waiter EXCEPT ![c] = "waiting"]
          /\ chan' = [chan EXCEPT ![c].state = "open"]
       \/ /\ client = "gone"
          /\ waiter' = [waiter EXCEPT ![c] = "returned"]
          /\ UNCHANGED chan
    /\ worker' = [worker EXCEPT ![c] = "idle"]
    /\ UNCHANGED <<client, sent, mux, held, chans, window, conn, cwd, rec, pos, published,
                   disk>>

(* handleSession: Accept fails once the connection is lost.  Then it waits    *)
(* for the process to stop, whatever becomes of its channel; module Sessions  *)
(* has what stopping the process does.                                        *)
handleSession(c) ==
    /\ waiter[c] = "accepting"
    /\ \/ /\ mux # "ended"
          /\ waiter' = [waiter EXCEPT ![c] = "waiting"]
          /\ worker' = [worker EXCEPT ![c] = "idle"]
          /\ chan' = [chan EXCEPT ![c].state = "open"]
       \/ /\ client = "gone"
          /\ waiter' = [waiter EXCEPT ![c] = "returned"]
          /\ UNCHANGED <<worker, chan>>
    /\ UNCHANGED <<client, sent, mux, held, chans, window, conn, cwd, rec, pos, published,
                   disk>>

-----------------------------------------------------------------------------
(* The recorder: WriteInput, WriteOutput and Resize append an event.          *)
Input(line) == [type |-> "i", line |-> line]
Output      == [type |-> "o", line |-> NoLine]
Resize      == [type |-> "r", line |-> NoLine]

(* A write to a channel waits while the client's window has no room for all   *)
(* of it, until the client makes it wider or the channel is closed.  Meanwhile *)
(* its goroutine takes no further step; what is noted behind the write has no  *)
(* reader but that goroutine, and is noted at once.                           *)
Unblocked(c) == window[c] = "open" \/ chan[c].state = "closed"

Writes(c) ==
    \/ UNCHANGED window
    \/ chan[c].state = "open" /\ window' = [window EXCEPT ![c] = "shut"]

(* A command is recorded, published and dispatched, and what it prints is     *)
(* recorded.                                                                  *)
Command(c, line, dir) ==
    /\ rec' = [rec EXCEPT ![c] = Append(@, Input(line)) \o
                  IF DispatchCommand(line, dir).prints THEN <<Output>> ELSE <<>>]
    /\ published' = [published EXCEPT ![c] = Append(@, line)]

(* handleSessionRequest: a shell starts with its banner; an exec runs at once *)
(* and ends the goroutine without saving the recording.                       *)
handleSessionRequest(c) ==
    /\ worker[c] = "idle"
    /\ chan[c].reqs # <<>>
    /\ LET r == Head(chan[c].reqs)
       IN  \/ /\ r.type \in {"pty-req", "window-change", "env"}
              /\ rec' = IF r.type = "env" THEN rec ELSE [rec EXCEPT ![c] = Append(@, Resize)]
              /\ UNCHANGED <<worker, cwd, published, window>>
           \/ /\ r.type = "shell"
              /\ Writes(c)
              /\ rec' = [rec EXCEPT ![c] = Append(@, Output)]
              /\ cwd' = [cwd EXCEPT ![c] = Home]
              /\ worker' = [worker EXCEPT ![c] = "shell"]
              /\ UNCHANGED published
           \/ /\ r.type = "exec"
              /\ Command(c, r.line, Home)
              /\ IF DispatchCommand(r.line, Home).prints THEN Writes(c) ELSE UNCHANGED window
              /\ worker' = [worker EXCEPT ![c] = "returned"]
              /\ UNCHANGED cwd
    /\ chan' = [chan EXCEPT ![c].reqs = Tail(@)]
    /\ UNCHANGED <<client, sent, mux, held, chans, conn, waiter, pos, disk>>

(* dispatchRequests returns when the channel of requests is closed.            *)
DispatchEnds(c) ==
    /\ worker[c] = "idle"
    /\ chan[c].reqs = <<>>
    /\ chan[c].state = "closed"
    /\ worker' = [worker EXCEPT ![c] = "returned"]
    /\ UNCHANGED <<muxVars, window, conn, waiter, cwd, rec, pos, published, disk>>

IsBlank(line) == line.cmd = ""

Leaving == {Line(cmd, NoArg) : cmd \in {"exit", "logout", "quit"}}

(* RunShell: one turn of its loop.  A blank line is passed over; exit, logout  *)
(* and quit say so and leave.  Every turn writes, the terminal its prompt.     *)
ShellLine(c) ==
    /\ worker[c] = "shell"
    /\ chan[c].data # <<>>
    /\ Writes(c)
    /\ LET line == Head(chan[c].data)
       IN  \/ /\ IsBlank(line)
              /\ UNCHANGED <<worker, cwd, rec, published>>
           \/ /\ line \in Leaving
              /\ rec' = [rec EXCEPT ![c] = @ \o <<Input(line), Output>>]
              /\ published' = [published EXCEPT ![c] = Append(@, line)]
              /\ worker' = [worker EXCEPT ![c] = "save"]
              /\ UNCHANGED cwd
           \/ /\ ~IsBlank(line) /\ line \notin Leaving
              /\ Command(c, line, cwd[c])
              /\ cwd' = [cwd EXCEPT ![c] = DispatchCommand(line, @).cwd]
              /\ UNCHANGED worker
    /\ chan' = [chan EXCEPT ![c].data = Tail(@)]
    /\ UNCHANGED <<client, sent, mux, held, chans, conn, waiter, pos, disk>>

(* Mutant: a failed ReadLine starts the loop over.                             *)
ShellGoesOn(c) ==
    /\ worker[c] = "shell"
    /\ chan[c].data = <<>>
    /\ chan[c].eof
    /\ UNCHANGED sshVars

(* ReadLine fails at the end of the data, and the shell is left.               *)
ShellEOF(c) ==
    /\ worker[c] = "shell"
    /\ chan[c].data = <<>>
    /\ chan[c].eof
    /\ worker' = [worker EXCEPT ![c] = "save"]
    /\ UNCHANGED <<muxVars, window, conn, waiter, cwd, rec, pos, published, disk>>
-----------------------------------------------------------------------------
(***************************************************************************)
(* Recorder.Save: Create makes the file or truncates it, then every line   *)
(* is a write at the offset of this Save, which is its own.  Offsets count *)
(* lines; where a truncated file is written behind its end there is a      *)
(* hole.  disk.by is the last to have created the file, and disk.whole     *)
(* tells whether it alone has written it and without an error.             *)
(***************************************************************************)
Header == [type |-> "header", line |-> NoLine]
Hole   == [type |-> "hole", line |-> NoLine]

Recording(c) == <<Header>> \o rec[c]

Savers == {c \in Channels : worker[c] = "saving"}

(* Mutant: the file is opened without being truncated.                         *)
SaveCreateOver(c) ==
    /\ worker[c] = "save"
    /\ worker' = [worker EXCEPT ![c] = "saving"]
    /\ pos' = [pos EXCEPT ![c] = 0]
    /\ disk' = [file |-> disk.file, by |-> c, whole |-> Savers = {}]
    /\ UNCHANGED <<muxVars, window, conn, waiter, cwd, rec, published>>

SaveCreate(c) ==
    /\ worker[c] = "save"
    /\ worker' = [worker EXCEPT ![c] = "saving"]
    /\ pos' = [pos EXCEPT ![c] = 0]
    /\ disk' = [file |-> <<>>, by |-> c, whole |-> Savers = {}]
    /\ UNCHANGED <<muxVars, window, conn, waiter, cwd, rec, published>>

WriteAt(file, at, x) ==
    [k \in 1 .. (IF at > Len(file) THEN at ELSE Len(file)) |->
        IF k = at THEN x ELSE IF k <= Len(file) THEN file[k] ELSE Hole]

SaveWrite(c) ==
    /\ worker[c] = "saving"
    /\ pos[c] < Len(Recording(c))
    /\ pos' = [pos EXCEPT ![c] = @ + 1]
    /\ disk' = [disk EXCEPT !.file = WriteAt(@, pos[c] + 1, Recording(c)[pos[c] + 1])]
    /\ UNCHANGED <<muxVars, window, conn, waiter, worker, cwd, rec, published>>

SaveEnd(c) ==
    /\ worker[c] = "saving"
    /\ pos[c] = Len(Recording(c))
    /\ worker' = [worker EXCEPT ![c] = "returned"]
    /\ UNCHANGED <<muxVars, window, conn, waiter, cwd, rec, pos, published, disk>>

(* The directory or the file cannot be made, or a line not be written.         *)
SaveFails(c) ==
    /\ Saving = "failing"
    /\ worker[c] \in {"save", "saving"}
    /\ pos[c] < Len(Recording(c))
    /\ worker' = [worker EXCEPT ![c] = "returned"]
    /\ disk' = [disk EXCEPT !.whole = @ /\ worker[c] = "save"]
    /\ UNCHANGED <<muxVars, window, conn, waiter, cwd, rec, pos, published>>
-----------------------------------------------------------------------------
Init ==
    /\ client = "here"
    /\ sent = 0
    /\ mux = "reading"
    /\ held = <<>>
    /\ chans = <<>>
    /\ conn = "serving"
    /\ window = [c \in Channels |-> "open"]
    /\ chan = [c \in Channels |-> [state |-> "free", reqs |-> <<>>, data |-> <<>>, eof |-> FALSE]]
    /\ waiter = [c \in Channels |-> "none"]
    /\ worker = [c \in Channels |-> "none"]
    /\ cwd = [c \in Channels |-> Home]
    /\ rec = [c \in Channels |-> <<>>]
    /\ pos = [c \in Channels |-> 0]
    /\ published = [c \in Channels |-> <<>>]
    /\ disk = [file |-> <<>>, by |-> "nobody", whole |-> FALSE]

Mux     == MuxRead \/ MuxResume \/ MuxEnd
Serve   == ServeChannel \/ ServeEnd
Work(c) ==
    /\ Unblocked(c)
    /\ \/ handleSessionRequest(c) \/ DispatchEnds(c)
       \/ ShellLine(c) \/ ShellEOF(c)
       \/ SaveCreate(c) \/ SaveWrite(c) \/ SaveEnd(c) \/ SaveFails(c)

Next ==
    \/ Mux \/ ClientLeaves \/ Serve
    \/ \E c \in Channels : handleSession(c) \/ Work(c)

Spec == Init /\ [][Next]_sshVars

(***************************************************************************)
(* Goroutines that can go on do: the mux (which reads what it is sent),    *)
(* handleConnection, and the two of every channel.  Nothing is assumed of  *)
(* the client.                                                             *)
(***************************************************************************)
Fairness ==
    /\ WF_sshVars(MuxResume \/ MuxEnd)
    /\ WF_sshVars(Serve)
    /\ \A c \in Channels : WF_sshVars(handleSession(c)) /\ WF_sshVars(Work(c))

FairSpec == Spec /\ Fairness
-----------------------------------------------------------------------------
(***************************************************************************)
(* Types; no Go channel holds more than its capacity, and requests are     *)
(* dispatched for exactly the channels whose Accept succeeded.             *)
(***************************************************************************)
TypeOK ==
    /\ client \in {"here", "gone"}
    /\ sent \in 0..MaxPackets
    /\ mux \in {"reading", "waiting", "ended"}
    /\ Len(held) = IF mux = "waiting" THEN 1 ELSE 0
    /\ Len(chans) <= Cap
    /\ conn \in {"serving", "ended"}
    /\ \A c \in Channels :
          /\ chan[c].state \in {"free", "offered", "open", "closed"}
          /\ Len(chan[c].reqs) <= Cap
          /\ window[c] \in {"open", "shut"}
          /\ waiter[c] \in {"none", "accepting", "waiting", "returned"}
          /\ worker[c] \in {"none", "idle", "shell", "save", "saving", "returned"}
          /\ worker[c] = "none" <=> waiter[c] # "waiting"
          /\ pos[c] \in 0..Len(Recording(c))

(* The inputs among the events are those of the lines, in their order: at[k] *)
(* is where the k-th of them is.                                             *)
InputsAre(events, lines) ==
    \E at \in [DOMAIN lines -> DOMAIN events] :
        /\ \A j, k \in DOMAIN lines : j < k => at[j] < at[k]
        /\ \A k \in DOMAIN lines : events[at[k]] = Input(lines[k])
        /\ \A i \in DOMAIN events : events[i].type = "i" => \E k \in DOMAIN lines : at[k] = i

(***************************************************************************)
(* A recording that one shell has saved without an error, and while no     *)
(* other shell of the connection was saving, is on disk as it was: the     *)
(* header and every event in order, nothing of an earlier and longer       *)
(* recording behind it, and as input just the commands that were           *)
(* published.  (Recorder.Save truncates the file and the file name is the  *)
(* session's, not the channel's.)                                          *)
(***************************************************************************)
ReplayIsWhole ==
    disk.whole /\ Savers = {} =>
        /\ disk.file = Recording(disk.by)
        /\ InputsAre(disk.file, published[disk.by])

(* The paths a cd is given: no argument of a line is empty.                  *)
TestParts == {Blank, ".", "..", "~", "tmp", "etc", "ssh"}
TestPaths == {path \in PathsOver(TestParts, 3) :
                path.absolute \/ Head(path.parts) # Blank}

Clean(path) == \A k \in DOMAIN path.parts : path.parts[k] \notin Special

(* A real shell goes through a path part by part, from the root, the home     *)
(* directory or where it is, and refuses it when a part leads nowhere.        *)
Start(path, dir) ==
    IF path.absolute THEN <<>> ELSE IF Head(path.parts) = "~" THEN Home ELSE dir

Full(path, dir) ==
    Start(path, dir) \o IF ~path.absolute /\ Head(path.parts) = "~"
                        THEN Tail(path.parts) ELSE path.parts

Exists(path, dir) ==
    \A k \in Len(Start(path, dir)) .. Len(Full(path, dir)) :
        IsDir(Canonical(SubSeq(Full(path, dir), 1, k)))

RealShell(path, dir) == IF Exists(path, dir) THEN Canonical(Full(path, dir)) ELSE dir

DirsWhereCdAgrees == {dir \in Dirs :
    \A path \in TestPaths :
        \/ cmdCD(path, dir).cwd = RealShell(path, dir)
        \/ dir = <<>> /\ ~path.absolute /\ ~Clean(path) /\ cmdCD(path, dir).cwd = dir
        \/ /\ ~Exists(path, dir) /\ IsDir(Canonical(Full(path, dir)))
           /\ cmdCD(path, dir).cwd = Canonical(Full(path, dir))}

(***************************************************************************)
(* Wherever the cd commands so far have taken a shell, it is in a          *)
(* directory that exists, and a cd by any path takes it where it would     *)
(* take a real shell, which goes through the path part by part and refuses *)
(* it where a part does not exist.  There are two ways in which it does    *)
(* not, and no other.  In the root directory a relative path that is not   *)
(* clean is refused, since resolvePath does not clean it there.  And a     *)
(* path through a directory that does not exist and out of it again, which *)
(* a real shell refuses, leads to the directory it stands for, since       *)
(* cleanPath looks nothing up.                                             *)
(***************************************************************************)
CdAgrees == \A c \in Channels : worker[c] = "shell" => cwd[c] \in DirsWhereCdAgrees

(***************************************************************************)
(* The mux is waiting to hand on a request of a channel whose requests     *)
(* nobody takes any more: its goroutine has returned, is in a shell that   *)
(* waits for a line only the mux could bring, or waits to write until the  *)
(* client makes the window wider, which only the mux could tell it.        *)
(***************************************************************************)
Stuck ==
    /\ mux = "waiting"
    /\ Head(held).kind = "request"
    /\ LET c == Head(held).to
       IN  /\ ~Room(Head(held))
           /\ \/ worker[c] = "returned"
              \/ worker[c] = "shell" /\ chan[c].data = <<>> /\ ~chan[c].eof
              \/ ~Unblocked(c)

(***************************************************************************)
(* When the client leaves, its session is ended and every shell comes to   *)
(* its end with its recording saved, whatever the channels are doing,      *)
(* unless the mux is stuck.                                                *)
(***************************************************************************)
Over == conn = "ended" /\ \A c \in Channels : worker[c] \in {"none", "returned"}

LeaveNoticed == client = "gone" ~> Over \/ Stuck

(***************************************************************************)
(* What learn/03-IMPLEMENTATION.md says of sessions: when the connection   *)
(* closes, End() removes the session.                                      *)
(***************************************************************************)
LeaveEndsSession == client = "gone" ~> conn = "ended"
=============================================================================
