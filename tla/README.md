# TLA+ verification of hive, a multi-protocol honeypot

`hive` (Go) opens six fake services, records what strangers do to them, and
shows it on a dashboard. This directory holds TLA+ models of the parts of it in
which goroutines, queues, clocks and failing stores meet, the TLC runs that
check them, and TLAPS proofs of their main invariants. `PROJECT.json` ties every
definition to the lines it models, every property to a mutant of the code that
breaks it, and every hazard to the properties that would catch it.

- [1. The system](#1-the-system)
- [2. What is modelled, and how it corresponds to the code](#2-what-is-modelled)
- [3. The runs](#3-the-runs)
- [4. The proofs](#4-the-proofs)
- [5. Disagreements between code and documents](#5-disagreements)
- [6. What is not modelled](#6-what-is-not-modelled)
- [7. Plan](#7-plan)

## 1. The system

```
 ssh ftp http smb mysql redis       one goroutine per connection
   |   (ratelimit.IPLimiter.Allow, session.Tracker.Start/End)
   v
 event.Bus.Publish ---- chan ----> event.Processor: 4 workers
   |                                  mitre.Detector.Detect
   |                                  store.PgxStore: events, detections,
   |                                    credentials, attackers, iocs
   |                                  store.RedisStreamer.PublishEvent
   +------------------- chan ----> api websocket handlers -> dashboard
```

Everything runs in one process, started and stopped by `cli/serve.go`:
`runServe` opens the stores, makes the bus, tracker, limiter, detector and
processor, starts each service, the API and the processor in one errgroup, and
returns when the errgroup's context is cancelled and all of them have returned;
the deferred closes follow.

| Component | State | Operations | Interacts by | What is hard | What makes it correct |
|---|---|---|---|---|---|
| Event bus `event/bus.go` | slice of subscriptions, each with a buffered channel; `closed` | Subscribe, Publish, Unsubscribe, Shutdown | called by every connection handler; channels to the processor and websockets; one RWMutex | publishers interleave; channels are closed while others publish; full channels; writers waiting for readers | no send on, or second close of, a closed channel; order per publisher; nobody passed over; Publish never blocks; writers get the lock |
| Rate limiter `ratelimit/limiter.go` | map address -> token bucket and time last seen | Allow, sweep every ten minutes, Stop | called on accept by the services; a goroutine of its own | forgetting an address whose bucket is not full; lazy refill; sweep and stop racing | forgetting is invisible; no stretch of time sees more than burst and rate |
| Detector `mitre/detector.go` | map address -> login times, service -> time | Detect | called by four workers under one mutex | events arrive out of timestamp order; windows are moved by timestamps, not by a clock; entries deleted when empty | no false alarm; bursts and scans not missed for the order of workers; in order, the exact windows; no entry left behind empty |
| Processor `event/processor.go` | channel; per worker the event in hand | Start, work, process, persist, stream | takes from the bus; calls the detector, PostgreSQL and Redis | each of up to a dozen calls fails on its own; cancellation in the middle; workers race on one attacker's row | one failure costs one row; no lost update; every event carried through; workers return |
| Store `store/pgx.go`, `migrations/*.sql` | tables, partitions | EnsurePartitions, inserts and upserts, queries | called by the processor, the tracker's callbacks and the API | partitions that run out, NULL in NOT NULL columns, foreign keys, order of upserts | rows the documents promise are accepted |
| Session tracker `session/tracker.go` | map of open sessions | Start, End, SetLogin, IncrCommandCount, AddTechnique | called by connection handlers; callbacks write sessions to the store | handlers outlive shutdown; End and counters race; per-service order of End and disconnect | every session started is ended once; rows follow |
| Lifecycle `cli/serve.go` | context, errgroup, deferred closes | start-up, cancellation, teardown | all of the above | connection handlers are not waited for; closes race with them | shutdown terminates; nothing is used after it is closed |
| SSH `sshd/`, recorder `session/recorder.go` | per connection its channels; per channel a queue of requests, a working directory, a recording | open channel, pty, shell, exec, save | `x/crypto/ssh` mux, tracker, bus, disk | one reader feeds all channels through bounded queues; the shell runs in the goroutine that takes requests; one file name for all recordings; saves that fail half way | a departure is noticed; a recording on disk is whole and says what was published; cd goes where a shell would, but in two named cases |
| FTP `ftpd/` | control connection, login state, passive listener, working directory | commands, PASV, LIST, STOR, RETR | tracker, bus, data connections of strangers | a listener left over by a failed PASV; accept deadline; uploads without one | the open ports are those the client was told of; replies and events match what happened; the handler returns |
| MySQL `mysqld/` | packet sequence number, phase | handshake, queries | tracker, bus | little: sequential | one session per connection |
| Redis, SMB, HTTP honeypots | per connection or none | request/response | tracker, bus | little: sequential | one session per connection or request |
| API `api/` | none (queries), websocket subscriptions | list, look up, export, stream | store, bus | pages are separate requests, a page is up to two statements, and rows are written meanwhile; websocket leaving while the bus closes | no row that stays in place is skipped; totals agree with pages; paging ends; the websocket part is covered by the bus |
| Intel `intel/`, geo, config, ui, frontend | none | formatting, reading | - | - | - |

## 2. What is modelled

| Module | Models | Role |
|---|---|---|
| `EventBus` | `event/bus.go`, `sync.RWMutex` (external), the consumers of `api/websocket.go` | component |
| `TokenBucket` | what the limiter promises: one eternal bucket per address | abstract specification |
| `RateLimiter` | `ratelimit/limiter.go`, `golang.org/x/time/rate` (external) | component, implements `TokenBucket` |
| `Detector` | `mitre/detector.go` as the workers of `event/processor.go` call it | component |
| `Processor` | `event/processor.go` with the statements of `store/pgx.go` and `store/redis.go` it issues, `EnsurePartitions`, and the schema by what it accepts | composition of worker pool and stores |
| `Sessions` | the connection handlers of the six services, `session/tracker.go`, `InsertSession` and `UpdateSession` of `store/pgx.go`, and the shutdown of `cli/serve.go` | composition of handlers, tracker and lifecycle |
| `Paths` | what a path means: the directory a real tree would reach | reference definition for the path algorithms |
| `FakeShell` | `sshd/filesystem.go`, `sshd/commands.go` | pure algorithms |
| `SSH` | one connection of `sshd/server.go` with its channels, `sshd/shell.go`, `session/recorder.go`, the mux of `x/crypto/ssh` (external) | composition of mux, handlers, shells and recorders over `FakeShell` |
| `FTP` | `ftpd/handler.go` and the loop of `ftpd/server.go`, with data connections | component |
| `Dashboard` | the list endpoints of `api/handlers.go`, the queries and upserts of `store/pgx.go` behind them, the paging client of the frontend | composition of client, handlers and writers |
| `MC*` | values and symmetry sets for TLC | model checking |
| `*Proofs` | theorems | proofs |

**EventBus.** A subscription and its channel share one identity. `Publish` is
`PublishBegin` (read lock, early return on a closed bus), one `PublishStep` per
element of the slice, and `PublishEnd` (deferred unlock), so publishers
interleave with each other and with consumers inside the loop. `TrySend` is the
`select` with `default`; a send on a closed channel is recorded in `panics`
whether or not there is room, as in Go. A writer first announces itself
(`LockRequest`) and from then on no reader enters, which is `sync.RWMutex`;
what it does under the lock is one step, since nobody else can see the list
meanwhile. `Subscribe` does not look at `closed`, as in the code. `got` and
`dropped` are history.

**RateLimiter.** Amounts are counted in units of 1/Interval token, so the
arithmetic of `rate.Limiter` is exact in integers; `tokens` and `last` are only
written when a connection is allowed, the level in between is computed by
`Advanced`. `Stale` is the strict comparison of `evictStale`. The sweep goroutine
takes a tick or the stop signal, either when both are ready. `BeginCount` is an
observer and changes no state of the program: it lets the rate bound be stated
for a stretch of time that begins anywhere.

**Detector.** The slice of login times is the set of events they come from, so
two logins with one timestamp are still two. `Publish` takes a timestamp up to
`Skew` old, since handlers stamp an event before they publish it. Workers `Take`
in the channel's order and `Detect` in any order; `Detect` is one step, being
under the mutex, and includes the creation of the entry, both windows, and its
deletion when both are empty. The texts a command is compared with are data: an
event carries which rules its command matches. `Published` lists, per service,
the event types it really publishes.

**Processor.** A worker takes an event together with the detector's answer and
then owes the calls `CallsFor` lists, in the code's order: event, detections,
credentials for a login, attacker, source address if public, stream. `Outcomes`
says how a call may end: refused for what stands in its way (`Obstacles`: no
partition, a NULL in a NOT NULL column), refused because the context is
cancelled, otherwise accepted or, with `Faults = 1`, refused by a store out of
reach. A call that reports an error is taken not to have changed the database;
the commit whose acknowledgement is lost is not modelled. `Upserted` is
`buildAttacker` with the ON CONFLICT clause, atomic because PostgreSQL locks the
row. The channel is never closed under a worker: `bus.Shutdown` is deferred and
runs after `g.Wait`. An event is named by its place in the channel, which also
orders the timestamps.

**Sessions.** A handler is one goroutine, so it is modelled by scripts: `first`
is what it does before it waits for its client, `auth` and `open` what one input
makes it do, `last` what it does on its way out (the deferred calls, in the order
they run). There is one record per service, `SSH`, `FTP`, `MySQL`, `Redis`, `SMB`
and `HTTP`, each the translation of one handler; the steps of a script (`Start`,
`InsertSession`, `Publish`, `SetLogin`, `IncrCommandCount`, `Loop`, `End`,
`UpdateSession`) are actions of their own, and anything may happen between two of
them. `Start` and `End` are split at the unlock, as in the code, where the
callback runs outside the mutex. The client may leave whenever the handler waits.
The shells and execs of SSH channels publish from goroutines of their own. The
callbacks' context is the errgroup's: line 149 of `serve.go` assigns to the
variable the closures captured, so after a signal their statements are refused.
The process exits after the deferred closes, whatever its handlers are doing.
`shaken` is history: the connections whose client has got past its login. An
HTTP request is a connection of its own here, since each is a session of its own.

**SSH, FakeShell, Paths.** `mux` is the one goroutine of `x/crypto/ssh` that reads
the connection; it hands a packet on (`HandOn`) or, when the Go channel it goes to
is full, waits with it in `held` and reads nothing else. `waiter[c]` is the
goroutine of `handleSession` (Accept, then `<-ctx.Done()`), `worker[c]` that of
`dispatchRequests`, which also runs the shell and the save. `Command` is what exec
and shell do with a line: record it, publish it, dispatch it, record what it prints.
Of a command's text only whether it prints is kept, since that decides whether
there is an event in the recording; the fake file system is a set of directories
and files as `populate` makes it. `Save` is `SaveCreate` (create or truncate), a
`SaveWrite` per line at this save's own offset, and `SaveEnd`; two saves of one
connection may interleave, and `WriteAt` then leaves holes or mixes them, as the
file system does. `cleanPath` and `resolvePath` are translated branch by branch;
`Paths` says independently where a path leads, by counting the steps up that
cancel a name. `RealShell` of `SSH` goes through a path part by part and refuses it
where a part does not exist. A write to a channel (`Writes`) may find the client's
`window` shut; its goroutine then takes no further step until the mux reads an
adjustment or closes the channel (`Unblocked`).

**FTP.** One goroutine, `handler`, in one of the places where it waits or acts:
`top` (looks at the context), `reading`, `accept`, `receive`, `publish`, `return`.
A command is one action from `readLine` to its reply, except for the transfers,
whose replies come before and after the wait for a data connection. Listeners are
numbered by the PASV that opened them, so `dataListen` may name a closed one, which
is what a failed second PASV leaves. `AcceptFails` is the ten-second deadline, or an
accept on a closed listener. `log` keeps, per command, its replies and events;
`upload` says whether the result of the command has an upload, which is what decides
that one is published.
Anyone may dial the port; a data connection may send, close, break off or do
nothing.

**Dashboard.** Rows carry what they are sorted and filtered by. A request is `Ask`
(parameters and, for attackers, the clock), `Count` where the store counts, and
`Select`; writers act in between. `Sorted` returns every order PostgreSQL may choose
when keys tie. `Insert` stamps a row up to `Skew` ago, `UpsertIOC` moves a row to
the stamp of the event written last, `UpsertAttacker` only moves it up. The client
goes on by the returned limit until a page is not full, or, like
`pages/sessions` and `pages/intel` of the frontend, until the total is reached. It does
so of every endpoint, also of the recent events, whose handler reads no offset.
`pager.owed` is history: the rows that were there when it began, have not been
written nor come to tie with another, and have not been shown yet.

## 3. The runs

All with 2 TLC workers; times are from a small machine.

| Run | Instance | Checks | Shows |
|---|---|---|---|
| `eventbus` | 2 publishers, 2 subscriptions (to everything, or to nothing), capacity 1, 3 events; 276k states, 1 min | `TypeOK`, `NoPanic`, `FifoPerPublisher`, `NobodySkipped`, `PublishReturns`, `WriterGetsLock` | the lock discipline of the bus is right in every order of publishing, leaving and shutting down |
| `ratelimiter` | 2 addresses, burst 2, interval 2, cleanup 4 (the tightest the assumption allows), 9 units of time; 1 min | `TypeOK`, `RateBound`, `ForgettingIsInvisible` | the limiter implements an eternal bucket per address, through two sweeps |
| `detector` | 1 address, 2 services, 2 workers, thresholds 2, windows 2 and 1, 4 events, 4 units of time; 1.4M states, 45 s | `TypeOK`, `AlarmSound`, `BurstCaught`, `ScanCaught`, `ExactInOrder` | what out-of-order detection can and cannot spoil |
| `processor` | 1 public address, 2 workers, logins and connections, failing stores, cancellation, 2 events; 147k states, 35 s | `TypeOK`, `OneFailureCostsOneRow`, `TotalsMatch`, `EventHandled`, `ShutdownCompletes` | independent failure of the calls, and that the pool neither stalls nor hangs |
| `sessions` | 1 connection of any of the six services, 1 SSH channel, 4 events before it closes; 63k states, 20 s | `TypeOK`, `NoSessionLeft`, `SessionOrder`, `RecordAgrees`, `PublishedWhileTracked`, `ServeReturns`, `BoundedStay` | no way out of a handler leaves a session behind or spoils the order of its events, and no client can hold up the shutdown |
| `ssh` | 2 session channels, queues of capacity 1, 6 packets, windows that fill and open, saves that may fail; 943k states, 170 s | `TypeOK`, `ReplayIsWhole`, `CdAgrees`, `LeaveNoticed` | what channels of one connection can do to each other, and when a departure is noticed |
| `ftp` | upload limit 1 block, 2 blocks sent, 4 commands; 632k states, 80 s | `TypeOK`, `ListenersAsTold`, `Answered`, `CwdAgrees`, `LeaveNoticed` | no listener leaks or is closed early, replies and events match, the handler returns |
| `dashboard` | 3 rows in any order, pages of 1 or 2, 1 write (of iocs that are there, any number) and 1 tick while paging, 1 failing request, stamps up to 2 old with a window of 1, six endpoints; 504k states, 140 s | `TypeOK`, `PagedWhole`, `ShortPageIsLast`, `PagingEnds` | what paging by offset can rely on |
| `session_flush`, `processor_rows`, `processor_last_seen`, `ssh_end` | as needed to reach the case | one documented claim each | section 5 |

**Why the bounds are enough to be interesting.** Capacity 1 makes a channel full
after one event, and three events among two publishers reach a full channel, a
drop, a drain and an unsubscription in the middle of another publisher's loop.
Nine units of time with a cleanup of four see an address used up, refused,
forgotten and back again. In the detector's instance a window expires, an event
overtakes another by up to the skew and by both workers, and each threshold
can be met exactly at its boundary. Two workers and two events are enough for
two upserts of one row in either order and for a cancellation while both
workers are in the middle of their calls. In `Sessions` connections meet only in
the tracker's map, where each has a key of its own, and in the shutdown, which
waits for none of them; one connection of every service therefore shows what each
handler can do, and four events let it log in, run a command or a query and
publish from a channel. In `SSH` six packets open two channels, start a shell and a line in each, or fill
the request queue of one, or that of a shell that waits to write; capacity 1 stands for the library's 16 and makes a queue
full after one request nobody takes. Two channels are what it takes for two saves
of one file. In `FTP` four commands are a PASV, a second one that may fail, a
transfer and one more; an upload limit of one block with two sent reaches the
limit, and the end of the data, and both at once. `CdAgrees` compares
`cmdCD` with the reference for every path of up to three parts a line can name, in each
directory the shell has reached; `CwdAgrees` compares the directory with all CWD and CDUP commands
so far taken as one path. In `Dashboard` a page of one
row over three rows makes three turns, and a single write placed anywhere between two
statements is enough to push a row over a page boundary, to move one, to make a
tie, or to fall between COUNT and SELECT; the table at the outset is arbitrary. Only
the iocs that are there may be written without end; that `PagingEnds` needs rows to be
added only finitely often is said with it.
Deadlock is checked where the system
cannot stop (the bus, whose subscribers may always unsubscribe again); in the
others the bounded time or number of events ends a behaviour.

**Fairness.** *EventBus*: weak fairness of a publisher's steps once it is inside
`Publish`, and of the writer that holds or waits for the lock. Both are
goroutines that never block there, so the Go scheduler runs them. Nothing is
assumed of consumers: a websocket client may stop reading for ever. That new
readers wait for an announced writer is the documented behaviour of
`sync.RWMutex` and is in the guards, not in fairness. *Processor*: weak fairness
of each worker, that is, goroutines are scheduled and store calls return; both
drivers give up on a cancelled context. *Sessions*: weak fairness of a handler that has a step to take, of the
SMB read deadline and of the HTTP server's read timeout, of redcon closing its connections when
it stops, of the services' returns after cancellation and of the deferred calls;
none of the clients. *SSH*: weak fairness of the mux once it has something to hand
on or the connection is closed, of `handleConnection`, and of the two goroutines of
each channel; none of the client. *FTP*: weak fairness of the handler wherever it
can go on, and of the accept deadline; none of the client or of data connections.
*Dashboard*: weak fairness of the request being handled and of the client's asking
for the next page; failing requests are bounded in number, writers need not write.
In *Processor*, `EventHandled` is claimed only while the
process is not told to stop: what is in the channel at that moment is lost.

**Reading the properties.** `BurstCaught` speaks of the window that ends at an
address's latest login, and `ScanCaught` of an address seen for no longer than
the scan window. Neither holds for every window in the past: a later event
detected first prunes the timestamps an earlier, still undetected one would have
counted, and a late event overwrites a newer timestamp of its service. What the
code does guarantee is stated instead, together with `ExactInOrder` for events
detected in the order of their timestamps.

`LeaveNoticed` of `SSH` allows one exception, `Stuck`: the mux waits to hand on a
request of a channel whose goroutine has returned, sits in a shell that could only be
woken by the mux, or waits to write until the client widens the window, which only the
mux could hear of. The exception is a state the code really reaches (`ssh_end`).
`LeaveNoticed` of `FTP` excepts an upload whose data connection neither sends nor
closes: it is read without a deadline. `ReplayIsWhole` speaks of a save that no other
channel's save overlapped; what overlapping saves leave on disk can be anything.
`CdAgrees` allows two deviations from a real shell, and no other. In the root
directory `resolvePath` does not clean a relative path, so `cd tmp/../etc` is refused
there. And `cleanPath` looks nothing up, so a path that goes through a directory that does
not exist and out of it again, which a real shell refuses, leads where it stands for:
`cd /ssh/../tmp` goes to `/tmp`, though there is no `/ssh`. The empty argument is left
out, as no line has one: arguments are split at white space.
`RecordAgrees` says of a login that was published that it is noted, but where it was an
attempt of an SSH handshake that broke off; once a handshake is complete, `SetLogin`
must have been called before the session ends. Of commands it says only that the
queries of MySQL are counted and nothing else is, since that is what the code does,
and not what its comment and the guide say (section 5).
`PagingEnds` needs that rows are added finitely often (`MaxWrites`): against inserts as
fast as its pages a client does not come to an end. It excepts the recent events where
they fill a page: the handler returns the same page for every offset. `PagedWhole`
speaks of a client that begins with the first page, and names the cases in which a row
can be skipped all the same: an ioc whose `last_seen` goes back or an attacker that
leaves the `since` window pulls the rows behind it forward over the page boundary; so
does an attacker that is written with a `last_seen` already behind the window while a
request whose window began earlier is being handled, which lists it once and never
again; and a client that goes by the total misses a row when another is inserted
between the COUNT and the SELECT of what it takes for the last page. `InputsAre` of
`ReplayIsWhole` says without a filter over sequences that the inputs in a recording are
the published commands: some map takes each command to its place in the file, in order,
and hits every input.

## 4. The proofs

TLC checks small instances; the theorems hold for all values of the constants
that satisfy the named assumptions. The time and event bounds are constants
too, so the theorems hold for every bound. Every invariant and action property the
passing runs check is a theorem. The assumptions are
stated in the module that declares the constants, and TLC evaluates them on every run.

- **EventBusProofs** (from `BusAssumption`: the wildcard is a topic, capacities
  are positive). `BusInv` is `TypeOK /\ ListedOpen /\ NoPanic`. `NoPanic` is not
  inductive alone: a step can only panic on a listed channel that is closed, so
  one needs that listed channels are open and listed once, and that a
  subscription being made has no channel yet. `BusTypeCorrect` and
  `BusNeverPanics` follow. `BusIsFifo` needs `FifoInv`: events are numbered in
  the order they are published, and a channel ahead of a publisher's loop holds
  nothing of this publisher as new as its present event; the read lock is what
  keeps the list ahead of the loop from changing. `BusSkipsNobody` is the action
  property `NobodySkipped`; `OfferInv` says that whatever a loop has passed has been
  offered its event, and that a loop begins at the head of the list.
- **RateLimiterProofs** (from `LimiterAssumption`, whose essential part is
  `Burst * Interval <= Cleanup`: a full bucket refills within the cleanup age;
  in `config/constants.go` 10 s against 10 min). `LimiterTypeCorrect` is
  inductive as it stands. `LimiterForgetsInvisibly` is the refinement: under
  `level <- Advanced`, a sweep changes no level (`SweepChangesNoLevel`: a stale
  bucket has refilled) and every other step is one of the abstract bucket's or
  a stutter. `LimiterBoundsRate` follows through the bucket's own invariant,
  that what was taken plus what is left never exceeds burst plus gain.
- **DetectorProofs** (from `DetectorAssumption`: positive thresholds and login
  window). `DetInv` adds to the properties that a held event is held once and
  not yet detected (`HandFresh`), that windows hold only detected events of
  their address (`WindowsSound`), and that the latest login window and the
  services of a briefly seen address are complete (`WindowsComplete`). The last
  needs care: `pruneWindow` by an old timestamp keeps everything newer, and by
  the latest timestamp drops only what is outside the latest window.
  `DetectorTypeCorrect`, `DetectorRaisesNoFalseAlarm`, `DetectorCatchesBursts`
  and `DetectorCatchesScans` follow, for any number of workers.
  `DetectorExactInOrder` needs `ServicesKept` besides: as long as an address is seen
  in order, every service whose connection is not outside the window of anything seen
  since is in the map, with that connection's timestamp or a later one. Without it an
  entry deleted too early would show only in a later verdict.
- **ProcessorProofs** (from `ProcessorAssumption`: the detector reports a technique
  once per event, and technique ids are not names of tables, which tells the calls of
  one event apart). `ProcessorInv` is `TypeOK`, `Apart` (no event is in two hands, no
  call is twice in a worker's list), `Fates` (of the calls of a taken event each is
  kept, lost or left, one of the three, exactly if it is due) and `TotalsMatch`.
  `CallsDue` shows that `CallsFor` lists the calls due, each once; from then on a
  worker only takes the first off its list. `TypeCorrect`,
  `OneFailureCostsOneRowHolds` and `TotalsMatchHolds` follow, for any number of
  workers and addresses; the latter counts the accepted upserts, so it needs that the
  upsert being accepted is not among them yet, which `Fates` says.
- **SessionsProofs** (from `SessionsAssumption`: the enabled services are among
  the six). `SessInv` is `TypeOK`, `ScriptOK` for every connection, and that only
  SSH connections have channels. `ScriptOK` gives the shape of what is left of a
  script: a "start" is only ever its first step and the session is not yet in the
  map; while the handler is on its way out one "end" is left, or the session has
  ended and what is left is the update and, for Redis, the disconnect. Neither
  property is inductive without it, since both depend on steps still to come.
  `HandlersOK` shows that the scripts of the six handlers have this shape,
  `TailScript` that taking a step keeps it, `ThenLast` that a script followed by
  the deferred calls has it. `SessionsTypeCorrect`, `TrackerIsExact`
  (`NoSessionLeft`) and `HandlersPublishWhileTracked` (an action property) follow,
  for any number of connections and channels.
  `SessionOrder` and `RecordAgrees` relate what has been published to what has not:
  `EventsInv` says which step may follow which in a script (`Follows`, `Chain`), that
  nothing is published and no channel open while the connect event is to come, that
  after the disconnect event only the end is to come, and that the session lags behind
  its events by exactly the `SetLogin` or `IncrCommandCount` that is next; `ShakenInv`,
that an SSH session past its handshake has its login noted or `SetLogin` next. `AllChains`
  shows that the six handlers' scripts are such chains, `ChainTail` and `ChainThen`
  that they stay so. `EventsInOrder` and `RecordsAgree` follow.
- **FTPProofs** (from `FTPAssumption`: an upload limit that is not zero, and
  paths whose parts are strings). `FTPInv` is
  the three properties with `LogOK` (what an entry of the log is), `Midway` (the
  command whose data connection the handler waits for or reads is the last in the log,
  and a LIST or STOR) and `Known`: no listener is open but the one `dataListen` names.
  `ListenersAsTold` is not inductive without the last, since `acceptData` closes what
  `dataListen` names. `Answered` needs `UploadTold` besides: the result of the last command
  has an upload exactly if it is a STOR that was told 226. `TypeCorrect`, `ListenersAsToldHolds` and `AnsweredHolds` follow,
  for any number of commands and any interleaving with data connections.
  `CwdAgreesHolds` is about data: one recursive function turns a path into a directory
  while it reads the parts, another joins the commands of the log into one path, and
  `Canonical` says what the directory is without going through the path. `CanonicalNext`
  is the heart of it: one part more changes the canonical directory exactly as one turn
  of the loop does. A step up takes away the last name that stays, since behind that name
  the steps up and the names are level (`LastStaying`, `StayingUp`); that needs the
  difference of the two counts over adjoining stretches (the `Excess` lemmas). `CleanIs` then
  follows for paths of every length, and `CwdStep` shows that a CWD or CDUP, refused or
  not, keeps the directory in step with the log. The induction these take is over the
  length of one path or one log: the places where two functions differ are a set of
  numbers, and its least member is refuted. A recursive function is first shown to
  exist (`WalkExists`).
- **SSHProofs** (from `SSHAssumption`: a positive capacity). `SSHInv` has the types,
  `OfferedOnce` (a channel waits to be taken or is being served, and never both:
  otherwise a second `handleSession` would start over a running one), `FileSoFar`
  (while one channel saves alone the file is the first `pos` lines of its recording,
  and once it is through all of them) and `InputsPublished` (recording and bus agree
  for every channel at every moment). `TypeCorrect` and `ReplayIsWholeHolds` follow,
  for any number of channels.
  `CdAgreesHolds` rests on `CdGoes`, which says more than the run can: from any
  directory of the fake file system a cd by *any* path, of any parts and any length, goes
  where a real shell would, with the two exceptions named in section 3: where every part of
  the path exists, what it stands for does too (`ExistingLeads`). `ResolveIs` takes
  the branches of `resolvePath` one by one, `InDirs` is the invariant that a shell is in a
  directory that exists. `cleanPath` is the loop of `cleanFTPPath` written a second time,
  so the facts about paths are those of `FTPProofs`, taken over by `OnPaths` (an instance of
  that module) and a few lemmas that the two modules' definitions are the same.
- **DashboardProofs** (from `DashboardAssumption`: a finite table, page limits that are
  not zero, parameters that are absent or one number). `DashInv` adds to the
  properties that the total of a request is never more than the rows its SELECT will
  find (`TotalOK`: rows are inserted and never deleted), that an owed row has at least
  as many rows before it as the client has been shown (`OwedAhead`, but for the recent
  events), and that while
  something is owed the request being handled sees the window of the client
  (`Asking`). The proof of `PagedWhole` brought out the third of the exceptions named
  in section 3. `TypeCorrect`, `ShortPageIsLastHolds` and `PagedWholeHolds` follow,
  for tables of any size.

Model-checked only: all liveness, which is out of the prover's reach
(`PublishReturns` and `WriterGetsLock` of `EventBus`, `EventHandled` and
`ShutdownCompletes` of `Processor`, `ServeReturns` and `BoundedStay` of `Sessions`,
`LeaveNoticed` of `SSH` and of `FTP`, `PagingEnds` of `Dashboard`).
The four claims of section 5 that have a run are false and are refuted by TLC.

## 5. Disagreements

Each of these four has a run in which TLC reaches the state the quoted line excludes.

- `processor_rows`: `learn/02-ARCHITECTURE.md:72` says that of an event the source
  address is upserted into `iocs` and a login's credentials are kept. `ipIOC` sets no
  tags, a nil slice is sent as NULL, and the column is NOT NULL, so the upsert is
  refused. `credentials` is partitioned and never gets a partition: `store/pgx.go:9-10`
  says they are created automatically on insert, but they are created at start-up,
  for three months, for `events` and `sessions`.
- `ssh_end`: `learn/03-IMPLEMENTATION.md:101` says that `End()` removes a session
  when the connection closes. While a shell waits for input, nobody takes further
  requests of its channel; when their queue is full the reader of the connection
  waits too and never sees it close.
- `session_flush`: `learn/03-IMPLEMENTATION.md:99` says the end of a session is
  flushed to its row. The insert is refused, since `sessions.sensor_id` references
  `sensors`, which nothing fills; and an update would be refused for its nil
  arrays.
- `processor_last_seen`: `learn/02-ARCHITECTURE.md:72` says the attackers upsert updates
  last-seen. With several workers the last upsert to come wins, and last_seen
  can end before first_seen.

Met while modelling, without a run of their own:

- `session/tracker.go:9-11` says that command counts accumulate as the attacker
  interacts, and `learn/03-IMPLEMENTATION.md:101` that services call
  `IncrCommandCount` during a session. Only MySQL does, for its queries: the commands
  of FTP, SSH and Redis, and the USE of MySQL, are published and never counted. The
  last clause of `RecordAgrees` says what is counted instead.
- `api/handlers.go:9-10` says pagination is supported on list endpoints by limit and
  offset, and `README.md:122` that `GET /api/events` is paginated. Without an
  address it ignores the offset and returns the first page, which is why
  `PagingEnds` excepts the recent events.
- `learn/02-ARCHITECTURE.md:83` says contact with three services in 60 seconds is
  reported as a scan. Only connect events count and the HTTP service publishes none.
- `learn/03-IMPLEMENTATION.md:40` says the entire session is recorded. An exec is
  recorded in memory and never saved (`sshd/server.go:255-263`), so only shells have a replay.
- A PASS with an empty argument is answered 230 like any other and published as a
  command only, not as a login (`ftpd/server.go:135`).

## 6. What is not modelled

- Texts, pages, banners, canned result sets, contents of fake files: data.
- Single-row lookups, statistics, exports and their formats: one read, then
  formatting. The extractor of `intel/ioc.go` is called by its tests only.
- MySQL, SMB and Redis packets: sequential encoding of data no property reads; their
  handlers, sessions and events are in `Sessions`.
- The size of an SSH channel's window: it is open or shut, and one adjustment opens it.
- A sweep of the detector's map: there is none in the code, so the entry of an address
  that has gone silent stays, and nothing promises otherwise.
- GeoIP: reads of a file. Configuration, migrations, key generation, terminal
  output, the React frontend: one-shot or I/O.
- The data race between the processor's writes to an event (`ReceivedAt`, `Geo`,
  `Tags`) and a websocket handler that encodes the same pointer: listed as a
  hazard; payloads are abstract, so a torn one could not be told from another.
- Start-up before the first service listens: sequential.

## 7. Plan

In order of importance; what is done is marked.

1. `EventBus`, its run and its safety proofs (done).
2. `TokenBucket`, `RateLimiter`, the refinement and its proof (done).
3. `Detector`, its run and its proofs (done).
4. `Processor` with the stores, its run and its proofs (done).
5. `Sessions`, its run and its proofs (done).
6. `SSH` over `FakeShell` with several channels and recordings, `FTP` with its
   data connections, both path algorithms against `Paths`, and `Dashboard`: modules,
   runs and the proofs of their invariants (done).
7. `NobodySkipped` as an action property and `ExactInOrder` (done).
8. The path algorithms for every path (`CleanIs`, `CdGoes`), and with them
   `CwdAgrees` and `CdAgrees` as invariants (done).
