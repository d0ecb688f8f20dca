# SideWire in TLA+

SideWire controls rooted Android devices from a host computer. This directory
holds TLA+ models of the host server, the device daemon and the protocols
between them, the TLC configurations that check them on small instances, and
TLAPS proofs of the invariants that matter for every size. Line numbers refer to the sources beside this directory.

Contents: 1 the system, 2 the plan, 3 the modules, 4 the runs, 5 the slips,
6 fairness, 7 the proofs, 8 what the code gets wrong, 9 what is left out.

## 1. The system

| part | source | state | operations |
|---|---|---|---|
| Host transport (`DeviceTransport`) | `apps/sidewire/src/transport.rs` | route table id -> (queue sender, cancel watch, credit), `next_stream_id`, `closed`, two `Notify`s, writer queue of 16 commands | `open_stream`, `send`, `send_file_chunk`, `recv`, `try_recv`, drop of a `DeviceStream`, reader task, writer task, `close`, `wait_closed` |
| Host registry and connectors | `apps/sidewire/src/server.rs:143-711` | `DeviceMap` id -> session, heartbeat misses, connector delays, discovered endpoints | `register_device`, the monitor, `device_heartbeat`, `device_listener`, `device_connector`, `discovered_device_connector` |
| Host operations | `server.rs:1283-1685` | one `DeviceStream` each | `remote_push`, `remote_pull`, `remote_mkdirs`, exec, PTY, clipboard, proxies, ping |
| Host control server | `server.rs:712-1225`, `control.rs`, `client.rs` | none between requests | one request per local connection; exec and PTY bridges |
| CLI transfers | `transfer.rs` | a set of at most `--jobs` transfers, directory batches | recursive push and pull |
| Device multiplexer | `apps/sidewired/src/transport.rs` | canceled ids, credit per id, writer queue | `MuxWriter::send`, `send_file_chunk`, `send_cancel`, `cancel_local`, `finish_stream`, `close` |
| Device serve loop | `apps/sidewired/src/main.rs:535-930` | `routes`, `cancels`, `proxies` | routing, one handler task per request, teardown |
| Device handlers | `main.rs:930-1825` | one file, child process or proxy each | `handle_push`, `handle_pull`, `handle_exec`, `handle_pty`, `start_proxy`, ... |
| Device reconnect | `main.rs:340-427` | delay, pairing grace | `run_outbound` |
| Device clipboard | `clipboard.rs` | the helper process | get, set, clear over one pipe |
| Pairing and trust | `apps/sidewired/src/security.rs`, `apps/sidewire/src/pairing.rs`, `trust.rs` | one-time PIN file, failure counter, the two stores | pairing listener, `record_pair_failure`, host and device secrets |
| Secure records | `crates/sidewire-protocol/src/security.rs` | Noise state, partial record | frame to records and back, tunnel copy |
| Handshake | `server.rs:200-511`, `main.rs:556-640` | negotiated version and capabilities | `Hello`, `HelloAck`, banner and decision |

**How they interact.** One TCP connection joins a host session and a `serve`
loop; streams are multiplexed on it as frames (kind, stream id, payload). The
host chooses the ids and opens streams; the device answers under the same id.
On either side a reader task routes frames into bounded per-stream queues and
must never wait for a stream: a full queue cancels the stream. A bounded
command queue leads to one writer task. Protocol 1.1 adds `StreamCancel`, 1.2
adds `StreamWindowUpdate`. The registry maps a device to its current transport;
monitors, heartbeats and connectors watch the transport's `closed` flag.

**What is hard.** Tasks of a multi-threaded runtime race for the route tables;
frames of canceled streams are still under way in both directions; `Notify`
loses wake-ups unless waiters arm themselves first; two windows that count
different things (bytes, frames) bound one queue; stream ids wrap; a connection
may break, a file may fail or shrink, at any step; several connectors may
produce sessions of one device. PROJECT.json lists the hazards line by line.

**What correctness means, per part.**

- Flow control: the receiver's backlog and the sender's credit stay bounded, and
  the window never starves the sender.
- File transfers: they end; a success means a whole file; nothing of the stream
  is left on the device; a broken connection releases both sides.
- Host transport: a stream in use owns the route of its id; nobody waits on a
  closed connection; no wake-up is lost.
- Registry: a dead session leaves the entry; a replaced session is closed; a
  live one is never removed by another's monitor.
- Handlers: an exit code comes after all output; a canceled command is killed; a
  clipboard request gets its own answer; a reported tunnel listens, unless a
  later start has taken its id (section 8); nothing
  survives the session.
- Pairing: a PIN pairs at most one host; failures disable it; a pairing reported
  as done is in both stores.
- Handshake: both ends agree on version and capabilities, and have a session
  only with a peer they may have one with; the device gets a session again.
- Secure records: what is read is what was written, frame by frame.
- CLI transfers: a command that reports success has transferred every file.

## 2. The plan

Order of work, the most important behaviour first.

| | module(s) | state |
|---|---|---|
| 1 | `CreditWindow`, the abstract receive window | checked, proved |
| 2 | `FileStream`, `Push`, `Pull`: one file stream with both ends | checked, proved to implement 1 (`StreamsProofs`, `RoomProofs`) |
| 3 | `HostRoutes`: the route table and the stream ids | checked, proved |
| 4 | `HostShutdown`: tasks, queue and notifications of a close | checked |
| 5 | `Registry`: sessions, monitors, heartbeats, connectors | checked, proved |
| 6 | `Exec`, `Pty`, `Clipboard`, `Proxy`, `Tunnel`: the device's other requests | checked; all but `Pty` proved (`ServicesProofs`) |
| 7 | `Pairing` with both trust stores and crashes | checked, proved |
| 8 | `Handshake`, `Outbound`: sessions over time | checked, safety proved |
| 9 | `Records`: frames over Noise records | checked |
| 10 | `Transfer`: batches, parallel files, selectors | checked, proved (`StreamsProofs`) |
| 11 | several kinds of streams on one device connection, `MuxWriter`'s task | open |
| 12 | peers of protocol 1.0 and 1.1 in `FileStream` | open |

`Streams`, `Transport` and `Services` are the roots that TLC runs: each takes
the modules of one layer, with their variables side by side, and lets a
behaviour be about one of them (`kind`, `layer`). These parts do not share state
in the code either; where parts do meet (both ends of a stream, the reconnect
loop and the handshake, the stores and the listener) one model has both.

Abstract specifications: `CreditWindow` is implemented by `Push` and `Pull`
(`FollowsCreditWindow`, proved as `TransfersFollowWindow`). Worth stating next: a closable connection with an
atomic close, implemented by `HostShutdown`; a register that holds one live
session, implemented by `Registry`.

Theorems worth proving next: the safety part of `FramesArrive`.

## 3. The modules

### CreditWindow

The receive window of a 1.2 file stream, seen as four byte offsets: `consumed
<= sent <= credited <= granted`. `FlowCredit.available`
(`apps/sidewire/src/transport.rs:36-69`, its twin in
`apps/sidewired/src/transport.rs`) is `credited - sent`; `window_consumed` of
`account_file_window` is `consumed + Window - granted`. `Send`, `Consume`,
`Grant` and `Credit` are `acquire_flow_credit`, the write of a chunk,
`send_window_update` and `FlowCredit::add`.

### FileStream, Push, Pull

One file stream with both ends. `host` is the host's task, its `DeviceStream`
and its route; `dev` is the device's handler, the stream's entries in `routes`,
`cancels`, the multiplexer's canceled set and credit table, and the state of
the reader loop; `xfer` holds the positions in the files and the accounts;
`h2d` and `d2h` are the two directions of the connection, FIFO and bounded.

A step is what a task does between two awaits. `send` is two steps (the frame is
queued, then the completion is seen and the stream checked again). A host
cancellation wins over queued frames, as in the biased `select`s of `recv`. A
frame for a stream the device no longer routes is a stray, answered with
`Error`, after which `finish_stream` forgets the id. Dropping an unfinished
`DeviceStream`, and an overflow, spawn a task that sends `StreamCancel`; these
tasks run whenever they run. `Push` adds `remote_push` and `handle_push`, `Pull`
adds `remote_pull` and `handle_pull`. File contents are counted, not compared:
the payload is a number of units, one unit standing for 128 KiB in the runs with
the code's ratios.

The `up` flag is the connection. It goes down by a fault (`LinkBreaks`), or by
either side closing it; each side notices by itself, and may still read what was
under way.

### Transfer, Streams, StreamsProofs, RoomProofs

`Transfer` is one CLI command over many such streams: `push`, `push-all` or
`pull` of a directory. Directories are cut into batches by count and by bytes
(`transfer.rs:95-170`); at most `Jobs` files are under way; the first error drops
the set, while the server goes on with what it was asked. The server resolves
the device again for every request (`resolve_device`): `Any` is a command
without a selector, and `connected` changes meanwhile. `Streams` puts
`CreditWindow`, `Push`, `Pull` and `Transfer` side by side; `Transfer`'s requests
are answered or fail, which `Push` and `Pull` justify.

### HostRoutes, HostRoutesProofs

`routes`, `next_stream_id` and `closed` of `TransportInner`. A slot of `Streams`
opens, uses and drops one `DeviceStream` after another; `OpenFetch` is
`fetch_add` with the skip of 0 and of ids in use, `OpenCheck`/`OpenInsert` the
two looks at `closed` around the insertion. The reader is three steps (look up,
deliver, unroute) because the mutex is released between them. Closing is not
atomic: the flag is set, then the reader ends and clears the table once. The
peer is left out: any frame may come for any id.

### Records, Transport

`Records` is one direction of a connection below the frames
(`sidewire-protocol/src/security.rs`, `frame.rs`): a frame, header and payload,
is cut into Noise records; each is written with its length in front by a
vectored write that may take any part of both; the reader asks for two bytes,
then for a record, until the header, then the payload, is whole. In insecure
mode the frame itself is written. A byte is named by where it is from, so a
mix-up shows. The connection may be cut anywhere. `Transport` puts `Records`
under `HostRoutes`: the layers meet in whole frames only.

### HostShutdown

The writer task with its queue, the reader task, senders waiting for a place,
for their completion or for credit, the monitor in `wait_closed`, and `close`.
tokio's `Notify` is explicit: `notify_waiters` wakes the armed futures and
leaves no permit, so the order "arm, then check the flag" is part of the
model (`transport.rs:115-120`, `:430-447`, `:475-490`).

### Registry, RegistryProofs

One device's entry in `DeviceMap` and the tasks around it. A session is a slot
from the TCP connection to the drop of its last clone: handshake, `made`,
`inserted` (the entry is written, the lock released), `live` (the replaced
session looked at, monitor and heartbeat spawned). `CloseReplaced` is the
spawned close, `MonitorRemoves` is `wait_closed` with `remove_device_if_same`.
`device_connector` connects whenever its own session is over; `Discover` is the
first answer to `discovered_device_manager`, which starts a
`discovered_device_connector`; that one first looks for an open session. A
listener's handshake holds a permit until `register_device` returns. `lag` is
the device's side of the heartbeat: how many pings in a row it left unanswered,
all of them once it is silent. Entries of different devices meet only at the
permits, so one device is modelled; delays, and the race between 45 s of device
silence and the host's misses, are choices.

### Handshake, Outbound, OutboundProofs (MCOutbound)

`Handshake` is one connection from TCP to the session: banner, client hello and
decision, the Noise exchange, `Hello` and `HelloAck`, each a packet in a mailbox
of one; `at` is where each end is, `version` and `features` what it has
concluded. The acceptor speaks first: the device in inbound mode, the host in outbound mode. A build is
a version and a set of capabilities. Each end computes for itself what it uses:
the version by `negotiated_version` (`Negotiated`), the capabilities by two rules,
since the host masks what the device says as it reads it (`server.rs:423`, `:483`)
and the device keeps what the host says and intersects it with its own before it
uses it (`main.rs:582`): `Kept` and `Usable`. An end may
time out, hang up, or send into a connection that is gone without noticing
(half open). `Outbound` is what comes before and after: `run_outbound` with its
back-off, the pairing wake-up and its grace, the host's connector in inbound
mode, the server coming and going, new pairings. `MCOutbound` chooses six pairs
of builds that differ in what matters.

### Pairing, PairingProofs

The device's pairing listener with its permits, rate limit, failure counter, the
PIN file and its expiry, the commit lock and the removal of the PIN
(`apps/sidewired/src/security.rs`); the commands of several machines that pair,
unpair, or need the host's id, with the reads and writes of the trust store they
do (`pairing.rs`, `trust.rs`); the two stores. A handler and the command that
talks to it are one pair of program counters in `hand`. The failure counter is
behind a mutex and a handler counts its failure after the exchange, so a failure
may be counted later. The daemon
may crash between any two steps and starts again with the files it left. Who
knows the PIN is a choice: a command may present the right or a wrong one.

### Exec, Pty, Clipboard, Proxy, Tunnel, Services (and ClipboardProofs, ServicesProofs)

`Exec`: the child's two pipes, `handle_exec` reading them in turns, the
connection, the host's bounded route and the control task that passes frames on
to the client. `Pty`: the shell and its terminal, `input_loop` and
`output_loop`, `handle_pty` around them, the host's `handle_control_pty` with its
two directions and its three seconds of grace. `Clipboard`: requests that take
turns at one helper process under a lock, matched to answers by order alone; a
request can be canceled, time out, or find the helper gone while it waits for the
lock or the helper; with its answer it keeps the lock until the writer has taken
it (`reply`), and nothing cancels that.

`Proxy`: `start_forward` and `start_reverse` on the host, `start_proxy` on the
device, the proxies table and its draining, starts that overlap it. A request is
its id, `forward-` or `reverse-` with the two ports as they were asked for
(`server.rs:1570`, `:1677`); `id` holds it, and the table keeps the last request
of each id and aborts the listener of the one before (`Insert`, `main.rs:860`). A
named port has one listener at most on either end (`Taken`), which is what keeps
equal ids apart; port 0 names none. Binding may fail for any other reason too, and
an accept loop may end on an error at either end (`HostDeaf`, `DeviceDeaf`), after
which the entry stays and nobody is told. `answered` is what has been written, as
it still may be between the break and the cancellation of the streams. `Tunnel`:
one connection through a tunnel in secure mode, `copy_noise_tunnel` at both
ends. They share the session and nothing else; `Services` follows one kind of
request per behaviour and states what they promise together.

## 4. The runs

All bounds are constants of a `.cfg`; none is hidden in a definition.

| run | question | instance |
|---|---|---|
| `streams` | does every transfer follow the window, never overflow and end; is a command that succeeds complete? | Window 8, Threshold 4, Chunk 2 (1 MiB, 512 KiB, 256 KiB); files of 21 units (the window alone) and 11; a receive queue of 5, one more than a window of full chunks; failures of the local file. Commands: two devices, three directories of which one path is longer than a batch, batches of two, three files with two jobs, two changes of the device map |
| `streams_faults` | with every failure at once, is success reported only for a whole file, and are both sides released and clean? | 4 units, Window 4, queue of 1, short reads, truncation, errors of both files, a broken link |
| `push_hang` | does an upload return when the device's disk fails? **No**: section 8 | the instance of `streams`, device faults |
| `pull_overflow` | does the window keep short chunks out of the overflow? **No**: section 8 | Window 8, queue of 4: 2 units per queue slot, as 1 MiB over 16 |
| `host_routes` | across the wrap of ids and a close, does every stream own its route; are frames read whole however they are cut? | two slots, two usable ids, queue of 1: every id is reused, the counter skips. Records of 3 bytes, headers of 2, payloads of 0, 1, 2, 4 and 5: a frame ends within, at and after a record's end; sockets that hold 4 bytes |
| `host_shutdown` | is any wake-up lost when closing or credit races with a waiter? | one caller, writer queue of 1, plus reader, writer, closer and monitor |
| `registry` | does one session stay, is none orphaned, no dead one kept, no delayed one closed? | three sessions (one open, one closing, one being made), both connectors or a dialling device, one permit, two misses, one fault |
| `registry_flap` | do two `--connect` endpoints of one device come to rest? **No**: section 8 | no fault at all |
| `services` | do the handlers deliver all they report, answer the right request, and leave nothing behind? | exec and shells with two chunks a pipe, connections of one or two frames; three clipboard requests and two helpers (one in front, one abandoned, one behind); two starts, each a forward or a reverse, of a named port or of any (so with one id or two, on one port or two), and one accept loop that fails; one chunk each way through a tunnel |
| `pairing` | is a PIN used once, is guessing limited, does a reported pairing hold? | two machines with one command each, one or two permits, two failures, two PINs, one crash; machines are interchangeable |
| `connect` | do both ends agree, get a session when they may, and lose half of one? | both ways of dialling, both modes, six pairs of builds, two secrets, one fault, a back-off up to 3, two quick attempts |
| `pairing_concurrent` | does a reported pairing hold when two commands of one machine run at once? **No**: section 8 | one machine, two commands |

Why these are enough: the window protocol is linear in its constants and proved
for all of them, so the runs of `Push` and `Pull` need only contain each kind of
overlap (a grant under way while the window is open, a queue that fills, an
overflow in the middle of a file, a file that needs more than one window). A
queue of one frame makes every overflow happen that a larger one allows. Two
slots suffice for routes because every property is about one stream and at most
one other that holds or takes its id; the proofs remove that bound. The device's
handlers are loops: two chunks show a first, a next and a last turn. A third
clipboard request is one that comes after an abandoned one while another waits.
A third pairing host could only do what the second does; for `PinUsedOnce` the
proof removes that bound too.

Deadlock is checked in the runs of `Registry` only: the other systems may come
to rest (a finished transfer, a closed transport, a command at its end). That
they do not come to rest too early is what the liveness properties say.
`pairing` has no liveness: a person types the PIN.

## 5. The slips

Each property has at least one definition that breaks it, in the way a change
to the code might. It stands before the definition it bends and is used by no
action; PROJECT.json pairs it with the property that tells them apart.

| slip | what changes | caught by |
|---|---|---|
| `CreditWindow`: `GrantWholeWindow` | a grant always gives a whole window | `CreditOrder` |
| `DueWhenEmpty` | grant only when all was consumed | `NeverShort` |
| `Push`: `HostAcquireUnpaid` | a chunk is sent without taking credit | `NoOverflow` |
| `FileStream`: `GrantedForgetting` | an update claims the threshold instead of the bytes | `FollowsCreditWindow` |
| `DueAfterWindow` | threshold beyond the window | `TransferEnds` |
| `DevDeliverDropping`, `HostDeliverDropping` | a full queue drops the frame silently | `OkMeansWhole`, `PullReturns` |
| `DevCancelTaskMute` | an overflow sends no `StreamCancel` | `OverflowEnds` |
| `DevUnregisterOnSuccess` | an error path keeps the table entries | `NothingLeftBehind` |
| `DroppedSilently` | dropping a stream sends no `StreamCancel` | `DeviceReleased` |
| `ClosedKeepingRoutes` | closing does not clear the table | `BreakEndsBoth` |
| `Pull`: `HostFlushUnchecked` | the received size is not compared | `OkMeansWhole` |
| `Transfer`: `JoinUnchecked`, `BatchStalling` | a failed file counts as joined; an oversized path makes batches of nothing | `TransferWhole`, `TransferEnds` |
| `HostRoutes`: `OpenInsertUnchecked` | no second look at `closed` | `SweptClean` |
| `OpenInsertReplacing`, `UnrouteSilently` | an id in use is not skipped; an overflow unroutes without canceling | `OwnsRoute` |
| `ClearNothing` | the reader leaves the table | `RecvReleased` |
| `Records`: `WritesHeadOnly`, `CutShortFinal` | a partial write forgets what it took of the body; the first record that is not full passes for the last | `FramesArrive` |
| `HostShutdown`: `SignalAfterNotify` | notify, then set the flag | `Released` |
| `MonitorCheckFirst` | check the flag, then arm | `TasksEnd` |
| `ReaderWakeNobody` | credit does not notify | `CreditWakes` |
| `Registry`: `NobodyReplaced` | a replaced session is not closed | `NoOrphan` |
| `MonitorLeaves`, `MonitorRemovesAny` | the monitor removes nothing; removes whatever is there | `EntryWatched`, `LiveKept` |
| `ConnectorCheckNothing` | the discovered connector does not look first | `Settles` |
| `BeatAnsweredKeeping`, `MissedForgetting` | an answer does not reset the misses; each miss starts the count again | `DelaysTolerated`, `DeadLeaves` |
| `Exec`: `EitherAtEof`, `CanceledNoKill` | exit after one pipe's end; the child is left | `ExitMeansAll`, `CancelKills` |
| `Pty`: `TakesCloseOnly` | only `PtyClose` ends the input loop | `CancelKills` |
| `Tunnel`: `FirstDone`, `UploadSendsDataOnly` | the first finished loop ends both; the end is not passed on | `TunnelWhole`, `WaitsEnd` |
| `Clipboard`: `GiveUpOnly`, `GiveUpIfTold` | the helper is kept after an abandoned request; no timeout | `OwnAnswer`, `WaitsEnd` |
| `Proxy`: `InsertAlone`, `AckOnly` | one proxy for all requests, a start ends the one before whatever its id; a start whose answer cannot be sent leaves its listener | `ToldMeansListening`, `ListenersEnd` |
| `Pairing`: `StoreUnchecked`, `StoreUnlocked` | the PIN read before the handshake is trusted; the lock excludes nobody | `PinUsedOnce` |
| `CountFailureOnly` | failures are counted, whichever PIN they were for, and remove none | `GuessLimit` |
| `CompletedEarly` | the host saves the device as soon as it has sent its commit | `PairedIsAutomatic` |
| `Handshake`: `OwnVersion`, `RespondAnyway` | an end takes its own version; the acceptor goes on whatever the first Noise message was made with | `SessionsAgree`, `SessionsAreWanted` |
| `TimesOutOnHost`, `HangsUpEarly` | only the host limits the handshake; the end of the connection is seen during the handshake only | `ReadyConnects`, `HalfOpenEnds` |
| `Outbound`: `SleepDoubling` | the grace does not keep the delay short | `GraceMeansFast` |

## 6. Fairness

Weak fairness per task: tokio polls a task that is ready, and a bounded channel,
a watch or a `Notify` makes a waiting task ready. A task's disjuncts share one
fairness condition, so that it may prefer any branch its code leaves open. The
one strong condition is on the clipboard's lock, because tokio's mutex is first
come, first served. A request that sends its answer under that lock is let go by
the writer, which writes the frame or ends with its connection.

Nothing makes the connection break, a user quit, a person type a PIN, or a file
fail. TCP delivers while the connection is up: the readers are fair. In
`HostRoutes` and `HostShutdown` the user's calls have no fairness;
`RecvReleased` is promised to whoever waits in `recv`. In `Registry` a handshake
ends (it has a timeout), sleeps end, and a device that was lost can be connected
again; losses are bounded by `MaxFaults`, since `Settles` can only be asked of a
device that stops failing. In `Outbound` the same holds of faults; the server
and pairings come and go as they like, and `ReadyConnects` is asked only while
the server runs and both ends may have a session. In `Services` nothing is
assumed of a command, a shell or the helper; the applications at a tunnel's ends
read what they are given, since a half-open connection ends only when they do.
In `Transfer` the server answers what it is asked: that it does is what
`PushEnds` and `PullReturns` say, and where it fails section 8.

## 7. The proofs

**StreamsProofs**, under `WindowAssumption` (the constants are naturals, the
threshold leaves a chunk of the window, the window fits `MAX_FLOW_CREDIT`; the
code's constants satisfy it) and `StreamsAssumption` (the types of the constants;
the devices are finitely many, as in any map of the server, and "any", which
stands for no selector, is no device's ID). Files, windows, queues and commands
have any size, and everything may fail.

- The window by itself: `CreditOrder` with `TypeOK` is inductive, since each
  action moves one of the four offsets and its guard keeps it behind the next.
  `WindowBound`, `CreditBound` and `NeverShort` are arithmetic consequences: the
  code of neither end checks the first, so it needs the invariant over both.
- `StreamForgotten`: `NothingLeftBehind` is not inductive. A request registers
  the entries that it promises are gone, so a second request, still on the wire
  when the handler ends, would bring them back. `Once`: there is at most one
  request on the wire, it comes before the handler, and the host will send no
  other. `Released` then says which entries are gone at which step of the ending.
- `SuccessMeansWhole`: a pull compares the lengths itself. A push rests on order.
  What the device has written, the chunks in its inbox and those on the wire are
  one unbroken sequence of bytes (`Chain`) as long as nothing has been dropped;
  after a drop the route is gone, and no `FileEnd` can get to the handler. A
  `FileEnd` of the host closes the sequence at the file's length, so the
  device's answer to it (`Answer`) is proof of the whole file.
- `CommandTransfersAll`: what a target still lacks is in exactly one of its
  requests (`PhaseOK`), and a request answered with success was served
  (`RequestOK`), by the one device if the target names it or none has come or
  gone. The batches of a push go on by at least one directory each time, also
  when no batch has room for a path.
- `TransfersFollowWindow`, the refinement: from `StreamsSpec` follow the initial
  predicate and the next-state relation of `CreditWindow` under the mapping of
  `FileStream`. A written chunk maps to `Consume` only if it was sent before,
  credit that arrives to `Credit` only if it was granted before: the frames
  under way must be accounted for. `FlowInv` places them in order between what
  the receiver has taken and what the sender has paid for (`DataCarried`), and
  between what the sender was credited and what was granted (`CreditCarried`);
  lost frames leave gaps, which is why these are inequalities. The receiver's
  own count of unreturned bytes is what the mapping computes (`ReceiverOK`).
  Every step of a task or of the connection is one of a few moves of these
  queues and accounts (`FlowMove`), and every such move is a step of
  `CreditWindow` or a stutter (`FlowStep`).

**RoomProofs**, under the same assumptions and one hypothesis, `FullChunks`: reads
of the file fill the buffer until its end (`ShortReads` is off), and the window is
at most `RouteCap - 1` chunks. In the code it is 4 chunks (1 MiB of 256 KiB) and
`RouteCap` 16, which leaves the hypothesis about reads; the run `streams` satisfies
it too. A pipe's reads are short, and there `pull_overflow` finds the overflow
(section 8). `NeverOverflows` says that `NoOverflow` holds then, with every fault
the model has. It is about two different queues:

- The receiver's. The window bounds bytes, so every frame that goes through this
  queue is made to count a chunk, however little it carries: the last chunk of the
  file, the metadata, an error and the end of the stream too. What the receiver
  has had, the queue, the wire and what the sender has handed over are in this
  order (`Slots`, `RoomInv`), and the distance is at most the window and what the
  few short frames add, which is why one place more than the window is enough. It
  needs that a receiver never grants more than a window beyond what it has
  written (`WindowKept`), from `TransfersFollowWindow`.
- The host's in an upload, where no window applies to the sender, the device. It
  holds answers: metadata, `FileEnd`, and `Error`s of the handler and of the reader
  for frames of no stream. While the host's side is on, each frame of the host is
  answered at most once: written chunks, answers still owed (`Pending`) and frames
  the device has not looked at stay below what the host has sent (`Owes`), and
  what the host has heard stays below what was answered (`Told`). So the window
  bounds the answers (`AnswersFit`). This balance ends with the device's
  connection (`CutOff`), after which only what is under way arrives. `CalmInv` is
  inductive together with `RoomInv`.

**HostRoutesProofs**, under `RoutesAssumption` (at least one usable id, a
queue of at least one frame). Three results, for any number of slots and ids:

- `TypeCorrect`: the stream types are inductive by themselves; the reader's need
  the table's.
- `ClosedSweptClean`: `SweptClean` is inductive once `ClosingClosed` (whoever is
  in closing has set the flag) is known: the insertion looks at the flag under
  the same lock as the clearing.
- `StreamOwnsRoute`: `OwnsRoute` needs to know that routes lead only to streams
  of that id (`RoutesLead`), that no two live streams share an id (`UniqueIds`)
  and that what the reader remembers is still true (`ReaderTruth`). The last one
  holds as long as the id counter does not come round while the reader holds a
  looked-up route: `NotLapped`, an explicit hypothesis of the specification. The
  code relies on it too: 2^32 streams would have to be opened between two lines
  of the reader.

**RegistryProofs**, under `RegistryAssumption`, for any number of sessions and
connectors: `TypeCorrect` needs two facts about the heartbeat (it starts last;
one that goes on has fewer misses than end it). `EntryWatched` and `NoOrphan` are
then each inductive by themselves, `NoOrphan` because it counts the session whose
`register_device` still holds `previous` among those that will close it.
`LiveKept` follows step by step: only an insertion and the monitor of the very
session, once closed, change the entry. `DelaysAreTolerated` rests on two more:
a session that is being closed as replaced never returns to the entry
(`ReplacedInv`), and while a session is open its misses are at most the answers
the device left out (`DelayInv`); only then is a closing by the heartbeat known
to be one the device has earned.

**OutboundProofs**, under `HandshakeAssumption` and `OutboundAssumption`, for all
builds, secrets, modes, faults, reconnects and pairings. What makes
`SessionsAreWanted` inductive is that the acceptor's check of its caller travels
with the packets: a `HelloAck`, or a Noise reply, in a mailbox says that the
check was passed with the secret its sender took for this connection (`Fit`), and
that both ends took the same (`Same`), even when the stored secrets have changed
since. `SessionsAgree` then needs that each end computes version and features
from its own build and the other's packet, and that the host's mask and the
device's intersection come to the same. `GraceIsFast` concerns the loop alone: every path that keeps some
grace resets the delay.

**ClipboardProofs** and **ServicesProofs**. The clipboard's
invariant: whoever is past the lock owns it; a helper nobody talks to has empty
pipes; the one that is talking finds its own question or its own answer in them
and nothing else. It assumes only that the name for "nobody" is no request. For
tunnels, whatever the ids: while the session is up, the two ends are in step about
each request (`InStep`), a named port has one holder on each end (`OneHolder`), and
the listener of a request whose handler is at work or which is in the table runs,
or its accept loop has failed (`Stands`). A start that takes the place of another
in the table has its id; with a named port both would hold the port, on the host
for forwards and on the device for reverses, so no listener that was reported is
aborted. With port 0 nothing excludes it, and what stays is one listener per id.
Every listener belongs to a handler that still has to enter it, or to the table,
which after the draining holds late entries only (`ProxyOwned`). What `ClipboardProofs` says is carried to the specification
that TLC checks: each step of `Services` is one of the clipboard's or leaves it
alone.

The two other results of `ServicesProofs` are about the queues between both
ends, by counting the frames in them. `ExitIsTheEnd`: while the host has a route,
every chunk read from a pipe is with its handler, on the wire, in the route's
queue or printed, and the exit code, which comes after both pipes' ends, is the
last frame; once it is in the queue nothing is left to lose. `TunnelPassesAll`:
what one end of a tunnel has taken from its application and the other has not
given to its own is in the one queue between them, in front of the end of the
stream, and only who has seen that end shuts the connection down.

**PairingProofs**, under `PairingAssumption`. `PinUsedOnce` is inductive with one
more fact: a PIN that has been used and is still in force belongs to a handler
that has stored its host and holds the commit lock. Whoever comes next must wait
for the lock, and by then the file is gone or another PIN is in it.
`GuessesLimited`: `GuessLimit` counts what has been tried, the code what it has
counted, and a handler counts its failure later. The invariant adds up: a failed
exchange with the PIN in force is in the counter or belongs to a handler that
has still to count it; handlers are no more than the permits, and the counter
never stands at the last failure allowed, because that one removes the PIN.
`PairedAgrees`: a pairing that was reported works at both ends, if a machine runs
one command at a time (`OneAtATime`, a hypothesis of the theorem; without it the
run `pairing_concurrent` finds the lost update of section 8). A command, its
machine's store, its handler and the device's entry for its id agree at each step
of the commit (`Agrees`), whatever crashes, and no other command touches these.

Only model-checked: all liveness (it needs fairness and ENABLED), which is also all
that `HostShutdown` promises; what `FramesArrive` says of `Records`;
`Pty`, whose two properties are liveness.

## 8. What the code gets wrong

- **An upload may never return** (`push_hang`). While `remote_push` waits for
  credit, `acquire_flow_credit` (`apps/sidewire/src/transport.rs:430-447`) wakes
  on credit, cancellation and closing only. A device whose write fails answers
  with an `Error` frame and sends no more credit; the frame stays unread. The
  loop in `remote_push` looks for it, but only after a chunk. The run finds: the
  window is used up, the write fails, both sides wait.
- **The window does not keep a pull out of the overflow** (`pull_overflow`). It
  counts bytes, the host's queue counts frames. A pull through the shell reads a
  pipe, whose reads are shorter than the buffer; 1 MiB of credit is then worth
  more than 16 frames, and a host slower than the device gets its stream
  canceled. With full chunks `streams` shows that it cannot happen.
- **Two endpoints of one device flap** (`registry_flap`). `device_connector` does
  not look at the registry. Two of them on one device replace and close each
  other's healthy sessions, about once a second, for ever; the log calls each a
  "stale device session". `registry` shows that `--discover` beside one
  `--connect` does come to rest, because the discovered connector looks first.
- **A reported pairing may be lost** (`pairing_concurrent`). Every command reads
  the host's trust store, changes its copy and writes it back without a lock
  (`apps/sidewire/src/trust.rs:48-86`). A command that needs the host's id for
  the first time writes back what it read before another's pairing was saved:
  "Future secure connections are automatic" (`pairing.rs:124`) is then wrong.
  `pairing` shows that it holds with one command per machine.

The models also show, without a claim in the repository to compare with:

- the device's canceled set keeps the id of a `StreamCancel` that comes after its
  stream is finished (`apps/sidewired/src/transport.rs:248`);
- `remote_push` reports the size of the file before the upload, not what it sent
  (`server.rs:1464`);
- a session whose connection broke during registration still replaces and closes
  a healthy one; the device has to be connected again;
- a command without an ID may put the files of one push on two devices when one
  leaves and another connects (`server.rs:1233`); `TransferWhole` names the case;
- a shell that does not read is not killed when its client goes
  (`apps/sidewired/src/main.rs:1590`); nor is a command that has closed both its
  pipes (`main.rs:1039`); `CancelKills` names both;
- a tunnel started while the session ends keeps its listener
  (`main.rs:860`); `ListenersEnd` names it;
- two starts with port 0 and the same other port, as `sidewire forward tcp:0
  tcp:80` twice, have one id (`client.rs:335`, `server.rs:1570`, `:1677`): both
  bind, both are reported as started, and the second ends the first one's listener
  on the device (`main.rs:860`). `ToldMeansListening` asks less of port 0 for this
  reason: without its case for port 0 the run `services` finds the two starts;
- an accept loop ends at its first error, of which a full table of files is one
  (`main.rs:1704`, `server.rs:1587`, `:1637`): the tunnel that was reported stops
  listening without a word and its id stays in the table. `ToldMeansListening`
  excepts the ids of such loops;
- a clipboard request keeps the lock of the one helper while it sends its answer
  (`main.rs:755`): others wait for a connection that takes nothing, until it is
  given up.

## 9. What is left out

- Older peers (1.0, 1.1) on file streams: no flow control, `Error` in place of
  `StreamCancel`. The handshake models them.
- Several kinds of streams on one device connection at once, and `MuxWriter`'s
  task, which is room on the wire here. Streams meet in that queue and in tables
  keyed by their ids only; what a queue does to its senders is in `HostShutdown`,
  what ids do to each other in `HostRoutes`.
- Single-file commands, `install`, `screencap` and `wait-for-device`: sequences
  of requests without concurrency of their own. Their temporary files stay when
  the command is interrupted (`client.rs:508`).
- Payloads, paths, the shell commands a transfer may run through: their failures
  are the faults of the models. Identities: one host and one device.
- Cryptography (Noise and SPAKE2 succeed when both ends have the same secret),
  TCP itself, the operating system's files and processes.
- Time. A timeout is a step that may happen; delays are not ordered.
- Errors of the file system on the device's PIN file: a removal that fails is
  ignored (`apps/sidewired/src/security.rs:355`, `:285`), and a host whose file
  is written but not given its permissions leaves the PIN in force (`:102`). In
  the models a host is stored or not, and a removal succeeds.
- In `Exec` a send that is cut short by a cancellation returns at once; in the code
  it ends when the frame is written or the connection is over
  (`apps/sidewired/src/transport.rs:142`).
- Errors that no property of the code speaks of: of an accepted socket, which
  ends the whole server (`server.rs:211`); the host's forward and relay listeners,
  which nothing ends (`server.rs:1635`); the exec bridge, which notices a client
  that has gone only at the next frame (`server.rs:906`); a host that pairs again
  and is cut off after its commit (`pairing.rs:113`).
- Discovery, the module's scripts, the web UI and the CLI's front end: stateless
  or presentation; PROJECT.json gives the reason for each.
