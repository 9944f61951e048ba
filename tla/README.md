# Elmer in TLA+

Elmer (`src/`) is a host monitor for Linux and Windows in Go. Monitors observe
the host and emit events; a detection engine raises, correlates or passes them;
a deduplication map mutes repeats; an alert manager fans what is left out to
stdout, Discord, ntfy and a webhook. This directory models that program: the
modules below are checked with TLC on small instances, and the theorems in the
eight `*_proofs.tla` modules are proved with TLAPS for every value of the constants.

    monitors --(channel of 1024)--> main loop: engine -> dedupe -> Dispatch
                                                                     |
                                 one bounded queue per channel (256) |
                     stdout <--- worker <----------------------------+
                     Discord <-- worker (Send appends to pending; a flush loop posts)
                     ntfy, webhook <--- worker (POST, three attempts)

    persistence monitor --- persistence-baseline.json --- elmer audit --write-baseline
    webhook --(HTTP)--> discord_relay.py: log, bounded queue -> forwarder -> Discord

## Inventory

| Component | Source (`src/internal/`) | State | Operations | What is hard | What makes it correct |
|---|---|---|---|---|---|
| alert manager | `alert/alert.go` | a queue and an atomic drop counter per channel | `Dispatch`, `Run`, `worker`, `sendWithRetry` | `Dispatch` is three selects that interleave with the queue's worker; retries in place while the queue is evicted; hung channels | delivery in order, bounded copies, newest event kept, losses counted, nobody blocked |
| Discord | `alert/discord.go` | `pending` under a mutex | `Send`, `flush`, `post`, the flush loop | swap of `pending` under `Send`; rate limits that sleep; posts that arrive and time out | at most once, in order, nothing mislaid, the flush goes on |
| stdout, ntfy, webhook | `alert/stdout.go`, `ntfy.go`, `webhook.go` | none | `Send`, heartbeat | late answers | seen through the manager |
| severities, deduplication, threshold | `events/` | `last`, `series` | `Suppressed`, `Hit` | a bounded map forgotten at once, window boundaries | repeats spaced by the cooldown, levels found exactly once |
| detection engine | `detect/` | rules, threshold | `Evaluate` and what it calls | order of rules, several causes for one event | raises and never lowers; what is raised has an identity |
| main loop | `app/app.go` | the event channel | `Run` | monitors block on a full channel; two clocks (observation and handling) | every event handled |
| persistence, audit | `monitors/persistence_*.go`, `app/app_linux.go`, `app/app_windows.go` | baseline in memory and on disk | `Start`, collect, diff, `WriteBaseline` | two processes on one file, torn writes, crashes, failing collectors | nothing adopted unseen, changes reported once |
| auth monitor | `monitors/auth_linux.go` | a file, its offset | `tailFile`, `reopenRotated`, parsers | rotation and truncation under an open file, half-written lines | lines read once, in order, whole |
| file monitor | `monitors/file_linux.go` | watches: directory to path | `watchTree`, `consume` | directories made and renamed while the tree is walked by path | every directory at and below a recursive path is watched, except where the configuration has the monitor look away |
| process monitor | `monitors/process_linux.go` | two scans of `/proc` | `runNetlink`, `runPolling`, `scanProcs`, `emitExec` | a pid execs, changes or exits between two reads of it; links that cannot be read; fall-back | what runs and can be read is reported, what did not change is not |
| network monitor | `monitors/net_linux.go` | the sweep before | `snapshotConns`, `reportBaseline`, `reportNew` | four files read one after another; unreadable files; IPv6 text | what is opened is reported once |
| Windows event log | `monitors/winevt_windows.go` | a signal, a batch, documents | `next`, `pull`, `runEvtLoop` | the signal reset after the last pull; batches nothing of which renders | records handed on once, in order, none mislaid |
| eBPF programs and loader | `monitors/ebpf/` | the ring buffer, a record per CPU | `do_exec`, `do_sock`, `Run`, `parse` | programs on several CPUs; truncated argv; a full ring; memory that changes between probes | argv inside its bounds; an event says what the probes read |
| configuration, command line | `config/`, `cli/`, `app/` | none while running | `ApplyDefaults`, `buildMonitors` | - | - |
| Discord relay | `tools/discord_relay.py` | a bounded queue, a log | handlers, `forward_loop` | handler threads on a full queue | logged before forwarded |

`PROJECT.json` lists the components with their status, the hazards with their
lines, and for every modelled definition the lines it stands for.

## Modules

| Module | Models | Notes |
|---|---|---|
| `AlertDelivery` | what the fan-out promises a channel | abstract: publishing is one step, no goroutines |
| `AlertManager` | `alert/alert.go` and the dispatching half of `app.Run` | implements `AlertDelivery` |
| `AlertManager_proofs` | - | the theorems |
| `Events` | `events/events.go`, `events/dedupe.go` | operators on the two maps |
| `Detect` | `detect/detect.go` | extends `Events`; `Evaluate` is an operator |
| `Engine` | one evaluation | extends `MonitorEvents`: any event of a monitor, any series before it |
| `Engine_proofs` | - | its theorems |
| `MonitorEvents` | the events each monitor builds | extends `Detect`; the set `Observable` |
| `Pipeline` | `app.Run` | extends `Detect`; monitors, channel, main loop, clock |
| `Persistence` | both persistence monitors, the baseline file, the audit | one module, `surface` says which platform |
| `Discord` | `alert/discord.go` | checked by itself, without an MC module |
| `Discord_proofs` | - | its theorems |
| `ExecTrace` | the eBPF programs, their ring, `Run` and `parse` of `ebpf/loader.go` | |
| `AuthTail` | `tailFile` and `reopenRotated` beside a log daemon and logrotate | |
| `FileWatch` | the inotify watches of one recursive path beside a changing tree | the tree, and the walk that goes by path |
| `ProcWatch` | `ProcessMonitor` on Linux: tiers, scans, `emitExec` | |
| `Netlink` | `runNetlink` beside the kernel's proc connector | extends `ProcWatch`; checked by itself |
| `NetPoll` | `NetMonitor` on Linux and `ParseHexIPv6` | |
| `WinEvt` | `runEvtLoop` on a subscription | |
| `Relay` | `tools/discord_relay.py` | |
| `ExecTrace_proofs`, `Relay_proofs` | - | their theorems |
| `Persistence_proofs`, `Pipeline_proofs` | - | their theorems |
| `Monitors_proofs` | - | the theorems of `ProcWatch`, `NetPoll`, `AuthTail`, `WinEvt` and `FileWatch` |
| `MCMonitors` | - | `ExecTrace` to `Relay`, without `Netlink`, in one instance; `part` says which one a behaviour is of |
| `MC*` | - | instances for TLC |

Definitions whose comment begins with "Fault:" are plausible slips in the code
beside them (a dropped guard, a wrong bound, a swapped order). No next-state
relation uses one; each was substituted for the definition after it to see that
the property written for it notices (`mutants` in `PROJECT.json`).

### AlertManager

`Offer`, `Evict` and `Resend` are the three selects of `Dispatch`, with `chan`
the index of its loop; `Recv`, `SendOk`, `SendErr`, `Retry`, `GiveUp`, `Report`
and `WorkerStop` are the worker and `sendWithRetry`. An event is its position in
the order of dispatch, so that `sent[c]`, what arrived at the far side, can be
compared with that order; its severity matters only to the filter. A failed
`Send` may have arrived. `shed` counts every eviction where `dropped` is the
code's counter, which the worker resets. The dispatcher's own sends cannot be
observed half done, a Go channel being atomic; everything between two of them can.

The refinement maps the debt `todo[c]` of `AlertDelivery` to the event in
`sendWithRetry`, then the queue, then the event `Dispatch` has still to offer to
`c`. An eviction is a `Shed` of the oldest event not being sent; the code
refines it although `Evict` and `Resend` are separate steps, because only the
dispatcher adds to a queue. `NewManager` makes stdout channel 1; Discord's worker
is like any other here, its `Send` never failing (it is not in `Fallible`).

### Events, Detect, MonitorEvents

An event keeps the fields the engine decides by. The text a rule is matched
against is `obj`, and which rules match it is `hits`: any set of names. Keys are
tuples of what the code concatenates. `MonitorEvents` states for each monitor
what its events look like, with the conversions that the engine depends on: the
hex text that `/proc/net` leaves in an event (`ProcNetSocket`, `HexAsDecimal`),
the missing uid of Windows tables, the missing message of Windows logons.

### Pipeline

A monitor's goroutine builds an event (`Observe`, stamped with the time) and
sends it (`Push`); those whose send is in a select with `ctx` may `Abandon` it.
The main loop receives and evaluates (`Receive`), then handles each result
(`Handle`: deduplicate, dispatch). `Tick` may come between any two steps, since
the threshold uses the event's time and the deduplication the main loop's.
`Dispatch` is the step that appends to `log`; that it returns is
`DispatchReturns` of `AlertManager`.

### Persistence

A snapshot gives each item of the host's persistence surface a state; `Class`
says what kind of item it is and so which changes `DiffPersistence` or
`DiffPersistenceWin` reports (`Differs`). The file has a body and a modification
time. `os.WriteFile` is two steps, and in between the body is `Torn`, as it is
after a crash there and after two writers overlap. The audit is a second process
(`AuditTruncate`, `AuditWrite`). `Edit` is the host changing. `Stop` ends the
monitor wherever it is, `Restart` starts it anew. Collecting a snapshot is one
step: the monitor compares it with nothing until it is complete. Any collector may
list nothing in any sweep: a file, a directory, a registry key or a command that
fails leaves its items out, on both platforms. `LoadFails` is the error return of
`Start` when there is no state directory.

A snapshot holds more than the comparison uses, and the states of an item say so: a
SUID file has a hash and a startup item a size, and neither gives an event when it
changes. On Windows such a size then becomes part of the baseline, so `Accounted`
speaks of a startup item whatever its size (`Known`). `SweepDetects` is about the
differences an event is made of; its comment lists those that never give one.

### Discord

`Flush` takes over `pending`; `batch` is what remains of it, the message being
posted first. A post ends in 2xx, 429 (sleep, then again, four attempts in all)
or anything else, which gives the message up at once and which may come after the
message got through.

### ExecTrace

A program is `TraceEnter` (the family check and `bpf_ringbuf_reserve`), a
`TraceArg` per argument or one `TraceAddr`, and `TraceSubmit`; one runs on every
CPU of `TraceCpus`. A record of the ring keeps what the program writes with
variable length or converts: `argv`, `argv_len`, the port and the address. Cells
that were not written are `Stale`, left from an earlier record. `seen` is history:
the sizes or bytes the probes found; probes of one address need not agree, since
another thread of the process may write there between them. `TraceRead` takes the
oldest record once it is submitted, `TraceSend` is `parse` and the send. The
object for big-endian machines reads the port the other way round (`Ntohs`), and
`parse` reads the kind as little-endian all the same (`loader.go:118`), so on such a machine
`Known` holds of no record.

### AuthTail

A line is two pieces, the second with the newline; a daemon may write them in two
goes (`SplitLines`), and a first piece may fill the scanner's buffer
(`LongLines`). `TailCheck` compares the file at the path with the open one,
`TailReopen` and `TailGiveUp` are `reopenRotated`, `TailScan`, `TailTooLong` and
`TailEOF` the scanner. logrotate renames and creates, or truncates; the daemon
goes on writing to the file it has open until it reopens.

### FileWatch

A directory is identified by itself, not its name; `fwAt` is the tree, `fwPath`
the monitor's map from watches to paths. `FileWalk` is one step of `watchTree`
(add a watch at a path, list a path), `FileConsume` one event of `consume`.
`FileMove` and `FileLeave` are other processes.

For a recursive path the monitor watches that directory and what is below, not the
one above it (`Top`). `Top` is watched only if another entry of `fim.paths` names
it, or a file in it; `fwConf` is one of the `Configs`, with the single files watched
(whose directories then have a filter) and the excluded paths. `Heeded` is the two
tests by which `consume` passes over a name. `fwKept` says whether the directory found
at the start is still the one at the path: once it is moved or deleted, a new one at
its place is noticed only through `Top`.

### ProcWatch and Netlink

A pid shows two texts, its exe link and its command line, either of which may not be
there or not be readable. An exec changes them (`ProcExec`), and so does, without an
exec, a binary that is replaced (" (deleted)"), a process that writes over its
command line, or a change of who may read the link (`ProcAlter`). A scan reads a
pid in two steps and pids one after another, and passes over one whose link it
cannot read; `emitExec` reads `/proc` again for what it reports. `pwBase`,
`pwAgain`, `pwRan`, `pwSince` and `pwSincePrev` are history. A pid is reused by
`ProcExit` then `ProcExec`. `ProcCancel` is the end of ctx.

`Netlink` adds the socket: its queue, the mask it is bound with (`Groups`) and the
group the kernel sends to. As the two do not meet, the queue stays empty, and
`ProcWatch` by itself has a monitor in this tier wait in its first Read.

### NetPoll

A snapshot is four steps, one per file, each of which may fail to open; sockets
open and close between them. `Decodes` is `ParseHexIPv6` as arithmetic on the
indexes it slices by: a text of 32 digits is indexed up to `HexGroups`' last group.

### WinEvt

Records are numbered as they are written. `EvtPull` takes a batch, `EvtRender` one
record of it; a batch of which nothing rendered ends the drain like an empty one.
`EvtWrite`, the service, may come between the last pull and `EvtReset`.

### Relay

A thread records, then puts, evicts and puts again without a lock around the
three. A second `queue.Full` raises and ends the request unanswered (elmer sends
again); an empty queue at the eviction drops the new event instead.

## Runs

| Run | Instance | Shows |
|---|---|---|
| `alert_fanout` | 2 channels, one may hang, one fails; queues of 1; 3 events | `ImplementsDelivery`, `DispatchReturns`, `NoStarvation` |
| `alert_channel` | 1 failing channel, a queue of 2, 5 events | `TypeOK`, `SentInOrder`, `FreshestKept`, `CopiesBounded`, `ImplementsDelivery` |
| `detect` | every observable event, 8 rules in an awkward order | `BestRuleSound`, `SeverityIsMax`, `RaisedHaveKeys` |
| `pipeline` | 2 monitors, a channel of 1, a dedupe map of 1, window and cooldown of 2 | `BoundsOK`, `RepeatsSpaced`, `MutedAfterAlert`, `FindingsExact`, `EventsHandled` |
| `persistence` | 2 items on 4 surfaces, 2 edits, 1 audit, 1 stop | `TypeOK`, `Accounted`, `RebaselineAdopted`, `TransitionsOnly`, `SweepDetects` |
| `discord` | messages of 2, 3 attempts, 5 events | `TypeOK`, `OnceInOrder`, `NoneMislaid`, `Flushed` |
| `monitors` | the seven modules of `MCMonitors`, one per behaviour | see below |

`monitors` is one run for seven models that share nothing (what they share, the
event channel, is `Pipeline`'s): its initial states choose `part`, and only that
part moves. Its properties, by part:

| Part | Properties |
|---|---|
| `trace` | `TraceTypeOK`: argv's bounds. `TraceFaithful`: events are the records in order, each with what its probes read. `TraceDelivered`: every record becomes an event |
| `tail` | `TailOnceInOrder`, `TailWhole`: no line twice, none torn that was written at once. `TailReads`: a line in the log is read unless the log is rotated away first |
| `files` | `FileTreeWatched`: with the queue empty and nothing lost, every directory at and below the path is watched, under its present path, unless it is excluded, filtered out, or at the place of a root that went |
| `proc` | `ProcSweepsNews`: a sweep reports only pids whose link, command line or readability changed since the sweep before. `ProcPolled`: what keeps running, and has a link the monitor can read, is reported |
| `net` | `NetReportsNews`: nothing is reported more often than it was opened. `NetReported`: what stays open is reported |
| `winevt` | `WinOnceInOrder`, `WinDelivered`: also a record written just before the signal is reset |
| `relay` | `RelayLoggedFirst`: the log has everything. `RelayForwards`: what was answered is posted, given up or shed |

Five runs show where the program does not do what it says of itself
(`findings` in `PROJECT.json` quotes both sides):

| Run | Says | Does |
|---|---|---|
| `escalation` | "escalating alerts fire once each" (`dedupe.go:42`) | both levels share a key, so the cooldown mutes the second |
| `poller` | connections of the /proc poller are classified (`detect.go:262`) | its addresses are hex text and never parse |
| `first_run` | the monitor "periodically sweeps" (`persistence_linux.go:21`) | the run that makes the baseline never does |
| `ipv6` | "ParseHexIPv6 decodes the /proc/net/tcp6 form" (`util.go:31`) | it slices past the 32 digits; one IPv6 connection that is established at startup ends the process |
| `netlink` | "Netlink proc connector (root): exec and setuid events" (`src/README.md:47`) | the socket is bound to mask 2, group 2, while the kernel sends to group 1: nothing arrives, nothing fails, and no exec is ever reported |

Smaller disagreements and remarks have no run:

- drops taken from the counter within 30 s of the last note are never reported
  (`alert.go:127`);
- a listener that closes is "noted at Info" (`net_windows.go:90`) but raised as an
  outbound connection;
- "If empty, dedupe uses Title+Category" says the comment on `Event.Key`
  (`events.go:90`), while `Suppressed` lets an event without a key pass (`dedupe.go:25`,
  and so its own comment). The model does what the code does; `RepeatsSpaced` is
  about events with a key;
- `parseNetlink` skips 24 bytes where `cn_msg` has 20 (`process_linux.go:128`), so that
  a datagram that did arrive would have its CPU taken for its kind (`TakenForExec`);
- the relay's forwarder thread ends on a body that is JSON but not an object
  (`discord_relay.py:145`) and on an HTTP error that is not an `OSError` (:109). elmer
  sends objects, and `Relay` has events of that kind only.

### Bounds

`MaxEvents`, `MaxTime`, `MaxEdits`, `MaxAudits`, `MaxStops` bound behaviours and
are named in the modules; everything else is a constant of the program, made
small. A queue of one place makes every second event meet a full queue; a queue of two
with five events has evictions before, during and after a retry, with events
between the one in flight and the one shed. The threshold's
levels 2 and 3 with a window of 2 let a burst drain and come again. A dedupe map
of one key meets the prune with its second key; `RepeatsSpaced` says that only
the prune excuses a repeat, so a small map loses nothing. One stop and one audit
let each overlap the other and every step of the monitor; a second of each only
repeats the positions of the first, from states reached already (a torn file, a
first run). Four surfaces between them have every kind of item.
Three Discord attempts instead of four change how often the loop turns.
Symmetry is not used: channels, items and monitors differ.

In `monitors`: three system calls on two CPUs and a ring of two (`MaxTraced`,
`RingRecords`) reserve in one order, submit in the other, and find the ring full;
`ArgvLen` 5 with `ArgChunk` 3 and arguments of 0 and 3 bytes has one that
is cut and one for which there is no room. Three lines, three
files and one truncation (`TailLines`, `TailFiles`, `Truncations`) rotate twice
with a line in each file. Two directories, four moves and a queue of three
(`MaxMoves`, `QueueLen`) nest, rename and move away directories and overflow the queue.
The four `Configs` have the directory above unwatched, watched for itself and for a
file in it, a filter at the root and an excluded directory.
Two pids, two changes and one failed scan (`MaxChanges`, `MaxScanFails`)
have an exec within a scan and a change of the same pid after it; one text of each
kind beside none at all has a link and a command line that come and go apart. Three sockets, opened
twice altogether, with one failed read (`MaxOpens`, `MaxReadFails`) come, go and
come again within a snapshot. Four records in batches of two (`EvtRecords`,
`EvtBatch`, `RenderFails`) have several batches in a drain and one rendered in
part or not at all. Two events on two threads with a queue of one make the
threads race for its place (`MaxSends` 2 lets each come again).

### Fairness

- `AlertManager`: the dispatcher's steps and the workers of `Prompt` channels are
  weakly fair: the Go scheduler runs what can run, and ntfy, webhook (an
  `http.Client` with a time-out) and Discord (an append) return. Nothing is
  assumed of a channel outside `Prompt`, nor of events being dispatched.
- `Pipeline`: the main loop is weakly fair. A monitor's send is strongly fair: a
  full channel disables it again and again, and Go serves blocked senders in
  the order they came.
- `Persistence`: the monitor is weakly fair (the ticker ticks, the channel is
  drained, `Pipeline`), and a collection without failures happens again and
  again if collections do: without that, a collector that fails for good hides
  its items for good, as it does in the program. Restarts and audits are not assumed.
- `Discord`: the flush loop is weakly fair: the ticker fires, sleeps end, the
  client's time-out of 15 s ends every post. How a post ends is not assumed.
- `ExecTrace`: each CPU's program is weakly fair, since the verifier admits only
  programs that end, and so is the goroutine that reads.
- `AuthTail`, `ProcWatch`, `NetPoll`, `WinEvt`: the monitor's loop is weakly
  fair: tickers fire, waits are limited to a second, reads of `/proc` return. The
  daemon, logrotate, other processes and the event log are not fair, and cancellation
  may come whenever a monitor waits (`TailCancel`, `ProcCancel`, `EvtStop`). `FileWatch` has no liveness property.
- `Relay`: each request's thread and the forwarder are weakly fair
  (`urlopen` has a time-out, retries are counted). Requests are not assumed.

`Engine` runs once and stops, so its runs do not check for deadlock. All others do.

## Proofs

`AlertManager_proofs` proves for every number of channels, queue capacity,
minimum severity and number of events, from `ConfigAssumption` (which TLC
evaluates in both alert runs) and the facts about sequences of the library:

- `TypeCorrect`: `Spec => []TypeOK`. `TypeOK` bounds the attempts of an event by
  three, and that is not inductive alone: `Retry` must know that a worker that
  sends has an attempt left. `TypeInv` adds this (`AttemptInv`): `attempt[c]` is
  below `Attempts` while the worker sends, positive in backoff and zero
  elsewhere.
- `DropOldest`: `Spec => []FreshestKept`. Between `Evict` and `Resend` only the
  worker touches the queue, and it only removes; with the capacity at least one,
  `Evict` leaves room and nobody takes it away. This needs that queues are
  disjoint per channel and that the dispatcher is the only sender.
- `OrderCorrect`: `Spec => []SentInOrder`. Order of arrivals is not inductive:
  what is yet to be sent has to be ordered with what was. `OrderInv` states that
  `sent[c]`, then `job[c]`, then `queue[c]`, then the event `Dispatch` holds for
  `c` never decrease, and that nothing anywhere in them exceeds the last
  identifier given out; `Frontier` is the identifier that bounds a queue while
  the dispatcher is before, at or past its channel; `job[c]` is an event exactly
  while the worker sends or backs off. Each action either moves an
  event across one of these borders or removes one.

The theorems of `Discord_proofs` use `DiscordAssumption` (messages hold at least
one event, at least one attempt is made), whatever the sizes are.

- `DiscordTypes`: `TypeOK` needs that a message about to be posted has an attempt
  left, and that what arrived are sequences of events.
- `DiscordOrder`: `Spec => []OnceInOrder`. The events stand in one line: what
  arrived, message by message, then `batch`, then `pending`, then `next`.
  `OrderInv` says that this line increases. `Send` adds at its end, `Flush` takes
  `pending` for `batch` while that is empty, and a post moves a message from the
  head of `batch` or drops it; `CutFacts` says the cut keeps the order.
- `DiscordKeepsAll`: `Spec => []NoneMislaid`, which is inductive with the types,
  by `SplitElements`: an event of the batch is in the message or in the rest.

`ExecTrace_proofs` uses `TraceAssumption` (a chunk is at least one byte and fits
in argv), for any number of CPUs, any arguments and any sizes.

- `TraceTyped`: `TraceSpec => []TraceTypeOK`. That an argument stays inside argv is
  `ArgStaysInside`: the test before it leaves a whole chunk, and a probe writes at
  most that. It is inductive only record by record, so `RingInv` gives every record
  of the ring sizes (`Sized`), and `Exclusive` says that two CPUs never hold the
  same record: without it `TraceSubmit` could submit a record another CPU fills.
  `FillInv` is the one place that shows a program's writes leave the other records alone.
- `TraceOwners`: `TraceSpec => []Exclusive`.
- `TraceExact`: `TraceSpec => []TraceFaithful`. That a record is right once it is
  read follows from what it is while it is filled (`Held`, for each place of its
  program): the strings of the bytes packed so far are the arguments read so far.
  `ArgvStrings` is a recursive function over the bytes as the loop of `argvStrings`
  is, so one more argument extends a run of that loop (`SplitsMore`), and the loop has one
  run only (`SplitUnique`, where the least byte at which two runs differ is the
  induction). `EventsHeld` says that the reader, until it ends, has one event for each
  record taken, or none at all on the other byte order; `PortRead` is the
  arithmetic of `bpf_ntohs`. A record's slots are written by one program (`Exclusive`),
  and never after it is submitted, so what holds of an event stays true.

`Relay_proofs` uses `RelayAssumption`.

- `RelayLogs`: `RelaySpec => []RelayLoggedFirst`, with `ThreadLogged`: a thread past
  `record` has its event in the log, which is what a put relies on.
- `RelayKeepsAnswered`: what was answered is in the queue, being posted, done with or
  shed. It needs the same of an event about to be answered, whichever of the
  three ways through `enqueue` its thread took.

`Pipeline_proofs` uses `PipelineAssumption`, `EventsAssumption` and, for the last
theorem alone, three hypotheses that the run `pipeline` meets
(`MCPipelineAssumption`).

- `PipelineSpacesRepeats`, `PipelineMutesAfterAlerts`: `Spec => []RepeatsSpaced` and
  `Spec => []MutedAfterAlert`, whatever events the monitors build. Both speak of
  the log, while `Suppressed` looks in the map. `DedupeInv` ties the two: a time in
  the map is that of an alert of its key (`LastSound`), and it is of the latest
  unless more keys were alerted on than the map holds (`LastComplete`). The prune
  forgets everything, which `LastSound` survives as it stands and `LastComplete`
  only through the count of the keys so far: a prune is a full map that meets one
  more key.
- `PipelineBounded`: `Spec => []BoundsOK`. `Hit` is a loop, modelled as a function
  recursive on the number of occurrences (`Kept`). What it computes needs
  induction, and the library's theorem for that takes an operator; `SetInduction` gets
  it from the minimum principle on the naturals (`Least`), and
  `KeptSuffix` says that of rising times the loop keeps a suffix.
- `PipelineFindsExactly`: `Spec => []FindingsExact` if `DistinctLevels` (no two
  levels share a count or a title), `SingleReporter` (one monitor reports failed
  logins) and `PlainEvents` (an event has the fields of `MonitorEvents` and is not
  itself entitled as a finding). `ThresholdInv` is what makes a pruned series as good
  as the whole history: the series is a suffix of it and what was cut off is out of
  the window for good (`Remembers`), because times arrive in order (`Timely`: from
  the monitor through the channel to the history they never fall). With two reporters they
  can fall, one goroutine stamping before the other and sending after it, and then
  a cut-off occurrence is again within the window of an older one; hence
  `SingleReporter`. Elmer starts one: `buildMonitors` makes a single
  `AuthMonitor`, in which one goroutine reads the log that has the failed logins and
  stamps each with `time.Now()`.

`Engine_proofs` uses `DetectAssumption` (a rule has a target and one of the five
severities, which `NewEngine` sees to) and `EngineAssumption`. Its loops are recursive
functions as well, and its induction is the one over sets again; each loop has an
invariant of its own (`BestSoFar`, `BestOfBoth`). `ObservableFormed` goes through every
event that `MonitorEvents` lists and says that it has all fields and a severity.

- `EngineFindsBest`: `EngineSpec => []BestRuleSound`, from the two loop invariants. That
  the order of the rules does not matter is the second conjunct of `BestSoFar`: the best so
  far is compared with every match before, not with the last one.
- `EngineRaisesToMax`: `EngineSpec => []SeverityIsMax`; `CheckWorldWritable` comes
  after `ApplyRules` and may not lower what a Critical rule has raised.
- `EngineKeysRaised`: `EngineSpec => []RaisedHaveKeys`, one lemma for each of the
  places that raise. An event that two of them raise keeps the key of the second.

`Persistence_proofs` uses `PersistenceAssumption`: surfaces are of one of the two
systems, and the items of the Windows ones are startup items, commands and listed
items (`persistence_windows.go:39-46`).

- `PersistenceTypes`, `PersistenceAccounts`, `PersistenceRebaselines` and
  `PersistenceTransitions` prove the four properties of the run from one
  invariant, `PersistenceInv`. `Sourced` is its heart: what may be in the file, in the
  memory of the monitor and in that of the audit at each place of their programs,
  so that a pair known to the monitor came from an approved snapshot or from an
  event, up to the size of a startup item (`AllKnown`); while the events of a sweep are
  being sent, all of its snapshot is known except what is still to be sent (`pend`). `Dated` relates the four times (file, `os.Stat`, load, start) that
  the reload compares, `AtRest` what was reported with the snapshot that will be the
  baseline, and `Counted` bounds the writes.

`Monitors_proofs` uses `ProcAssumption`, `NetAssumption`, `TailAssumption`,
`WinAssumption` (a batch holds at least one record) and `FileAssumption` (the
directories are finitely many).

- `ProcSweeps`: `ProcSpec => []ProcSweepsNews`. While no scan fails, a pid of the
  scan under way, of the last one or of the comparison that is not what the scan before saw
  changed what it shows after that scan began (`ScanSound`, `CurSound`, `PrevSound`,
  `TodoNew`), by an exec or without one. An entry is what the pid shows now, or none if
  its link cannot be read (`ShowsNow`).
- `NetReportsOnce`: `NetSpec => []NetReportsNews`. Counting reports is not inductive:
  a socket that was seen and not yet reported is already owed one. `Credited`
  counts reports plus `Due` against openings, where `Due` depends on which of the four
  files were read and on the sweep before.
- `TailParsesInOrder`: `TailSpec => []TailOnceInOrder`, through rotations and
  truncations. Pieces get a number (`Rank`). `OrderInv` says that numbers rise along each file and
  from file to file, that what was parsed is below all that is still unread from
  the present offset on (`ParsedBehind`), and that the monitor opens another file
  only if it is a later one (`ReopensLater`).
- `TailParsesWhole`: `TailSpec => []TailWhole`. As long as nothing was truncated
  the two pieces of a line written at once are neighbours in one file (`AllPaired`)
  and the offset is never between them (`AtStart`); a truncation moves the
  end below the offset, from where the monitor resumes in the middle of what is written then.
- `WinOrdered`: `WinSpec => []WinOnceInOrder`. What is handed on rises, but that is
  not inductive: nothing in it may exceed `Passed`, the last record no longer in
  the batch, and the batch must be the records after it (`BatchInv`). `EvtGive`
  moves a document across the middle of `weOut \o weDocs` (`Moved`), `EvtRender`
  adds one at its end (`Added`).
- `WinMislaysNone`: while the loop runs, every record up to `Passed` is in that sequence
  or could not be rendered.
- `FileTree`: `FileSpec => []FileTreeWatched`, for any configuration. `TreeInv` says that until an
  event is lost each directory below the path is watched under its present path or due
  to be: somewhere on the way down to it the walk has a step to do, or an event waits in
  the queue (`WalkDue`). A move puts its event where it cuts the way, or its new
  parent is unwatched and so itself below something due (`MoveTree`); of
  the events on one way the topmost is consumed under a right path, because the
  directories above it are watched under theirs (`ConsumeTree`); a walk gives no
  directory a wrong path, as none is at two (`OnePath`). All this is said of paths the
  monitor follows (`Followed`), and whatever is on the way of such a path is followed
  too (`FollowedBegins`). `KeptInv` is about the root: as long as it is the directory
  found at the start, no event about its place waits, so an unwatched `Top` costs
  nothing.

Two more theorems of `AlertManager_proofs`:

- `CopiesCorrect`: `Spec => []CopiesBounded`. `CopiesInv` adds that what has arrived
  of the event being sent is at most the attempts made, and of an event not
  yet sent nothing, which is `OrderInv` once more.
- `DeliveryImplemented`: `Spec => Delivery!Spec` without fairness: every step of `AlertManager`
  is a step of `AlertDelivery` or a stutter under the mapping of `Debt`. `MappingInv`
  needs `FreshestKept` (the resend after an eviction finds room) and `OfferDue` (between
  the selects of a channel the event reaches the channel's minimum). `Evict`
  is the step that could go wrong: the oldest of the debt is not in the
  queue but with the worker when it is sending, and is not the one shed.

Every invariant a passing run checks is the statement of one of these theorems, and
so are its action properties. Model-checked only is liveness (`DispatchReturns`,
`NoStarvation`, `EventsHandled`, `SweepDetects`, `Flushed` and the `Delivered`, `Reads`,
`Polled`, `Reported` and `Forwards` of the monitors and the relay): it rests on fairness,
which means ENABLED, and that is out of the prover's reach.

## Not modelled

- Layout and text: messages and alerts, regular expressions, hashing, XML, argument
  parsing, the operating systems' APIs.
- `cli`, `harden`, `TestAlerts`, the heartbeat, `tools/ebpfcheck` and `vm/`: they
  print, or run straight through. The configuration is read once and appears as
  CONSTANTS; `buildMonitors` runs once, and what it decides is an initial state.
- Of the eBPF headers, which are vendored (`bpf_helper_defs.h`, `bpf_tracing.h`,
  `bpf_helpers.h`): only the helpers the programs call and the byte swap of
  `bpf_endian.h` are modelled. The rest, thousands of lines, declares helpers and
  macros for other architectures that this program never uses.
- `Load` of the eBPF objects: a sequence of calls that returns the first error.
- Of the auth monitor: the journalctl pipe, and what was still unread in a
  file when it is rotated away (the monitor drops it; `TailReads` says only what holds).
- Of the process monitor: forks and exits on the connector, and the Windows poll.
- Of the file monitor: globs, symbolic links, a directory above that is listed after the
  recursive path and not before it, the Windows handles and registry watches. Their
  events are in `MonitorEvents`.
- The Windows sweep of the network monitor reads its tables at once.

## Plan

What is left is `System`: `Pipeline` composed with `AlertManager`, the log of the first
being the dispatches of the second.
