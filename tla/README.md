# TLA+ models of smart-fec-tunnel

These modules model the parts of smart-fec-tunnel in which order, loss, time,
concurrency or failure decide whether the program is right. TLC checks them on
small instances; TLAPS proves the most important properties for every value of
the constants. `PROJECT.json` lists every component, run, mutant, finding,
hazard and theorem, and maps each definition to the lines it models.

## 1. The system

A client and a server carry UDP datagrams over a lossy path. The client's
`Encoder` cuts datagrams into fragments, collects fragments in groups of ten
and adds Reed-Solomon parity shards; the server's `Decoder` delivers what
arrives, rebuilds what is missing and reports the loss back. The report drives
the sender's `Adaptive` controller, which picks the parity of the next groups.
Both directions work this way. One server serves many devices: it keeps a table
of sessions, one task and one upstream socket per session, and one shared
`Pacer`. The tunnel can run inside a QUIC carrier with its own authentication.
Beside it there are a SOCKS balancer, a controller that plans a deployment and
installs configuration revisions, and a shell loop that supervises the router.

| Component | State | Operations | What is hard about it | Module |
|---|---|---|---|---|
| Adaptive redundancy (`main.rs` 318-410) | parity, evidence counters, smoothed loss, bypass | `report`, `target` | idle reports between samples, entering and leaving the bypass, integer smoothing | `Adaptive` |
| Sequence accounting (`main.rs` 596-668) | highest, finalized and seen sequences | `observe_seq`, `sequence_report` | repeated and reordered frames around a report tick that forgets | `SequenceWindow`, `SequenceAccounting` |
| FEC encoder and decoder (`main.rs` 412-801) | pending shards; groups and reassemblies with their ages | `encode_datagram`, `flush`, `report_frame`, `frame`, `fragment`, `prune` | loss, repetition, frames later than a TTL, full tables | `FecTunnel`, `DatagramChannel` |
| Server session table (`main.rs` 1031-1288) | entries by key and session | receive handler, cleanup timer, takeover, upstream refresh | late frames of earlier sessions, restarts of either side, ended tasks, a full table | `ServerSessions` |
| Pacer (`main.rs` 868-941, 1073-1095) | tokens, time of the last refill, a fair mutex | `wait`, abort of a task | a task that sleeps with the mutex held, aborts in the sleep, late wake-ups, frames larger than the bucket | `Pacer` |
| Revision transactions (`controller.rs` 129-328) | candidate and revision directories, pointer and temporary file | `begin`, `stage`, `validate`, `commit`, `rollback`, `write_pointer` | concurrent transactions, failing calls, a crash between any two calls | `Revision` |
| Balancer (`main.rs` 1290-1455) | health flags, cursor, one task per client, a probe task | connect with fallback, probe loop | flags that all tasks change under each other, silent upstreams | `Balancer` |
| QUIC authentication (`quic_auth.rs`) | replay cache: a map and a queue | `check_and_insert`, `verify_envelope`, `make_envelope` | expiry order after the clock was set back, eviction at capacity | `ReplayCache` |
| QUIC link (`quic_relay.rs` 105-121, 410-456, 538-711) | where both ends are, heartbeat, reconnect pause | `run_client`, `run_server`, `relay_client_session` | heartbeat against late answers, two ends that choose the mode alone, reconnection | `QuicLink` |
| QUIC datagram mode (`quic_relay.rs` 171-256) | groups of fragments with their ages | `send_carrier`, `CarrierReassembly::push` | loss, reordering, expiry, a full table, a new connection | `Carrier` |
| QUIC lane mode (`quic_relay.rs` 258-296, 487-535, 628-677) | stream, reader tasks, queue, both loops | `write_stream_datagram`, `spawn_lane_readers`, the loops | back-pressure in both directions at once | `Lanes` |
| New registration of a running session (`main.rs` 453-801, 1101-1285) | a new encoder against an old decoder | registration, `flush`, `report_frame`, `frame`, `sequence_report` | counters that start again | `SessionRestart` |
| Product configuration, planner (`product_config.rs`, `controller.rs` 12-127, `bin/smart-gateway-controller.rs`) | bindings to probe, conflicts | `resolve_modules`, `Planner::build`, `SocketProbe` | overrides against dependencies, ports taken meanwhile | `ProductConfig`, `Planner` |
| Supervisor (`deploy/openwrt-smart-fec-supervisor.sh`) | failure counter | the loop, `recover` | failures that must not add up, programs stuck in any combination | `Supervisor` |
| Frame format, keys, command lines, installers | none, or files of an operator | | | left out |

How they interact: `FecTunnel` extends `SequenceWindow` (the decoder's frames
first pass `observe_seq`), leaves the redundancy that `Adaptive` would choose
free in its range, and implements `DatagramChannel`. `ServerSessions` decides
which frames reach a session at all; `Pacer` delays what a session sends.
`SessionRestart` composes a registration of `ServerSessions` with the window of
`SequenceWindow` and the groups of the decoder. `Carrier` implements the same
`DatagramChannel` as the tunnel, which is why the tunnel can run over it.
`QuicLink` says when a carrier or a lane exists; whether it admits a device is
what `ReplayCache` decides. What is stuck in `QuicLink` (a client that waits for
a preface) and in `Lanes` (saturation) is what `Supervisor` restarts.

## 2. The modules

**Adaptive.** The variables are the fields of `struct Adaptive`
(`smoothed` for `smoothed_loss_ppm`, `unavailable` for `unavailable_reports`,
`streak` for `bypass_streak`). `Report` is `report()`; its disjuncts are its
paths: `NoSample`, `HeavyLoss`, and for moderate loss `Resume`, `Raise`,
`Lower`, `Hold`. `last_loss_ppm` is left out because only unit tests read it.

**SequenceWindow** holds the pure operators of the window: `ObserveSeq` with its
`Baseline` and `Fresh` cases, `SequenceReport` with `Cutoff`, `Expected`,
`Received`, `Missing`. **SequenceAccounting** lets frames arrive in any order
and any number of times and the report timer fire at any moment. History
variables count what was processed and reported.

**FecTunnel** is one direction of a session: `EncodeDatagram`, `FlushTick`,
`SendReport` at the encoder; `Receive` (the whole of `Decoder::frame`, with
`prune`, group insertion, repair and reassembly) and `ReportTick` at the
decoder; `Tick` for the clock. A frame sent stays in `net` and may be received
never or often until it is `MaxDelay` old. A shard is the set of fragments it is
computed from. Reed-Solomon (an external crate) is modelled by its contract: any
`data` shards of a group rebuild all data shards. The size and shape checks of
`frame()` and `fragment()` hold of everything an encoder of the same session
sends; a frame with another content cannot pass the AEAD.

**DatagramChannel** is the abstract specification: datagrams come out unaltered,
at most once, in any order, perhaps never.

**ServerSessions** has one action per event at the server: `Deliver` (the whole
receive branch, its three cases `KnownSession`, `NewSession`, `Refuse`),
`UpstreamRecv`, `TaskEnds`, `Cleanup`, `ServerRestart`. `ClientStart`,
`ClientSend`, `Lose` and repeated delivery are the environment. Session numbers
are random in the code and count the starts of a client here; sequences above
`TakeoverMax` are saturated because the table tells them apart no further. The
queue of 256 packets to a session task drops packets after the table saw them;
this counts as loss behind the table and has no variable.

**Pacer.** Time is measured in refilled bytes, and relative: `age` is the time
since `updated`. `Lock` joins the queue of the fair mutex, `WaitEnough`,
`WaitSleep` and `WaitWake` are the paths of `wait()`, `Abort(i)` ends the task
at place i, in its sleep too. Arithmetic is exact where the code uses `f64`.

**Revision.** Each file-system call of `commit`, `rollback` and `write_pointer`
is an action: `MoveCandidate`, `CreateTemporary`, `WriteTemporary`,
`SwapPointer`, `Restore`; `PointerFails` and `RestoreFails` let a call fail,
`Crash` ends a process. A failing first rename of `commit` changes nothing and
needs no action. The pointer is replaced by rename as on Unix; the Windows
branch is left out. `begin()` receives the revision its caller found active.

**Balancer.** A client's task is a record: where it is, where its walk began,
the round and the offset. Every await of `handle_balanced_client` and of the
probe task is a step, so flags change between any two of them. An upstream is
up, failing or silent. A silent one accepts and does not answer, and a connection
attempt there hangs in a read of `socks_connect` that has no limit (`hung`): it
stays so when the upstream recovers, until the connection is closed (`HangUp`,
`ProbeHangUp`), perhaps never.

**ReplayCache.** `Expired` and `Evicted` say how many pairs the two loops of
`check_and_insert` pop, `Remaining` what the map keeps. The server's clock may be
set back, since `unix_time` is not monotonic; clients' clocks are off by up to
`MaxSkew`. Shape and proof of an envelope are one input, `genuine`. `Prove` keeps
the order of `verify_envelope`: timestamp, proof, cache.

**QuicLink.** Both ends of the client's current connection, with `Dial`,
`Authenticated`, `Opened`, `Wake` for `run_client`, `Authenticate` (with
`ChooseMode`), `AcceptLane`, `AuthenticationTimeout` and `LaneTimeout` for the
server's task, and the heartbeat counted in intervals. A tick may be polled late
(`LateTick`), and with `MissedTickBehavior::Delay` the ticks after it move as
well; `late` counts the intervals of a silence that are lost this way.
Path and server process come and go. `stalled` is the sending half in
`send_datagram_wait`; it must not keep the receiving half from its tick.

**Carrier** is `send_carrier` and `CarrierReassembly::push` across connections;
**Lanes** has the two loops, the stream with its credit, the reader tasks and
the queue between reader and loop. The number of lanes is the code's
`MAX_STREAM_LANES`, 1.

**SessionRestart** is the direction from the server to the client. `Register` is a
session that is registered again, after a restart of the server or after its
entry was removed, at any moment: the encoder then counts sequences and groups
from 1 while the client keeps window and groups. `SendGroup` numbers frames and
groups as `flush` does, groups of different sizes and report frames included.
`FrameArrives` is `observe_seq`, `prune`, the group's entry, the check for a
mismatch, the shard's place and the repair. Of a shard the model keeps from which
registration and from when it is; a rebuilt one has the origins of all the shards
it is made from.

**ProductConfig** has the rules of `resolve_modules` as operators in the order of
the code. **Planner** probes port by port while other programs bind and release
ports, and reports.

**Supervisor** is the loop of the script without its pauses. Carrier and client
may get stuck at any step in a way only a restart ends.

## 3. What the runs check

Run one with `tlc -config X.cfg M`.

| Run | Module, cfg | Shows |
|---|---|---|
| `adaptive` | MCAdaptive, MCAdaptive.cfg | `TypeOK`: counters stay below their triggers and parity neither wraps nor exceeds its maximum. `BypassIsQuiet`: the bypass lasts exactly as long as the run of heavy samples and sends no parity. `NeverOvershoots`. `SteadyLossSettles`: a steady loss, with idle reports in between, ends at its level |
| `sequence` | MCSequence, MCSequence.cfg | `ProcessedAtMostOnce`, `ReorderTolerated`, `ReportsAddUp` (the reports cover each sequence once and count as missing exactly what was never processed), `GapsReported` (no gap is held back for ever) |
| `fec_repair` | MCFecTunnel, MCFecRepair.cfg | `ChannelSpec`: the tunnel implements `DatagramChannel`. `RepairWorks`: a datagram whose groups can be rebuilt comes out. `BoundedTables` with a reassembly table of one |
| `fec_late` | MCFecTunnel, MCFecLate.cfg | `RepeatsAreLate`: with frames later than `GROUP_TTL` a datagram may come out twice, but only if each of its groups got frames a TTL apart. `BoundedTables` with a group table of one |
| `sessions` | MCSessions, MCSessions.cfg | `SessionsBounded`, `DevicesIsolated`, `EstablishedStays`, `ClientsServed` |
| `sessions_late` | MCSessions, MCSessionsLate.cfg | violated: `LateFramesCannotTakeOver` |
| `pacer` | MCPacer, MCPacer.cfg | `KeepsRate`: no interval carries more than the rate and one bucket, or one larger frame. `EveryoneServed` |
| `pacer_floor` | MCPacer, MCPacerFloor.cfg | violated: `FrameFits` |
| `revision` | MCRevision, MCRevision.cfg | `CurrentIsValidated`: the pointer names a complete revision as validated. `SwapIsOwn`: a transaction that succeeds put its own pointer in place |
| `revision_retry` | MCRevision, MCRevisionRetry.cfg | violated: `RetrySucceeds` |
| `programs` | MCPrograms, MCPrograms.cfg | eight programs, see below |
| `quic_shipped` | MCQuicLink, MCQuicShipped.cfg | violated: `Reconnects` with the lane setting of the shipped files |

`MCPrograms` puts the programs that do not share state in one model: like
`main()`, which runs the subcommand it is given, a behaviour picks one program in
its initial state and takes the steps of that program only. Its properties:

| Program | Properties |
|---|---|
| all | `ProgramsTypeOK`: types, and the bounds of tables, queues, counters and of the reconnect pause |
| balancer | `RefusedAfterAll`: a client is refused only after every upstream failed it. `HealthFollows`: the flags follow the upstreams over every late result, unless the probe hangs for ever at one of them. `RequestsAnswered`, unless the client's own attempt hangs for ever |
| authentication | `CacheAgrees`: queue and map agree and hold only accepted nonces, so that an envelope with a wrong proof costs nobody a nonce. `AcceptedOnce`: an envelope is accepted once, except after an eviction, for a stamp in the future, or after the clock was set back |
| link | `DeadCarrierNoticed`, `HeartbeatTolerant`: the heartbeat is neither late nor hasty, but for the time its own ticks were late. `ModesAgree`: no relay begins in two modes. `Reconnects`. `RejectedBacksOff` |
| datagram mode | `CarrierIsChannel`: refinement of `DatagramChannel`. `LossesExplained`: nothing is lost, and no session ended, but for the reasons the code names |
| lane mode | `LanesDeliver`: everything is put out in order, unless both directions are saturated |
| new registration | `OutageBounded`: which frames it can cost. `ClashIsQuick`: a frame meets shards of another registration in its group, as a mismatch or to be combined by a repair, only if less than `GROUP_TTL` and the network's delay lie between them. A session that comes back sooner does clash, and a repair then combines shards of two encoders: nothing but the age of a group prevents it |
| planner | `VerdictRight`: modules, errors and conflicts are those of a declarative reading |
| supervisor | `RestartsJustified`: a restart had its failed probes in a row. `StuckIsRebuilt` |

Bounds, and why they are enough:

- `adaptive` counts loss in tenths of a percent with the code's five levels and
  bypass threshold. The trigger counts 2, 15, 15, 3 of the code are 2, 3, 3, 3:
  each still needs several reports, so that counters interleave. There is a
  sample in each level, on the bypass threshold and at total loss.
- `sequence` has a window of 3, a minimum sample of 2 and 12 sequences: several
  reports with repeated and overtaken frames between them.
- `fec_repair` has groups of two, so that a datagram spans two groups, a group
  holds parts of two datagrams, and a partial group is flushed. The clock reaches
  `GROUP_TTL`, so groups expire, but no frame is under way that long (`MaxDelay`):
  this is the assumption under which repetition is excluded.
  `fec_late` has shorter TTLs (1 and 2) and frames that outlive both, with one
  datagram of up to three fragments and up to two parity shards: one of three
  spans two groups, which take turns in a table of one, and does come out twice.
  The clock and the datagrams end, so deadlock is not checked.
- `sessions` has two devices that each start twice and room for one session, so
  takeover, refusal and a full table all happen; one restart or ended task; one
  upstream datagram. `PerDevice` keeps its value 16 and, since a new session
  replaces all others of its device, never refuses one. With room for two sessions,
  where the table's limit is never met, the run passes as well; the proofs cover
  every limit.
- `pacer` has frames below, at and above the capacity of 4.
- `revision` has three transactions and two faults. Transactions end, so
  deadlock is not checked.
- `programs`: two upstreams and one client of the balancer (flags are changed
  under it by the probe; the proof covers any number of clients); a cache of two
  for three nonces, so that it evicts; a dead timeout of three intervals, ticks
  late by up to one; three datagrams of one or two fragments, a table of two groups and two connections;
  credit and queue of one, which four datagrams in each direction saturate; one
  new registration, groups of up to two with one parity shard, a TTL and a delay
  of one tick and three ticks of time, so that a session comes back both before
  and after its groups are gone; every profile with up to two overrides, and every
  error of the scalar fields; the script's failure limit of 3 and two faults. The
  planner ends and saturated lanes stop, so deadlock is not checked.

Fairness, and why the code justifies it:

- `sequence`: the report timer is a `tokio::time::interval` in the select loop.
- `adaptive`: `SteadyLossSettles` states its own premise, that reports with one
  loss keep coming.
- `sessions`: the timers keep firing and the client reports every two seconds;
  the network gets rid of each frame some day and does not lose every frame of
  a client (strong fairness of delivery).
- `pacer`: time passes, sleeps end, and tokio schedules the holder of the mutex.
- `programs`: the runtime polls a task whose await is over (balancer, lanes);
  timers of the link expire and what is sent over a path that is up is handled;
  the supervisor's loop goes on, every command in it having a time limit or
  returning. A read that hangs, an unlucky path and a stopped server are never
  assumed to end: the properties name them as premises.
- `quic_shipped`: as for the link in `programs`.
- `revision_retry`: calls return, and a caller whose `commit()` failed calls it
  again; after the one fault no call fails on its own.

## 4. Where the code and its words differ

- **Late frames take over** (`sessions_late`, `main.rs` 1070). A test is named
  `new_device_session_replaces_old_but_late_old_frames_cannot_take_over`. It
  covers late frames with high sequence numbers. One of the first 32 frames of
  the old session, delivered late, does replace the newest session; a client
  past its own frame 32 is then refused until the old entry is idle.
  `EstablishedStays` is what holds instead, and `ClientsServed` shows that the
  client comes back.
- **The floor of the pacer** (`pacer_floor`, `main.rs` 914). The comment says
  that one maximum-size frame always fits. The floor is computed from the V1
  header (1392 bytes); a V3 frame has up to 1419. The bucket is overdrawn
  below about 2.8 Mbit/s; `KeepsRate` and `EveryoneServed` hold all the same.
- **Retry of a failed commit** (`revision_retry`, `controller.rs` 308). The
  comment in `commit()` promises a safe retry. `write_pointer` leaves
  `.current.tmp` behind when a call fails, and `create_new` fails ever after.
- **The shipped lane setting** (`quic_shipped`, `quic_relay.rs` 117).
  `deploy/smart-fec-quic.service` line 10 sets `SMART_QUIC_STREAM_LANES=0` and
  `deploy/openwrt-smart-fec-quic.init` line 11 defaults to 0. `parse_stream_lanes`
  refuses 0, as its own test demands, and both ends read the setting only after
  the authentication: they connect, authenticate and drop the connection for
  ever. With the variable unset, or 1 at both ends, `Reconnects` holds.

## 5. What is proved

Each proof module extends the modules of its components. All proofs hold for every
value of the constants that satisfies the component's `ASSUME`.

- **AdaptiveProofs**: `TypeCorrect`, `BypassQuiet`, `NoOvershoot`. `TypeOK` and
  `BypassIsQuiet` are inductive; the counters' ranges are needed because
  `bad`, `good` and `parity` are changed by plain arithmetic.
- **SequenceProofs**: `AtMostOnce`, `Tolerance`, `Accounting`. The inductive
  invariant says that above `finalized` a sequence was processed iff it is in
  `seen`, and that `finalized` stays `ReorderWindow` behind the highest. This is
  why the tick may forget: what it forgets is refused as late. `Accounting`
  splits the counted set at the old and the new `finalized`. For SessionRestart:
  `RestartTypeCorrect`, `OutageIsBounded`, `ClashesAreQuick`. `Refusals` says why
  the old window refuses a number. `Timely` says that a shard was sent at most
  the network's delay before its group was created and before the group expires;
  `PlacedOrigins` that a repair adds no other origins. A frame that meets a group
  is itself in time for it (`GroupMet`), and so both lie in one span of
  `GROUP_TTL` and the delay.
- **PacerProofs**: `TypeCorrect`, `RateKept`. The history variable `excess` is the
  most bytes granted in any interval beyond the rate. The invariant adds
  `excess + Refilled <= Capacity`, `excess <= remaining` during a sleep, and a
  bound on the overdraft; without the second an abort in the sleep would break
  the first.
- **SessionsProofs**: `TypeCorrect`, `Bounded`, `Isolation`, `Stays`. The invariant
  adds that the table is finite and that frames in flight belong to sessions
  already started, so no frame comes from a session newer than the current one.
- **RevisionProofs**: `PointerValid`, `OwnSwap`. The invariant has two ideas.
  `create_new` makes the temporary file a lock: one owner between creation and
  rename. A revision that was ever current is `Settled`: only a commit that has
  not reached the pointer moves its directory back.
- **OperationsProofs**, the programs of an operator:
  - Balancer: `TypeCorrect`, `Refusals`, `Counts`, for any number of upstreams and
    clients. The invariant says what a client in its second round has behind it:
    the upstreams at all offsets before its place have failed. The first round
    proves nothing, as the flags it skips by change. `RoundReachesAll` shows that
    the offsets of a round cover every upstream.
  - Supervisor: `SupervisorTypeCorrect`, `SupervisorJustified`. `RestartsJustified`
    speaks of the places where `recover()` runs; it becomes inductive with
    `CountIsHonest`, that while the loop probes the script's counter is no larger
    than the true number of failures in a row.
  - Planner: `ObeysIsUnique`, `PlannerTypeCorrect`, `PlannerIsRight`.
    `ObeysIsUnique` compares `resolve_modules` with the declarative reading of a
    configuration, profile by profile. The invariant then says, for each protocol
    that is no longer to be probed, that its verdict (`VerdictOn`) is the outcome
    of a probe at some moment since the planner began.
- **QuicProofs**:
  - QuicLink: `TypeCorrect`, `Noticed`, `OneMode`, `Tolerance`, for any settings,
    dead timeout, longest pause and lateness. Intervals are bounded by pings and late
    ticks, with one more while a tick is due. For the modes the invariant follows the preface: it is
    echoed only if both ends use lanes.
  - ReplayCache: `CacheTypeCorrect`, `CacheAgreement`, `EnvelopesOnce`, for any
    capacity, window and nonces. `QueueIsMap` says that the queue holds no nonce
    twice, so that a popped pair is always the entry's own; `Remembered` that an
    accepted envelope stays in the map until its timestamp is out of the window.
    The two loops of `check_and_insert` pop a prefix of the queue; the lemmas say
    what is left after it.
  - Lanes: `LanesTypeCorrect`, `LanesKeepOrder`, for any credit and capacity. The
    invariant is that output, queue, hand and stream, one after the other, are
    the datagrams written, in order. `LanesOrdered` is the safety part of
    `LanesDeliver`, which the run checks.
- **CarrierProofs**: `CarrierTypeCorrect`, `CarrierLosses`,
  `CarrierImplementsChannel`, for any number of payloads, fragments, groups and
  sessions. The invariant: what is under way belongs to one message that has not
  come out (`Flying`); a group holds some but not all parts of one message, and
  none that is still under way (`Assembling`); every message lacks a fragment,
  came out, or is whole between network and group (`Accounted`). The refinement is
  by action: sending is `Send`, the fragment that completes a group is `Deliver`,
  all else is a stutter. This is why the numbers that start again with a session
  do no harm: fragments and groups of the old one are gone.

The types of `SequenceAccounting`, `ServerSessions`, `Pacer` and `Revision` are a
conjunct of the proved invariants and are not repeated in their runs.

Only model-checked: the liveness properties (`SteadyLossSettles`, `GapsReported`,
`ClientsServed`, `EveryoneServed`, `HealthFollows`, `RequestsAnswered`,
`Reconnects`, `RejectedBacksOff`, `LanesDeliver`, `StuckIsRebuilt`), which are
beyond this prover; and all of `FecTunnel`, whose decoder folds over sequences of
fragments. `ProgramsTypeOK` is the conjunction of type invariants that are proved
program by program. Where a proof needs induction over numbers it takes the least
element of a set (`LeastNat` in QuicProofs); what a fold or a recursive function
computes for every input is out of reach.

## 6. What is not modelled

- Frame encoding and encryption, key files and argument parsing: byte layout
  without state. Authentic frames are taken to decode to what was sent.
- Floating-point rounding in the pacer; power failures in the controller (a
  crash there is the end of a process).
- Endpoint and TLS set-up of QUIC, its retransmission and congestion control
  (`CarrierController` is a fixed window), statistics: the link is modelled by
  what its callers see of it.
- The balancer's end when `accept()` fails: nothing is promised after it. The
  count `active` is maintained and proved right but read by no code.
- The list of actions of a plan: it follows from modules and bindings, and no
  code carries it out.
- Installers, service units and the JSON merge scripts: one-shot edits. The
  restarts they configure appear as `ServerRestart`, `Register`, `ClientStart` and in
  `Supervisor`, their lane setting in `quic_shipped`.
- The feedback loop as a whole, reports of `SequenceAccounting` driving
  `Adaptive`, whose parity `FecTunnel` uses: each part is checked for every input
  the others can give it.

## 7. Plan

1. `BoundedTables` of `FecTunnel`, and the safety half of its refinement of
   `DatagramChannel`.
2. `RepairWorks`, as far as it can be stated without what the folds compute.
