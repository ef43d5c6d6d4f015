# rtlamr: models, checks and proofs

`rtlamr` receives the radio transmissions of utility meters. Samples come from an
`rtl_tcp` server or directly from a USB dongle, in *batches* of fixed *blocks*; a
decoder finds packets in each block; messages are filtered, deduplicated and
printed. Two parts make this repository different from a plain receive loop: an
optional Linux driver that shares a ring of USB buffers with the process, and a
*duty scheduler* that learns when the meters transmit and skips the decoding of
blocks in which none is expected. This directory holds the TLA+ modules for the
parts that carry state, the TLC configurations that check them, and the TLAPS
proofs. Paths below are relative to `src/`.

## 1. Inventory

| Component | State | Operations | Interacts with |
|---|---|---|---|
| Kernel USB ring (`kernel/rtlamr_usb_ring/rtlamr_usb_ring.c`) | slots with owner, sequence, status, `cpu_synced`; three cursors; `started`, `stopping`, `disconnected`, `fatal_error`; `io_mutex`, reference count | probe, open, START, STOP, read, RELEASE, EXCHANGE, close, disconnect, URB completion | USB core (callbacks in interrupt context), the direct source through ioctls and a shared mapping |
| Direct source, kernel path (`receiver_source_direct_linux.go`) | current, pending and retained batches, mappings | Next (EXCHANGE), Release, Cancel (STOP), Close | driver, receiver |
| Direct source, thread path (same file) | pthread ring of batches, cancel flag, condition variables | reader thread, next, release, cancel, close | librtlsdr, receiver |
| TCP source (`receiver_source.go`) | one batch buffer | Next, Release, Cancel, Close | receiver |
| Receiver (`main.go`) | context, digests of the previous decode, sample buffer | Run, processBlock, processDecodedMessages, Close | sources, decoder, duty runtime, encoder |
| Duty runtime (`duty_runtime.go`) | collar ring, `skippedRun`, `wasSkipped`, sample clock, checkpoint cursor | beginBlock, needsRebuild, finishBlock, observe, checkpoints, report | scheduler, receiver |
| Duty scheduler (`internal/dutyscheduler`) | per sender and candidate models, evidence, qualification, audit and refresh clocks, watchdogs, recovery | Advance, Observe, ObserveEscape, PrepareResume, ExportState, Restore* | duty runtime |
| Duty checkpoints (`duty_checkpoint.go`, `duty_runtime.go`, `state.go`) | numbered files in a directory | maybeCheckpoint, writeFinalCheckpoint, restoreBestCheckpoint | file system, scheduler |
| Source setup (`receiver_source_direct_linux.go`, `main.go`) | what has been acquired so far | open, configure, attach the driver, map, start, fall back, clean up | librtlsdr, driver, duty runtime |
| Decoder (`protocol/decode.go`, `protocol/power16.go`) | magnitudes in overlapping blocks, ring of decisions, packed ring with a mirror, preambles and their parsers | RegisterProtocol, Allocate, Decode, Reset | parsers |
| Parsers, CRC, GF(32) (`scm`, `scmplus`, `idm`, `netidm`, `r900`, `crc`, `r900/gf`) | tables | Parse, Checksum, Syndrome | decoder |
| Filters and output (`main.go`, `flags.go`) | digests of two blocks, last checksum per meter (`-unique`), meters still wanted (`-single`), recent samples | processDecodedMessages | encoders, sample file |
| Sample capture (`continuous_capture.go`) | blocks remaining | WriteBlock | file system |
| `rtlamr-collect` (`cmd/rtlamr-collect`) | last interval per meter (in a file), coalescer (in memory) | AddPoints, ShouldEmit, Update | InfluxDB, bbolt |

What is hard here, and hard to test:

* **Concurrency in the driver.** Several user threads, the completion handler and
  disconnect share the slots. STOP does not take `io_mutex`, and a resubmission
  leaves the spinlock before it submits its URB.
* **Ownership across the user/kernel border.** The collar keeps pointers into mapped
  slots of batches already processed; the device must not write there, and the
  device must still have slots to write to.
* **Replay out of order.** A decoder that wakes replays skipped blocks after the
  present block has been scheduled. Messages must be printed once and the scheduler
  told the truth about what it slept through.
* **The reader thread's ring.** A POSIX thread, a goroutine and Close share one mutex
  and one condition variable; every wake-up matters.
* **Partial failure on opening.** A dozen fallible steps, two rings of which one is
  optional, and a cleanup for each point of failure.
* **Crashes between the steps of a checkpoint**, and restarts under another mode, target
  or policy.
* **Indices.** Three histories of the same samples wrap at different places and are read
  by search, slicer and parsers as if they were contiguous.
* **Derived answers that are cached**: wake windows, the next watchdog check, qualification.
* **Shutdown** of a reader that is blocked in the kernel, with memory that is
  about to be unmapped.
* **The scheduler's promise** that it sleeps only on evidence and fails open on
  anything unexpected, after any sequence of observations, escapes, watchdog
  expiries, restarts and resumes.

`PROJECT.json` lists these hazards at their lines with the properties that would
catch them.

## 2. Modules

| Module | Models | Proofs |
|---|---|---|
| `UsbRing` | the driver | `UsbRingProofs` |
| `BatchStream` | the contract between a ring and the process (abstract) | refinement in `UsbRingProofs` |
| `KernelReceiver` | receive loop, direct source on the kernel ring, shutdown; uses the driver through `BatchStream` | in `ReceiverSourcesProofs` |
| `DirectRing` | the reader thread's ring, receive loop, shutdown; implements `BatchStream` | `DirectRingProofs` |
| `SourceSetup` | opening, fallback and cleanup of the direct source | in `ReceiverSourcesProofs` |
| `StreamSource` | TCP source, receive loop, sample capture, shutdown | in `ReceiverSourcesProofs` |
| `ReceiverSources` | composes the four: from opening to Close on whichever source | `ReceiverSourcesProofs` |
| `DutyCollar` | gated receive path, collar, decoder rebuild | `DutyCollarProofs` |
| `DutyScheduler` | the scheduler's controller in gated mode | `DutySchedulerProofs` |
| `Cadence` | how a candidate learns a sender's cadence and envelope | in `SenderModelsProofs` |
| `WakeWindows` | wake windows and the cached answer about them | in `SenderModelsProofs` |
| `DutyWatchdog` | overdue and count watchdogs, obligations | in `SenderModelsProofs` |
| `SenderModels` | the three above in one specification | `SenderModelsProofs` |
| `DutyCheckpoint` | checkpoint files over failures, crashes, restarts | `DutyCheckpointProofs` |
| `DecoderHistory` | the decoder's three histories | in `MessagePathProofs` |
| `DecoderDispatch` | registration, allocation, search, calls of parsers | in `MessagePathProofs` |
| `PacketChecks` | CRC, GF(32), which packets are believed | |
| `MessageOutput` | filters, deduplication, `-single`, sample file | in `MessagePathProofs` |
| `Collector` | `rtlamr-collect` | in `MessagePathProofs` |
| `MessagePath` | the five above in one specification | `MessagePathProofs` |

`MC*` modules instantiate them for TLC. `ReceiverSources` is a composition in which
the parts interact: `SourceSetup` decides which ring runs, the reader thread reads while
opening still goes on, and the last step of a ring's shutdown is the setup's release. In
`SenderModels` and `MessagePath` the parts share no state (each takes
what the one before it passes by value as an input), so that a behaviour follows one
part, chosen at the start: interleaving parts that cannot see each other would multiply
states and show nothing.

An operator whose comment begins with "A bug:" is a variant of the definition after it
with a plausible mistake; no specification uses it. They are listed under `mutants` in
`PROJECT.json`: with the variant in place of the definition, TLC finds the property
violated.

### UsbRing

A step is one critical section of `ring->lock` or one call into the USB core.
`pc[t]` says where a thread is inside the driver: between the commit of a release and
its resubmission (`relSubmit`, `exSubmit`), waiting (`wait`, `waitCommitted` when a
signal can no longer end the wait), between claim and cache synchronisation (`sync`),
in START (`setInterface`, `fill`, `fillKill`), STOP (`stopKill`, `stopEnd`) and close.
`mutex` is `io_mutex`. `hw[s]` says the slot's URB is with the host controller,
`ticket[s]` which transfer since START it carries: both exist in the controller
rather than in the driver's memory, and let the properties speak of the samples
themselves.

Assumed of the USB core (marked external): the bulk endpoint completes its URBs in
submission order; `usb_kill_anchored_urbs` and `usb_set_interface` return only when no URB
of the ring is with the controller; `usb_submit_urb` fails once the interface is
being unbound. Calls that fail with -EINVAL or -EBUSY before changing anything are not
steps. The wait queue is abstracted: a waiting thread tests its condition again at any time, so that
`StopWakesReaders` is about the conditions and what makes them true, not about the
calls of `wake_up_all`. The reference that a mapping holds (`mmap`) is left out: it only delays the
free.

### BatchStream

Four variables: batches taken and returned since START, the slots the device
may be writing to, and whether batches can still be taken. Batches are taken and
returned in sequence, batch `q` lives in slot `q % N`, and the device never writes to
a slot the process holds. `UsbRing` implements it under the mapping
`released <- nextRelease, claimed <- nextClaim, writable <- {s : hw[s]}, stopped <-
stopping`.

### KernelReceiver

One reader goroutine (`CheckContext`, the two halves of EXCHANGE, one step per block,
and the release of the batch) and the main goroutine (`CloseBegin` ... `CloseSource`). `held`,
`pending` and `current` are the source's queues, `collar` the positions of the blocks
the duty collar can replay. The scheduler's decisions are inputs. A USB error, an invalid
completion and an unplugged device are steps.

### DutyCollar

One step is `processBlock`. `history` is the part of the decoder's past its next
answer depends on; a packet is found when that window is contiguous. `Gated =
FALSE` is the shadow mode, in which every block is decoded. The message filter is
taken to accept, senders to be configured, and the encoder not to fail (a failure ends
the run).

### DutyScheduler

`Advance` is one block: the end of a refresh, the scoring of every candidate, the
watchdog check, qualification, selection, refresh, audit and decision, in the code's order.
`Discontinuity` is its early return. `ObserveAccepted` and `ObserveRejected` are
`observe`; `Reportable` is the order in which `DutyCollar` reports arrivals (a decoded
block its own, after a sleep first those of the skipped blocks, as escapes). `Resume` is a
restart from a complete checkpoint. Inputs, chosen freely within the limits stated in the
module: which candidates have a wake window over the block, whether an interval is
a change point, whether a watchdog check finds a new deficit, the audit's random
number, and which candidates have slept at least as much as the selected one. The confidence
bound is abstracted to a number of events that grows with each miss (`MissCost`), the wake
scale to a level. `quarantine`, `sinceFull` and `faults` exist in the model only.

### DirectRing

A step is one critical section of the ring's mutex. `asleep` is the set of threads
inside `pthread_cond_wait`; only a broadcast or a spurious wake-up (a step of its own) takes
a thread out of it, so a missing broadcast is a lost wake-up in the model as in the
code. A batch is its number; what `rtlsdr_read_sync` returns, and whether it returns at all, is an
input. That Next fails and that `Run` then asks the context whether the error counts are two steps
(`FailNext` is the second), here and in `StreamSource`, and Close may come between them. The ring
implements `BatchStream` (`Contract`), the contract `KernelReceiver` is built on.

### SourceSetup

One step per fallible call; each has a failing twin that runs the cleanup of its label.
A resource is a name in `held`; releasing what is not held (a double free, a
destroyed mutex) is recorded in `misused`. The kernel ring is tried first if configured,
the device node is polled a bounded number of times, and the reader thread is the
fallback. Whether `rtlsdr_detach_kernel_driver` succeeds is an input; the code ignores it.
`attached` says that the kernel's driver owns interface zero, which a failed attach never brings
about; whether librtlsdr still claims the interface after one is not modelled, and no property
asks to whom it belongs.

### StreamSource

A byte is its position in the stream; a read returns any prefix of what is left that fits the
buffer, with or without an error. The capture's arithmetic keeps the width of its integers
(`Half`). The file holds whole blocks: a write that fails ends the run (`AbortBatch`), and the part of a
block it may have left behind is not modelled.

### ReceiverSources

`Opening` is `SourceSetup` until it is ready or has failed. From then on `KernelReceiver` or
`DirectRing` runs, by the resource that was acquired. `SourcesNext` synchronises the last
step of their shutdown with `SourceSetup`'s `Close`.

### Cadence, WakeWindows, DutyWatchdog

What `DutyScheduler` takes as input. `Cadence` follows one sender of one candidate: an
arrival is the interval since the one before. `down` and `real` exist in the model only: they follow
restarts and arrivals without regard to `reanchor`, the code's own note of a restart, and say which
intervals the process sampled from end to end (`Measure`). `RobustPeriod`
is computed in fractions of `Unit`, which is exact for the quotients that occur in the run.
Collections of durations, of which the code takes medians and quantiles by sorting, are sets of
an index and a duration with a rank (`Ranked`); the wake scale is a whole number. In
`WakeWindows` fits change at any moment and the cached answer (`cache`) is compared with a
computation from scratch. In `DutyWatchdog` arrivals come at block ends or one block
late; the deficits found by scheduled checks are compared with those of a check at every
block, over discontinuities and restarts, for two senders or, over more blocks, for one while
the other is silent.

### DutyCheckpoint

A write is five steps (create exclusively, write and sync, temporary file, rename, sync of
the directory); any of them may fail and a crash of the process or the machine may come
between any two. A machine crash keeps synced contents and entries of a synced
directory, and anything else or not. `Start` reads what is left, under any of the
configurations. The scheduler's state is its evidence and the policy it was learned
under; `Cadence` and `DutyWatchdog` check that what they export is accepted. The report is
taken to lie in the checkpoint directory, so that its sync also syncs the entries there (no
property relies on it), and the wall clock does not run backwards: the refusal of a
file created before its session started is left out. `Start` ranks what
the code ranks: the newest file of each session, not every file. `GatedFirst` and
`NewestResumed` are stated about those; `NeverBehind`, about every file, does not hold
(section 6).

### DecoderHistory, DecoderDispatch

A magnitude is the position of its sample, a decision the position it starts at if its
samples are consecutive, so that a reader that sees stale, shifted or mixed samples
sees wrong numbers. Packed bytes have `ByteBits` bits. All three back ends (float, Power16,
packed Power16) run the same blocks. `DecoderDispatch` registers parsers in every order,
with shared preambles and the dual kernel's two preambles, and searches windows of a few
bytes; the calls each parser gets are compared with the positions of its preamble. The calls of
a block are a set, told apart by the search they come from and the place in its list of
parsers: the code's loop over a map leaves their order open.

### PacketChecks

The tables are built and used as in the code, at the real sizes (16-bit CRC, GF(32), 21
symbols); words of bits are sets. `IDM` is the only shortened packet (19 of 75 bytes between
its two checksums), and the only one disturbed in one bit; in the others the channel disturbs one or
two bits or decisions.

### MessageOutput, Collector

A message is its meter and its checksum. The command line (`flags`: `-filterid`, `-unique`, `-single`,
`-samplefile`) is chosen at the start and stays. `Collector` has one IDM meter, whose
intervals carry a wrapping counter, and one R900 meter under the coalescer; a failed write ends
the process, a failed update of the meter map is ignored as in the code.

## 3. Runs

| Run | Bounds | Shows |
|---|---|---|
| `usb_ring` | 4 slots (the driver's minimum), 5 sequences, 2 I/O threads of which one also stops | slot ownership, order, lifetime; implements `BatchStream`; STOP and disconnect wake blocked readers; STOP and close return |
| `usb_ring_closed` | the same | **violation**, see section 6 |
| `receiver_sources` | 4 slots, batches of 2 blocks, collar of 3, 6 batches on the kernel ring and 5 on the thread's; a driver that reports 3 or 4 slots, 2 attempts to open the node; 16 bytes in blocks of 3 on TCP | collar ownership, no refused release, device fed, ordered shutdown; clean opening; the thread's ring in order, no lost wake-up, implements `BatchStream`; TCP blocks and capture exact; opening and delivery end, Close too unless a read of the SDR never returns |
| `duty_collar_gated` | collar 4, warm-up 2, 9 blocks, every pair of transmissions | exactly-once publication, truthful escape reports |
| `duty_scheduler` | 2 candidates, 1 sender, 8 blocks, refreshes of 1 block, refresh intervals of 2 and, under the wider envelope, 1 | sleep on current evidence, recovery after alarms, lazy qualification, new epoch per envelope, refresh in time and ending as planned |
| `duty_scheduler_escape` | 1 candidate, 1 sender, 11 blocks | **violation**, see section 6 |
| `sender_models` | 6 arrivals at 5 intervals with 2 epochs or restarts; 5 fits for 2 senders over 8 blocks; 1 sender over 9 and 2 senders over 5 blocks of watchdogs | history free of restarts, cadence sound, cached windows exact, scheduled checks exact |
| `duty_checkpoint` | 4 configurations, 3 starts, 3 writes, 1 failing step, 1 crash | crash safety, immutability, gated evidence first among the sessions' newest |
| `duty_checkpoint_hourly` | 2 modes, 3 starts, 6 writes, no failure | **violation**, see section 6 |
| `duty_checkpoint_strongest` | 2 modes, 4 starts, 6 writes, no failure | **violation**, see section 6 |
| `message_path` | 6 geometries on 3 back ends over 12 blocks; 4 parsers in every order; 1 or 2 errors in SCM, SCM+ and R900 packets and 1 in a shortened IDM packet; 3 meters under `-single` with and without `-filterid` and `-samplefile`, 2 under `-unique` with and without a sample file; a collector's clock over 5 intervals with a counter of 3 | histories, dispatch, packet checks, output, collection |
| `message_path_single` | the same | **violation**, see section 6 |

The bounds let the interesting cases happen: five sequences over four slots recycle
a slot of the first generation while later ones are in flight; a collar of three blocks
over batches of two is the rounding case of `retainBatches`, with the smallest ring the
source accepts, and a driver that reports one slot fewer takes the fallback; one
batch more than slots makes the thread's ring wrap, fill up and run empty; sixteen bytes
in blocks of three leave a tail after every batch; nine blocks with a collar of four allow
a short replay, a full rebuild after a sleep longer than the collar, and a second
sleep after either. The scheduler runs use the smallest warm-up `New` accepts (two
intervals), so that a candidate is learned after three arrivals and sleeps from the
fifth block on; the remaining blocks hold an escape, its recovery and another
selection, a widened envelope or a refresh. A refresh that ends under a widened envelope and
tightens it takes nine blocks, and that every sender has its own gate two senders: both
are beyond the run's bounds and covered by the theorems about the same properties, which
hold for any set of senders and any length (the former also by `duty_scheduler_escape`, over
eleven blocks). The wider envelope's interval is no longer than the refresh, the policy that `New` accepts
although such a refresh is begun again before it ends: it occurs in the run. One fault (a rejected arrival, a
discontinuity or a restart) may come anywhere (`MaxFaults`).

Six arrivals fill a history of four, with a change point before or after and a fit
from the remainder; intervals of 20, 40 and 60 are one and several missed arrivals,
19 and 27 jitter and change. The wake windows' fits have windows that meet in a block and
windows exactly a block apart; windows that touch are excluded by the property
(`Apart`), see section 6. Three starts and three writes are a session, another one
that leaves it a step ahead, and a third that meets what both left. Twelve blocks take every
decoder ring at least three times round for packets shorter than, equal to and longer
than a block. The collector's counter of three repeats within five intervals, with a
threshold between twice the jitter and the interval, as in the code.

`duty_scheduler` uses the symmetry of the candidates: the controller treats them alike, its choice
by sleep fraction being an input. The runs with liveness properties use no symmetry.

Most properties of the compositions are conjunctions: `RingSafe`, `StreamExact`,
`SetupClean`, `CadenceSound`, `WindowsExact`, `WatchdogExact`, `CrashSafe`, `HistoryExact`,
`DispatchExact`, `PacketsBelieved`, `OutputExact` and `CollectedOnce` collect what a component
promises; the component's module states and explains each part under a name of its own.

Deadlock checking is off in the runs whose behaviours end: a bounded stream runs
out, a closed receiver does nothing more.

### Fairness

* `UsbRing`: a thread inside the driver keeps executing driver code, and URBs that
  somebody is cancelling complete. Nothing is assumed of the device, of signals or of
  the process calling the driver again, so `StopWakesReaders` cannot lean on data arriving.
* `ReceiverSources`: opening is sequential code. On the kernel ring goroutines run when they
  can, and a blocked exchange is certain to return only after STOP, which is what
  `StopWakesReaders` shows of the driver. On the thread's ring threads run when they can; a thread asleep in
  `pthread_cond_wait` is not assumed to wake by itself, and a read of the SDR is not assumed to
  return: `rtlsdr_read_sync` waits without a timeout and Cancel does not interrupt it. Close is
  therefore shown to get as far as joining the thread, and to return unless the
  thread stays in its read for ever (`CloseReturns`). On TCP a blocked read is certain
  to end only after Cancel has closed the connection.

## 4. Proofs

Every theorem holds for all values of the constants that satisfy the named assumptions
(`RingAssumption`, `ReceiverAssumption`, `SourcesAssumption`, `CollarAssumption`,
`SchedulerAssumption`, `CheckpointAssumption`, `ModelsAssumption`, `PathAssumption`), each of
which restates checks or constants of the code; the last two collect the assumptions of the parts
of `SenderModels` and `MessagePath`. TLC evaluates them in the runs. Two theorems have a further
hypothesis, which the code does not check and the defaults and the runs' constants satisfy:

* `CaptureFits` (`StreamExactThm`): the capture's byte count times a second in nanoseconds fits an
  `int64`, about half an hour at 2.4 million samples a second. Beyond it the statement is
  false (section 6).
* `RefreshShortens` (`RefreshedInTimeThm`): a wider envelope does not lengthen the refresh
  interval, which holds for intervals of at least a minute, and a recovery lasts two blocks or more.

What is proved, and along which argument:

* **UsbRing.** `RingInvariant` proves `TypeOK /\ RingInv`. The properties are not
  inductive by themselves: that a claimed slot keeps its sequence needs the window of
  sequences each slot state stands for (`SlotInv`, `CursorInv`), which needs what a thread
  relies on between its critical section and its submission (`PendingInv`), which needs
  the mutex (`LockInv`). `TicketInv` ties submission order to sequence order,
  `LifeInv` the reference count to file and device. `DmaExclusiveThm`, `ClaimsHeldThm`,
  `StreamOrderThm`, `ReadyIsNextThm` and `FreedIsQuietThm` follow; `ImplementsStreamThm`
  shows that every driver step is a `BatchStream` step or a stutter.
* **KernelReceiver.** `ReceiverInvariant` proves `TypeOK /\ ReceiverInv`: `QueueInv` says
  exactly which batches `held`, `pending` and `current` contain, `CollarInv` which blocks
  the collar contains, and `CollarHeld` that the latter lie in the former; the step
  needs arithmetic about rounding a collar up to whole batches (`RetainCovers`).
  `CollarOwnedThm`, `NoReleaseRefusedThm`, `DeviceFedThm` and `MappedWhileReadingThm` follow.
* **DirectRing.** `ThreadInvariant` proves `ThreadInv`: `OrderInv` says of each slot, counted
  from the consumer's, whether it is full and with which batch; `SleepInv` that a sleeping
  thread is at its wait and nothing it waits for has come, which is what makes a
  missing broadcast a contradiction; `CloseInv` the order of Close. `RingSafeThm` follows, and
  `ContractThm` maps every step to a `BatchStream` step or a stutter.
* **ReceiverSources.** `RunsThread` and a step of `KernelInSources` show that a behaviour of the
  composition is one of each ring in the ring's variables, so that `RingSafeThm`,
  `RingContractThm` and `KernelInSources` carry the rings' theorems over. `SetupInvariant`
  says for every program point of the opening and its cleanup which resources are held
  (`SetupInv`); `SetupCleanThm` follows. For TCP and the capture, `StreamInv`
  says that what has been delivered, what is in the batch and what is left in the buffer are
  consecutive parts of the stream and that the first two are whole blocks (`Aligned`), that file and
  remaining count make up the capture (`CaptureInv`), and where an error may come from
  (`ConnInv`); `CaptureSize` shows that the code's two roundings give the least number of
  blocks. `StreamInvariant` and `StreamExactThm` follow.
* **DutyCollar.** `CollarInvariant` proves that the youngest entries of the collar are
  the current sleep, in order and with their samples (`CollarTail`); `NoMissingRawThm` and
  `CollarTypeOK` follow. `HeardInvariant` adds `HeardInv`: what has been published, in terms of
  which blocks were decoded, replayed or given up, what the scheduler was told of each, and what
  the decoder's window contains between two blocks. A replay is a fold over the collar: a lemma
  shows that the run of its intermediate states exists (`ReplayRunExists`), and the published
  messages are followed along it by induction over a set of positions (`ReplayShortExact`,
  `ReplayAllExact`). `PublishedExactlyOnceThm` and `EscapesReportedThm` follow.
* **DutyScheduler.** `SchedulerInvariant` proves `TypeOK /\ SchedulerInv`. That sleep is
  justified needs that a qualified candidate still qualifies (`EvidenceInv`), although
  the code recomputes qualification only when something may have changed; each change
  of a candidate has a lemma (`EpochFacts`, `ScoreFacts`, `RequalifyFacts`, ...) saying what
  it does to evidence and qualification, and `Advance` is their composition. That alarms
  hold needs `QuarantineInv` (the quarantine ends no later than the recovery) and `AuditInv`
  (an arrival in an audited block is an escape). `SleepJustifiedThm`, `AlarmRecoversThm`
  and the action property `EnvelopeThm` follow. `QualificationCurrentThm`, the
  repository's "forced-full-refresh oracle" as a theorem, needs that a candidate that a full
  recomputation would change is one `qualificationDue` reports (`SettledInv`). The refresh
  theorems rest on `RefreshInv`, which counts the blocks since the last full one against the
  planned refresh, under way (`UnderWayInv`), planned (`PlannedInv`) or not (`UnplannedInv`), and on
  `ApartInv` (the next refresh is planned together with the current one, after the interval of
  the envelope of that moment), from which `RefreshAsPlannedThm` follows for every policy.
* **DutyCheckpoint.** `CheckpointInvariant` proves `CheckpointInv` for any number of starts,
  writes, failing steps and crashes. A completed checkpoint survives because its file and
  its directory entry are synced before it counts (`CompletedInv`) and no later write can
  reach its name; that needs what lies ahead of a run: every number it has yet to reach is
  free or taken by a file it cannot resume (`AheadInv`). `RefusedInv` counts the refused writes
  by the files passed, `ClockInv` ties the scheduler's clock to the blocks. `CrashSafeThm` and
  the action properties `ImmutableThm` and `GatedFirstThm` follow.
* **WakeWindows.** `WindowsInvariant` proves `WindowsInv`: a cached end belongs to a window that
  has begun, and while none is open no window covers anything before the cached start of the next
  (`CacheInv`). `AwakeWindowIs` shows that the code's rounded division finds the window it should,
  `ComputedIs` that the minimum over the senders is the start of the next. `WindowsExactThm`
  follows.
* **DutyWatchdog.** `WatchdogInvariant` proves `WatchdogInv`: what is kept of a sender in terms of
  its arrivals (`SenderInv`) and, unless something is dirty, that no silence and no deficit is
  due before the next scheduled check (`DueInv`). A count window changes its answer only when the
  arrival at its threshold leaves it (`FewIs`, `NotDueIs`), which is the time `CheckTimes`
  asks for (`TimesIs`). `WatchdogExactThm` follows.
* **Cadence.** `CadenceInvariant` proves `CadenceInv`. A sender that has been seen and was not heard
  since a restart is one the code has yet to re-anchor, which makes the history that of the intervals
  sampled from end to end (`CadenceKind`, `HistoryRealThm`). A learned model was fitted to the
  newest of them, its period is the shortest if that divides them all, and its envelope reaches the
  jitter quantile of what the fit leaves unexplained (`CadenceFit`). The envelope is measured in units of the wake scale, since that
  is what widening and tightening keep (`Widened`, `Tightened`). The period is cut to whole units
  of time, an error of at most one for every period an interval spans (`CutPeriod`), which is why
  the envelope covers intervals of no more periods than `JitterMargin`. `MedianIs` and
  `RankedIs` say what the median and the quantile are of a finite collection, `FitIs` what four
  refinements give. `CadenceSoundThm` follows.
* **DecoderHistory.** `RingsInvariant` proves `RingsInv` for every geometry and back end: the
  cursors agree with the blocks received (`IndexInv`), every cell of the magnitude
  blocks, of the ring of decisions and of the packed ring with its mirror holds the sample
  that its distance from the cursor stands for (`SignalInv`, `QuantizedInv`, `PackedInv`), and a
  rebuilt decoder's rings hold replayed samples only before it publishes (`WarmInv`). The work
  is in the index arithmetic of a write that wraps (`RingWritten`, `PackedWritten`) and of the
  readers (`SliceWalkIs`, `SearchReads`, `WindowReads`). `HistoryExactThm` follows.
* **DecoderDispatch.** `DispatchInvariant` proves `DispatchInv`: the lists by preamble hold each
  registered parser once and the two cached lists are those in the map (`ListsInv`), what
  was derived at registration holds of all parsers (`RegisteredInv`), and the calls are right
  (`CallsInv`). `HitIs` shows that a phase survives the search exactly where the preamble's
  decisions stand, `SearchIs` that the indices found are all of these in ascending order.
  `DispatchExactThm` follows.
* **MessageOutput.** `OutputInvariant` proves `OutputInv`: what is in the log and what the filters
  and the last block's digests remember of it (`LogInv`), which meters `-single` still wants
  (`SingleInv`), and where in the sample file each message lies (`SampleInv`). The loop over the
  messages of a block is a fold, followed message by message (`HandledRun`, `LoopStep`).
  `OutputExactThm` follows.
* **Collector.** `CollectInvariant` proves `CollectInv` of the whole message path: the newest
  interval in the database, the meter map on disk and the one in memory differ only by
  the batch being written or by failed updates (`StoreInv`), and the coalescer's last point is
  in the database or about to be (`ReadingInv`). `CollectedOnceThm` follows; the
  wrapping counter needs that the intervals one message carries are fewer than the counter's
  values and that jitter stays under half the threshold (`CollectorAssumption`).

Only model-checked:

* liveness (`StopWakesReaders`, `ShutdownReturns`, `SourcesLive`): fairness and `ENABLED` are outside
  the prover's reach;
* `PacketsBelieved`: it is about the distance of particular codes, computed from tables of 256
  and 32 entries by recursion. The run evaluates it at the real sizes of tables, checksums and, but
  for IDM, packets; a proof would add the contents of the packets and IDM's length.

Every other invariant and action property that a passing run checks has a theorem. Where the
model has a fold or a recursive function (`ReplayShort` and `ReplayAll`, `Handled`, `SearchPacked`), the
proofs rest on a lemma that a run of its intermediate values exists and on an induction over a
set of positions (`SetInduction`), since the induction theorems of the library take an operator
as a parameter.

## 5. Not modelled, and what is left

Left out: the arithmetic of the decoder on samples (magnitudes, filters, the NEON
kernels), long computations without state that the repository tests against
reference implementations; the parsers' extraction of fields, and encoders, for the same
reason; the decoder's search for symbol lengths that are no multiple of eight,
which no configuration reaches, since chip lengths are multiples of eight; the
command line, apart from the constraints on constants that it establishes; the handshake of
`rtl_tcp` and its tuner commands, which precede the loop; the vendored rtl-sdr library; the
scheduler's shadow mode, which records and decides nothing; statistics, log and report
formatting.

Of the scheduler, `Cadence`, `WakeWindows` and `DutyWatchdog` are linked to `DutyScheduler`
by value only: which blocks have a window and when a deficit is found are free inputs of the
controller, so that its theorems hold whatever the three compute.

Left for later: `PacketsBelieved` for every packet, which needs the linearity of the two codes as
lemmas about their tables, and the decoder's arithmetic on samples.

## 6. Findings

`usb_ring_closed`: the driver's README says STOP "cancels anchored URBs". A release that
passed its `stopping` check before STOP submits after STOP has killed the anchored URBs;
STOP clears `started`, and the second STOP at close returns early. The file is then
closed while a URB is with the controller. It is harmless (`DmaExclusive` and
`FreedIsQuiet` hold: the slot is FREE when it completes, START and disconnect flush).

`duty_scheduler_escape`: PERFORMANCE.md says that any message recovered from a skipped
block "triggers immediate fail-open recovery". `observe` starts a recovery only if a
candidate is selected at that moment. The block in which a refresh ends is an
ordinary one and may be skipped; the next `Advance` tightens the candidate if its envelope
was widened, which disqualifies it. If no other candidate is qualified, the arrival
replayed from the skipped block finds none selected: no recovery starts, nothing is
invalidated, and the candidate's new epoch counts the arrival as captured. The same block is
decoded, since nothing is selected; what is lost is the recovery period and a miss.
`AlarmRecovers` states what does hold.

`duty_checkpoint_hourly`: `flags.go` says that a run with a checkpoint directory resumes the
strongest compatible checkpoint, "then write[s] hourly". A resumed run takes over the
session and the sequence of the checkpoint it resumes and creates
`checkpoint-<session>-<sequence>.json` with `O_EXCL`. A shadow run, a gated run that continues its
session, and a second shadow run, which cannot use the gated checkpoints, lead back to
an older number of the same session: the next numbers exist, and the checkpoint that is due
fails, as does each retry five minutes later, until the sequence has passed them. `RefusalsBounded` (in `CrashSafe`) shows that each
leftover file costs one write, and `Immutable` that none is overwritten.

`duty_checkpoint_strongest`: the same sentence of `flags.go` says that the strongest compatible
checkpoint is resumed, and a test requires that a gated start does not replace "gated
evidence with shadow evidence". `restoreBestCheckpoint` first keeps the highest sequence of each
session and only then prefers gated evidence. After a shadow, a gated and a second shadow
run of one session, the last one's checkpoint has the highest sequence; the next gated
start resumes it, with fewer blocks, although the gated checkpoint is still there,
readable and compatible. With three starts, the bound of `duty_checkpoint`, this cannot happen: it came up
in the attempt to prove `NeverBehind` for any number of starts. What does hold for any
number is proved (`CrashSafeThm`, `GatedFirstThm`): no start resumes anything but the
newest acceptable checkpoint of its session, and gated evidence comes first among these.

`message_path_single`: `flags.go` calls `-single` "one shot execution, if used with -filterid, will
wait for exactly one packet from each meter id". `processBlock` tests whether the run is over inside
the branch that writes samples, which is taken only with `-samplefile`. Without it, the default, the
receiver goes on after every wanted meter has been printed; under `-filterid` it prints nothing
more, since the filter has been emptied. `SingleStops` (in `OutputExact`) states what the
code does in both cases, for the command lines of `message_path` and, by `OutputExactThm`, for all.

Smaller deviations met while modelling, which the models reproduce and no run is devoted to:

* `rtlamr_direct_kernel_cleanup` ignores the result of `rtlsdr_detach_kernel_driver`, while the
  comment in `rtlamr_direct_start` says that "cleanup has reclaimed interface zero". If the
  detach fails, the fallback's first read fails.
* `newBlockCapture` multiplies rate, sample size and duration in `int64` nanoseconds, which
  overflows for captures longer than about half an hour; a negative count never reaches
  zero and the "bounded" capture grows without limit. `StreamExactThm` therefore assumes
  `CaptureFits`.
* The comment in `Receiver.Close` says that Cancel "interrupts either a blocked TCP read or the asynchronous
  USB reader". On the reader thread's path `rtlamr_direct_cancel` sets `stopping` and
  broadcasts, but nothing interrupts `rtlsdr_read_sync`, which has no timeout: with a device that stays
  silent, Close waits in `pthread_join`. `CloseReturns` (in `SourcesLive`) excepts exactly this case,
  and TLC finds it when the exception is dropped.
* `Run` asks the context only after Next has failed, so that a read that failed by itself just before
  Close ends the run without an error. `ErrorsAreReal` of both modules says the converse:
  a source error that is reported is a real one.
* An encoding error returns between `beginBlock` and `finishBlock`; the final checkpoint then has
  a clock one block ahead of its count, which the next start refuses. `ClockExact` is
  stated for a running process for that reason.
* A block that begins exactly where a wake window ends is judged by that window alone,
  although a touching window may follow; the test that a wider window never sleeps more draws
  times that do not meet the boundary. `WindowsExact` excludes windows less than a block apart.
* `New` compares the refresh duration with the undivided interval, but the interval is divided by
  the wake scale; with a duration between the two a refresh is begun again before it ends and,
  short of an alarm, never ends, so that it does not tighten the envelope as PERFORMANCE.md says refreshes
  do. `RefreshAsPlanned` says that this is the only case, and the run includes such a policy.
* An arrival recovered by replay is scored with the candidate's decision for the current
  block, not for the one it slept through.
