# TX-5DR: TLA+ models of the server

TX-5DR is a server and a web client for amateur digital radio (FT8, FT4), voice
and CW. Several *sources* (digital operators, voice, the CW keyer, the voice
keyer, the tune tone, an external rigctld client) share one transmitter that is
reached through slow, unreliable hardware calls: CAT commands that time out and
are answered later, a sound card that never drains, a radio that is unplugged
between two commands. The code is single-threaded TypeScript; everything hard in
it is in what may happen *between two awaits*.

This directory holds TLA+ modules translated from that code, TLC configurations
that check them on small instances, and TLAPS proofs.

    tlc -workers 2 -config MCPhysicalTx.cfg MCPhysicalTx
    tlapm PhysicalTxInvProofs.tla

## 1. The system and its parts

Paths are under `packages/server/src/` unless they start with `packages/`. What is in
bold is modelled, in whole or in part.

| Component (source) | State | Operations | What is hard | What makes it correct |
| --- | --- | --- | --- | --- |
| **Physical TX coordinator** `transmission/PhysicalTxCoordinator.ts` | the active lease, its phase, its start and release promises, the fences of timed-out operations, the maintenance flag | `acquireLease`, `releaseLease`, `forceInterrupt`, `retryUnknownStop`, `runIdleMaintenance`, the late settlement of PTT-on and of the dial offset | every hardware call may fail, time out, or answer after its lease ended | one owner; a late command never reaches the radio under a newer lease; idle means unkeyed; a stop always ends |
| **Audio generations of a lease** (same file) | `playbackGeneration`, `activePlayback`, `drainingGeneration`, `frameId`, the transition chain | `playAudioOnLease`, `replaceAudioOnLease`, `observePlaybackGeneration` | a replacement overlaps the end, the tail hold or the interruption of what it replaces | an ended generation never releases the lease of its successor; one result per call, and a truthful one |
| **Digital frame coordinator** `transmission/DigitalFrameCoordinator.ts` | frames by id, a physical and a candidate frame per slot, revisions | `prepareFrame`, encode results, `prepareFrameForHandover`, `commitFrame`, `markOnAir`, ..., `prepareParticipantRemoval`, cancellations | stale encode results, corrections during a handover, slot boundaries | one live frame per physical lease, a cancelled candidate never goes on air, terminal exactly once |
| **Transmission pipeline** `subsystems/TransmissionPipeline.ts` | the operators told of the end of each frame | encode and mix handlers, replacement, removal of an operator, slot start | snapshots of the transmitter read before an await and used after it | the audio on air belongs to the frame on air; every frame ends |
| **Operator intents** `transmission/OperatorIntentCoordinator.ts` | per operator: epochs, active and pending job, takeover timer | `submit`, `abortOperator`, `removeOperator` | a revoked job that ignores its abort signal still runs, and acts until its next check | a revoked job passes no check and never completes as current; a superseding job starts within the grace period |
| Target reservations `transmission/TargetReservationCoordinator.ts` | who works which station | `tryTransition`, `releaseOperator` | releases and transitions of revoked jobs, ordered by epoch | two operators never hold one target |
| Transmission tracker `transmission/TransmissionTracker.ts` | timing records | phase updates | none: diagnostics | - |
| **Operator manager** `operator/RadioOperatorManager.ts` | pending transmissions, operators | `processPendingTransmissions`, late re-decision, requeue | decisions computed for an older epoch or slot | a stale decision is never transmitted |
| **Engine lifecycle** `subsystems/EngineLifecycle.ts`, `state-machines/*`, `utils/ResourceManager.ts`; **radio bridge** `subsystems/RadioBridge.ts` | engine and radio state machines, started resources, whether the engine ran before a loss | start, stop, force stop, rollback, reconnect | force stop while a start is running; a start or stop that exceeds its limit; the radio is lost and returns meanwhile | what is up has what it needs; running means up, idle means down; every start and stop ends |
| **Decode processes** `decode/WSJTXDecodeProcessPool.ts`, `decode/decode-worker-entry.ts` | queue, the job of each worker, worker processes, their failures, the respawn timer | decode, dispatch, timeout, crash, restart, degrade, destroy | a dead worker whose exit is not heard yet, a late answer, a fork that fails | every job is answered once and with its own result; the pool gets its workers back |
| Decode and encode queues `decode/WSJTX*WorkQueue.ts` | requests | push, dispatch, start, stop | - | - |
| Slot clock `packages/core/src/clock/*` | timers, pending compensation | start/stop, ticks, sub-window events | drift, compensation changed in mid-slot | each slot event once and in order |
| **Voice sessions** `voice/VoiceSessionManager.ts`, `voice/VoicePTTLockManager.ts` | PTT lock, transmit generation, the lease the session knows of | start and stop of a transmission, disconnect, engine stop, lock timeout | timeout of a lock while its lease is being acquired or held | the transmitter is keyed for the lock holder |
| CW keyer `cw/CWKeyerManager.ts` | queue, active sequence, lease | send, paddle, stop | stop in mid-element | keying ends with the lease |
| **Log files** `log/ADIFLogProvider.ts`, `log/persistence/*` | the ADIF document and its generation, the queue of calls, the queue of the path, backups | add, update, delete, import, reopen, back up, preview, restore, close | an operation that fails in the middle, a crash, an edit by another program, a restore among other calls | an acknowledged QSO is found again; a refused call left nothing behind; one in doubt stops the log |
| **Stored settings** `utils/persistence/JsonFileStore.ts`, `SafeFileWriter.ts` | value, last written value, pending save, chain of writes | set, deferred set, flush | saves that wait for each other | a save that succeeded is in the file |
| Plugins and QSO strategies `plugin/*`, `packages/builtin-plugins` | runtime of each operator | decide, late re-decision, wake | plugin code that is slow or throws | one decision per operator and slot |
| Slot packs `slot/*` | decodes of each slot | insert, merge, query | windows of one slot decoded out of order | - |
| Radio connections `radio/*` | connection, reconnect, capability cache | connect, CAT commands, dial offset | half-open connections | - |
| Audio streams `audio/*` | devices, mixers, buffers | open, play, mix, drain | callbacks of closed streams | - |
| Clients and API `websocket/*`, `routes/*`, `realtime/*`, `rigctld/*`, `auth/*`, `packages/web`, `packages/electron-*` | connections, subscriptions, sessions | messages | - | - |

How they interact: the slot clock's `encodeStart` makes the operator manager
prepare a frame and push one encode per operator; the encode results come back to
the pipeline one by one; when all tracks of a frame are there the mixer mixes
them and the pipeline asks the physical coordinator for a lease (or hands the
running lease over to the new audio); the coordinator's `phaseChanged` events
drive the frame to `on_air`, `draining` and its end. Operators, plugins and late
decodes submit their changes through the intent lanes. Voice, CW, tune and
rigctld ask the physical coordinator for a lease directly. The engine starts and
stops all of this with the radio; what it hears goes through the decode processes,
what was worked into the logbook.

## 2. Modules

One convention runs through all of them. The code is made of asynchronous
functions on one thread, so a step is *the whole synchronous segment between two
awaits*, with every call it makes; the await a function is suspended at is a
field (`acq`, `rel`, `pc`, `at`) of the record of its lease, call, command or
frame. What answers an await (a driver, a timer, a strategy, a file system) is a
nondeterministic input. When the code resolves a promise whose continuation runs
in the same turn of the microtask queue, and a shorter path cannot overtake it,
the continuation is *due*: it is the only step that can be taken (`Due` in
`LeasePlayback`, `DigitalTx` and `VoiceSession`, `Urgent` in `EngineLifecycle`).

| Module | Builds on | Models |
| --- | --- | --- |
| `PhysicalTx`, abstract `TxOwnership`, proofs `PhysicalTxProofs`, `PhysicalTxInvProofs` | - | the leases of the transmitter |
| `LeasePlayback`, proofs `LeasePlaybackProofs` | a lease of `PhysicalTx`, reduced | the audio generations of a lease |
| `IntentLane`, proofs `IntentLaneProofs` | - | the commands of one operator |
| `DigitalFrames`, `DigitalTx`, `DigitalSafety`, proofs `DigitalProofs` | commands of `IntentLane` and a lease of `LeasePlayback`, reduced | frames, pipeline, operator queue |
| `ResourceManager`, `EngineLifecycle`, `EngineSafety`, proofs `EngineProofs` | - | starting and stopping the engine |
| `LogStore`, abstract `DurableLog`, proofs `LogStoreProofs` | - | a logbook on disk |
| `DecodePool`, proofs `DecodePoolProofs` | - | the decode processes |
| `JsonFileStore` | - | a settings file |
| `VoiceSession` | a lease of `PhysicalTx`, reduced | the voice clients |

### 2.1 PhysicalTx and TxOwnership

`PhysicalTx` models `PhysicalTxCoordinator`, without the playback of audio on a
lease. Each lease has a record: the await of its acquisition (`acq`: preparing,
dialing, rechecking, keying, checking, granted, failed), of its release (`rel`:
cleanup, awaitStart, stopPtt, awaitComp, awaitDial, clearDial, clearing, unknown, done), what
became of its PTT-on (`start`) and of its dial offset (`dialSet`), the operations
that timed out and are still in the backend (`lateStops`, `lateClears`, `prep`,
`cleanup`) and what its source was told (`terminal`). Outside the records are the
lease that is active (`current`), the state of the radio (`keyed`, `dial`), the offset
`PhysicalRadioManager` remembers (`offset`, its `txDialOffsetActive`) and idle
maintenance (`maint`). `Acquiring`, `Releasing`, `Owner`, `LateSettlement` and
`Maintenance` group the actions by the code that runs them.

A hardware call answers, fails, or its timer fires; after the timer it stays in the
record until it settles, perhaps under a newer lease. The kinds of source are
`Requests`: with or without PTT, a dial shift, a preparation, an audio cleanup, and
deferred activation.

`TxOwnership` is the abstract specification: one owner at a time, keyed only for its
owner, one report per lease, given up unkeyed, with the one exception named
(`lost`). The dial is not part of it. `ImplementsOwnership` maps `epoch`, `current`, `terminal` and "a
compensation was lost" to it.

Modelling decisions. A PTT-on that is rejected after its lease began to wait for its
compensation did not key the radio (the comment at line 1028 says so). What the radio
manager remembers of an offset and where the dial is are two things: a write of the offset
that is rejected is forgotten, whether the rig tuned or not, and a clear does nothing when
nothing is remembered (`DialNotApplied`, `ClearCalled`); a clear that is confirmed restores
the frequency it remembers, which after a forgotten offset may be the shifted one
(`Cleared`). `AvailableMeansDialRestored` names the ends at which a transmitter that can
be granted has its dial shifted. The fences
that the playback functions add are not here, so this model allows more grants than
the code. The branch of `handleLatePttStart` that finds a newer lease is in the
code; the invariant shows that it cannot be reached.

### 2.2 LeasePlayback

The audio generations of a lease: `playAudioOnLease`, `replaceAudioOnLease`,
`startPlaybackGenerationLocked`, `observePlaybackGeneration`. One call plays one
frame and is named by it; `pc` is its await: waiting for its turn in the transition
chain, for the activation of the lease, for the stop or the drain of the older
audio, for the start acknowledgement, for the completion, for the tail hold, for a
release. `audio` says what became of its sound. The lease is `PhysicalTx` as it is
seen from here: granted or not, told to stop, released or unknown. The tail holds
have one duration (`DIGITAL_TAIL_HOLD_MS`), so they end in the order in which they
began. The voice keyer's and the tune tone's own playback, and the resource budget
(an input here), are not modelled.

`IInv` is inductive. Its parts: the chain of a lease has each of its calls once, and a
transition that has begun is its head (`ChainHolds`); generations are given once, in
that order, and cannot change while a transition is under way (`GenerationsHold`); what
each call knows of its sound, and what of that the lease carries (`SoundsHold`); a
release that is a success was begun by the last generation (`ReleasesHold`).

### 2.3 IntentLane

The lane of one operator in `OperatorIntentCoordinator` (lanes share nothing):
`submit`, `abortOperator`, the settlement and the end of a run, the takeover timer.
A command is named by its epoch; `issued` is the history of priorities (0 for an
abort), `auth` the epoch of the lane's token, `active`, `pending` and `takeover` the
fields of the lane. `Check` is a run that comes to a check of its token and signal;
`cleared` says that its last check let it go on, so that it may act on the operator at any
point until the next one (`MayAct`): `DecisionOrchestrator` awaits hooks of plugins in
between. `Settle` is the end of a run, which one that ignores its signal may never reach.

So two things are stated apart. `OnlyNewestPasses`: nothing that was revoked passes
another check, or completes. `ActsInTurn`: what may act beside the command that has the
lane is older and revoked, a run that outlived its grace period between two checks. That
such a run does nothing is not true of the code (section 6). `removeOperator` and `clear` have no caller in the sources
and are left out.

### 2.4 DigitalFrames and DigitalTx

`DigitalFrames` has the functions of `DigitalFrameCoordinator` as operators on a
record of frames and of two indexes per slot (`phys`, `cand`): preparation with its
choice of encode, replace or defer, encode results, commit, `markOnAir`, draining,
ends, removal of a participant, cancellation of what was not committed.

`DigitalTx` composes them with the queue of `RadioOperatorManager` and with
`TransmissionPipeline`. Each frame has one asynchronous call (`call[f].at`: mix,
acquire, final, activation, remix, replace, handover, sound, ...), the lease is that
of `LeasePlayback` reduced to the frame it carries, the chain of transitions and
how it ends. The operators are started, stopped, edited, re-decided on late decodes
and removed; the transmission is interrupted or stopped by force; slots begin.

Abstractions: a slot is a transmit slot of all operators; a message is the epoch of
the command it belongs to, and whether the strategy has anything to say is an input;
a decision is one step (what happens inside it is `IntentLane`); encodes and mixes
succeed, fail or come late; whether a waveform still fits the slot is an input, and
false for a frame of a past slot. Left out: the limit of identical transmissions,
placeholders of undecoded messages, frequency shifts, maintenance mode,
`stopAllOperators`, waking a stopped operator, a decision of a revoked command that acts
behind its last check (section 6), the wait of a removal's own stop in its operator's lane
(the removal and the stop are one step here), forgetting frames beyond 256, the
transmission tracker and all events for clients. Leases of other sources appear as
acquisitions that are refused.

Two branches of the code are not in the model because they cannot be reached: the
generation that is active already when a first playback starts, and the frame id
that differs after an acquisition (a handover needs a granted lease).

`DigitalSafety` has the inductive invariant, `IInv`. Its parts: the two indexes of a slot
refer to frames of that slot, the candidate's to the only candidate (`Indexed`); every
removal that was asked for still has a frame to prepare (`RoomHolds`, for the bound
only); no message is newer than its operator's last command (`EpochsHold`); a candidate
is of the current slot, unless a removal is making it (`SlotsHold`); in which phase a
frame can be while its call is at each await (`AwaitHolds`); the lease belongs to a frame
that acquired it, and its chain has each transition once (`LeaseHolds`); the lease carries
what is on the air, and what starts on it replaces that (`ShareHolds`); the tracks of a
frame are there from the last look at them to its end (`TracksHold`); and a candidate is
the newest frame of its slot and holds only what it may send (`OffHolds`).

`StoppedStaysOff` says that no frame takes the transmitter for a stopped operator, and
names three cases in which the code lets one: the frame it replaces sends that message
already (`SentAlready`), the operator was removed (`Removed`), or a newer frame of an older
slot hid the candidate from the stop (`Outrun`); section 6 says how the last two come about.

### 2.5 ResourceManager, EngineLifecycle and EngineSafety

`ResourceManager` has the loops of `startAll`, `stopAll` and `rollback` over the
resources of a plan: `run[c]` is how far call `c` has come (`next`, `starting`,
`undo`, `stopping`), `started` the shared list `startedResources`, `state` what the
manager believes and `up` what is true. A start or stop may reject, or exceed its
limit and take effect later (`late`). `slipped` has the resources one of whose calls
went on like that, or whose stop failed.

`EngineLifecycle` adds `doStart` and `doStop`, the state machine that invokes them
(`machine`, `scope`), the clock's and the pipeline's listeners, the audio sidecar,
and `RadioBridge`, which stops the engine when the radio is lost and starts it again
when it returns (`wasRunning`, `restoring`, `dropping`). `FORCE_STOP` leaves a start
that goes on: it stays in `run` beside the stop, and `crossed` remembers it. Clients
may do so to the starts in `Forced`.

`EngineSafety` has what the states promise and the inductive invariant. The promises
except two things by name: `crossed`, which is the finding of section 6, and
`slipped`, the resources the code has no means to know about.

The sidecar opens its streams in an attempt that the start of the engine does not wait
for, tries again later, and recovers streams it lost; `audio` is `on` while the engine
uses it, whatever the attempt is at. Its stop neither awaits nor invalidates an attempt,
which may go on and connect when the engine is idle: `SidecarLeaves` and `RetryNow` make
the sidecar `astray`. `IdleMeansDown` says of the sidecar that the engine does not hold
it, and no more.

Whether the engine is in CW mode, in which a start goes on without a radio, is a choice of
each start. Left out: the result of the sidecar's attempts, the power controller (an intended disconnect), and a
configuration that changes.

### 2.6 LogStore and DurableLog

One logbook. `calls` is the provider's chain of mutations and `op` how far the first
has come; `path` the per-path queue of the file; `store` the state of the file store
(`ready`, `degraded`, `read-only`, `uncertain`, ...); `gen` the document and the
generation token it was computed from; `backup` the backups and previews; `closer`
the progress of `close`. Each operation of the file system is an action that works
or fails, an append possibly half way. `disk` has the file and what a power failure
could leave of it: `dirty` until the file is synced, `stale` until its directory is.
`Restart` keeps the file as it is, `PowerLoss` takes one of those, `Edit` is another
program that changes the file.

`DurableLog` is the abstract specification: the log the clients were shown last, a
call in flight, and the logs a restart could find. An acknowledged call leaves only
the new log, a refused one only the old, one in doubt stops the log until it is read
again. Two things soften it, as in the code: after a directory sync that failed the
store says so (`warned`), and what was unsettled when the file was opened stays
unsettled (`loose`).

A record is a number, its bytes are whole or torn, and the validation of a candidate
file compares contents. Left out: the creation of a missing file, its deletion by
another program, exports and downloads, the backup manifest apart from the newest
backup, and the expiry of a preview. The two renames that publish a backup
(`latest.adi`, then `latest.json`) are one step, so a crash between them is not explored;
and a validation that fails after a rollback because another program changed the file
leads to a rescan here and to `uncertain` in the code, which stops the log sooner.

`StoreInv` is inductive. Its parts: contents are records, torn at their end only
(`Typed`); who is in the queue of the file (`QueueHolds`); what the running call can be
(`CallHolds`); the backups (`BackupHolds`); that the clients, the provider and the
candidate agree (`DocumentHolds`); what the file and its unsynced versions can be at
each await of each kind of call (`FileHolds`, and `Untouched` while no other program
interferes); and that a replacement still finds what it read (`ReplacementHolds`).

### 2.7 DecodePool

`pool` is what `WSJTXDecodeProcessPool` knows, `process` what is true of the
processes: dead before the exit is heard, late, or never born. The handlers are
synchronous, one action each; their helpers are operators from a pool to a set of
pools, because a fork in the middle may throw. `pool.sent[w]` is what a worker has
been told and has not finished, so that a job sent to a worker that was given up, or
a second job beside a first, can be followed to its answer. A message is heard when
it is sent: no handler of the pool depends on whether a process is done.

What a job decodes, AP suppression and telemetry are left out, and so are the queues
in front of the pool.

`PoolInv` is inductive. Beside what one wants of the pool (`NothingLost`, `OwnResult`,
`NobodyIdles`, `StatusIsTrue`, `Serial`, `NeverStranded`) it says where a job and the
commands for it can be (`JobsHold`), which of the pool's sets a worker can be in, and
which when the pool is destroyed (`WorkersHold`), that a process that is gone or not yet
forked is nowhere (`ProcessesHold`), and that each fault costs one worker at most
(`SparesHold`): so the names in `Ids` suffice, and a spawn never lacks one.

### 2.8 JsonFileStore

`set`, `set` with a deferred save, `saveNow` with the saves that wait for the pending
one, the writer's chain, and the flush of a shutdown. `call[c]` is a save with the
text it writes; a write is renamed into place and then ends, or fails before that.
Backups and the recovery of a corrupt file are left out: a rename is taken to be
atomic, and then `load` finds the file whole.

### 2.9 VoiceSession

The lock among the voice clients with its timer, `startTransmit` from the lock to the
granted lease with its cancellation and its rollback, `stopTransmit`, a disconnect,
and the stop of the session with the engine. The voice keyer is a client like any
other. The lease is that of `PhysicalTx` as a source sees it: starting, held,
stopping, unknown.

## 3. What the runs show

| Run | Instance | Shows |
| --- | --- | --- |
| `physical_tx` | 2 leases of any kind, 1 retry, fairness; 395,588 states | `CommandsAreOwn`: all commands of a lease have settled before the next is granted. `IdleMeansUnkeyed`: without a lease the radio is unkeyed, but for a lost compensation. `UnknownIsHeld`: an unconfirmed stop ends only by a confirmed PTT-off. The inductive invariant `IInv`, the refinement `ImplementsOwnership`. `StopIsBounded`, `AcquireIsBounded`: neither waits for hardware that never answers |
| `lease_playback` | 2 leases, 3 frames, fairness; 432,323 states | `OneAudible` on a lease; `SuccessIsEarned`: only audio that was played to its end is reported as sent, and only the last generation ends the lease with success; `FrameIsOnAir` through a handover; the inductive invariant `IInv`; `EveryCallReturns`, `LeaseIsReleased` |
| `intent_lane` | 3 epochs of 3 priorities, fairness; 28,659 states | `OnlyNewestPasses`: a revoked command passes no check and does not complete, through any chain of takeovers; `IInv`; `RevokerRuns`: the grace period is enough although the revoked run never ends; `EveryCommandAnswered` if the runs end |
| `digital_tx` | 3 frames, 1 slot, start, edit and stop; 542,654 states | the inductive invariant `IInv`; `OneOnAir`, `SoundIsOnAir`, `EndedIsFinal`, `StoppedStaysOff` through a correction of a correction |
| `digital_tx_slots` | 2 frames, 2 slots, late decisions, removals, interruptions, forced stops; 1,483,030 states | `CandidateIsCurrent`; `LiveIsCarried`: no committed frame is left without a call that will end it; `WholeOnAir`: the mixer holds all tracks of what is on the air; `QueueNeverGoesBack` |
| `digital_tx_live` | 3 frames, 1 slot, removals, interruptions, forced stops, fairness; 62,239 states | `LiveFramesEnd`, `RemovalEnds` |
| `engine` | 3 resources, one optional and one that needs another, 2 starts of which the second may be stopped, 1 loss, 1 slip of the optional or of the last one, fairness; 604,669 states | `NeedsAreUp`, `RunningMeansUp`, `IdleMeansDown`, the inductive invariant `IInv`; `Settles`: every start and every stop ends, crossed or not |
| `log_store` | 2 records, 2 calls, 1 backup or preview, 2 faults, 1 crash, 1 edit, fairness; 813,172 states | `ImplementsDurableLog`; `ReplacesWhatItRead`: a rewrite or restore replaces the version it was made from, with a backup in place; `EveryCallEnds`, in spite of two queues and the waits for backups inside them; the inductive invariant `StoreInv` |
| `decode_pool` | 2 workers, 2 jobs, 2 faults, fairness; 423,915 states | the inductive invariant `PoolInv`: each job is in one place until it is answered, with its own result; nothing waits beside a free worker; the status is true; a missing worker has a respawn to come. `EveryJobEnds`, `Recovers` |
| `engine_force_stop`, `stored_settings`, `voice_session` | violations | see section 6 |

Every property of a passing run is violated by at least one mutant of the model, a
small change such as a dropped guard or a forgotten reset; the mutants stand beside
the definitions they change.

**Bounds.** *PhysicalTx*: two leases are what any statement about a lease and its
successor needs, and a third adds only a repetition (the proofs cover any number).
*LeasePlayback*: three frames are an original, its correction and the correction of
that (the proofs cover more). *IntentLane*: three epochs are a running, an overtaken and a waiting command, or
two with an abort between them; the proofs cover more. *DigitalTx*: three frames in a
slot are needed for the second correction, two slots for a frame that runs over the
slot's end; three frames *and* two slots are beyond what runs in minutes, so
`digital_tx` and `digital_tx_slots` split them, and the commands too: removal together
with stop and edit is only checked with two frames. The two operators are symmetric;
symmetry is not used with liveness. *Engine*: three resources have an optional one, a
dependency, and a last one whose failure rolls back what it needs; two starts are one and
the start after it; `Slippery` leaves out the failures of the middle resource (the proofs
cover any of them, and any number). *LogStore*: two faults are a failed operation
and a failure of its undoing, one record is appended beside one that is there.
*DecodePool*: `Threshold` is 2 where the code has 3, so that two faults reach the
degraded pool; after `destroy` only the end of the processes is followed, for every
promise has its answer by then. *JsonFileStore*: two values suffice for a value that
is replaced and comes back. *VoiceSession*: `MaxCalls` and `MaxStops` bound the
transmissions and the values of their generation.

**Deadlock** is not checked: a behaviour whose leases, frames, calls or epochs are used
up really is over.

## 4. Fairness

Nothing is assumed of the radio, the audio backend, or the code of a plugin.

* `PhysicalTx`: timers fire (`setTimeout`), continuations run, and `validateStart`,
  which only reads local state, returns.
* `LeasePlayback`: `Advance`, that is, timers and continuations, a source that holds a
  lease plays or gives it up, and a playback that was started ends; and a release, like
  an acquisition, ends (`StopIsBounded`, `AcquireIsBounded`). Strong fairness only for
  a call that waits on a release or on a lease that was given up: its promise is
  resolved once and for all, while the model's guard is disabled whenever an unknown
  stop is retried.
* `IntentLane`: timers and continuations. A command's run may never end; only
  `EveryCommandAnswered` assumes it does, in its own text.
* `DigitalTx`: what is due is done; each frame's call proceeds whenever the await it
  is at can be answered. That is strong fairness because continuations of other
  calls are urgent and disable it for a moment, again and again if an unknown stop
  is retried without end.
* `EngineLifecycle`: what is under way goes on. Every start and stop of a resource has
  a time limit, the disconnect of a radio ends, and the radio is not assumed to connect.
* `LogStore`: an operation of the file system returns, well or not; continuations run.
* `DecodePool`: timers fire, exits are heard, and a worker that is not late gets ready
  and finishes. A late one need not do either, ever.

## 5. What is proved

TLAPS checks, for every number of leases and retries and every set of kinds of lease:

* `PhysicalTxProofs!TypeCorrect`, `PhysicalTxInvProofs!InductiveInvariant`,
* in the same module: `CommandsStayOwn`, `HeldStaysKeyed`, `IdleIsUnkeyed`,
  `AvailableIsRestored`, `MaintenanceStaysExclusive`, `UnknownStaysHeld` and
  `Refinement` (`Spec => ImplementsOwnership`);

for every set of priorities and every number of epochs, in `IntentLaneProofs`:
`LaneInvariant`, `OneCommandActs`, `SignalAndToken`, `NewestPasses`,
`ActsInTurnHolds`;

for every number of leases and frames, in `LeasePlaybackProofs`: `PlaybackIsSound`
(`IInv`), `PlaybackTypes`, `OneIsAudible`, `SuccessesAreEarned`, `TheFrameIsOnAir`;

for every number of operators, slots, frames and commands, in `DigitalProofs`:
`DigitalIsSound` (`IInv`), and from it `SlotsReferToTheirs`, `NoneLeftBehind`, `LiveHasACall`,
`OneFrameOnAir`, `AudioIsTheFrames`, `WholeFramesOnAir` (the invariants `TypeOK`,
`CandidateIsCurrent`, `LiveIsCarried`, `OneOnAir`, `SoundIsOnAir`, `WholeOnAir`) and
`EndedStaysEnded`, `QueueGoesOn`, `StoppedStayOff` (the action properties `EndedIsFinal`,
`QueueNeverGoesBack`, `StoppedStaysOff`);

for every plan of resources with its dependencies and optional members, any number
of starts, losses and slips, in `EngineProofs`: `InvariantHolds`, `NeedsAreUpHolds`,
`RunningMeansUpHolds`, `IdleMeansDownHolds`;

for every number of records, calls, backups, faults, crashes and edits, in
`LogStoreProofs`: `StoreIsSound` (`StoreInv`), `ReplacementsAreSafe` (the action property
`ReplacesWhatItRead`) and `StoreKeepsTheLog` (`Spec => ImplementsDurableLog`);

and for every number of workers, jobs and faults and every threshold, in
`DecodePoolProofs`: `PoolIsSound` (`PoolInv`), and from it `NoJobIsLost`,
`ResultsAreOwn`, `NoJobWaitsInVain`, `OneCommandAtATime`, `NoPlaceIsForgotten`.

Assumptions are those of the constants: the bounds are naturals (there is at least one
slot), the operators are finitely many, the requests are requests, priorities are positive, a pool has at least one worker, markers such as
`NoJob` are no values of what they stand beside, and a plan lists each resource once,
after what it needs (what `topologicalSort` gives).

*PhysicalTx.* None of the properties is inductive: that a late PTT-off cannot hit a
newer lease rests on where its lease stood when it timed out. `IInv` says for each
lease in which combinations its acquisition, its release and its operations can be
(`StepOrder`); that a lease which is not current is `Quiet`, with nothing left but
fenced operations; that a fenced command exists only while `current` is nobody or
that lease; who may have keyed the radio or moved the dial; and that a dial which is
shifted with no offset remembered was shifted by a forgotten one. The step that
carries it is `AcquireLease`, which needs every fence to be gone; every command is
issued by the current lease. `PhysicalTxInvProofs` has one lemma per action, and the
frame lemmas they share; `Refinement` adds, action by action, which step of
`TxOwnership` it is.

*IntentLane.* What runs unrevoked is the active command, has the token and is
`Newest`; the waiting command is newest too, and the token is not beyond it; no run is
newer than the active one, which is why what outlives its takeover is older than what
overtook it. The
second half is what `TakeoverCleared` and `Finish` need when they start it; that a
command overtaken is always an aborted one keeps a late end from freeing the lane.

*Engine.* `IInv` is the types, and, as long as no start was left by `FORCE_STOP`:
one call at most is under way and it is the one the machine's state says (`OneCall`,
`SomeCall`); every resource that is up is in the list, in the order of the plan, and
a call that goes back through the list has still to come to it (`Accounted`); what a
resource's state says is true (`StatesMeanIt`); a start has everything before its
index up (`Reached`); the flags follow the machine (`Flags`). `Accounted` carries the
proof: that a stop in reverse order never takes a resource away from under another
needs the list to be ordered as the plan is.

*LeasePlayback.* That two calls on a lease never sound together rests on the chain: a
call starts its audio only as the head of the queue, after the audio that was active has
stopped or the lease was told to stop. `ChainAdvances` and `ChainGrows` are about the
queue, `Keeps` about the conjuncts a step does not touch; the helpers that end a call
(`Ends`, `Releases`, `Winds`) have a lemma each, and every action is a composition of
them. `SuccessIsEarned` needs that the release of a success is begun when the waveform of
the slot is used up (`spent`), so that nothing still fits that could replace it: a
replacement that came after would share the release, and its result.

*DigitalTx.* A handler is a composition of functions on the coordinator and the queue, so
the proof goes in three layers. First the functions of `DigitalFrames`: each keeps the
types and `Indexed` (`Good`), and either touches one frame (`Alone`, `Ends`) or adds one
and cancels candidates (`Evolves`). Then those that also book messages (`Booked`,
`Settled`), from which the two action properties are read. Then the actions: what one does
to its own call, and that every other call keeps what it relies on, its frame at most
ended (`Fades`, `SameCall`) and the lease as it was for it or over (`LeaseKeeps`). Two
conjuncts carry the results. By `ShareHolds` a call that has looked at the lease
(`HoldsLease`, `Unchanged`) has its turn in the chain, so that nobody changes what the lease
carries between the look and the start of the audio; `OneOnAir` and `SoundIsOnAir` rest on
that. By `PhaseFits` a live frame's call is at an await that goes on to an end, which is
`LiveIsCarried`. `OffHolds` is proved over the same steps a second time: a stop cancels the
newest frame of its operator (`Leaves`), so a candidate has to be the newest of its slot,
and a newer frame of an older slot can only be there if a removal made it. Without
`Outrun` in `StoppedStaysOff` that step fails, and the code has the behaviour.

*LogStore.* Most conjuncts speak of one await; so the actions are grouped by the part of
the call they belong to (queue, prepare, append, rollback, replace, backup, close), and
`Proceeds`, `Answered`, `Refused` and `Stops` say once what it means that a call goes on,
succeeds, is refused, or stops the store. What carries the refinement is that every
content a power failure can leave is the old log, the new one, a part of the new one,
or in `loose`, at every await. The beginning of a call is `Start` of `DurableLog`; a
write, sync, truncate or rename is `Progress`; the commit is `Acknowledge`; a failure is
`Refuse`, or `LeaveInDoubt` where the store stops; a restart or power loss is `Crash`,
opening the file `Recover`, another program's edit `Edit`; backups and the close stutter
or `Halt`.

*DecodePool.* A handler is a chain of helpers, so the lemmas are about a pool in the
middle of one: `Core` is what holds at every point of it, except for the worker the
handler is dealing with; `Waiting`, `Full` and `TrueIn` are what a dispatch, a spawn and
a refresh restore; `Whole` is all four, and is `PoolInv`. Each helper has a lemma that
says what it keeps and what it restores, and an action is one chain of them. The
assignment of jobs to workers and the choice of the surplus workers are by rank, a
cardinality: `FirstRanks` and `FewStopped` say that the first *n* free workers take the
first *n* jobs, and that a pool never stops more idle workers than it has too many.

**Only model-checked**: all liveness properties (they need fairness and `ENABLED`);
everything about `JsonFileStore` and `VoiceSession`, which exist for the violations they
show. Every safety property of a passing run, invariant or action property, is stated by
a theorem. What a theorem says of `Spec` says nothing of progress: that a removal has its
turn or that a frame ends is known for the instances of section 3 only.

## 6. Where the code and its documentation differ

Kept as runs whose counterexample shows it:

1. `engine_force_stop`: `FORCE_STOP` leaves STARTING, but nothing cancels the start. It
   goes on beside the stop and leaves resources, clock and sidecar running in an engine
   that says it is idle. The state machine's header promises atomic transitions and its
   test expects a cancelled start.
2. `stored_settings`: two saves that waited for the same one both go on; the end of the
   first makes the pending save of the second unknown, and a value that comes back is
   then compared with an outdated `lastSerialized` and taken for written. Every save
   and the flush of the shutdown succeed, and the file holds a replaced value, where
   `docs/persistence-durability.md` promises that what returned success survives.
3. `voice_session`: the timer of the voice lock, called timeout protection, frees the
   lock and nothing else. The lease stays, the radio stays keyed, and the client's
   `stopTransmit` then finds the lock free and returns true at once. It is keyed until
   somebody's next `startTransmit` is refused as busy and rolls it back, or a forced
   interruption. Without the timer the property holds of the same instance
   (47,136 states).

Also seen in counterexamples of the same models while they were written; no run
keeps them. *The transmitter:*

* A late PTT-on is compensated with a PTT-off that fails. The comment says "Keep the
  lease unknown"; a release that waits for the settlement promise goes on and frees
  the transmitter, with the radio keyed (PhysicalTxCoordinator.ts:1047, 1153).
  `IdleMeansUnkeyed` and `TxOwnership` name this as their only exception.
* A write of the dial offset that is rejected is forgotten (PhysicalRadioManager.ts:1168),
  although the rig may have tuned: every clear then does nothing (line 1183), and the
  transmitter is free with its dial shifted. The same after a write that a timeout let the
  clear of its own release overtake. The frequency monitor may then take the shifted dial
  for the user's.
* The dial offset is not cleared when a late compensation closes an unknown lease
  (line 1145), though `setTxDialOffset` is documented as paired.
* `forceInterrupt` during a preparation frees the transmitter without fencing that
  preparation (comment at line 334); only its timeout does.
* A lease is cut while a replacement waits in its chain. The replacement fails first and
  releases the lease (line 572), before the cleanup of the cut is answered or fenced;
  the next lease is granted while the old audio sounds.
* `leaseContinues` is reported for a generation that settles after its lease has
  ended (line 779; the comment at line 111 says a newer generation owns the lease).
* Voice: a client that presses twice is refused as busy the second time, and the
  rollback of that ends its own transmission. A stop of the engine leaves the lock with
  its client until the timer.

*Operators and frames:*

* A decision that has passed its check awaits the hooks of a failed QSO
  (DecisionOrchestrator.ts:202) and then has a frame encoded again or stops its operator
  without looking at its token again; the same at lines 305 and 392. If it is revoked
  and the hooks outlast the grace period, it can stop the operator its successor started.
* After `abortOperator`, a command of lower priority than a run that ignores its
  signal waits without a takeover.
* A decision on late decodes that changes nothing takes an epoch; when another
  operator's correction rebuilds the frame, that message counts as stale and is left
  out, although its operator still transmits (RadioOperatorManager.ts:1457).
* An operator removed while an older slot's frame is on the lease stays in the
  current slot's candidate (TransmissionPipeline.ts:228), and takes the transmitter with
  it: `Removed`.
* A removal makes a frame of the older slot anew for those that stay. If one of them is
  then stopped, the stop finds that frame, for it is the newest one
  (DigitalFrameCoordinator.ts:564), and the current slot's candidate goes on the air with
  the stopped operator: `Outrun`.
* The second correction of a frame that is committed and not yet on the air replaces
  nothing and is deferred as busy (DigitalFrameCoordinator.ts:105).
* `requestStrategyStop` queues the intents of the frame it cancels behind newer ones;
  the last entry of an operator wins and is then discarded as stale
  (RadioOperatorManager.ts:1835).
* `forceStopTransmission` leaves the candidate frames alone: one that is mixed takes
  the transmitter next.

*The engine:*

* The sidecar's `stop` returns to IDLE while an attempt to open the streams goes on; the
  attempt then finds `isStopping` false again and reports CONNECTED, with streams open in
  an idle engine (AudioSidecarController.ts:113, 120, 223).
* If the radio returns while the stop caused by its loss still runs, the restore clears
  `wasRunning`, the stop disconnects the new connection and the engine stays stopped.
* A stop pressed while the radio reconnects does not clear `wasRunning`: the engine
  starts again when the radio returns.
* A start of a resource that exceeded its limit and succeeds later is never stopped
  (`slipped`). Two starts beside each other empty each other's list.

*The log:*

* After a crash between the rename and the sync of the directory, reopening does not
  sync it: another power failure may bring the old file back (`loose`). The warning of
  a failed directory sync disappears with the next append.
* A torn last record makes the log read-only until it is repaired or restored.
* An edit by another program between the last look and the rename is overwritten, and
  one during a failing append may be cut off with it.

*The decode pool:*

* A fork that fails after it returned keeps its place in the pool for ever; if that was
  the last worker that could become ready, jobs wait without end (`Unborn`).
* A job that is dispatched between a kill and the exit goes to the killed worker and is
  refused.
* A pool that degrades may stop its healthy worker and keep the dying one.

## 7. Not modelled, and the plan

Not modelled, because nothing in them decides what others do, or because what matters
is not an order of events: target reservations (one map, changed in single synchronous
calls) and the transmission tracker; the slot clock (numeric, needs a model of time: the
models take a slot boundary as an event at any point); parsing, QSO strategies and match
rules (data transformations); slot packs, spectrum and other display data; audio devices,
CAT drivers and the radio connection's own retries (I/O: `PhysicalTx` and
`EngineLifecycle` take them as answers and events); configuration, authentication,
clients, transports and user interfaces (request routing).

Within reach and not done: the CW keyer (its queue of messages and its stop, over a
lease of `PhysicalTx`), the repetitions of the voice keyer, the attempts of the audio
sidecar in a module of their own, and the decode queues in front of the pool.

Proofs worth adding next: the safety of `VoiceSession` without the timer of its lock, and
that a write of `JsonFileStore` leaves a whole file. The refinements of the leases that
`LeasePlayback`, `DigitalTx` and `VoiceSession` have in reduced form by the lease of
`PhysicalTx` would tie the modules together; they are argued in section 2 and neither
checked nor proved.
