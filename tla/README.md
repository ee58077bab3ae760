# Scanline SSTV in TLA+

Scanline SSTV sends pictures as audio tones over a radio transmitter. The part
of it that can do harm is the part that switches the transmitter on ("keys" it):
a control thread, a watchdog thread, an audio callback and a user share it, the
rig answers late, wrongly or not at all, and whatever happens the transmitter
must be switched off again, or somebody must be told that it may still be on.
These modules are about that part first and about the rest of the program after
it.

Paths are relative to the repository, whose own `src/` directory holds the
library (`src/src/rig/ptt.cpp` in `PROJECT.json` is `src/rig/ptt.cpp` there).

## The system

| Component | State it keeps | Operations | Talks to |
|---|---|---|---|
| PTT supervision (`rig/ptt`) | safety record (certainty, hazard, watchdog expired), supervisor mutex, watchdog (armed, expiry, expired), lease (active, released) | `execute`, `unkey` with its retry loop, `recordKeyAttempt`, `recordCleanup`, `arm`, `heartbeat`, `finish`, the watchdog thread, `markKeyAttempt`, `recordKeyResult`, `release`, destructors | a `PttProvider`, a monotonic clock and scheduler |
| Transmit coordinator (`app/transmit_coordinator`) | `isActive_`, `isCancelled_`, `isShuttingDown_`, the run context | `run`, `requestCancel`, `shutdown`, `retryHazardCleanup` | the supervisor, lease and watchdog; a sample source; an audio endpoint |
| Rendered source and endpoint (`app/rendered_transmit`) | position in the tone events; underrun baseline, finished flag | `read`; `open`, `prefillSilence`, `prime`, `start`, `queue`, `finishSignal`, `gateSignal`, `status`, `stop`, `close` | `AudioStream` |
| Audio stream (`audio/audio_stream`, `audio/sample_ring`) | stream state, two lock-free rings, callback counters, gate, first fault | `open` ... `close`, `poll`, `queuePlayback`, `readCapture`, the device callback | an `AudioStreamAdapter` (miniaudio) |
| miniaudio stream adapter | device, started flag | `open`, `prime`, `start`, `requestStop`, `stop`, `close`, callbacks | miniaudio |
| Rig providers (`rig/rigctld`, `rig/flrig`, `rig/loopback_tcp`) | none between calls | `execute` query, key, unkey with a read-back; codecs; one TCP exchange with a deadline | rigctld or flrig on the loopback interface |
| Live transmit service (`app/live_transmit`) | configuration and its revision, confirmation, worker thread, snapshot | `configure`, `confirm`, `start`, `requestCancel`, `checkPtt`, `retryUnkey`, `discover`, `shutdown` | coordinator, providers, discovery |
| CLI and GUI front ends | poll timer, signal flag, window-close request | start, poll, stop, retry, close | the service |
| Offline editor (`apps/gui/tx_editor_model`, `app/offline_tx_editor`) | generation gate, prepared picture, preview, overwrite question, a pool of workers | select, change settings, prepare, export PNG or WAV, inspect; accept or drop a result | images, encoders, WAV files |
| Encoders, timing, VIS, FSK ID | none | encode, schedule, convert colours | the editor, the commands, the live source |
| Images, WAV files | a temporary file until it is published | prepare a raster image, write PNG; write, inspect WAV | libvips, files |
| HIL evidence (`app/hil_evidence`, `hil-manifest`, `hil-stage`) | two files in a directory, a permit while a prompt is open | publish a manifest, run a stage, publish its result | discovery, the flrig provider, files |
| Audio discovery, diagnostics | the last device list; a bounded test session | enumerate; run | miniaudio; audio stream |

Threads: the caller of `run` (the service's worker), the watchdog's `jthread`,
the device callback, the user's thread (GUI or CLI, with the signal handler's
flag), and whatever thread calls `shutdown`, `retryUnkey` or `checkPtt`.

What is hard, by component, is the list `hazards` of `PROJECT.json`, each at its
line. What makes each component correct:

* **PTT**: no writer of the safety record takes back a hazard of a rig that may
  be on; a hazard blocks the next session; a lease that runs out is cleaned up.
* **Coordinator**: whichever way a session ends, a key that may have happened is
  followed by an unkey; "completed" is only said of a signal that was played in
  full; a stop request decides the outcome; every session ends.
* **Audio**: samples are played once, in order; nothing plays after the gate but
  what a callback already had in hand; the state and the device agree.
* **Providers**: an answer is certain only if the rig said so.
* **Service and front ends**: a hazard stays visible; a terminal state is
  reached and stays; one confirmation is good for one transmission.
* **Offline work**: what is shown and exported is what the settings now say; a
  file is whole or not there, and only a confirmed one is replaced; every mode
  sends every row of its picture once and ends on time; a foreign file is
  refused or read as it is.
* **HIL evidence**: a stage is on record as passed only if it was seen to pass
  for the configuration that was confirmed; the two files agree.

## The modules

`PttSafety` is the shared part of `rig/ptt`: the rig itself (external), the
`PttSupervisor`, its unkey loop for each of its three callers (`cleanup`), and
the `PttSafetyRecord`. A provider call holds the supervisor's mutex and is one
step; its answer is `accepted`, `refused` or `doubtful` for a key, a true answer
or none for a query.

`PttWatchdog` extends it with the watchdog thread: `worker` is its place in
`PttWatchdog::run`, `leaseLeft` the clock ticks to `expiryNanoseconds_`. Waiting
on the condition variable is two steps, predicate and sleep, when `WaitIsAtomic`
is FALSE.

`TransmitSession` composes both with `TransmitCoordinator::run`: `pc` is the
place in `run` (the names are those of `TransmitState` where one exists), with
the rest of the coordinator's state, the lease, the source (`left`, `inHand`),
the endpoint (`audio`) and the threads in `shutdown` and `retryHazardCleanup`.
Every phase checks control where the code does and fails as it does; an
allocation may throw wherever `run` publishes a snapshot (`AllocationFails`),
and the locals then unwind in their order: audio, lease, watchdog, active flag.
`TransmitProperties` states the properties; `MCTransmitSession` is what the
`.cfg` files check.

`PttSessionContract` is the abstract specification: begin, claim (which records
a hazard), one key command, unkey, clear, raise, end. `KeepsContract` is the
refinement, checked by TLC and proved.

`TransmitSessionProofs` holds the theorems.

`SampleRing` is `audio/sample_ring`: a producer and a consumer that each load
and store two positions, one step at a time, and a buffer that wraps.
`BoundedFifo` is what it promises, a bounded queue into which one side puts and
from which the other takes blocks; `IsFifo` is the refinement (the queue's
contents are the buffer between the two positions), checked and proved in
`SampleRingProofs`. The modules above it use the ring as that queue.

`AudioStream` is one stream object: the owner's calls with every way the
adapter can fail in them, the miniaudio adapter's device and its `isStarted_`
flag, the notifications of the device, and the playback callback, which takes
its samples chunk by chunk between the two ends of a period and looks at the
gate once.

`TransmitEndpoint` extends it with `AudioStreamTransmitEndpoint`: silent
prefill, the count of queued signal frames, the underrun baseline that
`finishSignal` compares, `status`. Its owner makes the calls in the order in
which the coordinator makes them and is otherwise free. What the device has
played is kept in `heard`, frame by frame, the prefill and the signal with their
numbers, so that a duplicated, dropped or reordered frame shows.
`TransmitEndpointProofs` has the theorems of the stream and of the endpoint.

`LiveTransmitService` is `app/live_transmit`: what each thread does under
`mutex_` is one step. The worker's place is `worker.at`; a coordinator is seen
as its callers see it, through its snapshot, its record and its stop flags, and
what it does to the rig is what `TransmitSession` allows a session to do. Its
end is two steps, as in the code: the last look at the stop flags
(`transmit_coordinator.cpp:428-429`, `lookLast`), and the outcome, after the audio
was closed (`:430-451`, `endSession`); a stop between them is stored and decides
nothing.
`LiveFrontEnds` adds who calls it, chosen in the initial state: any caller, in
any order; the command line's sequence with its poll loop; or the window with
its 10 Hz poll, its close request and its destructor. `LiveProperties` states
the properties, `MCLiveTransmit` is what the `.cfg` files check.

`PttProvider` is one call of either provider below the supervisor: `place` and
`exchange` are the connection (connecting, sending, reading) with the three
deadlines, `setResult` what a set command keeps for its read-back. The daemon is
external, with a queue of commands that arrived; replies are sequences of tokens
that may come in pieces, cut off or damaged, and the codecs say what they make
of each. It shows what `PttSafety` takes for granted of an answer.
`PttProviderProofs` has its theorems.

`OfflineEditor` is the window over its workers and the files: one action for
each slot of `TxEditorModel`, `Accept` for a result that reaches the event loop,
and one action for each step of a worker at which another thread or process can
come in between (`Compare`, `Header`, `Decode`, `Validate`, `Begin`, `Write`,
`Publish`, `Unlink`, `Stat`, `Open`). The same steps in the process of a command
are the command line. A file is who wrote it and whether it is whole; its number
stands for device and inode. `OfflineProofs` has its theorems.

`OfflineJob` is one piece of that work from the inside, stage by stage, and
composes the modules of the library: `ImagePreparation` (from the bytes of an
image to its frame), `ColourConversion` (RGB to the planes of Robot 36 and PD
120), `TransmissionEncoder` (modes, schedules, header, identifier, and the tones
in their order), `SampleTime` (exact durations and the sample clock),
`ToneRendering` (renderer and live source, read by read) and `WavFile` (writer
and inspector). Durations, dimensions, counts, crop and shrink factors are the
real ones; an encoder's rows are counted, not their pixels, and a small frame
stands for the one whose colours are converted. The properties compare each
with a definition of its own: the number of rows and the exact end of a mode, a
receiver that has only the bits of the headers, the range and the neighbourhood
of a colour, the frame of each event computed from the start, a file tiled by
its chunks, a picture that fits its frame. `TransmissionProofs` has the theorems
about times, encoders, headers and the renderer, `OfflineProofs` those about
pictures, colours and WAV files.

`HilEvidence` is `hil-manifest` and `hil-stage` on the two evidence files, from
two terminals: reading, prompt, measurement, and each `rename` or `link`; a
write may fail and a process may be killed anywhere. `earned` remembers what was
confirmed and then seen to pass; a digest is the fields it is computed over. The
confirmation phrase holds the first 12 of its hexadecimal digits
(`hil_evidence.cpp:354-360`) and stands for the whole: two manifests whose
digests begin alike are not told apart by the code and are by the model.
`HilEvidenceProofs` has its theorems.

`MCOffline` puts the last three side by side: they share no state, and a
behaviour is one of them.

### What is abstracted

* Error codes, messages and the trace are left out; only whether there is a
  fault, a cancellation and which outcome. When two of the flags that
  `checkControl` looks at are raised during one call, the code only differs in
  which of them it names.
* A provider call, and one device callback, are single steps; what happens
  inside a callback is the subject of the audio modules.
* `PttWatchdog::finish` takes a snapshot and disarms; no writer can make its
  condition false between the two, so it is one step.
* Samples are counted in the session, numbered in the endpoint, and one of two
  values in the ring.
* Nobody else keys the rig during a session (`rigKeyed` may start on).
* The ring's loads and stores are sequentially consistent: the code's
  acquire/release pairs order exactly the accesses that the proof uses.
* Of the stream's callbacks only playback is modelled; statistics that no caller
  decides on are left out.
* The service's validation of a configuration, device discovery and the window's
  lists and texts change no state that the properties speak of. The window's
  many states are four: active, hazard, terminal and the rest, as its
  predicates tell them apart. A coordinator's `faulting` is part of the state
  it follows.

* The values of samples, pixels that libvips computes, sums and RMS of a WAV
  file, and 64-bit overflow of the rationals, which the code refuses, are left
  out. Opening and reading an image are two steps only where the file may change
  in between.
* `TypeOK` of `TransmitEndpoint`, `PttProvider` and `OfflineEditor` says what
  their variables hold; no run lists it.
* Of a provider's reply the characters, entities and UTF-8 are left out.

### Constants and bounds

`UnkeyAttempts`, `LeaseTicks`, `SourceFrames`, `BlockFrames`, `RingFrames` are
parameters of the code; the runs use 1 or 2 of each, which is enough for a retry
that succeeds after one that fails, a lease that is renewed and one that runs
out, a block that does not fit in the ring and one that is not full.
`MaxSessions` and `MaxRetries` bound the calls of `run` and
`retryHazardCleanup`; two sessions show what one leaves to the next.

The switches of the session say which schedules are admitted. `AllocationFails`
adds exceptions. `WaitIsAtomic = FALSE` splits predicate and sleep.
`KeyWithinLease = TRUE` assumes that the lease does not run out between `arm`
and the key command, a few instructions apart in the code; the run
`stale_record` shows what happens without it. `RetryAlone = TRUE` assumes that
no session starts during a `retryHazardCleanup`, which tests `isActive_` only
once.

The ring of `ring_fifo` holds three samples and its positions run to eight, so
that they wrap more than twice, and blocks of four samples are offered, more
than fit. The stream of `stream_lifecycle` has periods of different lengths and
a scratch buffer shorter than the longest of them, so that a callback needs
several chunks; the endpoint's signal of four frames is longer than its
ring, and `SignalAssumption` numbers its frames apart from silence.
`MaxUnderrun` caps the underrun counter.

`MaxSessions`, `MaxNonces` and `MaxCalls` bound the calls of `start`, `confirm`
and of `checkPtt` and `retryUnkey`; two sessions and two rigs are what a stale
coordinator or confirmation needs, and one call on another thread meets every
place of the worker. `CheckRunsAlone = TRUE`, in the run `wrong_rig` only,
keeps a check and a session apart, to show that the finding needs no race.

`ptt_provider` has a request of two pieces, two clock ticks for a call and one
for a phase, so that each deadline runs out before and after each piece, and two
calls, since what the first left with the daemon is what the second may meet.
`ServesInOrder = TRUE` assumes a daemon that takes commands in the order they
arrived; without it `UnkeyIsFinal` fails: a key command given up by the first
call is taken after the unkey of the second was read back.

The editor of `offline` has three scopes instead of one large one: three
revisions and four requests; commands next to requests; other processes that
change the files. Two workers and two attempts at a temporary name are what two
writers of one file need. Tones of one and a half frames, of less than one and of
an amplitude that clips are rendered with reads of one and three frames; foreign
WAV files are the sizes around each of the inspector's limits, with odd chunks;
images are the sizes around each factor of the shrink and the limits of the
loader. Four commands on two terminals are a manifest, both stages and one that
comes in between; one mishap is enough for a file without its pair.

## The runs

| Run | Question | Result |
|---|---|---|
| `session_safety` | two sessions, a retry, faults, exceptions, lost answers, stops: all safety properties and the contract | holds |
| `session_liveness` | does every session end and `shutdown` return, whatever device, rig and user do? | holds with atomic waits |
| `session_stall` | if the control thread stops for ever, does the watchdog resolve an expired lease? | holds |
| `ring_fifo` | is the lock-free ring a bounded queue? | holds |
| `stream_lifecycle` | do state, device and gate agree through every failure of the adapter? | holds |
| `endpoint_playback` | are prefill and signal played once, in order, are gaps reported while the signal is open, does the drain end? | holds |
| `live_service` | is what is sent what was confirmed, does a stop before the last look decide the outcome, is a published hazard kept, is a shutdown final, under any caller? | holds |
| `ptt_provider` | is a certain answer of rigctld or flrig true, whatever is cut, late or damaged, and does every call end? | holds |
| `offline` | no late result on the screen, no partial or unconfirmed file, no colour, row, frame, chunk or header out of place, no stage passed that was not: editor, one piece of work, evidence files | holds |
| `stale_record` | can a session end with the rig on and no hazard? | yes: `ptt.cpp:248` |
| `early_close` | is the window only told to close when the session is over? | no: `live_transmit_model.cpp:470` |
| `wrong_rig` | does a retry unkey the rig whose hazard it clears? | no: `live_transmit.cpp:560` |

All runs say `CHECK_DEADLOCK FALSE`: the program stops when its bounds are
reached, or when nobody asks for anything.

### Disagreements

* `stale_record`: a watchdog's cleanup that found the rig off before the key
  command is recorded after the session's own failed cleanup. The rig is on and
  nothing blocks the next session. With the same schedule the rig is keyed with
  no watchdog armed.
* `early_close`: every key attempt records a hazard, each later snapshot of the
  session carries it, and the window takes it for an unresolved one: Stop is
  disabled, polling stops, and a close request is answered "safe" at the next
  poll. The destructor still waits for the session.
* `wrong_rig`: transmit with one rig, check another that does not answer, retry:
  the first is unkeyed and the hazard of the second is gone.

Three more are stated as formulas that no run repeats. TLC finds them violated
when they are added: the first as an invariant to `endpoint_playback.cfg`, the
second as an invariant to `live_service.cfg` with one session and no calls, the
third as a property to the same file with one session, one confirmation and one
call:

* `GapIsReported`: the callback counts its underrun after it took the samples
  (`audio_stream.cpp:552`, `584`); `finishSignal` can read the counter in between
  (`rendered_transmit.cpp:157`), and a signal with silence in it completes.
* `StopIsHonoured`: until the worker has installed its coordinator (provider,
  device discovery and source are made first) a stop reaches the last session's
  or none (`live_transmit.cpp:481`), and the transmission goes to its end; so do
  a window close and a signal, which the command line sends once.
  `TransmitCoordinator::run` forgets a stop that arrives just before it clears
  `isCancelled_`, too. A stop after the last look at the flags
  (`transmit_coordinator.cpp:428-429`) is stored, and the session may still
  complete. `StopReachesSession` is about the stops between these two points.
* `HazardNeedsCleanup`: `checkPtt()` looks at `isRunning_` once
  (`live_transmit.cpp:507`) and publishes its hazard when its query is over. A
  session that was started meanwhile goes on under that hazard, and the
  publication of its own end (`:469`) takes it back, so that the next `start()` is allowed without a
  `retryUnkey()`. The window allows a start during a check. The overlap is the
  only way: `HazardIsKept`, which excepts just that session, is checked by
  `live_service` and proved.

Of the offline part:

* Only the completion of a late export is dropped, as `docs/MILESTONES.md:245`
  says; its file is published. The report of an export may describe the file of
  another writer that came after it (`docs/MILESTONES.md:255`).
* An inspection has no generation: its result is shown whatever was selected
  since (`tx_editor_model.cpp:395`).
* Two exports that were not confirmed may race for one path: the loser ends in
  an error and not in the question. When `unlink` of a temporary name fails, the
  destination is removed, which may by then be another writer's
  (`wav_writer.cpp:90-95`).
* An image rewritten in place with the same size between the two times it is
  opened is not noticed (`image.cpp:456`); the identity has no time of change.
* The identifier's "!" has the code of its end mark (`fsk_id.cpp:110`).
* `hil-stage` compares the digest and the flrig version with the manifest, but
  neither `--backend` and `--playback-id` nor `--ptt-address`, `--ptt-port` and
  `--flrig-path`: a result is recorded for a configuration that need not be the
  one measured. It does not call `validateHilStageStart()`, so that a manifest
  with a colliding identity starts stages (`hil_commands.cpp:304`). A stage whose
  rig stays on leaves no record.
* The evidence files are read and written back without a lock. With two
  terminals a result may be lost, the files may disagree, and a manifest that
  failed takes the first file of another back (`hil_evidence.cpp:845`);
  `EvidenceIsEarned` and `PairAgrees` say what holds without overlap, and what of
  it holds always. The Markdown row of a stage always says "unknown" for the
  certainty, the JSON object what was seen.

Other disagreements that the models show and no run repeats are in the notes of
`hazards`: with `WaitIsAtomic = FALSE` the notifications of `~PttWatchdog` and
of `~ActiveSessionGuard`, both sent without the mutex, can be missed; an
outcome may miss a hazard that the watchdog records after it was read; a stop
may overwrite a terminal state, after which the command line polls for ever.

Fairness (`FairSpec`): each thread that can run does, the clock advances, the
control thread leaves its waiting loops (they are bounded by deadlines in the
code) and a retry, once begun, goes on. Nothing is assumed of the user, the
device or the rig: a device that stops taking samples is why the watchdog is
needed for `SessionEnds`. `StallSpec` assumes fairness only of the watchdog and
the clock. The endpoint's `FairSpec` assumes that a started device goes on
calling back and that a callback, once begun, ends; nothing of the owner, whose
polling a deadline ends. `PttProvider` assumes the clock and the caller's thread
and nothing of the daemon; `OfflineEditor` that its event loop delivers results
and that a worker, once it has a job, goes on, which the bounded work of a job
and the pool's queue justify; nothing of the user or of other processes.

## The proofs

`TypeCorrect` proves the types and bounds for every value of the constants.
`InvCorrect` proves the inductive invariant `IInv`, under `KeyWithinLease` and
`RetryAlone`. The properties are not inductive by themselves: that the hazard of
a key attempt is not taken back needs to know that no cleanup loop that found
the rig off is still to be recorded when the key command is sent. `IInv` says so
in three parts: who can be in a cleanup loop (`CleanupInv`), that the watchdog
is out of the way before the key command (`WatchdogInv`), and what each place of
`run` knows of the rig and the record (`RigInv`). From it follow
`KeyedMeansHazardHolds`, `KeyOnlyWhenOffHolds`, `ClaimOnlyWithoutHazardHolds`
and the refinement `KeepsContractHolds`.

How a session may end needs a second invariant, `OutcomeInv`, inductive relative
to the first and so under the same two assumptions. It says of each place of
`run` where a stop asked for in time is still to be seen (`StopInv`), whether
the device is closed (`AudioInv`), that a key command that may have worked was
followed by an unkey or the lease still owes one (`UnkeyInv`), that the watchdog
raises its flag before it unkeys and records the expiry before it can be joined
(`ExpiryInv`), that signal that is not gated goes to a rig that is on or that the
watchdog took (`AirInv`), and where every frame was read, queued and played
(`AiredInv`). It gives `CleanExitHolds`, `CompletedMeansAiredHolds`,
`StrayOnlyAfterExpiryHolds` and `StopWinsHolds`: every property of
`session_safety` is a theorem.

`SampleRingProofs` proves that the ring implements the queue for every capacity
and block size. The invariant ties what each side has loaded to where the other
is now: the consumer's position as the producer last saw it is not ahead of the
real one and less than a lap behind, and the other way round, so that the cells
a side touches are its own; a cell's index is its position modulo the capacity,
and positions less than a lap apart fall on different cells. The refinement
shows that each store of a position is the queue's put or take, and every other
step a stutter.

`TransmitEndpointProofs` begins with the stream and proves for every capacity,
period and prefill that rings are only reset with no callback in them (`ResetIsSafeHolds`), that a stream owns a
device exactly in the states that say so (`DeviceOwnedHolds`) and that nothing
but the rest of the period in flight is played after the gate
(`GateHoldsHolds`), from one invariant over state, device and callback.

On that invariant it builds the proofs of `PlayedOnce` and
`OpenUnderrunIsReported` for every signal, prefill, ring, block and callback
size. A frame that is lost shows only when a later one is played, so `FlowInv`
speaks of what was played, what the callback in progress holds and what is in
the ring together: as long as no callback drops the ring they are the frames in
their order, and until the session fails as many as were prefilled and accepted
by `queue()`. `PlaceInv` says what each place of the session implies of the
stream, which a fault can take from it between any two calls. `UnderrunInv` ties
the baseline to the counter: an underrun of the open signal is either still to
be seen in their difference or kept by `finishSignal()`.

`LiveServiceProofs` proves every property of the run `live_service`, and that the
service is busy exactly as long as its worker is (`BusyMeansWorkingHolds`), for
every number of rigs, sessions and calls. Its invariant is over the service alone and
is shown to survive `ServiceStep`, whatever a call or a thread does; that every
step of the command line, the window or another caller is one of those is
`OwnersCall`. The hard part is the retry on another thread, which writes the
record of a coordinator while the worker runs the next: `RetryInv` keeps it to
coordinators whose session is over, and `RecordInv` says that the record of a
coordinator is clear until its session keys the rig, so that nothing the worker
clears was the only trace of a rig left on (`KeyedInv`). `StopReachesSessionHolds`
goes through the last look: `StopInv` ties a stop that was heard to the flag
before it and to `wasCancelled` after it. `HazardIsKeptHolds` rests on
`WhoTakesHazardBack`, which finds the two steps that may clear a published
hazard, and on `OverlapInv`: a session that keys or ends under a published hazard
was started while a check was under way, which the history `overlapped` remembers.

`PttProviderProofs` proves that a certain answer is true (`CertainIsTrueHolds`)
and that a key command reported as not sent was not taken
(`RefusedNeverKeysHolds`), for every request length, limit and number of calls,
from nothing assumed of the daemon's timing. Tokens of a reply that can show a
state of the rig are `Honest` if the rig was in that state during the call; the
daemon, the network's cuts and damage and both parsers keep to honest tokens
(`HonestInv`), which is where the two codecs are gone through branch by branch.
`KeyInv` says that what a call keeps of how much it sent is never less than what
left. `UnkeyIsFinalHolds` adds `OrderInv` under `ServesInOrder`: the answer read
now is of the last command in the queue, so that nothing is left behind it.

`OfflineProofs` proves the three safety properties of the editor
(`PreviewIsCurrentHolds`, `FilesAreWholeHolds`, `OnlyConfirmedOverwritesHolds`)
for every number of revisions, requests, commands, workers and foreign changes.
`RevisionInv` says that a preparation of the newest revision is of the file that
is selected, so that the gate's comparison of numbers is enough. `TempInv` says
that a job that holds a temporary name holds it alone, from the name's three
parts (destination, process, attempt) and `O_EXCL`; with it what `Publish` puts
in place is whole. Every step of a worker is first shown to change one job and
one file or temporary name (`ReadingSteps`, `WritingSteps`, `EndingSteps`), and
the invariant is shown once for all such steps.

The same module proves what one piece of work makes of a picture or a WAV file.
`PreparedFrameFitsHolds` is for every size of an image, every crop and every
frame, from `ImageAssumption`, which says that sizes are not negative. `GeometryFits` is the fit: of a side that is
reckoned by rounding (`ContainedSide`) or by rounding up (`CoveringSide`) it
shows the room it has, the error, and that it does not grow. That a JPEG may be
decoded smaller rests on `DecodedSuffices`: the factor is chosen from the size
before the shrink, whose sides need not have the proportions of the rounded ones
after it, so that the fit may take another branch; what it asks for suffices
either way. `ImageInv` carries this from `LoadImage` to the end.

`ColoursAreLegalHolds` is for every frame of 8-bit pixels, of any size. The weights
of the conversion are taken apart by thousands, so that the range of each
component is linear arithmetic over the three bytes (`LumaIs`,
`RedDifferenceIs`, `BlueDifferenceIs`). That an average of two or four
differences points to the only colour in its block needs more than their ranges:
`ContributionIs` says how far each of the three pure colours and a grey lie from
the middle, and `AverageOfFour` and `AverageOfTwo` that no mixture rounds across
it. `PlaneIs` follows the index of a plane back to its block
(`RowsAndColumns`).

`AcceptedFilesAreSoundHolds` is for every set of foreign sizes, formats, chunks
and samples, every block size and every limit of the inspector. `WavInv` says of
each place of the writer and the inspector what the file is: while the chunks
are walked they are a chain from the RIFF header to the offset (`isChain`), the
format and the data kept are those of the only chunk with their tag (`isFound`),
and an own file is on one of three known prefixes (`isOwnSoFar`), of which none
is refused; while blocks are analysed the statistics are exactly those of the
samples read so far (`isCounted`), and of an own file these are a prefix of what
was written. It assumes `WavAssumption` (types; a block of whole samples; room
for two chunks) and `OwnFilesFit`, which states what the comment at
`wav_inspector.cpp:473` says of the default limits: nothing in the writer holds
it to them.

`TransmissionProofs` proves `RendersInTimeHolds`, `EncodingIsCompleteHolds` and
`HeadersReadBackHolds`, the three properties that compare sums along sequences.
An operator that is defined by recursion means what its equation says only if
the equation has a solution; `InductiveSet` (a set that holds each number all of
whose predecessors it holds, from the well-foundedness of the naturals) gives it
for each of them by exhibiting one: the greatest common divisor (`GcdUnfolds`),
sums of durations (`SumUnfolds`), counts of events (`CountUnfolds`), weights of
bits (`NumberUnfolds`), and the codes of the identifier one after another
(`FlatExists`, `CodesAreRead`). On these rest

* exact time: `Duration` returns the fraction in lowest terms (`GcdReduces`,
  `DurationIs`), two equal fractions are the same record
  (`DurationIsCanonical`), so that sums of durations commute and associate
  (`PlusAssociates`), multiples are repeated sums (`TimesNext`), and
  `sampleCount` is the exact product rounded down once (`SampleCountIs`);
* the renderer: the end of an event is the exact end of all before it, rounded
  down (`EndFrames`), the event found for a frame is the first that ends after it
  (`EventIs`), and so that frame lies in it (`FrameIsInTime`). `PlayInv` says
  that what was read are the frames up to where the renderer is, whatever the
  sizes of the reads (`Renders`);
* the encoder: `EncInv` says that at segment `s` of pass `p` there have been as
  many events and exactly as much time as `p` whole lines and `s - 1` segments
  have, and of each plane the rows that its scans before there have sent
  (`sentBefore`). That PD120 sends two rows in a pass and Robot 36 one difference
  every other pass is in `ScansAreNext`: from one segment to the next, the scans
  of one plane go up by one and those of the others stay. `PassesAddUp` is why
  the published duration, a product for even and odd lines, is that sum;
* the headers: bits of a number give it back (`SixBits`, `SevenBits`), a parity
  bit makes the ones even (`ParityIsEven`), codes of six bits can be told apart
  again (`CodesAreRead`), the checksum makes each column even
  (`ColumnIsEven`), and no character but "!" has the code of the end, so that the
  first end code is the end (`IdentifierIsRead`).

They assume `RenderingAssumption` (melodies are of tones that `ToneEvent` accepts)
and `EncodingAssumption` (frames that `Rgb8Frame` accepts; identifiers are
sequences of character codes). `StepsOfParts` says of a step of the job that it
is of one part and leaves the others alone or begins them anew; so each of these
invariants is shown to be kept by the steps of its own part only, except
`PictureInv`, which needs of `EncInv` that only the two modes that are not of RGB
convert.

`HilEvidenceProofs` proves `EvidenceIsEarned` for every set of terminals and of
configurations and however many commands, failures and kills there are, from no
assumption on the constants. Its invariant extends what is said of the files to
what commands hold in their memory (`AllSupported`): a result or a file on its
way to be published calls nothing passed that was not seen. That a stage was seen
for the configuration of the evidence needs more, and only holds without overlap
(`SoundAlone`): the command in flight is the only one, so the file is still as it
was when the digest was compared, the stage it runs has not passed yet (a failed
discovery cannot undo one that `ptt-unkey` rests on) and discovery has, where
`ptt-unkey` is what it runs. `PairAgreesHolds` says that the two files tell the
same between commands, unless some overlapped or ended halfway: a command that
is alone holds in its memory a pair that goes together (`PairedCommand`), from
its first read to the second `rename`.

Every invariant and every action property that a run checks is a theorem. Only
model-checked are the liveness properties (`SessionEnds`, `ShutdownReturns`,
`ExpiryIsResolved`, `DrainEnds`, `CallEnds`, `BusyEnds`): they need fairness and
ENABLED, which the prover does not handle. The expected violations are shown by
TLC's counterexamples.

## Not modelled

* `audio_discovery` and the enumeration of `miniaudio_adapter`: what a refresh
  finds is an input of the service and of `hil-stage`.
* `audio_diagnostics` with the capture half of the stream and its GUI model:
  meters and tones over a stream that is modelled.
* Sine, resampling, colour management and scaling: numbers that libvips and the
  C library compute; they decide nothing.
* Option parsing, formatting, the QML views, tests and vendored miniaudio.

## The plan

Session, ring, stream, endpoint, service, providers, the offline work and the
evidence are done. What is left, in this order:

1. Proofs: the safety part of the bounded waits, that a loop's measure falls.
2. `Diagnostics` with the capture half of the stream, and the device list's
   generations.
3. The runs of the session's two liveness questions can become one when the
   fairness of the control thread is made a hypothesis of its property.
