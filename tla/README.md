# Verification of the SYMFONISK gateway

The gateway captures audio on a host (Bluetooth, a sound card, a synthetic
generator), encodes it with FFmpeg and makes a Sonos/SYMFONISK speaker play the
resulting HTTP stream. This directory holds TLA+ models of its core, the TLC
configurations that check them on small instances, and proofs that TLAPS checks
for every value of the constants.

- [1. The system](#1-the-system): inventory, interactions, what is hard
- [2. The modules](#2-the-modules): which module models what, and how
- [3. The runs](#3-the-runs): what is checked, bounds, fairness
- [4. Disagreements found](#4-disagreements-found)
- [5. The proofs](#5-the-proofs)
- [6. What is not modelled](#6-what-is-not-modelled)
- [7. Plan](#7-plan)

To check it: `tlc -config MCSerialCalls.cfg MCSessionManager` (each run of
PROJECT.json names its module and cfg) and `tlapm` on each module that ends in
`Proofs`.

## 1. The system

Paths are relative to `src/`; `bridge/` stands for `bridge_core/src/bridge_core/`.
Nearly everything runs on one asyncio event loop: code between two `await`s is
atomic, and every `await` is a place where everything else may happen. Threads
are PortAudio's callback, the Bluetooth status monitor that lists sources, and
the executor that calls the Sonos library.

| Component | State it keeps | Operations | Correct when |
|---|---|---|---|
| Session manager, `bridge/core/session_manager.py` | sessions and their states, sinks, monitors, heals | `play`, `create`, `start_session`, `stop_session`, `resume_session`, `recover`, `_quiesce_session`, `_handle_session_error`, the monitor, the media-plane heal | one active session per target; every start and stop ends; whatever step fails, what was taken is released; a playing session has one pipeline, one capture, one sink, one monitor, and its target plays it |
| Frame sink and jitter buffer, `session_manager.py:354`, `bridge/stream/pipeline.py:59` | bounded queue, heap, next sequence | `on_frame`, `_ingestion_loop`, `push`, `pop`, feed loops | frames reach FFmpeg once and in order, bounded memory, silence when there is nothing |
| Stream pipeline, `bridge/stream/pipeline.py` | FFmpeg process, feed and read task, subscribers with backlogs | `start`, `stop`, `subscribe`, fan-out, eviction, keepalive | a subscriber gets a contiguous piece of the stream or is told it ended; a slow one cannot hold the others; accounting adds up |
| Stream publisher, `bridge/stream/publisher.py` | session id to pipeline | register, swap, unregister, HTTP GET | a listener hears the pipeline the session feeds |
| Source registry, `bridge/core/source_registry.py` | adapters, sources, health | register, refresh, resolve, prepare/start/stop | one identity per source, failures become results |
| Target registry, `bridge/core/target_registry.py` | adapters, targets, availability | refresh, heal, play, stop | a refresh loses nobody that registers meanwhile |
| Renderer adapter, `renderer_sonos/` | discovered speakers, last stream played | prepare, play, stop, `inspect_ownership`, heal | stops only what it owns, heals to what was last asked |
| Event bus, `bridge/core/event_bus.py` | handlers, history | emit, publish, subscribe | every handler sees every event it subscribed to |
| Auto play, `bridge/core/auto_play.py` | none | on a new source: wait for registration, `play` | a connecting phone plays |
| Profile negotiation, `bridge/stream/profiles.py` | none | `negotiate_stream_profile`, the ladder | the best profile both sides support |
| Config store, `bridge/core/config_store.py` | a SQLite table: preferences, last known good profiles | get, set | a value is there whole or not at all |
| Bluetooth adapter, `adapters/linux_bluetooth/` | pairing window, trusted devices, monitor | open/close window, agent callbacks, list, capture | the adapter is discoverable only while a window is open; trust survives a restart |
| Linux, Windows, synthetic capture adapters | capture process or thread | prepare, start, stop, hotplug | no frame after `stop` returned |
| Subprocess runner, `shared/` | cache with time to live | run, invalidate | no result older than its time to live, nor, on the loop, than an invalidation |
| HTTP API, `bridge/api/` | none | translation to the components | |
| Home Assistant integration, `integration_homeassistant/` | the data of the last poll | poll, play, stop, choose | a command reaches what the user has seen |
| Web interface | none | presentation | |

How they interact. A client calls the HTTP API, which calls the session
manager. `start_session` asks the source registry to prepare and start a
source, which hands the adapter a frame sink; the adapter calls `on_frame` from
its thread or task; the sink pushes to the pipeline, which feeds FFmpeg, reads
its output and fans it out; the publisher serves it to the renderer that
`play_stream` pointed at it. Errors travel back by callback: the pipeline's and
the adapter's `on_error` call `_handle_session_error`, which spawns a stop. A
monitor task per session polls pipeline, source and renderer four times a
second, and changes the state, quiesces the session, or schedules a heal.

What is hard here, in the order of PROJECT.json's hazards:

- **Calls that overlap.** No lock protects a session or a target. `play`,
  `create` and `start_session` decide on a list of incumbents and then await
  their stops, ownership checks, encoders and speakers.
- **A failing step.** A start has six steps that may each fail, on each rung of
  the profile ladder; clean-up may fail too and is itself a sequence of awaits.
- **Background tasks against calls.** The monitor, the error handler, the
  quiescing task and the heal change the same session the calls are changing.
- **Progress.** Every start, stop and heal has to end although it waits for
  processes and for the network.
- **The world outside.** Another controller takes the speaker, a client
  detaches, an encoder falls silent or dies, a player loses an answer, BlueZ or
  PulseAudio refuses, a device comes and goes.
- **Threads against the loop.** Fields that a thread looks at and uses later,
  an asyncio queue that a thread puts into, events emitted where no loop runs.
- **Buffers at their limits.** The ingestion queue, the jitter buffer and the
  subscribers' queues drop, wait or evict, while what they feed is swapped or
  closed.
- **What is remembered.** Two caches one behind the other, a file that is
  rewritten in place, profiles and grace periods that outlive a session's play.

## 2. The modules

| Module | What it models |
|---|---|
| `SessionStates` | `SessionState` and the table of `Session.transition_to` |
| `SessionLifecycle` | abstract: what a client may rely on about session states |
| `SessionManager` | the session manager: API calls, error handler and monitors as coroutines of one event loop |
| `MediaHeal` | one started session's media plane: monitor, heal, and their races with stop, start, recover, quiesce |
| `FrameChannel` | abstract: what the frame path promises to the encoders of a session |
| `FrameIngest` | frame sink, ingestion task, jitter buffers, feed loops, swap of pipelines |
| `Broadcast` | abstract: what a stream promises to each listener |
| `StreamFanout` | the encoded side of a pipeline: read task, subscribers, eviction, close |
| `SourceDiscovery` | subprocess runner, adapters' caches, events, source registry, auto play |
| `ProcessCapture` | capture by a task: Linux, Bluetooth and synthetic adapter |
| `CallbackCapture` | capture by PortAudio's thread, and the Windows start-up verification |
| `PairingWindow` | the Bluetooth pairing window, its task and agent |
| `TrustedDevices` | the trusted-device store, its file, crashes and restarts |
| `SonosTarget` | one Sonos player, the operations of its adapter in threads, the target registry |
| `StreamProfiles` | negotiation, the ladder of profiles, the profile a pipeline is built for |
| `DeliveryWatch` | the monitor's watch over a renderer that comes and goes |
| `HomeAssistant` | the Home Assistant integration: polls, data and commands |
| `MCSessionManager`, `MCMediaHeal`, `MCDiscovery` | instances for TLC |
| `MCAdapters` | the eight modules from `ProcessCapture` to `HomeAssistant`, for TLC |
| `...Proofs` | the proofs (section 5) |

The modules meet where the code does. `SessionManager` takes a pipeline, a
capture and a renderer as things that start, stop and fail; `FrameIngest`,
`StreamFanout`, `ProcessCapture` and `SonosTarget` say what these are, under the
calls that `SessionManager` and `MediaHeal` make (a swap re-points the sink
before it stops the old pipeline; a stop withdraws the route after the pipeline
has stopped; a stop's `stop_source` comes when its sink is stopped). They are
not multiplied with it: the state they share is a call and its answer, which
either side may delay.

### SessionManager

The unit of interleaving is the coroutine. `loop` names the one that holds the
event loop. Actions guarded by `At(t, pc)` continue a coroutine that holds it,
so nothing comes between two of them; an action that ends in an `await` lets go
of the loop (`Await`, `Wait`), and an action guarded by `Wakes(t, pc)` resumes
when nobody holds it. `Spawn` is `asyncio.create_task`: the new coroutine runs
in the next turn. The functions call one another (`play` calls `create` calls
`stop_session`; `start_session` calls `stop_session` and is called by three), so
a coroutine is one record: its point, the session `s` it starts, the session `v`
it stops, and where it goes on after `stop_session` (`ret`) and after
`start_session` (`after`).

| Code | Actions |
|---|---|
| `POST /play`, `play` | `CallPlay`, `Play`, `Created`, `StartReturn` |
| `create` | `CallCreate`, `Create`, `CreateInspected`, `Insert` (with the pruning of old sessions) |
| `start_session` | `CallStart`, `Start`, `StopIncumbent`, `EnterStarting`, `Attempt`, `OldPipeStopped`, `SetUp`, `SinkStoppedAfterFailure`, `PipelineStarted`, `TargetPrepared`, `StreamPlayed`, `Started`, and for failures `CleanUp`, `Retry`, `StartFailed` |
| `stop_session` | `CallStop`, `Stop`, `StopInspected`, `TargetStopped`, `ReleaseSink`, `SinkStopped`, `ReleaseSource`, `PipelineStopped`, `StopDone`, `StopReturn` |
| `resume_session`, `recover` | `CallResume`, `Resume`, `ResumeInspected`; `CallRecover`, `TargetHealed` |
| `_handle_session_error` | `PipelineCrash`, `SourceError` |
| the monitor, `_quiesce_session` | `MonitorRetires`, `MonitorReclaimed`, `MonitorOutage`, `MonitorTransport`, `MonitorQuiesces`; quiescing shares the release actions |
| other controllers of the speaker | `OtherController` |

Clean-up after a failed rung, `stop_session` and `_quiesce_session` release the
same things in the same order, so they share `ReleaseSink` ... `PipelineStopped`
and differ in the coroutine's `mode`. An exception that leaves a step goes where
the code's `except` takes it (`Raise`).

Data is abstracted to what the properties tell apart: a pipeline is a number
with the state of its FFmpeg, a capture and a sink are counters and flags, a
renderer plays a session's stream, another one or none. Failures are not errors
of a kind but alternatives of the step that can fail, switched on by `Env`.

### SessionLifecycle, and how SessionManager implements it

`SessionLifecycle` has one variable, the state of every session. A session is
created, changes along the transition table, may be forced from SUPERSEDED to
FAILED (`_handle_session_error` assigns the state directly when the table
refuses), and leaves the listing only when it is over. `SessionManager`
implements it under the identity on `state` (`LifecycleSpec`): every step is a
step of `SessionLifecycle` or leaves all states alone. The interesting part is
that steps that assign without asking the table do not escape it.

### MediaHeal

A heal interleaves with its session at each of its awaits (delay, encoder start,
old pipeline's stop, playing, watching), and `stop_session` may cancel it in any
of them. To keep that tractable next to `SessionManager`, `MediaHeal` looks at
one session, started; calls come one at a time with one rung and no incumbents;
the encoder's output and the pipelines are in more detail than there.

| Code | Actions |
|---|---|
| `_schedule_media_plane_heal` | `Schedule`, in `MonitorDegrades`, `MonitorDetaches`, `Recover` |
| `_heal_media_plane` | `HealBegun`, `HealPipelineStarted`, `HealOldStopped`, `HealPlayed`, `HealSucceeds`, `HealGivesUp`; its `finally` is `Finish`; `HealCancelled` is `CancelledError` at each await |
| the monitor | `MonitorDegrades`, `MonitorRestores`, `MonitorDetaches`, `MonitorRetires` |
| `_quiesce_session` | `Quiesces`, `Quiesced` |
| `recover` | `Recover` (schedules a heal), `RecoverTarget`, `TargetHealed` |
| `stop_session`, `_cancel_and_drain` | `CallStop`, `StopHeal`, `HealDrained`, `Release`, `StopDone` |
| `start_session` | `CallStart`, `OldStopped`, `SetUp`, `PipelineStarted`, `Played`, `CleanUp`, `CleanedUp`, `FailAndStop` |
| the encoder | `EncoderFalters` |

A heal compares `media_epoch` with the epoch it was scheduled under, only ever
for "the same, one more, or newer"; the model keeps that difference (`age`, 0 to
2) in place of two unbounded counters. `overrun` is a history variable: a start of
a session nobody had stopped began while a heal was at work. The code does not
guard against that (`start_session` never looks at `_session_heals`), and heal and
start then overwrite each other's pipeline; `NoOrphan`, `SwapIsWhole` and
`OnlyStartsFinishStarts` say what holds without it.

### FrameIngest

A frame is its number, as the sink numbers it. The unit of interleaving is
again what runs between two awaits, with one exception: `on_frame` of a thread
may come anywhere, also while the ingestion task holds the loop (`getter` is
"taking" or "looked", which is the gap in `asyncio.Queue.get`).

| Code | Actions |
|---|---|
| `SessionFrameSink.on_frame`, `_ingestion_loop`, `stop` | `OnFrame`; `TakeFrame`, `SeesEmpty`, `FallsAsleep`, `Resumes`; `StopSink` |
| `JitterBuffer.push`, `pop` | `Push`; `WriteFrame`, `NothingPopped` |
| `_feed_ffmpeg_stable`, `_feed_ffmpeg_experimental` | `WriteFrame`, `WriteSilence`, `Underrun`, `Drained`, `DrainRaises`, `SlotEnds` |
| `_build_pipeline`, `start`, `stop`, the heal's swap | `Build`, `StartPipeline`, `StopPipeline`, `Swap` |

It implements `FrameChannel` with `sent <- captured` and `heard <- written`:
an encoder hears frames in the order of capture, none twice, and none after one
that a later encoder has heard.

### StreamFanout

A generator behind a response waits for two helper tasks, the one that takes
from its queue and the one that waits for its wake event, which finish in any
order: `Takes` is the first, and `Resume` sees the chunk, the event or both.

| Code | Actions |
|---|---|
| `_read_ffmpeg`, `_fan_out_encoded_chunk`, overflow policy | `ReadChunk` with `FanOut`, `Overflowing`, `Evicts`; `GraceEnds` |
| the publisher's route, `subscribe` | `Request`, `Attach`, `Takes`, `Resume`, `Sent`, `Leave`, `Ends` |
| `stop`, `unregister` | `BeginStop`, `EndStop`, `Unpublish` |

It implements `Broadcast` with `heard <- yielded`: the header once, then a piece
of the stream without a gap.

### SourceDiscovery

Follows one source of one adapter (`kind`) from PulseAudio to a play. A listing
is a record that goes from "asked" to "listed" while time passes, one on the
event loop, which it blocks, and one in the Bluetooth monitor's thread; each
reads and writes the runner's cache and the adapter's own. Times are ages in
ticks. Handlers of emitted events are tasks, which the loop runs in order.

| Code | Actions |
|---|---|
| `SubprocessRunner.run`, `invalidate_by_prefix` | `Asks`, `Returns`; `Hotplug` |
| `list_sources` on the loop | `Request`, `LoopRuns`, `LoopCompares`, `LoopStores`, `LoopFails` |
| `list_sources` in the monitor's thread | `MonitorLists`, `MonitorRuns`, `MonitorStores`, `MonitorStamps`, `MonitorFails` |
| the source registry's handler, auto play's | `HandleTopology`; `HandleAvailable`, `LookAgain`, `GiveUp` |

### The adapters and the small parts

- **`ProcessCapture`**: `start` and `stop` are synchronous and share their fields
  with a capture task, whose clean-up comes later and finds the fields as they
  are by then. A task has a process of its own (`proc`), the adapter one field
  for all (`process`).
- **`CallbackCapture`**: `call` says where `start` or `stop` is on the loop,
  `callback` where PortAudio's thread is; the session manager's verification
  polls the health that both write (`Poll`, `Deadline`).
- **`PairingWindow`**: each await of the window's task is a step, in which
  `close_window` may cancel it; `closer` counts the calls that wait for it.
- **`TrustedDevices`**: the store and its file, which may be cut off by the end
  of the bridge, `on_startup` after a restart; `asked` is what the user has said.
- **`SonosTarget`**: an operation is a coroutine with a call in a thread, which
  goes on when the coroutine is cancelled, fails with or without effect and is
  tried again; `wanted` is what the bridge has last asked for.
- **`StreamProfiles`**: `Supported`, `Negotiated` and `Ladder` are
  `is_profile_supported`, `negotiate_stream_profile` and the loop in
  `start_session`; the session keeps `selected` and `effective` across starts.
- **`DeliveryWatch`**: the monitor's round is two steps (`Looks`, `Judges`), with
  the await of the renderer's ownership between; ages in seconds.
- **`HomeAssistant`**: a poll lists the sessions in one request and reads the
  configuration in a later one (`Begins`, `ListsSessions`, `Ends`, `Fails`); a stop
  asks for one session after the other (`AskStop`) of the data it began with. The
  bridge is its table of sessions, which move as `SessionStates` allows.

`MCAdapters` puts these eight into one behaviour in which one part, chosen at
first, moves and the others stand still: they share no state, so that what holds
of each holds of all, and a run of its own for each would say no more.

## 3. The runs

| Run | States | Shows |
|---|---|---|
| `MCSerialCalls` | 1 160 000 | one call at a time, all six operations, a ladder of two rungs, every failure of a start (source, negotiation, set-up, encoder, renderer), errors of the adapter: `NothingLeaks`, `PlayingIsServed`, `RendererAgrees`, `StoppedBeforeStart` |
| `MCConcurrentCalls` | 82 000 | two overlapping calls of play and stop, with failing sources and encoders and outages: `OneActivePerTarget`, `StartingIsDriven`, `StartsEnd`, `StopsEnd` |
| `MCBackground` | 671 000 | play and recover against monitors, crashes, detaching and foreign renderers: `LifecycleSpec` |
| `MCMediaHeal` | 390 000 | the heal: `OneHeal`, `SwapIsWhole`, `NoOrphan`, `OnlyStartsFinishStarts`, `HealsEnd` |
| `MCFrames` | 100 000 | the frame path: `EveryFrameAccounted`, `ChannelSpec`, `PrimedFramesPlay`, `EncodersAreFed` |
| `MCFanout` | 709 000 | the stream's listeners: `BacklogBounded`, `StopDelivers`, `StreamSpec`, `NobodyOversleeps` |
| `MCDiscovery` | 4 600 000 | from PulseAudio to auto play: `Freshness`, `AnnouncedIsSeen`, `RegistryFollows`, `GivesUpOnlyOnLost` |
| `MCAdapters` | 731 000 | the small parts: `NothingLeftRunning`, `CaptureIsItsOwn`, `ClosedIsClosed`, `StopSticks`, `ForgottenStaysForgotten`, `ProfileFits`, `DetachmentsAreReal`, `StopReachesWhatPlays` |
| `MCArbitration`, `MCIntent`, `MCCrash`, `MCHealNotice` | | disagreements, section 4 |

### What the properties say

- `OneActivePerTarget`: two sessions are never active on one target, also when
  two calls arbitrate on what the other is about to change. No lock makes it
  hold: a session that has not started yet is an incumbent too, so of two starts
  that overlap one supersedes the other, and the table then refuses it STARTING.
- `StartingIsDriven`: no way out of `start_session` leaves the session behind.
- `NothingLeaks`, `PlayingIsServed`, `RendererAgrees`: with no
  call in flight the bookkeeping, the processes and the speaker agree with the
  state. A step that is skipped or done in the wrong order on any failure path of a
  start, of the source, the encoder or the renderer, breaks one of them.
  `PlayingIsServed` is about PLAYING: a DEGRADED session, which needs a failing
  transport, does not come about in this run, and a start over one does leave a second
  capture (section 4).
- `StoppedBeforeStart`: a takeover starts when the incumbent has been stopped.
- `LifecycleSpec`: the refinement of section 2.
- `OneHeal`: `media_heal_in_progress` is held by the one heal that runs.
- `SwapIsWhole`: publisher, sink and session agree on the pipeline in every
  state of the loop, also in the middle of a swap.
- `NoOrphan`: with nothing in flight no encoder runs but the session's.
- `OnlyStartsFinishStarts`: a heal scheduled before a stop does not complete the
  start after it.
- `StartsEnd`, `StopsEnd`, `HealsEnd`: progress. `stop_session` refuses a session
  that is STOPPING, so a stop that does not end cannot be made good.
- `ChannelSpec`, `StreamSpec`: the refinements of section 2. `EveryFrameAccounted`
  adds that no frame is lost but at the full queue or in what a pipeline is
  stopped with; the jitter buffer's late drop never hits.
- `PrimedFramesPlay`, `EncodersAreFed`: a buffer that ran empty does not wait for
  its target again, and an encoder gets frames or silence.
- `BacklogBounded`: the count that the overflow policy looks at is what the
  subscriber holds, and the policy acts on it. `StopDelivers`: what was queued
  before a stop is sent, but for one chunk in hand, and nobody stays attached.
  `NobodyOversleeps`: no generator waits over a chunk or a close.
- `Freshness`: what `list_sources` answers on the loop, from its cache or after a
  listing that did not fail, is no older than the lives of the two caches and a
  listing add up to: the monitor's thread may put its time stamp on the older list
  that the loop has just stored. It is not said of a listing that fails, which
  answers with the last list whatever its age (`LoopFails`). `AnnouncedIsSeen`:
  once the hotplug loop has announced a change, what a listing reads through the
  runner is no older than the announcement. `RegistryFollows`: the
  registry agrees with the adapter or an event will make it, unless the thread
  changed the list. `GivesUpOnlyOnLost`: auto play gives up only what is lost.
- `NothingLeftRunning`: when its sessions are over, an adapter captures nothing
  and no process is left, unless captures overlapped. `CaptureIsItsOwn`: the sink
  that the callback checked is still there when it is used, and the health that
  verifies a start is this capture's.
- `ClosedIsClosed`: however a pairing window ends, the adapter is as before.
  `ForgottenStaysForgotten`: a restart reconnects no forgotten device, wherever
  the bridge died.
- `StopSticks`: no heal, retry or refresh brings a stopped stream back.
- `ProfileFits`: a start plays what both sides accept, the best that has not
  failed, and encodes what it says. `DetachmentsAreReal`: a session is quiesced
  only for a renderer that was away for the grace, and falls back only for a
  second absence or heal. `StopReachesWhatPlays`: a stop in Home Assistant that
  raises nothing has stopped all it is for that has played since the last poll
  began, whatever polls begin, fail or overtake each other meanwhile.

Several of these name an exception (`hasty`, `leaked`, `crossed`, `kept`, `crowded`,
`missed`, `flapped`, `restarted`, `overrun`). Each is a history variable
for something that the code does not order, after which the property does fail;
section 4 lists them. In these cases the property catches nothing, and the notes of
PROJECT.json's hazards say which part of a hazard that leaves out.

### Bounds

One target: targets interact only through the sources they share, which the
adapters hand out without exclusion. Two sources: "the same source" and "another
source" are all `create` distinguishes. Two sessions: an incumbent and its
successor; a third would be one more incumbent of the loop in
`StopIncumbent`, and sessions are pruned and their numbers not reused, so runs
with `"hour"` reach the pruning. Two or three pipelines: one per session and the
one a rung before left (in `MediaHeal`: the old one, the new one, and one more
that a start adds); `Fresh` takes one only if nothing refers to it any more.
Two rungs: the last and one before it. Two calls: every race between a pair of
API calls; three or more overlapping are not covered. `MCBackground` has two
coroutines, so one call and one spawned task, or two spawned tasks. Two heal
coroutines: one more than `OneHeal` admits, so that a second heal would have a
place to run in. `LeakBound` keeps clients from calling again once a session has
leaked more than one capture or sink; without it the counters of a behaviour
that leaks would grow for ever.

`MCFrames` has two pipelines (one swap), a queue of one (full at the second
frame), a jitter target of two (primed, drained and not primed again) and three
frames: one buffered, one queued and one in the capture's hand. `MCFanout` has a
renderer and a browser, four chunks, queues of one and a hard limit of two, so
that the header, an overflow, an eviction by grace and one by the hard limit all
occur. (The code's factor between the two limits is 8; `StreamFanout` assumes 2 or
more, since with 1 the hard limit would come before the first overflow.) `MCDiscovery` has lives of two ticks and one and listings that take one,
the least at which the caches overlap; two waiting events and two auto plays of
two looks. `MCAdapters`: three captures of two sessions, two starts against the
callback, two windows with two closers, three calls around one restart with two
devices, two operations of two tries with two URLs, three starts of a session
under a window of four seconds and graces of one and two; two source and six
target descriptions, so that each rung of three is supported and not; two
speakers, two sessions, of which the first may play from the start, two overlapping
polls and one change of a session or of the chosen speaker besides the plays.

Which combinations of operations and failures a run allows is in its
`Ops` and `Env`. They are split over the runs because together they exceed what
TLC explores in minutes. `NothingLeaks` and its companions are checked for calls
that do not overlap: with overlapping ones a superseded start does leave a
running pipeline behind (end of section 4). `MCConcurrentCalls` overlaps `play` and
`stop_session`; `play` runs `create`, `resume_session` and `start_session` itself,
but calls of those three by session id are not in it, and neither is `recover`,
which does not arbitrate for a FAILED session and so breaks `OneActivePerTarget`.
A renderer that fails a start ("playback" in `Env`) is in `MCSerialCalls`,
`MCBackground` and `MCMediaHeal`: `MCConcurrentCalls` also passes with it, but takes
TLC twice as long. One that fails to heal or to stop ("renderer") is left to
`MCBackground`: after it a session is FAILED with its capture running, or its stream
goes on, as section 4 says.

### Deadlock and fairness

`CHECK_DEADLOCK FALSE` everywhere: clients may stop calling, and session numbers
may be used up. That nothing waits for ever is what the liveness properties and
the `...IsDriven` invariants say.

`SessionManager`'s fairness is `WF(Runs(t)) /\ SF(Awakens(t))` for each coroutine.
A coroutine that holds the loop runs on. What a coroutine awaits ends: FFmpeg is
started or not, `terminate` is followed by `wait`, the Sonos calls have
timeouts, queues and tasks are cancelled; and asyncio's ready queue is first in,
first out, so a coroutine that became ready is resumed even if others run all
the time, which is strong fairness because `Wakes` is disabled whenever another
holds the loop. Nothing is assumed of clients or of the environment.

`FrameIngest` has weak fairness of the ingestion task and of time, and strong
fairness of each feed loop, which other holders of the event loop disable;
`StreamFanout` weak fairness of each subscriber's two helper tasks and its
generator: a listener need not read, nor the encoder produce. `SourceDiscovery`
and the parts of `MCAdapters` are checked for safety only.

`MediaHeal` has weak fairness of each heal (its awaits end, its watch has a
deadline of 5 s), of the call in flight, of the quiescing task, and of the two
steps the monitor takes when its poll finds them due. The encoder need never
recover, and clients need never call.

## 4. Disagreements found

Each is a run that TLC refutes, with the details in PROJECT.json "findings".

- `MCArbitration`, `StoppedBeforeStart`. `stop_session` answers True at once when
  a session is already STOPPING, and `start_session` takes that for a finished
  stop. With two overlapping `play` calls the second starts while the incumbent
  still captures and encodes.
- `MCIntent`, `HigherIntentStays`. `play` with the takeover policy supersedes the
  incumbent before anything compares intents: an autoplay session ends a manual
  one.
- `MCCrash`, `StopsEnd`. When a pipeline task has died of an exception,
  `pipeline.stop()` raises it again; the stop that cleans up after the crash dies
  of it, and the session stays STOPPING.
- `MCHealNotice`, `LossNoticed`. The monitor remembers in a local flag that it
  has reported a loss, and forgets it only when it restores PLAYING itself. A
  heal that restores PLAYING leaves it set; the next loss is neither reported nor
  healed.

Met while modelling, and left without a run of their own. The first group are
what the exceptions of the properties stand for.

- Session manager: a start that is superseded while it awaits goes on to start
  FFmpeg and leaves it running; a start over a running heal leaves an encoder
  behind; a heal cancelled in its delay leaves `media_heal_in_progress` set;
  quiescing and stopping may both delete the same sink entry; `recover` on a
  FAILED session does not arbitrate. `start_session` of a DEGRADED session, or of one
  that a failed `recover` has left FAILED, releases nothing of what it has: it
  overwrites its frame sink and `adapter_session_id`, so that two captures run and
  the first cannot be stopped any more. Two stopped sessions that are started by id
  over a third one may both get to STARTING: the second start supersedes the third
  session while the first still stops it, a late source error takes it back to FAILED
  and stops it again, and the first stop, which would have died of the refused
  transition, then finds STOPPING and returns to its start.
- Profiles: `_build_pipeline` prefers `effective_stream_profile`, which nothing
  resets, to the rung's `selected_stream_profile`. A session that has played
  before starts every rung of its ladder with the old profile.
- Delivery: a start does not reset `primary_established` and
  `delivery_heal_attempts_total`, so that after two heals the first detachment
  falls back to the stable profile, where absences are no longer noticed; an
  encoder's hiccup or a repeated play breaks one long absence into two.
- Frames: a thread that puts into a full queue does not wake a getter that fell
  asleep over it, for good. A chunk in a generator's hand is lost at a close; a
  listener that attaches after `stop()` waits for ever.
- Discovery: what the Bluetooth monitor's thread finds is emitted where no
  handler hears it; its older listing may overwrite a newer one. A hotplug event
  invalidates the runner's caches, not the Linux adapter's, and a command that it
  overtakes stores its old result. When a command fails the Bluetooth adapter answers
  with its last list, however old; the one that lists the cards has no timeout.
- Capture: a new capture that starts before the last one is cleaned up shares
  `_running` and `_process` with it, and may be stopped or lose its process; a
  capture whose source has left the registry is not stopped. On Windows a stream
  that cannot be closed is forgotten while its callback goes on, and the verdict
  `healthy_but_idle` is never reached, since `_classify_windows_verification_state`
  says "active" whenever frames are emitted.
- Pairing: a second `close_window` cancels the clean-up and leaves the adapter
  pairable; a failing D-Bus connection leaves the window open for good.
- Trusted devices: the file is truncated before it is written, so that a crash
  loses all devices.
- Home Assistant: `get_active_session` takes every session that is not stopped, so
  that a superseded or failed one, listed for an hour before the one that plays,
  hides it: the media player shows that one, and a stop of a superseded one is
  refused by the bridge. The
  stop of all sessions leaves out degraded and quiesced ones.
- Sonos: a call in a thread outlives its coroutine's cancellation and may replay
  a stream after the stop; a stop without a player keeps the record.

## 5. The proofs

`tlapm` proves, for every value of the constants that satisfies the assumptions
declared in the modules:

| Theorem | Says |
|---|---|
| `SessionManagerProofs!TypeCorrect` | `Spec => []TypeOK` |
| `SessionManagerProofs!StartingDriven` | `Spec => []StartingIsDriven` |
| `SessionManagerProofs!ImplementsLifecycle` | `Spec => LifecycleSpec` |
| `SerialCallsProofs!NothingLeaksSerially`, `PlayingIsServedSerially` | `Serial => (Spec => []NothingLeaks)`, `Serial => (Spec => []PlayingIsServed)` |
| `SerialCallsProofs!OneActiveSerially`, `StoppedBeforeStartSerially` | `Serial => (Spec => []OneActivePerTarget)`, `Serial => (Spec => StoppedBeforeStart)` |
| `SerialCallsProofs!RendererAgreesSerially` | `Undisturbed => (Spec => []RendererAgrees)` |
| `MediaHealProofs!HealTypeCorrect` | `Spec => []TypeOK` |
| `MediaHealProofs!HealsExclude` | `Spec => []OneHeal` |
| `MediaHealProofs!SwapsAreWhole`, `NoOrphans` | `Spec => []SwapIsWhole`, `Spec => []NoOrphan` |
| `MediaHealProofs!StartsFinishThemselves` | `Spec => OnlyStartsFinishStarts` |
| `FrameIngestProofs!FrameTypeCorrect` | `Spec => []TypeOK` |
| `FrameIngestProofs!FramesAreAccounted` | `Spec => []EveryFrameAccounted` |
| `FrameIngestProofs!FrameRefinement` | `Spec => ChannelSpec` |
| `StreamFanoutProofs!FanoutTypeCorrect` | `Spec => []TypeOK` |
| `StreamFanoutProofs!BacklogsAreBounded`, `StopLosesAtMostOne` | `Spec => []BacklogBounded`, `Spec => []StopDelivers` |
| `StreamFanoutProofs!StreamRefinement` | `Spec => StreamSpec` |
| `SourceDiscoveryProofs!DiscoveryTypeCorrect` | `Spec => []TypeOK` |
| `SourceDiscoveryProofs!ListingsAreFresh`, `AnnouncementsAreSeen` | `Spec => []Freshness`, `Spec => []AnnouncedIsSeen` |
| `SourceDiscoveryProofs!RegistryIsFollowed` | `Spec => []RegistryFollows` |
| `SourceDiscoveryProofs!AutoPlayIsPatient` | `Spec => GivesUpOnlyOnLost` |
| `StreamProfilesProofs!TypeCorrect` | `Spec => []TypeOK` |
| `AdaptersProofs!NothingRunsOn` | `Spec => [](Process!TypeOK /\ NothingLeftRunning)` |
| `AdaptersProofs!CapturesAreTheirOwn` | `Spec => [](Callback!TypeOK /\ CaptureIsItsOwn)` |
| `AdaptersProofs!WindowsClose` | `Spec => [](Pairing!TypeOK /\ ClosedIsClosed)` |
| `AdaptersProofs!StopsStick` | `Spec => [](Sonos!TypeOK /\ StopSticks)` |
| `AdaptersProofs!Forgotten` | `Spec => [](Trust!TypeOK /\ ForgottenStaysForgotten)` |
| `AdaptersProofs!ProfilesFit` | `Spec => [](Profile!TypeOK /\ ProfileFits)` |
| `AdaptersProofs!Detachments` | `Spec => [](Delivery!TypeOK /\ DetachmentsAreReal)` |
| `AdaptersProofs!StopReaches` | `Spec => [](Home!TypeOK /\ StopReachesWhatPlays)` |
| `AdaptersProofs!PartsAreTyped` | `Spec => []TypeOK` |

Every invariant that these proofs rest on was first an invariant of a TLC run on the
instance of its module's run, or a smaller one.

**Session manager.** The assumptions are that there is at least one session,
rung, source, target and intent, and that the model values for "nobody" are not
members of the sets. Types alone are not inductive: releasing a capture
decrements a counter, which stays a natural number only because a session whose
`adapter_session_id` is set has a running capture; and a step that uses a
coroutine's session needs that the coroutine has one. `IInv` adds both:

- `TaskInv`: every coroutine is `Sound`: at each point the fields that point
  relies on (the session it starts, the one it stops, the pipeline it waits for,
  a rung begun) are set;
- `SourceInv`: `adapter[s] => captures[s] >= 1`, and a live sink's task is counted;
- `SessionInv`, `MediaInv`, `OutsideInv`: types.

One lemma per action, over helper lemmas for the ways a coroutine moves
(`Moves`, `Continues`, `ContinuesRung`, `Finishes`). `StartingIsDriven` is
inductive relative to `IInv`. The refinement needs of each action only how it
changes `state`.

**Calls one at a time.** `Serial` says that `Tasks` has one member, so that calls,
spawned stops and quiescing tasks never overlap, and that `Env` names neither
failures of a target's heal or stop ("renderer") nor of the transport; everything
else is arbitrary: the numbers of sessions, pipelines, rungs, sources and targets, the
operations, every other failure, the renderer's in a start included. Both exclusions
are needed: a `recover` that fails leaves a FAILED session with its capture running,
which `NothingLeaks` forbids and `stop_session` has yet to clean up; with a failing
transport sessions become DEGRADED, and a start over one, which stops neither its
capture nor its sink, breaks `PlayingIsServed` and `NothingLeaks` for good. Three
invariants:

- `Shape`: what a session holds. One that no call is at work on holds everything or
  nothing, as its state says (`Rested`); for the one at work, each point of
  `start_session`, of the release and of `stop_session` says what has been taken
  and what given back. `NothingLeaks` and `PlayingIsServed` are `Rested` with no
  call at work.
- `Lone`: a target has one session that is not over (`Alone`), and arbitration keeps
  it so (`Cleared`): nobody is on the target when `create` inserts, and when
  `start_session` goes to STARTING only the session itself and those still on its
  list of incumbents. Between the last stop and STARTING, or the insertion, lies
  no await.
- `Tuned`: what a renderer plays is a session of its target that is up, or one that
  a stop is about to silence; and it does play the session that is PLAYING. With
  `stop_target`, which silences whoever plays, this needs `Lone`. `Undisturbed` adds
  to `Serial` that no other controller uses the renderers and that they answer.

**Media heal.** `OneHeal` is not inductive: a heal that has built its pipeline
advances the epoch and must still count as the owner of the flag afterwards,
which needs that nothing has moved the epoch since it was scheduled. `Young`
says so: in its delay and while it builds, a heal's epoch is the session's.
`ScheduleKeeps` and `FinishKeeps` are the two halves of the exclusion.

On top of it, `SwapInv`. `Control`: the heal at work is the one that the session has
registered, or the one that a stop drains; past the drain a stop is alone, and so
is a start that no heal has overrun, STARTING throughout. `Whole`, `FedOff`: whoever
moves `session.pipeline` is the only one that holds the one before. `Own`: every
encoder is the session's or is being stopped by who took it out. The action
property follows from `Control` alone.

**Frame path.** For any number of frames, pipelines and any queue length. `InOrder`:
whatever is ahead of others, in a hand, a buffer or the queue, was captured
earlier; `Takeover`: only the pipeline that the sink points to has frames left to
write, so that the head of the queue follows all that any encoder has heard, and
the late drop never hits; `Accounted`: no frame in two places. The refinement is the step from these to
"the next frame written is later than all that were".

**Fan-out.** For any subscribers and any limits. `SubInv` says, for one subscriber,
that what it was given lies in the response, the hand and the queue, in this order,
as the header and then consecutive chunks (`Chained`), the last of which is the last
one emitted as long as the fan-out knows the subscriber (`Kept`). `Counted` and
`Backlog` tie the count to what is held. All four theorems read off it.

**Source discovery.** For any lives of the caches. `AgedInv` follows the age of what a
listing saw from the runner's entry through the listing into the adapter's cache,
for the loop's and the thread's listing at once; that no listing takes longer than
`MaxRun` is an assumption. `AnnouncedIsSeen` is inductive as it stands: the runner
forgets what it has when the announcement is made, and no thread lists beside the Linux
adapter's loop. `ViewInv`: the loop never changes
its answer without announcing it (`Silent`, `Announced`), so where the registry lacks
the adapter's source an announcement waits; auto play looks only after that event has
been handled (`Looked`, `Patience`), hence gives up only what is lost.

**Stream profiles.** For any capabilities: the invariant says what is left of the
ladder. Its rungs are profiles both accept; the present rung is the best of
them; what both accept is on the ladder, has failed, or is better than a profile
known to be good (`NothingForgotten`). `NegotiatedIsBest` is what
`negotiate_stream_profile` promises, whatever is described.

**The small parts.** `MCAdapters` assumes `Bounds`, that the bounds and the times are
numbers, and `Distinct`, that the model values for "none" and "silent" stand for
nothing else. The lemmas `IsProcess`, `IsCallback` and so on say that a behaviour of
all the parts is one of each, and each has an invariant of its own:

- *Capture* (`OneCapture`): as long as no capture begins before the last is cleaned
  up, one task at most is not over; what captures is the current one, in a session
  that somebody holds; what runs is `_process`. `CleanUpTerminates` is the finally
  clause, which six of the actions end in.
- *Callback* (`CallbackInv`): the last level is reached with a frame, and what is taken
  for a signal has been heard in the same capture.
- *Pairing* (`PairingInv`): as long as no call has cancelled a clean-up, one window at
  most is at work, and an agent, or an adapter that is pairable or discoverable, is that
  of a window that has still to take it back.
- *Sonos* (`SonosInv`): the record is what was asked for last, as long as no call has
  failed; and if none was overtaken either, whoever is on the way to the player brings
  just that, and the player obeys or somebody is on the way to make it (`Due`).
- *Trusted devices* (`StoreOK`): the store holds nothing that was not asked for, and a
  file that is whole and was saved holds what the store holds; so that a restart
  reads the store's last word, nothing, or a file that fell behind because it could
  not be opened, which `lost` remembers.
- *Profiles*: the theorems of `StreamProfilesProofs` (`Fits`), whose constants are arbitrary,
  at the capabilities of `MCAdapters`; `SameSteps` and its lemmas say that the two
  instances of the module have the same steps.
- *Delivery* (`AgesInOrder`, `OneForEach`): a detachment is no older than the absence
  that it is taken for, and one absence has brought one of them unless something broke
  it in two. `PrunedIsShorter`: pruning takes only the front of the queue, which holds
  two at most, because the second makes the session fall back.
- *Home Assistant* (`HomeInv`): what a poll saw playing, and has played since, plays
  now and is in the data the poll brings; a stop owes nothing that it leaves out.

**Model-checked only.**

- The liveness properties (`StartsEnd`, `StopsEnd`, `HealsEnd`, `PrimedFramesPlay`,
  `EncodersAreFed`, `NobodyOversleeps`): fairness and `ENABLED` are beyond the prover.
- `OneActivePerTarget` for overlapping calls. `MCConcurrentCalls` shows it for `play`
  and `stop`; with `start_session` by session id and a source error it is false
  (section 4). `OneActiveSerially` is the part that holds however large the instance.
- The four properties that section 4 refutes, as stated there.

Every other safety property that a run checks is a theorem, five of the session
manager's under `Serial` or `Undisturbed`.

## 6. What is not modelled

- Session manager: the shims `start`, `stop`, `terminate`, `update_state`, `delete`
  and `_resolve_target_conflict` have no caller outside the tests; snapshots and
  diagnostics are output. Three calls at a time are not checked.
- In `SessionManager`: `recover` of a DEGRADED session, which schedules a heal
  (`MediaHeal` has it); the await of the Windows verification in a start
  (`CallbackCapture` has it); the pruning of a session whose call has been on the way
  for an hour.
- In `SourceDiscovery`: the commands of a listing, up to three, are one, which ends
  within `MaxRun` (the code gives the cards' command no timeout); the commands of
  the adapter that is not followed.
- Failures the API cannot meet: an exception in `transition_to`'s own body, out of
  memory.
- In `MediaHeal`: failures of a start's source and set-up (they are in
  `SessionManager`), calls that overlap, and starts of a session that is being
  quiesced.
- Samples, presentation times and the resampling of the Windows adapter, which
  drops the fraction of a sample at each callback: no step depends on them.
- Identity: how the source registry derives canonical ids and merges adapters.
- Volume, grouping of several players, and BlueZ's own Trusted property, which
  is set by a task that nothing orders with the next call.
- The orderly shutdown of the bridge, the Ingress SDK's codec, the web page, the
  HTTP translation, and what Home Assistant's entities show, are data, presentation
  or input/output.
- Time is modelled where the code compares times (`SourceDiscovery`,
  `DeliveryWatch`); elsewhere a timeout or a window that passes is a step that may
  happen at any moment once its condition holds.

## 7. Plan

Done: the session manager, the media-plane heal, the frame path and the fan-out
with their abstract specifications, discovery, the adapters, profiles, the
delivery watch and Home Assistant; the proofs of section 5. Next, most important first:

1. **Overlapping calls.** What holds of two calls at a time for every constant, short
   of `OneActivePerTarget`: `NothingLeaks` and `RendererAgrees` once all calls have
   ended, with the exceptions that section 4 names as part of the statement.
2. **Refinement of the small parts.** An abstract renderer that plays what it was last
   told, implemented by `SonosTarget`, so that the session manager's renderer is one.
3. **Identity** in the source registry, and groups of several players.
