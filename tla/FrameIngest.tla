----------------------------- MODULE FrameIngest -----------------------------
(***************************************************************************)
(* The way of a frame from the capture to the encoder: the session's frame *)
(* sink with its bounded queue and ingestion task, the jitter buffer of    *)
(* each stream pipeline, and the feed loops that write frames or silence   *)
(* to FFmpeg, while a heal swaps the pipeline under the running sink.      *)
(*                                                                         *)
(* The ingestion task takes frames without suspending as long as there are *)
(* any, so it holds the event loop from its first frame to its sleep (at   *)
(* "taking" and "looked"); a capture thread is not stopped by that.        *)
(* Frames are numbered as the sink numbers them, from 1.                   *)
(***************************************************************************)
EXTENDS Naturals, Sequences, FiniteSets

CONSTANTS
    MaxFrames,     \* bound: frames captured in one behaviour
    MaxPipelines,  \* bound: pipelines a session uses one after the other
    QueueSize,     \* maxsize of the sink's queue
    JitterTarget,  \* frames that make up live_jitter_target_ms
    Origins,       \* where captures call on_frame: "loop" or "thread"
    Loops,         \* which feed loops: "stable" or "experimental", the paced one
    Keepalive,     \* whether silence is sent to idle encoders
    Env            \* "crash": encoders may die

ASSUME FrameBounds ==
    /\ MaxFrames \in Nat /\ MaxPipelines \in Nat \ {0}
    /\ QueueSize \in Nat \ {0} /\ JitterTarget \in Nat \ {0}
    /\ Origins \subseteq {"loop", "thread"}
    /\ Loops \subseteq {"stable", "experimental"} /\ Keepalive \in BOOLEAN

Pipes   == 1 .. MaxPipelines
Frames  == 1 .. MaxFrames
Unset   == 0                \* _next_sequence before the first pop

VARIABLES
    origin,     \* where this session's capture calls on_frame
    loop,       \* the feed loop of this session's profile
    captured,   \* frames numbered so far (SessionFrameSink._next_sequence)
    sink,       \* SessionFrameSink._active
    queue,      \* SessionFrameSink._queue
    getter,     \* the ingestion task in its queue.get()
    target,     \* SessionFrameSink.pipeline
    st,         \* life of each pipeline
    buffer,     \* JitterBuffer._frames, by sequence number
    primed,     \* JitterBuffer._ready
    expected,   \* JitterBuffer._next_sequence
    feeder,     \* the feed task of each pipeline
    idle,       \* no frame was pushed within the idle threshold
    written,    \* the frames written to each encoder so far
    overflowed  \* frames dropped at the full queue

sinkVars   == <<origin, loop, captured, sink, queue, getter, target, overflowed>>
jitterVars == <<buffer, primed, expected>>
feedVars   == <<feeder, idle, written>>
vars == <<origin, loop, captured, sink, queue, getter, target, st, buffer, primed, expected,
          feeder, idle, written, overflowed>>

LoopFree == getter \notin {"taking", "looked"}

Init ==
    /\ origin \in Origins
    /\ loop \in Loops
    /\ captured = 0
    /\ sink = "active"
    /\ queue = <<>>
    /\ getter = "woken"                        \* the task's first turn
    /\ target = 1
    /\ st = [p \in Pipes |-> IF p = 1 THEN "built" ELSE "unused"]
    /\ buffer = [p \in Pipes |-> {}]
    /\ primed = [p \in Pipes |-> FALSE]
    /\ expected = [p \in Pipes |-> Unset]
    /\ feeder = [p \in Pipes |-> "none"]
    /\ idle = [p \in Pipes |-> FALSE]
    /\ written = [p \in Pipes |-> <<>>]
    /\ overflowed = {}

-----------------------------------------------------------------------------
(* The frame sink *)

(* Mutant: the bound is checked after the frame has been put. *)
HasRoomForOneMore == Len(queue) <= QueueSize

\* put_nowait
HasRoom == Len(queue) < QueueSize

\* asyncio.Queue wakes the getter that sleeps.
Woken == IF getter = "asleep" THEN "woken" ELSE getter

OnFrame ==
    /\ sink = "active"
    /\ captured < MaxFrames
    /\ origin = "thread" \/ LoopFree
    /\ captured' = captured + 1
    /\ IF HasRoom
       THEN queue' = Append(queue, captured + 1) /\ getter' = Woken /\ UNCHANGED overflowed
       ELSE overflowed' = overflowed \cup {captured + 1} /\ UNCHANGED <<queue, getter>>
    /\ UNCHANGED <<origin, loop, sink, target, st, jitterVars, feedVars>>

(* Mutant: the next sequence is one too high, so the next frame counts as late. *)
LateByOne(p, f) == expected[p] # Unset /\ f <= expected[p]

\* JitterBuffer.push: a frame older than the next one to play is dropped.
IsLate(p, f) == expected[p] # Unset /\ f < expected[p]

Push(p, f) ==
    IF IsLate(p, f) THEN UNCHANGED <<buffer, primed>>
    ELSE LET frames == buffer[p] \cup {f} IN
         /\ buffer' = [buffer EXCEPT ![p] = frames]
         /\ primed' = [primed EXCEPT ![p] = @ \/ Cardinality(frames) >= JitterTarget]

\* One turn of _ingestion_loop: get() without suspending, push_frame.
TakeFrame ==
    /\ getter = "taking"
    /\ queue # <<>>
    /\ queue' = Tail(queue)
    /\ Push(target, Head(queue))
    /\ idle' = [idle EXCEPT ![target] = FALSE]
    /\ UNCHANGED <<origin, loop, captured, sink, getter, target, overflowed, st, expected,
                   feeder, written>>

\* get() sees an empty queue, and then waits; a thread may put in between.
SeesEmpty ==
    /\ getter = "taking"
    /\ queue = <<>>
    /\ getter' = "looked"
    /\ UNCHANGED <<origin, loop, captured, sink, queue, target, overflowed, st, jitterVars,
                   feedVars>>

FallsAsleep ==
    /\ getter = "looked"
    /\ getter' = "asleep"
    /\ UNCHANGED <<origin, loop, captured, sink, queue, target, overflowed, st, jitterVars,
                   feedVars>>

Resumes ==
    /\ getter = "woken"
    /\ getter' = "taking"
    /\ UNCHANGED <<origin, loop, captured, sink, queue, target, overflowed, st, jitterVars,
                   feedVars>>

StopSink ==
    /\ LoopFree
    /\ sink = "active"
    /\ sink' = "stopped"
    /\ getter' = "over"
    /\ UNCHANGED <<origin, loop, captured, queue, target, overflowed, st, jitterVars, feedVars>>

-----------------------------------------------------------------------------
(* Pipelines *)

\* _build_pipeline, of a heal, while the session's pipeline runs.
Build(p) ==
    /\ LoopFree
    /\ sink = "active"
    /\ st[p] = "unused"
    /\ \A q \in Pipes : q < p => st[q] # "unused"
    /\ \A q \in Pipes \ {target} : st[q] \notin {"built", "active"}
    /\ st' = [st EXCEPT ![p] = "built"]
    /\ UNCHANGED <<sinkVars, jitterVars, feedVars>>

\* start(): FFmpeg runs and the feed task is created.
StartPipeline(p) ==
    /\ LoopFree
    /\ st[p] = "built"
    /\ st' = [st EXCEPT ![p] = "active"]
    /\ feeder' = [feeder EXCEPT ![p] = "pop"]
    /\ UNCHANGED <<sinkVars, jitterVars, idle, written>>

\* stop(): the feed task is cancelled wherever it waits and writes no more.
Stopped(p) ==
    /\ st' = [st EXCEPT ![p] = "stopped"]
    /\ feeder' = [feeder EXCEPT ![p] = "over"]

\* The heal re-points the sink, then stops the old pipeline.
Swap(p) ==
    /\ LoopFree
    /\ p # target /\ st[p] = "active"
    /\ target' = p
    /\ Stopped(target)
    /\ UNCHANGED <<origin, loop, captured, sink, queue, getter, overflowed, jitterVars,
                   idle, written>>

\* A heal that failed before the swap, or stop_session once the sink is stopped.
StopPipeline(p) ==
    /\ LoopFree
    /\ st[p] \in {"built", "active", "dead"}
    /\ sink = "stopped" \/ p # target
    /\ Stopped(p)
    /\ UNCHANGED <<sinkVars, jitterVars, idle, written>>

EncoderDies(p) ==
    /\ "crash" \in Env
    /\ st[p] = "active"
    /\ st' = [st EXCEPT ![p] = "dead"]
    /\ UNCHANGED <<sinkVars, jitterVars, feedVars>>

-----------------------------------------------------------------------------
(* The jitter buffer's pop and the feed loops *)

(* Mutant: pop takes the frame that came last. *)
NewestFirst(p, f) == f \in buffer[p] /\ \A g \in buffer[p] : g <= f

(* Mutant: the buffer waits for its target again after every underrun. *)
AlwaysPriming(p) == ~primed[p]

First(p, f)  == f \in buffer[p] /\ \A g \in buffer[p] : f <= g
Priming(p)   == ~primed[p] /\ expected[p] = Unset
Playable(p)  == buffer[p] # {} /\ ~Priming(p)

\* pop() returns a frame, which is written to FFmpeg's stdin.
WriteFrame(p) == \E f \in buffer[p] :
    /\ LoopFree
    /\ feeder[p] = "pop"
    /\ Playable(p)
    /\ First(p, f)
    /\ buffer' = [buffer EXCEPT ![p] = @ \ {f}]
    /\ primed' = [primed EXCEPT ![p] = @ /\ buffer[p] # {f}]
    /\ expected' = [expected EXCEPT ![p] = f + 1]
    /\ written' = [written EXCEPT ![p] = Append(@, f)]
    /\ feeder' = [feeder EXCEPT ![p] = "frame"]
    /\ UNCHANGED <<sinkVars, st, idle>>

\* pop() on an empty buffer clears _ready.
NothingPopped(p) ==
    /\ LoopFree
    /\ feeder[p] = "pop"
    /\ ~Playable(p)
    /\ primed' = [primed EXCEPT ![p] = @ /\ buffer[p] # {}]
    /\ UNCHANGED <<sinkVars, st, buffer, expected, idle, written>>

(* Mutant: no silence as long as the jitter buffer holds frames. *)
SilenceOnlyWhenEmpty(p) == Keepalive /\ idle[p] /\ buffer[p] = {}

\* _resolve_keepalive_payload
SilenceDue(p) == Keepalive /\ idle[p]

WriteSilence(p) ==
    /\ NothingPopped(p)
    /\ SilenceDue(p)
    /\ feeder' = [feeder EXCEPT ![p] = "silence"]

Underrun(p) ==
    /\ NothingPopped(p)
    /\ ~SilenceDue(p)
    /\ feeder' = [feeder EXCEPT ![p] = "pause"]

\* The write has drained: the next frame at once, or a pause after silence and,
\* in the paced loop, after every slot.
Drained(p) ==
    /\ LoopFree
    /\ feeder[p] \in {"frame", "silence"} /\ st[p] = "active"
    /\ feeder' = [feeder EXCEPT ![p] = IF @ = "frame" /\ loop = "stable" THEN "pop" ELSE "pause"]
    /\ UNCHANGED <<sinkVars, st, jitterVars, idle, written>>

\* The write to a dead encoder raises, which ends the feed task.
DrainRaises(p) ==
    /\ LoopFree
    /\ feeder[p] \in {"frame", "silence"} /\ st[p] = "dead"
    /\ feeder' = [feeder EXCEPT ![p] = "over"]
    /\ UNCHANGED <<sinkVars, st, jitterVars, idle, written>>

SlotEnds(p) ==
    /\ LoopFree
    /\ feeder[p] = "pause"
    /\ feeder' = [feeder EXCEPT ![p] = "pop"]
    /\ UNCHANGED <<sinkVars, st, jitterVars, idle, written>>

\* Time passes without a frame.
GoesIdle(p) ==
    /\ Keepalive /\ feeder[p] \notin {"none", "over"} /\ ~idle[p]
    /\ idle' = [idle EXCEPT ![p] = TRUE]
    /\ UNCHANGED <<sinkVars, st, jitterVars, feeder, written>>

-----------------------------------------------------------------------------
Ingestion == TakeFrame \/ SeesEmpty \/ FallsAsleep \/ Resumes
Feeding(p) == WriteFrame(p) \/ WriteSilence(p) \/ Underrun(p) \/ Drained(p)
              \/ DrainRaises(p) \/ SlotEnds(p)

Next ==
    \/ OnFrame \/ StopSink \/ Ingestion
    \/ \E p \in Pipes :
        \/ Build(p) \/ StartPipeline(p) \/ Swap(p) \/ StopPipeline(p) \/ EncoderDies(p)
        \/ GoesIdle(p) \/ Feeding(p)

\* Tasks that are ready run, FFmpeg reads its input, and time passes.
Fairness ==
    /\ WF_vars(Ingestion)
    /\ \A p \in Pipes : SF_vars(Feeding(p)) /\ WF_vars(GoesIdle(p))

Spec     == Init /\ [][Next]_vars
FairSpec == Spec /\ Fairness

-----------------------------------------------------------------------------
(* Type correctness. *)
TypeOK ==
    /\ origin \in Origins /\ loop \in Loops
    /\ captured \in 0 .. MaxFrames
    /\ sink \in {"active", "stopped"}
    /\ queue \in Seq(Frames) /\ Len(queue) <= QueueSize
    /\ getter \in {"taking", "looked", "asleep", "woken", "over"}
    /\ target \in Pipes
    /\ st \in [Pipes -> {"unused", "built", "active", "dead", "stopped"}]
    /\ buffer \in [Pipes -> SUBSET Frames]
    /\ primed \in [Pipes -> BOOLEAN]
    /\ expected \in [Pipes -> 0 .. MaxFrames + 1]
    /\ feeder \in [Pipes -> {"none", "pop", "frame", "silence", "pause", "over"}]
    /\ idle \in [Pipes -> BOOLEAN]
    /\ written \in [Pipes -> Seq(Frames)]
    /\ overflowed \subseteq Frames

-----------------------------------------------------------------------------
(* Properties *)

\* Encoders hear the frames of FrameChannel: in order, none twice, none by two
\* encoders, also over a swap of pipelines under the running ingestion task.
Channel == INSTANCE FrameChannel WITH Encoders <- Pipes, sent <- captured, heard <- written
ChannelSpec == Channel!Spec

\* Every frame is in one place: the queue, one jitter buffer, one encoder, or
\* dropped at the full queue.  The jitter buffer's late drop never hits.
Places(f) ==
    {<<"queue", i>> : i \in {j \in DOMAIN queue : queue[j] = f}}
    \cup {<<"buffer", p>> : p \in {q \in Pipes : f \in buffer[q]}}
    \cup {<<"encoder", p>> : p \in {q \in Pipes : \E i \in DOMAIN written[q] : written[q][i] = f}}
    \cup {<<"dropped", 0>> : x \in {f} \cap overflowed}
EveryFrameAccounted == \A f \in 1 .. captured : Cardinality(Places(f)) = 1

\* Once a buffer has reached its target, its frames reach the encoder; an
\* underrun does not make later frames wait for the target again.
Due(f) == \E p \in Pipes :
    f \in buffer[p] /\ (primed[p] \/ expected[p] # Unset) /\ st[p] = "active"
PrimedFramesPlay == \A f \in Frames : Due(f) ~> ~Due(f)

\* An encoder is never left without input: frames, or silence when the source
\* has nothing, also while a buffer that cannot reach its target holds some.
EncodersAreFed == Keepalive => \A p \in Pipes :
    st[p] = "active" ~> feeder[p] \in {"frame", "silence"} \/ st[p] # "active"
=============================================================================
