--------------------------- MODULE SessionManager ---------------------------
(***************************************************************************)
(* The session manager: calls of the API, session monitors and error       *)
(* handlers as coroutines of one event loop.  `loop` names the coroutine   *)
(* that holds the loop.  A coroutine keeps it from one suspension to the   *)
(* next (actions guarded by At, which nothing can interleave with) and     *)
(* gets it back when what it awaits has completed (actions guarded by      *)
(* Wakes, enabled only while nobody holds the loop).                       *)
(*                                                                         *)
(* play, create, resume_session, start_session and stop_session call one   *)
(* another; a coroutine is therefore one record: the point it is at, the   *)
(* session `s` it starts, the session `v` it stops or releases, and where  *)
(* to go on after stop_session (`ret`) and after start_session (`after`).  *)
(***************************************************************************)
EXTENDS SessionStates, Naturals, FiniteSets

CONSTANTS
    MaxSessions,   \* bound: sessions created in one behaviour
    MaxPipelines,  \* bound: stream pipelines that exist at one time
    MaxAttempts,   \* length of the profile ladder
    MaxCalls,      \* bound: API calls in flight at one time
    LeakBound,     \* bound: clients call while no session has leaked more
    Tasks,         \* coroutines, of API calls and of the background
    NoTask,        \* nobody holds the event loop
    Sources, Targets,
    Intents,       \* priorities of INTENT_PRIORITY
    Silent, Foreign, \* what a renderer does when it plays no bridge stream
    Ops,           \* API operations clients use
    Env            \* what the environment may do: failures and others' actions

Sessions  == 1 .. MaxSessions   \* in the order of creation, as in the dict
Pipelines == 1 .. MaxPipelines
None      == 0

ASSUME BoundsAssumption ==
    /\ MaxSessions \in Nat \ {0} /\ MaxPipelines \in Nat /\ MaxCalls \in Nat
    /\ LeakBound \in Nat
    /\ MaxAttempts \in Nat \ {0}
    /\ Intents \subseteq Nat
ASSUME NonEmptyAssumption == Sources # {} /\ Targets # {} /\ Intents # {}
ASSUME NamesAssumption ==
    /\ NoTask \notin Tasks
    /\ Silent \notin Sessions /\ Foreign \notin Sessions /\ Silent # Foreign

VARIABLES
    state,      \* Session.state, ABSENT or PRUNED outside `_sessions`
    info,       \* source, target, intent and exclusive of a session
    pipeOf,     \* Session.pipeline
    published,  \* StreamPublisher._pipelines
    url,        \* whether Session.stream_url is set
    adapter,    \* whether Session.adapter_session_id is set
    sink,       \* the entry of `_frame_sinks`
    monitor,    \* whether `_session_monitors` holds a running monitor
    pipe,       \* every pipeline object: its session and its FFmpeg process
    sinks,      \* frame sinks whose ingestion task runs, per session
    captures,   \* captures of the source adapter that run, per session
    renderer,   \* what each target plays: a session's stream or not
    task, loop

sessionVars == <<state, info>>
mediaVars   == <<pipeOf, published, url, pipe>>
sourceVars  == <<adapter, sink, sinks, captures>>
vars == <<state, info, pipeOf, published, url, adapter, sink, monitor, pipe,
          sinks, captures, renderer, task, loop>>

-----------------------------------------------------------------------------
Policies == {"takeover", "reuse", "reject", "none"}   \* "none": create() itself
Info    == [source : Sources, target : Targets, intent : Intents, exclusive : BOOLEAN]
Request == [info : Info, takeover : BOOLEAN, policy : Policies]
NoInfo    == CHOOSE i \in Info : TRUE
NoRequest == [info |-> NoInfo, takeover |-> FALSE, policy |-> "none"]

AwaitPoints == {"create_inspect", "resume_inspect",
    "old_stop", "sink_fail", "pipe_start", "prepare", "play_stream",
    "replay_prepare", "replay_play", "stop_inspect", "stop_target",
    "sink_stop", "pipe_stop", "heal_target"}
RunPoints == {"play", "create", "insert", "resume", "start", "incumbents", "attempt",
    "setup", "started", "cleanup", "retry", "failed", "start_return",
    "stop", "sinks", "release_source", "stop_done", "stop_return"}

Coroutine == [pc : AwaitPoints \cup RunPoints \cup {"idle"}, api : BOOLEAN,
    s : Sessions \cup {None}, v : Sessions \cup {None},
    ret : {"done", "play_create", "create_insert", "create_return", "incumbents", "start_return"},
    after : {"done", "replay", "restart"},
    mode : {"stop", "cleanup", "quiesce"},
    todo : SUBSET Sessions, tries : 0 .. MaxAttempts, pipe : Pipelines \cup {None},
    req : Request, force : BOOLEAN]

Idle == [pc |-> "idle", api |-> FALSE, s |-> None, v |-> None, ret |-> "done",
    after |-> "done", mode |-> "stop", todo |-> {}, tries |-> 0, pipe |-> None,
    req |-> NoRequest, force |-> FALSE]

NoPipeline == [st |-> "unused", of |-> 1]   \* of: any session
PipeState == {"unused", "built", "running", "stopping", "stopped", "crashed"}

Init ==
    /\ state = [s \in Sessions |-> ABSENT]
    /\ info = [s \in Sessions |-> NoInfo]
    /\ pipeOf = [s \in Sessions |-> None]
    /\ published = [s \in Sessions |-> None]
    /\ url = [s \in Sessions |-> FALSE]
    /\ adapter = [s \in Sessions |-> FALSE]
    /\ sink = [s \in Sessions |-> "none"]
    /\ monitor = [s \in Sessions |-> FALSE]
    /\ pipe = [p \in Pipelines |-> NoPipeline]
    /\ sinks = [s \in Sessions |-> 0]
    /\ captures = [s \in Sessions |-> 0]
    /\ renderer = [t \in Targets |-> Silent]
    /\ task = [t \in Tasks |-> Idle]
    /\ loop = NoTask

-----------------------------------------------------------------------------
(* Coroutines *)

At(t, pc)    == loop = t /\ task[t].pc = pc
Wakes(t, pc) == loop = NoTask /\ task[t].pc = pc

Run(t, c)  == task' = [task EXCEPT ![t] = c] /\ loop' = t
Wait(t, c) == task' = [task EXCEPT ![t] = c] /\ loop' = NoTask
Goto(t, pc)  == Run(t, [task[t] EXCEPT !.pc = pc])
Await(t, pc) == Wait(t, [task[t] EXCEPT !.pc = pc])
Finish(t)    == Wait(t, Idle)   \* returned, or raised to its caller

\* loop.create_task: the loop runs the new coroutine in its next turn, before
\* anything that is not ready yet.
Spawn(u, c) == loop = NoTask /\ task[u].pc = "idle" /\ Run(u, c)

\* An API call that goes on with session s: from here on it only starts it.
Begin(pc, s, after) ==
    [Idle EXCEPT !.pc = pc, !.s = s, !.after = after, !.force = TRUE, !.api = TRUE]

Outcome(fault) == IF fault \in Env THEN BOOLEAN ELSE {TRUE}

\* A call to a renderer that fails may have reached the player all the same.
Told(ok, target, stream) ==
    {[renderer EXCEPT ![target] = stream]} \cup (IF ok THEN {} ELSE {renderer})

(* Sessions *)

(* Mutant: transition_to accepts everything. *)
MovesFreely(s, new) == s \in Sessions

CanMove(s, new) == <<state[s], new>> \in ValidTransitions
Move(s, new)    == state' = [state EXCEPT ![s] = new]
MoveIfValid(s, new) ==     \* with suppress(ValueError)
    state' = IF CanMove(s, new) THEN [state EXCEPT ![s] = new] ELSE state

(* Mutant: arbitration overlooks sessions that start or play. *)
Overlooks(target, excluded) ==
    {s \in Sessions : /\ info[s].target = target
                      /\ state[s] \notin excluded \cup Unlisted \cup {STARTING, PLAYING}}

On(target, excluded) ==
    {s \in Sessions : info[s].target = target /\ state[s] \notin excluded \cup Unlisted}
First(s, S) == s \in S /\ \A x \in S : s <= x

TargetOf(s) == info[s].target

(* Mutant: the renderer never confirms ownership. *)
NeverOwned(target) == IF target \in Targets THEN {"unknown"} ELSE {}

\* inspect_ownership: after a stop the renderer may keep the bridge's URI loaded.
Ownership(target) ==
    (IF renderer[target] \in Sessions THEN {"owned"}
     ELSE IF renderer[target] = Foreign THEN {"not_owned"}
     ELSE {"owned", "not_owned"})
    \cup (IF "unknown" \in Env THEN {"unknown"} ELSE {})

(* Pipelines.  An object nothing refers to any more is garbage. *)

Referenced(p) ==
    \/ pipe[p].st \in {"running", "stopping", "crashed"}
    \/ \E s \in Sessions : p \in {pipeOf[s], published[s]}
    \/ \E t \in Tasks : task[t].pipe = p
Fresh(p) == First(p, {x \in Pipelines : ~Referenced(x)})

\* pipeline.stop() returns without suspending when there is no FFmpeg to wait for.
StopsAtOnce(p) == pipe[p].st \in {"built", "stopped"}
(* Mutant: stop() leaves FFmpeg running. *)
KeepsRunning(p) == pipe' = [pipe EXCEPT ![p].st = @]

BeginPipeStop(p) ==
    pipe' = [pipe EXCEPT ![p].st = IF @ = "running" THEN "stopping" ELSE @]
EndPipeStop(p) ==
    pipe' = [pipe EXCEPT ![p].st = IF @ = "stopping" THEN "stopped" ELSE @]

\* Id bound: every create() in flight finds an unused session id.
\* Call bound: clients stop calling when some session has leaked LeakBound times.
FewLeaks == \A s \in Sessions : captures[s] <= LeakBound /\ sinks[s] <= LeakBound
WillInsert(t) == \/ task[t].pc \in {"play", "create", "create_inspect", "insert"}
                 \/ task[t].ret \in {"play_create", "create_insert"}
RoomForSession == Cardinality({s \in Sessions : state[s] = ABSENT})
                    > Cardinality({t \in Tasks : WillInsert(t)})
-----------------------------------------------------------------------------
(* API calls *)

Call(t, op, c) ==
    /\ op \in Ops
    /\ loop = NoTask
    /\ task[t].pc = "idle"
    /\ Cardinality({u \in Tasks : task[u].api}) < MaxCalls
    /\ FewLeaks
    /\ Run(t, [c EXCEPT !.api = TRUE])

CallPlay(t) == \E i \in Info, policy \in Policies \ {"none"} :
    /\ ~i.exclusive
    /\ RoomForSession
    /\ Call(t, "play", [Idle EXCEPT !.pc = "play",
            !.req = [info |-> i, takeover |-> FALSE, policy |-> policy]])
    /\ UNCHANGED <<sessionVars, mediaVars, sourceVars, monitor, renderer>>

CallCreate(t) == \E i \in Info, takeover \in BOOLEAN :
    /\ RoomForSession
    /\ Call(t, "create", [Idle EXCEPT !.pc = "create",
            !.req = [info |-> i, takeover |-> takeover, policy |-> "none"]])
    /\ UNCHANGED <<sessionVars, mediaVars, sourceVars, monitor, renderer>>

CallStart(t) == \E s \in Sessions :
    /\ state[s] \notin Unlisted
    /\ Call(t, "start", [Idle EXCEPT !.pc = "start", !.s = s])
    /\ UNCHANGED <<sessionVars, mediaVars, sourceVars, monitor, renderer>>

CallStop(t) == \E s \in Sessions :
    /\ state[s] \notin Unlisted
    /\ Call(t, "stop", [Idle EXCEPT !.pc = "stop", !.v = s])
    /\ UNCHANGED <<sessionVars, mediaVars, sourceVars, monitor, renderer>>

CallResume(t) == \E s \in Sessions, force \in BOOLEAN :
    /\ state[s] \notin Unlisted
    /\ Call(t, "resume", [Idle EXCEPT !.pc = "resume", !.s = s, !.force = force])
    /\ UNCHANGED <<sessionVars, mediaVars, sourceVars, monitor, renderer>>

\* recover() up to heal_target.  A session DEGRADED by its transport is healed
\* by a media-plane heal instead, which this module leaves out.
CallRecover(t) == \E s \in Sessions :
    /\ "recover" \in Ops
    /\ loop = NoTask
    /\ task[t].pc = "idle"
    /\ Cardinality({u \in Tasks : task[u].api}) < MaxCalls
    /\ state[s] # DEGRADED
    /\ CanMove(s, HEALING)
    /\ Move(s, HEALING)
    /\ Wait(t, [Idle EXCEPT !.pc = "heal_target", !.s = s, !.api = TRUE])
    /\ UNCHANGED <<info, mediaVars, sourceVars, monitor, renderer>>

TargetHealed(t) == Wakes(t, "heal_target") /\ LET s == task[t].s IN
    \E ok \in Outcome("renderer") :
        /\ state' = IF ok /\ CanMove(s, PLAYING) THEN [state EXCEPT ![s] = PLAYING]
                    ELSE IF CanMove(s, FAILED) THEN [state EXCEPT ![s] = FAILED]
                    ELSE state
        /\ renderer' \in {renderer, [renderer EXCEPT ![TargetOf(s)] = s]}
        /\ Finish(t)
        /\ UNCHANGED <<info, mediaVars, sourceVars, monitor>>

-----------------------------------------------------------------------------
(* play *)

PlayPass(t) == UNCHANGED <<sessionVars, mediaVars, sourceVars, monitor, renderer>>

Play(t) == At(t, "play") /\ PlayPass(t) /\
    LET r == task[t].req
        Existing == On(r.info.target, {STOPPED, FAILED, SUPERSEDED})
    IN  \/ /\ Existing = {}
           /\ Run(t, [task[t] EXCEPT !.pc = "create", !.req.takeover = (r.policy = "takeover")])
        \/ \E e \in Existing : First(e, Existing) /\
            \/ /\ r.policy = "reject" \/ (r.policy = "reuse" /\ info[e].source # r.info.source)
               /\ Finish(t)                                  \* SessionConflictError
            \/ /\ r.policy \in {"reuse", "takeover"}
               /\ info[e].source = r.info.source
               /\ IF state[e] = QUIESCED
                  THEN Run(t, Begin("resume", e, "done"))
                  ELSE Run(t, Begin("start", e, "replay"))
            \/ /\ r.policy = "takeover"
               /\ info[e].source # r.info.source
               /\ Run(t, [task[t] EXCEPT !.pc = "stop", !.v = e, !.ret = "play_create",
                                         !.req.takeover = TRUE])

(* create *)

\* create() returns session s; play() goes on to start it.
Created(t, s, next, aft) ==
    IF task[t].req.policy = "none" /\ next = "start" THEN Finish(t)
    ELSE Run(t, Begin(next, s, IF task[t].req.policy = "none" THEN "done" ELSE aft))

Create(t) == At(t, "create") /\ PlayPass(t) /\
    LET r == task[t].req
        Incumbents == On(r.info.target, {STOPPED, SUPERSEDED})
    IN  \/ Incumbents = {} /\ Goto(t, "insert")
        \/ \E e \in Incumbents : First(e, Incumbents) /\
            IF info[e].source = r.info.source /\ state[e] # STOPPING
            THEN CASE state[e] = QUIESCED -> Created(t, e, "resume", "restart")
                   [] state[e] = DEGRADED -> Run(t, [task[t] EXCEPT !.pc = "stop", !.v = e,
                                                                  !.ret = "create_return"])
                   [] OTHER -> Created(t, e, "start", "done")
            ELSE Wait(t, [task[t] EXCEPT !.pc = "create_inspect", !.v = e])

CreateInspected(t) == Wakes(t, "create_inspect") /\ PlayPass(t) /\
    LET r == task[t].req
        e == task[t].v
    IN  \E own \in Ownership(r.info.target) :
          IF /\ ~r.info.exclusive /\ ~info[e].exclusive
             /\ r.info.intent >= info[e].intent
             /\ own = "not_owned" \/ r.takeover
          THEN Run(t, [task[t] EXCEPT !.pc = "stop", !.ret = "create_insert"])
          ELSE Finish(t)                                     \* SessionConflictError

\* Sessions that ended more than an hour ago go.  Those a coroutine still refers
\* to are kept; the code may drop one whose call has been on the way that long.
Prunable == {s \in Sessions : /\ "hour" \in Env
                              /\ state[s] \in {SUPERSEDED, STOPPED, FAILED}
                              /\ \A t \in Tasks : s \notin {task[t].s, task[t].v} \cup task[t].todo}

Insert(t) == At(t, "insert") /\
    \E s \in Sessions, old \in SUBSET Prunable :
        /\ First(s, {x \in Sessions : state[x] = ABSENT})
        /\ state' = [x \in Sessions |-> IF x = s THEN CREATED
                                        ELSE IF x \in old THEN PRUNED ELSE state[x]]
        /\ info' = [info EXCEPT ![s] = task[t].req.info]
        /\ Created(t, s, "start", "done")
        /\ UNCHANGED <<mediaVars, sourceVars, monitor, renderer>>

(* resume_session *)

Resume(t) == At(t, "resume") /\ PlayPass(t) /\
    IF state[task[t].s] = QUIESCED THEN Await(t, "resume_inspect") ELSE Goto(t, "start_return")

ResumeInspected(t) == Wakes(t, "resume_inspect") /\ PlayPass(t) /\
    \E own \in Ownership(TargetOf(task[t].s)) :
        IF task[t].force \/ own = "owned" THEN Goto(t, "start") ELSE Goto(t, "start_return")

-----------------------------------------------------------------------------
(* start_session *)

Start(t) == At(t, "start") /\ PlayPass(t) /\ LET s == task[t].s IN
    IF state[s] \in {STARTING, PLAYING} \cup Unlisted THEN Goto(t, "start_return")
    ELSE Run(t, [task[t] EXCEPT !.pc = "incumbents",
                    !.todo = On(TargetOf(s), {STOPPED, FAILED, SUPERSEDED}) \ {s}])

StopIncumbent(t) == At(t, "incumbents") /\ PlayPass(t) /\
    \E e \in task[t].todo :
        /\ First(e, task[t].todo)
        /\ Run(t, [task[t] EXCEPT !.pc = "stop", !.v = e, !.ret = "incumbents"])

EnterStarting(t) == At(t, "incumbents") /\ task[t].todo = {} /\ LET s == task[t].s IN
    /\ IF CanMove(s, STARTING)
       THEN /\ Move(s, STARTING)
            /\ \E ok \in Outcome("resolve") :
                 Run(t, [task[t] EXCEPT !.pc = IF ok THEN "attempt" ELSE "failed",
                                        !.tries = MaxAttempts])
       ELSE Goto(t, "start_return") /\ UNCHANGED state
    /\ UNCHANGED <<info, mediaVars, sourceVars, monitor, renderer>>

\* One rung of the profile ladder: prepare the source, drop an old pipeline.
Attempt(t) == At(t, "attempt") /\
    LET s == task[t].s
        p == pipeOf[s]
    IN  /\ \E ok \in Outcome("source") :
            IF ~ok THEN Goto(t, "cleanup") /\ UNCHANGED <<pipe, pipeOf>>
            ELSE IF p = None THEN Goto(t, "setup") /\ UNCHANGED <<pipe, pipeOf>>
            ELSE IF StopsAtOnce(p)
            THEN pipeOf' = [pipeOf EXCEPT ![s] = None] /\ Goto(t, "setup") /\ UNCHANGED pipe
            ELSE BeginPipeStop(p) /\ Wait(t, [task[t] EXCEPT !.pc = "old_stop", !.pipe = p])
                 /\ UNCHANGED pipeOf
        /\ UNCHANGED <<sessionVars, published, url, sourceVars, monitor, renderer>>

OldPipeStopped(t) == Wakes(t, "old_stop") /\
    LET s == task[t].s
        p == task[t].pipe
    IN  /\ IF pipe[p].st = "crashed"              \* the failed task's exception
           THEN /\ Run(t, [task[t] EXCEPT !.pc = "cleanup", !.pipe = None])
                /\ UNCHANGED <<pipe, pipeOf>>
           ELSE /\ EndPipeStop(p)
                /\ pipeOf' = [pipeOf EXCEPT ![s] = None]
                /\ Run(t, [task[t] EXCEPT !.pc = "setup", !.pipe = None])
        /\ UNCHANGED <<sessionVars, published, url, sourceVars, monitor, renderer>>

\* Build and register the pipeline, start the frame sink, start the source.
SetUp(t) == At(t, "setup") /\ LET s == task[t].s IN
    \/ /\ FALSE \in Outcome("build") /\ Goto(t, "cleanup")
       /\ UNCHANGED <<sessionVars, mediaVars, sourceVars, monitor, renderer>>
    \/ \E p \in Pipelines, ok \in Outcome("source") :
        /\ Fresh(p)
        /\ pipe' = [x \in Pipelines |-> IF x = p THEN [st |-> "built", of |-> s]
                                       ELSE IF Referenced(x) THEN pipe[x] ELSE NoPipeline]
        /\ pipeOf' = [pipeOf EXCEPT ![s] = p]
        /\ published' = [published EXCEPT ![s] = p]
        /\ url' = [url EXCEPT ![s] = TRUE]
        /\ sink' = [sink EXCEPT ![s] = IF ok THEN "live" ELSE "stopping"]
        /\ IF ok THEN /\ sinks' = [sinks EXCEPT ![s] = @ + 1]
                      /\ captures' = [captures EXCEPT ![s] = @ + 1]
                      /\ adapter' = [adapter EXCEPT ![s] = TRUE]
                      /\ Wait(t, [task[t] EXCEPT !.pc = "pipe_start", !.pipe = p])
                 ELSE Await(t, "sink_fail") /\ UNCHANGED <<sinks, captures, adapter>>
        /\ UNCHANGED <<sessionVars, monitor, renderer>>

SinkStoppedAfterFailure(t) == Wakes(t, "sink_fail") /\ LET s == task[t].s IN
    /\ sink' = [sink EXCEPT ![s] = IF @ = "stopping" THEN "stopped" ELSE @]
    /\ Goto(t, "cleanup")
    /\ UNCHANGED <<sessionVars, mediaVars, adapter, sinks, captures, monitor, renderer>>

\* FFmpeg runs, also when the pipeline was stopped while it was being started.
PipelineStarted(t) == Wakes(t, "pipe_start") /\ \E ok \in Outcome("encoder") :
    /\ pipe' = IF ok THEN [pipe EXCEPT ![task[t].pipe].st = "running"] ELSE pipe
    /\ IF ok THEN Wait(t, [task[t] EXCEPT !.pc = "prepare", !.pipe = None])
             ELSE Run(t, [task[t] EXCEPT !.pc = "cleanup", !.pipe = None])
    /\ UNCHANGED <<sessionVars, pipeOf, published, url, sourceVars, monitor, renderer>>

\* _start_renderer_playback, for a start and for play()'s second trigger.
TargetPrepared(t) == PlayPass(t) /\ \E ok \in Outcome("playback") :
    \/ /\ Wakes(t, "prepare")
       /\ IF ~ok THEN Goto(t, "cleanup")
          ELSE IF url[task[t].s] THEN Await(t, "play_stream") ELSE Goto(t, "started")
    \/ /\ Wakes(t, "replay_prepare")
       /\ IF ok /\ url[task[t].s] THEN Await(t, "replay_play") ELSE Finish(t)

StreamPlayed(t) == \E ok \in Outcome("playback") :
    /\ \/ Wakes(t, "play_stream") /\ (IF ok THEN Goto(t, "started") ELSE Goto(t, "cleanup"))
       \/ Wakes(t, "replay_play") /\ Finish(t)
    /\ renderer' \in Told(ok, TargetOf(task[t].s), task[t].s)
    /\ UNCHANGED <<sessionVars, mediaVars, sourceVars, monitor>>

Started(t) == At(t, "started") /\ LET s == task[t].s IN
    /\ IF CanMove(s, PLAYING)
       THEN /\ Move(s, PLAYING)
            /\ monitor' = [monitor EXCEPT ![s] = TRUE]
            /\ Goto(t, "start_return")
       ELSE Goto(t, "failed") /\ UNCHANGED <<state, monitor>>
    /\ UNCHANGED <<info, mediaVars, sourceVars, renderer>>

(* Mutant: a failed rung releases nothing before the next one. *)
SkipsRelease(t) == At(t, "cleanup") /\
    /\ monitor' = [monitor EXCEPT ![task[t].s] = FALSE]
    /\ Goto(t, "retry")
    /\ UNCHANGED <<sessionVars, mediaVars, sourceVars, renderer>>

\* The rung failed: the monitor goes, then sink, source and pipeline (Release).
CleanUp(t) == At(t, "cleanup") /\ LET s == task[t].s IN
    /\ monitor' = [monitor EXCEPT ![s] = FALSE]
    /\ Run(t, [task[t] EXCEPT !.pc = "sinks", !.v = s, !.mode = "cleanup"])
    /\ UNCHANGED <<sessionVars, mediaVars, sourceVars, renderer>>

(* Mutant: the ladder has no last rung. *)
RetriesForever(t) == At(t, "retry") /\
    /\ Run(t, [task[t] EXCEPT !.pc = "attempt", !.tries = @ - 1, !.v = None, !.mode = "stop"])
    /\ url' = [url EXCEPT ![task[t].s] = FALSE]
    /\ UNCHANGED <<sessionVars, pipeOf, published, pipe, sourceVars, monitor, renderer>>

Retry(t) == At(t, "retry") /\
    /\ url' = [url EXCEPT ![task[t].s] = FALSE]
    /\ Run(t, [task[t] EXCEPT !.pc = IF task[t].tries > 1 THEN "attempt" ELSE "failed",
                              !.tries = @ - 1, !.v = None, !.mode = "stop"])
    /\ UNCHANGED <<sessionVars, pipeOf, published, pipe, sourceVars, monitor, renderer>>

(* Mutant: the last failure is logged and the state forgotten. *)
FailsSilently(t) == At(t, "failed") /\ Finish(t)
    /\ UNCHANGED <<sessionVars, mediaVars, sourceVars, monitor, renderer>>

StartFailed(t) == At(t, "failed") /\ LET s == task[t].s IN
    /\ IF CanMove(s, FAILED)
       THEN /\ Move(s, FAILED)
            /\ Run(t, [task[t] EXCEPT !.pc = "stop", !.v = s, !.ret = "start_return"])
       ELSE Finish(t) /\ UNCHANGED state                     \* ValueError
    /\ UNCHANGED <<info, mediaVars, sourceVars, monitor, renderer>>

StartReturn(t) == At(t, "start_return") /\ PlayPass(t) /\ LET s == task[t].s IN
    CASE task[t].after = "replay" /\ state[s] = PLAYING ->
            Wait(t, Begin("replay_prepare", s, "done"))
      [] task[t].after = "restart" ->
            Run(t, Begin("start", s, "done"))
      [] OTHER -> Finish(t)

-----------------------------------------------------------------------------
(* stop_session *)

Stop(t) == At(t, "stop") /\ LET v == task[t].v IN
    /\ IF CanMove(v, STOPPING)
       THEN /\ Move(v, STOPPING)
            /\ monitor' = [monitor EXCEPT ![v] = FALSE]
            /\ Await(t, "stop_inspect")
       ELSE Goto(t, "stop_return") /\ UNCHANGED <<state, monitor>>
    /\ UNCHANGED <<info, mediaVars, sourceVars, renderer>>

StopInspected(t) == Wakes(t, "stop_inspect") /\ PlayPass(t) /\
    \E own \in Ownership(TargetOf(task[t].v)) :
        IF own = "owned" THEN Await(t, "stop_target")
        ELSE Run(t, [task[t] EXCEPT !.pc = "sinks", !.mode = "stop"])

\* stop_target silences whatever plays; its failure is logged and swallowed.
TargetStopped(t) == Wakes(t, "stop_target") /\ \E ok \in Outcome("renderer") :
    /\ renderer' \in Told(ok, TargetOf(task[t].v), Silent)
    /\ Run(t, [task[t] EXCEPT !.pc = "sinks", !.mode = "stop"])
    /\ UNCHANGED <<sessionVars, mediaVars, sourceVars, monitor>>

(* Mutant: stop_session returns without the final transition. *)
NeverStopped(t) == At(t, "stop_done") /\ Goto(t, "stop_return")
    /\ UNCHANGED <<sessionVars, mediaVars, sourceVars, monitor, renderer>>

StopDone(t) == At(t, "stop_done") /\ LET v == task[t].v IN
    /\ IF CanMove(v, STOPPED) THEN Move(v, STOPPED) /\ Goto(t, "stop_return")
       ELSE Finish(t) /\ UNCHANGED state                     \* ValueError
    /\ UNCHANGED <<info, mediaVars, sourceVars, monitor, renderer>>

\* Back in the caller, without a suspension in between.
StopReturn(t) == At(t, "stop_return") /\
    LET v == task[t].v
        Continue(next) == Run(t, [task[t] EXCEPT !.pc = next, !.v = None, !.ret = "done"])
    IN  /\ CASE task[t].ret = "play_create"   -> MoveIfValid(v, SUPERSEDED) /\ Continue("create")
              [] task[t].ret = "create_insert" -> MoveIfValid(v, SUPERSEDED) /\ Continue("insert")
              [] task[t].ret = "create_return" -> UNCHANGED state /\ Created(t, v, "start", "done")
              [] task[t].ret = "start_return"  -> UNCHANGED state /\ Continue("start_return")
              [] task[t].ret = "incumbents"    ->
                    /\ MoveIfValid(v, SUPERSEDED)
                    /\ Run(t, [task[t] EXCEPT !.pc = "incumbents", !.todo = @ \ {v},
                                              !.v = None, !.ret = "done"])
              [] task[t].ret = "done"          -> UNCHANGED state /\ Finish(t)
        /\ UNCHANGED <<info, mediaVars, sourceVars, monitor, renderer>>

-----------------------------------------------------------------------------
(* Releasing the media path of session v: the part stop_session, the clean- *)
(* up of a failed rung and _quiesce_session have in common.                *)

Raise(t) == IF task[t].mode = "cleanup"
            THEN Run(t, [task[t] EXCEPT !.pc = "failed", !.v = None, !.mode = "stop", !.pipe = None])
            ELSE Finish(t)

ReleaseSink(t) == At(t, "sinks") /\ LET v == task[t].v IN
    /\ sinks' = [sinks EXCEPT ![v] = IF sink[v] = "live" THEN @ - 1 ELSE @]
    /\ IF sink[v] \in {"live", "stopping"}
       THEN sink' = [sink EXCEPT ![v] = "stopping"] /\ Await(t, "sink_stop")
       ELSE sink' = [sink EXCEPT ![v] = "none"] /\ Goto(t, "release_source")
    /\ UNCHANGED <<sessionVars, mediaVars, adapter, captures, monitor, renderer>>

SinkStopped(t) == Wakes(t, "sink_stop") /\ LET v == task[t].v IN
    /\ sink' = [sink EXCEPT ![v] = "none"]
    /\ IF sink[v] = "none" THEN Raise(t)                     \* KeyError
       ELSE Goto(t, "release_source")
    /\ UNCHANGED <<sessionVars, mediaVars, adapter, sinks, captures, monitor, renderer>>

\* After pipeline.stop(): only stop_session unregisters the stream, only the
\* clean-up of a start forgets the pipeline.
PipelineGone(t, p) == LET v == task[t].v
                          Continue(next) == Run(t, [task[t] EXCEPT !.pc = next, !.pipe = None])
                      IN
    CASE task[t].mode = "stop" ->
            /\ published' = IF p = None THEN published ELSE [published EXCEPT ![v] = None]
            /\ Continue("stop_done") /\ UNCHANGED pipeOf
      [] task[t].mode = "cleanup" ->
            /\ pipeOf' = [pipeOf EXCEPT ![v] = None]
            /\ Continue("retry") /\ UNCHANGED published
      [] task[t].mode = "quiesce" -> Finish(t) /\ UNCHANGED <<pipeOf, published>>

ReleaseSource(t) == At(t, "release_source") /\
    LET v == task[t].v
        p == pipeOf[v]
    IN  /\ captures' = [captures EXCEPT ![v] = IF adapter[v] THEN @ - 1 ELSE @]
        /\ adapter' = [adapter EXCEPT ![v] = FALSE]
        /\ IF p = None \/ StopsAtOnce(p)
           THEN PipelineGone(t, p) /\ UNCHANGED pipe
           ELSE /\ BeginPipeStop(p)
                /\ Wait(t, [task[t] EXCEPT !.pc = "pipe_stop", !.pipe = p])
                /\ UNCHANGED <<pipeOf, published>>
        /\ UNCHANGED <<sessionVars, url, sink, sinks, monitor, renderer>>

\* The read or feed task of a crashed FFmpeg raises again when it is drained.
PipelineStopped(t) == Wakes(t, "pipe_stop") /\ LET p == task[t].pipe IN
    /\ IF pipe[p].st = "crashed"
       THEN Raise(t) /\ UNCHANGED <<pipe, pipeOf, published>>
       ELSE EndPipeStop(p) /\ PipelineGone(t, p)
    /\ UNCHANGED <<sessionVars, url, sourceVars, monitor, renderer>>

-----------------------------------------------------------------------------
(* Background: spawned coroutines, monitors, errors, the outside world *)

\* _handle_session_error: FAILED, by force if SUPERSEDED, and a stop spawned.
HandleSessionError(s) ==
    IF state[s] \in Ended \cup Unlisted THEN loop = NoTask /\ UNCHANGED <<state, task, loop>>
    ELSE Move(s, FAILED) /\ \E u \in Tasks : Spawn(u, [Idle EXCEPT !.pc = "stop", !.v = s])

PipelineCrash == \E p \in Pipelines :
    /\ "crash" \in Env
    /\ pipe[p].st = "running"
    /\ pipe' = [pipe EXCEPT ![p].st = "crashed"]
    /\ HandleSessionError(pipe[p].of)
    /\ UNCHANGED <<info, pipeOf, published, url, sourceVars, monitor, renderer>>

SourceError == \E s \in Sessions :
    /\ "adapter_error" \in Env
    /\ captures[s] > 0
    /\ state[s] \notin Ended \cup Unlisted
    /\ HandleSessionError(s)
    /\ UNCHANGED <<info, mediaVars, sourceVars, monitor, renderer>>

Watches(s) == loop = NoTask /\ monitor[s] /\ state[s] \notin Ended \cup Unlisted
                            /\ pipeOf[s] # None

MonitorRetires == \E s \in Sessions :
    /\ loop = NoTask /\ monitor[s] /\ state[s] \in Ended \cup Unlisted
    /\ monitor' = [monitor EXCEPT ![s] = FALSE]
    /\ UNCHANGED <<sessionVars, mediaVars, sourceVars, renderer, task, loop>>

\* The target is not positively owned any more: the monitor stops the session.
MonitorReclaimed == \E s \in Sessions, u \in Tasks :
    /\ Watches(s)
    /\ \E own \in Ownership(TargetOf(s)) : own # "owned"
    /\ monitor' = [monitor EXCEPT ![s] = FALSE]
    /\ Spawn(u, [Idle EXCEPT !.pc = "stop", !.v = s])
    /\ UNCHANGED <<sessionVars, mediaVars, sourceVars, renderer>>

\* A Windows source stayed silent too long: FAILED, then stop_session.
MonitorOutage == \E s \in Sessions, u \in Tasks :
    /\ "outage" \in Env
    /\ Watches(s) /\ CanMove(s, FAILED)
    /\ Move(s, FAILED)
    /\ monitor' = [monitor EXCEPT ![s] = FALSE]
    /\ Spawn(u, [Idle EXCEPT !.pc = "stop", !.v = s])
    /\ UNCHANGED <<info, mediaVars, sourceVars, renderer>>

\* The encoder delivers nothing, and delivers again (sessions without auto_heal).
MonitorTransport == \E s \in Sessions :
    /\ "transport" \in Env
    /\ Watches(s)
    /\ \/ state[s] = PLAYING /\ Move(s, DEGRADED)
       \/ state[s] = DEGRADED /\ pipe[pipeOf[s]].st = "running" /\ Move(s, PLAYING)
    /\ UNCHANGED <<info, mediaVars, sourceVars, monitor, renderer, task, loop>>

\* The renderer's client stayed away: QUIESCED, and _quiesce_session spawned.
MonitorQuiesces == \E s \in Sessions, u \in Tasks :
    /\ "detach" \in Env
    /\ Watches(s) /\ state[s] = PLAYING
    /\ Move(s, QUIESCED)
    /\ Spawn(u, [Idle EXCEPT !.pc = "sinks", !.v = s, !.mode = "quiesce"])
    /\ UNCHANGED <<info, mediaVars, sourceVars, monitor, renderer>>

\* Another controller uses the renderer or presses stop.
OtherController == \E t \in Targets :
    /\ "foreign" \in Env
    /\ loop = NoTask /\ renderer[t] \in Sessions
    /\ renderer' \in {[renderer EXCEPT ![t] = Silent], [renderer EXCEPT ![t] = Foreign]}
    /\ UNCHANGED <<sessionVars, mediaVars, sourceVars, monitor, task, loop>>

-----------------------------------------------------------------------------
Api(t) == CallPlay(t) \/ CallCreate(t) \/ CallStart(t) \/ CallStop(t)
          \/ CallResume(t) \/ CallRecover(t)

Runs(t) ==
    \/ Play(t) \/ Create(t) \/ Insert(t) \/ Resume(t)
    \/ Start(t) \/ StopIncumbent(t) \/ EnterStarting(t) \/ Attempt(t) \/ SetUp(t)
    \/ Started(t) \/ CleanUp(t) \/ Retry(t) \/ StartFailed(t) \/ StartReturn(t)
    \/ Stop(t) \/ ReleaseSink(t) \/ ReleaseSource(t) \/ StopDone(t) \/ StopReturn(t)

Awakens(t) ==
    \/ CreateInspected(t) \/ ResumeInspected(t) \/ OldPipeStopped(t)
    \/ SinkStoppedAfterFailure(t) \/ PipelineStarted(t) \/ TargetPrepared(t)
    \/ StreamPlayed(t) \/ StopInspected(t) \/ TargetStopped(t) \/ SinkStopped(t)
    \/ PipelineStopped(t) \/ TargetHealed(t)

Background == PipelineCrash \/ SourceError \/ MonitorRetires \/ MonitorReclaimed
    \/ MonitorOutage \/ MonitorTransport \/ MonitorQuiesces \/ OtherController

Next == Background \/ \E t \in Tasks : Api(t) \/ Runs(t) \/ Awakens(t)

\* Whatever a coroutine awaits ends, and the event loop starves nobody.
Fairness == \A t \in Tasks : WF_vars(Runs(t)) /\ SF_vars(Awakens(t))

Spec     == Init /\ [][Next]_vars
FairSpec == Spec /\ Fairness

-----------------------------------------------------------------------------
(* Type correctness. *)
TypeOK ==
    /\ state \in [Sessions -> SessionState \cup Unlisted]
    /\ info \in [Sessions -> Info]
    /\ pipeOf \in [Sessions -> Pipelines \cup {None}]
    /\ published \in [Sessions -> Pipelines \cup {None}]
    /\ url \in [Sessions -> BOOLEAN]
    /\ adapter \in [Sessions -> BOOLEAN]
    /\ sink \in [Sessions -> {"none", "live", "stopping", "stopped"}]
    /\ monitor \in [Sessions -> BOOLEAN]
    /\ pipe \in [Pipelines -> [st : PipeState, of : Sessions]]
    /\ sinks \in [Sessions -> Nat]
    /\ captures \in [Sessions -> Nat]
    /\ renderer \in [Targets -> Sessions \cup {Silent, Foreign}]
    /\ task \in [Tasks -> Coroutine]
    /\ loop \in Tasks \cup {NoTask}

-----------------------------------------------------------------------------
(* Properties *)

Active == {STARTING, PLAYING, HEALING, DEGRADED, QUIESCED}
Quiet  == \A t \in Tasks : task[t].pc = "idle"
Running(s) == {p \in Pipelines : pipe[p].of = s /\ pipe[p].st = "running"}

StartPoints == {"attempt", "old_stop", "setup", "sink_fail", "pipe_start", "prepare",
                "play_stream", "started", "cleanup", "retry", "failed"}
ReleasePoints == {"sinks", "sink_stop", "release_source", "pipe_stop"}
Starts(t, s) == /\ task[t].s = s
                /\ \/ task[t].pc \in StartPoints
                   \/ task[t].pc \in ReleasePoints /\ task[t].mode = "cleanup"
Stops(t, v)  == /\ task[t].v = v
                /\ \/ task[t].pc \in {"stop_inspect", "stop_target", "stop_done"}
                   \/ task[t].pc \in ReleasePoints /\ task[t].mode = "stop"

\* Target exclusivity: create(), play() and start_session() supersede whatever
\* uses the target, so two sessions never occupy one target, also when calls
\* overlap and each arbitrates on what the other is about to change.
OneActivePerTarget == \A s, r \in Sessions :
    s # r /\ state[s] \in Active /\ state[r] \in Active => TargetOf(s) # TargetOf(r)

\* A STARTING session is being started: every way out of start_session (a rung
\* that fails, clean-up that raises, a state changed meanwhile) leaves STARTING.
StartingIsDriven == \A s \in Sessions : state[s] = STARTING => \E t \in Tasks : Starts(t, s)

\* With no call in flight, a session that is over, or quiesced, holds no
\* capture, no frame sink and no FFmpeg, whichever step of its start failed:
\* the source's, the negotiation's, the set-up's, the encoder's or the renderer's.
\* It is not so for a recover that fails with its target, which leaves all of them.
NothingLeaks == Quiet => \A s \in Sessions :
    state[s] \notin Active \ {QUIESCED} => captures[s] = 0 /\ sinks[s] = 0 /\ Running(s) = {}

\* With no call in flight, a playing session has exactly one of everything: the
\* published pipeline is its own and the only one that runs, one capture and
\* one live frame sink feed it, and a monitor watches it.  It is not so when the
\* transport fails: a start of a DEGRADED session by its id takes a capture and
\* a sink besides those that it has and forgets them (SetUp), and so does one of
\* a session that a recover has left FAILED with them.
PlayingIsServed == Quiet => \A s \in Sessions : state[s] = PLAYING =>
    /\ Running(s) = {pipeOf[s]} /\ published[s] = pipeOf[s]
    /\ captures[s] = 1 /\ adapter[s]
    /\ sinks[s] = 1 /\ sink[s] = "live"
    /\ monitor[s]

\* With no call in flight, and nobody else at the renderer, renderer and session
\* agree: a target plays the session that is PLAYING on it, and a session that is
\* over is not on its target any more, also when a play failed after it had
\* reached the player.  A renderer that fails to stop is not in it.
RendererAgrees == Quiet =>
    /\ \A s \in Sessions : state[s] = PLAYING => renderer[TargetOf(s)] = s
    /\ \A t \in Targets : renderer[t] \in Sessions => state[renderer[t]] \in Active

\* start_session begins only when the other sessions of the target have been
\* stopped: none of them captures or encodes at the moment of STARTING.
StoppedBeforeStart == [][\A s, r \in Sessions :
    state[s] # STARTING /\ state'[s] = STARTING /\ s # r /\ TargetOf(r) = TargetOf(s)
        => captures[r] = 0 /\ Running(r) = {}]_vars

\* Intent priority: a call supersedes a session only with an intent that is at
\* least as high as the session's.
HigherIntentStays == [][\A s \in Sessions, t \in Tasks :
    state[s] # SUPERSEDED /\ state'[s] = SUPERSEDED /\ loop = t
        => info[s].intent <= IF task[t].ret = "incumbents" THEN info[task[t].s].intent
                             ELSE task[t].req.info.intent]_vars

\* Every start and every stop comes to an end.
StartsEnd == \A s \in Sessions : state[s] = STARTING ~> state[s] # STARTING
StopsEnd  == \A s \in Sessions : state[s] = STOPPING ~> state[s] # STOPPING

\* Clients see the life cycle of SessionLifecycle, whatever interleaves.
Lifecycle == INSTANCE SessionLifecycle
LifecycleSpec == Lifecycle!Spec
=============================================================================
