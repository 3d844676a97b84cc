----------------------------- MODULE MediaHeal -----------------------------
(***************************************************************************)
(* The media plane of one started session: the monitor that notices a      *)
(* silent encoder or a detached renderer, the heal it or recover()         *)
(* schedules, and their races with stop_session, start_session and         *)
(* _quiesce_session.  SessionManager has the calls in full, one against    *)
(* the other; here they are as coarse as the heal allows, one at a time,   *)
(* a start has one rung, and clients start no session that is quiescing.   *)
(*                                                                         *)
(* A heal compares `media_epoch` with the epoch it was scheduled under,    *)
(* only by their difference: `age` counts the steps of the epoch since.    *)
(***************************************************************************)
EXTENDS SessionStates, Naturals, FiniteSets

CONSTANTS
    MaxPipelines,  \* bound: stream pipelines that exist at one time
    Heals,         \* coroutines of _heal_media_plane
    NoHeal,
    AutoHeal,      \* Session.auto_heal
    RestartFrom,   \* states in which clients start the session again
    Ops,           \* "stop", "start", "recover": calls clients make
    Env            \* what may fail: "build" "encoder" "renderer" "source", "detach"

Pipelines == 1 .. MaxPipelines
None == 0
MaxHealAttempts == 3

ASSUME HealAssumption ==
    /\ MaxPipelines \in Nat \ {0}
    /\ NoHeal \notin Heals
    /\ AutoHeal \in BOOLEAN
    /\ RestartFrom \subseteq SessionState

VARIABLES
    state,       \* Session.state
    reason,      \* Session.media_reason
    inProgress,  \* Session.media_heal_in_progress
    attempts,    \* Session.media_heal_attempts
    registered,  \* the entry of `_session_heals`
    heal,        \* every heal coroutine
    pipeline,    \* Session.pipeline
    published,   \* the publisher's pipeline of this session
    fed,         \* the pipeline the frame sink pushes to, None without a sink
    pipe,        \* every pipeline: its FFmpeg process
    silent,      \* running pipelines whose encoder delivers nothing
    monitor,     \* "off", or with transport_degraded_emitted unset or set
    call,        \* the API call in flight
    quiesce,     \* the coroutine of _quiesce_session
    overrun      \* history: without a stop, a start has begun over a heal at work

healVars  == <<inProgress, attempts, registered, heal>>
mediaVars == <<pipeline, published, fed>>
vars == <<state, reason, healVars, mediaVars, pipe, silent, monitor, call, quiesce, overrun>>

Reasons == {"none", "lost", "detached", "healing", "failed"}
Heal == [pc : {"idle", "delay", "start", "old_stop", "play", "watch"},
         mode : {"swap", "replay"}, age : 0 .. 2, old : Pipelines \cup {None},
         new : Pipelines \cup {None}, cancelled : BOOLEAN, raised : BOOLEAN]
IdleHeal == [pc |-> "idle", mode |-> "swap", age |-> 0, old |-> None, new |-> None,
             cancelled |-> FALSE, raised |-> FALSE]
Call == [pc : {"idle", "stop_heal", "drain", "release", "stop_pipe", "old_stop", "setup",
               "pipe_start", "play", "cleanup", "clean_pipe", "heal_target"},
         pipe : Pipelines \cup {None}, heal : Heals \cup {NoHeal}]
IdleCall == [pc |-> "idle", pipe |-> None, heal |-> NoHeal]

\* start_session has just returned.
Init ==
    /\ state = PLAYING /\ reason = "none"
    /\ inProgress = FALSE /\ attempts = 0 /\ registered = NoHeal
    /\ heal = [h \in Heals |-> IdleHeal]
    /\ pipeline = 1 /\ published = 1 /\ fed = 1
    /\ pipe = [p \in Pipelines |-> IF p = 1 THEN "running" ELSE "off"]
    /\ silent = {} /\ monitor = "armed"
    /\ call = IdleCall /\ quiesce = [pc |-> "idle", pipe |-> None] /\ overrun = FALSE

-----------------------------------------------------------------------------
CanMove(new) == <<state, new>> \in ValidTransitions
Outcome(fault) == IF fault \in Env THEN BOOLEAN ELSE {TRUE}

\* _is_transport_alive: false from the first statement of pipeline.stop() on.
Alive(p) == p # None /\ pipe[p] = "running" /\ p \notin silent

Referenced == {pipeline, published, fed, call.pipe, quiesce.pipe}
    \cup UNION {{heal[h].old, heal[h].new} : h \in Heals}
Fresh(p) == pipe[p] = "off" /\ p \notin Referenced
            /\ \A x \in Pipelines : pipe[x] = "off" /\ x \notin Referenced => p <= x

BeginStop(p) == pipe' = [pipe EXCEPT ![p] = IF @ = "running" THEN "stopping" ELSE @]
EndStop(p)   == pipe' = [pipe EXCEPT ![p] = "off"] /\ silent' = silent \ {p}

HealAtWork(h) == heal[h].pc # "idle"
Step(h, pc) == heal' = [heal EXCEPT ![h].pc = pc]
Goto(pc)    == call' = [call EXCEPT !.pc = pc]

-----------------------------------------------------------------------------
(* The heal *)

\* asyncio.create_task: any coroutine that is not in use.
NextHeal == CHOOSE h \in Heals : \A g \in Heals : heal[g].pc = "idle" => heal[h].pc = "idle"

(* Mutant: a heal is scheduled although one is in progress. *)
ScheduleAnyway(mode, otherwise) ==
    \/ /\ attempts < MaxHealAttempts
       /\ attempts' = attempts + 1 /\ inProgress' = TRUE /\ reason' = "healing"
       /\ \E h \in Heals : heal[h].pc = "idle" /\ registered' = h
            /\ heal' = [heal EXCEPT ![h] = [IdleHeal EXCEPT !.pc = "delay", !.mode = mode]]
    \/ reason' = otherwise /\ UNCHANGED healVars

(* Mutant: the number of attempts is not limited. *)
ScheduleEndlessly(mode, otherwise) ==
    IF inProgress THEN reason' = otherwise /\ UNCHANGED healVars
    ELSE /\ attempts' = attempts + 1 /\ inProgress' = TRUE /\ reason' = "healing"
         /\ \E h \in Heals : heal[h].pc = "idle" /\ registered' = h
              /\ heal' = [heal EXCEPT ![h] = [IdleHeal EXCEPT !.pc = "delay", !.mode = mode]]

Schedule(mode, otherwise) ==
    IF inProgress \/ attempts >= MaxHealAttempts
    THEN reason' = otherwise /\ UNCHANGED healVars
    ELSE \E h \in Heals :
        /\ h = NextHeal /\ heal[h].pc = "idle"
        /\ attempts' = attempts + 1
        /\ inProgress' = TRUE
        /\ reason' = "healing"
        /\ registered' = h
        /\ heal' = [x \in Heals |->
              IF x = h THEN [IdleHeal EXCEPT !.pc = "delay", !.mode = mode]
              ELSE IF heal[x].pc = "idle" \/ heal[x].age = 2 THEN heal[x]
              ELSE [heal[x] EXCEPT !.age = @ + 1]]

Resumes(h, pc) == heal[h].pc = pc /\ ~heal[h].cancelled

\* The finally block.  An exception that leaves the coroutine waits for the
\* stop_session that drains it, if one does.
Finish(h, raised) ==
    /\ inProgress' = IF heal[h].age <= 1 THEN FALSE ELSE inProgress
    /\ registered' = NoHeal
    /\ heal' = [heal EXCEPT ![h] = [IdleHeal EXCEPT !.raised = raised /\ call.heal = h]]

\* After the delay, before the try: a newer epoch, an unhealthy source, and
\* the first step of a replay or of a swap.
HealBegins(h) == Resumes(h, "delay") /\
    \/ /\ heal[h].age > 0
       /\ heal' = [heal EXCEPT ![h] = IdleHeal]
       /\ UNCHANGED <<reason, inProgress, registered, attempts>>
    \/ /\ heal[h].age = 0 /\ FALSE \in Outcome("source")
       /\ reason' = "failed" /\ Finish(h, FALSE) /\ UNCHANGED attempts
    \/ /\ heal[h].age = 0 /\ heal[h].mode = "replay"
       /\ Step(h, "play") /\ UNCHANGED <<reason, inProgress, registered, attempts>>
    \/ /\ heal[h].age = 0 /\ heal[h].mode = "swap"
       /\ \/ FALSE \in Outcome("build") /\ Finish(h, TRUE)
          \/ /\ \E p \in Pipelines : Fresh(p) /\
                 heal' = [heal EXCEPT ![h].pc = "start", ![h].old = pipeline, ![h].new = p]
             /\ UNCHANGED <<inProgress, registered>>
       /\ UNCHANGED <<reason, attempts>>

HealBegun(h) ==
    /\ HealBegins(h)
    /\ UNCHANGED <<state, mediaVars, pipe, silent, monitor, call, quiesce, overrun>>

(* Mutant: the old pipeline is forgotten instead of stopped. *)
HealForgetsOld(h) == Resumes(h, "start") /\ LET new == heal[h].new IN
    /\ pipe' = [pipe EXCEPT ![new] = "running"]
    /\ pipeline' = new /\ published' = new /\ fed' = IF fed = None THEN None ELSE new
    /\ heal' = [heal EXCEPT ![h].pc = "play", ![h].new = None, ![h].old = None]
    /\ UNCHANGED <<state, reason, inProgress, attempts, registered, silent, monitor, call, quiesce, overrun>>

(* Mutant: the new pipeline is published, but frame sink and session keep the old one. *)
HealPublishesFirst(h) == Resumes(h, "start") /\ LET new == heal[h].new IN
    /\ pipe' = [pipe EXCEPT ![new] = "running"]
    /\ published' = new
    /\ heal' = [heal EXCEPT ![h].pc = "play", ![h].new = None, ![h].old = None]
    /\ UNCHANGED <<state, reason, inProgress, attempts, registered, pipeline, fed, silent, monitor, call, quiesce, overrun>>

\* The new encoder runs: publish, re-point the frame sink and the session in
\* one turn of the loop, then stop the old pipeline.
HealPipelineStarted(h) == Resumes(h, "start") /\
    LET new == heal[h].new
        old == heal[h].old
    IN  /\ \/ /\ FALSE \in Outcome("encoder") /\ Finish(h, TRUE)
              /\ UNCHANGED <<mediaVars, pipe>>
           \/ /\ published' = new
              /\ fed' = IF fed = None THEN None ELSE new
              /\ pipeline' = new
              /\ pipe' = [p \in Pipelines |-> IF p = new THEN "running"
                            ELSE IF p = old /\ pipe[p] = "running" THEN "stopping" ELSE pipe[p]]
              /\ heal' = [x \in Heals |->
                    IF x = h THEN [heal[h] EXCEPT !.age = IF @ = 2 THEN 2 ELSE @ + 1, !.new = None,
                                    !.pc = IF old = None \/ pipe[old] = "off" THEN "play" ELSE "old_stop"]
                    ELSE IF heal[x].pc = "idle" \/ heal[x].age = 2 THEN heal[x]
                    ELSE [heal[x] EXCEPT !.age = @ + 1]]
              /\ UNCHANGED <<inProgress, registered>>
        /\ UNCHANGED <<state, reason, attempts, silent, monitor, call, quiesce, overrun>>

HealOldStopped(h) ==
    /\ Resumes(h, "old_stop")
    /\ EndStop(heal[h].old)
    /\ heal' = [heal EXCEPT ![h].pc = "play", ![h].old = None]
    /\ UNCHANGED <<state, reason, inProgress, attempts, registered, mediaVars, monitor, call, quiesce, overrun>>

HealPlayed(h) ==
    /\ Resumes(h, "play")
    /\ \/ FALSE \in Outcome("renderer") /\ Finish(h, FALSE)      \* a RuntimeError: a drain swallows it
       \/ Step(h, "watch") /\ UNCHANGED <<inProgress, registered>>
    /\ UNCHANGED <<state, reason, attempts, mediaVars, pipe, silent, monitor, call, quiesce, overrun>>

\* The encoder, for a replay also the delivery, was alive long enough.
HealSucceeds(h) ==
    /\ Resumes(h, "watch") /\ Alive(pipeline) /\ heal[h].age <= 1
    /\ IF state = PLAYING \/ CanMove(PLAYING)
       THEN state' = PLAYING /\ reason' = "none" /\ attempts' = 0 /\ Finish(h, FALSE)
       ELSE Finish(h, TRUE) /\ UNCHANGED <<state, reason, attempts>>
    /\ UNCHANGED <<mediaVars, pipe, silent, monitor, call, quiesce, overrun>>

(* Mutant: the deadline of the heal moves on with every look. *)
HealWaitsOn(h) == Resumes(h, "watch") /\ UNCHANGED vars

\* Five seconds passed, or the session lost its pipeline or saw a newer epoch.
HealGivesUp(h) ==
    /\ Resumes(h, "watch")
    /\ reason' = IF heal[h].age <= 1 /\ pipeline # None THEN "failed" ELSE reason
    /\ Finish(h, FALSE)
    /\ UNCHANGED <<state, attempts, mediaVars, pipe, silent, monitor, call, quiesce, overrun>>

\* CancelledError: before the try nothing is reset; in old_pipeline.stop() the
\* drain of a pipeline task may absorb it, and the heal goes on.
HealCancelled(h) ==
    /\ heal[h].pc # "idle" /\ heal[h].cancelled
    /\ \/ /\ heal[h].pc = "delay"
          /\ heal' = [heal EXCEPT ![h] = IdleHeal]
          /\ UNCHANGED <<inProgress, registered, pipe, silent>>
       \/ /\ heal[h].pc \in {"start", "play", "watch"}
          /\ Finish(h, FALSE) /\ UNCHANGED <<pipe, silent>>
       \/ /\ heal[h].pc = "old_stop"
          /\ \/ EndStop(heal[h].old) /\ Finish(h, FALSE)
             \/ heal' = [heal EXCEPT ![h].cancelled = FALSE]
                /\ UNCHANGED <<inProgress, registered, pipe, silent>>
    /\ UNCHANGED <<state, reason, attempts, mediaVars, monitor, call, quiesce, overrun>>

-----------------------------------------------------------------------------
(* The monitor *)

Watching == monitor # "off" /\ state \notin Ended /\ pipeline # None

\* The transport's heartbeat is lost for a window.
MonitorDegrades ==
    /\ Watching
    /\ state = PLAYING /\ ~Alive(pipeline) /\ monitor = "armed"
    /\ state' = DEGRADED
    /\ monitor' = "emitted"
    /\ IF AutoHeal THEN Schedule("swap", "lost")
       ELSE reason' = "lost" /\ UNCHANGED healVars
    /\ UNCHANGED <<mediaVars, pipe, silent, call, quiesce, overrun>>

\* The encoder delivers again for a window, and no heal is at work.  (The branch
\* names QUIESCED too, but nothing starts the clock of its window there.)
MonitorRestores ==
    /\ Watching
    /\ state = DEGRADED /\ Alive(pipeline) /\ ~inProgress /\ reason # "detached"
    /\ state' = PLAYING /\ reason' = "none"
    /\ monitor' = "armed"
    /\ UNCHANGED <<healVars, mediaVars, pipe, silent, call, quiesce, overrun>>

\* The renderer's client stayed away longer than its grace: the session is
\* quiesced and, unless that is configured off, a replay scheduled as well.
MonitorDetaches ==
    /\ Watching
    /\ "detach" \in Env /\ quiesce.pc = "idle"
    /\ state = PLAYING /\ Alive(pipeline) /\ reason # "detached"
    /\ state' = QUIESCED
    /\ quiesce' = [pc |-> "begin", pipe |-> None]
    /\ \/ reason' = "detached" /\ UNCHANGED healVars
       \/ AutoHeal /\ Schedule("replay", "detached")
    /\ UNCHANGED <<mediaVars, pipe, silent, monitor, call, overrun>>

MonitorRetires ==
    /\ monitor # "off" /\ state \in Ended
    /\ monitor' = "off"
    /\ UNCHANGED <<state, reason, healVars, mediaVars, pipe, silent, call, quiesce, overrun>>

Quiesces ==
    /\ quiesce.pc = "begin"
    /\ fed' = None
    /\ IF pipeline = None \/ pipe[pipeline] = "off"
       THEN quiesce' = [pc |-> "idle", pipe |-> None] /\ UNCHANGED pipe
       ELSE quiesce' = [pc |-> "pipe_stop", pipe |-> pipeline] /\ BeginStop(pipeline)
    /\ UNCHANGED <<state, reason, healVars, pipeline, published, silent, monitor, call, overrun>>

Quiesced ==
    /\ quiesce.pc = "pipe_stop"
    /\ EndStop(quiesce.pipe)
    /\ quiesce' = [pc |-> "idle", pipe |-> None]
    /\ UNCHANGED <<state, reason, healVars, mediaVars, monitor, call, overrun>>

\* The encoder stops delivering, and delivers again; nobody looks at others
\* than the session's.
EncoderFalters ==
    /\ pipeline # None /\ pipe[pipeline] = "running"
    /\ silent' = IF pipeline \in silent THEN silent \ {pipeline} ELSE silent \cup {pipeline}
    /\ UNCHANGED <<state, reason, healVars, mediaVars, pipe, monitor, call, quiesce, overrun>>

-----------------------------------------------------------------------------
(* recover() *)

Recover ==
    /\ "recover" \in Ops
    /\ state = DEGRADED /\ reason \in {"lost", "detached", "failed"}
    /\ Schedule(IF reason = "detached" THEN "replay" ELSE "swap", reason)
    /\ UNCHANGED <<state, mediaVars, pipe, silent, monitor, call, quiesce, overrun>>

RecoverTarget ==
    /\ "recover" \in Ops /\ call.pc = "idle"
    /\ ~(state = DEGRADED /\ reason \in {"lost", "detached", "failed"})
    /\ CanMove(HEALING)
    /\ state' = HEALING
    /\ Goto("heal_target")
    /\ UNCHANGED <<reason, healVars, mediaVars, pipe, silent, monitor, quiesce, overrun>>

TargetHealed ==
    /\ call.pc = "heal_target"
    /\ \E ok \in Outcome("renderer") :
         state' = IF ok /\ CanMove(PLAYING) THEN PLAYING
                  ELSE IF CanMove(FAILED) THEN FAILED ELSE state
    /\ call' = IdleCall
    /\ UNCHANGED <<reason, healVars, mediaVars, pipe, silent, monitor, quiesce, overrun>>

-----------------------------------------------------------------------------
(* stop_session *)

\* STOPPING, and the monitor cancelled and drained.
CallStop ==
    /\ "stop" \in Ops /\ call.pc = "idle"
    /\ CanMove(STOPPING)
    /\ state' = STOPPING
    /\ monitor' = "off"
    /\ Goto("stop_heal")
    /\ UNCHANGED <<reason, healVars, mediaVars, pipe, silent, quiesce, overrun>>

(* Mutant: stop_session leaves the heal alone. *)
StopIgnoresHeal ==
    /\ call.pc = "stop_heal" /\ Goto("release")
    /\ UNCHANGED <<state, reason, healVars, mediaVars, pipe, silent, monitor, quiesce, overrun>>

StopHeal ==
    /\ call.pc = "stop_heal"
    /\ IF registered = NoHeal THEN Goto("release") /\ UNCHANGED <<heal, registered>>
       ELSE /\ registered' = NoHeal
            /\ heal' = [heal EXCEPT ![registered].cancelled = TRUE]
            /\ call' = [call EXCEPT !.pc = "drain", !.heal = registered]
    /\ UNCHANGED <<state, reason, inProgress, attempts, mediaVars, pipe, silent, monitor, quiesce, overrun>>

\* _cancel_and_drain swallows CancelledError and RuntimeError only.
HealDrained == call.pc = "drain" /\ LET h == call.heal IN
    /\ heal[h].pc = "idle"
    /\ heal' = [heal EXCEPT ![h] = IdleHeal]
    /\ call' = IF heal[h].raised THEN IdleCall ELSE [IdleCall EXCEPT !.pc = "release"]
    /\ UNCHANGED <<state, reason, inProgress, attempts, registered, mediaVars, pipe, silent, monitor, quiesce, overrun>>

\* The renderer is stopped, then frame sink and source; then the pipeline.
Release ==
    /\ call.pc = "release"
    /\ fed' = None
    /\ call' = [call EXCEPT !.pc = "stop_pipe", !.pipe = pipeline]
    /\ IF pipeline = None THEN UNCHANGED pipe ELSE BeginStop(pipeline)
    /\ UNCHANGED <<state, reason, healVars, pipeline, published, silent, monitor, quiesce, overrun>>

StopDone ==
    /\ call.pc = "stop_pipe"
    /\ IF call.pipe = None THEN UNCHANGED <<pipe, silent, published>>
       ELSE EndStop(call.pipe) /\ published' = None
    /\ state' = IF CanMove(STOPPED) THEN STOPPED ELSE state
    /\ call' = IdleCall
    /\ UNCHANGED <<reason, healVars, pipeline, fed, monitor, quiesce, overrun>>

-----------------------------------------------------------------------------
(* start_session *)

CallStart ==
    /\ "start" \in Ops /\ call.pc = "idle" /\ quiesce.pc = "idle"
    /\ state \in RestartFrom /\ CanMove(STARTING)
    /\ state' = STARTING
    /\ IF pipeline = None \/ pipe[pipeline] = "off" THEN Goto("setup") /\ UNCHANGED pipe
       ELSE call' = [call EXCEPT !.pc = "old_stop", !.pipe = pipeline] /\ BeginStop(pipeline)
    /\ overrun' = (overrun \/ (state # STOPPED /\ \E h \in Heals : HealAtWork(h)))
    /\ UNCHANGED <<reason, healVars, mediaVars, silent, monitor, quiesce>>

OldStopped ==
    /\ call.pc = "old_stop"
    /\ EndStop(call.pipe)
    /\ pipeline' = None
    /\ call' = [IdleCall EXCEPT !.pc = "setup"]
    /\ UNCHANGED <<state, reason, healVars, published, fed, monitor, quiesce, overrun>>

SetUp ==
    /\ call.pc = "setup"
    /\ \E p \in Pipelines : Fresh(p)
         /\ pipeline' = p /\ published' = p /\ fed' = p
         /\ call' = [call EXCEPT !.pc = "pipe_start", !.pipe = p]
    /\ UNCHANGED <<state, reason, healVars, pipe, silent, monitor, quiesce, overrun>>

PipelineStarted ==
    /\ call.pc = "pipe_start"
    /\ \/ pipe' = [pipe EXCEPT ![call.pipe] = "running"] /\ Goto("play")
       \/ FALSE \in Outcome("encoder") /\ Goto("cleanup") /\ UNCHANGED pipe
    /\ UNCHANGED <<state, reason, healVars, mediaVars, silent, monitor, quiesce, overrun>>

\* FAILED, and stop_session at once.
FailAndStop ==
    IF CanMove(FAILED)
    THEN state' = STOPPING /\ monitor' = "off" /\ call' = [IdleCall EXCEPT !.pc = "stop_heal"]
    ELSE call' = IdleCall /\ UNCHANGED <<state, monitor>>

\* The renderer plays: PLAYING and a new monitor, or the start has failed.
Played ==
    /\ call.pc = "play"
    /\ \/ /\ CanMove(PLAYING)
          /\ state' = PLAYING /\ reason' = "none" /\ monitor' = "armed"
          /\ call' = IdleCall
       \/ ~CanMove(PLAYING) /\ FailAndStop /\ UNCHANGED reason
       \/ FALSE \in Outcome("renderer") /\ Goto("cleanup") /\ UNCHANGED <<state, reason, monitor>>
    /\ UNCHANGED <<healVars, mediaVars, pipe, silent, quiesce, overrun>>

CleanUp ==
    /\ call.pc = "cleanup"
    /\ monitor' = "off" /\ fed' = None
    /\ call' = [call EXCEPT !.pc = "clean_pipe", !.pipe = pipeline]
    /\ IF pipeline = None THEN UNCHANGED pipe ELSE BeginStop(pipeline)
    /\ UNCHANGED <<state, reason, healVars, pipeline, published, silent, quiesce, overrun>>

CleanedUp ==
    /\ call.pc = "clean_pipe"
    /\ pipeline' = None
    /\ IF call.pipe = None THEN UNCHANGED <<pipe, silent>> ELSE EndStop(call.pipe)
    /\ FailAndStop
    /\ UNCHANGED <<reason, healVars, published, fed, quiesce, overrun>>

-----------------------------------------------------------------------------
HealStep(h) == \/ HealBegun(h) \/ HealPipelineStarted(h) \/ HealOldStopped(h)
               \/ HealPlayed(h) \/ HealSucceeds(h) \/ HealGivesUp(h) \/ HealCancelled(h)

CallStep == \/ TargetHealed \/ StopHeal \/ HealDrained \/ Release \/ StopDone
            \/ OldStopped \/ SetUp \/ PipelineStarted \/ Played
            \/ CleanUp \/ CleanedUp

Next == \/ \E h \in Heals : HealStep(h)
        \/ MonitorDegrades \/ MonitorRestores \/ MonitorDetaches \/ MonitorRetires
        \/ Quiesces \/ Quiesced \/ EncoderFalters
        \/ Recover \/ RecoverTarget \/ CallStop \/ CallStart \/ CallStep

\* Awaited operations end and a heal has a deadline; the monitor polls.
Fairness == /\ \A h \in Heals : WF_vars(HealStep(h))
            /\ WF_vars(CallStep) /\ WF_vars(MonitorDegrades) /\ WF_vars(MonitorRetires)
            /\ WF_vars(Quiesces \/ Quiesced)

Spec     == Init /\ [][Next]_vars
FairSpec == Spec /\ Fairness

-----------------------------------------------------------------------------
(* Type correctness. *)
TypeOK ==
    /\ state \in SessionState /\ reason \in Reasons /\ overrun \in BOOLEAN
    /\ inProgress \in BOOLEAN /\ attempts \in 0 .. MaxHealAttempts
    /\ registered \in Heals \cup {NoHeal} /\ heal \in [Heals -> Heal]
    /\ {pipeline, published, fed} \subseteq Pipelines \cup {None}
    /\ pipe \in [Pipelines -> {"off", "running", "stopping"}]
    /\ silent \subseteq Pipelines /\ monitor \in {"off", "armed", "emitted"}
    /\ call \in Call
    /\ quiesce \in [pc : {"idle", "begin", "pipe_stop"}, pipe : Pipelines \cup {None}]

(* Properties *)

Settled == call.pc = "idle" /\ quiesce.pc = "idle" /\ \A h \in Heals : ~HealAtWork(h)
Encoding == {p \in Pipelines : pipe[p] # "off"}

\* media_heal_in_progress keeps two heals from swapping pipelines under each
\* other: a heal that runs holds it, whoever scheduled, cancelled or failed it.
OneHeal ==
    /\ \A h, g \in Heals : HealAtWork(h) /\ HealAtWork(g) => h = g
    /\ \A h \in Heals : HealAtWork(h) => inProgress /\ heal[h].age <= 1

\* Frames, listeners and the session agree on the pipeline in every state the
\* loop can be in, also in the middle of a swap: nobody hears a pipeline that
\* nobody feeds.  Only a start over a running heal breaks it.
SwapIsWhole == state \in {PLAYING, DEGRADED} /\ fed # None /\ ~overrun =>
    published = fed /\ pipeline = fed

\* With nothing in flight, the only encoder that may run is the session's: no
\* failure or cancellation in the middle of a swap leaves another one behind.
\* Only a start over a running heal can.
NoOrphan == Settled /\ ~overrun => Encoding \subseteq {pipeline}

\* A heal scheduled before a stop never completes the start after it, for
\* stop_session drains the heal; only one that a start without a stop before
\* it has overrun can.
OnlyStartsFinishStarts ==
    [][~overrun' /\ state = STARTING /\ state' = PLAYING => call.pc = "play"]_vars

\* Every heal comes to an end, whatever fails under it.
HealsEnd == \A h \in Heals : HealAtWork(h) ~> ~HealAtWork(h)

\* A PLAYING session whose encoder stays silent is noticed: it does not go on
\* PLAYING without a sound for ever.
LossNoticed == (state = PLAYING /\ ~Alive(pipeline)) ~> (state # PLAYING \/ Alive(pipeline))
=============================================================================
