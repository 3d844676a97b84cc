-------------------------- MODULE SerialCallsProofs --------------------------
(***************************************************************************)
(* Proofs about SessionManager for calls that come one at a time: one      *)
(* coroutine, for any number of sessions, pipelines, rungs, sources and    *)
(* targets, all operations, and any failure, the renderer's in a start     *)
(* included, but those of a target's heal or stop and of the transport,    *)
(* which make recover() fail, leave a stream on and sessions DEGRADED.     *)
(*                                                                         *)
(* Three invariants, one upon the other, over the invariant of             *)
(* SessionManagerProofs:                                                   *)
(*   Shape  what each session holds.  A session that no call is at work on *)
(*          holds everything when it plays and nothing when it does not    *)
(*          (Rested); for the one a call is at work on, each point of the  *)
(*          call says what has been taken and what released (StartAt,      *)
(*          ReleaseAt, StopAt);                                            *)
(*   Lone   who uses a target: one session at most, none when create()     *)
(*          inserts another one, and besides the session that is started   *)
(*          only those that start_session has still to stop;               *)
(*   Tuned  what a target plays: one of its sessions, until a stop has     *)
(*          silenced it, and the session that plays on it.                 *)
(***************************************************************************)
EXTENDS SessionManagerProofs

USE DEF CREATED, PREPARING, READY, STARTING, PLAYING, HEALING, DEGRADED, QUIESCED, SUPERSEDED,
        STOPPING, STOPPED, FAILED, ABSENT, PRUNED

\* The only coroutine.
Only == CHOOSE k : Tasks = {k}
C    == task[Only]

OneAtATime == \E k : Tasks = {k}
Serial     == OneAtATime /\ "renderer" \notin Env /\ "transport" \notin Env

StopPoints == {"stop", "stop_inspect", "stop_target", "stop_done"}
Passive    == {"idle", "play", "create", "create_inspect", "insert", "resume", "resume_inspect",
               "start", "incumbents", "start_return", "replay_prepare", "replay_play"}
Over       == {STOPPING, STOPPED, SUPERSEDED} \cup Unlisted

-----------------------------------------------------------------------------
(* What a session holds *)

Encodes(s, p) == pipe[p].of = s /\ pipe[p].st = "running"

\* Every capture and frame sink that runs is the recorded one, every FFmpeg the
\* session's pipeline.
Counted(s) ==
    /\ captures[s] = IF adapter[s] THEN 1 ELSE 0
    /\ sinks[s] = IF sink[s] = "live" THEN 1 ELSE 0
Own(s) ==
    /\ \A p \in Pipelines : Encodes(s, p) => p = pipeOf[s]
    /\ pipeOf[s] # None => pipe[pipeOf[s]].of = s

Unfed(s) == \A p \in Pipelines : ~Encodes(s, p)
Free(s) == ~adapter[s] /\ sink[s] # "live" /\ Unfed(s)
Fed(s)  == adapter[s] /\ sink[s] = "live" /\ pipeOf[s] # None /\ published[s] = pipeOf[s]
Served(s) == Fed(s) /\ Encodes(s, pipeOf[s])

\* No call is at work on the session.
Resting(s) ==
    /\ ~(C.s = s /\ C.pc \in StartPoints)
    /\ ~(C.v = s /\ C.pc \in StopPoints \cup ReleasePoints)
Rested(s) ==
    /\ state[s] \notin {STARTING, FAILED, DEGRADED}
    /\ state[s] \in {PLAYING, HEALING} => Served(s) /\ monitor[s]
    /\ state[s] \notin {PLAYING, HEALING} => Free(s)

Fits(s) == Counted(s) /\ Own(s) /\ (Resting(s) => Rested(s))

\* start_session, between STARTING and its end.
StartAt == C.pc \in StartPoints =>
    /\ state[C.s] = STARTING
    /\ C.pc \in {"attempt", "old_stop", "setup", "sink_fail", "retry", "failed"} => Free(C.s)
    /\ C.pc = "pipe_start" => Fed(C.s) /\ url[C.s] /\ pipeOf[C.s] = C.pipe /\ Unfed(C.s)
    /\ C.pc \in {"prepare", "play_stream", "started"} => Served(C.s) /\ url[C.s]

\* The release of a media path, for each of its three callers.
ReleaseAt == C.pc \in ReleasePoints =>
    /\ C.mode = "cleanup" => C.v = C.s /\ state[C.v] = STARTING
    /\ C.mode = "stop" => state[C.v] = STOPPING
    /\ C.mode = "quiesce" => state[C.v] = QUIESCED
    /\ C.pc = "sink_stop" => sink[C.v] = "stopping"
    /\ C.pc = "release_source" => sink[C.v] # "live"
    /\ C.pc = "pipe_stop" => Free(C.v)

\* stop_session around the release, and the calls that wait for a target.
StopAt ==
    /\ C.pc = "stop" /\ state[C.v] \in Over => Free(C.v)
    /\ C.pc \in {"stop_inspect", "stop_target", "stop_done"} => state[C.v] = STOPPING
    /\ C.pc = "stop_done" => Free(C.v)
    /\ C.pc = "stop_return" => state[C.v] \in Over
    /\ C.pc = "heal_target" => state[C.s] = HEALING

Sess  == \A s \in Sessions : Fits(s)
Shape == Sess /\ StartAt /\ ReleaseAt /\ StopAt

-----------------------------------------------------------------------------
(* The one coroutine and its turns *)

LEMMA Facts ==
    ASSUME Serial, IInv
    PROVE  /\ Tasks = {Only} /\ Only \in Tasks
           /\ TaskInv /\ C \in Coroutine /\ Sound(C)
           /\ \A s \in Sessions : state[s] \in SessionState \cup Unlisted
           /\ \A ok \in Outcome("renderer") : ok = TRUE
<1>1. Tasks = {Only}
  BY DEF Serial, OneAtATime, Only
<1> QED BY <1>1 DEF IInv, TaskInv, SessionInv, C, Serial, Outcome

LEMMA Turned ==
    ASSUME Serial, IInv, NEW d, Run(Only, d) \/ Wait(Only, d)
    PROVE  C' = d
BY Facts DEF Run, Wait, TaskInv, C

LEMMA MovedTo ==
    ASSUME Serial, IInv, NEW pc, Goto(Only, pc) \/ Await(Only, pc)
    PROVE  /\ C'.pc = pc /\ C'.s = C.s /\ C'.v = C.v /\ C'.ret = C.ret /\ C'.mode = C.mode
           /\ C'.todo = C.todo /\ C'.pipe = C.pipe /\ C'.req = C.req
<1>1. C' = [C EXCEPT !.pc = pc]
  BY Turned DEF Goto, Await, C
<1> QED BY <1>1, Facts DEF Coroutine

LEMMA Finished ==
    ASSUME Serial, IInv, Finish(Only)
    PROVE  C'.pc = "idle" /\ C'.s = None /\ C'.v = None /\ C'.ret = "done"
<1>1. C' = Idle
  BY Turned DEF Finish
<1> QED BY <1>1 DEF Idle

\* A call goes on with a session to start or to resume.
LEMMA Begun ==
    ASSUME Serial, IInv, NEW pc, NEW s, NEW after,
           Run(Only, Begin(pc, s, after)) \/ Wait(Only, Begin(pc, s, after))
    PROVE  C'.pc = pc /\ C'.s = s /\ C'.v = None /\ C'.ret = "done"
<1>1. C' = Begin(pc, s, after)
  BY Turned
<1> QED BY <1>1 DEF Begin, Idle

-----------------------------------------------------------------------------
(* Sessions that a step leaves alone *)

SameMedia(s) ==
    /\ pipeOf'[s] = pipeOf[s] /\ published'[s] = published[s]
    /\ \A p \in Pipelines : Encodes(s, p)' <=> Encodes(s, p)
    /\ pipeOf[s] # None => pipe'[pipeOf[s]].of = pipe[pipeOf[s]].of
SameSource(s) ==
    /\ adapter'[s] = adapter[s] /\ sink'[s] = sink[s]
    /\ captures'[s] = captures[s] /\ sinks'[s] = sinks[s]
Same(s) ==
    /\ SameMedia(s) /\ SameSource(s)
    /\ state'[s] = state[s] /\ monitor'[s] = monitor[s]

LEMMA SameHolds ==
    ASSUME IInv, NEW s \in Sessions, SameMedia(s), SameSource(s), Fits(s)
    PROVE  /\ Counted(s)' /\ Own(s)' /\ (Free(s) => Free(s)') /\ (Fed(s) => Fed(s)')
           /\ (Served(s) => Served(s)') /\ (Unfed(s) => Unfed(s)')
<1>1. pipeOf[s] # None => pipeOf[s] \in Pipelines
  BY DEF IInv, MediaInv
<1>2. Counted(s)'
  BY DEF SameSource, Fits, Counted
<1>3. Own(s)'
  BY DEF SameMedia, Fits, Own
<1>4. Unfed(s) => Unfed(s)'
  BY DEF SameMedia, Unfed
<1>5. Free(s) => Free(s)'
  BY <1>4 DEF SameSource, Free
<1>6. Fed(s) => Fed(s)'
  BY DEF SameSource, SameMedia, Fed
<1>7. Encodes(s, pipeOf[s]) /\ pipeOf[s] # None => Encodes(s, pipeOf[s])'
  BY <1>1 DEF SameMedia
<1>8. Served(s) => Served(s)'
  BY <1>6, <1>7 DEF Served, Fed
<1> QED BY <1>2, <1>3, <1>4, <1>5, <1>6, <1>8

\* A step that only works on session x, where nobody is at work on another one.
LEMMA SessKept ==
    ASSUME IInv, Sess, NEW x,
           \A r \in Sessions : r # x => Resting(r) /\ Same(r),
           x \in Sessions => Fits(x)'
    PROVE  Sess'
<1> SUFFICES ASSUME NEW r \in Sessions, r # x PROVE Fits(r)'
  BY DEF Sess
<1>1. Fits(r) /\ Rested(r) /\ SameMedia(r) /\ SameSource(r)
      /\ state'[r] = state[r] /\ monitor'[r] = monitor[r]
  BY DEF Sess, Fits, Same
<1>2. Rested(r)'
  BY <1>1, SameHolds DEF Rested
<1> QED BY <1>1, <1>2, SameHolds DEF Fits

\* Nobody is at work on a session but the one that is started, or stopped.
LEMMA WhoRests ==
    ASSUME NEW r \in Sessions
    PROVE  /\ C.pc \in StartPoints /\ r # C.s => Resting(r)
           /\ C.pc \in StopPoints \cup ReleasePoints /\ r # C.v => Resting(r)
           /\ C.pc \in Passive \cup {"stop_return", "heal_target"} => Resting(r)
BY DEF Resting, StartPoints, StopPoints, ReleasePoints, Passive

Data == <<state, pipeOf, published, url, adapter, sink, monitor, pipe, sinks, captures>>

LEMMA DataSame ==
    ASSUME UNCHANGED Data, NEW s \in Sessions
    PROVE  Same(s)
BY DEF Data, Same, SameMedia, SameSource, Encodes

\* Steps between two calls' work on sessions.
LEMMA Passes ==
    ASSUME Serial, IInv, IInv', Shape, UNCHANGED Data,
           C.pc \in Passive \cup {"stop_return", "heal_target"},
           C'.pc \in Passive \cup {"stop"}
    PROVE  Shape'
<1>1. \A r \in Sessions : Resting(r) /\ Same(r)
  BY WhoRests, DataSame
<1>2. Sess'
  <2>1. None \notin Sessions
    BY BoundsAssumption DEF None, Sessions
  <2> QED BY <1>1, <2>1, SessKept DEF Shape
<1>3. StartAt' /\ ReleaseAt'
  BY DEF StartAt, ReleaseAt, Passive, StartPoints, ReleasePoints
<1>4. StopAt'
  <2>1. CASE C'.pc \in Passive
    BY <2>1 DEF StopAt, Passive
  <2>2. CASE C'.pc = "stop"
    <3>1. PICK v \in Sessions : v = C'.v
      BY <2>2, Facts DEF Serial, IInv, TaskInv, Sound, VPoints, C
    <3>2. Rested(v) /\ SameMedia(v) /\ SameSource(v) /\ Fits(v) /\ state'[v] = state[v]
      BY <1>1 DEF Shape, Sess, Fits, Same
    <3>3. Free(v) => Free(v)'
      BY <3>2, SameHolds
    <3>4. state'[v] \in Over => Free(v)'
      BY <3>2, <3>3 DEF Rested, Over, Unlisted
    <3>5. C'.pc = "stop" /\ C'.v = v
      BY <2>2, <3>1
    <3> QED BY <3>4, <3>5 DEF StopAt
  <2> QED BY <2>1, <2>2
<1> QED BY <1>2, <1>3, <1>4 DEF Shape

LEMMA CanMoves ==
    ASSUME NEW s \in Sessions
    PROVE  /\ CanMove(s, STARTING) =>
                 state[s] \in {CREATED, READY, DEGRADED, QUIESCED, STOPPED, FAILED}
           /\ CanMove(s, HEALING) => state[s] \in {PLAYING, DEGRADED, FAILED}
           /\ state[s] \in SessionState \ Over => CanMove(s, STOPPING)
           /\ CanMove(s, STOPPING) => state[s] \notin Over
           /\ state[s] = STARTING => CanMove(s, PLAYING) /\ CanMove(s, FAILED)
           /\ state[s] = STOPPING => CanMove(s, STOPPED)
           /\ state[s] = HEALING => CanMove(s, PLAYING)
BY DEF CanMove, ValidTransitions, SessionState, Over, Unlisted

-----------------------------------------------------------------------------
(* Steps between two calls' work *)

LEMMA CallsPass ==
    ASSUME Serial, IInv, IInv', Shape,
           \/ CallPlay(Only) \/ CallCreate(Only) \/ CallStart(Only)
           \/ CallStop(Only) \/ CallResume(Only)
    PROVE  Shape'
<1>1. UNCHANGED Data
  BY DEF CallPlay, CallCreate, CallStart, CallStop, CallResume, sessionVars, mediaVars,
     sourceVars, Data
<1>2. C.pc = "idle"
  BY DEF CallPlay, CallCreate, CallStart, CallStop, CallResume, Call, C
<1>3. C'.pc \in {"play", "create", "start", "stop", "resume"}
  <2> USE Turned DEF Call, Idle
  <2>1. CASE CallPlay(Only)
    BY <2>1 DEF CallPlay
  <2>2. CASE CallCreate(Only)
    BY <2>2 DEF CallCreate
  <2>3. CASE CallStart(Only)
    BY <2>3 DEF CallStart
  <2>4. CASE CallStop(Only)
    BY <2>4 DEF CallStop
  <2>5. CASE CallResume(Only)
    BY <2>5 DEF CallResume
  <2> QED BY <2>1, <2>2, <2>3, <2>4, <2>5
<1> QED BY <1>1, <1>2, <1>3, Passes DEF Passive

LEMMA PlayPasses ==
    ASSUME Serial, IInv, IInv', Shape, Play(Only) PROVE Shape'
<1>1. UNCHANGED Data /\ C.pc = "play"
  BY DEF Play, PlayPass, At, sessionVars, mediaVars, sourceVars, Data, C
<1>2. CASE Finish(Only)
  BY <1>1, <1>2, Finished, Passes DEF Passive
<1>3. ASSUME NEW e, Run(Only, Begin("resume", e, "done")) \/ Run(Only, Begin("start", e, "replay"))
      PROVE  Shape'
  BY <1>1, <1>3, Begun, Passes DEF Passive
<1>4. ASSUME NEW b, Run(Only, [C EXCEPT !.pc = "create", !.req.takeover = b]) PROVE Shape'
  <2>1. C'.pc = "create"
    BY <1>4, Turned, Facts DEF Coroutine
  <2> QED BY <1>1, <2>1, Passes DEF Passive
<1>5. ASSUME NEW e, Run(Only, [C EXCEPT !.pc = "stop", !.v = e, !.ret = "play_create",
                                        !.req.takeover = TRUE])
      PROVE  Shape'
  <2>1. C'.pc = "stop"
    BY <1>5, Turned, Facts DEF Coroutine
  <2> QED BY <1>1, <2>1, Passes DEF Passive
<1> QED BY <1>2, <1>3, <1>4, <1>5 DEF Play, C

LEMMA CreatePasses ==
    ASSUME Serial, IInv, IInv', Shape, Create(Only) PROVE Shape'
<1> DEFINE Incumbents == On(C.req.info.target, {STOPPED, SUPERSEDED})
<1>1. UNCHANGED Data /\ C.pc = "create"
  BY DEF Create, PlayPass, At, sessionVars, mediaVars, sourceVars, Data, C
<1>2. CASE Goto(Only, "insert")
  BY <1>1, <1>2, MovedTo, Passes DEF Passive
<1>3. ASSUME NEW e, NEW next \in {"start", "resume"}, NEW aft, Created(Only, e, next, aft)
      PROVE  Shape'
  BY <1>1, <1>3, Finished, Begun, Passes DEF Created, Passive
<1>4. ASSUME NEW e, \/ Run(Only, [C EXCEPT !.pc = "stop", !.v = e, !.ret = "create_return"])
                    \/ Wait(Only, [C EXCEPT !.pc = "create_inspect", !.v = e])
      PROVE  Shape'
  <2>1. C'.pc \in {"stop", "create_inspect"}
    BY <1>4, Turned, Facts DEF Coroutine
  <2> QED BY <1>1, <2>1, Passes DEF Passive
<1>5. CASE \E e \in Incumbents :
             \/ Created(Only, e, "resume", "restart")
             \/ Run(Only, [C EXCEPT !.pc = "stop", !.v = e, !.ret = "create_return"])
             \/ Created(Only, e, "start", "done")
             \/ Wait(Only, [C EXCEPT !.pc = "create_inspect", !.v = e])
  BY <1>3, <1>4, <1>5
<1> QED BY <1>2, <1>5 DEF Create, C

\* A coroutine that only changes its point, or finishes.
LEMMA PointsPass ==
    ASSUME Serial, IInv, IInv', Shape,
           \/ CreateInspected(Only) \/ Resume(Only) \/ ResumeInspected(Only) \/ Start(Only)
           \/ StopIncumbent(Only) \/ StartReturn(Only)
    PROVE  Shape'
<1>0. C \in Coroutine
  BY Facts
<1>1. UNCHANGED Data /\ C.pc \in Passive
  BY DEF CreateInspected, Resume, ResumeInspected, Start, StopIncumbent, StartReturn, PlayPass,
     At, Wakes, sessionVars, mediaVars, sourceVars, Data, C, Passive
<1>2. C'.pc \in Passive \cup {"stop"}
  <2>0. Run(Only, [C EXCEPT !.pc = "stop", !.ret = "create_insert"]) => C'.pc = "stop"
    BY <1>0, Turned DEF Coroutine
  <2> USE MovedTo, Finished, Begun DEF Passive
  <2>1. CASE CreateInspected(Only)
    BY <2>0, <2>1 DEF CreateInspected, C
  <2>2. CASE Resume(Only) \/ ResumeInspected(Only)
    BY <2>2 DEF Resume, ResumeInspected
  <2>3. CASE Start(Only)
    <3>1. ASSUME NEW d, Run(Only, [C EXCEPT !.pc = "incumbents", !.todo = d])
          PROVE  C'.pc = "incumbents"
      BY <1>0, <3>1, Turned DEF Coroutine
    <3> QED BY <2>3, <3>1 DEF Start, C
  <2>4. CASE StopIncumbent(Only)
    <3>1. ASSUME NEW e, Run(Only, [C EXCEPT !.pc = "stop", !.v = e, !.ret = "incumbents"])
          PROVE  C'.pc = "stop"
      BY <1>0, <3>1, Turned DEF Coroutine
    <3> QED BY <2>4, <3>1 DEF StopIncumbent, C
  <2>5. CASE StartReturn(Only)
    BY <2>5 DEF StartReturn
  <2> QED BY <2>1, <2>2, <2>3, <2>4, <2>5
<1> QED BY <1>1, <1>2, Passes

\* play()'s second trigger of the renderer.
LEMMA ReplayPasses ==
    ASSUME Serial, IInv, IInv', Shape, C.pc \in {"replay_prepare", "replay_play"},
           TargetPrepared(Only) \/ StreamPlayed(Only)
    PROVE  Shape'
<1>1. UNCHANGED Data /\ C.pc \in Passive
  BY DEF TargetPrepared, StreamPlayed, PlayPass, sessionVars, mediaVars, sourceVars, Data, Passive
<1>2. Await(Only, "replay_play") \/ Finish(Only)
  BY DEF TargetPrepared, StreamPlayed, Wakes, C
<1> QED BY <1>1, <1>2, MovedTo, Finished, Passes DEF Passive

-----------------------------------------------------------------------------
(* Steps that work on one session *)

\* Nobody is at work on another session, and the step leaves those alone.
Elsewhere(x) == \A r \in Sessions : r # x => Resting(r) /\ Same(r)

LEMMA MediaSame ==
    ASSUME UNCHANGED <<pipeOf, published, pipe>>, NEW s PROVE SameMedia(s)
BY DEF SameMedia, Encodes

LEMMA SourceSame ==
    ASSUME UNCHANGED sourceVars, NEW s PROVE SameSource(s)
BY DEF SameSource, sourceVars

\* The step leaves the session with start_session, ...
LEMMA OnStart ==
    ASSUME IInv, Shape, NEW x \in Sessions, Elsewhere(x), C'.pc \in StartPoints, C'.s = x,
           state'[x] = STARTING, Counted(x)', Own(x)',
           C'.pc \in {"attempt", "old_stop", "setup", "sink_fail", "retry", "failed"} => Free(x)',
           C'.pc = "pipe_start" =>
                Fed(x)' /\ url'[x] /\ pipeOf'[x] = C'.pipe /\ Unfed(x)',
           C'.pc \in {"prepare", "play_stream", "started"} => Served(x)' /\ url'[x]
    PROVE  Shape'
<1>1. Fits(x)'
  BY DEF Fits, Resting
<1>2. Sess'
  BY <1>1, SessKept DEF Shape, Elsewhere
<1>3. StartAt'
  BY DEF StartAt
<1>4. ReleaseAt' /\ StopAt'
  BY DEF ReleaseAt, StopAt, StartPoints, ReleasePoints
<1> QED BY <1>2, <1>3, <1>4 DEF Shape

\* ... with the release of its media path, ...
LEMMA OnRelease ==
    ASSUME IInv, Shape, NEW x \in Sessions, Elsewhere(x), C'.pc \in ReleasePoints, C'.v = x,
           C'.mode = "cleanup" => C'.s = x /\ state'[x] = STARTING,
           C'.mode = "stop" => state'[x] = STOPPING,
           C'.mode = "quiesce" => state'[x] = QUIESCED,
           Counted(x)', Own(x)',
           C'.pc = "sink_stop" => sink'[x] = "stopping",
           C'.pc = "release_source" => sink'[x] # "live",
           C'.pc = "pipe_stop" => Free(x)'
    PROVE  Shape'
<1>1. Fits(x)'
  BY DEF Fits, Resting
<1>2. Sess'
  BY <1>1, SessKept DEF Shape, Elsewhere
<1>3. ReleaseAt'
  BY DEF ReleaseAt
<1>4. StartAt' /\ StopAt'
  BY DEF StartAt, StopAt, StartPoints, ReleasePoints
<1> QED BY <1>2, <1>3, <1>4 DEF Shape

\* ... with stop_session, ...
LEMMA OnStop ==
    ASSUME IInv, Shape, NEW x \in Sessions, Elsewhere(x), C'.pc \in StopPoints, C'.v = x,
           Counted(x)', Own(x)',
           C'.pc = "stop" => state'[x] \notin Over \/ Free(x)',
           C'.pc # "stop" => state'[x] = STOPPING,
           C'.pc = "stop_done" => Free(x)'
    PROVE  Shape'
<1>1. Fits(x)'
  BY DEF Fits, Resting
<1>2. Sess'
  BY <1>1, SessKept DEF Shape, Elsewhere
<1>3. StopAt'
  BY DEF StopAt, StopPoints
<1>4. StartAt' /\ ReleaseAt'
  BY DEF StartAt, ReleaseAt, StopPoints, StartPoints, ReleasePoints
<1> QED BY <1>2, <1>3, <1>4 DEF Shape

\* ... or with nobody.
LEMMA OnRest ==
    ASSUME IInv, Shape, NEW x \in Sessions, Elsewhere(x),
           C'.pc \in Passive \cup {"stop_return", "heal_target"},
           Counted(x)', Own(x)', Rested(x)',
           C'.pc = "stop_return" => C'.v = x /\ state'[x] \in Over,
           C'.pc = "heal_target" => C'.s = x /\ state'[x] = HEALING
    PROVE  Shape'
<1>1. Fits(x)'
  BY DEF Fits
<1>2. Sess'
  BY <1>1, SessKept DEF Shape, Elsewhere
<1>3. StopAt'
  BY DEF StopAt, Passive
<1>4. StartAt' /\ ReleaseAt'
  BY DEF StartAt, ReleaseAt, Passive, StartPoints, ReleasePoints
<1> QED BY <1>2, <1>3, <1>4 DEF Shape

-----------------------------------------------------------------------------
(* start_session *)

LEMMA StartHas ==
    ASSUME Serial, IInv, Shape, C.pc \in StartPoints
    PROVE  /\ C.s \in Sessions /\ state[C.s] = STARTING /\ Counted(C.s) /\ Own(C.s)
           /\ \A r \in Sessions : r # C.s => Resting(r)
<1>1. C.s \in Sessions
  BY Facts DEF Sound, SPoints
<1> QED BY <1>1, WhoRests DEF Shape, StartAt, Sess, Fits

LEMMA EnterStartingShape ==
    ASSUME Serial, IInv, IInv', Shape, EnterStarting(Only) PROVE Shape'
<1>1. PICK x \in Sessions : x = C.s
  BY EnterStartingState, Facts DEF C
<1>2. C.pc = "incumbents" /\ C \in Coroutine
  BY Facts DEF EnterStarting, At, C
<1>3. \A r \in Sessions : Resting(r)
  BY <1>2, WhoRests DEF Passive
<1>4. UNCHANGED <<mediaVars, sourceVars, monitor>>
  BY DEF EnterStarting
<1>5. CASE CanMove(x, STARTING)
  <2>1. Move(x, STARTING) /\ \E pc \in {"attempt", "failed"} :
            Run(Only, [C EXCEPT !.pc = pc, !.tries = MaxAttempts])
    BY <1>1, <1>5 DEF EnterStarting, C
  <2>2. C'.pc \in {"attempt", "failed"} /\ C'.s = x
    BY <1>1, <1>2, <2>1, Turned DEF Coroutine
  <2>3. state'[x] = STARTING /\ \A r \in Sessions : r # x => state'[r] = state[r]
    BY <2>1 DEF Move, IInv, SessionInv
  <2>4. SameMedia(x) /\ SameSource(x) /\ Elsewhere(x)
    BY <1>3, <1>4, <2>3, MediaSame, SourceSame DEF mediaVars, Elsewhere, Same
  <2>5. Fits(x) /\ Free(x)
    BY <1>3, <1>5, CanMoves DEF Shape, Sess, Fits, Rested
  <2>6. Counted(x)' /\ Own(x)' /\ Free(x)'
    BY <2>4, <2>5, SameHolds
  <2> QED BY <2>2, <2>3, <2>4, <2>6, OnStart DEF StartPoints
<1>6. CASE ~CanMove(x, STARTING)
  <2>1. Goto(Only, "start_return") /\ UNCHANGED <<state, info>>
    BY <1>1, <1>6 DEF EnterStarting, C
  <2>2. UNCHANGED Data
    BY <1>4, <2>1 DEF Data, mediaVars, sourceVars
  <2> QED BY <1>2, <2>1, <2>2, MovedTo, Passes DEF Passive
<1> QED BY <1>5, <1>6

\* BeginPipeStop and EndPipeStop leave running what runs elsewhere.
LEMMA PipeStopKeeps ==
    ASSUME IInv, NEW p \in Pipelines, BeginPipeStop(p) \/ EndPipeStop(p)
    PROVE  /\ \A q \in Pipelines : pipe'[q].of = pipe[q].of
           /\ \A q \in Pipelines : q # p => pipe'[q] = pipe[q]
           /\ pipe'[p].st = pipe[p].st \/ (pipe[p].st = "running" /\ pipe'[p].st = "stopping")
              \/ (pipe[p].st = "stopping" /\ pipe'[p].st = "stopped")
<1>1. pipe \in [Pipelines -> [st : PipeState, of : Sessions]]
  BY DEF IInv, MediaInv
<1>2. CASE BeginPipeStop(p)
  BY <1>1, <1>2 DEF BeginPipeStop
<1>3. CASE EndPipeStop(p)
  BY <1>1, <1>3 DEF EndPipeStop
<1> QED BY <1>2, <1>3

\* Stopping the pipeline of session x, and perhaps forgetting it.
LEMMA PipeStops ==
    ASSUME IInv, Shape, NEW x \in Sessions, NEW p \in Pipelines,
           (BeginPipeStop(p) /\ pipe[p].of = x) \/ EndPipeStop(p) \/ UNCHANGED pipe,
           pipeOf' = pipeOf \/ pipeOf' = [pipeOf EXCEPT ![x] = None],
           published' = published \/ published' = [published EXCEPT ![x] = None]
    PROVE  /\ \A r \in Sessions : r # x => SameMedia(r)
           /\ \A q \in Pipelines : Encodes(x, q)' => Encodes(x, q)
           /\ pipeOf' = pipeOf => Own(x)'
           /\ Unfed(x) => Own(x)' /\ Unfed(x)'
<1>1. pipe \in [Pipelines -> [st : PipeState, of : Sessions]]
      /\ pipeOf \in [Sessions -> Pipelines \cup {None}]
      /\ published \in [Sessions -> Pipelines \cup {None}]
  BY DEF IInv, MediaInv
<1>2. \A q \in Pipelines : pipe'[q].of = pipe[q].of
  BY PipeStopKeeps
<1>3. \A q \in Pipelines : q # p => pipe'[q] = pipe[q]
  BY PipeStopKeeps
<1>4. \A q \in Pipelines : pipe'[q].st = "running" => pipe[q].st = "running"
  BY <1>3, PipeStopKeeps
<1>5. ASSUME NEW r \in Sessions, r # x PROVE SameMedia(r)
  <2>1. pipeOf'[r] = pipeOf[r] /\ published'[r] = published[r]
    BY <1>1, <1>5
  <2>2. ASSUME NEW q \in Pipelines PROVE Encodes(r, q)' <=> Encodes(r, q)
    <3>1. CASE q = p
      <4>1. CASE pipe[p].of = x \/ UNCHANGED pipe
        BY <1>2, <1>5, <3>1, <4>1 DEF Encodes
      <4>2. CASE EndPipeStop(p)
        <5>1. (pipe'[p].st = "running") <=> (pipe[p].st = "running")
          BY <1>1, <4>2 DEF EndPipeStop
        <5> QED BY <1>2, <3>1, <5>1 DEF Encodes
      <4> QED BY <4>1, <4>2
    <3>2. CASE q # p
      BY <1>3, <3>2 DEF Encodes
    <3> QED BY <3>1, <3>2
  <2> QED BY <1>1, <1>2, <2>1, <2>2 DEF SameMedia
<1>6. \A q \in Pipelines : Encodes(x, q)' => Encodes(x, q)
  BY <1>2, <1>4 DEF Encodes
<1>7. Unfed(x) => Unfed(x)'
  BY <1>6 DEF Unfed
<1>8. Own(x)
  BY DEF Shape, Sess, Fits
<1>9. pipeOf'[x] # None => pipeOf'[x] = pipeOf[x]
  BY <1>1
<1>10. pipeOf'[x] # None => pipe'[pipeOf'[x]].of = x
  BY <1>1, <1>2, <1>8, <1>9 DEF Own
<1>11. Unfed(x) => Own(x)'
  BY <1>7, <1>10 DEF Unfed, Own
<1>12. pipeOf' = pipeOf => Own(x)'
  BY <1>6, <1>8, <1>10 DEF Own
<1> QED BY <1>5, <1>6, <1>7, <1>11, <1>12

LEMMA AttemptShape ==
    ASSUME Serial, IInv, IInv', Shape, Attempt(Only) PROVE Shape'
<1>1. C \in Coroutine /\ C.pc = "attempt"
  BY Facts DEF Attempt, At, C
<1>2. PICK x \in Sessions : x = C.s
  BY <1>1, StartHas DEF StartPoints
<1>3. /\ state[x] = STARTING /\ Fits(x) /\ Free(x)
      /\ \A r \in Sessions : r # x => Resting(r)
  BY <1>1, <1>2, StartHas DEF StartPoints, Shape, StartAt, Sess
<1>4. UNCHANGED <<state, monitor, published, sourceVars>>
  BY DEF Attempt, sessionVars
<1>5. SameSource(x) /\ \A r \in Sessions : SameSource(r)
  BY <1>4, SourceSame DEF sourceVars
<1>6. ASSUME \A r \in Sessions : r # x => SameMedia(r),
             Own(x)', Unfed(x)', C'.s = x, C'.pc \in {"cleanup", "setup", "old_stop"}
      PROVE  Shape'
  <2>1. Elsewhere(x)
    BY <1>3, <1>4, <1>5, <1>6 DEF Elsewhere, Same
  <2>2. Counted(x)' /\ Free(x)'
    BY <1>3, <1>5, <1>6 DEF Counted, Free, Fits, SameSource
  <2>3. state'[x] = STARTING
    BY <1>3, <1>4
  <2> QED BY <1>6, <2>1, <2>2, <2>3, OnStart DEF StartPoints
<1>7. CASE UNCHANGED <<pipe, pipeOf>> /\ (Goto(Only, "cleanup") \/ Goto(Only, "setup"))
  <2>1. \A r \in Sessions : SameMedia(r)
    BY <1>4, <1>7, MediaSame
  <2>2. Own(x)' /\ Unfed(x)'
    BY <1>3, <1>5, <2>1, SameHolds DEF Free
  <2> QED BY <1>2, <1>6, <1>7, <2>1, <2>2, MovedTo
<1>8. CASE /\ pipeOf[x] # None
           /\ \/ pipeOf' = [pipeOf EXCEPT ![x] = None] /\ Goto(Only, "setup") /\ UNCHANGED pipe
              \/ /\ BeginPipeStop(pipeOf[x])
                 /\ Wait(Only, [C EXCEPT !.pc = "old_stop", !.pipe = pipeOf[x]])
                 /\ UNCHANGED pipeOf
  <2>1. pipeOf[x] \in Pipelines /\ pipe[pipeOf[x]].of = x
    BY <1>3, <1>8 DEF IInv, MediaInv, Fits, Own
  <2>2. (\A r \in Sessions : r # x => SameMedia(r)) /\ Own(x)' /\ Unfed(x)'
    BY <1>3, <1>4, <1>8, <2>1, PipeStops DEF Free
  <2>3. C'.s = x /\ C'.pc \in {"setup", "old_stop"}
    <3>1. CASE Goto(Only, "setup")
      BY <1>2, <3>1, MovedTo
    <3>2. CASE Wait(Only, [C EXCEPT !.pc = "old_stop", !.pipe = pipeOf[x]])
      BY <1>1, <1>2, <3>2, Turned DEF Coroutine
    <3> QED BY <1>8, <3>1, <3>2
  <2> QED BY <1>6, <2>2, <2>3
<1> QED BY <1>2, <1>7, <1>8 DEF Attempt, C

LEMMA OldPipeStoppedShape ==
    ASSUME Serial, IInv, IInv', Shape, OldPipeStopped(Only) PROVE Shape'
<1>1. C \in Coroutine /\ C.pc = "old_stop"
  BY Facts DEF OldPipeStopped, Wakes, C
<1>2. C.pipe \in Pipelines
  BY <1>1, Facts DEF Sound, PipePoints
<1>3. PICK x \in Sessions : x = C.s
  BY <1>1, StartHas DEF StartPoints
<1>4. /\ state[x] = STARTING /\ Fits(x) /\ Free(x)
      /\ \A r \in Sessions : r # x => Resting(r)
  BY <1>1, <1>3, StartHas DEF StartPoints, Shape, StartAt, Sess
<1>5. UNCHANGED <<state, monitor, published, sourceVars>>
  BY DEF OldPipeStopped, sessionVars
<1>6. (\A r \in Sessions : r # x => SameMedia(r)) /\ Own(x)' /\ Unfed(x)'
  <2>1. CASE UNCHANGED <<pipe, pipeOf>>
    BY <1>4, <1>5, <2>1, MediaSame, SourceSame, SameHolds DEF Free
  <2>2. CASE EndPipeStop(C.pipe) /\ pipeOf' = [pipeOf EXCEPT ![x] = None]
    BY <1>2, <1>4, <1>5, <2>2, PipeStops DEF Free
  <2> QED BY <1>3, <2>1, <2>2 DEF OldPipeStopped, C
<1>7. C'.s = x /\ C'.pc \in {"cleanup", "setup"}
  <2>1. \E pc \in {"cleanup", "setup"} : Run(Only, [C EXCEPT !.pc = pc, !.pipe = None])
    BY DEF OldPipeStopped, C
  <2> QED BY <1>1, <1>3, <2>1, Turned DEF Coroutine
<1>8. Elsewhere(x)
  BY <1>4, <1>5, <1>6, SourceSame DEF Elsewhere, Same
<1>9. SameSource(x)
  BY <1>5, SourceSame
<1>10. Counted(x)' /\ Free(x)' /\ state'[x] = STARTING
  BY <1>4, <1>5, <1>6, <1>9 DEF Counted, Free, Fits, SameSource
<1> QED BY <1>6, <1>7, <1>8, <1>10, OnStart DEF StartPoints

\* A pipeline is built in the place of an unused one.
LEMMA Builds ==
    ASSUME IInv, Shape, NEW x \in Sessions, NEW p \in Pipelines, Fresh(p),
           pipe' = [q \in Pipelines |-> IF q = p THEN [st |-> "built", of |-> x]
                                        ELSE IF Referenced(q) THEN pipe[q] ELSE NoPipeline],
           pipeOf' = [pipeOf EXCEPT ![x] = p], published' = [published EXCEPT ![x] = p],
           Unfed(x)
    PROVE  /\ \A r \in Sessions : r # x => SameMedia(r)
           /\ Own(x)' /\ Unfed(x)' /\ pipeOf'[x] = p /\ published'[x] = p
<1>1. pipe \in [Pipelines -> [st : PipeState, of : Sessions]]
      /\ pipeOf \in [Sessions -> Pipelines \cup {None}]
      /\ published \in [Sessions -> Pipelines \cup {None}]
  BY DEF IInv, MediaInv
<1>2. ~Referenced(p)
  BY DEF Fresh, First
<1>3. pipe[p].st # "running" /\ \A r \in Sessions : pipeOf[r] # p
  BY <1>2 DEF Referenced
<1>4. \A q \in Pipelines : q # p /\ Referenced(q) => pipe'[q] = pipe[q]
  OBVIOUS
<1>5. \A q \in Pipelines : ~Referenced(q) => pipe'[q].st # "running"
  BY <1>1 DEF NoPipeline
<1>6. \A q \in Pipelines : pipe[q].st = "running" => Referenced(q)
  BY DEF Referenced
<1>7. \A r \in Sessions : pipeOf[r] # None => pipeOf[r] # p /\ Referenced(pipeOf[r])
  BY <1>3 DEF Referenced
<1>8. ASSUME NEW r \in Sessions PROVE \A q \in Pipelines : Encodes(r, q)' <=> Encodes(r, q)
  <2> TAKE q \in Pipelines
  <2>1. CASE q # p /\ Referenced(q)
    BY <1>4, <2>1 DEF Encodes
  <2>2. CASE ~Referenced(q)
    BY <1>5, <1>6, <2>2 DEF Encodes
  <2> QED BY <1>2, <2>1, <2>2
<1>9. ASSUME NEW r \in Sessions, r # x PROVE SameMedia(r)
  <2>1. pipeOf'[r] = pipeOf[r] /\ published'[r] = published[r]
    BY <1>1, <1>9
  <2>2. pipeOf[r] # None => pipe'[pipeOf[r]].of = pipe[pipeOf[r]].of
    BY <1>1, <1>4, <1>7
  <2> QED BY <1>8, <2>1, <2>2 DEF SameMedia
<1>10. pipeOf'[x] = p /\ published'[x] = p /\ pipe'[p].of = x
  BY <1>1
<1>11. Unfed(x)'
  BY <1>8 DEF Unfed
<1>12. Own(x)'
  BY <1>10, <1>11 DEF Own, Unfed
<1> QED BY <1>9, <1>10, <1>11, <1>12

LEMMA SetUpShape ==
    ASSUME Serial, IInv, IInv', Shape, SetUp(Only) PROVE Shape'
<1>1. C \in Coroutine /\ C.pc = "setup"
  BY Facts DEF SetUp, At, C
<1>2. PICK x \in Sessions : x = C.s
  BY <1>1, StartHas DEF StartPoints
<1>3. /\ state[x] = STARTING /\ Fits(x) /\ Free(x) /\ Counted(x)
      /\ \A r \in Sessions : r # x => Resting(r)
  BY <1>1, <1>2, StartHas DEF StartPoints, Shape, StartAt, Sess
<1>4. UNCHANGED <<state, monitor>>
  BY DEF SetUp, sessionVars
<1>5. CASE Goto(Only, "cleanup") /\ UNCHANGED <<mediaVars, sourceVars>>
  <2>1. \A r \in Sessions : SameMedia(r) /\ SameSource(r)
    BY <1>5, MediaSame, SourceSame DEF mediaVars
  <2>2. Counted(x)' /\ Own(x)' /\ Elsewhere(x)
    BY <1>3, <1>4, <2>1, SameHolds DEF Elsewhere, Same
  <2>3. C'.s = x /\ C'.pc = "cleanup" /\ state'[x] = STARTING
    BY <1>2, <1>3, <1>4, <1>5, MovedTo
  <2> QED BY <2>2, <2>3, OnStart DEF StartPoints
<1>6. ASSUME NEW p \in Pipelines, NEW ok \in BOOLEAN, Fresh(p),
             pipe' = [q \in Pipelines |-> IF q = p THEN [st |-> "built", of |-> x]
                                          ELSE IF Referenced(q) THEN pipe[q] ELSE NoPipeline],
             pipeOf' = [pipeOf EXCEPT ![x] = p], published' = [published EXCEPT ![x] = p],
             url' = [url EXCEPT ![x] = TRUE],
             sink' = [sink EXCEPT ![x] = IF ok THEN "live" ELSE "stopping"],
             IF ok THEN /\ sinks' = [sinks EXCEPT ![x] = @ + 1]
                        /\ captures' = [captures EXCEPT ![x] = @ + 1]
                        /\ adapter' = [adapter EXCEPT ![x] = TRUE]
                        /\ Wait(Only, [C EXCEPT !.pc = "pipe_start", !.pipe = p])
             ELSE Await(Only, "sink_fail") /\ UNCHANGED <<sinks, captures, adapter>>
      PROVE  Shape'
  <2>1. /\ \A r \in Sessions : r # x => SameMedia(r)
        /\ Own(x)' /\ Unfed(x)' /\ pipeOf'[x] = p /\ published'[x] = p
    BY <1>3, <1>6, Builds DEF Free
  <2>2. \A r \in Sessions : r # x => SameSource(r)
    BY <1>6 DEF SameSource, IInv, SourceInv
  <2>3. Elsewhere(x)
    BY <1>3, <1>4, <2>1, <2>2 DEF Elsewhere, Same
  <2>4. captures[x] = 0 /\ sinks[x] = 0 /\ ~adapter[x]
    BY <1>3 DEF Counted, Free
  <2>5. CASE ok
    <3>1. adapter'[x] = TRUE /\ sink'[x] = "live" /\ captures'[x] = 1 /\ sinks'[x] = 1 /\ url'[x]
      BY <1>6, <2>4, <2>5 DEF IInv, SourceInv, MediaInv
    <3>2. p # None
      BY BoundsAssumption DEF None, Pipelines
    <3>3. Counted(x)' /\ Fed(x)'
      BY <2>1, <3>1, <3>2 DEF Counted, Fed
    <3>4. C'.pc = "pipe_start" /\ C'.s = x /\ C'.pipe = p
      BY <1>1, <1>2, <1>6, <2>5, Turned DEF Coroutine
    <3> QED BY <1>3, <1>4, <2>1, <2>3, <3>1, <3>3, <3>4, OnStart DEF StartPoints
  <2>6. CASE ~ok
    <3>1. adapter' = adapter /\ sink'[x] = "stopping" /\ captures'[x] = 0 /\ sinks'[x] = 0
      BY <1>6, <2>4, <2>6 DEF IInv, SourceInv
    <3>2. Counted(x)' /\ Free(x)'
      BY <2>1, <2>4, <3>1 DEF Counted, Free
    <3>3. C'.pc = "sink_fail" /\ C'.s = x
      BY <1>2, <1>6, <2>6, MovedTo
    <3> QED BY <1>3, <1>4, <2>1, <2>3, <3>2, <3>3, OnStart DEF StartPoints
  <2> QED BY <2>5, <2>6
<1>7. \A ok \in Outcome("source") : ok \in BOOLEAN
  BY DEF Outcome
<1>8. CASE \E p \in Pipelines, ok \in Outcome("source") :
             /\ Fresh(p)
             /\ pipe' = [q \in Pipelines |-> IF q = p THEN [st |-> "built", of |-> x]
                                             ELSE IF Referenced(q) THEN pipe[q] ELSE NoPipeline]
             /\ pipeOf' = [pipeOf EXCEPT ![x] = p]
             /\ published' = [published EXCEPT ![x] = p]
             /\ url' = [url EXCEPT ![x] = TRUE]
             /\ sink' = [sink EXCEPT ![x] = IF ok THEN "live" ELSE "stopping"]
             /\ IF ok THEN /\ sinks' = [sinks EXCEPT ![x] = @ + 1]
                           /\ captures' = [captures EXCEPT ![x] = @ + 1]
                           /\ adapter' = [adapter EXCEPT ![x] = TRUE]
                           /\ Wait(Only, [C EXCEPT !.pc = "pipe_start", !.pipe = p])
                ELSE Await(Only, "sink_fail") /\ UNCHANGED <<sinks, captures, adapter>>
  BY <1>6, <1>7, <1>8
<1> QED BY <1>2, <1>5, <1>8 DEF SetUp, C

LEMMA SinkStoppedAfterFailureShape ==
    ASSUME Serial, IInv, IInv', Shape, SinkStoppedAfterFailure(Only) PROVE Shape'
<1>1. C.pc = "sink_fail"
  BY DEF SinkStoppedAfterFailure, Wakes, C
<1>2. PICK x \in Sessions : x = C.s
  BY <1>1, StartHas DEF StartPoints
<1>3. /\ state[x] = STARTING /\ Fits(x) /\ Free(x) /\ Counted(x)
      /\ \A r \in Sessions : r # x => Resting(r)
  BY <1>1, <1>2, StartHas DEF StartPoints, Shape, StartAt, Sess
<1>4. UNCHANGED <<state, monitor, mediaVars, adapter, sinks, captures>>
  BY DEF SinkStoppedAfterFailure, sessionVars
<1>5. sink' = [sink EXCEPT ![x] = IF @ = "stopping" THEN "stopped" ELSE @]
  BY <1>2 DEF SinkStoppedAfterFailure, C
<1>6. \A r \in Sessions : SameMedia(r)
  BY <1>4, MediaSame DEF mediaVars
<1>7. \A r \in Sessions : r # x => SameSource(r)
  BY <1>4, <1>5 DEF SameSource, IInv, SourceInv
<1>8. Elsewhere(x)
  BY <1>3, <1>4, <1>6, <1>7 DEF Elsewhere, Same
<1>9. sink[x] # "live" /\ sink'[x] # "live"
  BY <1>3, <1>5 DEF Free, IInv, SourceInv
<1>10. Counted(x)'
  BY <1>3, <1>4, <1>9 DEF Counted
<1>11. Own(x)'
  BY <1>3, <1>6 DEF Fits, Own, SameMedia
<1>12. C'.pc = "cleanup" /\ C'.s = x
  BY <1>2, MovedTo DEF SinkStoppedAfterFailure
<1> QED BY <1>3, <1>4, <1>8, <1>10, <1>11, <1>12, OnStart DEF StartPoints

LEMMA PipelineStartedShape ==
    ASSUME Serial, IInv, IInv', Shape, PipelineStarted(Only) PROVE Shape'
<1>1. C \in Coroutine /\ C.pc = "pipe_start"
  BY Facts DEF PipelineStarted, Wakes, C
<1>2. PICK x \in Sessions : x = C.s
  BY <1>1, StartHas DEF StartPoints
<1>3. /\ state[x] = STARTING /\ Fits(x) /\ Counted(x)
      /\ Fed(x) /\ url[x] /\ pipeOf[x] = C.pipe /\ Unfed(x)
      /\ \A r \in Sessions : r # x => Resting(r)
  BY <1>1, <1>2, StartHas DEF StartPoints, Shape, StartAt, Sess
<1>4. UNCHANGED <<state, monitor, pipeOf, published, url, sourceVars>>
  BY DEF PipelineStarted, sessionVars
<1>5. \A r \in Sessions : SameSource(r)
  BY <1>4, SourceSame
<1>6. PICK p \in Pipelines : p = pipeOf[x]
  BY <1>3 DEF Fed, IInv, MediaInv
<1>7. pipe[p].of = x /\ pipe \in [Pipelines -> [st : PipeState, of : Sessions]]
  BY <1>3, <1>6 DEF Fed, Fits, Own, IInv, MediaInv
<1>8. Counted(x)'
  BY <1>3, <1>5 DEF Counted, SameSource
<1>9. CASE /\ pipe' = [pipe EXCEPT ![p].st = "running"]
           /\ Wait(Only, [C EXCEPT !.pc = "prepare", !.pipe = None])
  <2>1. /\ pipe'[p].st = "running" /\ pipe'[p].of = x
        /\ \A q \in Pipelines : q # p => pipe'[q] = pipe[q]
    BY <1>7, <1>9
  <2>2. ASSUME NEW r \in Sessions, r # x PROVE SameMedia(r)
    <3>1. \A q \in Pipelines : Encodes(r, q)' <=> Encodes(r, q)
      BY <1>7, <2>1, <2>2 DEF Encodes
    <3>2. pipeOf[r] # None => pipe'[pipeOf[r]].of = pipe[pipeOf[r]].of
      BY <1>7, <2>1 DEF IInv, MediaInv
    <3> QED BY <1>4, <3>1, <3>2 DEF SameMedia
  <2>3. Elsewhere(x)
    BY <1>3, <1>4, <1>5, <2>2 DEF Elsewhere, Same
  <2>4. Own(x)'
    BY <1>3, <1>4, <1>6, <2>1 DEF Own, Unfed, Encodes
  <2>5. Fed(x)'
    BY <1>3, <1>4, <1>5 DEF Fed, SameSource
  <2>6. Served(x)'
    BY <1>4, <1>6, <2>1, <2>5 DEF Served, Encodes
  <2>7. C'.pc = "prepare" /\ C'.s = x
    BY <1>1, <1>2, <1>9, Turned DEF Coroutine
  <2> QED BY <1>3, <1>4, <1>8, <2>3, <2>4, <2>6, <2>7, OnStart DEF StartPoints
<1>10. CASE pipe' = pipe /\ Run(Only, [C EXCEPT !.pc = "cleanup", !.pipe = None])
  <2>1. \A r \in Sessions : SameMedia(r)
    BY <1>4, <1>10, MediaSame
  <2>2. Elsewhere(x)
    BY <1>3, <1>4, <1>5, <2>1 DEF Elsewhere, Same
  <2>3. Own(x)'
    BY <1>3, <1>5, <2>1, SameHolds
  <2>4. C'.pc = "cleanup" /\ C'.s = x
    BY <1>1, <1>2, <1>10, Turned DEF Coroutine
  <2> QED BY <1>3, <1>4, <1>8, <2>2, <2>3, <2>4, OnStart DEF StartPoints
<1> QED BY <1>3, <1>6, <1>9, <1>10 DEF PipelineStarted, C

\* The renderer is prepared and plays: nothing else changes.
LEMMA PlaybackShape ==
    ASSUME Serial, IInv, IInv', Shape, C.pc \in {"prepare", "play_stream"},
           TargetPrepared(Only) \/ StreamPlayed(Only)
    PROVE  Shape'
<1>1. PICK x \in Sessions : x = C.s
  BY StartHas DEF StartPoints
<1>2. /\ state[x] = STARTING /\ Fits(x) /\ Counted(x) /\ Served(x) /\ url[x]
      /\ \A r \in Sessions : r # x => Resting(r)
  BY <1>1, StartHas DEF StartPoints, Shape, StartAt, Sess
<1>3. UNCHANGED <<sessionVars, mediaVars, sourceVars, monitor>>
  BY DEF TargetPrepared, StreamPlayed, PlayPass
<1>4. \A r \in Sessions : SameMedia(r) /\ SameSource(r)
  BY <1>3, MediaSame, SourceSame DEF mediaVars
<1>5. Elsewhere(x)
  BY <1>2, <1>3, <1>4 DEF Elsewhere, Same, sessionVars
<1>6. Counted(x)' /\ Own(x)' /\ Served(x)'
  BY <1>2, <1>4, SameHolds
<1>7. C'.pc \in {"cleanup", "play_stream", "started"} /\ C'.s = x
  <2>1. \E pc \in {"cleanup", "play_stream", "started"} : Goto(Only, pc) \/ Await(Only, pc)
    BY DEF TargetPrepared, StreamPlayed, Wakes, C
  <2> QED BY <1>1, <2>1, MovedTo
<1>8. state'[x] = STARTING /\ url'[x]
  BY <1>2, <1>3 DEF sessionVars, mediaVars
<1> QED BY <1>5, <1>6, <1>7, <1>8, OnStart DEF StartPoints

LEMMA StartedShape ==
    ASSUME Serial, IInv, IInv', Shape, Started(Only) PROVE Shape'
<1>1. C.pc = "started"
  BY DEF Started, At, C
<1>2. PICK x \in Sessions : x = C.s
  BY <1>1, StartHas DEF StartPoints
<1>3. /\ state[x] = STARTING /\ Fits(x) /\ Served(x)
      /\ \A r \in Sessions : r # x => Resting(r)
  BY <1>1, <1>2, StartHas DEF StartPoints, Shape, StartAt, Sess
<1>4. CanMove(x, PLAYING)
  BY <1>3, CanMoves
<1>5. Move(x, PLAYING) /\ monitor' = [monitor EXCEPT ![x] = TRUE] /\ Goto(Only, "start_return")
      /\ UNCHANGED <<mediaVars, sourceVars>>
  BY <1>2, <1>4 DEF Started, C
<1>6. \A r \in Sessions : SameMedia(r) /\ SameSource(r)
  BY <1>5, MediaSame, SourceSame DEF mediaVars
<1>7. /\ state'[x] = PLAYING /\ monitor'[x]
      /\ \A r \in Sessions : r # x => state'[r] = state[r] /\ monitor'[r] = monitor[r]
  BY <1>5 DEF Move, IInv, SessionInv, OutsideInv
<1>8. Elsewhere(x)
  BY <1>3, <1>6, <1>7 DEF Elsewhere, Same
<1>9. Counted(x)' /\ Own(x)' /\ Served(x)'
  BY <1>3, <1>6, SameHolds
<1>10. Rested(x)'
  BY <1>7, <1>9 DEF Rested
<1>11. C'.pc = "start_return"
  BY <1>5, MovedTo
<1> QED BY <1>8, <1>9, <1>10, <1>11, OnRest DEF Passive

LEMMA CleanUpShape ==
    ASSUME Serial, IInv, IInv', Shape, CleanUp(Only) PROVE Shape'
<1>1. C \in Coroutine /\ C.pc = "cleanup"
  BY Facts DEF CleanUp, At, C
<1>2. PICK x \in Sessions : x = C.s
  BY <1>1, StartHas DEF StartPoints
<1>3. /\ state[x] = STARTING /\ Fits(x)
      /\ \A r \in Sessions : r # x => Resting(r)
  BY <1>1, <1>2, StartHas DEF StartPoints, Shape, StartAt, Sess
<1>4. /\ UNCHANGED <<state, mediaVars, sourceVars>> /\ monitor' = [monitor EXCEPT ![x] = FALSE]
      /\ Run(Only, [C EXCEPT !.pc = "sinks", !.v = x, !.mode = "cleanup"])
  BY <1>2 DEF CleanUp, sessionVars, C
<1>5. \A r \in Sessions : SameMedia(r) /\ SameSource(r)
  BY <1>4, MediaSame, SourceSame DEF mediaVars
<1>6. Elsewhere(x)
  BY <1>3, <1>4, <1>5 DEF Elsewhere, Same, IInv, OutsideInv
<1>7. Counted(x)' /\ Own(x)'
  BY <1>3, <1>5, SameHolds
<1>8. C'.pc = "sinks" /\ C'.v = x /\ C'.s = x /\ C'.mode = "cleanup"
  BY <1>1, <1>2, <1>4, Turned DEF Coroutine
<1> QED BY <1>3, <1>4, <1>6, <1>7, <1>8, OnRelease DEF ReleasePoints

LEMMA RetryShape ==
    ASSUME Serial, IInv, IInv', Shape, Retry(Only) PROVE Shape'
<1>1. C \in Coroutine /\ C.pc = "retry"
  BY Facts DEF Retry, At, C
<1>2. PICK x \in Sessions : x = C.s
  BY <1>1, StartHas DEF StartPoints
<1>3. /\ state[x] = STARTING /\ Fits(x) /\ Free(x)
      /\ \A r \in Sessions : r # x => Resting(r)
  BY <1>1, <1>2, StartHas DEF StartPoints, Shape, StartAt, Sess
<1>4. UNCHANGED <<state, pipeOf, published, pipe, sourceVars, monitor>>
  BY DEF Retry, sessionVars
<1>5. \A r \in Sessions : SameMedia(r) /\ SameSource(r)
  BY <1>4, MediaSame, SourceSame
<1>6. Elsewhere(x)
  BY <1>3, <1>4, <1>5 DEF Elsewhere, Same
<1>7. Counted(x)' /\ Own(x)' /\ Free(x)'
  BY <1>3, <1>5, SameHolds
<1>8. C'.pc \in {"attempt", "failed"} /\ C'.s = x
  <2>1. \E pc \in {"attempt", "failed"} : \E n :
          Run(Only, [C EXCEPT !.pc = pc, !.tries = n, !.v = None, !.mode = "stop"])
    BY DEF Retry, C
  <2> QED BY <1>1, <1>2, <2>1, Turned DEF Coroutine
<1> QED BY <1>3, <1>4, <1>6, <1>7, <1>8, OnStart DEF StartPoints

LEMMA StartFailedShape ==
    ASSUME Serial, IInv, IInv', Shape, StartFailed(Only) PROVE Shape'
<1>1. C \in Coroutine /\ C.pc = "failed"
  BY Facts DEF StartFailed, At, C
<1>2. PICK x \in Sessions : x = C.s
  BY <1>1, StartHas DEF StartPoints
<1>3. /\ state[x] = STARTING /\ Fits(x)
      /\ \A r \in Sessions : r # x => Resting(r)
  BY <1>1, <1>2, StartHas DEF StartPoints, Shape, StartAt, Sess
<1>4. CanMove(x, FAILED)
  BY <1>3, CanMoves
<1>5. /\ Move(x, FAILED) /\ UNCHANGED <<mediaVars, sourceVars, monitor>>
      /\ Run(Only, [C EXCEPT !.pc = "stop", !.v = x, !.ret = "start_return"])
  BY <1>2, <1>4 DEF StartFailed, C
<1>6. \A r \in Sessions : SameMedia(r) /\ SameSource(r)
  BY <1>5, MediaSame, SourceSame DEF mediaVars
<1>7. state'[x] = FAILED /\ \A r \in Sessions : r # x => state'[r] = state[r]
  BY <1>5 DEF Move, IInv, SessionInv
<1>8. Elsewhere(x)
  BY <1>3, <1>5, <1>6, <1>7 DEF Elsewhere, Same
<1>9. Counted(x)' /\ Own(x)'
  BY <1>3, <1>6, SameHolds
<1>10. C'.pc = "stop" /\ C'.v = x
  BY <1>1, <1>5, Turned DEF Coroutine
<1>11. state'[x] \notin Over
  BY <1>7 DEF Over, Unlisted
<1> QED BY <1>8, <1>9, <1>10, <1>11, OnStop DEF StopPoints

-----------------------------------------------------------------------------
(* stop_session and the release of a media path *)

LEMMA StopHas ==
    ASSUME Serial, IInv, Shape, C.pc \in StopPoints \cup ReleasePoints
    PROVE  /\ C.v \in Sessions /\ Counted(C.v) /\ Own(C.v) /\ Fits(C.v)
           /\ \A r \in Sessions : r # C.v => Resting(r)
<1>1. C.v \in Sessions
  BY Facts DEF Sound, VPoints, StopPoints
<1> QED BY <1>1, WhoRests DEF Shape, Sess, Fits

LEMMA StopShape ==
    ASSUME Serial, IInv, IInv', Shape, Stop(Only) PROVE Shape'
<1>1. C.pc = "stop"
  BY DEF Stop, At, C
<1>2. PICK x \in Sessions : x = C.v
  BY <1>1, StopHas DEF StopPoints
<1>3. /\ Fits(x) /\ Counted(x) /\ (state[x] \in Over => Free(x))
      /\ \A r \in Sessions : r # x => Resting(r)
  BY <1>1, <1>2, StopHas DEF StopPoints, Shape, StopAt
<1>4. UNCHANGED <<mediaVars, sourceVars>>
  BY DEF Stop
<1>5. \A r \in Sessions : SameMedia(r) /\ SameSource(r)
  BY <1>4, MediaSame, SourceSame DEF mediaVars
<1>6. Counted(x)' /\ Own(x)' /\ (Free(x) => Free(x)')
  BY <1>3, <1>5, SameHolds
<1>7. CASE CanMove(x, STOPPING)
  <2>1. /\ Move(x, STOPPING) /\ monitor' = [monitor EXCEPT ![x] = FALSE]
        /\ Await(Only, "stop_inspect")
    BY <1>2, <1>7 DEF Stop, C
  <2>2. /\ state'[x] = STOPPING
        /\ \A r \in Sessions : r # x => state'[r] = state[r] /\ monitor'[r] = monitor[r]
    BY <2>1 DEF Move, IInv, SessionInv, OutsideInv
  <2>3. Elsewhere(x)
    BY <1>3, <1>5, <2>2 DEF Elsewhere, Same
  <2>4. C'.pc = "stop_inspect" /\ C'.v = x
    BY <1>2, <2>1, MovedTo
  <2> QED BY <1>6, <2>2, <2>3, <2>4, OnStop DEF StopPoints
<1>8. CASE ~CanMove(x, STOPPING)
  <2>1. Goto(Only, "stop_return") /\ UNCHANGED <<state, monitor>>
    BY <1>2, <1>8 DEF Stop, C
  <2>2. state[x] \in Over
    BY <1>8, CanMoves DEF IInv, SessionInv, Over
  <2>3. Elsewhere(x)
    BY <1>3, <1>5, <2>1 DEF Elsewhere, Same
  <2>4. Rested(x)'
    BY <1>3, <1>6, <2>1, <2>2 DEF Rested, Over, Unlisted
  <2>5. C'.pc = "stop_return" /\ C'.v = x
    BY <1>2, <2>1, MovedTo
  <2> QED BY <1>6, <2>1, <2>2, <2>3, <2>4, <2>5, OnRest
<1> QED BY <1>7, <1>8

\* The renderer is asked and silenced: nothing else changes.
LEMMA SilencedShape ==
    ASSUME Serial, IInv, IInv', Shape, StopInspected(Only) \/ TargetStopped(Only) PROVE Shape'
<1>1. C \in Coroutine /\ C.pc \in {"stop_inspect", "stop_target"}
  BY Facts DEF StopInspected, TargetStopped, Wakes, C
<1>2. PICK x \in Sessions : x = C.v
  BY <1>1, StopHas DEF StopPoints
<1>3. /\ Fits(x) /\ state[x] = STOPPING
      /\ \A r \in Sessions : r # x => Resting(r)
  BY <1>1, <1>2, StopHas DEF StopPoints, Shape, StopAt
<1>4. UNCHANGED <<state, monitor, mediaVars, sourceVars>>
  BY DEF StopInspected, TargetStopped, PlayPass, sessionVars
<1>5. \A r \in Sessions : SameMedia(r) /\ SameSource(r)
  BY <1>4, MediaSame, SourceSame DEF mediaVars
<1>6. Counted(x)' /\ Own(x)' /\ Elsewhere(x)
  BY <1>3, <1>4, <1>5, SameHolds DEF Elsewhere, Same
<1>7. CASE Await(Only, "stop_target")
  <2>1. C'.pc = "stop_target" /\ C'.v = x
    BY <1>2, <1>7, MovedTo
  <2> QED BY <1>3, <1>4, <1>6, <2>1, OnStop DEF StopPoints
<1>8. CASE Run(Only, [C EXCEPT !.pc = "sinks", !.mode = "stop"])
  <2>1. C'.pc = "sinks" /\ C'.v = x /\ C'.mode = "stop"
    BY <1>1, <1>2, <1>8, Turned DEF Coroutine
  <2> QED BY <1>3, <1>4, <1>6, <2>1, OnRelease DEF ReleasePoints
<1> QED BY <1>7, <1>8 DEF StopInspected, TargetStopped, C

\* What a release knows of its session, by its caller.
LEMMA ReleaseHas ==
    ASSUME Serial, IInv, Shape, C.pc \in ReleasePoints
    PROVE  /\ C.v \in Sessions /\ Counted(C.v) /\ Own(C.v) /\ Fits(C.v)
           /\ \A r \in Sessions : r # C.v => Resting(r)
           /\ C.mode = "cleanup" => C.s = C.v /\ state[C.v] = STARTING
           /\ C.mode = "stop" => state[C.v] = STOPPING
           /\ C.mode = "quiesce" => state[C.v] = QUIESCED
           /\ C.mode \in {"cleanup", "stop", "quiesce"} /\ C \in Coroutine
BY StopHas, Facts DEF Shape, ReleaseAt, Coroutine

\* A release goes on, and leaves the state alone.
LEMMA ReleaseGoesOn ==
    ASSUME Serial, IInv, Shape, C.pc \in ReleasePoints, NEW x \in Sessions, x = C.v, Elsewhere(x),
           UNCHANGED state, NEW pc \in {"sink_stop", "release_source"},
           Goto(Only, pc) \/ Await(Only, pc), Counted(x)', Own(x)',
           pc = "sink_stop" => sink'[x] = "stopping",
           pc = "release_source" => sink'[x] # "live"
    PROVE  Shape'
<1>1. C'.pc = pc /\ C'.v = x /\ C'.s = C.s /\ C'.mode = C.mode
  BY MovedTo
<1> QED BY <1>1, ReleaseHas, OnRelease DEF ReleasePoints

LEMMA ReleaseSinkShape ==
    ASSUME Serial, IInv, IInv', Shape, ReleaseSink(Only) PROVE Shape'
<1>1. C.pc = "sinks"
  BY DEF ReleaseSink, At, C
<1>2. PICK x \in Sessions : x = C.v
  BY <1>1, ReleaseHas DEF ReleasePoints
<1>3. Counted(x) /\ Own(x) /\ \A r \in Sessions : r # x => Resting(r)
  BY <1>1, <1>2, ReleaseHas DEF ReleasePoints
<1>4. UNCHANGED <<state, monitor, mediaVars, adapter, captures>>
  BY DEF ReleaseSink, sessionVars
<1>5. sinks' = [sinks EXCEPT ![x] = IF sink[x] = "live" THEN @ - 1 ELSE @]
  BY <1>2 DEF ReleaseSink, C
<1>6. \E new \in {"stopping", "none"}, pc \in {"sink_stop", "release_source"} :
        /\ sink' = [sink EXCEPT ![x] = new] /\ (Goto(Only, pc) \/ Await(Only, pc))
        /\ pc = "sink_stop" => new = "stopping"
  BY <1>2 DEF ReleaseSink, C
<1>7. \A r \in Sessions : SameMedia(r)
  BY <1>4, MediaSame DEF mediaVars
<1>8. \A r \in Sessions : r # x => SameSource(r)
  BY <1>4, <1>5, <1>6 DEF SameSource, IInv, SourceInv
<1>9. Elsewhere(x)
  BY <1>3, <1>4, <1>7, <1>8 DEF Elsewhere, Same
<1>10. Own(x)'
  BY <1>3, <1>7 DEF Own, SameMedia
<1>11. sink'[x] \in {"stopping", "none"} /\ sinks'[x] = 0
  BY <1>3, <1>5, <1>6 DEF IInv, SourceInv, Counted
<1>12. Counted(x)'
  BY <1>3, <1>4, <1>11 DEF Counted
<1>13. PICK pc \in {"sink_stop", "release_source"} :
        /\ Goto(Only, pc) \/ Await(Only, pc)
        /\ pc = "sink_stop" => sink'[x] = "stopping"
  BY <1>6 DEF IInv, SourceInv
<1> QED BY <1>1, <1>2, <1>4, <1>9, <1>10, <1>11, <1>12, <1>13, ReleaseGoesOn DEF ReleasePoints

LEMMA SinkStoppedShape ==
    ASSUME Serial, IInv, IInv', Shape, SinkStopped(Only) PROVE Shape'
<1>1. C.pc = "sink_stop"
  BY DEF SinkStopped, Wakes, C
<1>2. PICK x \in Sessions : x = C.v
  BY <1>1, ReleaseHas DEF ReleasePoints
<1>3. Counted(x) /\ Own(x) /\ sink[x] = "stopping" /\ \A r \in Sessions : r # x => Resting(r)
  BY <1>1, <1>2, ReleaseHas DEF ReleasePoints, Shape, ReleaseAt
<1>4. /\ UNCHANGED <<state, monitor, mediaVars, adapter, sinks, captures>>
      /\ sink' = [sink EXCEPT ![x] = "none"] /\ Goto(Only, "release_source")
  BY <1>2, <1>3 DEF SinkStopped, sessionVars, C
<1>5. \A r \in Sessions : SameMedia(r)
  BY <1>4, MediaSame DEF mediaVars
<1>6. \A r \in Sessions : r # x => SameSource(r)
  BY <1>4 DEF SameSource, IInv, SourceInv
<1>7. Elsewhere(x)
  BY <1>3, <1>4, <1>5, <1>6 DEF Elsewhere, Same
<1>8. sink'[x] = "none"
  BY <1>4 DEF IInv, SourceInv
<1>9. Counted(x)' /\ Own(x)'
  BY <1>3, <1>4, <1>5, <1>8 DEF Counted, Own, SameMedia
<1> QED BY <1>1, <1>2, <1>4, <1>7, <1>8, <1>9, ReleaseGoesOn DEF ReleasePoints

\* After the pipeline has been stopped: session x holds nothing any more.
LEMMA GoneShape ==
    ASSUME Serial, IInv, IInv', Shape, C.pc \in ReleasePoints, NEW x \in Sessions, x = C.v,
           \A r \in Sessions : r # x => SameMedia(r) /\ SameSource(r),
           UNCHANGED <<state, monitor>>, NEW p, PipelineGone(Only, p),
           Counted(x)', Own(x)', Free(x)'
    PROVE  Shape'
<1>1. /\ C.mode = "cleanup" => C.s = x /\ state[x] = STARTING
      /\ C.mode = "stop" => state[x] = STOPPING
      /\ C.mode = "quiesce" => state[x] = QUIESCED
      /\ C.mode \in {"cleanup", "stop", "quiesce"} /\ C \in Coroutine
      /\ \A r \in Sessions : r # x => Resting(r)
  BY ReleaseHas
<1>2. Elsewhere(x)
  BY <1>1 DEF Elsewhere, Same
<1>3. CASE C.mode = "stop" /\ Run(Only, [C EXCEPT !.pc = "stop_done", !.pipe = None])
  <2>1. C'.pc = "stop_done" /\ C'.v = x
    BY <1>1, <1>3, Turned DEF Coroutine
  <2> QED BY <1>1, <1>2, <1>3, <2>1, OnStop DEF StopPoints
<1>4. CASE C.mode = "cleanup" /\ Run(Only, [C EXCEPT !.pc = "retry", !.pipe = None])
  <2>1. C'.pc = "retry" /\ C'.s = x
    BY <1>1, <1>4, Turned DEF Coroutine
  <2> QED BY <1>1, <1>2, <1>4, <2>1, OnStart DEF StartPoints
<1>5. CASE C.mode = "quiesce" /\ Finish(Only)
  <2>1. C'.pc = "idle"
    BY <1>5, Finished
  <2>2. Rested(x)'
    BY <1>1, <1>5 DEF Rested
  <2> QED BY <1>2, <2>1, <2>2, OnRest DEF Passive
<1> QED BY <1>1, <1>3, <1>4, <1>5 DEF PipelineGone, C

LEMMA ReleaseSourceShape ==
    ASSUME Serial, IInv, IInv', Shape, ReleaseSource(Only) PROVE Shape'
<1>1. C \in Coroutine /\ C.pc = "release_source"
  BY Facts DEF ReleaseSource, At, C
<1>2. PICK x \in Sessions : x = C.v
  BY <1>1, ReleaseHas DEF ReleasePoints
<1>3. PICK p \in Pipelines \cup {None} : p = pipeOf[x]
  BY DEF IInv, MediaInv
<1>4. /\ Counted(x) /\ Own(x) /\ sink[x] # "live"
      /\ \A r \in Sessions : r # x => Resting(r)
  BY <1>1, <1>2, ReleaseHas DEF ReleasePoints, Shape, ReleaseAt
<1>5. /\ UNCHANGED <<state, monitor, sink, sinks>>
      /\ captures' = [captures EXCEPT ![x] = IF adapter[x] THEN @ - 1 ELSE @]
      /\ adapter' = [adapter EXCEPT ![x] = FALSE]
  BY <1>2 DEF ReleaseSource, sessionVars, C
<1>6. \A r \in Sessions : r # x => SameSource(r)
  BY <1>5 DEF SameSource, IInv, SourceInv
<1>7. ~adapter'[x] /\ captures'[x] = 0
  BY <1>4, <1>5 DEF IInv, SourceInv, Counted
<1>8. Counted(x)' /\ sink'[x] # "live"
  BY <1>4, <1>5, <1>7 DEF Counted
<1>9. CASE (p = None \/ StopsAtOnce(p)) /\ PipelineGone(Only, p) /\ UNCHANGED pipe
  <2>1. Unfed(x)
    BY <1>3, <1>4, <1>9 DEF Own, Unfed, Encodes, StopsAtOnce, None, Pipelines
  <2>2. C.mode \in {"cleanup", "stop", "quiesce"}
    BY <1>1 DEF Coroutine
  <2>3. /\ pipeOf' = pipeOf \/ pipeOf' = [pipeOf EXCEPT ![x] = None]
        /\ published' = published \/ published' = [published EXCEPT ![x] = None]
    BY <1>2, <1>9, <2>2 DEF PipelineGone, C
  <2>4. (\A r \in Sessions : r # x => SameMedia(r)) /\ Own(x)' /\ Unfed(x)'
    <3>1. /\ pipeOf \in [Sessions -> Pipelines \cup {None}]
          /\ published \in [Sessions -> Pipelines \cup {None}]
      BY DEF IInv, MediaInv
    <3>2. \A r \in Sessions, q \in Pipelines : Encodes(r, q)' <=> Encodes(r, q)
      BY <1>9 DEF Encodes
    <3>3. \A r \in Sessions : r # x => pipeOf'[r] = pipeOf[r] /\ published'[r] = published[r]
      BY <2>3, <3>1
    <3>4. \A r \in Sessions : r # x => SameMedia(r)
      BY <1>9, <3>2, <3>3 DEF SameMedia
    <3>5. Unfed(x)'
      BY <2>1, <3>2 DEF Unfed
    <3>6. pipeOf'[x] # None => pipeOf'[x] = pipeOf[x]
      BY <2>3, <3>1
    <3>7. Own(x)'
      BY <1>4, <1>9, <3>5, <3>6 DEF Own, Unfed
    <3> QED BY <3>4, <3>5, <3>7
  <2>5. Free(x)'
    BY <1>7, <1>8, <2>4 DEF Free
  <2> QED BY <1>1, <1>2, <1>5, <1>6, <1>8, <1>9, <2>4, <2>5, GoneShape DEF ReleasePoints
<1>10. CASE /\ p # None /\ ~StopsAtOnce(p) /\ BeginPipeStop(p)
            /\ Wait(Only, [C EXCEPT !.pc = "pipe_stop", !.pipe = p])
            /\ UNCHANGED <<pipeOf, published>>
  <2>1. p \in Pipelines /\ pipe[p].of = x
    BY <1>3, <1>4, <1>10 DEF Own
  <2>2. (\A r \in Sessions : r # x => SameMedia(r)) /\ Own(x)'
        /\ \A q \in Pipelines : Encodes(x, q)' => Encodes(x, q)
    BY <1>10, <2>1, PipeStops
  <2>3. pipe'[p].st # "running"
    BY <1>10, <2>1 DEF BeginPipeStop, IInv, MediaInv
  <2>4. Unfed(x)'
    BY <1>3, <1>4, <2>2, <2>3 DEF Own, Unfed, Encodes
  <2>5. Free(x)'
    BY <1>7, <1>8, <2>4 DEF Free
  <2>6. Elsewhere(x)
    BY <1>4, <1>5, <1>6, <2>2 DEF Elsewhere, Same
  <2>7. C'.pc = "pipe_stop" /\ C'.v = x /\ C'.s = C.s /\ C'.mode = C.mode
    BY <1>1, <1>2, <1>10, Turned DEF Coroutine
  <2>8. /\ C.mode = "cleanup" => C.s = x /\ state'[x] = STARTING
        /\ C.mode = "stop" => state'[x] = STOPPING
        /\ C.mode = "quiesce" => state'[x] = QUIESCED
    BY <1>1, <1>2, <1>5, ReleaseHas DEF ReleasePoints
  <2> QED BY <1>8, <2>2, <2>5, <2>6, <2>7, <2>8, OnRelease DEF ReleasePoints
<1> QED BY <1>2, <1>3, <1>9, <1>10 DEF ReleaseSource, C

LEMMA PipelineStoppedShape ==
    ASSUME Serial, IInv, IInv', Shape, PipelineStopped(Only) PROVE Shape'
<1>1. C \in Coroutine /\ C.pc = "pipe_stop"
  BY Facts DEF PipelineStopped, Wakes, C
<1>2. PICK p \in Pipelines : p = C.pipe
  BY <1>1, Facts DEF Sound, PipePoints
<1>3. PICK x \in Sessions : x = C.v
  BY <1>1, ReleaseHas DEF ReleasePoints
<1>4. /\ Counted(x) /\ Own(x) /\ Fits(x) /\ Free(x)
      /\ \A r \in Sessions : r # x => Resting(r)
      /\ C.mode = "cleanup" => C.s = x /\ state[x] = STARTING
      /\ C.mode = "stop" => state[x] = STOPPING
      /\ C.mode = "quiesce" => state[x] = QUIESCED
      /\ C.mode \in {"cleanup", "stop", "quiesce"}
  BY <1>1, <1>3, ReleaseHas DEF ReleasePoints, Shape, ReleaseAt
<1>5. UNCHANGED <<state, monitor, sourceVars>>
  BY DEF PipelineStopped, sessionVars
<1>6. \A r \in Sessions : SameSource(r)
  BY <1>5, SourceSame
<1>7. CASE Raise(Only) /\ UNCHANGED <<pipe, pipeOf, published>>
  <2>1. \A r \in Sessions : SameMedia(r)
    BY <1>7, MediaSame
  <2>2. Counted(x)' /\ Own(x)' /\ Free(x)' /\ Elsewhere(x)
    BY <1>4, <1>5, <1>6, <2>1, SameHolds DEF Elsewhere, Same
  <2>3. CASE C.mode = "cleanup"
    <3>1. Run(Only, [C EXCEPT !.pc = "failed", !.v = None, !.mode = "stop", !.pipe = None])
      BY <1>7, <2>3 DEF Raise, C
    <3>2. C'.pc = "failed" /\ C'.s = x
      BY <1>1, <1>4, <2>3, <3>1, Turned DEF Coroutine
    <3> QED BY <1>4, <1>5, <2>2, <2>3, <3>2, OnStart DEF StartPoints
  <2>4. CASE C.mode # "cleanup"
    <3>1. Finish(Only)
      BY <1>7, <2>4 DEF Raise, C
    <3>2. C'.pc = "idle"
      BY <3>1, Finished
    <3>3. Rested(x)'
      BY <1>4, <1>5, <2>2, <2>4 DEF Rested
    <3> QED BY <2>2, <3>2, <3>3, OnRest DEF Passive
  <2> QED BY <2>3, <2>4
<1>8. CASE EndPipeStop(p) /\ PipelineGone(Only, p)
  <2>1. /\ pipeOf' = pipeOf \/ pipeOf' = [pipeOf EXCEPT ![x] = None]
        /\ published' = published \/ published' = [published EXCEPT ![x] = None]
    BY <1>3, <1>4, <1>8 DEF PipelineGone, C
  <2>2. (\A r \in Sessions : r # x => SameMedia(r)) /\ Own(x)' /\ Unfed(x)'
    BY <1>4, <1>8, <2>1, PipeStops DEF Free
  <2>3. Counted(x)' /\ Free(x)'
    BY <1>4, <1>6, <2>2 DEF Counted, Free, SameSource
  <2> QED BY <1>1, <1>3, <1>5, <1>6, <1>8, <2>2, <2>3, GoneShape DEF ReleasePoints
<1> QED BY <1>2, <1>7, <1>8 DEF PipelineStopped, C

LEMMA StopDoneShape ==
    ASSUME Serial, IInv, IInv', Shape, StopDone(Only) PROVE Shape'
<1>1. C.pc = "stop_done"
  BY DEF StopDone, At, C
<1>2. PICK x \in Sessions : x = C.v
  BY <1>1, StopHas DEF StopPoints
<1>3. /\ Fits(x) /\ Free(x) /\ state[x] = STOPPING
      /\ \A r \in Sessions : r # x => Resting(r)
  BY <1>1, <1>2, StopHas DEF StopPoints, Shape, StopAt
<1>4. CanMove(x, STOPPED)
  BY <1>3, CanMoves
<1>5. /\ Move(x, STOPPED) /\ UNCHANGED <<mediaVars, sourceVars, monitor>>
      /\ Goto(Only, "stop_return")
  BY <1>2, <1>4 DEF StopDone, C
<1>6. \A r \in Sessions : SameMedia(r) /\ SameSource(r)
  BY <1>5, MediaSame, SourceSame DEF mediaVars
<1>7. state'[x] = STOPPED /\ \A r \in Sessions : r # x => state'[r] = state[r]
  BY <1>5 DEF Move, IInv, SessionInv
<1>8. Elsewhere(x)
  BY <1>3, <1>5, <1>6, <1>7 DEF Elsewhere, Same
<1>9. Counted(x)' /\ Own(x)' /\ Free(x)'
  BY <1>3, <1>6, SameHolds
<1>10. Rested(x)' /\ state'[x] \in Over
  BY <1>7, <1>9 DEF Rested, Over
<1>11. C'.pc = "stop_return" /\ C'.v = x
  BY <1>2, <1>5, MovedTo
<1> QED BY <1>8, <1>9, <1>10, <1>11, OnRest

LEMMA StopReturnShape ==
    ASSUME Serial, IInv, IInv', Shape, StopReturn(Only) PROVE Shape'
<1>1. C \in Coroutine /\ C.pc = "stop_return"
  BY Facts DEF StopReturn, At, C
<1>2. PICK x \in Sessions : x = C.v
  BY <1>1, Facts DEF Sound, VPoints
<1>3. \A r \in Sessions : Resting(r)
  BY <1>1, WhoRests
<1>4. Fits(x) /\ Rested(x) /\ state[x] \in Over
  BY <1>1, <1>2, <1>3 DEF Shape, StopAt, Sess, Fits
<1>5. UNCHANGED <<mediaVars, sourceVars, monitor>>
  BY DEF StopReturn
<1>6. C.ret \in {"done", "play_create", "create_insert", "create_return", "incumbents",
                 "start_return"}
  BY <1>1 DEF Coroutine
<1>7. CASE UNCHANGED state /\ C.ret \in {"create_return", "start_return", "done"}
  <2>1. UNCHANGED Data
    BY <1>5, <1>7 DEF Data, mediaVars, sourceVars
  <2>2. CASE Created(Only, x, "start", "done")
    BY <1>1, <2>1, <2>2, Finished, Begun, Passes DEF Created, Passive
  <2>3. CASE Run(Only, [C EXCEPT !.pc = "start_return", !.v = None, !.ret = "done"])
    <3>1. C'.pc = "start_return"
      BY <1>1, <2>3, Turned DEF Coroutine
    <3> QED BY <1>1, <2>1, <3>1, Passes DEF Passive
  <2>4. CASE Finish(Only)
    BY <1>1, <2>1, <2>4, Finished, Passes DEF Passive
  <2> QED BY <1>2, <1>7, <2>2, <2>3, <2>4 DEF StopReturn, C
<1>8. CASE MoveIfValid(x, SUPERSEDED) /\ C.ret \in {"play_create", "create_insert", "incumbents"}
  <2>1. \E pc \in {"create", "insert", "incumbents"} : \E todo :
          \/ Run(Only, [C EXCEPT !.pc = pc, !.v = None, !.ret = "done"])
          \/ Run(Only, [C EXCEPT !.pc = pc, !.todo = todo, !.v = None, !.ret = "done"])
    BY <1>8 DEF StopReturn, C
  <2>2. C'.pc \in {"create", "insert", "incumbents"}
    BY <1>1, <2>1, Turned DEF Coroutine
  <2>3. \A r \in Sessions : SameMedia(r) /\ SameSource(r)
    BY <1>5, MediaSame, SourceSame DEF mediaVars
  <2>4. state'[x] \in Over /\ \A r \in Sessions : r # x => state'[r] = state[r]
    BY <1>4, <1>8 DEF MoveIfValid, IInv, SessionInv, Over
  <2>5. Elsewhere(x)
    BY <1>3, <1>5, <2>3, <2>4 DEF Elsewhere, Same
  <2>6. Free(x)
    BY <1>4 DEF Rested, Over, Unlisted
  <2>7. Counted(x)' /\ Own(x)' /\ Free(x)'
    BY <1>4, <2>3, <2>6, SameHolds
  <2>8. Rested(x)'
    BY <2>4, <2>7 DEF Rested, Over, Unlisted
  <2> QED BY <2>2, <2>5, <2>7, <2>8, OnRest DEF Passive
<1> QED BY <1>2, <1>6, <1>7, <1>8 DEF StopReturn, C

-----------------------------------------------------------------------------
(* Creation, recovery and the background *)

LEMMA InsertShape ==
    ASSUME Serial, IInv, IInv', Shape, Insert(Only) PROVE Shape'
<1>1. C \in Coroutine /\ C.pc = "insert"
  BY Facts DEF Insert, At, C
<1>2. \A r \in Sessions : Resting(r)
  BY <1>1, WhoRests DEF Passive
<1>3. PICK x \in Sessions, old \in SUBSET Sessions :
        /\ state[x] = ABSENT
        /\ \A o \in old : state[o] \in {SUPERSEDED, STOPPED, FAILED}
        /\ state' = [r \in Sessions |-> IF r = x THEN CREATED
                                        ELSE IF r \in old THEN PRUNED ELSE state[r]]
  BY InsertState, Facts
<1>4. UNCHANGED <<mediaVars, sourceVars, monitor>>
  BY DEF Insert
<1>5. \A r \in Sessions : SameMedia(r) /\ SameSource(r)
  BY <1>4, MediaSame, SourceSame DEF mediaVars
<1>6. ASSUME NEW r \in Sessions PROVE Fits(r)'
  <2>1. Fits(r) /\ Rested(r)
    BY <1>2 DEF Shape, Sess, Fits
  <2>2. /\ Counted(r)' /\ Own(r)' /\ (Free(r) => Free(r)') /\ (Served(r) => Served(r)')
    BY <1>5, <2>1, SameHolds
  <2>3. CASE state'[r] = state[r]
    BY <1>4, <2>1, <2>2, <2>3 DEF Rested, Fits
  <2>4. CASE state'[r] \in {CREATED, PRUNED} /\ state[r] \in {ABSENT, SUPERSEDED, STOPPED, FAILED}
    BY <2>1, <2>2, <2>4 DEF Rested, Fits
  <2> QED BY <1>3, <2>3, <2>4
<1>7. C'.pc \in {"idle", "start"}
  <2>1. ASSUME NEW s, Created(Only, s, "start", "done") PROVE C'.pc \in {"idle", "start"}
    BY <2>1, Finished, Begun DEF Created
  <2> QED BY <2>1 DEF Insert
<1>8. StartAt' /\ ReleaseAt' /\ StopAt'
  BY <1>7 DEF StartAt, ReleaseAt, StopAt, StartPoints, ReleasePoints
<1> QED BY <1>6, <1>8 DEF Shape, Sess

LEMMA CallRecoverShape ==
    ASSUME Serial, IInv, IInv', Shape, CallRecover(Only) PROVE Shape'
<1>1. PICK x \in Sessions :
        /\ C.pc = "idle" /\ state[x] # DEGRADED /\ CanMove(x, HEALING) /\ Move(x, HEALING)
        /\ Wait(Only, [Idle EXCEPT !.pc = "heal_target", !.s = x, !.api = TRUE])
  BY DEF CallRecover, C
<1>2. \A r \in Sessions : Resting(r)
  BY <1>1, WhoRests DEF Passive
<1>3. UNCHANGED <<mediaVars, sourceVars, monitor>>
  BY DEF CallRecover
<1>4. \A r \in Sessions : SameMedia(r) /\ SameSource(r)
  BY <1>3, MediaSame, SourceSame DEF mediaVars
<1>5. Fits(x) /\ Rested(x) /\ state[x] = PLAYING
  BY <1>1, <1>2, CanMoves DEF Shape, Sess, Fits, Rested
<1>6. state'[x] = HEALING /\ \A r \in Sessions : r # x => state'[r] = state[r]
  BY <1>1 DEF Move, IInv, SessionInv
<1>7. Elsewhere(x)
  BY <1>2, <1>3, <1>4, <1>6 DEF Elsewhere, Same
<1>8. Counted(x)' /\ Own(x)' /\ Served(x)'
  BY <1>4, <1>5, SameHolds DEF Rested
<1>9. Rested(x)'
  BY <1>3, <1>5, <1>6, <1>8 DEF Rested
<1>10. C'.pc = "heal_target" /\ C'.s = x
  BY <1>1, Turned DEF Idle
<1> QED BY <1>6, <1>7, <1>8, <1>9, <1>10, OnRest

LEMMA TargetHealedShape ==
    ASSUME Serial, IInv, IInv', Shape, TargetHealed(Only) PROVE Shape'
<1>1. C.pc = "heal_target" /\ C \in Coroutine
  BY Facts DEF TargetHealed, Wakes, C
<1>2. PICK x \in Sessions : x = C.s
  BY <1>1, Facts DEF Sound, SPoints
<1>3. \A r \in Sessions : Resting(r)
  BY <1>1, WhoRests
<1>4. Fits(x) /\ Rested(x) /\ state[x] = HEALING
  BY <1>1, <1>2, <1>3 DEF Shape, StopAt, Sess, Fits
<1>5. UNCHANGED <<mediaVars, sourceVars, monitor>> /\ Finish(Only)
  BY DEF TargetHealed
<1>6. state' = [state EXCEPT ![x] = PLAYING]
  <2>1. PICK ok \in Outcome("renderer") :
          state' = IF ok /\ CanMove(x, PLAYING) THEN [state EXCEPT ![x] = PLAYING]
                   ELSE IF CanMove(x, FAILED) THEN [state EXCEPT ![x] = FAILED]
                   ELSE state
    BY <1>2 DEF TargetHealed, C
  <2>2. ok = TRUE
    BY Facts
  <2>3. CanMove(x, PLAYING)
    BY <1>4, CanMoves
  <2> QED BY <2>1, <2>2, <2>3
<1>7. state'[x] = PLAYING /\ \A r \in Sessions : r # x => state'[r] = state[r]
  BY <1>6 DEF IInv, SessionInv
<1>8. \A r \in Sessions : SameMedia(r) /\ SameSource(r)
  BY <1>5, MediaSame, SourceSame DEF mediaVars
<1>9. Elsewhere(x)
  BY <1>3, <1>5, <1>7, <1>8 DEF Elsewhere, Same
<1>10. Counted(x)' /\ Own(x)' /\ Served(x)'
  BY <1>4, <1>8, SameHolds DEF Rested
<1>11. Rested(x)'
  BY <1>4, <1>5, <1>7, <1>10 DEF Rested
<1>12. C'.pc = "idle"
  BY <1>5, Finished
<1> QED BY <1>9, <1>10, <1>11, <1>12, OnRest DEF Passive

LEMMA Stutters ==
    ASSUME Serial, IInv, Shape, UNCHANGED <<state, mediaVars, sourceVars, task>>,
           \A r \in Sessions : monitor'[r] = monitor[r] \/ state[r] \in Ended \cup Unlisted
    PROVE  Shape'
<1>1. \A r \in Sessions : SameMedia(r) /\ SameSource(r)
  BY MediaSame, SourceSame DEF mediaVars
<1>2. C' = C
  BY DEF C
<1>3. ASSUME NEW r \in Sessions PROVE Fits(r)'
  <2>1. /\ Counted(r)' /\ Own(r)' /\ (Free(r) => Free(r)') /\ (Served(r) => Served(r)')
    BY <1>1, SameHolds DEF Shape, Sess
  <2>2. Resting(r)' => Rested(r)
    BY <1>2 DEF Resting, Shape, Sess, Fits
  <2>3. Rested(r) => Rested(r)'
    BY <2>1 DEF Rested, Ended, Unlisted
  <2> QED BY <2>1, <2>2, <2>3 DEF Fits
<1>4. StartAt'
  <2>1. C.pc \in StartPoints => C.s \in Sessions
    BY StartHas
  <2> QED BY <1>1, <1>2, <2>1, SameHolds DEF StartAt, Shape, Sess, mediaVars
<1>5. C.pc \in StopPoints \cup ReleasePoints => C.v \in Sessions
  BY StopHas
<1>6. ReleaseAt'
  BY <1>1, <1>2, <1>5, SameHolds DEF ReleaseAt, Shape, Sess, sourceVars
<1>7. StopAt'
  BY <1>1, <1>2, <1>5, SameHolds DEF StopAt, Shape, Sess, StopPoints
<1> QED BY <1>3, <1>4, <1>6, <1>7 DEF Shape, Sess

\* The background wakes the coroutine to stop session x.
LEMMA WakesToStop ==
    ASSUME Serial, IInv, IInv', Shape, NEW x \in Sessions,
           \E u \in Tasks : Spawn(u, [Idle EXCEPT !.pc = "stop", !.v = x])
    PROVE  /\ \A r \in Sessions : Resting(r)
           /\ Fits(x) /\ Rested(x)
           /\ C'.pc = "stop" /\ C'.v = x
<1>1. C.pc = "idle" /\ Run(Only, [Idle EXCEPT !.pc = "stop", !.v = x])
  BY Facts DEF Spawn, C
<1>2. \A r \in Sessions : Resting(r)
  BY <1>1, WhoRests DEF Passive
<1>3. C'.pc = "stop" /\ C'.v = x
  BY <1>1, Turned DEF Idle
<1> QED BY <1>2, <1>3 DEF Shape, Sess, Fits

LEMMA ErrorShape ==
    ASSUME Serial, IInv, IInv', Shape, NEW x \in Sessions,
           \E u \in Tasks : Spawn(u, [Idle EXCEPT !.pc = "stop", !.v = x]),
           Move(x, FAILED) \/ state' = state,
           \A r \in Sessions : r # x => SameMedia(r) /\ monitor'[r] = monitor[r],
           UNCHANGED sourceVars, Own(x)', state' = state => SameMedia(x)
    PROVE  Shape'
<1>1. /\ \A r \in Sessions : Resting(r)
      /\ Fits(x) /\ Rested(x)
      /\ C'.pc = "stop" /\ C'.v = x
  BY WakesToStop
<1>2. \A r \in Sessions : SameSource(r)
  BY SourceSame
<1>3. \A r \in Sessions : r # x => state'[r] = state[r]
  BY DEF Move, IInv, SessionInv
<1>4. Elsewhere(x)
  BY <1>1, <1>2, <1>3 DEF Elsewhere, Same
<1>5. Counted(x)'
  BY <1>1, <1>2 DEF Fits, Counted, SameSource
<1>6. CASE Move(x, FAILED)
  <2>1. state'[x] \notin Over
    BY <1>6 DEF Move, IInv, SessionInv, Over, Unlisted
  <2> QED BY <1>1, <1>4, <1>5, <2>1, OnStop DEF StopPoints
<1>7. CASE state' = state
  <2>1. Free(x) => Free(x)'
    BY <1>1, <1>2, <1>7, SameHolds
  <2>2. state'[x] \in Over => Free(x)'
    BY <1>1, <1>7, <2>1 DEF Rested, Over, Unlisted
  <2> QED BY <1>1, <1>4, <1>5, <2>2, OnStop DEF StopPoints
<1> QED BY <1>6, <1>7

LEMMA CrashShape ==
    ASSUME Serial, IInv, IInv', Shape, PipelineCrash PROVE Shape'
<1>1. PICK p \in Pipelines :
        /\ pipe[p].st = "running" /\ pipe' = [pipe EXCEPT ![p].st = "crashed"]
        /\ HandleSessionError(pipe[p].of)
  BY DEF PipelineCrash
<1>2. pipe \in [Pipelines -> [st : PipeState, of : Sessions]]
  BY DEF IInv, MediaInv
<1>3. PICK x \in Sessions : x = pipe[p].of
  BY <1>2
<1>4. UNCHANGED <<pipeOf, published, monitor, sourceVars>>
  BY DEF PipelineCrash
<1>5. /\ pipe'[p].st = "crashed" /\ pipe'[p].of = x
      /\ \A q \in Pipelines : q # p => pipe'[q] = pipe[q]
  BY <1>1, <1>2, <1>3
<1>6. ASSUME NEW r \in Sessions, r # x PROVE SameMedia(r)
  <2>1. \A q \in Pipelines : Encodes(r, q)' <=> Encodes(r, q)
    BY <1>3, <1>5, <1>6 DEF Encodes
  <2>2. pipeOf[r] # None => pipe'[pipeOf[r]].of = pipe[pipeOf[r]].of
    BY <1>3, <1>5 DEF IInv, MediaInv
  <2> QED BY <1>4, <2>1, <2>2 DEF SameMedia
<1>7. Fits(x) /\ Encodes(x, p)
  BY <1>1, <1>3 DEF Shape, Sess, Encodes
<1>8. \A q \in Pipelines : Encodes(x, q)' => Encodes(x, q)
  BY <1>3, <1>5 DEF Encodes
<1>9. Own(x)'
  BY <1>3, <1>4, <1>5, <1>7, <1>8 DEF Fits, Own
<1>10. CASE Move(x, FAILED) /\ \E u \in Tasks : Spawn(u, [Idle EXCEPT !.pc = "stop", !.v = x])
  <2>1. state' # state
    <3>1. \A r \in Sessions : Resting(r)
      BY <1>10, WakesToStop
    <3>2. state[x] # FAILED
      BY <3>1 DEF Shape, Sess, Fits, Rested
    <3> QED BY <1>10, <3>2 DEF Move, IInv, SessionInv
  <2> QED BY <1>4, <1>6, <1>9, <1>10, <2>1, ErrorShape
<1>11. CASE UNCHANGED <<state, task>> /\ state[x] \in Ended \cup Unlisted
  <2>1. ~Free(x)
    BY <1>7 DEF Free, Unfed
  <2>2. C' = C
    BY <1>11 DEF C
  <2>3. C.v = x /\ C.pc \in StopPoints \cup ReleasePoints
    <3>1. ~Rested(x)
      BY <1>11, <2>1 DEF Rested, Ended, Unlisted
    <3>2. ~Resting(x)
      BY <3>1 DEF Shape, Sess, Fits
    <3>3. ~(C.s = x /\ C.pc \in StartPoints)
      BY <1>11, StartHas DEF Ended, Unlisted
    <3> QED BY <3>2, <3>3 DEF Resting
  <2>4. \A r \in Sessions : r # x => Resting(r)
    BY <2>3, WhoRests
  <2>5. Elsewhere(x)
    BY <1>4, <1>6, <1>11, <2>4, SourceSame DEF Elsewhere, Same
  <2>6. Counted(x)'
    BY <1>4, <1>7, SourceSame DEF Fits, Counted, SameSource
  <2>7. CASE C.pc \in StopPoints
    BY <1>9, <1>11, <2>1, <2>2, <2>3, <2>5, <2>6, <2>7, OnStop DEF Shape, StopAt, StopPoints
  <2>8. CASE C.pc \in ReleasePoints
    <3>1. /\ C'.mode = "cleanup" => C'.s = x /\ state'[x] = STARTING
          /\ C'.mode = "stop" => state'[x] = STOPPING
          /\ C'.mode = "quiesce" => state'[x] = QUIESCED
      BY <1>11, <2>2, <2>3, <2>8, ReleaseHas
    <3>2. /\ C'.pc = "sink_stop" => sink'[x] = "stopping"
          /\ C'.pc = "release_source" => sink'[x] # "live"
          /\ C'.pc = "pipe_stop" => Free(x)'
      BY <1>4, <2>1, <2>2, <2>3, <2>8 DEF Shape, ReleaseAt, sourceVars
    <3> QED BY <1>9, <2>2, <2>3, <2>5, <2>6, <2>8, <3>1, <3>2, OnRelease
  <2> QED BY <2>3, <2>7, <2>8
<1> QED BY <1>1, <1>3, <1>10, <1>11 DEF HandleSessionError

LEMMA BackgroundShape ==
    ASSUME Serial, IInv, IInv', Shape, Background PROVE Shape'
<1> USE DEF sessionVars
<1>1. CASE PipelineCrash
  BY <1>1, CrashShape
<1>2. CASE SourceError
  <2>1. PICK x \in Sessions : state[x] \notin Ended \cup Unlisted /\ HandleSessionError(x)
    BY <1>2 DEF SourceError
  <2>2. Move(x, FAILED) /\ \E u \in Tasks : Spawn(u, [Idle EXCEPT !.pc = "stop", !.v = x])
    BY <2>1 DEF HandleSessionError
  <2>3. UNCHANGED <<mediaVars, sourceVars, monitor>>
    BY <1>2 DEF SourceError
  <2>4. \A r \in Sessions : SameMedia(r) /\ SameSource(r)
    BY <2>3, MediaSame, SourceSame DEF mediaVars
  <2>5. Own(x)'
    BY <2>4, SameHolds DEF Shape, Sess
  <2> QED BY <2>2, <2>3, <2>4, <2>5, ErrorShape
<1>3. CASE MonitorRetires
  <2>1. /\ UNCHANGED <<state, mediaVars, sourceVars, task>>
        /\ \A r \in Sessions : monitor'[r] = monitor[r] \/ state[r] \in Ended \cup Unlisted
    BY <1>3 DEF MonitorRetires, IInv, OutsideInv
  <2> QED BY <2>1, Stutters
<1>4. CASE MonitorReclaimed \/ MonitorOutage
  <2>1. PICK x \in Sessions :
          /\ monitor' = [monitor EXCEPT ![x] = FALSE]
          /\ \E u \in Tasks : Spawn(u, [Idle EXCEPT !.pc = "stop", !.v = x])
          /\ Move(x, FAILED) \/ state' = state
    BY <1>4 DEF MonitorReclaimed, MonitorOutage
  <2>2. UNCHANGED <<mediaVars, sourceVars>>
    BY <1>4 DEF MonitorReclaimed, MonitorOutage
  <2>3. \A r \in Sessions : SameMedia(r) /\ SameSource(r)
    BY <2>2, MediaSame, SourceSame DEF mediaVars
  <2>4. Own(x)'
    BY <2>3, SameHolds DEF Shape, Sess
  <2>5. \A r \in Sessions : r # x => monitor'[r] = monitor[r]
    BY <2>1 DEF IInv, OutsideInv
  <2> QED BY <2>1, <2>2, <2>3, <2>4, <2>5, ErrorShape
<1>5. CASE MonitorTransport
  BY <1>5 DEF MonitorTransport, Serial
<1>6. CASE MonitorQuiesces
  <2>1. PICK x \in Sessions :
          /\ state[x] = PLAYING /\ Move(x, QUIESCED)
          /\ \E u \in Tasks : Spawn(u, [Idle EXCEPT !.pc = "sinks", !.v = x, !.mode = "quiesce"])
    BY <1>6 DEF MonitorQuiesces
  <2>2. C.pc = "idle" /\ Run(Only, [Idle EXCEPT !.pc = "sinks", !.v = x, !.mode = "quiesce"])
    BY <2>1, Facts DEF Spawn, C
  <2>3. \A r \in Sessions : Resting(r)
    BY <2>2, WhoRests DEF Passive
  <2>4. C'.pc = "sinks" /\ C'.v = x /\ C'.mode = "quiesce"
    BY <2>2, Turned DEF Idle
  <2>5. UNCHANGED <<mediaVars, sourceVars, monitor>>
    BY <1>6 DEF MonitorQuiesces
  <2>6. \A r \in Sessions : SameMedia(r) /\ SameSource(r)
    BY <2>5, MediaSame, SourceSame DEF mediaVars
  <2>7. state'[x] = QUIESCED /\ \A r \in Sessions : r # x => state'[r] = state[r]
    BY <2>1 DEF Move, IInv, SessionInv
  <2>8. Elsewhere(x)
    BY <2>3, <2>5, <2>6, <2>7 DEF Elsewhere, Same
  <2>9. Counted(x)' /\ Own(x)'
    BY <2>6, SameHolds DEF Shape, Sess
  <2> QED BY <2>4, <2>7, <2>8, <2>9, OnRelease DEF ReleasePoints
<1>7. CASE OtherController
  BY <1>7, Stutters DEF OtherController
<1> QED BY <1>1, <1>2, <1>3, <1>4, <1>5, <1>6, <1>7 DEF Background

-----------------------------------------------------------------------------
(* The invariant *)

LEMMA InitShape == Serial /\ Init => Shape
<1> SUFFICES ASSUME Serial, Init PROVE Shape
  OBVIOUS
<1>1. C.pc = "idle"
  BY InitIInv, Facts DEF Init, C, Idle
<1>2. ASSUME NEW s \in Sessions PROVE Fits(s)
  BY DEF Init, Fits, Counted, Own, Rested, Free, Unfed, Encodes, NoPipeline, None
<1>3. StartAt /\ ReleaseAt /\ StopAt
  BY <1>1 DEF StartAt, ReleaseAt, StopAt, StartPoints, ReleasePoints
<1> QED BY <1>2, <1>3 DEF Shape, Sess

LEMMA NextShape == Serial /\ IInv /\ IInv' /\ Shape /\ [Next]_vars => Shape'
<1> SUFFICES ASSUME Serial, IInv, IInv', Shape, [Next]_vars PROVE Shape'
  OBVIOUS
<1>1. CASE UNCHANGED vars
  BY <1>1, Stutters DEF vars, mediaVars, sourceVars
<1>2. CASE Background
  BY <1>2, BackgroundShape
<1>3. CASE Api(Only)
  BY <1>3, CallsPass, CallRecoverShape DEF Api
<1>4. CASE Runs(Only)
  BY <1>4, PlayPasses, CreatePasses, InsertShape, PointsPass, EnterStartingShape, AttemptShape,
     SetUpShape, StartedShape, CleanUpShape, RetryShape, StartFailedShape, StopShape,
     ReleaseSinkShape, ReleaseSourceShape, StopDoneShape, StopReturnShape DEF Runs
<1>5. CASE Awakens(Only)
  <2>1. CASE TargetPrepared(Only) \/ StreamPlayed(Only)
    <3>1. C.pc \in {"prepare", "play_stream", "replay_prepare", "replay_play"}
      BY <2>1 DEF TargetPrepared, StreamPlayed, Wakes, C
    <3> QED BY <2>1, <3>1, PlaybackShape, ReplayPasses
  <2> QED BY <1>5, <2>1, PointsPass, OldPipeStoppedShape, SinkStoppedAfterFailureShape,
            PipelineStartedShape, SilencedShape, SinkStoppedShape, PipelineStoppedShape,
            TargetHealedShape DEF Awakens
<1> QED BY <1>1, <1>2, <1>3, <1>4, <1>5, Facts DEF Next

LEMMA ShapeInvariant == ASSUME Serial PROVE Spec => [](IInv /\ Shape)
<1>1. Init => IInv /\ Shape
  BY InitIInv, InitShape
<1>2. (IInv /\ Shape) /\ [Next]_vars => (IInv /\ Shape)'
  BY NextIInv, NextShape
<1> QED BY <1>1, <1>2, PTL DEF Spec

\* With calls that come one at a time, no failure of a rung, no crash of an
\* encoder, no source error and no outage leaves a capture, a frame sink or an
\* FFmpeg behind once the call is over.
THEOREM NothingLeaksSerially == Serial => (Spec => []NothingLeaks)
<1> SUFFICES ASSUME Serial PROVE Spec => []NothingLeaks
  OBVIOUS
<1>1. IInv /\ Shape => NothingLeaks
  <2> SUFFICES ASSUME IInv, Shape, Quiet, NEW s \in Sessions,
                      state[s] \notin Active \ {QUIESCED}
               PROVE  captures[s] = 0 /\ sinks[s] = 0 /\ Running(s) = {}
    BY DEF NothingLeaks
  <2>1. C.pc = "idle"
    BY Facts DEF Quiet, C
  <2>2. Counted(s) /\ Rested(s)
    BY <2>1, WhoRests DEF Shape, Sess, Fits, Passive
  <2>3. Free(s)
    BY <2>2 DEF Rested, Active
  <2> QED BY <2>2, <2>3 DEF Counted, Free, Unfed, Encodes, Running
<1> QED BY <1>1, ShapeInvariant, PTL

\* ... and a session that is PLAYING has its own published pipeline, the only one
\* that runs, one capture, one live frame sink and a monitor.  Serial leaves out
\* the failures of the transport, after which a start takes a second capture.
THEOREM PlayingIsServedSerially == Serial => (Spec => []PlayingIsServed)
<1> SUFFICES ASSUME Serial PROVE Spec => []PlayingIsServed
  OBVIOUS
<1>1. IInv /\ Shape => PlayingIsServed
  <2> SUFFICES ASSUME IInv, Shape, Quiet, NEW s \in Sessions,
                      state[s] = PLAYING
               PROVE  /\ Running(s) = {pipeOf[s]} /\ published[s] = pipeOf[s]
                      /\ captures[s] = 1 /\ adapter[s]
                      /\ sinks[s] = 1 /\ sink[s] = "live"
                      /\ monitor[s]
    BY DEF PlayingIsServed
  <2>1. C.pc = "idle"
    BY Facts DEF Quiet, C
  <2>2. Counted(s) /\ Own(s) /\ Rested(s)
    BY <2>1, WhoRests DEF Shape, Sess, Fits, Passive
  <2>3. Served(s) /\ monitor[s]
    BY <2>2 DEF Rested
  <2>4. pipeOf[s] \in Pipelines
    BY <2>3 DEF Served, Fed, IInv, MediaInv
  <2>5. Running(s) = {pipeOf[s]}
    BY <2>2, <2>3, <2>4 DEF Running, Own, Served, Encodes
  <2> QED BY <2>2, <2>3, <2>5 DEF Served, Fed, Counted
<1> QED BY <1>1, ShapeInvariant, PTL

-----------------------------------------------------------------------------
(* Who uses a target *)

\* A session takes its target until it is over for good.
Live(s) == state[s] \notin {STOPPED, SUPERSEDED} \cup Unlisted
Users(target) == {s \in Sessions : Live(s) /\ TargetOf(s) = target}

\* In stop_session; before the insertion of a session, and the stop of the
\* incumbent it replaces; in start_session before STARTING.
Stopping  == C.pc \in StopPoints \cup {"stop_return"} \/ (C.pc \in ReleasePoints /\ C.mode = "stop")
Replacing == C.pc = "create_inspect" \/ (Stopping /\ C.ret = "create_insert")
Clearing  == C.pc = "incumbents" \/ (Stopping /\ C.ret = "incumbents")

Alone == \A s, r \in Sessions : s # r /\ Live(s) /\ Live(r) => TargetOf(s) # TargetOf(r)
Cleared ==
    /\ C.pc = "insert" => Users(C.req.info.target) = {}
    /\ Replacing => Users(C.req.info.target) \subseteq {C.v}
    /\ Clearing => Users(TargetOf(C.s)) \subseteq C.todo \cup {C.s}
Lone == Alone /\ Cleared

\* The step claims no target that was not claimed before.
GoesOn ==
    /\ C'.pc = "insert" => C.pc = "insert" /\ C'.req = C.req
    /\ Replacing' => Replacing /\ C'.v = C.v /\ C'.req = C.req
    /\ Clearing' => Clearing /\ C'.s = C.s /\ C'.todo = C.todo

LEMMA ClaimsNothing ==
    ASSUME C'.pc \notin {"insert", "create_inspect", "incumbents"},
           \/ C'.pc \in Passive \cup StartPoints \cup {"heal_target"}
           \/ C'.ret \notin {"create_insert", "incumbents"}
           \/ C'.pc \in ReleasePoints /\ C'.mode # "stop"
    PROVE  GoesOn
BY DEF GoesOn, Replacing, Clearing, Stopping, Passive, StartPoints, StopPoints, ReleasePoints

LEMMA KeepsClaim ==
    ASSUME C'.pc \notin {"insert", "create_inspect", "incumbents"}, Stopping' => Stopping,
           C'.s = C.s, C'.v = C.v, C'.ret = C.ret, C'.req = C.req, C'.todo = C.todo
    PROVE  GoesOn
BY DEF GoesOn, Replacing, Clearing

LEMMA ApiGoesOn ==
    ASSUME Serial, IInv, Api(Only) PROVE GoesOn
<1>1. C'.pc \in {"play", "create", "start", "stop", "resume", "heal_target"} /\ C'.ret = "done"
  <2> USE Turned DEF Call, Idle
  <2>1. CASE CallPlay(Only)
    BY <2>1 DEF CallPlay
  <2>2. CASE CallCreate(Only)
    BY <2>2 DEF CallCreate
  <2>3. CASE CallStart(Only)
    BY <2>3 DEF CallStart
  <2>4. CASE CallStop(Only)
    BY <2>4 DEF CallStop
  <2>5. CASE CallResume(Only)
    BY <2>5 DEF CallResume
  <2>6. CASE CallRecover(Only)
    BY <2>6 DEF CallRecover
  <2> QED BY <2>1, <2>2, <2>3, <2>4, <2>5, <2>6 DEF Api
<1> QED BY <1>1, ClaimsNothing

LEMMA BackgroundGoesOn ==
    ASSUME Serial, IInv, Background PROVE GoesOn
<1>1. CASE UNCHANGED task
  <2>1. C' = C
    BY <1>1 DEF C
  <2> QED BY <2>1 DEF GoesOn, Replacing, Clearing, Stopping
<1>2. ASSUME NEW s, \E u \in Tasks : Spawn(u, [Idle EXCEPT !.pc = "stop", !.v = s]) PROVE GoesOn
  <2>1. C'.pc = "stop" /\ C'.ret = "done"
    BY <1>2, Turned, Facts DEF Spawn, Idle
  <2> QED BY <2>1, ClaimsNothing
<1>3. ASSUME NEW s,
             \E u \in Tasks : Spawn(u, [Idle EXCEPT !.pc = "sinks", !.v = s, !.mode = "quiesce"])
      PROVE  GoesOn
  <2>1. C'.pc = "sinks" /\ C'.ret = "done"
    BY <1>3, Turned, Facts DEF Spawn, Idle
  <2> QED BY <2>1, ClaimsNothing
<1>4. ASSUME NEW s, HandleSessionError(s) PROVE GoesOn
  BY <1>1, <1>2, <1>4 DEF HandleSessionError
<1> QED BY <1>1, <1>2, <1>3, <1>4 DEF Background, PipelineCrash, SourceError, MonitorRetires,
          MonitorReclaimed, MonitorOutage, MonitorTransport, MonitorQuiesces, OtherController

\* play and the points between calls.
LEMMA PassGoesOn ==
    ASSUME Serial, IInv,
           \/ Play(Only) \/ Insert(Only) \/ Resume(Only) \/ ResumeInspected(Only)
           \/ StartReturn(Only) \/ TargetHealed(Only)
    PROVE  GoesOn
<1>1. ASSUME NEW pc, Goto(Only, pc) \/ Await(Only, pc),
             pc \in {"resume_inspect", "start", "start_return"}
      PROVE  GoesOn
  BY <1>1, MovedTo, ClaimsNothing DEF Passive
<1>2. ASSUME Finish(Only) PROVE GoesOn
  BY <1>2, Finished, ClaimsNothing
<1>3. ASSUME NEW pc, NEW s, NEW after,
             Run(Only, Begin(pc, s, after)) \/ Wait(Only, Begin(pc, s, after)),
             pc \in {"resume", "start", "replay_prepare"}
      PROVE  GoesOn
  BY <1>3, Begun, ClaimsNothing DEF Passive
<1>4. CASE Play(Only)
  <2>1. ASSUME NEW b, Run(Only, [C EXCEPT !.pc = "create", !.req.takeover = b]) PROVE GoesOn
    <3>1. C'.pc = "create"
      BY <2>1, Turned, Facts DEF Coroutine
    <3> QED BY <3>1, ClaimsNothing DEF Passive
  <2>2. ASSUME NEW e, Run(Only, [C EXCEPT !.pc = "stop", !.v = e, !.ret = "play_create",
                                          !.req.takeover = TRUE])
        PROVE  GoesOn
    <3>1. C'.pc = "stop" /\ C'.ret = "play_create"
      BY <2>2, Turned, Facts DEF Coroutine
    <3> QED BY <3>1, ClaimsNothing
  <2> QED BY <1>2, <1>3, <1>4, <2>1, <2>2 DEF Play, C
<1>5. CASE Insert(Only)
  BY <1>2, <1>3, <1>5 DEF Insert, Created
<1>6. CASE Resume(Only) \/ ResumeInspected(Only)
  BY <1>1, <1>6 DEF Resume, ResumeInspected
<1>7. CASE StartReturn(Only)
  BY <1>2, <1>3, <1>7 DEF StartReturn
<1>8. CASE TargetHealed(Only)
  BY <1>2, <1>8 DEF TargetHealed
<1> QED BY <1>4, <1>5, <1>6, <1>7, <1>8

\* start_session, before and after STARTING.
LEMMA StartingGoesOn ==
    ASSUME Serial, IInv,
           \/ EnterStarting(Only) \/ Attempt(Only) \/ OldPipeStopped(Only) \/ SetUp(Only)
           \/ SinkStoppedAfterFailure(Only) \/ PipelineStarted(Only) \/ TargetPrepared(Only)
           \/ StreamPlayed(Only) \/ Started(Only) \/ CleanUp(Only) \/ Retry(Only)
           \/ StartFailed(Only)
    PROVE  GoesOn
<1>0. C \in Coroutine
  BY Facts
<1>1. ASSUME C'.pc \in StartPoints \cup {"start_return", "replay_play", "idle"} PROVE GoesOn
  BY <1>1, ClaimsNothing DEF StartPoints, Passive
<1>2. ASSUME NEW pc \in StartPoints \cup {"start_return", "replay_play"},
             Goto(Only, pc) \/ Await(Only, pc)
      PROVE  GoesOn
  BY <1>1, <1>2, MovedTo
<1>3. Finish(Only) => GoesOn
  BY <1>1, Finished
<1>4. ASSUME NEW pc \in StartPoints, NEW p,
             LET d == [C EXCEPT !.pc = pc, !.pipe = p] IN Run(Only, d) \/ Wait(Only, d)
      PROVE  GoesOn
  <2>1. C'.pc = pc
    BY <1>0, <1>4, Turned DEF Coroutine
  <2> QED BY <1>1, <2>1
<1>5. CASE EnterStarting(Only)
  <2>1. ASSUME NEW pc \in {"attempt", "failed"}, Run(Only, [C EXCEPT !.pc = pc, !.tries = MaxAttempts])
        PROVE  GoesOn
    <3>1. C'.pc = pc
      BY <1>0, <2>1, Turned DEF Coroutine
    <3> QED BY <1>1, <3>1 DEF StartPoints
  <2> QED BY <1>2, <1>5, <2>1 DEF EnterStarting, C
<1>6. CASE Attempt(Only) \/ OldPipeStopped(Only) \/ SetUp(Only) \/ PipelineStarted(Only)
  BY <1>2, <1>4, <1>6 DEF Attempt, OldPipeStopped, SetUp, PipelineStarted, StartPoints, C
<1>7. CASE SinkStoppedAfterFailure(Only) \/ TargetPrepared(Only) \/ StreamPlayed(Only) \/ Started(Only)
  BY <1>2, <1>3, <1>7 DEF SinkStoppedAfterFailure, TargetPrepared, StreamPlayed, Started, StartPoints
<1>8. CASE CleanUp(Only)
  <2>1. C'.pc = "sinks" /\ C'.mode = "cleanup"
    BY <1>0, <1>8, Turned DEF CleanUp, Coroutine, C
  <2> QED BY <2>1, ClaimsNothing DEF ReleasePoints
<1>9. CASE Retry(Only)
  <2>1. \E pc \in {"attempt", "failed"} : \E n :
          Run(Only, [C EXCEPT !.pc = pc, !.tries = n, !.v = None, !.mode = "stop"])
    BY <1>9 DEF Retry, C
  <2>2. C'.pc \in {"attempt", "failed"}
    BY <1>0, <2>1, Turned DEF Coroutine
  <2> QED BY <1>1, <2>2 DEF StartPoints
<1>10. CASE StartFailed(Only)
  <2>1. ASSUME NEW s, Run(Only, [C EXCEPT !.pc = "stop", !.v = s, !.ret = "start_return"])
        PROVE  GoesOn
    <3>1. C'.pc = "stop" /\ C'.ret = "start_return"
      BY <1>0, <2>1, Turned DEF Coroutine
    <3> QED BY <3>1, ClaimsNothing
  <2> QED BY <1>3, <1>10, <2>1 DEF StartFailed, C
<1> QED BY <1>5, <1>6, <1>7, <1>8, <1>9, <1>10

\* stop_session, the stop of an incumbent, and the release of a media path.
LEMMA StopGoesOn ==
    ASSUME Serial, IInv,
           \/ CreateInspected(Only) \/ StopIncumbent(Only) \/ Stop(Only) \/ StopInspected(Only)
           \/ TargetStopped(Only) \/ ReleaseSink(Only) \/ SinkStopped(Only)
           \/ ReleaseSource(Only) \/ PipelineStopped(Only) \/ StopDone(Only)
    PROVE  GoesOn
<1>0. C \in Coroutine
  BY Facts
<1>1. Finish(Only) => GoesOn
  BY Finished, ClaimsNothing
<1>2. CASE CreateInspected(Only)
  <2>1. CASE Run(Only, [C EXCEPT !.pc = "stop", !.ret = "create_insert"])
    <3>1. /\ C'.pc = "stop" /\ C'.ret = "create_insert" /\ C'.v = C.v /\ C'.req = C.req
      BY <1>0, <2>1, Turned DEF Coroutine
    <3>2. C.pc = "create_inspect"
      BY <1>2 DEF CreateInspected, Wakes, C
    <3> QED BY <3>1, <3>2 DEF GoesOn, Replacing, Clearing
  <2> QED BY <1>1, <1>2, <2>1 DEF CreateInspected, C
<1>3. CASE StopIncumbent(Only)
  <2>1. PICK e : Run(Only, [C EXCEPT !.pc = "stop", !.v = e, !.ret = "incumbents"])
    BY <1>3 DEF StopIncumbent, C
  <2>2. C'.pc = "stop" /\ C'.ret = "incumbents" /\ C'.s = C.s /\ C'.todo = C.todo
    BY <1>0, <2>1, Turned DEF Coroutine
  <2>3. C.pc = "incumbents"
    BY <1>3 DEF StopIncumbent, At, C
  <2> QED BY <2>2, <2>3 DEF GoesOn, Replacing, Clearing
<1>4. ASSUME NEW pc, Goto(Only, pc) \/ Await(Only, pc), Stopping,
             pc \in {"stop_inspect", "stop_target", "stop_return"}
      PROVE  GoesOn
  BY <1>4, MovedTo, KeepsClaim
<1>5. CASE Stop(Only) \/ StopDone(Only)
  <2>1. Stopping
    BY <1>5 DEF Stop, StopDone, At, Stopping, StopPoints, C
  <2> QED BY <1>1, <1>4, <1>5, <2>1 DEF Stop, StopDone
<1>6. CASE StopInspected(Only) \/ TargetStopped(Only)
  <2>1. Stopping
    BY <1>6 DEF StopInspected, TargetStopped, Wakes, Stopping, StopPoints, C
  <2>2. CASE Run(Only, [C EXCEPT !.pc = "sinks", !.mode = "stop"])
    <3>1. /\ C'.pc = "sinks" /\ C'.s = C.s /\ C'.v = C.v /\ C'.ret = C.ret /\ C'.req = C.req
          /\ C'.todo = C.todo
      BY <1>0, <2>2, Turned DEF Coroutine
    <3> QED BY <2>1, <3>1, KeepsClaim
  <2> QED BY <1>4, <1>6, <2>1, <2>2 DEF StopInspected, TargetStopped, C
<1>7. ASSUME NEW pc \in {"sink_stop", "release_source"}, Goto(Only, pc) \/ Await(Only, pc),
             C.pc \in ReleasePoints
      PROVE  GoesOn
  <2>1. /\ C'.pc = pc /\ C'.mode = C.mode /\ C'.s = C.s /\ C'.v = C.v /\ C'.ret = C.ret
        /\ C'.req = C.req /\ C'.todo = C.todo
    BY <1>7, MovedTo
  <2>2. Stopping' => Stopping
    BY <1>7, <2>1 DEF Stopping, StopPoints
  <2> QED BY <2>1, <2>2, KeepsClaim
<1>8. ASSUME C.pc \in ReleasePoints, Raise(Only) PROVE GoesOn
  <2>1. CASE Run(Only, [C EXCEPT !.pc = "failed", !.v = None, !.mode = "stop", !.pipe = None])
    <3>1. C'.pc = "failed"
      BY <1>0, <2>1, Turned DEF Coroutine
    <3> QED BY <3>1, ClaimsNothing DEF StartPoints
  <2> QED BY <1>1, <1>8, <2>1 DEF Raise, C
<1>9. ASSUME C.pc \in ReleasePoints, NEW pc, NEW p,
             LET d == [C EXCEPT !.pc = pc, !.pipe = p] IN Run(Only, d) \/ Wait(Only, d),
             pc \in {"pipe_stop", "retry"} \/ (pc = "stop_done" /\ C.mode = "stop")
      PROVE  GoesOn
  <2>1. /\ C'.pc = pc /\ C'.mode = C.mode /\ C'.s = C.s /\ C'.v = C.v /\ C'.ret = C.ret
        /\ C'.req = C.req /\ C'.todo = C.todo
    BY <1>0, <1>9, Turned DEF Coroutine
  <2>2. Stopping' => Stopping
    BY <1>9, <2>1 DEF Stopping, StopPoints, ReleasePoints
  <2> QED BY <1>9, <2>1, <2>2, KeepsClaim
<1>10. ASSUME C.pc \in ReleasePoints, NEW p, PipelineGone(Only, p) PROVE GoesOn
  <2>1. C.mode \in {"stop", "cleanup", "quiesce"}
    BY <1>0 DEF Coroutine
  <2> QED BY <1>1, <1>9, <1>10, <2>1 DEF PipelineGone, C
<1>11. CASE ReleaseSink(Only) \/ SinkStopped(Only)
  <2>1. C.pc \in ReleasePoints
    BY <1>11 DEF ReleaseSink, SinkStopped, At, Wakes, ReleasePoints, C
  <2> QED BY <1>7, <1>8, <1>11, <2>1 DEF ReleaseSink, SinkStopped
<1>12. CASE ReleaseSource(Only) \/ PipelineStopped(Only)
  <2>1. C.pc \in ReleasePoints
    BY <1>12 DEF ReleaseSource, PipelineStopped, At, Wakes, ReleasePoints, C
  <2> QED BY <1>8, <1>9, <1>10, <1>12, <2>1 DEF ReleaseSource, PipelineStopped, C
<1> QED BY <1>2, <1>3, <1>5, <1>6, <1>11, <1>12

LEMMA StepGoesOn ==
    ASSUME Serial, IInv, Next, ~Create(Only), ~Start(Only), ~StopReturn(Only) PROVE GoesOn
<1>1. CASE Background
  BY <1>1, BackgroundGoesOn
<1>2. CASE Api(Only)
  BY <1>2, ApiGoesOn
<1>3. CASE Runs(Only) \/ Awakens(Only)
  BY <1>3, PassGoesOn, StartingGoesOn, StopGoesOn DEF Runs, Awakens
<1> QED BY <1>1, <1>2, <1>3, Facts DEF Next

-----------------------------------------------------------------------------
(* A target changes its user *)

LEMMA CanMovesLive ==
    ASSUME NEW s \in Sessions
    PROVE  /\ CanMove(s, STOPPING) => Live(s)
           /\ CanMove(s, HEALING) => Live(s)
           /\ CanMove(s, FAILED) /\ state[s] # STOPPED => Live(s)
BY DEF CanMove, ValidTransitions, Live, Unlisted

LEMMA MovesLive ==
    ASSUME IInv, NEW x \in Sessions, NEW new, Move(x, new), Live(x)
    PROVE  \A s \in Sessions : Live(s)' => Live(s)
BY DEF IInv, SessionInv, Move, Live

LEMMA MovesOver ==
    ASSUME IInv, NEW x \in Sessions, NEW new \in {STOPPED, SUPERSEDED}, Move(x, new)
    PROVE  \A s \in Sessions : Live(s)' => Live(s)
BY DEF IInv, SessionInv, Move, Live

LEMMA CoroutineShrinks ==
    ASSUME Serial, IInv, Shape, Runs(Only) \/ Awakens(Only),
           ~Insert(Only), ~EnterStarting(Only)
    PROVE  \A s \in Sessions : Live(s)' => Live(s)
<1>1. CASE UNCHANGED state
  BY <1>1 DEF Live
<1>2. CASE Started(Only) \/ StartFailed(Only)
  <2>1. C.pc \in StartPoints
    BY <1>2 DEF Started, StartFailed, At, StartPoints, C
  <2>2. C.s \in Sessions /\ Live(C.s)
    BY <2>1, StartHas DEF Live, Unlisted
  <2> QED BY <1>1, <1>2, <2>2, MovesLive DEF Started, StartFailed, C
<1>3. CASE Stop(Only) \/ StopDone(Only)
  <2>1. C.v \in Sessions
    BY <1>3, StopHas DEF Stop, StopDone, At, StopPoints, C
  <2> QED BY <1>1, <1>3, <2>1, CanMovesLive, MovesLive, MovesOver DEF Stop, StopDone, C
<1>4. CASE StopReturn(Only)
  <2>1. C.v \in Sessions /\ C \in Coroutine
    BY <1>4, Facts DEF StopReturn, At, Sound, VPoints, C
  <2>2. UNCHANGED state \/ MoveIfValid(C.v, SUPERSEDED)
    BY <1>4, <2>1 DEF StopReturn, Coroutine, C
  <2> QED BY <1>1, <2>1, <2>2, MovesOver DEF MoveIfValid, Move
<1>5. CASE TargetHealed(Only)
  <2>1. C.pc = "heal_target" /\ C.s \in Sessions
    BY <1>5, Facts DEF TargetHealed, Wakes, Sound, SPoints, C
  <2>2. Live(C.s)
    BY <2>1 DEF Shape, StopAt, Live, Unlisted
  <2>3. UNCHANGED state \/ \E new : Move(C.s, new)
    BY <1>5 DEF TargetHealed, Move, C
  <2> QED BY <1>1, <2>1, <2>2, <2>3, MovesLive
<1> USE DEF sessionVars, PlayPass
<1>6. CASE \/ Play(Only) \/ Create(Only) \/ Resume(Only) \/ Start(Only) \/ StopIncumbent(Only)
           \/ Attempt(Only) \/ SetUp(Only) \/ CleanUp(Only) \/ Retry(Only) \/ StartReturn(Only)
           \/ ReleaseSink(Only) \/ ReleaseSource(Only)
  BY <1>1, <1>6 DEF Play, Create, Resume, Start, StopIncumbent, Attempt, SetUp, CleanUp, Retry,
     StartReturn, ReleaseSink, ReleaseSource
<1>7. CASE \/ CreateInspected(Only) \/ ResumeInspected(Only) \/ OldPipeStopped(Only)
           \/ SinkStoppedAfterFailure(Only) \/ PipelineStarted(Only) \/ TargetPrepared(Only)
           \/ StreamPlayed(Only) \/ StopInspected(Only) \/ TargetStopped(Only)
           \/ SinkStopped(Only) \/ PipelineStopped(Only)
  BY <1>1, <1>7 DEF CreateInspected, ResumeInspected, OldPipeStopped, SinkStoppedAfterFailure,
     PipelineStarted, TargetPrepared, StreamPlayed, StopInspected, TargetStopped, SinkStopped,
     PipelineStopped
<1> QED BY <1>2, <1>3, <1>4, <1>5, <1>6, <1>7 DEF Runs, Awakens

LEMMA BackgroundShrinks ==
    ASSUME Serial, IInv, IInv', Shape, Background
    PROVE  \A s \in Sessions : Live(s)' => Live(s)
<1>1. CASE UNCHANGED state
  BY <1>1 DEF Live
<1>2. ASSUME NEW x \in Sessions, HandleSessionError(x), ~Free(x) \/ captures[x] > 0
      PROVE  \A s \in Sessions : Live(s)' => Live(s)
  <2>1. CASE /\ state[x] \notin Ended \cup Unlisted /\ Move(x, FAILED)
             /\ \E u \in Tasks : Spawn(u, [Idle EXCEPT !.pc = "stop", !.v = x])
    <3>1. Fits(x) /\ Rested(x)
      BY <2>1, WakesToStop
    <3>2. state[x] # SUPERSEDED
      BY <1>2, <3>1 DEF Fits, Rested, Counted, Free
    <3>3. Live(x)
      BY <2>1, <3>2 DEF Live, Ended
    <3> QED BY <2>1, <3>3, MovesLive
  <2> QED BY <1>1, <1>2, <2>1 DEF HandleSessionError
<1>3. CASE PipelineCrash
  <2>1. PICK p \in Pipelines : pipe[p].st = "running" /\ HandleSessionError(pipe[p].of)
    BY <1>3 DEF PipelineCrash
  <2>2. pipe[p].of \in Sessions
    BY DEF IInv, MediaInv
  <2>3. ~Free(pipe[p].of)
    BY <2>1 DEF Free, Unfed, Encodes
  <2> QED BY <1>2, <2>1, <2>2, <2>3
<1>4. CASE SourceError
  BY <1>2, <1>4 DEF SourceError
<1>5. CASE MonitorOutage
  <2>1. PICK x \in Sessions : CanMove(x, FAILED) /\ Move(x, FAILED) /\ state[x] # STOPPED
    BY <1>5 DEF MonitorOutage, Watches, Ended
  <2> QED BY <2>1, CanMovesLive, MovesLive
<1>6. CASE MonitorQuiesces
  <2>1. PICK x \in Sessions : state[x] = PLAYING /\ Move(x, QUIESCED)
    BY <1>6 DEF MonitorQuiesces
  <2>2. Live(x)
    BY <2>1 DEF Live, Unlisted
  <2> QED BY <2>1, <2>2, MovesLive
<1>7. CASE MonitorRetires \/ MonitorReclaimed \/ OtherController
  BY <1>1, <1>7 DEF MonitorRetires, MonitorReclaimed, OtherController, sessionVars
<1>8. ~MonitorTransport
  BY DEF MonitorTransport, Serial
<1> QED BY <1>3, <1>4, <1>5, <1>6, <1>7, <1>8 DEF Background

\* No session becomes a user of a target but in create() and start_session.
LEMMA Shrinks ==
    ASSUME Serial, IInv, IInv', Shape, Next, ~Insert(Only), ~EnterStarting(Only)
    PROVE  UNCHANGED info /\ \A s \in Sessions : Live(s)' => Live(s)
<1>1. CASE Background
  BY <1>1, BackgroundStep, BackgroundShrinks
<1>2. CASE Api(Only)
  <2>1. UNCHANGED info
    BY <1>2, ApiState, Facts
  <2>2. CASE CallRecover(Only)
    BY <2>1, <2>2, CanMovesLive, MovesLive DEF CallRecover
  <2>3. CASE UNCHANGED state
    BY <2>1, <2>3 DEF Live
  <2> QED BY <1>2, <2>2, <2>3 DEF Api, CallPlay, CallCreate, CallStart, CallStop, CallResume, sessionVars
<1>3. CASE Runs(Only) \/ Awakens(Only)
  BY <1>3, CoroutineState, CoroutineShrinks, Facts
<1> QED BY <1>1, <1>2, <1>3, Facts DEF Next

LEMMA UsersShrink ==
    ASSUME UNCHANGED info, \A s \in Sessions : Live(s)' => Live(s)
    PROVE  /\ Alone => Alone'
           /\ \A target : \A s \in Sessions :
                Live(s)' /\ info'[s].target = target => s \in Users(target)
BY DEF Alone, Users, TargetOf

LEMMA StillLone ==
    ASSUME Serial, IInv, IInv', Shape, Lone, Next, GoesOn, ~Insert(Only), ~EnterStarting(Only)
    PROVE  Lone'
<1>1. UNCHANGED info /\ \A s \in Sessions : Live(s)' => Live(s)
  BY Shrinks
<1>2. Alone' /\ \A target : \A s \in Sessions :
                  Live(s)' /\ info'[s].target = target => s \in Users(target)
  BY <1>1, UsersShrink DEF Lone
<1>3. C'.pc = "insert" => Users(C.req.info.target)' = {}
  <2> SUFFICES ASSUME C'.pc = "insert", NEW s \in Sessions, Live(s)',
                      info'[s].target = C'.req.info.target
               PROVE  FALSE
    BY DEF Users, TargetOf
  <2> QED BY <1>2 DEF GoesOn, Lone, Cleared
<1>4. Replacing' => (Users(C.req.info.target) \subseteq {C.v})'
  <2> SUFFICES ASSUME Replacing', NEW s \in Sessions, Live(s)',
                      info'[s].target = C'.req.info.target
               PROVE  s = C'.v
    BY DEF Users, TargetOf
  <2> QED BY <1>2 DEF GoesOn, Lone, Cleared
<1>5. Clearing' => (Users(TargetOf(C.s)) \subseteq C.todo \cup {C.s})'
  <2> SUFFICES ASSUME Clearing', NEW s \in Sessions, Live(s)',
                      info'[s].target = info'[C'.s].target
               PROVE  s \in C'.todo \cup {C'.s}
    BY DEF Users, TargetOf
  <2>1. s \in Users(info'[C'.s].target)
    BY <1>2
  <2>2. s \in Users(TargetOf(C.s))
    BY <1>1, <2>1 DEF GoesOn, TargetOf
  <2> QED BY <2>2 DEF GoesOn, Lone, Cleared
<1> QED BY <1>2, <1>3, <1>4, <1>5 DEF Lone, Cleared

LEMMA CreateLone ==
    ASSUME Serial, IInv, IInv', Shape, Lone, Next, Create(Only) PROVE Lone'
<1> DEFINE target == C.req.info.target
           Incumbents == On(target, {STOPPED, SUPERSEDED})
<1>1. C \in Coroutine /\ C.pc = "create"
  BY Facts DEF Create, At, C
<1>2. ~Insert(Only) /\ ~EnterStarting(Only)
  BY <1>1 DEF Insert, EnterStarting, At, C
<1>3. UNCHANGED <<state, info>>
  BY DEF Create, PlayPass, sessionVars
<1>4. Alone'
  BY <1>3 DEF Lone, Alone, Live, TargetOf
<1>5. Incumbents = {s \in Sessions : info[s].target = target /\ Live(s)}
  BY DEF On, Live
<1>6. CASE GoesOn
  BY <1>2, <1>6, StillLone
<1>7. ASSUME NEW e, NEW next \in {"start", "resume"}, NEW aft, Created(Only, e, next, aft)
      PROVE  GoesOn
  BY <1>7, Finished, Begun, ClaimsNothing DEF Created, Passive
<1>8. ASSUME NEW e, Run(Only, [C EXCEPT !.pc = "stop", !.v = e, !.ret = "create_return"])
      PROVE  GoesOn
  <2>1. C'.pc = "stop" /\ C'.ret = "create_return"
    BY <1>1, <1>8, Turned DEF Coroutine
  <2> QED BY <2>1, ClaimsNothing
<1>9. CASE Incumbents = {} /\ Goto(Only, "insert")
  <2>1. C'.pc = "insert" /\ C'.req = C.req
    BY <1>9, MovedTo
  <2>2. Users(C.req.info.target)' = {}
    BY <1>3, <1>5, <1>9, <2>1 DEF Users, Live, TargetOf
  <2> QED BY <1>4, <2>1, <2>2 DEF Lone, Cleared, Replacing, Clearing, Stopping, StopPoints, ReleasePoints
<1>10. ASSUME NEW e \in Incumbents, Wait(Only, [C EXCEPT !.pc = "create_inspect", !.v = e])
       PROVE  Lone'
  <2>1. C'.pc = "create_inspect" /\ C'.req = C.req /\ C'.v = e
    BY <1>1, <1>10, Turned DEF Coroutine
  <2>2. \A s \in Incumbents : s = e
    BY <1>5, <1>10 DEF Lone, Alone, TargetOf
  <2>3. (Users(C.req.info.target) \subseteq {C.v})'
    BY <1>3, <1>5, <2>1, <2>2 DEF Users, Live, TargetOf
  <2> QED BY <1>4, <2>1, <2>3 DEF Lone, Cleared, Replacing, Clearing, Stopping, StopPoints, ReleasePoints
<1>11. CASE \E e \in Incumbents :
             \/ Created(Only, e, "resume", "restart")
             \/ Run(Only, [C EXCEPT !.pc = "stop", !.v = e, !.ret = "create_return"])
             \/ Created(Only, e, "start", "done")
             \/ Wait(Only, [C EXCEPT !.pc = "create_inspect", !.v = e])
  BY <1>6, <1>7, <1>8, <1>10, <1>11
<1> QED BY <1>9, <1>11 DEF Create, C

LEMMA StartLone ==
    ASSUME Serial, IInv, IInv', Shape, Lone, Next, Start(Only) PROVE Lone'
<1>1. C \in Coroutine /\ C.pc = "start"
  BY Facts DEF Start, At, C
<1>2. PICK x \in Sessions : x = C.s
  BY <1>1, Facts DEF Sound, SPoints
<1>3. UNCHANGED <<state, info>>
  BY DEF Start, PlayPass, sessionVars
<1>4. Alone'
  BY <1>3 DEF Lone, Alone, Live, TargetOf
<1>5. CASE Goto(Only, "start_return")
  <2>1. C'.pc = "start_return"
    BY <1>5, MovedTo
  <2> QED BY <1>4, <2>1 DEF Lone, Cleared, Replacing, Clearing, Stopping, StopPoints, ReleasePoints
<1>6. CASE Run(Only, [C EXCEPT !.pc = "incumbents",
                      !.todo = On(TargetOf(x), {STOPPED, FAILED, SUPERSEDED}) \ {x}])
  <2>1. /\ C'.pc = "incumbents" /\ C'.s = x
        /\ C'.todo = On(TargetOf(x), {STOPPED, FAILED, SUPERSEDED}) \ {x}
    BY <1>1, <1>2, <1>6, Turned DEF Coroutine
  <2>2. ASSUME NEW s \in Sessions, Live(s), TargetOf(s) = TargetOf(x) PROVE s \in C'.todo \cup {x}
    <3>1. state[s] # FAILED
      BY <1>1, WhoRests DEF Shape, Sess, Fits, Rested, Passive
    <3> QED BY <2>1, <2>2, <3>1 DEF On, Live, TargetOf
  <2>3. (Users(TargetOf(C.s)) \subseteq C.todo \cup {C.s})'
    BY <1>3, <2>1, <2>2 DEF Users, Live, TargetOf
  <2> QED BY <1>4, <2>1, <2>3 DEF Lone, Cleared, Replacing, Stopping, StopPoints, ReleasePoints
<1> QED BY <1>2, <1>5, <1>6 DEF Start, C

LEMMA StopReturnLone ==
    ASSUME Serial, IInv, IInv', Shape, Lone, Next, StopReturn(Only) PROVE Lone'
<1>1. C \in Coroutine /\ C.pc = "stop_return"
  BY Facts DEF StopReturn, At, C
<1>2. PICK x \in Sessions : x = C.v
  BY <1>1, Facts DEF Sound, VPoints
<1>3. ~Insert(Only) /\ ~EnterStarting(Only)
  BY <1>1 DEF Insert, EnterStarting, At, C
<1>4. UNCHANGED info /\ \A s \in Sessions : Live(s)' => Live(s)
  BY <1>3, Shrinks
<1>5. Alone' /\ \A target : \A s \in Sessions :
                  Live(s)' /\ info'[s].target = target => s \in Users(target)
  BY <1>4, UsersShrink DEF Lone
<1>6. C.ret \in {"done", "play_create", "create_insert", "create_return", "incumbents",
                 "start_return"}
  BY <1>1 DEF Coroutine
<1>7. CASE GoesOn
  BY <1>3, <1>7, StillLone
<1>8. ASSUME NEW pc \in {"create", "start_return"},
             Run(Only, [C EXCEPT !.pc = pc, !.v = None, !.ret = "done"])
      PROVE  GoesOn
  <2>1. C'.pc = pc
    BY <1>1, <1>8, Turned DEF Coroutine
  <2> QED BY <2>1, ClaimsNothing DEF Passive
<1>9. ASSUME Created(Only, x, "start", "done") \/ Finish(Only) PROVE GoesOn
  BY <1>9, Finished, Begun, ClaimsNothing DEF Created, Passive
<1>10. ASSUME MoveIfValid(x, SUPERSEDED) PROVE ~Live(x)'
  <2>1. state[x] \in Over
    BY <1>1, <1>2 DEF Shape, StopAt
  <2>2. state[x] = STOPPING => CanMove(x, SUPERSEDED)
    BY DEF CanMove, ValidTransitions
  <2>3. CASE state[x] = STOPPING
    BY <1>10, <2>2, <2>3 DEF MoveIfValid, IInv, SessionInv, Live
  <2>4. CASE state[x] # STOPPING
    BY <1>10, <2>1, <2>4 DEF MoveIfValid, IInv, SessionInv, Live, Over
  <2> QED BY <2>3, <2>4
<1>11. CASE /\ C.ret = "create_insert" /\ MoveIfValid(x, SUPERSEDED)
            /\ Run(Only, [C EXCEPT !.pc = "insert", !.v = None, !.ret = "done"])
  <2>1. C'.pc = "insert" /\ C'.req = C.req
    BY <1>1, <1>11, Turned DEF Coroutine
  <2>2. Users(C.req.info.target) \subseteq {x}
    BY <1>1, <1>2, <1>11 DEF Lone, Cleared, Replacing, Stopping
  <2>3. Users(C.req.info.target)' = {}
    <3> SUFFICES ASSUME NEW s \in Sessions, Live(s)', info'[s].target = C'.req.info.target
                 PROVE  FALSE
      BY DEF Users, TargetOf
    <3>1. s \in Users(C.req.info.target)
      BY <1>5, <2>1
    <3>2. s = x
      BY <2>2, <3>1
    <3> QED BY <1>10, <1>11, <3>2
  <2> QED BY <1>5, <2>1, <2>3 DEF Lone, Cleared, Replacing, Clearing, Stopping, StopPoints, ReleasePoints
<1>12. CASE /\ C.ret = "incumbents" /\ MoveIfValid(x, SUPERSEDED)
            /\ Run(Only, [C EXCEPT !.pc = "incumbents", !.todo = @ \ {x},
                                   !.v = None, !.ret = "done"])
  <2>1. C'.pc = "incumbents" /\ C'.s = C.s /\ C'.todo = C.todo \ {x}
    BY <1>1, <1>12, Turned DEF Coroutine
  <2>2. Users(TargetOf(C.s)) \subseteq C.todo \cup {C.s}
    BY <1>1, <1>12 DEF Lone, Cleared, Clearing, Stopping
  <2>3. (Users(TargetOf(C.s)) \subseteq C.todo \cup {C.s})'
    <3> SUFFICES ASSUME NEW s \in Sessions, Live(s)', info'[s].target = info'[C'.s].target
                 PROVE  s \in C'.todo \cup {C'.s}
      BY DEF Users, TargetOf
    <3>1. s \in Users(TargetOf(C.s))
      BY <1>4, <1>5, <2>1 DEF TargetOf
    <3>2. s # x
      BY <1>10, <1>12
    <3> QED BY <2>1, <2>2, <3>1, <3>2
  <2> QED BY <1>5, <2>1, <2>3 DEF Lone, Cleared, Replacing, Stopping, StopPoints, ReleasePoints
<1> QED BY <1>2, <1>6, <1>7, <1>8, <1>9, <1>11, <1>12 DEF StopReturn, C

LEMMA InsertLone ==
    ASSUME Serial, IInv, IInv', Shape, Lone, Next, Insert(Only) PROVE Lone'
<1>1. C \in Coroutine /\ C.pc = "insert"
  BY Facts DEF Insert, At, C
<1>2. PICK x \in Sessions, old \in SUBSET Prunable :
        /\ state' = [s \in Sessions |-> IF s = x THEN CREATED
                                        ELSE IF s \in old THEN PRUNED ELSE state[s]]
        /\ info' = [info EXCEPT ![x] = C.req.info]
        /\ Created(Only, x, "start", "done")
  BY DEF Insert, First, C
<1>3. info'[x] = C.req.info /\ \A s \in Sessions : s # x => info'[s] = info[s]
  BY <1>2 DEF IInv, SessionInv
<1>4. \A s \in Sessions : s # x /\ Live(s)' => Live(s)
  BY <1>2 DEF Live, Unlisted
<1>5. \A s \in Sessions : Live(s) => TargetOf(s) # C.req.info.target
  BY <1>1 DEF Lone, Cleared, Users
<1>6. Alone'
  BY <1>3, <1>4, <1>5 DEF Lone, Alone, TargetOf
<1>7. C'.pc \in {"idle", "start"}
  BY <1>2, Finished, Begun DEF Created
<1> QED BY <1>6, <1>7 DEF Lone, Cleared, Replacing, Clearing, Stopping, StopPoints, ReleasePoints

\* Nobody but the session that is started is left on its target.
LEMMA EntersAlone ==
    ASSUME Serial, IInv, Lone, EnterStarting(Only),
           NEW r \in Sessions, r # C.s, TargetOf(r) = TargetOf(C.s)
    PROVE  ~Live(r)
<1>1. C.pc = "incumbents" /\ C.todo = {}
  BY DEF EnterStarting, At, C
<1> QED BY <1>1 DEF Lone, Cleared, Clearing, Users

LEMMA EnterStartingLone ==
    ASSUME Serial, IInv, IInv', Shape, Lone, Next, EnterStarting(Only) PROVE Lone'
<1>1. C \in Coroutine
  BY Facts
<1>2. PICK x \in Sessions : x = C.s
  BY EnterStartingState, Facts DEF C
<1>3. UNCHANGED info /\ (UNCHANGED state \/ Move(x, STARTING))
  BY <1>2, EnterStartingState, Facts DEF C
<1>4. \A s \in Sessions : s # x => state'[s] = state[s]
  BY <1>3 DEF Move, IInv, SessionInv
<1>5. \A s \in Sessions : s # x /\ TargetOf(s) = TargetOf(x) => ~Live(s)
  BY <1>2, EntersAlone
<1>6. Alone'
  BY <1>3, <1>4, <1>5 DEF Lone, Alone, Live, TargetOf
<1>7. C'.pc \in {"attempt", "failed", "start_return"}
  <2>1. ASSUME NEW pc \in {"attempt", "failed"}, Run(Only, [C EXCEPT !.pc = pc, !.tries = MaxAttempts])
        PROVE  C'.pc = pc
    BY <1>1, <2>1, Turned DEF Coroutine
  <2> QED BY <2>1, MovedTo DEF EnterStarting, C
<1> QED BY <1>6, <1>7 DEF Lone, Cleared, Replacing, Clearing, Stopping, StopPoints, ReleasePoints

LEMMA NextLone == ASSUME Serial, IInv, IInv', Shape, Lone, [Next]_vars PROVE Lone'
<1>1. CASE UNCHANGED vars
  <2>1. C' = C /\ UNCHANGED <<state, info>>
    BY <1>1 DEF vars, C
  <2> QED BY <2>1 DEF Lone, Alone, Cleared, Replacing, Clearing, Stopping, Users, Live, TargetOf
<1>2. CASE Next
  <2>1. CASE \/ Create(Only) \/ Start(Only) \/ StopReturn(Only) \/ Insert(Only)
             \/ EnterStarting(Only)
    BY <1>2, <2>1, CreateLone, StartLone, StopReturnLone, InsertLone, EnterStartingLone
  <2>2. CASE ~(\/ Create(Only) \/ Start(Only) \/ StopReturn(Only) \/ Insert(Only)
               \/ EnterStarting(Only))
    BY <1>2, <2>2, StepGoesOn, StillLone
  <2> QED BY <2>1, <2>2
<1> QED BY <1>1, <1>2

LEMMA InitLone == ASSUME Serial, Init PROVE Lone
<1>1. C.pc = "idle"
  BY InitIInv, Facts DEF Init, C, Idle
<1>2. \A s \in Sessions : ~Live(s)
  BY DEF Init, Live, Unlisted
<1> QED BY <1>1, <1>2 DEF Lone, Alone, Cleared, Replacing, Clearing, Stopping, StopPoints, ReleasePoints

LEMMA LoneInvariant == ASSUME Serial PROVE Spec => [](IInv /\ Shape /\ Lone)
<1>1. Init => IInv /\ Shape /\ Lone
  BY InitIInv, InitShape, InitLone
<1>2. (IInv /\ Shape /\ Lone) /\ [Next]_vars => (IInv /\ Shape /\ Lone)'
  BY NextIInv, NextShape, NextLone
<1> QED BY <1>1, <1>2, PTL DEF Spec

\* Calls that come one at a time never leave two sessions on one target: create()
\* inserts, and start_session starts, only when nobody else is on the target.
THEOREM OneActiveSerially == Serial => (Spec => []OneActivePerTarget)
<1> SUFFICES ASSUME Serial PROVE Spec => []OneActivePerTarget
  OBVIOUS
<1>1. IInv /\ Shape /\ Lone => OneActivePerTarget
  BY DEF Lone, Alone, Live, OneActivePerTarget, Active, Unlisted
<1> QED BY <1>1, LoneInvariant, PTL

\* ... and a session becomes STARTING only when the others of its target capture
\* nothing and encode nothing.
THEOREM StoppedBeforeStartSerially == Serial => (Spec => StoppedBeforeStart)
<1> SUFFICES ASSUME Serial PROVE Spec => StoppedBeforeStart
  OBVIOUS
<1> DEFINE Stopped == \A s, r \in Sessions :
             state[s] # STARTING /\ state'[s] = STARTING /\ s # r /\ TargetOf(r) = TargetOf(s)
                 => captures[r] = 0 /\ Running(r) = {}
<1>1. (IInv /\ Shape /\ Lone) /\ [Next]_vars => Stopped
  <2> SUFFICES ASSUME IInv, Shape, Lone, [Next]_vars, NEW s \in Sessions, NEW r \in Sessions,
                      state[s] # STARTING, state'[s] = STARTING, s # r, TargetOf(r) = TargetOf(s)
               PROVE  captures[r] = 0 /\ Running(r) = {}
    OBVIOUS
  <2>1. Next
    BY DEF vars
  <2>2. EnterStarting(Only) /\ C.s = s
    BY <2>1, OnlyEntered, Facts DEF C
  <2>3. ~Live(r)
    BY <2>2, EntersAlone
  <2>4. Counted(r) /\ Rested(r)
    BY <2>2, WhoRests DEF EnterStarting, At, C, Passive, Shape, Sess, Fits
  <2>5. Free(r)
    BY <2>3, <2>4 DEF Rested, Live, Unlisted
  <2> QED BY <2>4, <2>5 DEF Counted, Free, Unfed, Encodes, Running
<1> QED BY <1>1, LoneInvariant, PTL DEF StoppedBeforeStart, Spec

-----------------------------------------------------------------------------
(* What the targets play *)

\* Nobody else is at the renderers, and they answer.
Undisturbed == Serial /\ "foreign" \notin Env /\ "unknown" \notin Env

\* A target plays a session of its own, until stop_session has silenced it.
Heard == \A t \in Targets : renderer[t] \in Sessions =>
    /\ TargetOf(renderer[t]) = t
    /\ \/ state[renderer[t]] \in {STARTING, PLAYING, HEALING, QUIESCED}
       \/ /\ C.v = renderer[t]
          /\ C.pc \in {"stop_inspect", "stop_target"}
             \/ (C.pc = "stop" /\ state[renderer[t]] = FAILED)
Plays == \A s \in Sessions :
    state[s] \in {PLAYING, HEALING} \/ (C.pc = "started" /\ C.s = s) => renderer[TargetOf(s)] = s
Replays == C.pc \in {"replay_prepare", "replay_play"} => state[C.s] = PLAYING
Tuned == Heard /\ Plays /\ Replays

Silencing == {"stop", "stop_inspect", "stop_target"}
Tuning    == {"started", "replay_prepare", "replay_play"}

LEMMA TunedQuietly ==
    ASSUME Tuned, UNCHANGED <<state, info, renderer>>, C.pc \notin Silencing,
           C'.pc \notin Tuning \/ (C'.pc # "started" /\ state[C'.s] = PLAYING)
    PROVE  Tuned'
<1>1. Heard'
  BY DEF Tuned, Heard, TargetOf, Silencing
<1>2. Plays'
  BY DEF Tuned, Plays, TargetOf, Tuning
<1>3. Replays'
  BY DEF Replays, Tuning
<1> QED BY <1>1, <1>2, <1>3 DEF Tuned

\* The session at work moves.  What a renderer plays stays a session to be heard.
LEMMA TunedMoves ==
    ASSUME IInv, Tuned, NEW x \in Sessions, NEW new, Move(x, new), UNCHANGED <<info, renderer>>,
           C.pc \notin Silencing \/ C.v = x, C'.pc \notin Tuning,
           \/ new \in {STARTING, PLAYING, HEALING, QUIESCED}
           \/ renderer[TargetOf(x)] # x
           \/ C'.v = x /\ C'.pc \in {"stop_inspect", "stop_target"}
           \/ C'.v = x /\ C'.pc = "stop" /\ new = FAILED,
           new \in {PLAYING, HEALING} => renderer[TargetOf(x)] = x
    PROVE  Tuned'
<1>1. state'[x] = new /\ \A s \in Sessions : s # x => state'[s] = state[s]
  BY DEF Move, IInv, SessionInv
<1>2. Heard'
  <2> SUFFICES ASSUME NEW t \in Targets, renderer[t] \in Sessions
               PROVE  /\ TargetOf(renderer[t]) = t
                      /\ \/ state'[renderer[t]] \in {STARTING, PLAYING, HEALING, QUIESCED}
                         \/ /\ C'.v = renderer[t]
                            /\ C'.pc \in {"stop_inspect", "stop_target"}
                               \/ (C'.pc = "stop" /\ state'[renderer[t]] = FAILED)
    BY DEF Heard, TargetOf
  <2>1. TargetOf(renderer[t]) = t
    BY DEF Tuned, Heard
  <2>2. CASE renderer[t] = x
    BY <1>1, <2>1, <2>2
  <2>3. CASE renderer[t] # x
    BY <1>1, <2>1, <2>3 DEF Tuned, Heard, Silencing
  <2> QED BY <2>1, <2>2, <2>3
<1>3. Plays'
  <2> SUFFICES ASSUME NEW s \in Sessions, state'[s] \in {PLAYING, HEALING}
               PROVE  renderer[TargetOf(s)] = s
    BY DEF Plays, TargetOf, Tuning
  <2> QED BY <1>1 DEF Tuned, Plays
<1>4. Replays'
  BY DEF Replays, Tuning
<1> QED BY <1>2, <1>3, <1>4 DEF Tuned

\* A target is told to play the session at work: it has the target for itself.
LEMMA Tunes ==
    ASSUME IInv, Lone, Tuned, NEW x \in Sessions, Live(x), NEW new \in {STARTING, PLAYING, HEALING},
           Move(x, new), UNCHANGED info, renderer' = [renderer EXCEPT ![TargetOf(x)] = x],
           C.pc \notin Silencing, C'.pc \notin Tuning \/ (C'.pc = "started" /\ C'.s = x)
    PROVE  Tuned'
<1>1. state'[x] = new /\ \A s \in Sessions : s # x => state'[s] = state[s]
  BY DEF Move, IInv, SessionInv
<1>2. TargetOf(x) \in Targets
  BY DEF IInv, SessionInv, Info, TargetOf
<1>3. /\ renderer'[TargetOf(x)] = x
      /\ \A t \in Targets : t # TargetOf(x) => renderer'[t] = renderer[t]
  BY <1>2 DEF IInv, OutsideInv
<1>4. Heard'
  <2> SUFFICES ASSUME NEW t \in Targets, renderer'[t] \in Sessions
               PROVE  /\ TargetOf(renderer'[t]) = t
                      /\ state'[renderer'[t]] \in {STARTING, PLAYING, HEALING, QUIESCED}
    BY DEF Heard, TargetOf
  <2>1. CASE t = TargetOf(x)
    BY <1>1, <1>3, <2>1
  <2>2. CASE t # TargetOf(x)
    <3>1. renderer'[t] = renderer[t]
      BY <1>3, <2>2
    <3>2. TargetOf(renderer[t]) = t /\ renderer[t] # x
      BY <2>2, <3>1 DEF Tuned, Heard
    <3>3. state[renderer[t]] \in {STARTING, PLAYING, HEALING, QUIESCED}
      BY <3>1 DEF Tuned, Heard, Silencing
    <3> QED BY <1>1, <3>1, <3>2, <3>3
  <2> QED BY <2>1, <2>2
<1>5. Plays'
  <2> SUFFICES ASSUME NEW s \in Sessions,
                      state'[s] \in {PLAYING, HEALING} \/ (C'.pc = "started" /\ C'.s = s)
               PROVE  renderer'[TargetOf(s)] = s
    BY DEF Plays, TargetOf
  <2>1. CASE s = x
    BY <1>3, <2>1
  <2>2. CASE s # x
    <3>1. state[s] \in {PLAYING, HEALING}
      BY <1>1, <2>2 DEF Tuning
    <3>2. renderer[TargetOf(s)] = s
      BY <3>1 DEF Tuned, Plays
    <3>3. TargetOf(s) # TargetOf(x)
      BY <2>2, <3>1 DEF Lone, Alone, Live, Unlisted
    <3>4. TargetOf(s) \in Targets
      BY DEF IInv, SessionInv, Info, TargetOf
    <3> QED BY <1>3, <3>2, <3>3, <3>4
  <2> QED BY <2>1, <2>2
<1>6. Replays'
  BY DEF Replays, Tuning
<1> QED BY <1>4, <1>5, <1>6 DEF Tuned

\* stop_target: nobody else is on the target that falls silent.
LEMMA TargetStoppedTuned ==
    ASSUME Serial, IInv, Shape, Lone, Tuned, TargetStopped(Only) PROVE Tuned'
<1>1. C \in Coroutine /\ C.pc = "stop_target"
  BY Facts DEF TargetStopped, Wakes, C
<1>2. PICK x \in Sessions : x = C.v
  BY <1>1, StopHas DEF StopPoints
<1>3. state[x] = STOPPING
  BY <1>1, <1>2 DEF Shape, StopAt
<1>4. renderer' = [renderer EXCEPT ![TargetOf(x)] = Silent] /\ UNCHANGED <<state, info>>
      /\ Run(Only, [C EXCEPT !.pc = "sinks", !.mode = "stop"])
  <2>1. PICK ok \in Outcome("renderer") :
          renderer' \in Told(ok, TargetOf(x), Silent)
    BY <1>2 DEF TargetStopped, C
  <2>2. ok = TRUE
    BY Facts
  <2> QED BY <2>1, <2>2 DEF TargetStopped, Told, sessionVars, C
<1>5. C'.pc = "sinks"
  BY <1>1, <1>4, Turned DEF Coroutine
<1>6. TargetOf(x) \in Targets
  BY DEF IInv, SessionInv, Info, TargetOf
<1>7. /\ renderer'[TargetOf(x)] = Silent
      /\ \A t \in Targets : t # TargetOf(x) => renderer'[t] = renderer[t]
  BY <1>4, <1>6 DEF IInv, OutsideInv
<1>8. Heard'
  <2> SUFFICES ASSUME NEW t \in Targets, renderer'[t] \in Sessions
               PROVE  /\ TargetOf(renderer'[t]) = t
                      /\ state[renderer'[t]] \in {STARTING, PLAYING, HEALING, QUIESCED}
    BY <1>4 DEF Heard, TargetOf
  <2>1. t # TargetOf(x)
    BY <1>7, NamesAssumption
  <2>2. renderer'[t] = renderer[t]
    BY <1>7, <2>1
  <2>3. TargetOf(renderer[t]) = t /\ renderer[t] # x
    BY <2>1, <2>2 DEF Tuned, Heard
  <2> QED BY <1>2, <2>2, <2>3 DEF Tuned, Heard
<1>9. Plays'
  <2> SUFFICES ASSUME NEW s \in Sessions, state[s] \in {PLAYING, HEALING}
               PROVE  renderer'[TargetOf(s)] = s
    BY <1>4, <1>5 DEF Plays, TargetOf
  <2>1. renderer[TargetOf(s)] = s
    BY DEF Tuned, Plays
  <2>2. TargetOf(s) # TargetOf(x)
    BY <1>3 DEF Lone, Alone, Live, Unlisted
  <2>3. TargetOf(s) \in Targets
    BY DEF IInv, SessionInv, Info, TargetOf
  <2> QED BY <1>7, <2>1, <2>2, <2>3
<1>10. Replays'
  BY <1>5 DEF Replays
<1> QED BY <1>8, <1>9, <1>10 DEF Tuned

LEMMA QuietPoints ==
    ASSUME Serial, IInv,
           \/ Play(Only) \/ Create(Only) \/ CreateInspected(Only) \/ Resume(Only)
           \/ ResumeInspected(Only) \/ Start(Only) \/ StopIncumbent(Only)
    PROVE  C.pc \notin Silencing /\ C'.pc \notin Tuning
<1>0. C \in Coroutine
  BY Facts
<1>1. C.pc \notin Silencing
  BY DEF Play, Create, CreateInspected, Resume, ResumeInspected, Start, StopIncumbent, At, Wakes,
     Silencing, C
<1>2. C'.pc \notin Tuning
  <2>1. ASSUME NEW pc, pc \notin Tuning, Goto(Only, pc) \/ Await(Only, pc) PROVE C'.pc \notin Tuning
    BY <2>1, MovedTo
  <2>2. Finish(Only) => C'.pc \notin Tuning
    BY Finished DEF Tuning
  <2>3. ASSUME NEW pc, pc \notin Tuning, NEW s, NEW after, Run(Only, Begin(pc, s, after))
        PROVE  C'.pc \notin Tuning
    BY <2>3, Begun
  <2>4. ASSUME NEW s, NEW ret, Run(Only, [C EXCEPT !.pc = "stop", !.v = s, !.ret = ret])
        PROVE  C'.pc \notin Tuning
    BY <1>0, <2>4, Turned DEF Coroutine, Tuning
  <2>5. ASSUME NEW b, Run(Only, [C EXCEPT !.pc = "create", !.req.takeover = b])
        PROVE  C'.pc \notin Tuning
    BY <1>0, <2>5, Turned DEF Coroutine, Tuning
  <2>6. ASSUME NEW e, Run(Only, [C EXCEPT !.pc = "stop", !.v = e, !.ret = "play_create",
                                          !.req.takeover = TRUE])
        PROVE  C'.pc \notin Tuning
    BY <1>0, <2>6, Turned DEF Coroutine, Tuning
  <2>7. ASSUME NEW e, Wait(Only, [C EXCEPT !.pc = "create_inspect", !.v = e])
        PROVE  C'.pc \notin Tuning
    BY <1>0, <2>7, Turned DEF Coroutine, Tuning
  <2>8. ASSUME Run(Only, [C EXCEPT !.pc = "stop", !.ret = "create_insert"])
        PROVE  C'.pc \notin Tuning
    BY <1>0, <2>8, Turned DEF Coroutine, Tuning
  <2>9. ASSUME NEW d, Run(Only, [C EXCEPT !.pc = "incumbents", !.todo = d])
        PROVE  C'.pc \notin Tuning
    BY <1>0, <2>9, Turned DEF Coroutine, Tuning
  <2>10. CASE Play(Only)
    <3>1. "resume" \notin Tuning /\ "start" \notin Tuning
      BY DEF Tuning
    <3> QED BY <2>2, <2>3, <2>5, <2>6, <2>10, <3>1 DEF Play, C
  <2>11. CASE Create(Only)
    <3>1. "insert" \notin Tuning /\ "resume" \notin Tuning /\ "start" \notin Tuning
      BY DEF Tuning
    <3>2. ASSUME NEW e, NEW next \in {"start", "resume"}, NEW aft, Created(Only, e, next, aft)
          PROVE  C'.pc \notin Tuning
      BY <2>2, <2>3, <3>1, <3>2 DEF Created
    <3> QED BY <2>1, <2>4, <2>7, <2>11, <3>1, <3>2 DEF Create, C
  <2>12. CASE CreateInspected(Only)
    BY <2>2, <2>8, <2>12 DEF CreateInspected, C
  <2>13. CASE Resume(Only) \/ ResumeInspected(Only)
    BY <2>1, <2>13 DEF Resume, ResumeInspected, Tuning
  <2>14. CASE Start(Only)
    BY <2>1, <2>9, <2>14 DEF Start, Tuning, C
  <2>15. CASE StopIncumbent(Only)
    BY <2>4, <2>15 DEF StopIncumbent, C
  <2> QED BY <2>10, <2>11, <2>12, <2>13, <2>14, <2>15
<1> QED BY <1>1, <1>2

LEMMA RungPointsQuiet ==
    ASSUME Serial, IInv,
           \/ Attempt(Only) \/ OldPipeStopped(Only) \/ SetUp(Only)
           \/ SinkStoppedAfterFailure(Only) \/ PipelineStarted(Only) \/ CleanUp(Only)
           \/ Retry(Only) \/ ReleaseSink(Only) \/ SinkStopped(Only)
           \/ ReleaseSource(Only) \/ PipelineStopped(Only)
    PROVE  C.pc \notin Silencing /\ C'.pc \notin Tuning
<1>0. C \in Coroutine
  BY Facts
<1>1. C.pc \notin Silencing
  BY DEF Attempt, OldPipeStopped, SetUp, SinkStoppedAfterFailure, PipelineStarted, CleanUp, Retry,
     ReleaseSink, SinkStopped, ReleaseSource, PipelineStopped, At, Wakes, Silencing, C
<1>2. C'.pc \notin Tuning
  <2>1. ASSUME NEW pc, pc \notin Tuning, Goto(Only, pc) \/ Await(Only, pc) PROVE C'.pc \notin Tuning
    BY <2>1, MovedTo
  <2>2. Finish(Only) => C'.pc \notin Tuning
    BY Finished DEF Tuning
  <2>3. ASSUME NEW pc, pc \notin Tuning, NEW p,
               LET d == [C EXCEPT !.pc = pc, !.pipe = p] IN Run(Only, d) \/ Wait(Only, d)
        PROVE  C'.pc \notin Tuning
    BY <1>0, <2>3, Turned DEF Coroutine
  <2>4. ASSUME Raise(Only) PROVE C'.pc \notin Tuning
    <3>1. CASE Run(Only, [C EXCEPT !.pc = "failed", !.v = None, !.mode = "stop", !.pipe = None])
      BY <1>0, <3>1, Turned DEF Coroutine, Tuning
    <3> QED BY <2>2, <2>4, <3>1 DEF Raise, C
  <2>5. ASSUME NEW p, PipelineGone(Only, p) PROVE C'.pc \notin Tuning
    <3>1. C.mode \in {"stop", "cleanup", "quiesce"} /\ "stop_done" \notin Tuning /\ "retry" \notin Tuning
      BY <1>0 DEF Coroutine, Tuning
    <3> QED BY <2>2, <2>3, <2>5, <3>1 DEF PipelineGone, C
  <2>6. {"cleanup", "setup", "old_stop", "sink_fail", "pipe_start", "prepare", "sink_stop",
         "release_source", "pipe_stop"} \cap Tuning = {}
    BY DEF Tuning
  <2>7. CASE Attempt(Only) \/ OldPipeStopped(Only) \/ SetUp(Only) \/ PipelineStarted(Only)
    BY <2>1, <2>3, <2>6, <2>7 DEF Attempt, OldPipeStopped, SetUp, PipelineStarted, C
  <2>8. CASE SinkStoppedAfterFailure(Only) \/ ReleaseSink(Only) \/ SinkStopped(Only)
    BY <2>1, <2>4, <2>6, <2>8 DEF SinkStoppedAfterFailure, ReleaseSink, SinkStopped
  <2>9. CASE CleanUp(Only)
    BY <1>0, <2>9, Turned DEF CleanUp, Coroutine, Tuning, C
  <2>10. CASE Retry(Only)
    <3>1. \E pc \in {"attempt", "failed"} : \E n :
            Run(Only, [C EXCEPT !.pc = pc, !.tries = n, !.v = None, !.mode = "stop"])
      BY <2>10 DEF Retry, C
    <3> QED BY <1>0, <3>1, Turned DEF Coroutine, Tuning
  <2>11. CASE ReleaseSource(Only) \/ PipelineStopped(Only)
    BY <2>3, <2>4, <2>5, <2>6, <2>11 DEF ReleaseSource, PipelineStopped, C
  <2> QED BY <2>7, <2>8, <2>9, <2>10, <2>11
<1> QED BY <1>1, <1>2

LEMMA QuietTuned ==
    ASSUME Serial, IInv, Tuned,
           \/ Play(Only) \/ Create(Only) \/ CreateInspected(Only) \/ Resume(Only)
           \/ ResumeInspected(Only) \/ Start(Only) \/ StopIncumbent(Only)
           \/ Attempt(Only) \/ OldPipeStopped(Only) \/ SetUp(Only)
           \/ SinkStoppedAfterFailure(Only) \/ PipelineStarted(Only) \/ CleanUp(Only)
           \/ Retry(Only) \/ ReleaseSink(Only) \/ SinkStopped(Only)
           \/ ReleaseSource(Only) \/ PipelineStopped(Only)
    PROVE  Tuned'
<1>1. UNCHANGED <<state, info, renderer>>
  BY DEF Play, Create, CreateInspected, Resume, ResumeInspected, Start, StopIncumbent, Attempt,
     OldPipeStopped, SetUp, SinkStoppedAfterFailure, PipelineStarted, CleanUp, Retry, ReleaseSink,
     SinkStopped, ReleaseSource, PipelineStopped, PlayPass, sessionVars
<1> QED BY <1>1, QuietPoints, RungPointsQuiet, TunedQuietly

\* A session that no stop silences and that a renderer plays is one to be heard.
LEMMA HeardStates ==
    ASSUME IInv, Tuned, NEW x \in Sessions, C.pc \notin Silencing,
           state[x] \notin {STARTING, PLAYING, HEALING, QUIESCED}
    PROVE  renderer[TargetOf(x)] # x
BY DEF Tuned, Heard, Silencing, IInv, SessionInv, Info, TargetOf

LEMMA CallsTuned ==
    ASSUME Serial, IInv, Shape, Tuned, Api(Only) PROVE Tuned'
<1>1. CASE \/ CallPlay(Only) \/ CallCreate(Only) \/ CallStart(Only)
           \/ CallStop(Only) \/ CallResume(Only)
  <2>1. UNCHANGED <<state, info, renderer>> /\ C.pc = "idle"
    BY <1>1 DEF CallPlay, CallCreate, CallStart, CallStop, CallResume, Call, sessionVars, C
  <2>2. C'.pc \in {"play", "create", "start", "stop", "resume"}
    <3> USE Turned DEF Call, Idle
    <3>1. CASE CallPlay(Only)
      BY <3>1 DEF CallPlay
    <3>2. CASE CallCreate(Only)
      BY <3>2 DEF CallCreate
    <3>3. CASE CallStart(Only)
      BY <3>3 DEF CallStart
    <3>4. CASE CallStop(Only)
      BY <3>4 DEF CallStop
    <3>5. CASE CallResume(Only)
      BY <3>5 DEF CallResume
    <3> QED BY <1>1, <3>1, <3>2, <3>3, <3>4, <3>5
  <2> QED BY <2>1, <2>2, TunedQuietly DEF Silencing, Tuning
<1>2. CASE CallRecover(Only)
  <2>1. PICK x \in Sessions :
          /\ C.pc = "idle" /\ state[x] # DEGRADED /\ CanMove(x, HEALING) /\ Move(x, HEALING)
          /\ Wait(Only, [Idle EXCEPT !.pc = "heal_target", !.s = x, !.api = TRUE])
    BY <1>2 DEF CallRecover, C
  <2>2. state[x] = PLAYING
    BY <2>1, CanMoves, WhoRests DEF Passive, Shape, Sess, Fits, Rested
  <2>3. renderer[TargetOf(x)] = x
    BY <2>2 DEF Tuned, Plays
  <2>4. C'.pc = "heal_target"
    BY <2>1, Turned DEF Idle
  <2>5. UNCHANGED <<info, renderer>>
    BY <1>2 DEF CallRecover
  <2> QED BY <2>1, <2>3, <2>4, <2>5, TunedMoves DEF Silencing, Tuning
<1> QED BY <1>1, <1>2 DEF Api

LEMMA InsertTuned ==
    ASSUME Serial, IInv, Shape, Tuned, Insert(Only) PROVE Tuned'
<1>1. C.pc = "insert"
  BY DEF Insert, At, C
<1>2. PICK x \in Sessions, old \in SUBSET Prunable :
        /\ state[x] = ABSENT
        /\ state' = [s \in Sessions |-> IF s = x THEN CREATED
                                        ELSE IF s \in old THEN PRUNED ELSE state[s]]
        /\ info' = [info EXCEPT ![x] = C.req.info]
        /\ Created(Only, x, "start", "done")
        /\ UNCHANGED renderer
  BY DEF Insert, First, C
<1>3. C'.pc \in {"idle", "start"}
  BY <1>2, Finished, Begun DEF Created
<1>4. \A s \in Sessions : state[s] \in {STARTING, PLAYING, HEALING, QUIESCED}
        => state'[s] = state[s] /\ info'[s] = info[s]
  BY <1>2 DEF Prunable, IInv, SessionInv
<1>5. \A s \in Sessions : state'[s] \in {PLAYING, HEALING} => state[s] = state'[s]
  BY <1>2
<1>6. Heard'
  <2> SUFFICES ASSUME NEW t \in Targets, renderer[t] \in Sessions
               PROVE  /\ TargetOf(renderer[t])' = t
                      /\ state'[renderer[t]] \in {STARTING, PLAYING, HEALING, QUIESCED}
    BY <1>2 DEF Heard, TargetOf
  <2>1. /\ TargetOf(renderer[t]) = t
        /\ state[renderer[t]] \in {STARTING, PLAYING, HEALING, QUIESCED}
    BY <1>1 DEF Tuned, Heard
  <2> QED BY <1>2, <1>4, <2>1 DEF TargetOf
<1>7. Plays'
  <2> SUFFICES ASSUME NEW s \in Sessions, state'[s] \in {PLAYING, HEALING}
               PROVE  renderer[info'[s].target] = s
    BY <1>2, <1>3 DEF Plays, TargetOf
  <2> QED BY <1>4, <1>5 DEF Tuned, Plays, TargetOf
<1>8. Replays'
  BY <1>3 DEF Replays
<1> QED BY <1>6, <1>7, <1>8 DEF Tuned

LEMMA StartReturnTuned ==
    ASSUME Serial, IInv, Tuned, StartReturn(Only) PROVE Tuned'
<1>1. UNCHANGED <<state, info, renderer>> /\ C.pc = "start_return"
  BY DEF StartReturn, PlayPass, At, sessionVars, C
<1>2. CASE Finish(Only)
  BY <1>1, <1>2, Finished, TunedQuietly DEF Silencing, Tuning
<1>3. CASE Run(Only, Begin("start", C.s, "done"))
  BY <1>1, <1>3, Begun, TunedQuietly DEF Silencing, Tuning
<1>4. CASE state[C.s] = PLAYING /\ Wait(Only, Begin("replay_prepare", C.s, "done"))
  <2>1. C'.pc = "replay_prepare" /\ C'.s = C.s
    BY <1>4, Begun
  <2> QED BY <1>1, <1>4, <2>1, TunedQuietly DEF Silencing, Tuning
<1> QED BY <1>2, <1>3, <1>4 DEF StartReturn, C

LEMMA EnterStartingTuned ==
    ASSUME Serial, IInv, Tuned, EnterStarting(Only) PROVE Tuned'
<1>1. C \in Coroutine /\ C.pc = "incumbents" /\ UNCHANGED <<info, renderer>>
  BY Facts DEF EnterStarting, At, C
<1>2. PICK x \in Sessions : x = C.s
  BY EnterStartingState, Facts DEF C
<1>3. CASE /\ Move(x, STARTING)
           /\ \E pc \in {"attempt", "failed"} :
                Run(Only, [C EXCEPT !.pc = pc, !.tries = MaxAttempts])
  <2>1. C'.pc \in {"attempt", "failed"}
    BY <1>1, <1>3, Turned DEF Coroutine
  <2> QED BY <1>1, <1>3, <2>1, TunedMoves DEF Silencing, Tuning
<1>4. CASE Goto(Only, "start_return") /\ UNCHANGED state
  BY <1>1, <1>4, MovedTo, TunedQuietly DEF Silencing, Tuning
<1> QED BY <1>2, <1>3, <1>4 DEF EnterStarting, C

LEMMA TargetPreparedTuned ==
    ASSUME Serial, IInv, Shape, Tuned, TargetPrepared(Only) PROVE Tuned'
<1>1. UNCHANGED <<state, info, renderer>>
  BY DEF TargetPrepared, PlayPass, sessionVars
<1>2. CASE C.pc = "prepare"
  <2>1. url[C.s]
    BY <1>2 DEF Shape, StartAt, StartPoints
  <2>2. Goto(Only, "cleanup") \/ Await(Only, "play_stream")
    BY <1>2, <2>1 DEF TargetPrepared, Wakes, C
  <2> QED BY <1>1, <1>2, <2>2, MovedTo, TunedQuietly DEF Silencing, Tuning
<1>3. CASE C.pc = "replay_prepare"
  <2>1. state[C.s] = PLAYING
    BY <1>3 DEF Tuned, Replays
  <2>2. Await(Only, "replay_play") \/ Finish(Only)
    BY <1>3 DEF TargetPrepared, Wakes, C
  <2>3. (C'.pc = "replay_play" /\ C'.s = C.s) \/ C'.pc = "idle"
    BY <2>2, MovedTo, Finished
  <2> QED BY <1>1, <1>3, <2>1, <2>3, TunedQuietly DEF Silencing, Tuning
<1> QED BY <1>2, <1>3 DEF TargetPrepared, Wakes, C

LEMMA StreamPlayedTuned ==
    ASSUME Serial, IInv, Shape, Lone, Tuned, StreamPlayed(Only) PROVE Tuned'
<1>1. C.pc \in {"play_stream", "replay_play"}
  BY DEF StreamPlayed, Wakes, C
<1>2. PICK x \in Sessions : x = C.s
  BY <1>1, Facts DEF Sound, SPoints, StartPoints
<1>3. state[x] \in {STARTING, PLAYING}
  BY <1>1, <1>2 DEF Tuned, Replays, Shape, StartAt, StartPoints
<1>4. PICK ok \in Outcome("playback") :
        /\ \/ C.pc = "play_stream" /\ (IF ok THEN Goto(Only, "started") ELSE Goto(Only, "cleanup"))
           \/ Finish(Only)
        /\ renderer' \in Told(ok, TargetOf(x), x)
        /\ UNCHANGED <<state, info>>
  BY <1>2 DEF StreamPlayed, Wakes, sessionVars, C
<1>5. Move(x, state[x]) /\ Live(x) /\ C.pc \notin Silencing
  BY <1>1, <1>3, <1>4 DEF Move, IInv, SessionInv, Live, Unlisted, Silencing
<1>6. CASE ok
  <2>1. (C'.pc = "started" /\ C'.s = x) \/ C'.pc = "idle"
    BY <1>2, <1>4, <1>6, MovedTo, Finished
  <2>2. renderer' = [renderer EXCEPT ![TargetOf(x)] = x] /\ UNCHANGED info
    BY <1>4, <1>6 DEF Told
  <2>3. C'.pc \notin Tuning \/ (C'.pc = "started" /\ C'.s = x)
    BY <2>1 DEF Tuning
  <2> QED BY <1>3, <1>5, <2>2, <2>3, Tunes
<1>7. CASE ~ok
  <2>1. C'.pc = "cleanup" \/ C'.pc = "idle"
    BY <1>4, <1>7, MovedTo, Finished
  <2>2. C'.pc \notin Tuning
    BY <2>1 DEF Tuning
  <2>3. CASE renderer' = renderer
    BY <1>4, <1>5, <2>2, <2>3, TunedQuietly
  <2>4. CASE renderer' = [renderer EXCEPT ![TargetOf(x)] = x]
    BY <1>3, <1>4, <1>5, <2>2, <2>4, Tunes
  <2>5. renderer' \in {renderer, [renderer EXCEPT ![TargetOf(x)] = x]}
    BY <1>4 DEF Told
  <2> QED BY <2>3, <2>4, <2>5
<1> QED BY <1>6, <1>7

LEMMA StartedTuned ==
    ASSUME Serial, IInv, Shape, Tuned, Started(Only) PROVE Tuned'
<1>1. C.pc = "started"
  BY DEF Started, At, C
<1>2. PICK x \in Sessions : x = C.s
  BY <1>1, StartHas DEF StartPoints
<1>3. CanMove(x, PLAYING)
  BY <1>1, <1>2, StartHas, CanMoves DEF StartPoints
<1>4. Move(x, PLAYING) /\ Goto(Only, "start_return") /\ UNCHANGED <<info, renderer>>
  BY <1>2, <1>3 DEF Started, C
<1>5. renderer[TargetOf(x)] = x
  BY <1>1, <1>2 DEF Tuned, Plays
<1>6. C'.pc = "start_return"
  BY <1>4, MovedTo
<1> QED BY <1>1, <1>4, <1>5, <1>6, TunedMoves DEF Silencing, Tuning

LEMMA StartFailedTuned ==
    ASSUME Serial, IInv, Shape, Tuned, StartFailed(Only) PROVE Tuned'
<1>1. C \in Coroutine /\ C.pc = "failed"
  BY Facts DEF StartFailed, At, C
<1>2. PICK x \in Sessions : x = C.s
  BY <1>1, StartHas DEF StartPoints
<1>3. CanMove(x, FAILED)
  BY <1>1, <1>2, StartHas, CanMoves DEF StartPoints
<1>4. /\ Move(x, FAILED) /\ UNCHANGED <<info, renderer>>
      /\ Run(Only, [C EXCEPT !.pc = "stop", !.v = x, !.ret = "start_return"])
  BY <1>2, <1>3 DEF StartFailed, C
<1>5. C'.pc = "stop" /\ C'.v = x
  BY <1>1, <1>4, Turned DEF Coroutine
<1> QED BY <1>1, <1>4, <1>5, TunedMoves DEF Silencing, Tuning

LEMMA StopTuned ==
    ASSUME Undisturbed, IInv, Shape, Tuned, Stop(Only) \/ StopInspected(Only) PROVE Tuned'
<1>0. Serial /\ C \in Coroutine
  BY Facts DEF Undisturbed
<1>1. C.pc \in {"stop", "stop_inspect"}
  BY DEF Stop, StopInspected, At, Wakes, C
<1>2. PICK x \in Sessions : x = C.v
  BY <1>0, <1>1, StopHas DEF StopPoints
<1>3. UNCHANGED <<info, renderer>>
  BY DEF Stop, StopInspected, PlayPass, sessionVars
<1>4. CASE Stop(Only) /\ CanMove(x, STOPPING)
  <2>1. Move(x, STOPPING) /\ Await(Only, "stop_inspect")
    BY <1>2, <1>4 DEF Stop, C
  <2>2. C'.pc = "stop_inspect" /\ C'.v = x
    BY <1>0, <1>2, <2>1, MovedTo
  <2> QED BY <1>2, <1>3, <2>1, <2>2, TunedMoves DEF Tuning
<1>5. CASE Stop(Only) /\ ~CanMove(x, STOPPING)
  <2>1. Goto(Only, "stop_return") /\ UNCHANGED state /\ C.pc = "stop"
    BY <1>2, <1>5 DEF Stop, At, C
  <2>2. state[x] \in Over
    BY <1>5, CanMoves DEF IInv, SessionInv, Over
  <2>3. renderer[TargetOf(x)] # x
    BY <2>1, <2>2 DEF Tuned, Heard, Over, Unlisted, IInv, SessionInv, Info, TargetOf
  <2>4. Move(x, state[x])
    BY <2>1 DEF Move, IInv, SessionInv
  <2>5. C'.pc = "stop_return"
    BY <1>0, <2>1, MovedTo
  <2>6. state[x] \notin {PLAYING, HEALING}
    BY <2>2 DEF Over, Unlisted
  <2> QED BY <1>2, <1>3, <2>3, <2>4, <2>5, <2>6, TunedMoves DEF Tuning
<1>6. CASE StopInspected(Only)
  <2>1. C.pc = "stop_inspect" /\ UNCHANGED state
    BY <1>6 DEF StopInspected, Wakes, PlayPass, sessionVars, C
  <2>2. state[x] = STOPPING
    BY <1>2, <2>1 DEF Shape, StopAt
  <2>3. Move(x, STOPPING)
    BY <2>1, <2>2 DEF Move, IInv, SessionInv
  <2>4. PICK own \in Ownership(TargetOf(x)) :
          IF own = "owned" THEN Await(Only, "stop_target")
          ELSE Run(Only, [C EXCEPT !.pc = "sinks", !.mode = "stop"])
    BY <1>2, <1>6 DEF StopInspected, C
  <2>5. CASE own = "owned"
    <3>1. C'.pc = "stop_target" /\ C'.v = x
      BY <1>0, <1>2, <2>4, <2>5, MovedTo
    <3> QED BY <1>2, <1>3, <2>3, <3>1, TunedMoves DEF Tuning
  <2>6. CASE own # "owned"
    <3>1. renderer[TargetOf(x)] # x
      BY <2>4, <2>6 DEF Ownership, Undisturbed
    <3>2. C'.pc = "sinks"
      BY <1>0, <2>4, <2>6, Turned DEF Coroutine
    <3> QED BY <1>2, <1>3, <2>3, <3>1, <3>2, TunedMoves DEF Tuning
  <2> QED BY <2>5, <2>6
<1> QED BY <1>4, <1>5, <1>6

LEMMA StopEndTuned ==
    ASSUME Serial, IInv, Shape, Tuned, StopDone(Only) \/ StopReturn(Only) PROVE Tuned'
<1>1. C \in Coroutine /\ C.pc \in {"stop_done", "stop_return"}
  BY Facts DEF StopDone, StopReturn, At, C
<1>2. PICK x \in Sessions : x = C.v
  BY <1>1, Facts DEF Sound, VPoints
<1>3. state[x] \in Over
  BY <1>1, <1>2 DEF Shape, StopAt, Over
<1>4. UNCHANGED <<info, renderer>>
  BY DEF StopDone, StopReturn
<1>5. C.pc \notin Silencing /\ renderer[TargetOf(x)] # x
  BY <1>1, <1>3, HeardStates DEF Silencing, Over, Unlisted
<1>6. \E new \in Over : Move(x, new)
  <2>1. Move(x, state[x]) \/ state' # state
    BY DEF Move, IInv, SessionInv
  <2>2. state' = state \/ Move(x, STOPPED) \/ Move(x, SUPERSEDED)
    <3>1. CASE StopDone(Only)
      BY <1>2, <3>1 DEF StopDone, C
    <3>2. CASE StopReturn(Only)
      BY <1>1, <1>2, <3>2 DEF StopReturn, MoveIfValid, Move, Coroutine, C
    <3> QED BY <3>1, <3>2
  <2> QED BY <1>3, <2>1, <2>2 DEF Over
<1>7. C'.pc \notin Tuning
  <2>1. CASE StopDone(Only)
    BY <2>1, MovedTo, Finished DEF StopDone, Tuning, C
  <2>2. CASE StopReturn(Only)
    <3>1. C.ret \in {"done", "play_create", "create_insert", "create_return", "incumbents",
                     "start_return"}
      BY <1>1 DEF Coroutine
    <3>2. ASSUME NEW pc, pc \notin Tuning,
                 Run(Only, [C EXCEPT !.pc = pc, !.v = None, !.ret = "done"])
          PROVE  C'.pc \notin Tuning
      BY <1>1, <3>2, Turned DEF Coroutine
    <3>3. ASSUME Run(Only, [C EXCEPT !.pc = "incumbents", !.todo = @ \ {x},
                                     !.v = None, !.ret = "done"])
          PROVE  C'.pc \notin Tuning
      BY <1>1, <3>3, Turned DEF Coroutine, Tuning
    <3>4. ASSUME Created(Only, x, "start", "done") \/ Finish(Only) PROVE C'.pc \notin Tuning
      BY <3>4, Finished, Begun DEF Created, Tuning
    <3>5. "create" \notin Tuning /\ "insert" \notin Tuning /\ "start_return" \notin Tuning
      BY DEF Tuning
    <3> QED BY <1>2, <2>2, <3>1, <3>2, <3>3, <3>4, <3>5 DEF StopReturn, C
  <2> QED BY <2>1, <2>2
<1>8. PICK new \in Over : Move(x, new)
  BY <1>6
<1>9. new \notin {PLAYING, HEALING}
  BY DEF Over, Unlisted
<1> QED BY <1>4, <1>5, <1>7, <1>8, <1>9, TunedMoves

LEMMA TargetHealedTuned ==
    ASSUME Serial, IInv, Shape, Lone, Tuned, TargetHealed(Only) PROVE Tuned'
<1>1. C.pc = "heal_target"
  BY DEF TargetHealed, Wakes, C
<1>2. PICK x \in Sessions : x = C.s
  BY <1>1, Facts DEF Sound, SPoints
<1>3. state[x] = HEALING /\ CanMove(x, PLAYING)
  BY <1>1, <1>2, CanMoves DEF Shape, StopAt
<1>4. UNCHANGED info /\ Finish(Only) /\ Move(x, PLAYING)
      /\ renderer' \in {renderer, [renderer EXCEPT ![TargetOf(x)] = x]}
  <2>1. PICK ok \in Outcome("renderer") :
          /\ state' = IF ok /\ CanMove(x, PLAYING) THEN [state EXCEPT ![x] = PLAYING]
                      ELSE IF CanMove(x, FAILED) THEN [state EXCEPT ![x] = FAILED]
                      ELSE state
          /\ renderer' \in {renderer, [renderer EXCEPT ![TargetOf(x)] = x]}
          /\ UNCHANGED info /\ Finish(Only)
    BY <1>2 DEF TargetHealed, C
  <2>2. ok = TRUE
    BY Facts
  <2> QED BY <1>3, <2>1, <2>2 DEF Move
<1>5. C'.pc = "idle" /\ C.pc \notin Silencing /\ C'.pc \notin Tuning
  BY <1>1, <1>4, Finished DEF Silencing, Tuning
<1>6. renderer[TargetOf(x)] = x /\ Live(x)
  BY <1>3 DEF Tuned, Plays, Live, Unlisted
<1>7. CASE renderer' = renderer
  BY <1>4, <1>5, <1>6, <1>7, TunedMoves
<1>8. CASE renderer' = [renderer EXCEPT ![TargetOf(x)] = x]
  BY <1>4, <1>5, <1>6, <1>8, Tunes
<1> QED BY <1>4, <1>7, <1>8

LEMMA BackgroundTuned ==
    ASSUME Undisturbed, IInv, Tuned, Background PROVE Tuned'
<1>0. Serial
  BY DEF Undisturbed
<1>1. ASSUME NEW x \in Sessions, UNCHANGED <<info, renderer>>, Move(x, FAILED) \/ UNCHANGED state,
             \E u \in Tasks : Spawn(u, [Idle EXCEPT !.pc = "stop", !.v = x])
      PROVE  Tuned'
  <2>1. C.pc = "idle" /\ Run(Only, [Idle EXCEPT !.pc = "stop", !.v = x])
    BY <1>0, <1>1, Facts DEF Spawn, C
  <2>2. C'.pc = "stop" /\ C'.v = x
    BY <1>0, <2>1, Turned DEF Idle
  <2>3. CASE UNCHANGED state
    BY <1>1, <2>1, <2>2, <2>3, TunedQuietly DEF Silencing, Tuning
  <2>4. CASE Move(x, FAILED)
    BY <1>1, <2>1, <2>2, <2>4, TunedMoves DEF Silencing, Tuning
  <2> QED BY <1>1, <2>3, <2>4
<1>2. ASSUME UNCHANGED <<state, info, renderer, task>> PROVE Tuned'
  BY <1>2 DEF Tuned, Heard, Plays, Replays, TargetOf, C
<1>3. CASE PipelineCrash
  <2>1. PICK p \in Pipelines : HandleSessionError(pipe[p].of)
    BY <1>3 DEF PipelineCrash
  <2>2. pipe[p].of \in Sessions /\ UNCHANGED <<info, renderer>>
    BY <1>3 DEF PipelineCrash, IInv, MediaInv
  <2> QED BY <1>1, <1>2, <2>1, <2>2 DEF HandleSessionError
<1>4. CASE SourceError
  <2>1. PICK s \in Sessions : HandleSessionError(s)
    BY <1>4 DEF SourceError
  <2>2. UNCHANGED <<info, renderer>>
    BY <1>4 DEF SourceError
  <2> QED BY <1>1, <1>2, <2>1, <2>2 DEF HandleSessionError
<1>5. CASE MonitorRetires
  BY <1>2, <1>5 DEF MonitorRetires, sessionVars
<1>6. CASE MonitorReclaimed
  BY <1>1, <1>6 DEF MonitorReclaimed, sessionVars
<1>7. CASE MonitorOutage
  BY <1>1, <1>7 DEF MonitorOutage
<1>8. CASE MonitorQuiesces
  <2>1. PICK x \in Sessions :
          /\ Move(x, QUIESCED)
          /\ \E u \in Tasks : Spawn(u, [Idle EXCEPT !.pc = "sinks", !.v = x, !.mode = "quiesce"])
          /\ UNCHANGED <<info, renderer>>
    BY <1>8 DEF MonitorQuiesces
  <2>2. C.pc = "idle" /\ Run(Only, [Idle EXCEPT !.pc = "sinks", !.v = x, !.mode = "quiesce"])
    BY <1>0, <2>1, Facts DEF Spawn, C
  <2>3. C'.pc = "sinks"
    BY <1>0, <2>2, Turned DEF Idle
  <2> QED BY <2>1, <2>2, <2>3, TunedMoves DEF Silencing, Tuning
<1>9. ~MonitorTransport /\ ~OtherController
  BY DEF MonitorTransport, OtherController, Undisturbed, Serial
<1> QED BY <1>3, <1>4, <1>5, <1>6, <1>7, <1>8, <1>9 DEF Background

LEMMA NextTuned ==
    ASSUME Undisturbed, IInv, Shape, Lone, Tuned, [Next]_vars PROVE Tuned'
<1>0. Serial
  BY DEF Undisturbed
<1>1. CASE UNCHANGED vars
  BY <1>1 DEF vars, Tuned, Heard, Plays, Replays, TargetOf, C
<1>2. CASE Background
  BY <1>2, BackgroundTuned
<1>3. CASE Api(Only)
  BY <1>0, <1>3, CallsTuned
<1>4. CASE Runs(Only)
  BY <1>0, <1>4, QuietTuned, InsertTuned, EnterStartingTuned, StartedTuned, StartFailedTuned,
     StartReturnTuned, StopTuned, StopEndTuned DEF Runs
<1>5. CASE Awakens(Only)
  BY <1>0, <1>5, QuietTuned, TargetPreparedTuned, StreamPlayedTuned, StopTuned,
     TargetStoppedTuned, TargetHealedTuned DEF Awakens
<1> QED BY <1>0, <1>1, <1>2, <1>3, <1>4, <1>5, Facts DEF Next

LEMMA InitTuned == ASSUME Serial, Init PROVE Tuned
<1>1. C.pc = "idle"
  BY InitIInv, Facts DEF Init, C, Idle
<1>2. \A t \in Targets : renderer[t] \notin Sessions
  BY NamesAssumption DEF Init
<1>3. \A s \in Sessions : state[s] = ABSENT
  BY DEF Init
<1> QED BY <1>1, <1>2, <1>3 DEF Tuned, Heard, Plays, Replays

\* Where the renderers answer and nobody else uses them, target and session agree
\* whenever no call is at work: a playing session is the one its target plays, and
\* a target plays no session that is over, whatever else failed on the way.
THEOREM RendererAgreesSerially == Undisturbed => (Spec => []RendererAgrees)
<1> SUFFICES ASSUME Undisturbed PROVE Spec => []RendererAgrees
  OBVIOUS
<1>0. Serial
  BY DEF Undisturbed
<1>1. IInv /\ Tuned => RendererAgrees
  <2> SUFFICES ASSUME IInv, Tuned, Quiet PROVE RendererAgrees
    BY DEF RendererAgrees
  <2>1. C.pc = "idle"
    BY <1>0, Facts DEF Quiet, C
  <2> QED BY <2>1 DEF Tuned, Heard, Plays, RendererAgrees, Active
<1>2. Init => Tuned
  BY <1>0, InitTuned
<1>3. (IInv /\ Shape /\ Lone) /\ Tuned /\ [Next]_vars => Tuned'
  BY NextTuned
<1>4. Spec => [](IInv /\ Shape /\ Lone)
  BY <1>0, LoneInvariant
<1> QED BY <1>1, <1>2, <1>3, <1>4, PTL DEF Spec
=============================================================================
