------------------------ MODULE SessionManagerProofs ------------------------
(***************************************************************************)
(* Proofs about SessionManager, for any number of sessions, pipelines,     *)
(* coroutines, targets and sources and whatever the environment does.      *)
(*                                                                         *)
(* The inductive invariant IInv adds to the types what a coroutine at each *)
(* point may rely on (Sound), and that a recorded capture or frame sink is *)
(* one of those that run, so that releasing it leaves the counts natural.  *)
(***************************************************************************)
EXTENDS SessionManager, TLAPS

Points == AwaitPoints \cup RunPoints \cup {"idle"}

SPoints == StartPoints \cup {"resume", "resume_inspect", "start", "incumbents",
                             "start_return", "replay_prepare", "replay_play", "heal_target"}
VPoints == ReleasePoints \cup {"create_inspect", "stop", "stop_inspect", "stop_target",
                               "stop_done", "stop_return"}
RungPoints == StartPoints \ {"failed"}
PipePoints == {"old_stop", "pipe_start", "pipe_stop"}

Sound(c) ==
    /\ c.pc \in SPoints \/ c.mode = "cleanup" \/ c.ret \in {"start_return", "incumbents"}
         => c.s \in Sessions
    /\ c.pc \in VPoints => c.v \in Sessions
    /\ c.pc \in PipePoints => c.pipe \in Pipelines
    /\ c.pc \in RungPoints \/ c.mode = "cleanup" => c.tries >= 1

TaskInv ==
    /\ task \in [Tasks -> Coroutine]
    /\ loop \in Tasks \cup {NoTask}
    /\ \A t \in Tasks : Sound(task[t])

SessionInv ==
    /\ state \in [Sessions -> SessionState \cup Unlisted]
    /\ info \in [Sessions -> Info]

MediaInv ==
    /\ pipeOf \in [Sessions -> Pipelines \cup {None}]
    /\ published \in [Sessions -> Pipelines \cup {None}]
    /\ url \in [Sessions -> BOOLEAN]
    /\ pipe \in [Pipelines -> [st : PipeState, of : Sessions]]

SourceInv ==
    /\ adapter \in [Sessions -> BOOLEAN]
    /\ sink \in [Sessions -> {"none", "live", "stopping", "stopped"}]
    /\ sinks \in [Sessions -> Nat]
    /\ captures \in [Sessions -> Nat]
    /\ \A s \in Sessions : /\ adapter[s] => captures[s] >= 1
                           /\ sink[s] = "live" => sinks[s] >= 1

OutsideInv ==
    /\ monitor \in [Sessions -> BOOLEAN]
    /\ renderer \in [Targets -> Sessions \cup {Silent, Foreign}]

IInv == TaskInv /\ SessionInv /\ MediaInv /\ SourceInv /\ OutsideInv

-----------------------------------------------------------------------------
(* Coroutines *)

LEMMA NoInfoType == NoInfo \in Info
<1>1. PICK s \in Sources, t \in Targets, i \in Intents : TRUE
  BY NonEmptyAssumption
<1>2. [source |-> s, target |-> t, intent |-> i, exclusive |-> FALSE] \in Info
  BY <1>1 DEF Info
<1> QED BY <1>2 DEF NoInfo

LEMMA IdleType == Idle \in Coroutine /\ Sound(Idle)
<1>1. NoRequest \in Request
  BY NoInfoType DEF NoRequest, Request, Policies
<1>2. 0 \in 0 .. MaxAttempts
  BY BoundsAssumption
<1>3. Idle \in Coroutine
  BY <1>1, <1>2 DEF Idle, Coroutine
<1>4. Sound(Idle)
  BY DEF Idle, Sound, SPoints, VPoints, PipePoints, RungPoints, StartPoints, ReleasePoints
<1> QED BY <1>3, <1>4

\* The coroutine that moves takes a sound record; the others keep theirs.
LEMMA Moves ==
    ASSUME TaskInv, NEW t \in Tasks, NEW c \in Coroutine, Sound(c), Run(t, c) \/ Wait(t, c)
    PROVE  TaskInv'
BY DEF TaskInv, Run, Wait, Sound

LEMMA Finishes ==
    ASSUME TaskInv, NEW t \in Tasks, Finish(t) PROVE TaskInv'
BY IdleType, Moves DEF Finish

\* A change of the point alone.
LEMMA Continues ==
    ASSUME TaskInv, NEW t \in Tasks, NEW pc \in Points \ (RungPoints \cup PipePoints),
           Goto(t, pc) \/ Await(t, pc),
           pc \in SPoints => task[t].s \in Sessions,
           pc \in VPoints => task[t].v \in Sessions
    PROVE  TaskInv'
<1> DEFINE c == [task[t] EXCEPT !.pc = pc]
<1>1. task[t] \in Coroutine /\ Sound(task[t])
  BY DEF TaskInv
<1>2. c \in Coroutine
  BY <1>1 DEF Coroutine, Points
<1>3. c.pc = pc /\ c.mode = task[t].mode /\ c.ret = task[t].ret
      /\ c.s = task[t].s /\ c.v = task[t].v /\ c.tries = task[t].tries
  BY <1>1 DEF Coroutine
<1>4. Sound(c)
  BY <1>1, <1>3 DEF Sound
<1> QED BY <1>2, <1>4, Moves DEF Goto, Await

\* The same within a rung of the ladder, which keeps its session and its tries.
LEMMA ContinuesRung ==
    ASSUME TaskInv, NEW t \in Tasks, task[t].pc \in RungPoints,
           NEW pc \in (RungPoints \ PipePoints) \cup {"failed", "start_return"},
           Goto(t, pc) \/ Await(t, pc)
    PROVE  TaskInv'
<1> DEFINE c == [task[t] EXCEPT !.pc = pc]
<1>1. task[t] \in Coroutine /\ Sound(task[t])
  BY DEF TaskInv
<1>2. c \in Coroutine
  BY <1>1 DEF Coroutine, RungPoints, StartPoints, AwaitPoints, RunPoints
<1>3. c.pc = pc /\ c.mode = task[t].mode /\ c.ret = task[t].ret
      /\ c.s = task[t].s /\ c.v = task[t].v /\ c.tries = task[t].tries
  BY <1>1 DEF Coroutine
<1>4. task[t].s \in Sessions /\ task[t].tries >= 1
  BY <1>1 DEF Sound, SPoints, RungPoints
<1>5. pc \notin VPoints /\ pc \notin PipePoints
  BY DEF RungPoints, StartPoints, VPoints, ReleasePoints, PipePoints
<1>6. Sound(c)
  BY <1>1, <1>3, <1>4, <1>5 DEF Sound
<1> QED BY <1>2, <1>6, Moves DEF Goto, Await

LEMMA BeginType ==
    ASSUME NEW s \in Sessions, NEW pc \in {"resume", "start", "replay_prepare"},
           NEW after \in {"done", "replay", "restart"}
    PROVE  Begin(pc, s, after) \in Coroutine /\ Sound(Begin(pc, s, after))
<1> DEFINE c == Begin(pc, s, after)
<1>1. Idle \in Coroutine /\ pc \in Points
  BY IdleType DEF Points, RunPoints, AwaitPoints
<1>2. c \in Coroutine
  BY <1>1 DEF Begin, Coroutine, Points
<1>3. c.pc = pc /\ c.s = s /\ c.mode = Idle.mode
  BY <1>1 DEF Begin, Coroutine
<1>4. c.mode = "stop"
  BY <1>3 DEF Idle
<1>5. Sound(c)
  BY <1>3, <1>4 DEF Sound, VPoints, PipePoints, RungPoints, StartPoints, ReleasePoints
<1> QED BY <1>2, <1>5

-----------------------------------------------------------------------------
(* API calls *)

LEMMA CallTask ==
    ASSUME TaskInv, NEW t \in Tasks, NEW op, NEW c \in Coroutine, Sound(c), Call(t, op, c)
    PROVE  TaskInv'
<1> DEFINE d == [c EXCEPT !.api = TRUE]
<1>1. d \in Coroutine /\ Sound(d)
  BY DEF Coroutine, Sound
<1> QED BY <1>1, Moves DEF Call

LEMMA RequestRecord ==
    ASSUME NEW pc \in {"play", "create"}, NEW r \in Request
    PROVE  [Idle EXCEPT !.pc = pc, !.req = r] \in Coroutine
           /\ Sound([Idle EXCEPT !.pc = pc, !.req = r])
<1> DEFINE c == [Idle EXCEPT !.pc = pc, !.req = r]
<1>1. c \in Coroutine
  BY IdleType DEF Coroutine, RunPoints
<1>2. c.pc = pc /\ c.mode = "stop" /\ c.ret = "done"
  BY DEF Idle
<1>3. Sound(c)
  BY <1>2 DEF Sound, SPoints, VPoints, PipePoints, RungPoints, StartPoints, ReleasePoints
<1> QED BY <1>1, <1>3

LEMMA SessionRecord ==
    ASSUME NEW s \in Sessions, NEW force \in BOOLEAN
    PROVE  /\ [Idle EXCEPT !.pc = "start", !.s = s] \in Coroutine
           /\ Sound([Idle EXCEPT !.pc = "start", !.s = s])
           /\ [Idle EXCEPT !.pc = "stop", !.v = s] \in Coroutine
           /\ Sound([Idle EXCEPT !.pc = "stop", !.v = s])
           /\ [Idle EXCEPT !.pc = "resume", !.s = s, !.force = force] \in Coroutine
           /\ Sound([Idle EXCEPT !.pc = "resume", !.s = s, !.force = force])
           /\ [Idle EXCEPT !.pc = "heal_target", !.s = s, !.api = TRUE] \in Coroutine
           /\ Sound([Idle EXCEPT !.pc = "heal_target", !.s = s, !.api = TRUE])
           /\ [Idle EXCEPT !.pc = "sinks", !.v = s, !.mode = "quiesce"] \in Coroutine
           /\ Sound([Idle EXCEPT !.pc = "sinks", !.v = s, !.mode = "quiesce"])
<1>1. /\ [Idle EXCEPT !.pc = "start", !.s = s] \in Coroutine
      /\ [Idle EXCEPT !.pc = "stop", !.v = s] \in Coroutine
      /\ [Idle EXCEPT !.pc = "resume", !.s = s, !.force = force] \in Coroutine
      /\ [Idle EXCEPT !.pc = "heal_target", !.s = s, !.api = TRUE] \in Coroutine
      /\ [Idle EXCEPT !.pc = "sinks", !.v = s, !.mode = "quiesce"] \in Coroutine
  <2>1. Idle \in Coroutine /\ {"start", "stop", "resume", "heal_target", "sinks"} \subseteq Points
    BY IdleType DEF Points, RunPoints, AwaitPoints
  <2>2. [Idle EXCEPT !.pc = "start", !.s = s] \in Coroutine
    BY <2>1 DEF Coroutine, Points
  <2>3. [Idle EXCEPT !.pc = "stop", !.v = s] \in Coroutine
    BY <2>1 DEF Coroutine, Points
  <2>4. [Idle EXCEPT !.pc = "resume", !.s = s, !.force = force] \in Coroutine
    BY <2>1 DEF Coroutine, Points
  <2>5. [Idle EXCEPT !.pc = "heal_target", !.s = s, !.api = TRUE] \in Coroutine
    BY <2>1 DEF Coroutine, Points
  <2>6. [Idle EXCEPT !.pc = "sinks", !.v = s, !.mode = "quiesce"] \in Coroutine
    BY <2>1 DEF Coroutine, Points
  <2> QED BY <2>2, <2>3, <2>4, <2>5, <2>6
<1> USE DEF Sound, SPoints, VPoints, PipePoints, RungPoints, StartPoints, ReleasePoints
<1>2. Sound([Idle EXCEPT !.pc = "start", !.s = s])
  BY DEF Idle
<1>3. Sound([Idle EXCEPT !.pc = "stop", !.v = s])
  BY DEF Idle
<1>4. Sound([Idle EXCEPT !.pc = "resume", !.s = s, !.force = force])
  BY DEF Idle
<1>5. Sound([Idle EXCEPT !.pc = "heal_target", !.s = s, !.api = TRUE])
  BY DEF Idle
<1>6. Sound([Idle EXCEPT !.pc = "sinks", !.v = s, !.mode = "quiesce"])
  BY DEF Idle
<1> QED BY <1>1, <1>2, <1>3, <1>4, <1>5, <1>6

LEMMA ApiTask ==
    ASSUME TaskInv, NEW t \in Tasks, Api(t) PROVE TaskInv'
<1>1. CASE CallPlay(t)
  <2>1. PICK i \in Info, policy \in Policies \ {"none"} :
          Call(t, "play", [Idle EXCEPT !.pc = "play",
               !.req = [info |-> i, takeover |-> FALSE, policy |-> policy]])
    BY <1>1 DEF CallPlay
  <2>2. [info |-> i, takeover |-> FALSE, policy |-> policy] \in Request
    BY DEF Request
  <2> QED BY <2>1, <2>2, RequestRecord, CallTask
<1>2. CASE CallCreate(t)
  <2>1. PICK i \in Info, takeover \in BOOLEAN :
          Call(t, "create", [Idle EXCEPT !.pc = "create",
               !.req = [info |-> i, takeover |-> takeover, policy |-> "none"]])
    BY <1>2 DEF CallCreate
  <2>2. [info |-> i, takeover |-> takeover, policy |-> "none"] \in Request
    BY DEF Request, Policies
  <2> QED BY <2>1, <2>2, RequestRecord, CallTask
<1>3. CASE CallStart(t)
  BY <1>3, SessionRecord, CallTask DEF CallStart
<1>4. CASE CallStop(t)
  BY <1>4, SessionRecord, CallTask DEF CallStop
<1>5. CASE CallResume(t)
  BY <1>5, SessionRecord, CallTask DEF CallResume
<1>6. CASE CallRecover(t)
  BY <1>6, SessionRecord, Moves DEF CallRecover
<1> QED BY <1>1, <1>2, <1>3, <1>4, <1>5, <1>6 DEF Api

-----------------------------------------------------------------------------
(* play, create, resume_session *)

\* The coroutine goes on to create, or with session s to inspect or to stop.
LEMMA TurnsToCreate ==
    ASSUME NEW c \in Coroutine, Sound(c), NEW b \in BOOLEAN
    PROVE  /\ [c EXCEPT !.pc = "create", !.req.takeover = b] \in Coroutine
           /\ Sound([c EXCEPT !.pc = "create", !.req.takeover = b])
<1>1. "create" \in Points /\ [c.req EXCEPT !.takeover = b] \in Request
  BY DEF Points, RunPoints, Coroutine, Request
<1>2. [c EXCEPT !.pc = "create", !.req.takeover = b] \in Coroutine
  BY <1>1 DEF Coroutine, Points
<1>3. Sound([c EXCEPT !.pc = "create", !.req.takeover = b])
  BY DEF Sound, Coroutine, SPoints, VPoints, PipePoints, RungPoints, StartPoints, ReleasePoints
<1> QED BY <1>2, <1>3

LEMMA TurnsToInspect ==
    ASSUME NEW c \in Coroutine, Sound(c), NEW s \in Sessions
    PROVE  /\ [c EXCEPT !.pc = "create_inspect", !.v = s] \in Coroutine
           /\ Sound([c EXCEPT !.pc = "create_inspect", !.v = s])
<1>1. "create_inspect" \in Points
  BY DEF Points, AwaitPoints
<1>2. [c EXCEPT !.pc = "create_inspect", !.v = s] \in Coroutine
  BY <1>1 DEF Coroutine, Points
<1>3. Sound([c EXCEPT !.pc = "create_inspect", !.v = s])
  BY DEF Sound, Coroutine, SPoints, VPoints, PipePoints, RungPoints, StartPoints, ReleasePoints
<1> QED BY <1>2, <1>3

LEMMA TurnsToStop ==
    ASSUME NEW c \in Coroutine, Sound(c), NEW s \in Sessions,
           NEW ret \in {"play_create", "create_insert", "create_return", "incumbents",
                        "start_return"},
           ret \in {"incumbents", "start_return"} => c.s \in Sessions
    PROVE  /\ [c EXCEPT !.pc = "stop", !.v = s, !.ret = ret] \in Coroutine
           /\ Sound([c EXCEPT !.pc = "stop", !.v = s, !.ret = ret])
<1>1. "stop" \in Points
  BY DEF Points, RunPoints
<1>2. [c EXCEPT !.pc = "stop", !.v = s, !.ret = ret] \in Coroutine
  BY <1>1 DEF Coroutine, Points
<1>3. Sound([c EXCEPT !.pc = "stop", !.v = s, !.ret = ret])
  BY DEF Sound, Coroutine, SPoints, VPoints, PipePoints, RungPoints, StartPoints, ReleasePoints
<1> QED BY <1>2, <1>3

LEMMA TurnsToStopForPlay ==
    ASSUME NEW c \in Coroutine, Sound(c), NEW s \in Sessions
    PROVE  LET d == [c EXCEPT !.pc = "stop", !.v = s, !.ret = "play_create", !.req.takeover = TRUE]
           IN  d \in Coroutine /\ Sound(d)
<1> DEFINE d == [c EXCEPT !.pc = "stop", !.v = s, !.ret = "play_create", !.req.takeover = TRUE]
<1>1. "stop" \in Points /\ [c.req EXCEPT !.takeover = TRUE] \in Request
  BY DEF Points, RunPoints, Coroutine, Request
<1>2. d \in Coroutine
  BY <1>1 DEF Coroutine, Points
<1>3. Sound(d)
  BY DEF Sound, Coroutine, SPoints, VPoints, PipePoints, RungPoints, StartPoints, ReleasePoints
<1> QED BY <1>2, <1>3

LEMMA PlayTask ==
    ASSUME TaskInv, NEW t \in Tasks, Play(t) PROVE TaskInv'
<1> DEFINE c == task[t]
           r == c.req
           Existing == On(r.info.target, {STOPPED, FAILED, SUPERSEDED})
<1>1. c \in Coroutine /\ Sound(c)
  BY DEF TaskInv
<1>2. CASE Run(t, [c EXCEPT !.pc = "create", !.req.takeover = (r.policy = "takeover")])
  <2>1. (r.policy = "takeover") \in BOOLEAN
    OBVIOUS
  <2> QED BY <1>1, <1>2, <2>1, TurnsToCreate, Moves
<1>3. CASE \E e \in Existing : First(e, Existing) /\
             (\/ Finish(t) 
              \/ Run(t, Begin("resume", e, "done"))
              \/ Run(t, Begin("start", e, "replay"))
              \/ Run(t, [c EXCEPT !.pc = "stop", !.v = e, !.ret = "play_create",
                                  !.req.takeover = TRUE]))
  <2>1. PICK e \in Sessions :
             \/ Finish(t) 
             \/ Run(t, Begin("resume", e, "done"))
             \/ Run(t, Begin("start", e, "replay"))
             \/ Run(t, [c EXCEPT !.pc = "stop", !.v = e, !.ret = "play_create",
                                 !.req.takeover = TRUE])
    BY <1>3 DEF On
  <2>2. CASE Finish(t)
    BY <2>2, Finishes
  <2>3. CASE Run(t, Begin("resume", e, "done"))
    BY <2>3, BeginType, Moves
  <2>4. CASE Run(t, Begin("start", e, "replay"))
    BY <2>4, BeginType, Moves
  <2>5. CASE Run(t, [c EXCEPT !.pc = "stop", !.v = e, !.ret = "play_create",
                              !.req.takeover = TRUE])
    BY <2>5, <1>1, TurnsToStopForPlay, Moves
  <2> QED BY <2>1, <2>2, <2>3, <2>4, <2>5
<1> QED BY <1>2, <1>3 DEF Play

LEMMA CreatedTask ==
    ASSUME TaskInv, NEW t \in Tasks, NEW s \in Sessions, NEW next \in {"start", "resume"},
           NEW aft \in {"done", "restart"}, Created(t, s, next, aft)
    PROVE  TaskInv'
<1>1. CASE Finish(t)
  BY <1>1, Finishes
<1>2. CASE \E after \in {"done", "restart"} : Run(t, Begin(next, s, after))
  BY <1>2, BeginType, Moves
<1> QED BY <1>1, <1>2 DEF Created

LEMMA CreateTask ==
    ASSUME TaskInv, NEW t \in Tasks, Create(t) PROVE TaskInv'
<1> DEFINE Incumbents == On(task[t].req.info.target, {STOPPED, SUPERSEDED})
<1>1. task[t] \in Coroutine /\ Sound(task[t])
  BY DEF TaskInv
<1>2. CASE Goto(t, "insert")
  BY <1>2, Continues DEF Points, RunPoints, SPoints, VPoints, RungPoints, PipePoints,
       StartPoints, ReleasePoints
<1>3. CASE \E e \in Sessions :
             \/ Created(t, e, "resume", "restart")
             \/ Run(t, [task[t] EXCEPT !.pc = "stop", !.v = e, !.ret = "create_return"])
             \/ Created(t, e, "start", "done")
             \/ Wait(t, [task[t] EXCEPT !.pc = "create_inspect", !.v = e])
  BY <1>1, <1>3, CreatedTask, TurnsToStop, TurnsToInspect, Moves
<1>4. \A e \in Incumbents : e \in Sessions
  BY DEF On
<1> QED BY <1>2, <1>3, <1>4 DEF Create

LEMMA CreateInspectedTask ==
    ASSUME TaskInv, NEW t \in Tasks, CreateInspected(t) PROVE TaskInv'
<1> DEFINE c == task[t]
           d == [c EXCEPT !.pc = "stop", !.ret = "create_insert"]
<1>1. c \in Coroutine /\ Sound(c) /\ c.pc = "create_inspect"
  BY DEF TaskInv, CreateInspected, Wakes
<1>2. c.v \in Sessions
  BY <1>1 DEF Sound, VPoints
<1>3. CASE Run(t, d)
  <2>1. "stop" \in Points
    BY DEF Points, RunPoints
  <2>2. d \in Coroutine
    BY <1>1, <2>1 DEF Coroutine, Points
  <2>3. Sound(d)
    BY <1>1, <1>2 DEF Sound, Coroutine, SPoints, VPoints, PipePoints, RungPoints,
         StartPoints, ReleasePoints
  <2> QED BY <1>3, <2>2, <2>3, Moves
<1>4. CASE Finish(t)
  BY <1>4, Finishes
<1> QED BY <1>3, <1>4 DEF CreateInspected

LEMMA InsertTask ==
    ASSUME TaskInv, NEW t \in Tasks, Insert(t) PROVE TaskInv'
BY CreatedTask DEF Insert, First

LEMMA ResumeTask ==
    ASSUME TaskInv, NEW t \in Tasks, Resume(t) \/ ResumeInspected(t) PROVE TaskInv'
<1>1. task[t].pc \in {"resume", "resume_inspect"}
  BY DEF Resume, ResumeInspected, At, Wakes
<1>2. task[t].s \in Sessions
  BY <1>1 DEF TaskInv, Sound, SPoints
<1>3. \E pc \in {"resume_inspect", "start", "start_return"} : Goto(t, pc) \/ Await(t, pc)
  BY DEF Resume, ResumeInspected
<1> QED BY <1>2, <1>3, Continues DEF Points, RunPoints, AwaitPoints, SPoints, VPoints,
          RungPoints, PipePoints, StartPoints, ReleasePoints

-----------------------------------------------------------------------------
(* start_session *)

LEMMA StartTask ==
    ASSUME TaskInv, NEW t \in Tasks, Start(t) PROVE TaskInv'
<1> DEFINE c == task[t]
           todo == On(TargetOf(c.s), {STOPPED, FAILED, SUPERSEDED}) \ {c.s}
           d == [c EXCEPT !.pc = "incumbents", !.todo = todo]
<1>1. c \in Coroutine /\ Sound(c) /\ c.pc = "start"
  BY DEF TaskInv, Start, At
<1>2. c.s \in Sessions
  BY <1>1 DEF Sound, SPoints
<1>3. CASE Goto(t, "start_return")
  BY <1>2, <1>3, Continues DEF Points, RunPoints, SPoints, VPoints, RungPoints, PipePoints,
       StartPoints, ReleasePoints
<1>4. CASE Run(t, d)
  <2>1. "incumbents" \in Points /\ todo \in SUBSET Sessions
    BY DEF Points, RunPoints, On
  <2>2. d \in Coroutine
    BY <1>1, <2>1 DEF Coroutine, Points
  <2>3. Sound(d)
    BY <1>1, <1>2 DEF Sound, Coroutine, SPoints, VPoints, PipePoints, RungPoints,
         StartPoints, ReleasePoints
  <2> QED BY <1>4, <2>2, <2>3, Moves
<1> QED BY <1>3, <1>4 DEF Start

LEMMA StopIncumbentTask ==
    ASSUME TaskInv, NEW t \in Tasks, StopIncumbent(t) PROVE TaskInv'
<1>1. task[t] \in Coroutine /\ Sound(task[t]) /\ task[t].pc = "incumbents"
  BY DEF TaskInv, StopIncumbent, At
<1>2. task[t].s \in Sessions /\ task[t].todo \subseteq Sessions
  BY <1>1 DEF Sound, SPoints, Coroutine
<1> QED BY <1>1, <1>2, TurnsToStop, Moves DEF StopIncumbent

LEMMA EnterStartingTask ==
    ASSUME TaskInv, NEW t \in Tasks, EnterStarting(t) PROVE TaskInv'
<1> DEFINE c == task[t]
           d(pc) == [c EXCEPT !.pc = pc, !.tries = MaxAttempts]
<1>1. c \in Coroutine /\ Sound(c) /\ c.pc = "incumbents"
  BY DEF TaskInv, EnterStarting, At
<1>2. c.s \in Sessions
  BY <1>1 DEF Sound, SPoints
<1>3. CASE Goto(t, "start_return")
  BY <1>2, <1>3, Continues DEF Points, RunPoints, SPoints, VPoints, RungPoints, PipePoints,
       StartPoints, ReleasePoints
<1>4. ASSUME NEW pc \in {"attempt", "failed"}, Run(t, d(pc)) PROVE TaskInv'
  <2>1. pc \in Points /\ MaxAttempts \in 0 .. MaxAttempts /\ MaxAttempts >= 1
    BY BoundsAssumption DEF Points, RunPoints
  <2>2. d(pc) \in Coroutine
    BY <1>1, <2>1 DEF Coroutine, Points
  <2>3. Sound(d(pc))
    BY <1>1, <1>2, <2>1 DEF Sound, Coroutine, SPoints, VPoints, PipePoints, RungPoints,
         StartPoints, ReleasePoints
  <2> QED BY <1>4, <2>2, <2>3, Moves
<1> QED BY <1>3, <1>4 DEF EnterStarting

\* Within a rung: another point, and the pipeline that is awaited there.
LEMMA TurnsWithPipe ==
    ASSUME TaskInv, NEW t \in Tasks, task[t].pc \in RungPoints,
           NEW pc \in RungPoints, NEW p \in Pipelines \cup {None},
           pc \in PipePoints => p \in Pipelines,
           LET d == [task[t] EXCEPT !.pc = pc, !.pipe = p] IN Run(t, d) \/ Wait(t, d)
    PROVE  TaskInv'
<1> DEFINE c == task[t]
           d == [c EXCEPT !.pc = pc, !.pipe = p]
<1>1. c \in Coroutine /\ Sound(c)
  BY DEF TaskInv
<1>2. pc \in Points /\ pc \notin VPoints
  BY DEF Points, RunPoints, AwaitPoints, RungPoints, StartPoints, VPoints, ReleasePoints
<1>3. d \in Coroutine
  BY <1>1, <1>2 DEF Coroutine, Points
<1>4. c.s \in Sessions /\ c.tries >= 1
  BY <1>1 DEF Sound, SPoints, RungPoints
<1>5. Sound(d)
  BY <1>1, <1>2, <1>4 DEF Sound, Coroutine
<1> QED BY <1>3, <1>5, Moves

LEMMA AttemptTask ==
    ASSUME IInv, NEW t \in Tasks, Attempt(t) PROVE TaskInv'
<1> DEFINE p == pipeOf[task[t].s]
<1>1. TaskInv /\ task[t].pc = "attempt"
  BY DEF IInv, Attempt, At
<1>2. task[t].s \in Sessions
  BY <1>1 DEF TaskInv, Sound, SPoints, StartPoints
<1>3. p \in Pipelines \cup {None}
  BY <1>2 DEF IInv, MediaInv
<1>4. CASE Goto(t, "cleanup") \/ Goto(t, "setup")
  BY <1>1, <1>4, ContinuesRung DEF RungPoints, StartPoints, PipePoints
<1>5. CASE p # None /\ Wait(t, [task[t] EXCEPT !.pc = "old_stop", !.pipe = p])
  BY <1>1, <1>3, <1>5, TurnsWithPipe DEF RungPoints, StartPoints
<1> QED BY <1>4, <1>5 DEF Attempt

LEMMA OldPipeStoppedTask ==
    ASSUME IInv, NEW t \in Tasks, OldPipeStopped(t) PROVE TaskInv'
<1>1. TaskInv /\ task[t].pc = "old_stop"
  BY DEF IInv, OldPipeStopped, Wakes
<1>2. \E pc \in {"cleanup", "setup"} : Run(t, [task[t] EXCEPT !.pc = pc, !.pipe = None])
  BY DEF OldPipeStopped
<1> QED BY <1>1, <1>2, TurnsWithPipe DEF RungPoints, StartPoints, PipePoints

LEMMA SetUpTask ==
    ASSUME IInv, NEW t \in Tasks, SetUp(t) PROVE TaskInv'
<1>1. TaskInv /\ task[t].pc = "setup"
  BY DEF IInv, SetUp, At
<1>2. CASE Goto(t, "cleanup")
  BY <1>1, <1>2, ContinuesRung DEF RungPoints, StartPoints, PipePoints
<1>3. CASE Await(t, "sink_fail")
  BY <1>1, <1>3, ContinuesRung DEF RungPoints, StartPoints, PipePoints
<1>4. CASE \E p \in Pipelines : Wait(t, [task[t] EXCEPT !.pc = "pipe_start", !.pipe = p])
  BY <1>1, <1>4, TurnsWithPipe DEF RungPoints, StartPoints
<1> QED BY <1>2, <1>3, <1>4 DEF SetUp

LEMMA SinkStoppedAfterFailureTask ==
    ASSUME TaskInv, NEW t \in Tasks, SinkStoppedAfterFailure(t) PROVE TaskInv'
<1>1. task[t].pc = "sink_fail" /\ Goto(t, "cleanup")
  BY DEF SinkStoppedAfterFailure, Wakes
<1> QED BY <1>1, ContinuesRung DEF RungPoints, StartPoints, PipePoints

LEMMA PipelineStartedTask ==
    ASSUME IInv, NEW t \in Tasks, PipelineStarted(t) PROVE TaskInv'
<1>1. TaskInv /\ task[t].pc = "pipe_start"
  BY DEF IInv, PipelineStarted, Wakes
<1>2. \E pc \in {"cleanup", "prepare"} :
        LET d == [task[t] EXCEPT !.pc = pc, !.pipe = None] IN Run(t, d) \/ Wait(t, d)
  BY DEF PipelineStarted
<1> QED BY <1>1, <1>2, TurnsWithPipe DEF RungPoints, StartPoints, PipePoints

LEMMA TargetPreparedTask ==
    ASSUME TaskInv, NEW t \in Tasks, TargetPrepared(t) PROVE TaskInv'
<1>1. CASE task[t].pc = "prepare" /\ \E pc \in {"cleanup", "play_stream", "started"} :
                Goto(t, pc) \/ Await(t, pc)
  BY <1>1, ContinuesRung DEF RungPoints, StartPoints, PipePoints
<1>2. CASE task[t].pc = "replay_prepare" /\ Await(t, "replay_play")
  <2>1. task[t].s \in Sessions
    BY <1>2 DEF TaskInv, Sound, SPoints
  <2> QED BY <1>2, <2>1, Continues DEF Points, AwaitPoints, VPoints, RungPoints, PipePoints,
            StartPoints, ReleasePoints
<1>3. CASE Finish(t)
  BY <1>3, Finishes
<1> QED BY <1>1, <1>2, <1>3 DEF TargetPrepared, Wakes

LEMMA StreamPlayedTask ==
    ASSUME TaskInv, NEW t \in Tasks, StreamPlayed(t) PROVE TaskInv'
<1>1. CASE task[t].pc = "play_stream" /\ (Goto(t, "started") \/ Goto(t, "cleanup"))
  BY <1>1, ContinuesRung DEF RungPoints, StartPoints, PipePoints
<1>2. CASE Finish(t)
  BY <1>2, Finishes
<1> QED BY <1>1, <1>2 DEF StreamPlayed, Wakes

LEMMA StartedTask ==
    ASSUME TaskInv, NEW t \in Tasks, Started(t) PROVE TaskInv'
<1>1. task[t].pc = "started" /\ (Goto(t, "start_return") \/ Goto(t, "failed"))
  BY DEF Started, At
<1> QED BY <1>1, ContinuesRung DEF RungPoints, StartPoints, PipePoints

LEMMA CleanUpTask ==
    ASSUME TaskInv, NEW t \in Tasks, CleanUp(t) PROVE TaskInv'
<1> DEFINE c == task[t]
           d == [c EXCEPT !.pc = "sinks", !.v = c.s, !.mode = "cleanup"]
<1>1. c \in Coroutine /\ Sound(c) /\ c.pc = "cleanup" /\ Run(t, d)
  BY DEF TaskInv, CleanUp, At
<1>2. c.s \in Sessions /\ c.tries >= 1
  BY <1>1 DEF Sound, SPoints, RungPoints, StartPoints
<1>3. "sinks" \in Points
  BY DEF Points, RunPoints
<1>4. d \in Coroutine
  BY <1>1, <1>2, <1>3 DEF Coroutine, Points
<1>5. Sound(d)
  BY <1>1, <1>2 DEF Sound, Coroutine, PipePoints
<1> QED BY <1>1, <1>4, <1>5, Moves

LEMMA RetryTask ==
    ASSUME TaskInv, NEW t \in Tasks, Retry(t) PROVE TaskInv'
<1> DEFINE c == task[t]
           pc == IF c.tries > 1 THEN "attempt" ELSE "failed"
           d == [c EXCEPT !.pc = pc, !.tries = c.tries - 1, !.v = None, !.mode = "stop"]
<1>1. c \in Coroutine /\ Sound(c) /\ c.pc = "retry" /\ Run(t, d)
  BY DEF TaskInv, Retry, At
<1>2. c.s \in Sessions /\ c.tries \in 1 .. MaxAttempts
  BY <1>1, BoundsAssumption DEF Coroutine, Sound, SPoints, RungPoints, StartPoints
<1>3. pc \in Points /\ c.tries - 1 \in 0 .. MaxAttempts
  BY <1>2, BoundsAssumption DEF Points, RunPoints
<1>4. d \in Coroutine
  BY <1>1, <1>3 DEF Coroutine, Points
<1>5. d.pc = pc /\ d.s = c.s /\ d.tries = c.tries - 1 /\ d.mode = "stop"
  BY <1>1 DEF Coroutine
<1>6. d.pc \in RungPoints => d.tries >= 1
  BY <1>2, <1>5 DEF RungPoints
<1>7. pc \notin VPoints /\ pc \notin PipePoints
  BY DEF VPoints, PipePoints, ReleasePoints
<1>8. Sound(d)
  BY <1>2, <1>5, <1>6, <1>7 DEF Sound
<1> QED BY <1>1, <1>4, <1>8, Moves

LEMMA StartFailedTask ==
    ASSUME TaskInv, NEW t \in Tasks, StartFailed(t) PROVE TaskInv'
<1>1. task[t] \in Coroutine /\ Sound(task[t]) /\ task[t].pc = "failed"
  BY DEF TaskInv, StartFailed, At
<1>2. task[t].s \in Sessions
  BY <1>1 DEF Sound, SPoints, StartPoints
<1> QED BY <1>1, <1>2, TurnsToStop, Moves, Finishes DEF StartFailed

LEMMA StartReturnTask ==
    ASSUME TaskInv, NEW t \in Tasks, StartReturn(t) PROVE TaskInv'
<1>1. task[t].s \in Sessions
  BY DEF TaskInv, Sound, SPoints, StartReturn, At
<1>2. \/ Wait(t, Begin("replay_prepare", task[t].s, "done"))
      \/ Run(t, Begin("start", task[t].s, "done"))
      \/ Finish(t)
  BY DEF StartReturn
<1> QED BY <1>1, <1>2, BeginType, Moves, Finishes

-----------------------------------------------------------------------------
(* stop_session and the release of a session's media path *)

LEMMA StopTask ==
    ASSUME TaskInv, NEW t \in Tasks, Stop(t) PROVE TaskInv'
<1>1. task[t].pc = "stop" /\ (Await(t, "stop_inspect") \/ Goto(t, "stop_return"))
  BY DEF Stop, At
<1>2. task[t].v \in Sessions
  BY <1>1 DEF TaskInv, Sound, VPoints
<1> QED BY <1>1, <1>2, Continues DEF Points, RunPoints, AwaitPoints, SPoints, VPoints,
          RungPoints, PipePoints, StartPoints, ReleasePoints

LEMMA StopInspectedTask ==
    ASSUME TaskInv, NEW t \in Tasks, StopInspected(t) \/ TargetStopped(t) PROVE TaskInv'
<1> DEFINE c == task[t]
           d == [c EXCEPT !.pc = "sinks", !.mode = "stop"]
<1>1. c \in Coroutine /\ Sound(c) /\ c.pc \in {"stop_inspect", "stop_target"}
  BY DEF TaskInv, StopInspected, TargetStopped, Wakes
<1>2. c.v \in Sessions
  BY <1>1 DEF Sound, VPoints
<1>3. CASE Await(t, "stop_target")
  BY <1>2, <1>3, Continues DEF Points, AwaitPoints, SPoints, RungPoints, PipePoints, StartPoints
<1>4. CASE Run(t, d)
  <2>1. "sinks" \in Points
    BY DEF Points, RunPoints
  <2>2. d \in Coroutine
    BY <1>1, <2>1 DEF Coroutine, Points
  <2>3. Sound(d)
    BY <1>1, <1>2 DEF Sound, Coroutine, SPoints, PipePoints, RungPoints, StartPoints
  <2> QED BY <1>4, <2>2, <2>3, Moves
<1> QED BY <1>3, <1>4 DEF StopInspected, TargetStopped

LEMMA StopDoneTask ==
    ASSUME TaskInv, NEW t \in Tasks, StopDone(t) PROVE TaskInv'
<1>1. task[t].pc = "stop_done" /\ (Goto(t, "stop_return") \/ Finish(t))
  BY DEF StopDone, At
<1>2. task[t].v \in Sessions
  BY <1>1 DEF TaskInv, Sound, VPoints
<1> QED BY <1>1, <1>2, Continues, Finishes DEF Points, RunPoints, SPoints, VPoints,
          RungPoints, PipePoints, StartPoints, ReleasePoints

LEMMA StopReturnTask ==
    ASSUME TaskInv, NEW t \in Tasks, StopReturn(t) PROVE TaskInv'
<1> DEFINE c == task[t]
           d(next) == [c EXCEPT !.pc = next, !.v = None, !.ret = "done"]
           i == [c EXCEPT !.pc = "incumbents", !.todo = c.todo \ {c.v}, !.v = None, !.ret = "done"]
<1>1. c \in Coroutine /\ Sound(c) /\ c.pc = "stop_return"
  BY DEF TaskInv, StopReturn, At
<1>2. c.v \in Sessions
  BY <1>1 DEF Sound, VPoints
<1>3. CASE \E next \in {"create", "insert", "start_return"} :
             (next = "start_return" => c.ret = "start_return") /\ Run(t, d(next))
  <2>1. PICK next \in {"create", "insert", "start_return"} :
             (next = "start_return" => c.ret = "start_return") /\ Run(t, d(next))
    BY <1>3
  <2>2. next \in Points
    BY DEF Points, RunPoints
  <2>3. d(next) \in Coroutine
    BY <1>1, <2>2 DEF Coroutine, Points
  <2>4. Sound(d(next))
    BY <1>1, <2>1 DEF Sound, Coroutine, SPoints, VPoints, PipePoints, RungPoints,
         StartPoints, ReleasePoints
  <2> QED BY <2>1, <2>3, <2>4, Moves
<1>4. CASE c.ret = "incumbents" /\ Run(t, i)
  <2>1. "incumbents" \in Points /\ c.todo \ {c.v} \in SUBSET Sessions
    BY <1>1 DEF Points, RunPoints, Coroutine
  <2>2. i \in Coroutine
    BY <1>1, <2>1 DEF Coroutine, Points
  <2>3. Sound(i)
    BY <1>1, <1>4 DEF Sound, Coroutine, SPoints, VPoints, PipePoints, RungPoints,
         StartPoints, ReleasePoints
  <2> QED BY <1>4, <2>2, <2>3, Moves
<1>5. CASE Created(t, c.v, "start", "done")
  BY <1>2, <1>5, CreatedTask
<1>6. CASE Finish(t)
  BY <1>6, Finishes
<1> QED BY <1>1, <1>3, <1>4, <1>5, <1>6 DEF StopReturn, Coroutine

\* Within the release: to another point of it, or on to what follows.
LEMMA Releases ==
    ASSUME TaskInv, NEW t \in Tasks, task[t].pc \in ReleasePoints,
           NEW pc \in ReleasePoints \cup {"stop_done"},
           NEW p \in Pipelines \cup {None}, pc \in PipePoints => p \in Pipelines,
           LET d == [task[t] EXCEPT !.pc = pc, !.pipe = p] IN Run(t, d) \/ Wait(t, d)
    PROVE  TaskInv'
<1> DEFINE c == task[t]
           d == [c EXCEPT !.pc = pc, !.pipe = p]
<1>1. c \in Coroutine /\ Sound(c)
  BY DEF TaskInv
<1>2. pc \in Points /\ pc \notin SPoints /\ pc \notin RungPoints
  BY DEF Points, RunPoints, AwaitPoints, ReleasePoints, SPoints, StartPoints, RungPoints
<1>3. d \in Coroutine
  BY <1>1, <1>2 DEF Coroutine, Points
<1>4. c.v \in Sessions
  BY <1>1 DEF Sound, VPoints
<1>5. Sound(d)
  BY <1>1, <1>2, <1>4 DEF Sound, Coroutine
<1> QED BY <1>3, <1>5, Moves

LEMMA RaiseTask ==
    ASSUME TaskInv, NEW t \in Tasks, Raise(t) PROVE TaskInv'
<1> DEFINE c == task[t]
           d == [c EXCEPT !.pc = "failed", !.v = None, !.mode = "stop", !.pipe = None]
<1>1. c \in Coroutine /\ Sound(c)
  BY DEF TaskInv
<1>2. CASE c.mode = "cleanup" /\ Run(t, d)
  <2>1. "failed" \in Points
    BY DEF Points, RunPoints
  <2>2. d \in Coroutine
    BY <1>1, <2>1 DEF Coroutine, Points
  <2>3. Sound(d)
    BY <1>1, <1>2 DEF Sound, Coroutine, SPoints, VPoints, PipePoints, RungPoints,
         StartPoints, ReleasePoints
  <2> QED BY <1>2, <2>2, <2>3, Moves
<1>3. CASE Finish(t)
  BY <1>3, Finishes
<1> QED BY <1>2, <1>3 DEF Raise

LEMMA PipelineGoneTask ==
    ASSUME TaskInv, NEW t \in Tasks, NEW p, task[t].pc \in ReleasePoints, PipelineGone(t, p)
    PROVE  TaskInv'
<1> DEFINE c == task[t]
           d == [c EXCEPT !.pc = "retry", !.pipe = None]
<1>1. c \in Coroutine /\ Sound(c)
  BY DEF TaskInv
<1>2. CASE Run(t, [c EXCEPT !.pc = "stop_done", !.pipe = None])
  <2>1. "stop_done" \notin PipePoints /\ None \in Pipelines \cup {None}
    BY DEF PipePoints
  <2> QED BY <1>2, <2>1, Releases
<1>3. CASE c.mode = "cleanup" /\ Run(t, d)
  <2>1. "retry" \in Points
    BY DEF Points, RunPoints
  <2>2. d \in Coroutine
    BY <1>1, <2>1 DEF Coroutine, Points
  <2>3. Sound(d)
    BY <1>1, <1>3 DEF Sound, Coroutine, SPoints, VPoints, PipePoints, RungPoints,
         StartPoints, ReleasePoints
  <2> QED BY <1>3, <2>2, <2>3, Moves
<1>4. CASE Finish(t)
  BY <1>4, Finishes
<1>5. c.mode \in {"stop", "cleanup", "quiesce"}
  BY <1>1 DEF Coroutine
<1>6. ASSUME c.mode = "stop" PROVE Run(t, [c EXCEPT !.pc = "stop_done", !.pipe = None])
  BY <1>6 DEF PipelineGone
<1>7. ASSUME c.mode = "cleanup" PROVE Run(t, d)
  BY <1>7 DEF PipelineGone
<1>8. ASSUME c.mode = "quiesce" PROVE Finish(t)
  BY <1>8 DEF PipelineGone
<1> QED BY <1>2, <1>3, <1>4, <1>5, <1>6, <1>7, <1>8

LEMMA ReleaseSinkTask ==
    ASSUME TaskInv, NEW t \in Tasks, ReleaseSink(t) \/ SinkStopped(t) PROVE TaskInv'
<1>1. task[t].pc \in {"sinks", "sink_stop"}
  BY DEF ReleaseSink, SinkStopped, At, Wakes
<1>2. task[t].v \in Sessions
  BY <1>1 DEF TaskInv, Sound, VPoints, ReleasePoints
<1>3. Raise(t) \/ \E pc \in {"sink_stop", "release_source"} : Goto(t, pc) \/ Await(t, pc)
  BY DEF ReleaseSink, SinkStopped
<1> QED BY <1>2, <1>3, RaiseTask, Continues DEF Points, RunPoints, AwaitPoints, SPoints,
          VPoints, RungPoints, PipePoints, StartPoints, ReleasePoints

LEMMA ReleaseSourceTask ==
    ASSUME IInv, NEW t \in Tasks, ReleaseSource(t) PROVE TaskInv'
<1> DEFINE p == pipeOf[task[t].v]
<1>1. TaskInv /\ task[t].pc = "release_source"
  BY DEF IInv, ReleaseSource, At
<1>2. task[t].v \in Sessions
  BY <1>1 DEF TaskInv, Sound, VPoints, ReleasePoints
<1>3. p \in Pipelines \cup {None}
  BY <1>2 DEF IInv, MediaInv
<1>4. CASE PipelineGone(t, p)
  BY <1>1, <1>4, PipelineGoneTask DEF ReleasePoints
<1>5. CASE p # None /\ Wait(t, [task[t] EXCEPT !.pc = "pipe_stop", !.pipe = p])
  BY <1>1, <1>3, <1>5, Releases DEF ReleasePoints
<1> QED BY <1>4, <1>5 DEF ReleaseSource

LEMMA PipelineStoppedTask ==
    ASSUME TaskInv, NEW t \in Tasks, PipelineStopped(t) PROVE TaskInv'
<1>1. task[t].pc = "pipe_stop"
  BY DEF PipelineStopped, Wakes
<1> QED BY <1>1, RaiseTask, PipelineGoneTask DEF PipelineStopped, ReleasePoints

LEMMA TargetHealedTask ==
    ASSUME TaskInv, NEW t \in Tasks, TargetHealed(t) PROVE TaskInv'
BY Finishes DEF TargetHealed

-----------------------------------------------------------------------------
(* Session states: what every action does to them *)

\* No change but an accepted transition, and not one to STARTING.
StateKept ==
    \/ UNCHANGED state
    \/ \E s \in Sessions, new \in SessionState \ {STARTING} : CanMove(s, new) /\ Move(s, new)

LEMMA OtherStates ==
    {PLAYING, HEALING, DEGRADED, QUIESCED, SUPERSEDED, STOPPING, STOPPED, FAILED}
        \subseteq SessionState \ {STARTING}
BY DEF SessionState, STARTING, PLAYING, HEALING, DEGRADED, QUIESCED, SUPERSEDED, STOPPING,
   STOPPED, FAILED

LEMMA CoroutineState ==
    ASSUME IInv, NEW t \in Tasks, Runs(t) \/ Awakens(t), ~Insert(t), ~EnterStarting(t)
    PROVE  StateKept /\ UNCHANGED info
<1> USE DEF StateKept, sessionVars, PlayPass
<1>0. Sound(task[t])
  BY DEF IInv, TaskInv
<1>1. CASE Play(t)
  BY <1>1 DEF Play
<1>2. CASE Create(t)
  BY <1>2 DEF Create
<1>3. CASE Resume(t)
  BY <1>3 DEF Resume
<1>4. CASE Start(t)
  BY <1>4 DEF Start
<1>5. CASE StopIncumbent(t)
  BY <1>5 DEF StopIncumbent
<1>7. CASE Attempt(t)
  BY <1>7 DEF Attempt
<1>8. CASE SetUp(t)
  BY <1>8 DEF SetUp
<1>9. CASE Started(t)
  <2>1. task[t].s \in Sessions
    BY <1>0, <1>9 DEF Sound, SPoints, StartPoints, Started, At
  <2> QED BY <1>9, <2>1, OtherStates DEF Started
<1>10. CASE CleanUp(t)
  BY <1>10 DEF CleanUp
<1>11. CASE Retry(t)
  BY <1>11 DEF Retry
<1>12. CASE StartFailed(t)
  <2>1. task[t].s \in Sessions
    BY <1>0, <1>12 DEF Sound, SPoints, StartPoints, StartFailed, At
  <2> QED BY <1>12, <2>1, OtherStates DEF StartFailed
<1>13. CASE StartReturn(t)
  BY <1>13 DEF StartReturn
<1>14. CASE Stop(t)
  <2>1. task[t].v \in Sessions
    BY <1>0, <1>14 DEF Sound, VPoints, Stop, At
  <2> QED BY <1>14, <2>1, OtherStates DEF Stop
<1>15. CASE ReleaseSink(t)
  BY <1>15 DEF ReleaseSink
<1>16. CASE ReleaseSource(t)
  BY <1>16 DEF ReleaseSource
<1>17. CASE StopDone(t)
  <2>1. task[t].v \in Sessions
    BY <1>0, <1>17 DEF Sound, VPoints, StopDone, At
  <2> QED BY <1>17, <2>1, OtherStates DEF StopDone
<1>18. CASE StopReturn(t)
  <2>1. task[t].v \in Sessions
    BY <1>0, <1>18 DEF Sound, VPoints, StopReturn, At
  <2>2. UNCHANGED state \/ MoveIfValid(task[t].v, SUPERSEDED)
    BY <1>18 DEF StopReturn, IInv, TaskInv, Coroutine
  <2> QED BY <1>18, <2>1, <2>2, OtherStates DEF StopReturn, MoveIfValid, Move
<1>19. CASE CreateInspected(t)
  BY <1>19 DEF CreateInspected
<1>20. CASE ResumeInspected(t)
  BY <1>20 DEF ResumeInspected
<1>21. CASE OldPipeStopped(t)
  BY <1>21 DEF OldPipeStopped
<1>22. CASE SinkStoppedAfterFailure(t)
  BY <1>22 DEF SinkStoppedAfterFailure
<1>23. CASE PipelineStarted(t)
  BY <1>23 DEF PipelineStarted
<1>24. CASE TargetPrepared(t)
  BY <1>24 DEF TargetPrepared
<1>25. CASE StreamPlayed(t)
  BY <1>25 DEF StreamPlayed
<1>26. CASE StopInspected(t)
  BY <1>26 DEF StopInspected
<1>27. CASE TargetStopped(t)
  BY <1>27 DEF TargetStopped
<1>28. CASE SinkStopped(t)
  BY <1>28 DEF SinkStopped
<1>29. CASE PipelineStopped(t)
  BY <1>29 DEF PipelineStopped
<1>30. CASE TargetHealed(t)
  <2>1. task[t].s \in Sessions
    BY <1>0, <1>30 DEF Sound, SPoints, TargetHealed, Wakes
  <2> QED BY <1>30, <2>1, OtherStates DEF TargetHealed, Move
<1> QED BY <1>1, <1>2, <1>3, <1>4, <1>5, <1>7, <1>8, <1>9, <1>10, <1>11, <1>12,
          <1>13, <1>14, <1>15, <1>16, <1>17, <1>18, <1>19, <1>20, <1>21, <1>22, <1>23,
          <1>24, <1>25, <1>26, <1>27, <1>28, <1>29, <1>30 DEF Runs, Awakens

LEMMA EnterStartingState ==
    ASSUME IInv, NEW t \in Tasks, EnterStarting(t)
    PROVE  /\ UNCHANGED info
           /\ UNCHANGED state \/ (CanMove(task[t].s, STARTING) /\ Move(task[t].s, STARTING))
           /\ task[t].s \in Sessions
<1>1. task[t].s \in Sessions
  BY DEF IInv, TaskInv, Sound, SPoints, EnterStarting, At
<1> QED BY <1>1 DEF EnterStarting

LEMMA ApiState ==
    ASSUME IInv, NEW t \in Tasks, Api(t) PROVE StateKept /\ UNCHANGED info
<1> USE DEF StateKept, sessionVars
<1>1. CASE CallPlay(t) \/ CallCreate(t) \/ CallStart(t) \/ CallStop(t) \/ CallResume(t)
  BY <1>1 DEF CallPlay, CallCreate, CallStart, CallStop, CallResume
<1>2. CASE CallRecover(t)
  BY <1>2, OtherStates DEF CallRecover
<1> QED BY <1>1, <1>2 DEF Api

LEMMA InsertState ==
    ASSUME IInv, NEW t \in Tasks, Insert(t)
    PROVE  /\ SessionInv'
           /\ \E s \in Sessions, old \in SUBSET Sessions :
                /\ state[s] = ABSENT
                /\ \A o \in old : state[o] \in {SUPERSEDED, STOPPED, FAILED}
                /\ state' = [x \in Sessions |-> IF x = s THEN CREATED
                                               ELSE IF x \in old THEN PRUNED ELSE state[x]]
<1>1. PICK s \in Sessions, old \in SUBSET Prunable :
        /\ First(s, {x \in Sessions : state[x] = ABSENT})
        /\ state' = [x \in Sessions |-> IF x = s THEN CREATED
                                        ELSE IF x \in old THEN PRUNED ELSE state[x]]
        /\ info' = [info EXCEPT ![s] = task[t].req.info]
  BY DEF Insert
<1>2. state[s] = ABSENT /\ old \subseteq Sessions
      /\ \A o \in old : state[o] \in {SUPERSEDED, STOPPED, FAILED}
  BY <1>1 DEF First, Prunable
<1>3. task[t].req.info \in Info
  BY DEF IInv, TaskInv, Coroutine, Request
<1>4. SessionInv'
  BY <1>1, <1>3 DEF SessionInv, IInv, SessionState, Unlisted
<1> QED BY <1>1, <1>2, <1>4

LEMMA KeptState ==
    ASSUME SessionInv, StateKept, UNCHANGED info PROVE SessionInv'
BY DEF SessionInv, StateKept, Move

-----------------------------------------------------------------------------
(* Media path: pipelines, sources, renderer and monitors *)

LEMMA CoroutineMedia ==
    ASSUME IInv, NEW t \in Tasks, Runs(t) \/ Awakens(t) PROVE MediaInv'
<1> DEFINE c == task[t]
<1>0. MediaInv /\ Sound(c)
  BY DEF IInv, TaskInv
<1>1. CASE UNCHANGED mediaVars
  BY <1>0, <1>1 DEF MediaInv, mediaVars
<1>2. \A p \in Pipelines : BeginPipeStop(p) \/ EndPipeStop(p) =>
         pipe' \in [Pipelines -> [st : PipeState, of : Sessions]]
  BY <1>0 DEF MediaInv, BeginPipeStop, EndPipeStop, PipeState
<1>3. CASE Attempt(t)
  <2>1. c.s \in Sessions
    BY <1>0, <1>3 DEF Sound, SPoints, StartPoints, Attempt, At
  <2>2. pipeOf[c.s] \in Pipelines \cup {None}
    BY <1>0, <2>1 DEF MediaInv
  <2>3. UNCHANGED pipe \/ (pipeOf[c.s] # None /\ BeginPipeStop(pipeOf[c.s]))
    BY <1>3 DEF Attempt
  <2>4. UNCHANGED pipeOf \/ pipeOf' = [pipeOf EXCEPT ![c.s] = None]
    BY <1>3 DEF Attempt
  <2>5. UNCHANGED <<published, url>>
    BY <1>3 DEF Attempt
  <2> QED BY <1>0, <1>2, <2>2, <2>3, <2>4, <2>5 DEF MediaInv
<1>4. CASE OldPipeStopped(t)
  <2>1. c.pipe \in Pipelines
    BY <1>0, <1>4 DEF Sound, PipePoints, OldPipeStopped, Wakes
  <2>2. UNCHANGED pipe \/ EndPipeStop(c.pipe)
    BY <1>4 DEF OldPipeStopped
  <2>3. UNCHANGED pipeOf \/ pipeOf' = [pipeOf EXCEPT ![c.s] = None]
    BY <1>4 DEF OldPipeStopped
  <2>4. UNCHANGED <<published, url>>
    BY <1>4 DEF OldPipeStopped
  <2> QED BY <1>0, <1>2, <2>1, <2>2, <2>3, <2>4 DEF MediaInv
<1>5. CASE SetUp(t)
  <2>1. c.s \in Sessions
    BY <1>0, <1>5 DEF Sound, SPoints, StartPoints, SetUp, At
  <2>2. NoPipeline \in [st : PipeState, of : Sessions]
    BY BoundsAssumption DEF NoPipeline, PipeState, Sessions
  <2>3. CASE \E p \in Pipelines :
          /\ pipe' = [x \in Pipelines |-> IF x = p THEN [st |-> "built", of |-> c.s]
                                         ELSE IF Referenced(x) THEN pipe[x] ELSE NoPipeline]
          /\ pipeOf' = [pipeOf EXCEPT ![c.s] = p]
          /\ published' = [published EXCEPT ![c.s] = p]
          /\ url' = [url EXCEPT ![c.s] = TRUE]
    <3>1. PICK p \in Pipelines :
          /\ pipe' = [x \in Pipelines |-> IF x = p THEN [st |-> "built", of |-> c.s]
                                         ELSE IF Referenced(x) THEN pipe[x] ELSE NoPipeline]
          /\ pipeOf' = [pipeOf EXCEPT ![c.s] = p]
          /\ published' = [published EXCEPT ![c.s] = p]
          /\ url' = [url EXCEPT ![c.s] = TRUE]
      BY <2>3
    <3>2. [st |-> "built", of |-> c.s] \in [st : PipeState, of : Sessions]
      BY <2>1 DEF PipeState
    <3>3. pipe' \in [Pipelines -> [st : PipeState, of : Sessions]]
      BY <1>0, <2>2, <3>1, <3>2 DEF MediaInv
    <3> QED BY <1>0, <3>1, <3>3 DEF MediaInv
  <2> QED BY <1>1, <1>5, <2>3 DEF SetUp
<1>6. CASE PipelineStarted(t)
  <2>1. UNCHANGED pipe \/ pipe' = [pipe EXCEPT ![c.pipe].st = "running"]
    BY <1>6 DEF PipelineStarted
  <2>2. UNCHANGED <<pipeOf, published, url>>
    BY <1>6 DEF PipelineStarted
  <2>3. pipe' \in [Pipelines -> [st : PipeState, of : Sessions]]
    BY <1>0, <2>1 DEF MediaInv, PipeState
  <2> QED BY <1>0, <2>2, <2>3 DEF MediaInv
<1>7. CASE Retry(t)
  BY <1>0, <1>7 DEF Retry, MediaInv
<1>8. ASSUME NEW p, PipelineGone(t, p)
      PROVE  /\ UNCHANGED published \/ published' = [published EXCEPT ![c.v] = None]
             /\ UNCHANGED pipeOf \/ pipeOf' = [pipeOf EXCEPT ![c.v] = None]
  <2>1. c.mode \in {"stop", "cleanup", "quiesce"}
    BY DEF IInv, TaskInv, Coroutine
  <2>2. CASE c.mode = "stop"
    BY <1>8, <2>2 DEF PipelineGone
  <2>3. CASE c.mode = "cleanup"
    BY <1>8, <2>3 DEF PipelineGone
  <2>4. CASE c.mode = "quiesce"
    BY <1>8, <2>4 DEF PipelineGone
  <2> QED BY <2>1, <2>2, <2>3, <2>4
<1>9. CASE ReleaseSource(t)
  <2>1. c.v \in Sessions
    BY <1>0, <1>9 DEF Sound, VPoints, ReleasePoints, ReleaseSource, At
  <2>2. pipeOf[c.v] \in Pipelines \cup {None}
    BY <1>0, <2>1 DEF MediaInv
  <2>3. UNCHANGED url
    BY <1>9 DEF ReleaseSource
  <2>4. CASE PipelineGone(t, pipeOf[c.v]) /\ UNCHANGED pipe
    BY <1>0, <1>8, <2>3, <2>4 DEF MediaInv
  <2>5. CASE pipeOf[c.v] # None /\ BeginPipeStop(pipeOf[c.v]) /\ UNCHANGED <<pipeOf, published>>
    BY <1>0, <1>2, <2>2, <2>3, <2>5 DEF MediaInv
  <2> QED BY <1>9, <2>4, <2>5 DEF ReleaseSource
<1>10. CASE PipelineStopped(t)
  <2>1. c.pipe \in Pipelines
    BY <1>0, <1>10 DEF Sound, PipePoints, PipelineStopped, Wakes
  <2>2. UNCHANGED url
    BY <1>10 DEF PipelineStopped
  <2>3. CASE UNCHANGED <<pipe, pipeOf, published>>
    BY <1>0, <2>2, <2>3 DEF MediaInv
  <2>4. CASE EndPipeStop(c.pipe) /\ PipelineGone(t, c.pipe)
    BY <1>0, <1>2, <1>8, <2>1, <2>2, <2>4 DEF MediaInv
  <2> QED BY <1>10, <2>3, <2>4 DEF PipelineStopped
<1>11. CASE \/ Play(t) \/ Create(t) \/ Insert(t) \/ Resume(t) \/ Start(t) \/ StopIncumbent(t)
            \/ EnterStarting(t) \/ Started(t) \/ CleanUp(t) \/ StartFailed(t) \/ StartReturn(t)
            \/ Stop(t) \/ ReleaseSink(t) \/ StopDone(t) \/ StopReturn(t)
  BY <1>1, <1>11 DEF Play, Create, Insert, Resume, Start, StopIncumbent, EnterStarting,
     Started, CleanUp, StartFailed, StartReturn, Stop, ReleaseSink, StopDone, StopReturn, PlayPass
<1>12. CASE \/ CreateInspected(t) \/ ResumeInspected(t) \/ SinkStoppedAfterFailure(t)
            \/ TargetPrepared(t) \/ StreamPlayed(t) \/ StopInspected(t) \/ TargetStopped(t)
            \/ SinkStopped(t) \/ TargetHealed(t)
  BY <1>1, <1>12 DEF CreateInspected, ResumeInspected, SinkStoppedAfterFailure, TargetPrepared,
     StreamPlayed, StopInspected, TargetStopped, SinkStopped, TargetHealed, PlayPass
<1> QED BY <1>3, <1>4, <1>5, <1>6, <1>7, <1>9, <1>10, <1>11, <1>12 DEF Runs, Awakens

LEMMA CoroutineSource ==
    ASSUME IInv, NEW t \in Tasks, Runs(t) \/ Awakens(t) PROVE SourceInv'
<1> DEFINE c == task[t]
<1>0. SourceInv /\ Sound(c)
  BY DEF IInv, TaskInv
<1>1. CASE UNCHANGED sourceVars
  BY <1>0, <1>1 DEF SourceInv, sourceVars
<1>2. CASE SetUp(t)
  <2>1. c.s \in Sessions
    BY <1>0, <1>2 DEF Sound, SPoints, StartPoints, SetUp, At
  <2>2. CASE /\ sink' = [sink EXCEPT ![c.s] = "live"]
             /\ sinks' = [sinks EXCEPT ![c.s] = @ + 1]
             /\ captures' = [captures EXCEPT ![c.s] = @ + 1]
             /\ adapter' = [adapter EXCEPT ![c.s] = TRUE]
    BY <1>0, <2>1, <2>2 DEF SourceInv
  <2>3. CASE /\ sink' = [sink EXCEPT ![c.s] = "stopping"]
             /\ UNCHANGED <<sinks, captures, adapter>>
    BY <1>0, <2>1, <2>3 DEF SourceInv
  <2> QED BY <1>1, <1>2, <2>2, <2>3 DEF SetUp
<1>3. CASE SinkStoppedAfterFailure(t)
  BY <1>0, <1>3 DEF SinkStoppedAfterFailure, SourceInv
<1>4. CASE ReleaseSink(t)
  <2>1. c.v \in Sessions
    BY <1>0, <1>4 DEF Sound, VPoints, ReleasePoints, ReleaseSink, At
  <2>2. /\ sinks' = [sinks EXCEPT ![c.v] = IF sink[c.v] = "live" THEN @ - 1 ELSE @]
        /\ sink' = [sink EXCEPT ![c.v] = "stopping"] \/ sink' = [sink EXCEPT ![c.v] = "none"]
        /\ UNCHANGED <<adapter, captures>>
    BY <1>4 DEF ReleaseSink
  <2> QED BY <1>0, <2>1, <2>2 DEF SourceInv
<1>5. CASE SinkStopped(t)
  BY <1>0, <1>5 DEF SinkStopped, SourceInv
<1>6. CASE ReleaseSource(t)
  <2>1. c.v \in Sessions
    BY <1>0, <1>6 DEF Sound, VPoints, ReleasePoints, ReleaseSource, At
  <2>2. /\ captures' = [captures EXCEPT ![c.v] = IF adapter[c.v] THEN @ - 1 ELSE @]
        /\ adapter' = [adapter EXCEPT ![c.v] = FALSE]
        /\ UNCHANGED <<sink, sinks>>
    BY <1>6 DEF ReleaseSource
  <2> QED BY <1>0, <2>1, <2>2 DEF SourceInv
<1>7. CASE \/ Play(t) \/ Create(t) \/ Insert(t) \/ Resume(t) \/ Start(t) \/ StopIncumbent(t)
           \/ EnterStarting(t) \/ Attempt(t) \/ Started(t) \/ CleanUp(t) \/ Retry(t)
           \/ StartFailed(t) \/ StartReturn(t) \/ Stop(t) \/ StopDone(t) \/ StopReturn(t)
  BY <1>1, <1>7 DEF Play, Create, Insert, Resume, Start, StopIncumbent, EnterStarting,
     Attempt, Started, CleanUp, Retry, StartFailed, StartReturn, Stop, StopDone, StopReturn,
     PlayPass
<1>8. CASE \/ CreateInspected(t) \/ ResumeInspected(t) \/ OldPipeStopped(t)
           \/ PipelineStarted(t) \/ TargetPrepared(t) \/ StreamPlayed(t) \/ StopInspected(t)
           \/ TargetStopped(t) \/ PipelineStopped(t) \/ TargetHealed(t)
  BY <1>1, <1>8 DEF CreateInspected, ResumeInspected, OldPipeStopped, PipelineStarted,
     TargetPrepared, StreamPlayed, StopInspected, TargetStopped, PipelineStopped,
     TargetHealed, PlayPass
<1> QED BY <1>2, <1>3, <1>4, <1>5, <1>6, <1>7, <1>8 DEF Runs, Awakens

LEMMA CoroutineOutside ==
    ASSUME IInv, NEW t \in Tasks, Runs(t) \/ Awakens(t) PROVE OutsideInv'
<1> DEFINE c == task[t]
<1>0. OutsideInv /\ Sound(c)
  BY DEF IInv, TaskInv
<1>1. CASE UNCHANGED <<monitor, renderer>>
  BY <1>0, <1>1 DEF OutsideInv
<1>4. CASE Started(t) \/ CleanUp(t) \/ Stop(t)
  BY <1>0, <1>4 DEF Started, CleanUp, Stop, OutsideInv
<1>5. CASE StreamPlayed(t) \/ TargetHealed(t)
  <2>1. c.s \in Sessions
    BY <1>0, <1>5 DEF Sound, SPoints, StartPoints, StreamPlayed, TargetHealed, Wakes
  <2> QED BY <1>0, <1>5, <2>1 DEF StreamPlayed, TargetHealed, Told, OutsideInv
<1>6. CASE TargetStopped(t)
  BY <1>0, <1>6 DEF TargetStopped, Told, OutsideInv
<1>7. CASE \/ Play(t) \/ Create(t) \/ Insert(t) \/ Resume(t) \/ Start(t) \/ StopIncumbent(t)
           \/ EnterStarting(t) \/ Attempt(t) \/ SetUp(t) \/ Retry(t) \/ StartFailed(t)
           \/ StartReturn(t) \/ ReleaseSink(t) \/ ReleaseSource(t) \/ StopDone(t) \/ StopReturn(t)
  BY <1>1, <1>7 DEF Play, Create, Insert, Resume, Start, StopIncumbent, EnterStarting,
     Attempt, SetUp, Retry, StartFailed, StartReturn, ReleaseSink, ReleaseSource, StopDone,
     StopReturn, PlayPass
<1>8. CASE \/ CreateInspected(t) \/ ResumeInspected(t) \/ OldPipeStopped(t)
           \/ SinkStoppedAfterFailure(t) \/ PipelineStarted(t) \/ TargetPrepared(t)
           \/ StopInspected(t) \/ SinkStopped(t) \/ PipelineStopped(t)
  BY <1>1, <1>8 DEF CreateInspected, ResumeInspected, OldPipeStopped, SinkStoppedAfterFailure,
     PipelineStarted, TargetPrepared, StopInspected, SinkStopped, PipelineStopped, PlayPass
<1> QED BY <1>4, <1>5, <1>6, <1>7, <1>8 DEF Runs, Awakens

-----------------------------------------------------------------------------
(* The background *)

LEMMA Spawns ==
    ASSUME TaskInv, NEW u \in Tasks, NEW c \in Coroutine, Sound(c), Spawn(u, c) PROVE TaskInv'
BY Moves DEF Spawn

\* Every state but SUPERSEDED may become FAILED by the table.
ErrorState(s) ==
    \/ UNCHANGED state
    \/ Move(s, FAILED) /\ (CanMove(s, FAILED) \/ state[s] = SUPERSEDED)

LEMMA SessionErrorStep ==
    ASSUME IInv, NEW s \in Sessions, HandleSessionError(s)
    PROVE  TaskInv' /\ ErrorState(s)
<1>1. CASE UNCHANGED <<state, task, loop>>
  BY <1>1 DEF IInv, TaskInv, ErrorState
<1>2. CASE /\ state[s] \notin Ended \cup Unlisted /\ Move(s, FAILED)
           /\ \E u \in Tasks : Spawn(u, [Idle EXCEPT !.pc = "stop", !.v = s])
  <2>1. TaskInv'
    BY <1>2, SessionRecord, Spawns DEF IInv
  <2>2. state[s] \in SessionState \ Ended
    BY <1>2 DEF IInv, SessionInv
  <2>3. CanMove(s, FAILED) \/ state[s] = SUPERSEDED
    BY <2>2 DEF CanMove, ValidTransitions, SessionState, Ended, CREATED, PREPARING, READY,
       STARTING, PLAYING, HEALING, DEGRADED, QUIESCED, SUPERSEDED, STOPPING, STOPPED, FAILED
  <2> QED BY <1>2, <2>1, <2>3 DEF ErrorState
<1> QED BY <1>1, <1>2 DEF HandleSessionError

BackgroundState == StateKept \/ \E s \in Sessions : ErrorState(s)

LEMMA BackgroundStep ==
    ASSUME IInv, Background
    PROVE  /\ TaskInv' /\ MediaInv' /\ SourceInv' /\ OutsideInv'
           /\ BackgroundState /\ UNCHANGED info
<1> USE DEF sessionVars, mediaVars, sourceVars, BackgroundState, StateKept
<1>0. TaskInv /\ SessionInv /\ MediaInv /\ SourceInv /\ OutsideInv
  BY DEF IInv
<1>1. CASE PipelineCrash
  <2>1. PICK p \in Pipelines : /\ pipe' = [pipe EXCEPT ![p].st = "crashed"]
                               /\ HandleSessionError(pipe[p].of)
    BY <1>1 DEF PipelineCrash
  <2>2. pipe[p].of \in Sessions
    BY <1>0 DEF MediaInv
  <2>3. TaskInv' /\ ErrorState(pipe[p].of)
    BY <2>1, <2>2, SessionErrorStep
  <2>4. MediaInv'
    BY <1>0, <1>1, <2>1 DEF PipelineCrash, MediaInv, PipeState
  <2>5. SourceInv' /\ OutsideInv'
    BY <1>0, <1>1 DEF PipelineCrash, SourceInv, OutsideInv
  <2> QED BY <1>1, <2>2, <2>3, <2>4, <2>5 DEF PipelineCrash
<1>2. CASE SourceError
  <2>1. PICK s \in Sessions : HandleSessionError(s)
    BY <1>2 DEF SourceError
  <2>2. TaskInv' /\ ErrorState(s)
    BY <2>1, SessionErrorStep
  <2>3. MediaInv' /\ SourceInv' /\ OutsideInv'
    BY <1>0, <1>2 DEF SourceError, MediaInv, SourceInv, OutsideInv
  <2> QED BY <1>2, <2>2, <2>3 DEF SourceError
<1>3. CASE MonitorRetires
  <2>1. TaskInv'
    BY <1>0, <1>3 DEF MonitorRetires, TaskInv
  <2>2. MediaInv' /\ SourceInv' /\ OutsideInv'
    BY <1>0, <1>3 DEF MonitorRetires, MediaInv, SourceInv, OutsideInv
  <2> QED BY <1>3, <2>1, <2>2 DEF MonitorRetires
<1>4. CASE MonitorReclaimed
  <2>1. TaskInv'
    BY <1>0, <1>4, SessionRecord, Spawns DEF MonitorReclaimed
  <2>2. MediaInv' /\ SourceInv' /\ OutsideInv'
    BY <1>0, <1>4 DEF MonitorReclaimed, MediaInv, SourceInv, OutsideInv
  <2> QED BY <1>4, <2>1, <2>2 DEF MonitorReclaimed
<1>5. CASE MonitorOutage
  <2>1. TaskInv'
    BY <1>0, <1>5, SessionRecord, Spawns DEF MonitorOutage
  <2>2. MediaInv' /\ SourceInv' /\ OutsideInv'
    BY <1>0, <1>5 DEF MonitorOutage, MediaInv, SourceInv, OutsideInv
  <2> QED BY <1>5, <2>1, <2>2, OtherStates DEF MonitorOutage
<1>6. CASE MonitorTransport
  <2>1. TaskInv' /\ MediaInv' /\ SourceInv' /\ OutsideInv'
    BY <1>0, <1>6 DEF MonitorTransport, TaskInv, MediaInv, SourceInv, OutsideInv
  <2>2. PICK s \in Sessions : \/ state[s] = PLAYING /\ Move(s, DEGRADED)
                              \/ state[s] = DEGRADED /\ Move(s, PLAYING)
    BY <1>6 DEF MonitorTransport
  <2>3. <<PLAYING, DEGRADED>> \in ValidTransitions /\ <<DEGRADED, PLAYING>> \in ValidTransitions
    BY DEF ValidTransitions
  <2> QED BY <1>6, <2>1, <2>2, <2>3, OtherStates DEF MonitorTransport, CanMove
<1>7. CASE MonitorQuiesces
  <2>1. TaskInv'
    BY <1>0, <1>7, SessionRecord, Spawns DEF MonitorQuiesces
  <2>2. MediaInv' /\ SourceInv' /\ OutsideInv'
    BY <1>0, <1>7 DEF MonitorQuiesces, MediaInv, SourceInv, OutsideInv
  <2>3. <<PLAYING, QUIESCED>> \in ValidTransitions
    BY DEF ValidTransitions
  <2> QED BY <1>7, <2>1, <2>2, <2>3, OtherStates DEF MonitorQuiesces, CanMove
<1>8. CASE OtherController
  <2>1. TaskInv' /\ MediaInv' /\ SourceInv'
    BY <1>0, <1>8 DEF OtherController, TaskInv, MediaInv, SourceInv
  <2>2. OutsideInv'
    BY <1>0, <1>8 DEF OtherController, OutsideInv
  <2> QED BY <1>8, <2>1, <2>2 DEF OtherController
<1> QED BY <1>1, <1>2, <1>3, <1>4, <1>5, <1>6, <1>7, <1>8 DEF Background

-----------------------------------------------------------------------------
(* The inductive invariant *)

LEMMA InitIInv == Init => IInv
<1> SUFFICES ASSUME Init PROVE IInv
  OBVIOUS
<1>1. TaskInv
  BY IdleType DEF Init, TaskInv
<1>2. SessionInv
  BY NoInfoType DEF Init, SessionInv, Unlisted
<1>3. NoPipeline \in [st : PipeState, of : Sessions]
  BY BoundsAssumption DEF NoPipeline, PipeState, Sessions
<1>4. MediaInv
  BY <1>3 DEF Init, MediaInv
<1>5. SourceInv /\ OutsideInv
  BY DEF Init, SourceInv, OutsideInv
<1> QED BY <1>1, <1>2, <1>4, <1>5 DEF IInv

LEMMA CoroutineTask ==
    ASSUME IInv, NEW t \in Tasks, Runs(t) \/ Awakens(t) PROVE TaskInv'
<1> USE DEF IInv
<1>1. CASE Runs(t)
  BY <1>1, PlayTask, CreateTask, InsertTask, ResumeTask, StartTask, StopIncumbentTask,
     EnterStartingTask, AttemptTask, SetUpTask, StartedTask, CleanUpTask, RetryTask,
     StartFailedTask, StartReturnTask, StopTask, ReleaseSinkTask, ReleaseSourceTask,
     StopDoneTask, StopReturnTask DEF Runs
<1>2. CASE Awakens(t)
  BY <1>2, CreateInspectedTask, ResumeTask, OldPipeStoppedTask, SinkStoppedAfterFailureTask,
     PipelineStartedTask, TargetPreparedTask, StreamPlayedTask, StopInspectedTask,
     ReleaseSinkTask, PipelineStoppedTask, TargetHealedTask DEF Awakens
<1> QED BY <1>1, <1>2

LEMMA ApiData ==
    ASSUME IInv, NEW t \in Tasks, Api(t) PROVE MediaInv' /\ SourceInv' /\ OutsideInv'
BY DEF IInv, MediaInv, SourceInv, OutsideInv, Api, CallPlay, CallCreate, CallStart, CallStop,
   CallResume, CallRecover, mediaVars, sourceVars

LEMMA NextIInv == IInv /\ [Next]_vars => IInv'
<1> SUFFICES ASSUME IInv, [Next]_vars PROVE IInv'
  OBVIOUS
<1>1. CASE UNCHANGED vars
  BY <1>1 DEF IInv, TaskInv, SessionInv, MediaInv, SourceInv, OutsideInv, vars
<1>2. CASE Background
  <2>1. SessionInv'
    <3>1. CASE StateKept
      BY <1>2, <3>1, BackgroundStep, KeptState DEF IInv
    <3>2. CASE \E s \in Sessions : ErrorState(s)
      BY <1>2, <3>2, BackgroundStep DEF IInv, SessionInv, ErrorState, Move, SessionState
    <3> QED BY <1>2, <3>1, <3>2, BackgroundStep DEF BackgroundState
  <2> QED BY <1>2, <2>1, BackgroundStep DEF IInv
<1>3. ASSUME NEW t \in Tasks, Api(t) PROVE IInv'
  BY <1>3, ApiTask, ApiState, KeptState, ApiData DEF IInv
<1>4. ASSUME NEW t \in Tasks, Runs(t) \/ Awakens(t) PROVE IInv'
  <2>1. SessionInv'
    <3>1. CASE EnterStarting(t)
      BY <3>1, EnterStartingState DEF IInv, SessionInv, Move, SessionState
    <3> QED BY <1>4, <3>1, InsertState, CoroutineState, KeptState DEF IInv
  <2> QED BY <1>4, <2>1, CoroutineTask, CoroutineMedia, CoroutineSource, CoroutineOutside DEF IInv
<1> QED BY <1>1, <1>2, <1>3, <1>4 DEF Next

\* Every state of the program has its type: coroutines, sessions, pipelines,
\* and the numbers of captures and frame sinks, which never fall below zero.
THEOREM TypeCorrect == Spec => []TypeOK
<1>1. IInv => TypeOK
  BY DEF IInv, TaskInv, SessionInv, MediaInv, SourceInv, OutsideInv, TypeOK
<1> QED BY <1>1, InitIInv, NextIInv, PTL DEF Spec

\* Whatever calls, monitors and failures interleave, clients see session states
\* change only as SessionLifecycle says.
THEOREM ImplementsLifecycle == Spec => LifecycleSpec
<1>1. Init => Lifecycle!Init
  BY DEF Init, Lifecycle!Init, ABSENT, Lifecycle!ABSENT
<1>2. IInv /\ [Next]_vars => [Lifecycle!Next]_state
  <2> SUFFICES ASSUME IInv, [Next]_vars PROVE Lifecycle!Next \/ UNCHANGED state
    OBVIOUS
  <2> USE DEF Lifecycle!Next
  <2>0. /\ Lifecycle!SessionState = SessionState
        /\ Lifecycle!ValidTransitions = ValidTransitions
        /\ Lifecycle!ABSENT = ABSENT /\ Lifecycle!PRUNED = PRUNED
        /\ Lifecycle!CREATED = CREATED /\ Lifecycle!SUPERSEDED = SUPERSEDED
        /\ Lifecycle!STOPPED = STOPPED /\ Lifecycle!FAILED = FAILED
    BY DEF CREATED, PREPARING, READY, STARTING, PLAYING, HEALING, DEGRADED, QUIESCED,
       SUPERSEDED, STOPPING, STOPPED, FAILED, ABSENT, PRUNED, SessionState,
       ValidTransitions, Lifecycle!CREATED, Lifecycle!PREPARING, Lifecycle!READY,
       Lifecycle!STARTING, Lifecycle!PLAYING, Lifecycle!HEALING, Lifecycle!DEGRADED,
       Lifecycle!QUIESCED, Lifecycle!SUPERSEDED, Lifecycle!STOPPING, Lifecycle!STOPPED,
       Lifecycle!FAILED, Lifecycle!ABSENT, Lifecycle!PRUNED, Lifecycle!SessionState,
       Lifecycle!ValidTransitions
  <2>1. ASSUME StateKept PROVE Lifecycle!Next \/ UNCHANGED state
    BY <2>0, <2>1 DEF StateKept, CanMove, Move, Lifecycle!Transition
  <2>2. ASSUME NEW s \in Sessions, ErrorState(s) PROVE Lifecycle!Next \/ UNCHANGED state
    <3>1. FAILED \in SessionState
      BY DEF SessionState
    <3> QED BY <2>0, <2>2, <3>1 DEF ErrorState, CanMove, Move, Lifecycle!Transition, Lifecycle!ForceFailed
  <2>3. CASE UNCHANGED vars
    BY <2>3 DEF vars
  <2>4. CASE Background
    BY <2>1, <2>2, <2>4, BackgroundStep DEF BackgroundState
  <2>5. ASSUME NEW t \in Tasks, Api(t) PROVE Lifecycle!Next \/ UNCHANGED state
    BY <2>1, <2>5, ApiState
  <2>6. ASSUME NEW t \in Tasks, Insert(t) PROVE Lifecycle!Next \/ UNCHANGED state
    BY <2>0, <2>6, InsertState DEF Lifecycle!Create
  <2>7. ASSUME NEW t \in Tasks, EnterStarting(t) PROVE Lifecycle!Next \/ UNCHANGED state
    <3>1. STARTING \in SessionState
      BY DEF SessionState
    <3> QED BY <2>0, <2>7, <3>1, EnterStartingState DEF CanMove, Move, Lifecycle!Transition
  <2>8. ASSUME NEW t \in Tasks, Runs(t) \/ Awakens(t) PROVE Lifecycle!Next \/ UNCHANGED state
    BY <2>1, <2>6, <2>7, <2>8, CoroutineState
  <2> QED BY <2>3, <2>4, <2>5, <2>8 DEF Next
<1> QED BY <1>1, <1>2, InitIInv, NextIInv, PTL DEF Spec, LifecycleSpec, Lifecycle!Spec

-----------------------------------------------------------------------------
(* StartingIsDriven *)

\* Nothing but EnterStarting makes a session STARTING.
LEMMA OnlyEntered ==
    ASSUME IInv, Next, NEW s \in Sessions, state[s] # STARTING, state'[s] = STARTING
    PROVE  \E t \in Tasks : EnterStarting(t) /\ task[t].s = s
<1>1. ~StateKept
  BY DEF StateKept, Move, IInv, SessionInv
<1>2. \A r \in Sessions : ~ErrorState(r)
  BY DEF ErrorState, Move, IInv, SessionInv, STARTING, FAILED
<1>3. PICK t \in Tasks : Runs(t) \/ Awakens(t)
  BY <1>1, <1>2, BackgroundStep, ApiState DEF Next, BackgroundState
<1>4. ~Insert(t)
  BY InsertState DEF CREATED, PRUNED, STARTING
<1>5. EnterStarting(t)
  BY <1>1, <1>3, <1>4, CoroutineState
<1>6. task[t].s = s
  BY <1>5, EnterStartingState DEF Move, IInv, SessionInv
<1> QED BY <1>5, <1>6

InStart(c, s) ==
    /\ c.s = s
    /\ \/ c.pc \in StartPoints
       \/ c.pc \in ReleasePoints /\ c.mode = "cleanup"

LEMMA Lands ==
    ASSUME TaskInv, NEW t \in Tasks, NEW s, NEW d, Run(t, d) \/ Wait(t, d), InStart(d, s)
    PROVE  Starts(t, s)'
<1>1. task'[t] = d
  BY DEF TaskInv, Run, Wait
<1> QED BY <1>1 DEF InStart, Starts

\* Records with one or two new fields keep the session.
LEMMA LandsAt ==
    ASSUME TaskInv, NEW t \in Tasks, NEW s, task[t].s = s, NEW pc \in StartPoints,
           \/ Goto(t, pc) \/ Await(t, pc)
           \/ \E p : Run(t, [task[t] EXCEPT !.pc = pc, !.pipe = p])
           \/ \E p : Wait(t, [task[t] EXCEPT !.pc = pc, !.pipe = p])
    PROVE  Starts(t, s)'
<1> DEFINE c == task[t]
<1>1. c \in Coroutine
  BY DEF TaskInv
<1>2. InStart([c EXCEPT !.pc = pc], s)
  <2>0. PICK d : d = [c EXCEPT !.pc = pc]
    OBVIOUS
  <2>1. d.pc = pc /\ d.s = c.s
    BY <1>1, <2>0 DEF Coroutine
  <2>9. InStart(d, s)
    BY <2>1 DEF InStart
  <2> QED BY <2>0, <2>9
<1>3. ASSUME NEW p PROVE InStart([c EXCEPT !.pc = pc, !.pipe = p], s)
  <2>0. PICK d : d = [c EXCEPT !.pc = pc, !.pipe = p]
    OBVIOUS
  <2>1. d.pc = pc /\ d.s = c.s
    BY <1>1, <2>0 DEF Coroutine
  <2>9. InStart(d, s)
    BY <2>1 DEF InStart
  <2> QED BY <2>0, <2>9
<1> QED BY <1>2, <1>3, Lands DEF Goto, Await

\* A coroutine stays within the start of s until s is STARTING no more.
LEMMA StartGoesOn ==
    ASSUME IInv, NEW t \in Tasks, NEW s \in Sessions, task[t].s = s, state[s] = STARTING,
           task[t].pc \in StartPoints, Runs(t) \/ Awakens(t)
    PROVE  Starts(t, s)' \/ state'[s] # STARTING
<1> DEFINE c == task[t]
<1>0. TaskInv /\ c \in Coroutine
  BY DEF IInv, TaskInv
<1>1. CASE Attempt(t)
  BY <1>0, <1>1, LandsAt DEF Attempt, StartPoints
<1>2. CASE OldPipeStopped(t)
  BY <1>0, <1>2, LandsAt DEF OldPipeStopped, StartPoints
<1>3. CASE SetUp(t)
  BY <1>0, <1>3, LandsAt DEF SetUp, StartPoints
<1>4. CASE SinkStoppedAfterFailure(t)
  BY <1>0, <1>4, LandsAt DEF SinkStoppedAfterFailure, StartPoints
<1>5. CASE PipelineStarted(t)
  BY <1>0, <1>5, LandsAt DEF PipelineStarted, StartPoints
<1>6. CASE TargetPrepared(t)
  BY <1>0, <1>6, LandsAt DEF TargetPrepared, Wakes, StartPoints
<1>7. CASE StreamPlayed(t)
  BY <1>0, <1>7, LandsAt DEF StreamPlayed, Wakes, StartPoints
<1>8. CASE Started(t)
  BY <1>0, <1>8, LandsAt DEF Started, Move, IInv, SessionInv, StartPoints, STARTING, PLAYING
<1>9. CASE CleanUp(t)
  <2>1. InStart([c EXCEPT !.pc = "sinks", !.v = c.s, !.mode = "cleanup"], s)
    BY <1>0 DEF Coroutine, InStart, ReleasePoints
  <2> QED BY <1>0, <1>9, <2>1, Lands DEF CleanUp
<1>10. CASE Retry(t)
  <2>1. ASSUME NEW pc \in StartPoints
        PROVE  InStart([c EXCEPT !.pc = pc, !.tries = c.tries - 1, !.v = None,
                                 !.mode = "stop"], s)
    <3>0. PICK d : d = [c EXCEPT !.pc = pc, !.tries = c.tries - 1, !.v = None, !.mode = "stop"]
      OBVIOUS
    <3>1. d.pc = pc /\ d.s = c.s
      BY <1>0, <3>0 DEF Coroutine
    <3>9. InStart(d, s)
      BY <3>1 DEF InStart
    <3> QED BY <3>0, <3>9
  <2>2. (IF c.tries > 1 THEN "attempt" ELSE "failed") \in StartPoints
    BY DEF StartPoints
  <2> QED BY <1>0, <1>10, <2>1, <2>2, Lands DEF Retry
<1>11. CASE StartFailed(t)
  <2>1. <<STARTING, FAILED>> \in ValidTransitions
    BY DEF ValidTransitions
  <2> QED BY <1>11, <2>1 DEF StartFailed, CanMove, Move, IInv, SessionInv, STARTING, FAILED
<1> QED BY <1>1, <1>2, <1>3, <1>4, <1>5, <1>6, <1>7, <1>8, <1>9, <1>10, <1>11
        DEF Runs, Awakens, At, Wakes, StartPoints, Play, Create, Insert, Resume, Start,
            StopIncumbent, EnterStarting, StartReturn, Stop, ReleaseSink, ReleaseSource,
            StopDone, StopReturn, CreateInspected, ResumeInspected, StopInspected,
            TargetStopped, SinkStopped, PipelineStopped, TargetHealed

\* The clean-up of a rung goes on, back to the start.
LEMMA CleanUpGoesOn ==
    ASSUME IInv, NEW t \in Tasks, NEW s \in Sessions, task[t].s = s,
           task[t].pc \in ReleasePoints, task[t].mode = "cleanup", Runs(t) \/ Awakens(t)
    PROVE  Starts(t, s)'
<1> DEFINE c == task[t]
<1>0. TaskInv /\ c \in Coroutine
  BY DEF IInv, TaskInv
<1>1. ASSUME NEW pc \in ReleasePoints, Goto(t, pc) \/ Await(t, pc) PROVE Starts(t, s)'
  <2>1. InStart([c EXCEPT !.pc = pc], s)
    BY <1>0 DEF Coroutine, InStart
  <2> QED BY <1>0, <1>1, <2>1, Lands DEF Goto, Await
<1>2. ASSUME Raise(t) PROVE Starts(t, s)'
  <2>1. InStart([c EXCEPT !.pc = "failed", !.v = None, !.mode = "stop", !.pipe = None], s)
    <3>0. PICK d : d = [c EXCEPT !.pc = "failed", !.v = None, !.mode = "stop", !.pipe = None]
      OBVIOUS
    <3>1. d.pc = "failed" /\ d.s = c.s
      BY <1>0, <3>0 DEF Coroutine
    <3>2. "failed" \in StartPoints
      BY DEF StartPoints
    <3>9. InStart(d, s)
      BY <3>1, <3>2 DEF InStart
    <3> QED BY <3>0, <3>9
  <2> QED BY <1>0, <1>2, <2>1, Lands DEF Raise
<1>3. ASSUME NEW p, PipelineGone(t, p) PROVE Starts(t, s)'
  <2>1. Run(t, [c EXCEPT !.pc = "retry", !.pipe = None])
    BY <1>3 DEF PipelineGone
  <2> QED BY <1>0, <2>1, LandsAt DEF StartPoints
<1>4. CASE ReleaseSink(t)
  BY <1>1, <1>4 DEF ReleaseSink, ReleasePoints
<1>5. CASE SinkStopped(t)
  BY <1>1, <1>2, <1>5 DEF SinkStopped, ReleasePoints
<1>6. CASE ReleaseSource(t)
  <2>1. \A p : InStart([c EXCEPT !.pc = "pipe_stop", !.pipe = p], s)
    BY <1>0 DEF Coroutine, InStart, ReleasePoints
  <2> QED BY <1>0, <1>3, <1>6, <2>1, Lands DEF ReleaseSource
<1>7. CASE PipelineStopped(t)
  BY <1>2, <1>3, <1>7 DEF PipelineStopped
<1> QED BY <1>4, <1>5, <1>6, <1>7
        DEF Runs, Awakens, At, Wakes, ReleasePoints, Play, Create, Insert, Resume, Start,
            StopIncumbent, EnterStarting, Attempt, SetUp, Started, CleanUp, Retry, StartFailed,
            StartReturn, Stop, StopDone, StopReturn, CreateInspected, ResumeInspected,
            OldPipeStopped, SinkStoppedAfterFailure, PipelineStarted, TargetPrepared,
            StreamPlayed, StopInspected, TargetStopped, TargetHealed

\* EnterStarting drives the session it makes STARTING.
LEMMA EntersStart ==
    ASSUME IInv, NEW t \in Tasks, EnterStarting(t), NEW s \in Sessions, task[t].s = s,
           state[s] # STARTING, state'[s] = STARTING
    PROVE  Starts(t, s)'
<1> DEFINE c == task[t]
<1>1. TaskInv /\ c \in Coroutine
  BY DEF IInv, TaskInv
<1>2. PICK pc \in StartPoints : Run(t, [c EXCEPT !.pc = pc, !.tries = MaxAttempts])
  BY DEF EnterStarting, StartPoints
<1>3. InStart([c EXCEPT !.pc = pc, !.tries = MaxAttempts], s)
  <2>0. PICK d : d = [c EXCEPT !.pc = pc, !.tries = MaxAttempts]
    OBVIOUS
  <2>1. d.pc = pc /\ d.s = c.s
    BY <1>1, <2>0 DEF Coroutine
  <2>9. InStart(d, s)
    BY <2>1 DEF InStart
  <2> QED BY <2>0, <2>9
<1> QED BY <1>1, <1>2, <1>3, Lands

\* A turn of t leaves the other coroutines where they are.
LEMMA Turns ==
    ASSUME TaskInv, NEW t \in Tasks, NEW d, Run(t, d) \/ Wait(t, d), NEW u \in Tasks, u # t
    PROVE  task'[u] = task[u]
BY DEF TaskInv, Run, Wait

LEMMA OthersWait ==
    ASSUME TaskInv, NEW t \in Tasks, Runs(t) \/ Awakens(t), NEW u \in Tasks, u # t
    PROVE  task'[u] = task[u]
<1> USE Turns DEF Goto, Await, Finish
<1>1. CASE Play(t) \/ Create(t) \/ Insert(t) \/ Resume(t) \/ CreateInspected(t) \/ ResumeInspected(t)
  BY <1>1 DEF Play, Create, Created, Insert, Resume, CreateInspected, ResumeInspected
<1>2. CASE Start(t) \/ StopIncumbent(t) \/ EnterStarting(t) \/ StartFailed(t) \/ StartReturn(t)
  BY <1>2 DEF Start, StopIncumbent, EnterStarting, StartFailed, StartReturn
<1>3. CASE Attempt(t) \/ OldPipeStopped(t) \/ SetUp(t) \/ SinkStoppedAfterFailure(t)
           \/ PipelineStarted(t) \/ TargetPrepared(t) \/ StreamPlayed(t) \/ Started(t)
           \/ CleanUp(t) \/ Retry(t)
  BY <1>3 DEF Attempt, OldPipeStopped, SetUp, SinkStoppedAfterFailure, PipelineStarted,
     TargetPrepared, StreamPlayed, Started, CleanUp, Retry
<1>4. CASE Stop(t) \/ StopInspected(t) \/ TargetStopped(t) \/ StopDone(t) \/ TargetHealed(t)
  BY <1>4 DEF Stop, StopInspected, TargetStopped, StopDone, TargetHealed
<1>5. CASE StopReturn(t)
  <2>1. \E d : Run(t, d) \/ Wait(t, d)
    <3>1. task[t].ret \in {"done", "play_create", "create_insert", "create_return",
                           "incumbents", "start_return"}
      BY DEF TaskInv, Coroutine
    <3>2. ASSUME NEW v, Created(t, v, "start", "done") PROVE \E d : Run(t, d) \/ Wait(t, d)
      BY <3>2 DEF Created
    <3> QED BY <1>5, <3>1, <3>2 DEF StopReturn
  <2> QED BY <2>1
<1>6. CASE ReleaseSink(t) \/ SinkStopped(t) \/ ReleaseSource(t) \/ PipelineStopped(t)
  <2>1. ASSUME NEW p, PipelineGone(t, p) PROVE task'[u] = task[u]
    <3>1. task[t].mode \in {"stop", "cleanup", "quiesce"}
      BY DEF TaskInv, Coroutine
    <3> QED BY <2>1, <3>1 DEF PipelineGone
  <2>2. ASSUME Raise(t) PROVE task'[u] = task[u]
    BY <2>2 DEF Raise
  <2> QED BY <1>6, <2>1, <2>2 DEF ReleaseSink, SinkStopped, ReleaseSource, PipelineStopped
<1> QED BY <1>1, <1>2, <1>3, <1>4, <1>5, <1>6 DEF Runs, Awakens

\* Calls and the background wake only idle coroutines.
LEMMA BusyStay ==
    ASSUME IInv, NEW u \in Tasks, task[u].pc # "idle", Background \/ \E t \in Tasks : Api(t)
    PROVE  task'[u] = task[u]
<1>0. TaskInv
  BY DEF IInv
<1>1. ASSUME NEW w \in Tasks, NEW c, Spawn(w, c) PROVE task'[u] = task[u]
  BY <1>0, <1>1, Turns DEF Spawn
<1>2. ASSUME NEW s, HandleSessionError(s) PROVE task'[u] = task[u]
  BY <1>1, <1>2 DEF HandleSessionError
<1>3. CASE Background
  BY <1>1, <1>2, <1>3 DEF Background, PipelineCrash, SourceError, MonitorRetires,
     MonitorReclaimed, MonitorOutage, MonitorTransport, MonitorQuiesces, OtherController
<1>4. ASSUME NEW t \in Tasks, NEW op, NEW c, Call(t, op, c) PROVE task'[u] = task[u]
  BY <1>0, <1>4, Turns DEF Call
<1>5. ASSUME NEW t \in Tasks, Api(t) PROVE task'[u] = task[u]
  <2>1. CASE CallRecover(t)
    BY <1>0, <2>1, Turns DEF CallRecover
  <2> QED BY <1>4, <1>5, <2>1 DEF Api, CallPlay, CallCreate, CallStart, CallStop, CallResume
<1> QED BY <1>3, <1>5

LEMMA StepStartingIsDriven ==
    IInv /\ StartingIsDriven /\ [Next]_vars => StartingIsDriven'
<1> SUFFICES ASSUME IInv, StartingIsDriven, [Next]_vars, NEW s \in Sessions,
                    state'[s] = STARTING
             PROVE  \E t \in Tasks : Starts(t, s)'
  BY DEF StartingIsDriven
<1>1. CASE UNCHANGED vars
  BY <1>1 DEF StartingIsDriven, Starts, vars
<1>2. CASE Next /\ state[s] # STARTING
  BY <1>2, OnlyEntered, EntersStart
<1>3. CASE Next /\ state[s] = STARTING
  <2>1. PICK u \in Tasks : Starts(u, s)
    BY <1>3 DEF StartingIsDriven
  <2>2. task[u].pc # "idle"
    BY <2>1 DEF Starts, StartPoints, ReleasePoints
  <2>3. task'[u] = task[u] => Starts(u, s)'
    BY <2>1 DEF Starts
  <2>4. CASE Background \/ \E t \in Tasks : Api(t)
    BY <2>2, <2>3, <2>4, BusyStay
  <2>5. ASSUME NEW t \in Tasks, Runs(t) \/ Awakens(t), t # u PROVE Starts(u, s)'
    BY <2>3, <2>5, OthersWait DEF IInv
  <2>6. CASE Runs(u) \/ Awakens(u)
    BY <1>3, <2>1, <2>6, StartGoesOn, CleanUpGoesOn DEF Starts
  <2> QED BY <1>3, <2>4, <2>5, <2>6 DEF Next
<1> QED BY <1>1, <1>2, <1>3

\* No session is ever left STARTING: as long as it is STARTING, a coroutine is
\* inside start_session for it, on a rung or in the clean-up of one, whichever
\* await fails and whatever other calls do to the session meanwhile.
THEOREM StartingDriven == Spec => []StartingIsDriven
<1>1. Init => StartingIsDriven
  BY DEF Init, StartingIsDriven, ABSENT, STARTING
<1> QED BY <1>1, InitIInv, NextIInv, StepStartingIsDriven, PTL DEF Spec
=============================================================================
