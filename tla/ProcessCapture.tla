--------------------------- MODULE ProcessCapture ---------------------------
(***************************************************************************)
(* An adapter that captures with a task: the Linux and the Bluetooth       *)
(* adapter, whose task reads the output of a process, and the synthetic    *)
(* source, whose task makes its frames.  start and stop are synchronous    *)
(* and share their fields with the task, which stop only cancels: its      *)
(* clean-up comes later, and finds the fields as they are by then.         *)
(*                                                                         *)
(* A step is what runs between two awaits of a coroutine.                  *)
(***************************************************************************)
EXTENDS Naturals

CONSTANTS
    Kinds,      \* adapters: "linux", "bluetooth", "synthetic"
    Sinks,      \* frame sinks, one for each bridge session
    MaxTasks,   \* bound: captures that are started
    None

Tasks == 1 .. MaxTasks

VARIABLES
    kind,
    session,    \* _session_id
    running,    \* _running
    sink,       \* _frame_sink
    current,    \* _capture_task
    process,    \* _process: the process of that task
    pc,         \* where a task is
    on,         \* the process whose output, or whose end, a task waits for
    proc,       \* the process that a task has spawned
    held,       \* the adapter session that each bridge session believes in
    hasty,      \* a capture was started before an earlier one was cleaned up
    forgotten   \* a capture was not stopped, as its source had left the registry

vars == <<kind, session, running, sink, current, process, pc, on, proc, held, hasty, forgotten>>
callers == <<kind, session, sink, current, held, hasty, forgotten>>

Capturing == {"new", "spawning", "reading"}
Over      == {"none", "over"}

Init ==
    /\ kind \in Kinds
    /\ session = None /\ running = FALSE /\ sink = None /\ current = None /\ process = None
    /\ pc = [t \in Tasks |-> "none"]
    /\ on = [t \in Tasks |-> None]
    /\ proc = [t \in Tasks |-> "none"]
    /\ held = [s \in Sinks |-> None]
    /\ hasty = FALSE /\ forgotten = FALSE

\* "sess_{id(self)}" is the same for every capture of an adapter.
SessionId(t) == IF kind = "synthetic" THEN t ELSE 1

Fresh(t) == pc[t] = "none" /\ \A u \in 1 .. t - 1 : pc[u] # "none"

-----------------------------------------------------------------------------
(* SourceRegistry.start_source and stop_source *)

\* The Bluetooth adapter refuses while it runs, the Linux adapter never does.
Start(s, t) ==
    /\ held[s] = None /\ Fresh(t)
    /\ running => kind = "linux"
    /\ session' = SessionId(t)
    /\ sink' = s
    /\ running' = TRUE
    /\ current' = t
    /\ pc' = [pc EXCEPT ![t] = "new"]
    /\ held' = [held EXCEPT ![s] = SessionId(t)]
    /\ hasty' = (hasty \/ \E u \in Tasks : pc[u] \notin Over)
    /\ UNCHANGED <<kind, process, on, proc, forgotten>>

\* The synthetic source answers with the session that runs, and its sink.
StartRunning(s) ==
    /\ kind = "synthetic" /\ running /\ held[s] = None
    /\ held' = [held EXCEPT ![s] = session]
    /\ UNCHANGED <<kind, session, running, sink, current, process, pc, on, proc, hasty,
                   forgotten>>

Terminated(procs, p) == [procs EXCEPT ![p] = IF @ = "running" THEN "dying" ELSE @]

\* A task that has not begun never will; one in its clean-up leaves it.
Cancelled(t) ==
    [pc EXCEPT ![t] = CASE @ \in {"spawning", "reading"} -> "cancelled"
                        [] @ \in {"new", "waiting"} -> "over"
                        [] OTHER -> @]

Stop(s) ==
    /\ held[s] # None /\ session = held[s]
    /\ held' = [held EXCEPT ![s] = None]
    /\ session' = None /\ sink' = None /\ current' = None
    /\ running' = FALSE
    /\ pc' = IF current = None THEN pc ELSE Cancelled(current)
    /\ proc' = IF kind = "linux" /\ process # None THEN Terminated(proc, process) ELSE proc
    /\ UNCHANGED <<kind, process, on, hasty, forgotten>>

\* The adapter has another session by now.
StopOther(s) ==
    /\ held[s] # None /\ session # held[s]
    /\ held' = [held EXCEPT ![s] = None]
    /\ UNCHANGED <<kind, session, running, sink, current, process, pc, on, proc, hasty,
                   forgotten>>

\* The registry cannot resolve the source, and says nothing.
StopVanished(s) ==
    /\ held[s] # None
    /\ held' = [held EXCEPT ![s] = None]
    /\ forgotten' = TRUE
    /\ UNCHANGED <<kind, session, running, sink, current, process, pc, on, proc, hasty>>

-----------------------------------------------------------------------------
(* The capture task *)

(* Mutant: the task ends without terminating its process. *)
LeavesProcess(t, p, procs) ==
    /\ running' = FALSE
    /\ process' = None /\ proc' = procs
    /\ pc' = [pc EXCEPT ![t] = "over"]
    /\ on' = [on EXCEPT ![t] = None]

\* The finally clause, up to its wait, when _process is p and processes are procs.
CleansUp(t, p, procs) ==
    /\ running' = FALSE
    /\ IF p = None \/ procs[p] = "gone"
       THEN /\ process' = None /\ proc' = procs
            /\ pc' = [pc EXCEPT ![t] = "over"]
            /\ on' = [on EXCEPT ![t] = None]
       ELSE /\ process' = p /\ proc' = Terminated(procs, p)
            /\ pc' = [pc EXCEPT ![t] = "waiting"]
            /\ on' = [on EXCEPT ![t] = p]

Generate(t) ==
    /\ kind = "synthetic" /\ pc[t] = "new"
    /\ pc' = [pc EXCEPT ![t] = "reading"]
    /\ UNCHANGED <<callers, running, process, on, proc>>

Spawn(t) ==
    /\ kind # "synthetic" /\ pc[t] = "new"
    /\ pc' = [pc EXCEPT ![t] = "spawning"]
    /\ UNCHANGED <<callers, running, process, on, proc>>

\* parec is not installed: before the try, so no clean-up.
NoParec(t) ==
    /\ kind = "bluetooth" /\ pc[t] = "new"
    /\ running' = FALSE
    /\ pc' = [pc EXCEPT ![t] = "over"]
    /\ UNCHANGED <<callers, process, on, proc>>

Spawned(t) ==
    /\ pc[t] = "spawning"
    /\ LET procs == [proc EXCEPT ![t] = "running"]
       IN IF running
          THEN /\ process' = t /\ proc' = procs
               /\ pc' = [pc EXCEPT ![t] = "reading"]
               /\ on' = [on EXCEPT ![t] = t]
               /\ UNCHANGED running
          ELSE CleansUp(t, t, procs)
    /\ UNCHANGED callers

SpawnFails(t) ==
    /\ pc[t] = "spawning"
    /\ CleansUp(t, process, proc)
    /\ UNCHANGED callers

\* After each frame the task looks at the fields again: at _running, and on
\* Linux at _process, whose output two tasks cannot both wait for.
ReadsOn(t) ==
    /\ pc[t] = "reading"
    /\ on[t] # None => proc[on[t]] = "running"
    /\ \/ /\ running /\ kind = "linux" /\ process \notin {None, on[t]}
          /\ \A u \in Tasks : ~(pc[u] = "reading" /\ on[u] = process)
          /\ on' = [on EXCEPT ![t] = process]
          /\ UNCHANGED <<running, process, pc, proc>>
       \/ /\ \/ ~running
             \/ kind = "linux" /\ process # on[t]
                /\ \/ process = None
                   \/ \E u \in Tasks : pc[u] = "reading" /\ on[u] = process
          /\ CleansUp(t, process, proc)
    /\ UNCHANGED callers

EndOfFile(t) ==
    /\ pc[t] = "reading" /\ on[t] # None /\ proc[on[t]] = "gone"
    /\ CleansUp(t, process, proc)
    /\ UNCHANGED callers

Unwinds(t) ==
    /\ pc[t] = "cancelled"
    /\ CleansUp(t, process, proc)
    /\ UNCHANGED callers

CleanedUp(t) ==
    /\ pc[t] = "waiting" /\ proc[on[t]] = "gone"
    /\ process' = None
    /\ pc' = [pc EXCEPT ![t] = "over"]
    /\ on' = [on EXCEPT ![t] = None]
    /\ UNCHANGED <<callers, running, proc>>

\* The Linux adapter waits a second, and kills what _process is then.
Overdue(t) ==
    /\ kind = "linux" /\ pc[t] = "waiting" /\ proc[on[t]] = "dying" /\ process # on[t]
    /\ IF process = None
       THEN /\ pc' = [pc EXCEPT ![t] = "over"] /\ on' = [on EXCEPT ![t] = None]
            /\ UNCHANGED proc
       ELSE /\ proc' = Terminated(proc, process) /\ on' = [on EXCEPT ![t] = process]
            /\ UNCHANGED pc
    /\ UNCHANGED <<callers, running, process>>

\* A process ends when it is told to, or when PulseAudio drops it.
Exits(t) ==
    /\ proc[t] \in {"running", "dying"}
    /\ proc' = [proc EXCEPT ![t] = "gone"]
    /\ UNCHANGED <<callers, running, process, pc, on>>

-----------------------------------------------------------------------------
Next ==
    \/ \E s \in Sinks : StartRunning(s) \/ Stop(s) \/ StopOther(s) \/ StopVanished(s)
    \/ \E t \in Tasks :
        \/ \E s \in Sinks : Start(s, t)
        \/ Generate(t) \/ Spawn(t) \/ NoParec(t) \/ Spawned(t) \/ SpawnFails(t)
        \/ ReadsOn(t) \/ EndOfFile(t) \/ Unwinds(t)
        \/ CleanedUp(t) \/ Overdue(t) \/ Exits(t)

Spec == Init /\ [][Next]_vars

-----------------------------------------------------------------------------
(* Properties *)

\* What the variables hold.
TypeOK ==
    /\ kind \in Kinds /\ running \in BOOLEAN /\ hasty \in BOOLEAN /\ forgotten \in BOOLEAN
    /\ session \in Tasks \cup {None} /\ sink \in Sinks \cup {None}
    /\ current \in Tasks \cup {None} /\ process \in Tasks \cup {None}
    /\ pc \in [Tasks -> Capturing \cup Over \cup {"cancelled", "waiting"}]
    /\ on \in [Tasks -> Tasks \cup {None}]
    /\ proc \in [Tasks -> {"none", "running", "dying", "gone"}]
    /\ held \in [Sinks -> Tasks \cup {None}]

\* A capture goes no further than its bridge session: when every session has
\* stopped, nothing captures and the adapter is idle, and when the tasks are
\* over too, no process is left.  Not so if a capture begins before the last
\* one is cleaned up: they share _running and _process.
NothingLeftRunning ==
    hasty \/
    /\ (~forgotten /\ \A s \in Sinks : held[s] = None) =>
           ~running /\ sink = None /\ \A t \in Tasks : pc[t] \notin Capturing
    /\ (\A t \in Tasks : pc[t] \in Over) =>
           ~running /\ \A t \in Tasks : proc[t] # "running"
=============================================================================
