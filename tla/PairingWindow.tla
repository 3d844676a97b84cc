--------------------------- MODULE PairingWindow ----------------------------
(***************************************************************************)
(* The Bluetooth pairing window: calls that open and close it, the task    *)
(* that makes the adapter pairable until a device has paired or the time   *)
(* is up, the agent that answers BlueZ, and the devices that pair.         *)
(*                                                                         *)
(* Every await of the window's task is a place where close_window may      *)
(* cancel it, those of its clean-up included.                              *)
(***************************************************************************)
EXTENDS Naturals, FiniteSets

CONSTANTS
    Devices,      \* devices that ask to be paired
    MaxWindows,   \* bound: windows that are opened
    Anyone,       \* not a device: a window for all of them
    None          \* no task

Windows == 1 .. MaxWindows

\* Bound: calls of close_window that wait for one task.
MaxClosers == 2

VARIABLES
    isOpen,       \* _is_open
    task,         \* _pairing_task
    stage,           \* where the task of a window is
    candidate,    \* whom a window is for
    completion,   \* _completion_event
    closer,       \* how many calls of close_window wait for a window's task
    agent,        \* the windows whose agent is registered with BlueZ
    pairable, discoverable,     \* properties of the adapter, in BlueZ
    opened, closed,   \* how often the bus was told
    paired,       \* devices that were accepted: the store trusts them
    crossed,      \* a call of close_window has hit a clean-up, or the next window
    kept          \* BlueZ has refused to turn a property off

vars == <<isOpen, task, stage, candidate, completion, closer, agent, pairable, discoverable,
          opened, closed, paired, crossed, kept>>

Working  == {"connecting", "registering", "pairing on", "showing", "waiting"}
CleaningUp == {"hiding", "pairing off", "unregistering"}
Ended    == {"none", "over", "cancelled", "failed"}

Init ==
    /\ isOpen = FALSE /\ task = None
    /\ stage = [w \in Windows |-> "none"]
    /\ candidate = [w \in Windows |-> Anyone]
    /\ completion = FALSE
    /\ closer = [w \in Windows |-> 0]
    /\ agent = {} /\ pairable = FALSE /\ discoverable = FALSE
    /\ opened = 0 /\ closed = 0 /\ paired = {}
    /\ crossed = FALSE /\ kept = FALSE

Goes(w, from, to) == stage[w] = from /\ stage' = [stage EXCEPT ![w] = to]

-----------------------------------------------------------------------------
(* open_window and close_window *)

\* Nothing happens while one is open, which it is until its clean-up has ended.
Open(w, c) ==
    /\ ~isOpen
    /\ stage[w] = "none" /\ \A v \in 1 .. w - 1 : stage[v] # "none"
    /\ isOpen' = TRUE
    /\ completion' = FALSE
    /\ task' = w
    /\ stage' = [stage EXCEPT ![w] = "connecting"]
    /\ candidate' = [candidate EXCEPT ![w] = c]
    /\ opened' = opened + 1
    /\ UNCHANGED <<closer, agent, pairable, discoverable, closed, paired, crossed, kept>>

\* Outside the try the cancellation ends the task, in the clean-up it ends that;
\* elsewhere the finally clause follows.
CancelledAt(p) ==
    CASE p \in {"connecting"} \cup CleaningUp -> "cancelled"
      [] p \in Working \ {"connecting"} -> "hiding"
      [] OTHER -> p

\* The call waits for the task it cancels.
Close ==
    /\ isOpen /\ task # None /\ closer[task] < MaxClosers
    /\ stage' = [stage EXCEPT ![task] = CancelledAt(@)]
    /\ closer' = [closer EXCEPT ![task] = @ + 1]
    /\ crossed' = (crossed \/ stage[task] \in CleaningUp)
    /\ UNCHANGED <<isOpen, task, candidate, completion, agent, pairable, discoverable,
                   opened, closed, paired, kept>>

\* A task that was cancelled or is over: the window is closed in any case.
Closed(w) ==
    /\ closer[w] > 0 /\ stage[w] \in {"over", "cancelled"}
    /\ closer' = [closer EXCEPT ![w] = @ - 1]
    /\ task' = None
    /\ isOpen' = FALSE
    /\ crossed' = (crossed \/ task \notin {w, None})
    /\ UNCHANGED <<stage, candidate, completion, agent, pairable, discoverable, opened, closed,
                   paired, kept>>

\* The task's own exception is the call's as well; it changes nothing.
CloseRaises(w) ==
    /\ closer[w] > 0 /\ stage[w] = "failed"
    /\ closer' = [closer EXCEPT ![w] = @ - 1]
    /\ UNCHANGED <<isOpen, task, stage, candidate, completion, agent, pairable, discoverable,
                   opened, closed, paired, crossed, kept>>

-----------------------------------------------------------------------------
(* _run_window *)

Connects(w) ==
    /\ Goes(w, "connecting", "registering") \/ Goes(w, "connecting", "failed")
    /\ UNCHANGED <<isOpen, task, candidate, completion, closer, agent, pairable, discoverable,
                   opened, closed, paired, crossed, kept>>

Registers(w) ==
    /\ \/ Goes(w, "registering", "pairing on") /\ agent' = agent \cup {w}
       \/ Goes(w, "registering", "hiding") /\ UNCHANGED agent
    /\ UNCHANGED <<isOpen, task, candidate, completion, closer, pairable, discoverable, opened,
                   closed, paired, crossed, kept>>

\* set_property logs an error and says FALSE, which nobody looks at.
PairingOn(w) ==
    /\ Goes(w, "pairing on", "showing")
    /\ pairable' \in {pairable, TRUE}
    /\ UNCHANGED <<isOpen, task, candidate, completion, closer, agent, discoverable, opened,
                   closed, paired, crossed, kept>>

Shows(w) ==
    /\ Goes(w, "showing", "waiting")
    /\ discoverable' \in {discoverable, TRUE}
    /\ UNCHANGED <<isOpen, task, candidate, completion, closer, agent, pairable, opened, closed,
                   paired, crossed, kept>>

\* A device has paired, or the time is up.
Completes(w) ==
    /\ Goes(w, "waiting", "hiding")
    /\ UNCHANGED <<isOpen, task, candidate, completion, closer, agent, pairable, discoverable,
                   opened, closed, paired, crossed, kept>>

Hides(w) ==
    /\ Goes(w, "hiding", "pairing off")
    /\ discoverable' \in {discoverable, FALSE}
    /\ kept' = (kept \/ discoverable')
    /\ UNCHANGED <<isOpen, task, candidate, completion, closer, agent, pairable, opened, closed,
                   paired, crossed>>

PairingOff(w) ==
    /\ Goes(w, "pairing off", "unregistering")
    /\ pairable' \in {pairable, FALSE}
    /\ kept' = (kept \/ pairable')
    /\ UNCHANGED <<isOpen, task, candidate, completion, closer, agent, discoverable, opened,
                   closed, paired, crossed>>

(* Mutant: the connection stays, and with it an agent BlueZ has kept. *)
WithIt(w) == agent

\* Whatever unregister_agent says, BlueZ drops the agent of a closed connection.
Without(w) == agent \ {w}

Unregisters(w) ==
    /\ Goes(w, "unregistering", "over")
    /\ agent' = Without(w)
    /\ isOpen' = FALSE
    /\ closed' = closed + 1
    /\ UNCHANGED <<task, candidate, completion, closer, pairable, discoverable, opened, paired,
                   crossed, kept>>

-----------------------------------------------------------------------------
(* The agent *)

\* The agent of a window accepts its candidate; the store trusts the device.
Accepts(w, d) == candidate[w] \in {Anyone, d}

RequestPairing(w, d) ==
    /\ w \in agent /\ Accepts(w, d)
    /\ paired' = paired \cup {d}
    /\ completion' = TRUE
    /\ UNCHANGED <<isOpen, task, stage, candidate, closer, agent, pairable, discoverable, opened,
                   closed, crossed, kept>>

-----------------------------------------------------------------------------
Next ==
    \/ \E w \in Windows :
        \/ \E c \in Devices \cup {Anyone} : Open(w, c)
        \/ Closed(w) \/ CloseRaises(w)
        \/ Connects(w) \/ Registers(w) \/ PairingOn(w) \/ Shows(w) \/ Completes(w)
        \/ Hides(w) \/ PairingOff(w) \/ Unregisters(w)
        \/ \E d \in Devices : RequestPairing(w, d)
    \/ Close

Spec == Init /\ [][Next]_vars

-----------------------------------------------------------------------------
(* Properties *)

\* What the variables hold.
TypeOK ==
    /\ isOpen \in BOOLEAN /\ task \in Windows \cup {None} /\ completion \in BOOLEAN
    /\ stage \in [Windows -> Working \cup CleaningUp \cup Ended]
    /\ candidate \in [Windows -> Devices \cup {Anyone}]
    /\ closer \in [Windows -> 0 .. MaxClosers]
    /\ agent \subseteq Windows /\ paired \subseteq Devices
    /\ pairable \in BOOLEAN /\ discoverable \in BOOLEAN
    /\ opened \in 0 .. MaxWindows /\ closed \in 0 .. MaxWindows
    /\ crossed \in BOOLEAN /\ kept \in BOOLEAN

\* However a window ends - a device has paired, the time is up, the agent is
\* refused, a call closes it - the adapter is as before: not to be paired with,
\* not to be found, and without an agent.  Unless a call cancels the clean-up
\* itself or closes the next window, or BlueZ does not turn a property off.
ClosedIsClosed ==
    ~isOpen /\ ~crossed => agent = {} /\ (~kept => ~pairable /\ ~discoverable)
=============================================================================
