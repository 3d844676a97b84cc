-------------------------- MODULE SessionLifecycle --------------------------
(***************************************************************************)
(* What a client of the bridge may rely on about session states, whatever  *)
(* calls, monitors and failures interleave: every change is one the        *)
(* transition table accepts, except that an error reported by the media    *)
(* path of a SUPERSEDED session forces it to FAILED, and a session leaves  *)
(* the listing only from a terminal state.                                 *)
(***************************************************************************)
EXTENDS SessionStates

CONSTANT Sessions
VARIABLE state

Init == state = [s \in Sessions |-> ABSENT]

Transition(s) == \E new \in SessionState :
    /\ <<state[s], new>> \in ValidTransitions
    /\ state' = [state EXCEPT ![s] = new]

ForceFailed(s) ==
    /\ state[s] = SUPERSEDED
    /\ state' = [state EXCEPT ![s] = FAILED]

\* create() adds a session and prunes old ones on the way.
Create(s) == \E old \in SUBSET Sessions :
    /\ state[s] = ABSENT
    /\ \A o \in old : state[o] \in {SUPERSEDED, STOPPED, FAILED}
    /\ state' = [x \in Sessions |-> IF x = s THEN CREATED
                                    ELSE IF x \in old THEN PRUNED ELSE state[x]]

Next == \E s \in Sessions :
    Transition(s) \/ ForceFailed(s) \/ Create(s)

Spec == Init /\ [][Next]_state
=============================================================================
