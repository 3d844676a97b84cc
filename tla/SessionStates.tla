--------------------------- MODULE SessionStates ---------------------------
(***************************************************************************)
(* The life of one playback session: the states of `SessionState` and the  *)
(* transitions `Session.transition_to` accepts.                            *)
(***************************************************************************)

CREATED    == "created"
PREPARING  == "preparing"
READY      == "ready"
STARTING   == "starting"
PLAYING    == "playing"
HEALING    == "healing"
DEGRADED   == "degraded"
QUIESCED   == "quiesced"
SUPERSEDED == "superseded"
STOPPING   == "stopping"
STOPPED    == "stopped"
FAILED     == "failed"

SessionState == {CREATED, PREPARING, READY, STARTING, PLAYING, HEALING, DEGRADED,
                 QUIESCED, SUPERSEDED, STOPPING, STOPPED, FAILED}

\* A session id that `_sessions` does not hold: not created yet, or pruned.
ABSENT == "absent"
PRUNED == "pruned"
Unlisted == {ABSENT, PRUNED}

\* valid_transitions, as the set of accepted (from, to) pairs.
ValidTransitions ==
    LET From(s, succ) == {s} \X succ
    IN  UNION { From(CREATED,   {PREPARING, STARTING, FAILED, STOPPING, SUPERSEDED}),
                From(PREPARING, {READY, STOPPING, FAILED, SUPERSEDED}),
                From(READY,     {STARTING, STOPPING, FAILED, SUPERSEDED}),
                From(STARTING,  {PLAYING, STOPPING, FAILED, SUPERSEDED}),
                From(PLAYING,   {HEALING, DEGRADED, STOPPING, FAILED, QUIESCED, SUPERSEDED}),
                From(HEALING,   {PLAYING, STOPPING, DEGRADED, FAILED, SUPERSEDED}),
                From(DEGRADED,  {PLAYING, HEALING, STOPPING, FAILED, QUIESCED, STARTING, SUPERSEDED}),
                From(QUIESCED,  {STARTING, STOPPING, FAILED, SUPERSEDED}),
                From(STOPPING,  {STOPPED, FAILED, SUPERSEDED}),
                From(STOPPED,   {STARTING, PREPARING, FAILED, SUPERSEDED}),
                From(FAILED,    {PREPARING, STARTING, HEALING, STOPPING, SUPERSEDED}) }

\* States in which `_handle_session_error` does nothing and a monitor retires.
Ended == {FAILED, STOPPED, STOPPING}
=============================================================================
