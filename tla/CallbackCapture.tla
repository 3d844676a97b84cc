-------------------------- MODULE CallbackCapture ---------------------------
(***************************************************************************)
(* Capture on Windows: PortAudio's thread calls back with samples while    *)
(* the event loop starts and stops the stream.  The callback looks at      *)
(* _running and _frame_sink first and uses the sink some time later; the   *)
(* loop is anywhere in start or stop meanwhile.  The session manager polls *)
(* the adapter's health before it goes on with a start.                    *)
(***************************************************************************)
EXTENDS Naturals

CONSTANTS
    Sinks,       \* frame sinks, one for each bridge session
    MaxStarts,   \* bound: calls of start
    None

VARIABLES
    backend,    \* "null" or "real": what _select_backend chose
    call,       \* where start or stop is on the loop
    capturing, frameSink, sessionId,
    stream,     \* PortAudio's stream
    callback,   \* where the thread is: "inside" after its check, and then with "empty" or
                \* "sound" to deliver
    level,      \* diagnostics: how far the samples of this capture have come
    signal,     \* _non_silent_signal_detected
    lastError,  \* _last_error is set
    fed, heard, \* the present sink has been given a frame; this capture has had sound
    leaked,     \* closing a stream has failed, and it was forgotten
    starts,
    verdict,    \* of the session manager's verification of this start
    allowSilent \* its setting

diagnostics == <<level, signal, lastError, fed, heard>>
start == <<starts, verdict, allowSilent>>
vars == <<backend, call, capturing, frameSink, sessionId, stream, callback, diagnostics, leaked,
          start>>

Nothing == 0   Callbacks == 1   Samples == 2   Frames == 3

Init ==
    /\ backend \in {"null", "real"}
    /\ call = "idle" /\ capturing = FALSE /\ frameSink = None /\ sessionId = None
    /\ stream = "none" /\ callback = "outside"
    /\ level = Nothing /\ signal = FALSE /\ lastError = FALSE /\ fed = FALSE /\ heard = FALSE
    /\ leaked = FALSE /\ starts = 0 /\ verdict = "none" /\ allowSilent \in BOOLEAN

-----------------------------------------------------------------------------
(* start *)

\* list_sources and prepare try again to find a backend that works.
RefreshBackend ==
    /\ call = "idle" /\ backend = "null"
    /\ backend' = "real"
    /\ UNCHANGED <<call, capturing, frameSink, sessionId, stream, callback, diagnostics, leaked,
                   start>>

(* Mutant: the diagnostics of the capture before remain. *)
ResetErrorOnly == lastError' = FALSE /\ UNCHANGED <<level, signal>>

\* _reset_diagnostics, and the fields of the capture before
Reset == level' = Nothing /\ signal' = FALSE /\ lastError' = FALSE

Begins ==
    /\ call = "idle" /\ ~capturing /\ backend = "real" /\ starts < MaxStarts
    /\ starts' = starts + 1
    /\ verdict' = "none"

Start(s) ==
    /\ Begins
    /\ Reset
    /\ fed' = FALSE /\ heard' = FALSE
    /\ frameSink' = s
    /\ sessionId' = starts + 1
    /\ call' = "opening"
    /\ UNCHANGED <<backend, capturing, stream, callback, leaked, allowSilent>>

\* The default device has gone: the diagnostics are reset, the rest is not.
StartWithoutDevice ==
    /\ Begins
    /\ level' = Nothing
    /\ UNCHANGED <<backend, call, capturing, frameSink, sessionId, stream, callback, signal,
                   lastError, fed, heard, leaked, allowSilent>>

\* One of the candidate rates opens.
Opens ==
    /\ call = "opening"
    /\ stream' = "open" /\ call' = "starting"
    /\ UNCHANGED <<backend, capturing, frameSink, sessionId, callback, diagnostics, leaked,
                   start>>

\* No rate does, or the stream does not start; sink and session stay.
StartFails ==
    /\ call \in {"opening", "starting"}
    /\ lastError' = TRUE
    /\ stream' = "none" /\ call' = "idle"
    /\ UNCHANGED <<backend, capturing, frameSink, sessionId, callback, level, signal, fed, heard,
                   leaked, start>>

Starts ==
    /\ call = "starting"
    /\ stream' = "started" /\ call' = "started"
    /\ UNCHANGED <<backend, capturing, frameSink, sessionId, callback, diagnostics, leaked,
                   start>>

Runs ==
    /\ call = "started"
    /\ capturing' = TRUE /\ call' = "idle"
    /\ verdict' = "verifying"
    /\ UNCHANGED <<backend, frameSink, sessionId, stream, callback, diagnostics, leaked, starts,
                   allowSilent>>

-----------------------------------------------------------------------------
(* _audio_callback *)

CallbackChecks ==
    /\ stream = "started" \/ leaked
    /\ callback = "outside" /\ capturing /\ frameSink # None
    /\ callback' = "inside"
    /\ level' = IF level = Nothing THEN Callbacks ELSE level
    /\ UNCHANGED <<backend, call, capturing, frameSink, sessionId, stream, signal, lastError, fed,
                   heard, leaked, start>>

\* No samples, or too few for one frame at 48 kHz, or sound, which may be silence.
CallbackConverts == \E got \in {Nothing, Samples}, loud \in BOOLEAN :
    /\ callback = "inside"
    /\ callback' \in IF got = Nothing THEN {"empty"} ELSE {"empty", "sound"}
    /\ level' = IF level < got THEN got ELSE level
    /\ loud => callback' = "sound"
    /\ signal' = (signal \/ loud) /\ heard' = (heard \/ loud)
    /\ UNCHANGED <<backend, call, capturing, frameSink, sessionId, stream, lastError, fed, leaked,
                   start>>

CallbackDelivers ==
    /\ callback \in {"empty", "sound"}
    /\ callback' = "outside"
    /\ level' = IF callback = "sound" THEN Frames ELSE level
    /\ fed' = (fed \/ callback = "sound")
    /\ UNCHANGED <<backend, call, capturing, frameSink, sessionId, stream, signal, lastError,
                   heard, leaked, start>>

\* numpy cannot convert what there is, or the sink refuses the frame.
CallbackFails ==
    /\ callback # "outside"
    /\ callback' = "outside"
    /\ lastError' = TRUE
    /\ UNCHANGED <<backend, call, capturing, frameSink, sessionId, stream, level, signal, fed,
                   heard, leaked, start>>

-----------------------------------------------------------------------------
(* stop *)

\* _session_id is that of the caller: start refuses while a capture runs.
Stop ==
    /\ call = "idle" /\ capturing
    /\ capturing' = FALSE
    /\ call' = "closing"
    /\ UNCHANGED <<backend, frameSink, sessionId, stream, callback, diagnostics, leaked, start>>

\* PortAudio stops a stream when no callback of it is running.
CanClose == callback = "outside"

Forgets ==
    /\ stream' = "none"
    /\ sessionId' = None /\ frameSink' = None
    /\ call' = "idle"
    /\ UNCHANGED <<backend, capturing, callback, diagnostics, start>>

Closes ==
    /\ call = "closing" /\ CanClose
    /\ Forgets
    /\ UNCHANGED leaked

\* _close_stream logs what goes wrong.
CloseFails ==
    /\ call = "closing"
    /\ Forgets
    /\ leaked' = TRUE

-----------------------------------------------------------------------------
(* The session manager's _verify_windows_source_startup *)

PublicState ==
    IF ~capturing THEN "idle"
    ELSE IF level = Frames THEN (IF signal THEN "active" ELSE "healthy_but_idle")
    ELSE IF level = Samples THEN "samples_received_no_frames_emitted"
    ELSE IF level = Callbacks THEN "callbacks_active_no_samples"
    ELSE "stream_started_no_callbacks"

\* A stream that captures has been opened and started, so that it is viable
\* when it is healthy.
Healthy == capturing /\ ~lastError

\* The second line decides whenever the third would.
Classified ==
    IF ~Healthy THEN "stall"
    ELSE IF PublicState = "active" \/ level = Frames \/ (level > Nothing /\ signal) THEN "active"
    ELSE IF PublicState = "healthy_but_idle" /\ level > Nothing THEN "healthy_but_idle"
    ELSE "stall"

\* One round of the loop; without a result there is another one.
Poll ==
    /\ verdict = "verifying" /\ call = "idle"
    /\ verdict' = IF Classified # "stall" THEN Classified
                  ELSE IF ~Healthy THEN "stall"
                  ELSE IF allowSilent THEN "idle_pending_signal" ELSE "verifying"
    /\ UNCHANGED <<backend, call, capturing, frameSink, sessionId, stream, callback, diagnostics,
                   leaked, starts, allowSilent>>

Deadline ==
    /\ verdict = "verifying" /\ call = "idle"
    /\ verdict' = "stall"
    /\ UNCHANGED <<backend, call, capturing, frameSink, sessionId, stream, callback, diagnostics,
                   leaked, starts, allowSilent>>

-----------------------------------------------------------------------------
Next ==
    \/ RefreshBackend
    \/ \E s \in Sinks : Start(s)
    \/ StartWithoutDevice \/ Opens \/ StartFails \/ Starts \/ Runs
    \/ CallbackChecks \/ CallbackConverts \/ CallbackDelivers \/ CallbackFails
    \/ Stop \/ Closes \/ CloseFails
    \/ Poll \/ Deadline

Spec == Init /\ [][Next]_vars

-----------------------------------------------------------------------------
(* Properties *)

\* What the variables hold.
TypeOK ==
    /\ backend \in {"null", "real"} /\ starts \in 0 .. MaxStarts
    /\ call \in {"idle", "opening", "starting", "started", "closing"}
    /\ capturing \in BOOLEAN /\ frameSink \in Sinks \cup {None}
    /\ sessionId \in 1 .. MaxStarts \cup {None}
    /\ stream \in {"none", "open", "started"}
    /\ callback \in {"outside", "inside", "empty", "sound"}
    /\ level \in Nothing .. Frames /\ signal \in BOOLEAN
    /\ lastError \in BOOLEAN /\ fed \in BOOLEAN /\ heard \in BOOLEAN /\ leaked \in BOOLEAN
    /\ verdict \in {"none", "verifying", "active", "healthy_but_idle", "idle_pending_signal",
                    "stall"}
    /\ allowSilent \in BOOLEAN

\* What the callback has checked still holds when it uses it: stop takes the
\* sink away only when the stream is closed, unless closing it has failed.
CallbackFindsSink == callback # "outside" /\ ~leaked => frameSink # None

\* Health and verdict are those of this capture: the source is not said to have
\* sound before the present sink has been given a frame, and a start is not
\* verified as active before the thread of this very capture has had sound.
HealthIsOfThisCapture ==
    /\ PublicState \in {"active", "healthy_but_idle"} => fed
    /\ verdict = "active" => fed \/ heard
=============================================================================
