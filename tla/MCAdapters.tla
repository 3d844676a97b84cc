----------------------------- MODULE MCAdapters -----------------------------
(***************************************************************************)
(* The small parts of the bridge, checked in one run: a capturing adapter, *)
(* PortAudio's callback, the pairing window, the trusted devices, a Sonos  *)
(* target, the stream profiles, the watch over the delivery and the Home   *)
(* Assistant integration.  They share no state and never call each other   *)
(* here, so that a behaviour of all of them is one of each: only one       *)
(* moves, the part chosen at first.                                        *)
(***************************************************************************)
EXTENDS Naturals, FiniteSets, TLC

CONSTANTS Kinds, Sinks, MaxTasks, MaxStarts, Devices, MaxWindows, Anyone,
          MaxCalls, MaxRuns, Ops, Urls, MaxTries, AttachGrace, DetachGrace, Window, MaxLag,
          MaxPlays, MaxPolls, Speakers, States, MaxSessions, MaxMoves, None, Silent, Foreign

\* Bounds and times are numbers, a window and a session that are none are no number, and
\* nothing stands for two things.  _run_with_retry calls three times at most, and
\* a heal may verify its coordinator twice.
ASSUME Bounds ==
    /\ MaxTasks \in Nat /\ MaxStarts \in Nat /\ MaxWindows \in Nat /\ MaxCalls \in Nat
    /\ MaxPolls \in Nat /\ MaxSessions \in Nat /\ MaxMoves \in Nat
    /\ AttachGrace \in Nat /\ DetachGrace \in Nat /\ Window \in Nat /\ MaxLag \in Nat
    /\ MaxRuns \in Nat \ {0} /\ MaxPlays \in Nat \ {0} /\ MaxTries \in Nat \ {0, 1}
ASSUME Distinct ==
    /\ None \notin Nat /\ None \notin Sinks /\ None \notin Urls /\ None \notin Speakers
    /\ None \notin [delivery : BOOLEAN, encoder : BOOLEAN]
    /\ Silent \notin Urls /\ Foreign \notin Urls /\ Silent # Foreign

VARIABLES
    part,
    kind, session, running, sink, current, process, pc, on, proc, held, hasty, forgotten,
    backend, call, capturing, frameSink, sessionId, stream, callback, level, signal, lastError,
    fed, heard, leaked, starts, verdict, allowSilent,
    isOpen, task, stage, candidate, completion, closer, agent, pairable, discoverable, opened,
    closed, paired, crossed, kept,
    up, trusted, preferred, file, routine, macs, now, calls, runs, asked, unsaved, lost,
    askedThen,
    there, plays, known, record, op, listed, wanted, crowded, failed,
    source, target, lastGood, requested, selected, effective, st, ladder, rung, streams, agreed,
    tried, good, restarted,
    state, profile, renderer, encoder, established, attach, detach, recent, heals, look, lag, due,
    played, away, absences, flapped,
    bridge, chosen, polls, data, command, sure, moves

process_vars  == <<kind, session, running, sink, current, process, pc, on, proc, held, hasty,
                   forgotten>>
callback_vars == <<backend, call, capturing, frameSink, sessionId, stream, callback, level,
                   signal, lastError, fed, heard, leaked, starts, verdict, allowSilent>>
pairing_vars  == <<isOpen, task, stage, candidate, completion, closer, agent, pairable,
                   discoverable, opened, closed, paired, crossed, kept>>
trust_vars    == <<up, trusted, preferred, file, routine, macs, now, calls, runs, asked, unsaved,
                   lost, askedThen>>
sonos_vars    == <<there, plays, known, record, op, listed, wanted, crowded, failed>>
profile_vars  == <<source, target, lastGood, requested, selected, effective, st, ladder, rung,
                   streams, agreed, tried, good, restarted>>
delivery_vars == <<state, profile, renderer, encoder, established, attach, detach, recent, heals,
                   look, lag, due, played, away, absences, flapped>>
home_vars     == <<bridge, chosen, polls, data, command, sure, moves>>

\* What a source or a target may say that it takes.
Everything == [codecs |-> {"pcm_s16le", "mp3", "aac"}, rates |-> {44100, 48000},
               channels |-> {1, 2}]
SourceCaps == {None, [Everything EXCEPT !.codecs = {"pcm_s16le", "mp3"}]}
TargetCaps == [lists : {None, [Everything EXCEPT !.codecs = {"mp3"}],
                        [Everything EXCEPT !.rates = {44100}]}, maxBitrate : {256, 320}]

Process  == INSTANCE ProcessCapture
Callback == INSTANCE CallbackCapture
Pairing  == INSTANCE PairingWindow
Trust    == INSTANCE TrustedDevices
Sonos    == INSTANCE SonosTarget
Profile  == INSTANCE StreamProfiles
Delivery == INSTANCE DeliveryWatch
Home     == INSTANCE HomeAssistant

\* What does not move starts in one of its initial states.
Init ==
    /\ part \in {"process", "callback", "pairing", "trust", "sonos", "profile", "delivery",
                "home"}
    /\ Process!Init /\ Callback!Init /\ Pairing!Init /\ Trust!Init /\ Sonos!Init /\ Profile!Init
    /\ Delivery!Init /\ Home!Init
    /\ part # "process" => kind = "linux"
    /\ part # "callback" => backend = "real" /\ allowSilent
    /\ part # "sonos" => there /\ plays = Silent
    /\ part # "profile" => source = None /\ target = [lists |-> None, maxBitrate |-> 320]
                           /\ requested = None
    /\ part # "delivery" => profile = "stable"
    /\ part # "home" => data.chosen = (CHOOSE t \in Speakers : TRUE) /\ sure = {}

\* The others stay as they are.
Rest(moving) ==
    /\ moving # "process" => UNCHANGED process_vars
    /\ moving # "callback" => UNCHANGED callback_vars
    /\ moving # "pairing" => UNCHANGED pairing_vars
    /\ moving # "trust" => UNCHANGED trust_vars
    /\ moving # "sonos" => UNCHANGED sonos_vars
    /\ moving # "profile" => UNCHANGED profile_vars
    /\ moving # "delivery" => UNCHANGED delivery_vars
    /\ moving # "home" => UNCHANGED home_vars

Next ==
    /\ UNCHANGED part
    /\ Rest(part)
    /\ \/ part = "process" /\ Process!Next
       \/ part = "callback" /\ Callback!Next
       \/ part = "pairing" /\ Pairing!Next
       \/ part = "trust" /\ Trust!Next
       \/ part = "sonos" /\ Sonos!Next
       \/ part = "profile" /\ Profile!Next
       \/ part = "delivery" /\ Delivery!Next
       \/ part = "home" /\ Home!Next

vars == <<part, process_vars, callback_vars, pairing_vars, trust_vars, sonos_vars, profile_vars,
          delivery_vars, home_vars>>

Spec == Init /\ [][Next]_vars

Symmetry == Permutations(Ops) \cup Permutations(Urls)

\* The parts' state is of its type; a call is tried max_retries times at most.
TypeOK == Process!TypeOK /\ Callback!TypeOK /\ Pairing!TypeOK /\ Trust!TypeOK /\ Sonos!TypeOK
          /\ Profile!TypeOK /\ Delivery!TypeOK /\ Home!TypeOK

\* A capture, and its process, goes no further than its bridge session.
NothingLeftRunning == Process!NothingLeftRunning

\* The callback uses a sink that is still there, and the health of the Windows
\* source is that of the capture that runs.
CaptureIsItsOwn == Callback!CallbackFindsSink /\ Callback!HealthIsOfThisCapture

\* A window leaves the adapter as it was, however it ends.
ClosedIsClosed == Pairing!ClosedIsClosed

\* A heal never brings back a stream that was stopped or replaced.
StopSticks == Sonos!StopSticks

\* A restart does not bring back a device that was forgotten.
ForgottenStaysForgotten == Trust!ForgottenStaysForgotten

\* What a start selects is what both sides take, and the best of it that has not
\* failed; in a first start that is also what the pipeline encodes.
ProfileFits == Profile!ProfileFits

\* A session is quiesced, or falls back, for a renderer that really was away.
DetachmentsAreReal == Delivery!DetachmentsAreReal

\* A stop pressed in Home Assistant reaches what has played since the last poll.
StopReachesWhatPlays == Home!StopReachesWhatPlays
=============================================================================
