--------------------------- MODULE StreamProfiles ---------------------------
(***************************************************************************)
(* Which encoding a session plays: what its source and its target accept,  *)
(* the profile that worked for the pair before, the ladder of profiles     *)
(* that start_session descends, and the profile its pipeline is built for. *)
(***************************************************************************)
EXTENDS Naturals

CONSTANTS
    SourceCaps,   \* capabilities a source may describe
    TargetCaps,   \* and a target
    None

\* STREAM_PROFILE_ORDER, from the best
PCM == 1   AAC == 2   MP3 == 3
Profiles == {PCM, AAC, MP3}
AnyProfile == 0   \* the request that leaves the choice to the bridge

STREAM_PROFILES ==
    [p \in Profiles |->
        CASE p = PCM -> [codec |-> "pcm_s16le", rate |-> 48000, channels |-> 2, bitrate |-> 0]
          [] p = AAC -> [codec |-> "aac",       rate |-> 48000, channels |-> 2, bitrate |-> 256]
          [] p = MP3 -> [codec |-> "mp3",       rate |-> 48000, channels |-> 2, bitrate |-> 320]]

\* Bound: a higher max_bitrate_kbps says no more than none.
Unlimited == 320

\* A list that is not given stands for all that the bridge can do.
Lists(caps) == IF caps = None
               THEN [codecs |-> {"pcm_s16le", "mp3", "aac"}, rates |-> {44100, 48000},
                     channels |-> {1, 2}]
               ELSE caps

\* is_profile_supported
Supported(p, s, t) ==
    LET profile == STREAM_PROFILES[p]
    IN  /\ \A caps \in {Lists(s), Lists(t.lists)} :
            /\ profile.codec \in caps.codecs
            /\ profile.rate \in caps.rates
            /\ profile.channels \in caps.channels
        /\ profile.bitrate <= t.maxBitrate

\* negotiate_stream_profile: the profile that was good, else the best one,
\* else the one every speaker should play.
Negotiated(s, t, lastGood) ==
    IF lastGood # None /\ Supported(lastGood, s, t) THEN lastGood
    ELSE IF \E p \in Profiles : Supported(p, s, t)
         THEN CHOOSE p \in Profiles : /\ Supported(p, s, t)
                                      /\ \A q \in 1 .. p - 1 : ~Supported(q, s, t)
         ELSE MP3

(* Mutant: the lower rungs are not asked about. *)
EveryLowerRung(first, s, t) == {first} \cup {p \in Profiles : p > first}

\* The rungs of start_session's ladder, which go down.
Ladder(first, s, t) == {first} \cup {p \in Profiles : p > first /\ Supported(p, s, t)}

VARIABLES
    source, target,      \* capabilities as they are now
    lastGood,            \* lkg_profile of this source and target, in the config store
    requested,           \* AnyProfile, a profile, or None for a name nobody knows
    selected, effective, \* of the session
    st,                  \* "idle", "starting", "playing"
    ladder,              \* rungs that are left, the present one included
    rung,                \* the present one
    streams,             \* the profile the pipeline encodes
    agreed, tried,       \* profiles both accept at this start; the rungs that failed
    good,                \* lastGood at this start
    restarted            \* the session has played before this start

session == <<requested, selected, effective>>
attempt == <<ladder, rung, tried>>
facts == <<agreed, good, restarted>>
vars == <<source, target, lastGood, session, st, attempt, streams, facts>>

Init ==
    /\ source \in SourceCaps /\ target \in TargetCaps
    /\ lastGood = None
    /\ requested \in Profiles \cup {AnyProfile, None} /\ selected = None /\ effective = None
    /\ st = "idle" /\ ladder = {} /\ rung = None /\ streams = None
    /\ agreed = {} /\ tried = {} /\ good = None /\ restarted = FALSE

-----------------------------------------------------------------------------
\* A refresh describes the source or the target anew.
Refresh ==
    /\ source' \in SourceCaps /\ target' \in TargetCaps
    /\ UNCHANGED <<lastGood, session, st, attempt, streams, facts>>

\* Another session of the same source and target.
NewSession ==
    /\ st = "idle"
    /\ requested' \in Profiles \cup {AnyProfile, None} /\ selected' = None /\ effective' = None
    /\ streams' = None
    /\ UNCHANGED <<source, target, lastGood, st, attempt, facts>>

\* start_session decides about the ladder once.
Start ==
    /\ st = "idle"
    /\ \/ requested = AnyProfile
       \/ requested \in Profiles /\ Supported(requested, source, target)
    /\ LET first == IF requested = AnyProfile THEN Negotiated(source, target, lastGood)
                    ELSE requested
       IN  /\ selected' = first
           /\ ladder' = IF requested = AnyProfile THEN Ladder(first, source, target) ELSE {first}
    /\ agreed' = {p \in Profiles : Supported(p, source, target)}
    /\ good' = lastGood /\ restarted' = (effective # None)
    /\ st' = "starting" /\ rung' = None /\ tried' = {} /\ streams' = None
    /\ UNCHANGED <<source, target, lastGood, requested, effective>>

\* The profile _build_pipeline asks for: that of the last play comes first.
PipelineProfile(present) == IF effective # None THEN effective ELSE present

\* A rung builds its pipeline from the session, unless it fails before.
Attempt ==
    /\ st = "starting" /\ rung = None
    /\ \E p \in ladder :
        /\ \A q \in ladder : p <= q
        /\ rung' = p /\ selected' = p
        /\ streams' = PipelineProfile(p)
    /\ UNCHANGED <<source, target, lastGood, requested, effective, st, ladder, tried, facts>>

\* The clean-up of a rung; the last one's failure is the start's.
AttemptFails ==
    /\ st = "starting" /\ rung # None
    /\ tried' = tried \cup {rung}
    /\ ladder' = ladder \ {rung}
    /\ st' = IF ladder' = {} THEN "idle" ELSE st
    /\ rung' = None /\ streams' = None
    /\ UNCHANGED <<source, target, lastGood, session, facts>>

AttemptSucceeds ==
    /\ st = "starting" /\ rung # None
    /\ effective' = rung /\ lastGood' = rung
    /\ st' = "playing"
    /\ UNCHANGED <<source, target, requested, selected, attempt, streams, facts>>

\* A swap of the pipeline while the session plays.
Swap ==
    /\ st = "playing"
    /\ streams' = PipelineProfile(selected)
    /\ UNCHANGED <<source, target, lastGood, session, st, attempt, facts>>

\* The session stops, fails or degrades, and may be started again.
Ends ==
    /\ st = "playing"
    /\ st' = "idle" /\ streams' = None /\ ladder' = {} /\ rung' = None
    /\ UNCHANGED <<source, target, lastGood, session, tried, facts>>

Next ==
    \/ Refresh \/ NewSession
    \/ Start \/ Attempt \/ AttemptFails \/ AttemptSucceeds \/ Swap \/ Ends

Spec == Init /\ [][Next]_vars

-----------------------------------------------------------------------------
(* Properties *)

\* What the variables hold.
TypeOK ==
    /\ source \in SourceCaps /\ target \in TargetCaps
    /\ lastGood \in Profiles \cup {None} /\ requested \in Profiles \cup {AnyProfile, None}
    /\ selected \in Profiles \cup {None} /\ effective \in Profiles \cup {None}
    /\ st \in {"idle", "starting", "playing"}
    /\ ladder \subseteq Profiles /\ rung \in Profiles \cup {None}
    /\ streams \in Profiles \cup {None}
    /\ agreed \subseteq Profiles /\ tried \subseteq Profiles
    /\ good \in Profiles \cup {None} /\ restarted \in BOOLEAN

\* The profile of a start is one that source and target both accept, whatever
\* was good for them before and however many rungs have failed; MP3 is tried
\* when they accept nothing.
PlaysWhatBothAccept == rung # None => rung \in agreed \/ (agreed = {} /\ rung = MP3)

\* A better profile that both accept is passed over only when it has failed in
\* this start, or when a lower one is known to be good.
BestFirst == \A p \in agreed :
    rung # None /\ requested = AnyProfile /\ p < rung =>
        p \in tried \/ (good \in agreed /\ p < good)

\* In its first start a session streams the profile it says it plays; one that
\* has played before streams what it played then until a swap, whatever rung
\* the ladder is on.
StreamsWhatItSays == st = "playing" => streams = effective \/ restarted

\* The ladder and the pipeline fit the session.
ProfileFits == PlaysWhatBothAccept /\ BestFirst /\ StreamsWhatItSays
=============================================================================
