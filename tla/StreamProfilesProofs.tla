------------------------ MODULE StreamProfilesProofs ------------------------
(***************************************************************************)
(* Proofs about StreamProfiles, for any capabilities that sources and      *)
(* targets may describe.  The invariant says what is left of the ladder:   *)
(* its rungs are profiles both sides accept, the present one is the best   *)
(* of them, and what both accept is on it, has failed, or is better than   *)
(* a profile known to be good.                                             *)
(***************************************************************************)
EXTENDS StreamProfiles, TLAPS

LadderOK ==
    /\ st = "idle" => rung = None
    /\ rung # None => rung \in ladder /\ \A q \in ladder : rung <= q
    /\ ladder \subseteq agreed \/ (agreed = {} /\ ladder \subseteq {MP3})

NothingForgotten ==
    st # "idle" /\ requested = AnyProfile =>
        \A p \in agreed : p \in ladder \/ p \in tried \/ (good \in agreed /\ p < good)

StreamOK ==
    /\ st = "starting" /\ ~restarted => effective = None /\ (rung # None => streams = rung)
    /\ st = "playing" => streams = effective \/ restarted
    /\ st = "playing" => effective # None

Inv == TypeOK /\ LadderOK /\ NothingForgotten /\ StreamOK

\* There is a best profile whenever there is one at all.
LEMMA BestExists ==
    ASSUME NEW s, NEW t, NEW p \in Profiles, Supported(p, s, t)
    PROVE  \E b \in Profiles : Supported(b, s, t) /\ \A q \in 1 .. b - 1 : ~Supported(q, s, t)
<1>1. CASE Supported(1, s, t)
  BY <1>1 DEF Profiles, PCM, AAC, MP3
<1>2. CASE ~Supported(1, s, t) /\ Supported(2, s, t)
  <2>1. \A q \in 1 .. 2 - 1 : q = 1
    OBVIOUS
  <2> QED
    BY <1>2, <2>1 DEF Profiles, PCM, AAC, MP3
<1>3. CASE ~Supported(1, s, t) /\ ~Supported(2, s, t)
  <2>1. p = 3 /\ \A q \in 1 .. 3 - 1 : q = 1 \/ q = 2
    BY <1>3 DEF Profiles, PCM, AAC, MP3
  <2> QED
    BY <1>3, <2>1 DEF Profiles, PCM, AAC, MP3
<1> QED
  BY <1>1, <1>2, <1>3

\* What negotiate_stream_profile promises: a profile; one that both accept if
\* there is any; the profile that was good, or the best.
LEMMA NegotiatedIsBest ==
    ASSUME NEW s, NEW t, NEW g \in Profiles \cup {None}
    PROVE  /\ Negotiated(s, t, g) \in Profiles
           /\ \A p \in Profiles : Supported(p, s, t) => Supported(Negotiated(s, t, g), s, t)
           /\ (\A p \in Profiles : ~Supported(p, s, t)) => Negotiated(s, t, g) = MP3
           /\ \A p \in Profiles : Supported(p, s, t) /\ p < Negotiated(s, t, g) =>
                  Negotiated(s, t, g) = g
<1>1. CASE g # None /\ Supported(g, s, t)
  <2>1. Negotiated(s, t, g) = g /\ g \in Profiles
    BY <1>1 DEF Negotiated
  <2> QED
    BY <1>1, <2>1
<1>2. CASE ~(g # None /\ Supported(g, s, t)) /\ \E p \in Profiles : Supported(p, s, t)
  <2> DEFINE Best(p) == Supported(p, s, t) /\ \A q \in 1 .. p - 1 : ~Supported(q, s, t)
             n == Negotiated(s, t, g)
  <2>1. n = CHOOSE p \in Profiles : Best(p)
    BY <1>2 DEF Negotiated
  <2>2. \E p \in Profiles : Best(p)
    BY <1>2, BestExists
  <2>3. n \in Profiles /\ Best(n)
    <3> HIDE DEF Best, n
    <3> QED
      BY <2>1, <2>2
  <2>4. \A p \in Profiles : p < n => p \in 1 .. n - 1
    BY <2>3 DEF Profiles, PCM, AAC, MP3
  <2> QED
    BY <1>2, <2>3, <2>4
<1>3. CASE ~(g # None /\ Supported(g, s, t)) /\ ~\E p \in Profiles : Supported(p, s, t)
  <2>1. Negotiated(s, t, g) = MP3
    BY <1>3 DEF Negotiated
  <2> QED
    BY <1>3, <2>1 DEF Profiles
<1> QED
  BY <1>1, <1>2, <1>3

LEMMA InitInv == Init => Inv
  BY DEF Init, Inv, TypeOK, LadderOK, NothingForgotten, StreamOK

\* A start: the ladder goes down from what was negotiated or asked for.
LEMMA StartInv == Inv /\ Start => Inv'
<1> SUFFICES ASSUME Inv, Start
             PROVE  Inv'
  OBVIOUS
<1> DEFINE first == IF requested = AnyProfile THEN Negotiated(source, target, lastGood)
                    ELSE requested
<1>1. lastGood \in Profiles \cup {None}
  BY DEF Inv, TypeOK
<1>2. /\ selected' = first
      /\ ladder' = IF requested = AnyProfile THEN Ladder(first, source, target) ELSE {first}
      /\ agreed' = {p \in Profiles : Supported(p, source, target)}
      /\ good' = lastGood /\ restarted' = (effective # None)
      /\ st' = "starting" /\ rung' = None /\ tried' = {} /\ streams' = None
      /\ UNCHANGED <<source, target, lastGood, requested, effective>>
      /\ \/ requested = AnyProfile
         \/ requested \in Profiles /\ Supported(requested, source, target)
  BY DEF Start
<1>3. first \in Profiles
  BY <1>1, <1>2, NegotiatedIsBest
<1>4. first \in agreed' \/ (agreed' = {} /\ first = MP3)
  <2>1. CASE requested = AnyProfile
    <3> HIDE DEF first
    <3>1. first = Negotiated(source, target, lastGood)
      BY <2>1 DEF first
    <3> QED
      BY <1>1, <1>2, <1>3, <3>1, NegotiatedIsBest
  <2>2. CASE requested # AnyProfile
    BY <1>2, <1>3, <2>2
  <2> QED
    BY <2>1, <2>2
<1>5. TypeOK'
  <2>1. ladder' \subseteq Profiles /\ agreed' \subseteq Profiles
    <3> HIDE DEF first
    <3> QED
      BY <1>2, <1>3 DEF Ladder
  <2>2. /\ st' = "starting" /\ rung' = None /\ tried' = {} /\ streams' = None
        /\ selected' \in Profiles /\ good' = lastGood
        /\ restarted' \in BOOLEAN
    <3> HIDE DEF first
    <3> QED
      BY <1>2, <1>3
  <2> HIDE DEF first
  <2> QED
    BY <1>2, <2>1, <2>2 DEF Inv, TypeOK
<1>6. LadderOK'
  <2> HIDE DEF first
  <2>1. ladder' \subseteq {first} \cup {p \in agreed' : p > first}
    BY <1>2 DEF Ladder
  <2>2. agreed' = {} => ladder' \subseteq {MP3}
    BY <1>4, <2>1
  <2>3. agreed' # {} => ladder' \subseteq agreed'
    BY <1>4, <2>1
  <2> QED
    BY <1>2, <2>2, <2>3 DEF LadderOK
<1>7. NothingForgotten'
  <2> SUFFICES ASSUME requested' = AnyProfile, NEW p \in agreed'
               PROVE  p \in ladder' \/ (good' \in agreed' /\ p < good')
    BY DEF NothingForgotten
  <2>1. first = Negotiated(source, target, lastGood) /\ ladder' = Ladder(first, source, target)
    BY <1>2
  <2>2. p \in Profiles /\ Supported(p, source, target)
    BY <1>2
  <2> HIDE DEF first
  <2>3. CASE p < first
    <3>1. first = lastGood
      BY <1>1, <2>1, <2>2, <2>3, NegotiatedIsBest
    <3> QED
      BY <1>2, <1>4, <2>2, <2>3, <3>1
  <2>4. CASE p = first \/ p > first
    BY <2>1, <2>2, <2>4 DEF Ladder
  <2> QED
    BY <1>3, <2>2, <2>3, <2>4 DEF Profiles, PCM, AAC, MP3
<1>8. StreamOK'
  <2> HIDE DEF first
  <2> QED
    BY <1>2 DEF StreamOK
<1> QED
  BY <1>5, <1>6, <1>7, <1>8 DEF Inv

LEMMA AttemptInv == Inv /\ Attempt => Inv'
<1> SUFFICES ASSUME Inv, Attempt
             PROVE  Inv'
  OBVIOUS
<1> USE DEF Inv
<1>1. PICK p \in ladder : /\ \A q \in ladder : p <= q
                          /\ rung' = p /\ selected' = p /\ streams' = PipelineProfile(p)
  BY DEF Attempt
<1>2. /\ st = "starting"
      /\ UNCHANGED <<source, target, lastGood, requested, effective, st, ladder, tried, facts>>
  BY DEF Attempt
<1>3. TypeOK'
  BY <1>1, <1>2 DEF TypeOK, PipelineProfile, facts
<1>4. LadderOK'
  BY <1>1, <1>2 DEF LadderOK, facts
<1>5. NothingForgotten' /\ StreamOK'
  BY <1>1, <1>2 DEF NothingForgotten, StreamOK, PipelineProfile, facts
<1> QED
  BY <1>3, <1>4, <1>5

LEMMA AttemptFailsInv == Inv /\ AttemptFails => Inv'
<1> SUFFICES ASSUME Inv, AttemptFails
             PROVE  Inv'
  OBVIOUS
<1> USE DEF Inv
<1>1. /\ st = "starting" /\ rung # None
      /\ tried' = tried \cup {rung} /\ ladder' = ladder \ {rung}
      /\ st' \in {"idle", "starting"} /\ rung' = None /\ streams' = None
      /\ UNCHANGED <<source, target, lastGood, session, facts>>
  BY DEF AttemptFails
<1>2. TypeOK'
  BY <1>1 DEF TypeOK, session, facts
<1>3. LadderOK'
  BY <1>1 DEF LadderOK, facts
<1>4. NothingForgotten' /\ StreamOK'
  BY <1>1 DEF NothingForgotten, StreamOK, session, facts
<1> QED
  BY <1>2, <1>3, <1>4

LEMMA AttemptSucceedsInv == Inv /\ AttemptSucceeds => Inv'
<1> SUFFICES ASSUME Inv, AttemptSucceeds
             PROVE  Inv'
  OBVIOUS
<1> USE DEF Inv
<1>1. /\ st = "starting" /\ rung # None
      /\ effective' = rung /\ lastGood' = rung /\ st' = "playing"
      /\ UNCHANGED <<source, target, requested, selected, attempt, streams, facts>>
  BY DEF AttemptSucceeds
<1>2. TypeOK' /\ LadderOK'
  BY <1>1 DEF TypeOK, LadderOK, attempt, facts
<1>3. NothingForgotten' /\ StreamOK'
  BY <1>1 DEF NothingForgotten, StreamOK, attempt, facts
<1> QED
  BY <1>2, <1>3

LEMMA NextInv == Inv /\ [Next]_vars => Inv'
<1> SUFFICES ASSUME Inv, [Next]_vars
             PROVE  Inv'
  OBVIOUS
<1>1. CASE Refresh
  BY <1>1 DEF Refresh, Inv, TypeOK, LadderOK, NothingForgotten, StreamOK, session, attempt, facts
<1>2. CASE NewSession
  BY <1>2 DEF NewSession, Inv, TypeOK, LadderOK, NothingForgotten, StreamOK, attempt, facts
<1>3. CASE Start
  BY <1>3, StartInv
<1>4. CASE Attempt
  BY <1>4, AttemptInv
<1>5. CASE AttemptFails
  BY <1>5, AttemptFailsInv
<1>6. CASE AttemptSucceeds
  BY <1>6, AttemptSucceedsInv
<1>7. CASE Swap
  BY <1>7 DEF Swap, PipelineProfile, Inv, TypeOK, LadderOK, NothingForgotten, StreamOK, session,
              attempt, facts
<1>8. CASE Ends
  BY <1>8 DEF Ends, Inv, TypeOK, LadderOK, NothingForgotten, StreamOK, session, facts
<1>9. CASE UNCHANGED vars
  BY <1>9 DEF vars, Inv, TypeOK, LadderOK, NothingForgotten, StreamOK, session, attempt, facts
<1> QED
  BY <1>1, <1>2, <1>3, <1>4, <1>5, <1>6, <1>7, <1>8, <1>9 DEF Next

\* The variables hold what they should, whatever is described and requested.
THEOREM TypeCorrect == Spec => []TypeOK
<1>1. Inv => TypeOK
  BY DEF Inv
<1> QED
  BY <1>1, InitInv, NextInv, PTL DEF Spec

\* A session plays what both sides accept and the best of it, and in its first
\* start its pipeline encodes what the session says it plays.
THEOREM Fits == Spec => []ProfileFits
<1>1. Inv => PlaysWhatBothAccept
  BY DEF Inv, LadderOK, PlaysWhatBothAccept
<1>2. Inv => BestFirst
  <2> SUFFICES ASSUME Inv, NEW p \in agreed, rung # None, requested = AnyProfile, p < rung
               PROVE  p \in tried \/ (good \in agreed /\ p < good)
    BY DEF BestFirst
  <2>1. p \notin ladder
    BY DEF Inv, TypeOK, LadderOK, Profiles, PCM, AAC, MP3
  <2> QED
    BY <2>1 DEF Inv, LadderOK, NothingForgotten
<1>3. Inv => StreamsWhatItSays
  BY DEF Inv, StreamOK, StreamsWhatItSays
<1>4. Inv => ProfileFits
  BY <1>1, <1>2, <1>3 DEF ProfileFits
<1> QED
  BY <1>4, InitInv, NextInv, PTL DEF Spec
=============================================================================
