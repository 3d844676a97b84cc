--------------------------- MODULE DeliveryWatch ----------------------------
(***************************************************************************)
(* What the session monitor makes of a renderer that stops taking the      *)
(* stream: the grace after a play request, the grace of a detachment, and  *)
(* the fall-back from the experimental to the stable delivery profile.     *)
(* Times are ages in seconds.  The monitor looks several times a second,   *)
(* but awaits the renderer's ownership in between, with what it saw.  The  *)
(* heals and the loss of the encoder for good are in MediaHeal.            *)
(***************************************************************************)
EXTENDS Integers, Sequences

CONSTANTS
    AttachGrace,   \* primary_attach_grace: a renderer may take as long to come
    DetachGrace,   \* primary_detach_grace_ms
    Window,        \* detachments are remembered as long (90 s)
    MaxLag,        \* bound: how long inspect_ownership takes
    MaxPlays,      \* bound: starts of the session
    None

VARIABLES
    state,        \* of the session: "playing" or "quiesced"
    profile,      \* effective_delivery_profile
    renderer,     \* a healthy primary renderer takes the stream
    encoder,      \* the encoder is alive
    established,  \* primary_established, which nothing takes back
    attach,       \* what is left of the grace after a play request
    detach,       \* age of primary_detach_started_at
    recent,       \* ages of recent_primary_detach_times_monotonic
    heals,        \* delivery_heal_attempts_total: 0, 1, or 2 for more
    look,         \* what the monitor has seen, while it awaits
    lag,          \* age of its `now`
    due,          \* it will look before the second is over
    played,       \* starts of the session
    away,         \* for how long every look has seen no renderer
    absences,     \* how often that began, in this start: 0, 1, or 2 for more
    flapped       \* a detachment was cleared while the renderer was away

clock == <<look, lag, due>>
facts == <<away, absences, flapped>>
vars == <<state, profile, renderer, encoder, established, attach, detach, recent, heals, clock,
          played, facts>>

\* An age says no more when it is past every limit.
Cap == Window + MaxLag + 1
Older(age) == IF age = None \/ age = Cap THEN age ELSE age + 1

Init ==
    /\ state = "playing" /\ profile \in {"stable", "experimental"}
    /\ renderer = FALSE /\ encoder = TRUE /\ established = FALSE
    /\ attach = AttachGrace /\ detach = None /\ recent = <<>> /\ heals = 0
    /\ look = None /\ lag = 0 /\ due = TRUE
    /\ played = 1 /\ away = None /\ absences = 0 /\ flapped = FALSE

-----------------------------------------------------------------------------
(* Time, the renderer and the encoder *)

Passes ==
    /\ \/ look = None /\ ~due /\ due' = TRUE /\ UNCHANGED lag
       \/ look # None /\ lag < MaxLag /\ lag' = lag + 1 /\ UNCHANGED due
    /\ attach' = IF attach = 0 THEN 0 ELSE attach - 1
    /\ detach' = Older(detach) /\ away' = Older(away)
    /\ recent' = [i \in DOMAIN recent |-> Older(recent[i])]
    /\ UNCHANGED <<state, profile, renderer, encoder, established, heals, look, played, absences,
                   flapped>>

RendererComesOrGoes ==
    /\ state = "playing"
    /\ renderer' = ~renderer
    /\ UNCHANGED <<state, profile, encoder, established, attach, detach, recent, heals, clock,
                   played, facts>>

EncoderHiccups ==
    /\ state = "playing"
    /\ encoder' = ~encoder
    /\ UNCHANGED <<state, profile, renderer, established, attach, detach, recent, heals, clock,
                   played, facts>>

-----------------------------------------------------------------------------
(* The monitor *)

Looks ==
    /\ state = "playing" /\ look = None
    /\ look' = [delivery |-> renderer, encoder |-> encoder] /\ lag' = 0 /\ due' = FALSE
    /\ established' = (established \/ renderer)
    /\ away' = IF renderer THEN None ELSE IF away = None THEN 0 ELSE away
    /\ absences' = IF renderer \/ away # None \/ absences = 2 THEN absences ELSE absences + 1
    /\ UNCHANGED <<state, profile, renderer, encoder, attach, detach, recent, heals, played,
                   flapped>>

\* The renderer should be there, and was not at the look.
Missed == established /\ attach = 0 /\ look.encoder /\ ~look.delivery

(* Mutant: a renderer that has come back does not clear it. *)
NeverCleared == IF profile = "experimental" /\ Missed /\ detach = None THEN lag ELSE detach

\* A detachment begins, goes on, or is cleared.
Detachment == IF profile # "experimental" \/ ~Missed THEN None
              ELSE IF detach = None THEN lag ELSE detach

\* Off the front of the queue go those older than the window.
Pruned(ages) ==
    LET Young(i) == ages[i] - lag <= Window
        first == CHOOSE i \in 1 .. Len(ages) + 1 :
                     /\ i <= Len(ages) => Young(i)
                     /\ \A j \in 1 .. i - 1 : ~Young(j)
    IN  SubSeq(ages, first, Len(ages))

\* _record_primary_detach_event, and the pruning before each decision
Remembered ==
    IF profile = "experimental" /\ Missed
    THEN Pruned(IF detach = None THEN Append(recent, lag) ELSE recent)
    ELSE recent

FallsBack == profile = "experimental" /\ Missed /\ (Len(Remembered) >= 2 \/ heals > 1)

\* delivery_should_degrade
Overdue == /\ Detachment # None /\ Detachment - lag >= DetachGrace
           /\ established /\ attach = 0 /\ look.encoder

\* The rest of the loop's round, from what it saw before the await.  A quiesced
\* session that is still on the experimental profile may be healed by a replay.
Judges ==
    /\ look # None /\ state = "playing"
    /\ look' = None
    /\ detach' = Detachment /\ recent' = Remembered
    /\ profile' = IF FallsBack THEN "stable" ELSE profile
    /\ flapped' = (flapped \/ (detach # None /\ ~look.delivery /\ Detachment = None))
    /\ IF Overdue
       THEN /\ state' = "quiesced"
            /\ heals' \in IF profile' = "stable" \/ heals = 2 THEN {heals} ELSE {heals, heals + 1}
       ELSE UNCHANGED <<state, heals>>
    /\ UNCHANGED <<renderer, encoder, established, attach, lag, due, played, away, absences>>

-----------------------------------------------------------------------------
(* Calls *)

\* play() of what plays requests the playback again.
PlaysAgain ==
    /\ state = "playing" /\ attach < AttachGrace
    /\ attach' = AttachGrace
    /\ UNCHANGED <<state, profile, renderer, encoder, established, detach, recent, heals, clock,
                   played, facts>>

\* A start resets the profile to the configured one and forgets detachments,
\* but not heals, nor that there was a primary.
StartsAgain ==
    /\ state = "quiesced" /\ played < MaxPlays
    /\ state' = "playing" /\ played' = played + 1
    /\ profile' \in {"stable", "experimental"}
    /\ renderer' = FALSE /\ encoder' = TRUE
    /\ attach' = AttachGrace /\ detach' = None /\ recent' = <<>>
    /\ look' = None /\ lag' = 0 /\ due' = TRUE
    /\ away' = None /\ absences' = 0 /\ flapped' = FALSE
    /\ UNCHANGED <<established, heals>>

Next ==
    \/ Passes \/ RendererComesOrGoes \/ EncoderHiccups
    \/ Looks \/ Judges \/ PlaysAgain \/ StartsAgain

Spec == Init /\ [][Next]_vars

-----------------------------------------------------------------------------
(* Properties *)

Ages == 0 .. Cap

\* What the variables hold.
TypeOK ==
    /\ state \in {"playing", "quiesced"} /\ profile \in {"stable", "experimental"}
    /\ renderer \in BOOLEAN /\ encoder \in BOOLEAN /\ established \in BOOLEAN
    /\ attach \in 0 .. AttachGrace /\ {detach, away} \subseteq Ages \cup {None}
    /\ recent \in Seq(Ages) /\ Len(recent) <= 2
    /\ heals \in 0 .. 2 /\ look \in [delivery : BOOLEAN, encoder : BOOLEAN] \cup {None}
    /\ lag \in 0 .. MaxLag /\ due \in BOOLEAN /\ played \in 1 .. MaxPlays
    /\ absences \in 0 .. 2 /\ flapped \in BOOLEAN

\* A session is quiesced only when every look for as long as the grace has
\* missed its renderer, however often it came and went before, and whatever
\* was awaited between a look and its consequence.
QuiescedOnlyWhenAway == state = "quiesced" => away # None /\ away - lag >= DetachGrace

\* One absence does not make a session fall back to the stable profile, where
\* an absence is no longer noticed: it takes a second one, a second heal, or
\* an encoder or a play request that broke the first one in two.
FallsBackOnRepeat == look # None => (FallsBack => absences = 2 \/ heals > 1 \/ flapped)

\* Detachments are real.
DetachmentsAreReal == QuiescedOnlyWhenAway /\ FallsBackOnRepeat
=============================================================================
