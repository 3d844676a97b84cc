--------------------------- MODULE HomeAssistant ----------------------------
(***************************************************************************)
(* The Home Assistant integration: the coordinator's polls of the bridge,  *)
(* the data the entities read, and the commands of their buttons.          *)
(*                                                                         *)
(* A poll reads the bridge in one request after the other, while sessions  *)
(* go on; polls may overlap.  A command works on the data of the poll that *)
(* ended last, and other polls replace the data while it works.            *)
(***************************************************************************)
EXTENDS Naturals, FiniteSets, SessionStates

CONSTANTS
    MaxPolls,     \* polls at one time
    Speakers,     \* targets
    States,       \* bound: the states that sessions take, of those the entities
                  \* tell apart
    MaxSessions,  \* bound: sessions the bridge lists, oldest first
    MaxMoves,     \* bound: changes of state at the bridge
    None

VARIABLES
    bridge,    \* the sessions: [state, speaker]
    chosen,    \* preferred_target_id in the bridge's configuration
    polls,     \* the polls under way
    data,      \* coordinator.data
    command,   \* what the user has pressed
    sure,      \* sessions that have played since the poll that brought data began
    moves

vars == <<bridge, chosen, polls, data, command, sure, moves>>

Sessions == 1 .. MaxSessions
Nothing  == [s \in Sessions |-> ABSENT]

NoCommand == [pc |-> "idle", left |-> {}, owed |-> {}]

Playing(b) == {s \in Sessions : b[s].state = PLAYING}
StatesIn(b) == [s \in Sessions |-> b[s].state]

\* The first refresh ends before there are entities; something may play then.
Init ==
    /\ \E n \in {ABSENT, PLAYING}, t \in Speakers :
           bridge = [s \in Sessions |-> IF s = 1 /\ n = PLAYING THEN [state |-> n, speaker |-> t]
                                       ELSE [state |-> ABSENT, speaker |-> None]]
    /\ chosen \in Speakers
    /\ polls = {}
    /\ data = [sessions |-> StatesIn(bridge), chosen |-> chosen]
    /\ command = NoCommand
    /\ sure = Playing(bridge)
    /\ moves = 0

-----------------------------------------------------------------------------
(* The bridge *)

\* Who stops playing, for whatever reason, need not be stopped any more.
Becomes(b) ==
    /\ bridge' = b
    /\ polls' = {[p EXCEPT !.steady = @ \cap Playing(b)] : p \in polls}
    /\ sure' = sure \cap Playing(b)

Owed(b) == command.owed \cap Playing(b)

\* Sessions move on by themselves, and by other clients.
Moves == \E s \in Sessions, n \in States :
    /\ moves < MaxMoves
    /\ <<bridge[s].state, n>> \in ValidTransitions
    /\ Becomes([bridge EXCEPT ![s].state = n])
    /\ command' = [command EXCEPT !.owed = Owed(bridge')]
    /\ moves' = moves + 1
    /\ UNCHANGED <<chosen, data>>

\* play() of another source: what was on the speaker is superseded.
PlayedOn(speaker) ==
    {[r \in Sessions |->
         IF r = s THEN [state |-> STARTING, speaker |-> speaker]
         ELSE IF bridge[r].speaker = speaker /\ bridge[r].state \notin {STOPPED, FAILED}
         THEN [bridge[r] EXCEPT !.state = SUPERSEDED]
         ELSE bridge[r]] :
     s \in {s \in Sessions : /\ bridge[s].state = ABSENT
                             /\ \A r \in 1 .. s - 1 : bridge[r].state # ABSENT}}

SomebodyPlays == \E speaker \in Speakers : \E b \in PlayedOn(speaker) :
    /\ Becomes(b)
    /\ command' = [command EXCEPT !.owed = Owed(bridge')]
    /\ UNCHANGED <<chosen, data, moves>>

\* A speaker is chosen, in Home Assistant or elsewhere.
Chooses ==
    /\ moves < MaxMoves /\ moves' = moves + 1
    /\ chosen' \in Speakers \ {chosen}
    /\ UNCHANGED <<bridge, polls, data, command, sure>>

-----------------------------------------------------------------------------
(* _async_update_data *)

Poll == [pc : {"listing", "config"}, steady : SUBSET Sessions,
         sessions : [Sessions -> SessionState \cup {ABSENT}]]

(* Mutant: the poll fills the data that the entities read. *)
BeginsInPlace ==
    /\ Cardinality(polls) < MaxPolls
    /\ polls' = polls \cup {[pc |-> "listing", sessions |-> Nothing, steady |-> Playing(bridge)]}
    /\ data' = [data EXCEPT !.sessions = Nothing]
    /\ UNCHANGED <<bridge, chosen, command, sure, moves>>

\* Health, sources and targets come first.
Begins ==
    /\ Cardinality(polls) < MaxPolls
    /\ polls' = polls \cup {[pc |-> "listing", sessions |-> Nothing, steady |-> Playing(bridge)]}
    /\ UNCHANGED <<bridge, chosen, data, command, sure, moves>>

ListsSessions == \E p \in polls :
    /\ p.pc = "listing"
    /\ polls' = (polls \ {p}) \cup
                 {[p EXCEPT !.pc = "config", !.sessions = StatesIn(bridge)]}
    /\ UNCHANGED <<bridge, chosen, data, command, sure, moves>>

\* The configuration comes last, and the new data replaces the old.
Ends == \E p \in polls :
    /\ p.pc = "config"
    /\ data' = [sessions |-> p.sessions, chosen |-> chosen]
    /\ sure' = p.steady
    /\ polls' = polls \ {p}
    /\ UNCHANGED <<bridge, chosen, command, moves>>

\* A request fails, or ten seconds are over: the old data stays.
Fails == \E p \in polls :
    /\ polls' = polls \ {p}
    /\ UNCHANGED <<bridge, chosen, data, command, sure, moves>>

-----------------------------------------------------------------------------
(* Commands *)

Presses(left, owed) ==
    /\ command.pc = "idle"
    /\ command' = [pc |-> "asking", left |-> left, owed |-> owed]
    /\ UNCHANGED <<bridge, chosen, polls, data, sure, moves>>

\* async_stop_playback, of the button and of the service
PressStop ==
    Presses({s \in Sessions : data.sessions[s] \in {PLAYING, STARTING, PREPARING, HEALING}}, sure)

\* get_active_session is the oldest of these.
OnSpeaker == {s \in Sessions : /\ data.sessions[s] \notin {ABSENT, STOPPED}
                               /\ bridge[s].speaker = data.chosen}
ActiveSession == {s \in OnSpeaker : \A r \in OnSpeaker : s <= r}

PressMediaStop == Presses(ActiveSession, sure \cap ActiveSession)

\* A play goes to the speaker that was chosen when the data was read.
PressPlay ==
    /\ command.pc = "idle"
    /\ \/ \E b \in PlayedOn(data.chosen) : Becomes(b)
       \/ UNCHANGED <<bridge, polls, sure>>
    /\ UNCHANGED <<chosen, data, command, moves>>

\* stop_session of the bridge, and its answer.
Stoppable(s) == \/ bridge[s].state \in {STOPPED, STOPPING}
                \/ <<bridge[s].state, STOPPING>> \in ValidTransitions
Stopped(s) == IF bridge[s].state = STOPPING THEN bridge ELSE [bridge EXCEPT ![s].state = STOPPED]

Oldest(s) == s \in command.left /\ \A r \in command.left : s <= r

AskStop == \E s \in Sessions :
    /\ command.pc = "asking" /\ Oldest(s) /\ Stoppable(s)
    /\ Becomes(Stopped(s))
    /\ command' = [command EXCEPT !.left = @ \ {s}, !.owed = Owed(bridge') \ {s}]
    /\ UNCHANGED <<chosen, data, moves>>

\* The bridge refuses, or cannot be reached, or its answer is lost: the
\* exception ends the command.
StopFails == \E s \in Sessions :
    /\ command.pc = "asking" /\ Oldest(s)
    /\ \/ UNCHANGED <<bridge, polls, sure>>
       \/ Stoppable(s) /\ Becomes(Stopped(s))
    /\ command' = NoCommand
    /\ UNCHANGED <<chosen, data, moves>>

Finishes ==
    /\ command.pc = "asking" /\ command.left = {}
    /\ command' = NoCommand
    /\ UNCHANGED <<bridge, chosen, polls, data, sure, moves>>

-----------------------------------------------------------------------------
Next ==
    \/ Moves \/ SomebodyPlays \/ Chooses
    \/ Begins \/ ListsSessions \/ Ends \/ Fails
    \/ PressStop \/ PressMediaStop \/ PressPlay \/ AskStop \/ StopFails \/ Finishes

Spec == Init /\ [][Next]_vars

TypeOK ==
    /\ bridge \in [Sessions -> [state : SessionState \cup {ABSENT}, speaker : Speakers \cup {None}]]
    /\ chosen \in Speakers
    /\ polls \subseteq Poll
    /\ data \in [chosen : Speakers, sessions : [Sessions -> SessionState \cup {ABSENT}]]
    /\ command \in [pc : {"idle", "asking"}, left : SUBSET Sessions,
                    owed : SUBSET Sessions]
    /\ sure \subseteq Sessions
    /\ moves \in 0 .. MaxMoves

\* A stop that returns without an exception has stopped what it is for, if that
\* has played without a break since before the data was read: everything that
\* plays, or what get_active_session finds on the speaker.  Polls that begin,
\* fail or overtake one another meanwhile take nothing from it.
StopReachesWhatPlays ==
    command.pc = "asking" /\ command.left = {} => command.owed = {}
=============================================================================
