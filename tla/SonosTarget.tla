---------------------------- MODULE SonosTarget -----------------------------
(***************************************************************************)
(* One Sonos target: the player, the Sonos adapter's operations on it, and *)
(* the target registry that leads to the adapter.                          *)
(*                                                                         *)
(* An operation is a coroutine that calls soco in a thread, again after a  *)
(* failure.  A call that fails may have reached the player all the same,   *)
(* and the thread goes on when the coroutine is cancelled.  A step of an   *)
(* operation is what it does between two awaits.                           *)
(***************************************************************************)
EXTENDS Naturals

CONSTANTS
    Ops,        \* bound: operations at one time
    Urls,       \* stream URLs of the bridge
    MaxTries,   \* max_retries
    None, Silent, Foreign   \* no URL; and what else a player may play

VARIABLES
    there,      \* the player answers
    plays,      \* what it plays
    known,      \* "player": _players has it; "target": _targets too; or "no"
    record,     \* _last_played
    op,         \* the operations
    listed,     \* the target registry has the target
    wanted,     \* what the bridge has last asked the player to play
    crowded,    \* it has asked while an earlier call was on its way
    failed      \* a stop or a play has failed, or was given up

vars == <<there, plays, known, record, op, listed, wanted, crowded, failed>>
adapter == <<known, record>>
history == <<wanted, crowded, failed>>

\* thread: the call in the executor, and what came of it.
Operation ==
    [do : {"play", "stop", "heal", "prepare", "refresh"}, url : Urls \cup {None},
     pc : {"idle", "listing", "grouping", "verifying", "joining", "calling"},
     found : BOOLEAN, tries : 0 .. MaxTries - 1,
     thread : {"none", "busy", "restarting", "ok", "error"}]

Idle == [do |-> "stop", url |-> None, pc |-> "idle", found |-> FALSE, tries |-> 0,
         thread |-> "none"]

Init ==
    /\ there \in BOOLEAN
    /\ plays \in {Silent, Foreign}
    /\ known = (IF there THEN "target" ELSE "no")
    /\ record = None
    /\ op = [o \in Ops |-> Idle]
    /\ listed = there
    /\ wanted = None /\ crowded = FALSE /\ failed = FALSE

-----------------------------------------------------------------------------
(* The world *)

PlayerComesOrGoes ==
    /\ there' = ~there
    /\ UNCHANGED <<plays, adapter, op, listed, history>>

SomebodyElse ==
    /\ there
    /\ plays' \in {Silent, Foreign}
    /\ UNCHANGED <<there, adapter, op, listed, history>>

-----------------------------------------------------------------------------
(* Calls in a thread *)

Calls(o, do, url) ==
    op' = [op EXCEPT ![o] =
               [Idle EXCEPT !.do = do, !.url = url, !.pc = "calling", !.thread = "busy"]]

\* The player plays x now, or the call fails with or without effect.
Attempt(o, x) ==
    \/ there /\ plays' = x /\ \E r \in {"ok", "error"} : op' = [op EXCEPT ![o].thread = r]
    \/ op' = [op EXCEPT ![o].thread = "error"] /\ UNCHANGED plays

\* A heal asks first for the transport state, which is PLAYING only if the player
\* plays something; one that is paused, or only about to play, is started again.
ThreadActs(o) ==
    /\ op[o].thread = "busy"
    /\ CASE op[o].do = "play" -> Attempt(o, op[o].url)
         [] op[o].do = "stop" -> Attempt(o, Silent)
         [] op[o].do = "heal" ->
              /\ \/ there /\ plays # Silent /\ op' = [op EXCEPT ![o].thread = "ok"]
                 \/ there /\ op' = [op EXCEPT ![o].thread = "restarting"]
                 \/ op' = [op EXCEPT ![o].thread = "error"]
              /\ UNCHANGED plays
    /\ UNCHANGED <<there, adapter, listed, history>>

ThreadRestarts(o) ==
    /\ op[o].thread = "restarting"
    /\ Attempt(o, op[o].url)
    /\ UNCHANGED <<there, adapter, listed, history>>

\* _run_with_retry
Returns(o) ==
    /\ op[o].pc = "calling" /\ op[o].thread = "ok"
    /\ op' = [op EXCEPT ![o] = Idle]
    /\ UNCHANGED <<there, plays, adapter, listed, history>>

(* Mutant: once more than max_retries. *)
OnceMore(o) == op[o].tries < MaxTries

\* attempt < max_retries - 1
Again(o) == op[o].tries < MaxTries - 1

Retries(o) ==
    /\ op[o].pc = "calling" /\ op[o].thread = "error" /\ Again(o)
    /\ op' = [op EXCEPT ![o].tries = @ + 1, ![o].thread = "busy"]
    /\ UNCHANGED <<there, plays, adapter, listed, history>>

GivesUp(o) ==
    /\ op[o].pc = "calling" /\ op[o].thread = "error" /\ ~Again(o)
    /\ op' = [op EXCEPT ![o] = Idle]
    /\ failed' = (failed \/ op[o].do \in {"play", "stop"})
    /\ UNCHANGED <<there, plays, adapter, listed, wanted, crowded>>

\* The session manager cancels its heals, which tell the player to heal or to
\* play.  A call that has begun is not called back, one that waits for its next
\* try is not made.
Unplayed(o) == op[o].do = "play" /\ op[o].thread \in {"busy", "error"}

Cancel(o) ==
    /\ op[o].do \in {"heal", "play"} /\ op[o].pc # "idle"
    /\ \/ /\ op[o].thread \in {"busy", "restarting"}
          /\ op' = [op EXCEPT ![o].pc = "idle"]
          /\ UNCHANGED failed
       \/ /\ op[o].thread # "restarting"
          /\ op' = [op EXCEPT ![o] = Idle]
          /\ failed' = (failed \/ Unplayed(o))
    /\ UNCHANGED <<there, plays, adapter, listed, wanted, crowded>>

\* Nobody waits for the thread any more.
Forgotten(o) ==
    /\ op[o].pc = "idle" /\ op[o].thread \in {"ok", "error"}
    /\ op' = [op EXCEPT ![o] = Idle]
    /\ failed' = (failed \/ Unplayed(o))
    /\ UNCHANGED <<there, plays, adapter, listed, wanted, crowded>>

-----------------------------------------------------------------------------
(* list_targets *)

Begins(o, do) ==
    /\ op[o] = Idle
    /\ do \in {"heal", "prepare"} => listed
    /\ op' = [op EXCEPT ![o] = [Idle EXCEPT !.do = do, !.pc = "listing"]]
    /\ UNCHANGED <<there, plays, adapter, listed, history>>

\* Discovery may not find a player that is there.
Discovers(o) ==
    /\ op[o].pc = "listing"
    /\ \E found \in {there, FALSE} :
           op' = [op EXCEPT ![o].pc = "grouping", ![o].found = found]
    /\ UNCHANGED <<there, plays, adapter, listed, history>>

\* A heal asks a coordinator that has been discovered twice no more.
Listed(o, got) ==
    op' = [op EXCEPT ![o] =
               IF @.do = "refresh" \/ got = "no" \/ (@.do = "heal" /\ got # "target") THEN Idle
               ELSE IF @.do = "heal" /\ @.tries > 0 THEN [@ EXCEPT !.pc = "joining"]
               ELSE [@ EXCEPT !.pc = "verifying"]]

\* refresh_targets: a target that is missing stays unavailable, or goes when it
\* was last seen five minutes ago, which is also how often the bridge refreshes.
Refreshed(found) == listed' \in IF found THEN {TRUE} ELSE {FALSE, listed}

\* Reading its group may fail, which leaves a player without a target; and when
\* nothing is found, players without a target are kept.
Lists(o) ==
    /\ op[o].pc = "grouping"
    /\ known' \in IF op[o].found THEN {"target", "player"} ELSE {"no", known} \ {"target"}
    /\ Listed(o, known')
    /\ IF op[o].do = "refresh" THEN Refreshed(known' = "target") ELSE UNCHANGED listed
    /\ UNCHANGED <<there, plays, record, history>>

\* A heal goes on with what is known.
ListingRaises(o) ==
    /\ op[o].pc \in {"listing", "grouping"}
    /\ IF op[o].do = "heal" /\ op[o].tries = 0 THEN Listed(o, known)
       ELSE op' = [op EXCEPT ![o] = Idle]
    /\ IF op[o].do = "refresh" THEN Refreshed(FALSE) ELSE UNCHANGED listed
    /\ UNCHANGED <<there, plays, adapter, history>>

-----------------------------------------------------------------------------
(* prepare_target and heal *)

Verified(o) ==
    /\ op[o].pc = "verifying" /\ there
    /\ op' = [op EXCEPT ![o] = IF @.do = "heal" THEN [@ EXCEPT !.pc = "joining"] ELSE Idle]
    /\ UNCHANGED <<there, plays, adapter, listed, history>>

\* A heal discovers once more, a session's preparation fails.
VerifyFails(o) ==
    /\ op[o].pc = "verifying"
    /\ op' = [op EXCEPT ![o] = IF @.do = "heal" THEN [@ EXCEPT !.pc = "listing", !.tries = 1]
                               ELSE Idle]
    /\ UNCHANGED <<there, plays, adapter, listed, history>>

\* The record is read when everything else is in order.
Heals(o) ==
    /\ op[o].do = "heal" /\ op[o].pc = "joining"
    /\ IF record = None THEN op' = [op EXCEPT ![o] = Idle] ELSE Calls(o, "heal", record)
    /\ UNCHANGED <<there, plays, adapter, listed, history>>

JoinFails(o) ==
    /\ op[o].pc = "joining"
    /\ op' = [op EXCEPT ![o] = Idle]
    /\ UNCHANGED <<there, plays, adapter, listed, history>>

-----------------------------------------------------------------------------
(* play_stream and stop *)

OnTheWay(o) == op[o].pc = "calling" \/ op[o].thread # "none"
Crowds(o)   == crowded \/ \E p \in Ops \ {o} : OnTheWay(p)

Play(o, url) ==
    /\ op[o] = Idle /\ listed /\ known = "target"
    /\ op' = [op EXCEPT ![o] = [Idle EXCEPT !.do = "play", !.url = url, !.pc = "joining"]]
    /\ UNCHANGED <<there, plays, adapter, listed, history>>

Plays(o) ==
    /\ op[o].do = "play" /\ op[o].pc = "joining"
    /\ record' = op[o].url
    /\ wanted' = op[o].url
    /\ crowded' = Crowds(o)
    /\ Calls(o, "play", op[o].url)
    /\ UNCHANGED <<there, plays, known, listed, failed>>

(* Mutant: the record outlives the stop. *)
NotCleared == record

\* "Clear last played state to prevent healing from restarting playback"
Cleared == None

Stop(o) ==
    /\ op[o] = Idle /\ listed /\ known # "no"
    /\ record' = Cleared
    /\ wanted' = None
    /\ crowded' = Crowds(o)
    /\ Calls(o, "stop", None)
    /\ UNCHANGED <<there, plays, known, listed, failed>>

\* Without a player, or without its adapter, a stop changes nothing.
StopUnknown ==
    /\ ~listed \/ known = "no"
    /\ wanted # None
    /\ wanted' = None
    /\ failed' = TRUE
    /\ UNCHANGED <<there, plays, adapter, op, listed, crowded>>

-----------------------------------------------------------------------------
Next ==
    \/ PlayerComesOrGoes \/ SomebodyElse
    \/ \E o \in Ops :
        \/ ThreadActs(o) \/ ThreadRestarts(o) \/ Returns(o) \/ Retries(o) \/ GivesUp(o)
        \/ Cancel(o) \/ Forgotten(o)
        \/ \E do \in {"heal", "prepare", "refresh"} : Begins(o, do)
        \/ Discovers(o) \/ Lists(o) \/ ListingRaises(o)
        \/ Verified(o) \/ VerifyFails(o) \/ Heals(o) \/ JoinFails(o)
        \/ \E url \in Urls : Play(o, url)
        \/ Plays(o) \/ Stop(o)
    \/ StopUnknown

Spec == Init /\ [][Next]_vars

-----------------------------------------------------------------------------
(* Properties *)

\* What the variables hold.
TypeOK ==
    /\ there \in BOOLEAN /\ listed \in BOOLEAN /\ crowded \in BOOLEAN /\ failed \in BOOLEAN
    /\ known \in {"no", "player", "target"}
    /\ plays \in Urls \cup {Silent, Foreign}
    /\ record \in Urls \cup {None} /\ wanted \in Urls \cup {None}
    /\ op \in [Ops -> Operation]

\* A player that has been told to stop stays silent, and one that has been told
\* what to play plays nothing else of the bridge: no heal that comes before,
\* during or after brings an old stream back.  Excepted is what the code does
\* not order: a stop or a play that overtakes a call in a thread, and one that fails.
StopSticks ==
    (\A o \in Ops : ~OnTheWay(o)) /\ ~crowded /\ ~failed =>
        plays \in {wanted, Silent, Foreign}
=============================================================================
