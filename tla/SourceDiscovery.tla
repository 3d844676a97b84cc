--------------------------- MODULE SourceDiscovery ---------------------------
(***************************************************************************)
(* How a source that appears in PulseAudio becomes known: the subprocess   *)
(* runner's cache, an adapter's own cache of its sources, the events it    *)
(* emits, the source registry's handler and auto play.                     *)
(*                                                                         *)
(* list_sources runs on the event loop, which it blocks, and for the       *)
(* Bluetooth adapter also in the status monitor's thread; an event emitted *)
(* there reaches no handler.  `kind` says which adapter is followed.  Both *)
(* use one runner: the Linux adapter's hotplug loop clears it for both,    *)
(* while the commands of the one that is not followed are left out.  Times *)
(* are kept as ages, in ticks; an adapter has one source, which is there   *)
(* or not, and the commands of one listing, up to three, are one.          *)
(***************************************************************************)
EXTENDS Naturals, Sequences

CONSTANTS
    Kinds,       \* adapters: "bluetooth", "linux"
    Ttl,         \* _source_fetch_ttl
    RunnerTtl,   \* ttl of the runner's entries
    Cooldown,    \* _topology_event_cooldown
    MaxRun,      \* assumption: ticks that one listing takes at most
    MaxPolls,    \* how often auto play looks for the source
    Autos,       \* bound: auto plays at one time
    MaxEvents    \* bound: events that wait when somebody asks for a listing

ASSUME DiscoveryBounds ==
    /\ Kinds \subseteq {"bluetooth", "linux"}
    /\ Ttl \in Nat \ {0} /\ RunnerTtl \in Nat \ {0} /\ Cooldown \in Nat
    /\ MaxRun \in Nat /\ MaxPolls \in Nat \ {0} /\ MaxEvents \in Nat \ {0}

Old    == Ttl + RunnerTtl + MaxRun + 1     \* ages are told apart up to a limit
Ages   == 0 .. Old
Seen   == [there : BOOLEAN, age : Ages]           \* what a listing saw, and when
Unseen == [there |-> FALSE, age |-> 0]
Empty  == [valid |-> FALSE, stamp |-> 0, seen |-> Unseen]

VARIABLES
    kind,
    present,   \* whether PulseAudio has the source
    runner,    \* the runner's entry for the listing command
    idmap,     \* whether _source_id_map has the source
    cache,     \* _sources_cache, and when PulseAudio was asked for it
    stamp,     \* age of _last_sources_fetch_monotonic
    lister,    \* the listing the event loop is blocked by, if any
    monitor,   \* the listing of the monitor's thread, if any
    events,    \* handlers of emitted events that have not run yet
    registry,  \* whether the source registry has the source; "no adapter" at first
    missed,    \* the thread has changed the list since the registry last read it
    topology,  \* age of _last_topology_event_monotonic
    auto       \* auto play's handlers

adapterVars == <<idmap, cache, stamp>>
vars == <<kind, present, runner, idmap, cache, stamp, lister, monitor, events, registry,
          missed, topology, auto>>

Listing == [pc : {"none", "asked", "observed", "ran", "compared", "listed"},
            for : {"register", "refresh", "topology", "look"}, age : Ages, seen : Seen]
NoListing == [pc |-> "none", for |-> "look", age |-> 0, seen |-> Unseen]
NoAuto == [looks |-> 0, behind |-> 0]

Init ==
    /\ kind \in Kinds
    /\ present \in BOOLEAN
    /\ runner = Empty
    /\ idmap = FALSE
    /\ cache = Unseen
    /\ stamp = Ttl
    /\ lister = [NoListing EXCEPT !.pc = "asked", !.for = "register"]
    /\ monitor = NoListing
    /\ events = <<>>
    /\ registry = "no adapter"
    /\ missed = FALSE
    /\ topology = Cooldown + 1
    /\ auto = [a \in Autos |-> NoAuto]

-----------------------------------------------------------------------------
(* Time and the devices *)

Older(age, limit) == IF age < limit THEN age + 1 ELSE limit
Aged(seen) == [seen EXCEPT !.age = Older(@, Old)]
Going(x)   == x.pc # "none"
Passing(x) ==
    IF ~Going(x) THEN x
    ELSE [x EXCEPT !.age = @ + 1, !.seen = IF x.pc = "asked" THEN @ ELSE Aged(@)]

\* A listing is assumed to be over within MaxRun ticks.  Its commands are killed
\* after two seconds, all but the list of cards, which PipeWire is asked for.
Tick ==
    /\ \A x \in {lister, monitor} : Going(x) => x.age < MaxRun
    /\ runner' = IF runner.valid
                 THEN [runner EXCEPT !.stamp = Older(@, RunnerTtl + 1), !.seen = Aged(@)]
                 ELSE runner
    /\ cache' = Aged(cache)
    /\ stamp' = Older(stamp, Ttl)
    /\ lister' = Passing(lister)
    /\ monitor' = Passing(monitor)
    /\ topology' = Older(topology, Cooldown + 1)
    /\ UNCHANGED <<kind, present, idmap, events, registry, missed, auto>>

SourceComesOrGoes ==
    /\ present' = ~present
    /\ UNCHANGED <<kind, runner, adapterVars, lister, monitor, events, registry, missed,
                   topology, auto>>

-----------------------------------------------------------------------------
(* SubprocessRunner.run, for a listing x *)

Hit == runner.valid /\ runner.stamp <= RunnerTtl

(* Mutant: an entry is as old as the end of its command. *)
EntryStampedLate(x, t) == [valid |-> TRUE, stamp |-> 0, seen |-> x.seen]

\* The entry of a command that run() was asked for t ago.
Entry(x, t) == [valid |-> TRUE, stamp |-> t, seen |-> x.seen]

\* A cached answer, or the command's; the result is stored when it has ended,
\* with the time of the call: after the listing began, before PulseAudio was asked.
Asks(x, y) ==
    /\ x.pc = "asked"
    /\ y = IF Hit THEN [x EXCEPT !.pc = "ran", !.seen = runner.seen]
           ELSE [x EXCEPT !.pc = "observed", !.seen = [there |-> present, age |-> 0]]
    /\ UNCHANGED runner

Returns(x, y) ==
    /\ x.pc = "observed"
    /\ y = [x EXCEPT !.pc = "ran"]
    /\ \E t \in x.seen.age .. x.age : runner' = Entry(x, t)

\* emit on the event loop: a task publishes, and makes a task of each handler.
Emitted(changes) == events \o changes

(* Mutant: the prefix is not that of the listing command. *)
OtherPrefix == runner

\* invalidate_by_prefix
Invalidated == Empty

\* The Linux adapter's loop invalidates for any change that PulseAudio reports,
\* and announces it unless it has just announced another.
Hotplug ==
    /\ ~Going(lister)
    /\ Len(events) < MaxEvents
    /\ runner' = Invalidated
    /\ IF kind = "linux" /\ topology > Cooldown
       THEN events' = Emitted(<<"topology">>) /\ topology' = 0
       ELSE UNCHANGED <<events, topology>>
    /\ UNCHANGED <<kind, present, adapterVars, lister, monitor, registry, missed, auto>>

-----------------------------------------------------------------------------
(* list_sources on the event loop *)

Cached == stamp < Ttl

\* update_adapter_sources and register_adapter
Update(seen) ==
    /\ registry' = IF seen.there THEN "yes" ELSE "no"
    /\ missed' = FALSE

\* What the caller does with the list.
Answer(for, seen) ==
    IF for = "look" THEN UNCHANGED <<registry, missed>> ELSE Update(seen)

\* A listing for `for`: from the adapter's cache, or by asking the runner.
List(for) ==
    IF Cached
    THEN Answer(for, cache) /\ UNCHANGED lister
    ELSE /\ lister' = [NoListing EXCEPT !.pc = "asked", !.for = for]
         /\ UNCHANGED <<registry, missed>>

\* refresh_sources of the API; a session's prepare and the Bluetooth API only look.
Request == \E for \in {"refresh", "look"} :
    /\ ~Going(lister) /\ registry # "no adapter"
    /\ Len(events) < MaxEvents
    /\ List(for)
    /\ UNCHANGED <<kind, present, runner, adapterVars, monitor, events, topology, auto>>

LoopRuns ==
    /\ Asks(lister, lister') \/ Returns(lister, lister')
    /\ UNCHANGED <<kind, present, adapterVars, monitor, events, registry, missed, topology, auto>>

(* Mutant: a source that has gone is not announced. *)
ChangesOnArrival(seen) ==
    IF seen.there /\ ~idmap THEN <<"available", "topology">> ELSE <<>>

\* The Bluetooth adapter emits what has changed; each handler is a task.
Changes(seen) ==
    (IF seen.there /\ ~idmap THEN <<"available">> ELSE <<>>)
    \o IF seen.there # cache.there THEN <<"topology">> ELSE <<>>

LoopCompares ==
    /\ lister.pc = "ran"
    /\ events' = IF kind = "bluetooth" THEN Emitted(Changes(lister.seen)) ELSE events
    /\ lister' = [lister EXCEPT !.pc = "compared"]
    /\ UNCHANGED <<kind, present, runner, adapterVars, monitor, registry, missed, topology, auto>>

\* The Bluetooth adapter's stamp is the start of the listing, the Linux one's the end.
StampOf(x) == IF kind = "bluetooth" THEN (IF x.age < Ttl THEN x.age ELSE Ttl) ELSE 0

LoopStores ==
    /\ lister.pc = "compared"
    /\ idmap' = lister.seen.there
    /\ cache' = lister.seen
    /\ stamp' = StampOf(lister)
    /\ Answer(lister.for, lister.seen)
    /\ lister' = NoListing
    /\ UNCHANGED <<kind, present, runner, monitor, events, topology, auto>>

\* A command fails.  The Bluetooth adapter answers with its cache; the Linux
\* adapter with a default source, which it caches.
LoopFails ==
    /\ lister.pc \in {"asked", "observed"} /\ (lister.pc = "asked" => ~Hit)
    /\ IF kind = "bluetooth"
       THEN Answer(lister.for, cache) /\ lister' = NoListing
       ELSE /\ lister' = [lister EXCEPT !.pc = "compared", !.seen = Unseen]
            /\ UNCHANGED <<registry, missed>>
    /\ UNCHANGED <<kind, present, runner, adapterVars, monitor, events, topology, auto>>

-----------------------------------------------------------------------------
(* list_sources in the thread of the Bluetooth status monitor *)

MonitorLists ==
    /\ kind = "bluetooth" /\ registry # "no adapter"
    /\ ~Going(monitor) /\ ~Cached
    /\ monitor' = [NoListing EXCEPT !.pc = "asked"]
    /\ UNCHANGED <<kind, present, runner, adapterVars, lister, events, registry, missed,
                   topology, auto>>

MonitorRuns ==
    /\ Asks(monitor, monitor') \/ Returns(monitor, monitor')
    /\ UNCHANGED <<kind, present, adapterVars, lister, events, registry, missed, topology, auto>>

\* emit without a loop, which runs no asynchronous handler.
Unheard(seen) == seen.there # cache.there \/ seen.there # idmap

MonitorStores ==
    /\ monitor.pc = "ran"
    /\ idmap' = monitor.seen.there
    /\ cache' = monitor.seen
    /\ missed' = (missed \/ Unheard(monitor.seen))
    /\ monitor' = [monitor EXCEPT !.pc = "listed"]
    /\ UNCHANGED <<kind, present, runner, stamp, lister, events, registry, topology, auto>>

MonitorStamps ==
    /\ monitor.pc = "listed"
    /\ stamp' = StampOf(monitor)
    /\ monitor' = NoListing
    /\ UNCHANGED <<kind, present, runner, idmap, cache, lister, events, registry, missed,
                   topology, auto>>

MonitorFails ==
    /\ monitor.pc \in {"asked", "observed"} /\ (monitor.pc = "asked" => ~Hit)
    /\ monitor' = NoListing
    /\ UNCHANGED <<kind, present, runner, adapterVars, lister, events, registry, missed,
                   topology, auto>>

-----------------------------------------------------------------------------
(* Handlers *)

Handled(a) == [a EXCEPT !.behind = IF @ > 0 THEN @ - 1 ELSE 0]

\* _handle_topology_changed
HandleTopology ==
    /\ ~Going(lister)
    /\ events # <<>> /\ Head(events) = "topology"
    /\ registry # "no adapter"
    /\ events' = Tail(events)
    /\ List("topology")
    /\ auto' = [a \in Autos |-> Handled(auto[a])]
    /\ UNCHANGED <<kind, present, runner, adapterVars, monitor, topology>>

(* Mutant: auto play does not sleep, and has looked often enough at once. *)
LooksOnce(looks, behind) ==
    IF registry = "yes" THEN NoAuto ELSE [looks |-> MaxPolls, behind |-> 0]

\* A look at the registry: play(), or sleep and look again.
Looks(looks, behind) ==
    IF registry = "yes" THEN NoAuto ELSE [looks |-> looks, behind |-> behind]

\* _on_bluetooth_source_available, up to its first sleep.
HandleAvailable(a) ==
    /\ ~Going(lister)
    /\ events # <<>> /\ Head(events) = "available"
    /\ auto[a] = NoAuto
    /\ events' = Tail(events)
    /\ auto' = [b \in Autos |-> IF b = a THEN Looks(1, Len(events) - 1)
                                ELSE Handled(auto[b])]
    /\ UNCHANGED <<kind, present, runner, adapterVars, lister, monitor, registry, missed,
                   topology>>

(* Mutant: auto play looks once more than MaxPolls times. *)
PatientOnceMore(a) == auto[a].looks \in 1 .. MaxPolls

Patient(a) == auto[a].looks \in 1 .. MaxPolls - 1

\* The sleep ends after all handlers that were waiting when it began.
LookAgain(a) ==
    /\ ~Going(lister)
    /\ Patient(a) /\ auto[a].behind = 0
    /\ auto' = [auto EXCEPT ![a] = Looks(@.looks + 1, Len(events))]
    /\ UNCHANGED <<kind, present, runner, adapterVars, lister, monitor, events, registry, missed,
                   topology>>

\* "did not register in time for auto-play"
GiveUp(a) ==
    /\ ~Going(lister)
    /\ auto[a].looks = MaxPolls /\ auto[a].behind = 0
    /\ auto' = [auto EXCEPT ![a] = NoAuto]
    /\ UNCHANGED <<kind, present, runner, adapterVars, lister, monitor, events, registry, missed,
                   topology>>

-----------------------------------------------------------------------------
Next ==
    \/ Tick \/ SourceComesOrGoes \/ Hotplug
    \/ Request \/ LoopRuns \/ LoopCompares \/ LoopStores \/ LoopFails
    \/ MonitorLists \/ MonitorRuns \/ MonitorStores \/ MonitorStamps \/ MonitorFails
    \/ HandleTopology
    \/ \E a \in Autos : HandleAvailable(a) \/ LookAgain(a) \/ GiveUp(a)

Spec == Init /\ [][Next]_vars

-----------------------------------------------------------------------------
(* Properties *)

TypeOK ==
    /\ kind \in Kinds /\ present \in BOOLEAN /\ idmap \in BOOLEAN /\ missed \in BOOLEAN
    /\ runner \in [valid : BOOLEAN, stamp : Ages, seen : Seen]
    /\ cache \in Seen /\ stamp \in 0 .. Ttl /\ topology \in 0 .. Cooldown + 1
    /\ lister \in Listing /\ monitor \in Listing
    /\ events \in Seq({"available", "topology"})
    /\ registry \in {"no adapter", "yes", "no"}
    /\ auto \in [Autos -> [looks : 0 .. MaxPolls, behind : Nat]]

\* Two caches stand before PulseAudio, list_sources' and the runner's, and the
\* lives of their entries add up with the time of one listing: what the loop's
\* list_sources answers, from its cache or after a listing that did not fail,
\* was true no longer ago.  That holds also of a result that a hotplug event has
\* overtaken, for it is stored with the time of its call.  The Linux adapter
\* stamps its cache when the listing ends; of two Bluetooth listings, one on the
\* loop and one in the thread, the first may leave its stamp on the sources of
\* the second.  It is not said of the Bluetooth adapter's answer when a command
\* fails, which is its last list whatever its age (LoopFails).
Freshness ==
    /\ Cached => cache.age < Ttl + RunnerTtl + MaxRun
    /\ lister.pc \in {"ran", "compared"} => lister.seen.age <= RunnerTtl + MaxRun

\* Once the Linux adapter has announced a change, a listing that asks the runner
\* is told nothing that is older than the announcement, whether the answer is
\* cached or not: the event's handler reads the change that it was called for.
\* It does so only when the adapter's own cache has expired, which no hotplug
\* event clears; and a command of the Bluetooth adapter's thread that runs at
\* the announcement would store an older answer, but is not followed here.
AnnouncedIsSeen == kind = "linux" /\ topology <= Cooldown =>
    /\ runner.valid => runner.seen.age <= topology
    /\ lister.pc \in {"observed", "ran", "compared"} => lister.seen.age <= topology

\* The registry and the Bluetooth adapter agree about what there is to play,
\* or a topology event that is still to be handled will make them: whatever
\* list_sources does on the loop, it never changes its answer in silence.  Only
\* the status monitor's thread does, whose events reach no handler.
RegistryFollows ==
    kind = "bluetooth" /\ ~Going(lister) /\ registry # "no adapter" /\ ~missed =>
        (registry = "yes") = cache.there \/ \E i \in 1 .. Len(events) : events[i] = "topology"

\* Auto play looks before the registry has handled the event that follows its
\* own, and again after each sleep: it gives a source up only when the adapter
\* has lost it, has announced it anew since, or knows of it from the thread alone.
GivesUpOnlyOnLost ==
    [][\A a \in Autos :
           auto[a] # NoAuto /\ auto'[a] = NoAuto /\ registry # "yes" =>
               \/ ~idmap \/ missed
               \/ \E i \in 1 .. Len(events) : events[i] = "available"
               \/ \E b \in Autos \ {a} : auto[b] # NoAuto]_vars
=============================================================================
