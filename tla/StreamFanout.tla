---------------------------- MODULE StreamFanout ----------------------------
(***************************************************************************)
(* The encoded side of a stream pipeline: the read task fans each chunk out *)
(* to the subscribers' queues, accounts for their bytes and evicts the slow *)
(* ones; each subscriber is a generator behind an HTTP response, served by  *)
(* a task that takes from its queue and one that waits for its wake event;  *)
(* stop() closes the subscribers while generators are anywhere.             *)
(*                                                                          *)
(* The bodies under the pipeline's lock never suspend, so each is a step.   *)
(* All chunks have the same size; byte limits are in chunks.                *)
(***************************************************************************)
EXTENDS Naturals, Sequences

CONSTANTS
    Primary,       \* subscribers with the role and path of the target
    Auxiliary,     \* the other subscribers
    MaxChunks,     \* bound: chunks the encoder produces
    QueueChunks,   \* queue_bytes of either policy
    HardFactor,    \* STABLE_PRIMARY_HARD_EVICTION_QUEUE_MULTIPLIER, 8 in the code
    Stable,        \* whether the delivery profile is "stable"
    BacklogLimit   \* whether the policies have a max_backlog_ms

ASSUME FanoutBounds ==
    /\ MaxChunks \in Nat /\ QueueChunks \in Nat \ {0} /\ HardFactor \in Nat \ {0, 1}
    /\ Stable \in BOOLEAN /\ BacklogLimit \in BOOLEAN
    /\ Primary \cap Auxiliary = {}

Subs   == Primary \cup Auxiliary
Chunks == 1 .. MaxChunks
None   == 0

VARIABLES
    st,          \* "active", "stopping", "stopped"
    published,   \* whether the publisher's route names the pipeline
    emitted,     \* chunks read from FFmpeg so far
    clients,     \* _clients
    gen,         \* where each subscriber's generator is
    queue,       \* subscriber.queue
    held,        \* the chunk the queue_get task has taken
    wake,        \* subscriber.wake_event
    closed,      \* subscriber.closed
    queued,      \* subscriber.queued_bytes
    overflow,    \* overflow_started_monotonic: "no", "yes", "past" the grace
    given,       \* how many chunks were put into the subscriber's queue
    yielded,     \* chunks yielded to the response
    fate         \* why a subscriber got no further: "evicted", "left", "late"

subVars == <<clients, gen, queue, held, wake, closed, queued, overflow, given, yielded, fate>>
vars == <<st, published, emitted, clients, gen, queue, held, wake, closed, queued, overflow,
          given, yielded, fate>>

Init ==
    /\ st = "active"
    /\ published = TRUE
    /\ emitted = 0
    /\ clients = {}
    /\ gen = [s \in Subs |-> "none"]
    /\ queue = [s \in Subs |-> <<>>]
    /\ held = [s \in Subs |-> None]
    /\ wake = [s \in Subs |-> FALSE]
    /\ closed = [s \in Subs |-> FALSE]
    /\ queued = [s \in Subs |-> 0]
    /\ overflow = [s \in Subs |-> "no"]
    /\ given = [s \in Subs |-> 0]
    /\ yielded = [s \in Subs |-> <<>>]
    /\ fate = [s \in Subs |-> "none"]

-----------------------------------------------------------------------------
(* Fan-out *)

\* The estimate of a backlog in time depends on the encoder's recent output.
Overflowing(s, behind) == queued[s] + 1 > QueueChunks \/ s \in behind

Hard(s) == QueueChunks * HardFactor

(* Mutant: the stable profile's primary is never evicted. *)
EvictsOthers(s) == ~(Stable /\ s \in Primary) /\ overflow[s] = "past"

\* A stable stream's primary may fall far behind; others get a grace period.
Evicts(s) == IF Stable /\ s \in Primary THEN queued[s] + 1 >= Hard(s)
             ELSE overflow[s] = "past"

(* Mutant: a chunk that would overflow a queue is skipped, as for a lossy medium. *)
FanOutSkips(c, behind, served) ==
    LET in == {s \in served : ~Overflowing(s, behind)}
    IN  /\ queue'  = [s \in Subs |-> IF s \in in THEN Append(queue[s], c) ELSE queue[s]]
        /\ queued' = [s \in Subs |-> IF s \in in THEN queued[s] + 1 ELSE queued[s]]
        /\ given'  = [s \in Subs |-> IF s \in in THEN given[s] + 1 ELSE given[s]]
        /\ wake'   = [s \in Subs |-> wake[s] \/ s \in in]
        /\ UNCHANGED <<overflow, closed, fate, clients>>

\* The grace starts with the first overflowing chunk, so a primary over the
\* hard limit may be evicted by it.
FanOut(c, behind, served) ==
    LET over == {s \in served : Overflowing(s, behind)}
        out  == {s \in over : Evicts(s)}
        in   == served \ out
    IN  /\ queue'    = [s \in Subs |-> IF s \in out THEN <<>> ELSE
                                       IF s \in in THEN Append(queue[s], c) ELSE queue[s]]
        /\ queued'   = [s \in Subs |-> IF s \in out THEN 0 ELSE
                                       IF s \in in THEN queued[s] + 1 ELSE queued[s]]
        /\ given'    = [s \in Subs |-> IF s \in in THEN given[s] + 1 ELSE given[s]]
        /\ overflow' = [s \in Subs |-> IF s \notin served THEN overflow[s]
                                       ELSE IF s \notin over THEN "no"
                                       ELSE IF overflow[s] = "no" THEN "yes" ELSE overflow[s]]
        /\ wake'     = [s \in Subs |-> wake[s] \/ s \in served]
        /\ closed'   = [s \in Subs |-> closed[s] \/ s \in out]
        /\ fate'     = [s \in Subs |-> IF s \in out THEN "evicted" ELSE fate[s]]
        /\ clients'  = clients \ out

\* The read task: one more chunk may come between stop()'s first steps and the
\* cancellation of the task.
ReadChunk == \E behind \in IF BacklogLimit THEN SUBSET clients ELSE {{}} :
    /\ st # "stopped"
    /\ emitted < MaxChunks
    /\ emitted' = emitted + 1
    /\ FanOut(emitted + 1, behind, {s \in clients : ~closed[s]})
    /\ UNCHANGED <<st, published, gen, held, yielded>>

GraceEnds(s) ==
    /\ overflow[s] = "yes"
    /\ overflow' = [overflow EXCEPT ![s] = "past"]
    /\ UNCHANGED <<st, published, emitted, clients, gen, queue, held, wake, closed, queued,
                   given, yielded, fate>>

-----------------------------------------------------------------------------
(* A subscriber *)

\* The route resolves the pipeline; the response starts its generator later.
Request(s) ==
    /\ published
    /\ gen[s] = "none"
    /\ gen' = [gen EXCEPT ![s] = "requested"]
    /\ UNCHANGED <<st, published, emitted, clients, queue, held, wake, closed, queued,
                   overflow, given, yielded, fate>>

\* _initial_header_chunk
Header == IF emitted = 0 THEN <<>> ELSE <<1>>

\* subscribe() up to its first wait.
Attach(s) ==
    /\ gen[s] = "requested"
    /\ clients' = clients \cup {s}
    /\ queue' = [queue EXCEPT ![s] = Header]
    /\ given' = [given EXCEPT ![s] = Len(Header)]
    /\ queued' = [queued EXCEPT ![s] = Len(Header)]
    /\ wake' = [wake EXCEPT ![s] = emitted # 0]
    /\ gen' = [gen EXCEPT ![s] = "waiting"]
    /\ fate' = [fate EXCEPT ![s] = IF st = "active" THEN @ ELSE "late"]
    /\ UNCHANGED <<st, published, emitted, held, closed, overflow, yielded>>

\* The queue_get task.
Takes(s) ==
    /\ gen[s] = "waiting"
    /\ held[s] = None /\ queue[s] # <<>>
    /\ held' = [held EXCEPT ![s] = Head(queue[s])]
    /\ queue' = [queue EXCEPT ![s] = Tail(queue[s])]
    /\ UNCHANGED <<st, published, emitted, clients, gen, wake, closed, queued, overflow,
                   given, yielded, fate>>

(* Mutant: a closed subscriber ends with chunks in its queue. *)
FinishedAtOnce(s) == closed[s]

Finished(s) == closed[s] /\ queue[s] = <<>>

\* The generator's finally: _remove_subscriber.
Ends(s) ==
    /\ gen' = [gen EXCEPT ![s] = "ended"]
    /\ clients' = clients \ {s}
    /\ closed' = [closed EXCEPT ![s] = TRUE]
    /\ held' = [held EXCEPT ![s] = None]

(* Mutant: the chunk in hand at an eviction is taken off the count again. *)
UncountedTwice(s) == queued[s] - 1

\* A dequeued chunk is no longer counted; an eviction has set the count to 0.
Uncounted(s) == IF queued[s] > 0 THEN queued[s] - 1 ELSE 0

\* The generator finds the chunk, the wake event, or both: the wake event may be
\* set and its task not yet done.  A closed subscriber whose queue is empty ends,
\* and loses the chunk that queue_get has taken.
Resume(s) == \E sees \in BOOLEAN :
    /\ gen[s] = "waiting"
    /\ sees => wake[s]
    /\ sees \/ held[s] # None
    /\ wake' = [wake EXCEPT ![s] = @ /\ ~sees]
    /\ \/ /\ sees /\ Finished(s)
          /\ Ends(s)
          /\ UNCHANGED <<queued, yielded>>
       \/ /\ ~(sees /\ Finished(s))
          /\ held[s] # None
          /\ yielded' = [yielded EXCEPT ![s] = Append(@, held[s])]
          /\ queued' = [queued EXCEPT ![s] = Uncounted(s)]
          /\ held' = [held EXCEPT ![s] = None]
          /\ gen' = [gen EXCEPT ![s] = "yielding"]
          /\ UNCHANGED <<clients, closed>>
       \/ /\ ~(sees /\ Finished(s))
          /\ held[s] = None
          /\ UNCHANGED <<clients, closed, held, gen, queued, yielded>>
    /\ UNCHANGED <<st, published, emitted, queue, overflow, given, fate>>

\* The response has sent the chunk and asks for the next.
Sent(s) ==
    /\ gen[s] = "yielding"
    /\ \/ Finished(s) /\ Ends(s)
       \/ /\ ~Finished(s)
          /\ gen' = [gen EXCEPT ![s] = "waiting"]
          /\ UNCHANGED <<clients, closed, held>>
    /\ UNCHANGED <<st, published, emitted, queue, wake, queued, overflow, given, yielded, fate>>

\* The listener disconnects, wherever its generator is.
Leave(s) ==
    /\ gen[s] \in {"waiting", "yielding"}
    /\ Ends(s)
    /\ fate' = [fate EXCEPT ![s] = IF @ = "evicted" THEN @ ELSE "left"]
    /\ UNCHANGED <<st, published, emitted, queue, wake, queued, overflow, given, yielded>>

-----------------------------------------------------------------------------
(* stop() *)

(* Mutant: nobody is told of the close. *)
RouseNobody(who) == UNCHANGED wake

\* _remove_subscriber sets the wake event of each.
Rouse(who) == wake' = [s \in Subs |-> wake[s] \/ s \in who]

CloseAll ==
    /\ closed' = [s \in Subs |-> closed[s] \/ s \in clients]
    /\ Rouse(clients)
    /\ clients' = {}

BeginStop ==
    /\ st = "active"
    /\ st' = "stopping"
    /\ CloseAll
    /\ UNCHANGED <<published, emitted, gen, queue, held, queued, overflow, given, yielded, fate>>

EndStop ==
    /\ st = "stopping"
    /\ st' = "stopped"
    /\ UNCHANGED <<published, emitted, subVars>>

\* stop_session withdraws the route after the pipeline has stopped; a swap
\* points it elsewhere before that.
Unpublish ==
    /\ published
    /\ published' = FALSE
    /\ UNCHANGED <<st, emitted, subVars>>

-----------------------------------------------------------------------------
Serving(s) == Takes(s) \/ Resume(s)

Next ==
    \/ ReadChunk \/ BeginStop \/ EndStop \/ Unpublish
    \/ \E s \in Subs :
        Request(s) \/ Attach(s) \/ GraceEnds(s) \/ Serving(s) \/ Sent(s) \/ Leave(s)

\* Tasks that are ready run; a listener need not read, nor the encoder produce.
Fairness == \A s \in Subs : WF_vars(Serving(s))

Spec     == Init /\ [][Next]_vars
FairSpec == Spec /\ Fairness

-----------------------------------------------------------------------------
(* Type correctness. *)
TypeOK ==
    /\ st \in {"active", "stopping", "stopped"}
    /\ published \in BOOLEAN
    /\ emitted \in 0 .. MaxChunks
    /\ clients \subseteq Subs
    /\ gen \in [Subs -> {"none", "requested", "waiting", "yielding", "ended"}]
    /\ queue \in [Subs -> Seq(Chunks)]
    /\ held \in [Subs -> Chunks \cup {None}]
    /\ wake \in [Subs -> BOOLEAN] /\ closed \in [Subs -> BOOLEAN]
    /\ queued \in [Subs -> 0 .. MaxChunks + 1]
    /\ overflow \in [Subs -> {"no", "yes", "past"}]
    /\ given \in [Subs -> 0 .. MaxChunks + 1] /\ yielded \in [Subs -> Seq(Chunks)]
    /\ fate \in [Subs -> {"none", "evicted", "left", "late"}]

-----------------------------------------------------------------------------
(* Properties *)

\* Every listener hears the header once and then a piece of the stream without
\* a gap, whatever overflows, evictions and closes happen meanwhile.
Stream == INSTANCE Broadcast WITH Listeners <- Subs, heard <- yielded
StreamSpec == Stream!Spec

\* queued_bytes of an attached subscriber is what its queue and its queue_get
\* hold, since the overflow policy looks at nothing else; over its limit it is
\* known to overflow, and a stable stream's primary stays below the hard limit.
BacklogBounded == \A s \in clients :
    /\ queued[s] = Len(queue[s]) + IF held[s] = None THEN 0 ELSE 1
    /\ queued[s] > QueueChunks => overflow[s] # "no"
    /\ Stable /\ s \in Primary => queued[s] < Hard(s)

\* When stop() ends a subscriber's stream, all that was put into its queue has
\* been yielded, but for at most the chunk that queue_get has in hand; after it
\* no subscriber is attached, but one whose generator began later.
StopDelivers ==
    /\ \A s \in Subs :
        gen[s] = "ended" /\ fate[s] = "none" => Len(yielded[s]) + 1 >= given[s]
    /\ st = "stopped" => \A s \in clients : fate[s] = "late"

\* No generator waits for ever over a chunk or a close it was not woken for.
NobodyOversleeps == \A s \in Subs :
    gen[s] = "waiting" /\ (closed[s] \/ queue[s] # <<>>) ~> gen[s] # "waiting"
=============================================================================
