------------------------ MODULE SourceDiscoveryProofs ------------------------
(***************************************************************************)
(* Proofs about SourceDiscovery, for any lives of the two caches, any      *)
(* length of a listing, any number of looks, auto plays and events.        *)
(*                                                                         *)
(* Three arguments, each an inductive invariant on top of the types.  The  *)
(* first follows the age of what a listing saw from the runner's entry     *)
(* through the listing into the adapter's cache: at each place it is       *)
(* bounded by an age that is known there, and only the thread, which       *)
(* stores first and stamps after, needs a bound of its own in between.     *)
(*                                                                         *)
(* The second is AnnouncedIsSeen, which is inductive as it stands.         *)
(*                                                                         *)
(* The third is about the Bluetooth adapter.  Where registry and adapter   *)
(* differ without the thread's doing, a topology event waits or a listing  *)
(* on its way will be read; and where the registry lacks a source the      *)
(* adapter has, its announcement waits too, or an auto play that looks on  *)
(* is not to look before that topology event has been handled.             *)
(***************************************************************************)
EXTENDS SourceDiscovery, SequenceTheorems, TLAPS

\* The event `e` is in a sequence, among its first n, waits to be handled.
Has(e, s) == \E i \in 1 .. Len(s) : s[i] = e
Within(e, s, n) == \E i \in 1 .. Len(s) : i <= n /\ s[i] = e
Waits(e) == Has(e, events)
Event == {"available", "topology"}

-----------------------------------------------------------------------------
(* The invariants *)

Fresher(x) ==
    /\ x.age <= MaxRun
    /\ x.pc = "observed" => x.seen.age <= x.age
    /\ x.pc \in {"ran", "compared", "listed"} => x.seen.age <= RunnerTtl + x.age

RunnerFresh == Hit => runner.seen.age <= runner.stamp
CacheFresh  == Cached => cache.age <= RunnerTtl + MaxRun + stamp
StoredFresh == monitor.pc = "listed" => cache.age <= RunnerTtl + MaxRun + monitor.age
OneThread   == Going(monitor) => kind = "bluetooth"

AgeInv ==
    /\ Fresher(lister) /\ Fresher(monitor) /\ OneThread
    /\ RunnerFresh /\ CacheFresh /\ StoredFresh

\* A listing whose answer the registry will take.
Reads == Going(lister) /\ lister.for # "look"

\* Nothing is played, and nothing but the first listing runs, before there is an adapter.
First == registry = "no adapter" => Going(lister) /\ lister.for = "register"
OneView == idmap = cache.there

\* Unless the thread has changed the list in silence, the registry has the
\* adapter's view, or will get it.
Agrees == kind = "bluetooth" /\ registry # "no adapter" /\ ~missed =>
    \/ Reads
    \/ Waits("topology")
    \/ /\ (registry = "yes") = cache.there
       /\ lister.pc = "compared" => lister.seen.there = cache.there

\* A source new to a look that is being stored has been announced.
Announced == kind = "bluetooth" /\ lister.pc = "compared" /\ ~missed =>
    Reads \/ (lister.seen.there /\ ~idmap => Waits("available"))

\* An auto play at work has looked; those of the Linux adapter hear of nothing.
Looked == \A a \in Autos : auto[a].looks = 0 => auto[a] = NoAuto
Silent == kind # "bluetooth" => ~Waits("available") /\ \A a \in Autos : auto[a] = NoAuto

\* A source the registry lacks is announced, or an auto play waits for the
\* registry's turn.
Patience == kind = "bluetooth" /\ registry = "no" /\ ~missed /\ idmap =>
    \/ Reads
    \/ Waits("available")
    \/ \E b \in Autos : auto[b] # NoAuto /\ Within("topology", events, auto[b].behind)

ViewInv == First /\ OneView /\ Agrees /\ Announced /\ Looked /\ Silent /\ Patience


-----------------------------------------------------------------------------
(* Ages and listings *)

LEMMA Numbers ==
    /\ Ttl \in Nat \ {0} /\ RunnerTtl \in Nat \ {0} /\ Cooldown \in Nat /\ MaxRun \in Nat
    /\ MaxPolls \in Nat \ {0} /\ Old \in Nat
    /\ 0 \in Ages /\ 1 <= Old /\ MaxRun < Old /\ Ttl < Old /\ RunnerTtl + 1 <= Old
    /\ Ages = 0 .. Old
BY DiscoveryBounds DEF Old, Ages

LEMMA OlderIs ==
    ASSUME NEW age \in Nat, NEW limit \in Nat
    PROVE  /\ Older(age, limit) \in 0 .. limit
           /\ Older(age, limit) <= age + 1
           /\ age < limit => Older(age, limit) = age + 1
           /\ age >= limit => Older(age, limit) = limit
BY DEF Older

LEMMA AgedIs ==
    ASSUME NEW seen \in Seen
    PROVE  /\ Aged(seen) \in Seen /\ Aged(seen).age <= seen.age + 1
           /\ Aged(seen).there = seen.there
<1>1. seen.age \in Nat /\ seen.there \in BOOLEAN
  BY Numbers DEF Seen
<1> DEFINE n == Older(seen.age, Old)
<1>2. n \in Ages /\ n <= seen.age + 1
  BY <1>1, Numbers, OlderIs
<1>3. Aged(seen) = [seen EXCEPT !.age = n]
  BY DEF Aged
<1> HIDE DEF n
<1> QED BY <1>1, <1>2, <1>3 DEF Seen

LEMMA EmptyTypes ==
    /\ Unseen \in Seen /\ Unseen.age = 0 /\ Unseen.there = FALSE
    /\ Empty \in [valid : BOOLEAN, stamp : Ages, seen : Seen] /\ ~Empty.valid
BY Numbers DEF Unseen, Seen, Empty

LEMMA ListingFields ==
    ASSUME NEW x \in Listing
    PROVE  /\ x.pc \in {"none", "asked", "observed", "ran", "compared", "listed"}
           /\ x.for \in {"register", "refresh", "topology", "look"}
           /\ x.age \in Ages /\ x.age \in Nat /\ x.seen \in Seen
           /\ x.seen.age \in Nat /\ x.seen.there \in BOOLEAN
BY Numbers DEF Listing, Seen

LEMMA NoListingIs ==
    /\ NoListing \in Listing /\ NoListing.pc = "none" /\ NoListing.age = 0
    /\ \A for \in {"register", "refresh", "topology", "look"} :
         LET y == [NoListing EXCEPT !.pc = "asked", !.for = for]
         IN  y \in Listing /\ y.pc = "asked" /\ y.for = for /\ y.age = 0
    /\ LET y == [NoListing EXCEPT !.pc = "asked"] IN y \in Listing /\ y.pc = "asked" /\ y.age = 0
BY EmptyTypes, Numbers DEF NoListing, Listing

LEMMA StartsFresh ==
    /\ Fresher(NoListing)
    /\ \A for \in {"register", "refresh", "topology", "look"} :
         Fresher([NoListing EXCEPT !.pc = "asked", !.for = for])
    /\ Fresher([NoListing EXCEPT !.pc = "asked"])
BY NoListingIs, Numbers DEF Fresher

LEMMA PassingIs ==
    ASSUME NEW x \in Listing, Fresher(x), Going(x) => x.age < MaxRun
    PROVE  /\ Passing(x) \in Listing /\ Fresher(Passing(x))
           /\ Passing(x).pc = x.pc /\ Passing(x).for = x.for
           /\ Passing(x).seen.there = x.seen.there
           /\ Going(x) => Passing(x).age = x.age + 1
<1>1. CASE ~Going(x)
  BY <1>1 DEF Passing
<1>2. CASE Going(x)
  <2> DEFINE seen == IF x.pc = "asked" THEN x.seen ELSE Aged(x.seen)
             age == x.age + 1
             y == [x EXCEPT !.age = age, !.seen = seen]
  <2>1. Passing(x) = y
    BY <1>2 DEF Passing
  <2>2. /\ seen \in Seen /\ seen.there = x.seen.there
        /\ seen.age \in Nat /\ seen.age <= x.seen.age + 1
    <3>1. x.seen \in Seen
      BY ListingFields
    <3>2. x.seen.age \in Nat /\ Aged(x.seen) \in Seen /\ Aged(x.seen).there = x.seen.there
          /\ Aged(x.seen).age <= x.seen.age + 1
      BY <3>1, ListingFields, AgedIs
    <3>3. Aged(x.seen).age \in Nat
      BY <3>2, Numbers DEF Seen
    <3> QED BY <3>1, <3>2, <3>3
  <2>3. age \in Ages /\ age <= MaxRun /\ age = x.age + 1
    BY <1>2, ListingFields, Numbers
  <2> HIDE DEF seen, age
  <2>4. y \in Listing /\ y.pc = x.pc /\ y.for = x.for /\ y.seen = seen /\ y.age = age
    BY <2>2, <2>3 DEF Listing
  <2> HIDE DEF y
  <2>5. Fresher(y)
    <3>1. x.age \in Nat /\ x.seen.age \in Nat /\ RunnerTtl \in Nat
      BY ListingFields, Numbers
    <3>2. y.pc = "observed" => y.seen.age <= y.age
      BY <2>2, <2>3, <2>4, <3>1 DEF Fresher
    <3>3. y.pc \in {"ran", "compared", "listed"} => y.seen.age <= RunnerTtl + y.age
      BY <2>2, <2>3, <2>4, <3>1 DEF Fresher
    <3> QED BY <2>3, <2>4, <3>2, <3>3 DEF Fresher
  <2> QED BY <2>1, <2>2, <2>3, <2>4, <2>5
<1> QED BY <1>1, <1>2

LEMMA AsksIs ==
    ASSUME TypeOK, RunnerFresh, NEW x \in Listing, Fresher(x), NEW y, Asks(x, y)
    PROVE  /\ y \in Listing /\ Fresher(y) /\ x.pc = "asked"
           /\ y.pc \in {"observed", "ran"} /\ y.for = x.for /\ runner' = runner
<1>1. /\ x.pc = "asked" /\ x.age \in Nat /\ x.age <= MaxRun /\ runner' = runner
      /\ runner.seen \in Seen /\ runner.stamp \in Nat /\ runner.seen.age \in Nat
  <2>1. runner \in [valid : BOOLEAN, stamp : Ages, seen : Seen]
    BY DEF TypeOK
  <2>2. runner.seen \in Seen /\ runner.stamp \in Nat /\ runner.seen.age \in Nat
    BY <2>1, Numbers DEF Seen
  <2> QED BY <2>2, ListingFields DEF Asks, Fresher
<1>2. CASE Hit
  <2>1. y = [x EXCEPT !.pc = "ran", !.seen = runner.seen]
    BY <1>2 DEF Asks
  <2>2. y \in Listing /\ y.pc = "ran" /\ y.seen = runner.seen /\ y.age = x.age /\ y.for = x.for
    BY <1>1, <2>1 DEF Listing
  <2>3. runner.seen.age <= RunnerTtl + x.age
    <3>1. runner.seen.age <= runner.stamp /\ runner.stamp <= RunnerTtl
      BY <1>2 DEF RunnerFresh, Hit
    <3> QED BY <1>1, <3>1, Numbers
  <2> QED BY <1>1, <2>2, <2>3 DEF Fresher
<1>3. CASE ~Hit
  <2> DEFINE seen == [there |-> present, age |-> 0]
  <2>1. y = [x EXCEPT !.pc = "observed", !.seen = seen]
    BY <1>3 DEF Asks
  <2>2. seen \in Seen /\ seen.age = 0
    BY Numbers DEF Seen, TypeOK
  <2> HIDE DEF seen
  <2>3. y \in Listing /\ y.pc = "observed" /\ y.seen = seen /\ y.age = x.age /\ y.for = x.for
    BY <2>1, <2>2 DEF Listing
  <2> QED BY <1>1, <2>2, <2>3 DEF Fresher
<1> QED BY <1>2, <1>3

LEMMA ReturnsIs ==
    ASSUME TypeOK, NEW x \in Listing, Fresher(x), NEW y, Returns(x, y)
    PROVE  /\ y \in Listing /\ Fresher(y) /\ y.pc = "ran" /\ y.for = x.for
           /\ x.pc = "observed" /\ y.seen = x.seen
           /\ runner' \in [valid : BOOLEAN, stamp : Ages, seen : Seen] /\ RunnerFresh'
<1>1. /\ x.pc = "observed" /\ x.age \in Nat /\ x.age <= MaxRun /\ x.seen.age \in Nat
      /\ x.seen.age <= x.age /\ x.seen \in Seen /\ y = [x EXCEPT !.pc = "ran"]
  BY ListingFields DEF Returns, Fresher
<1>2. y \in Listing /\ y.pc = "ran" /\ y.seen = x.seen /\ y.age = x.age /\ y.for = x.for
  BY <1>1 DEF Listing
<1>3. x.seen.age <= RunnerTtl + x.age
  BY <1>1, Numbers
<1>4. PICK t \in x.seen.age .. x.age : runner' = Entry(x, t)
  BY DEF Returns
<1>5. t \in Ages /\ x.seen.age <= t
  BY <1>1, <1>4, Numbers
<1>6. runner' \in [valid : BOOLEAN, stamp : Ages, seen : Seen] /\ runner'.seen = x.seen /\ runner'.stamp = t
  BY <1>1, <1>4, <1>5 DEF Entry
<1>7. RunnerFresh'
  BY <1>5, <1>6 DEF RunnerFresh
<1> QED BY <1>1, <1>2, <1>3, <1>6, <1>7 DEF Fresher


-----------------------------------------------------------------------------
(* Types and ages, step by step *)

AgedInv == TypeOK /\ AgeInv

LEMMA TypeParts ==
    ASSUME TypeOK
    PROVE  /\ runner \in [valid : BOOLEAN, stamp : Ages, seen : Seen]
           /\ runner.stamp \in Nat /\ runner.seen \in Seen /\ runner.seen.age \in Nat
           /\ cache \in Seen /\ cache.age \in Nat /\ stamp \in Nat /\ stamp <= Ttl
           /\ lister \in Listing /\ monitor \in Listing
<1>1. runner \in [valid : BOOLEAN, stamp : Ages, seen : Seen] /\ cache \in Seen
      /\ stamp \in 0 .. Ttl /\ lister \in Listing /\ monitor \in Listing
  BY DEF TypeOK
<1>2. runner.stamp \in Nat /\ runner.seen.age \in Nat /\ cache.age \in Nat
  BY <1>1, Numbers DEF Seen
<1> QED BY <1>1, <1>2, Numbers

\* A sum of ages that all grow.
LEMMA Grows ==
    ASSUME NEW a \in Nat, NEW b \in Nat, NEW c \in Nat, NEW a1 \in Nat, NEW b1 \in Nat,
           a <= c + b, a1 <= a + 1, b1 = b + 1
    PROVE  a1 <= c + b1
OBVIOUS

LEMMA TickAges == ASSUME AgedInv, Tick PROVE AgedInv'
<1> USE DEF AgedInv
<1>1. lister \in Listing /\ monitor \in Listing /\ Fresher(lister) /\ Fresher(monitor)
  BY TypeParts DEF AgeInv
<1>2. /\ lister' = Passing(lister) /\ (Going(lister) => lister.age < MaxRun)
      /\ monitor' = Passing(monitor) /\ (Going(monitor) => monitor.age < MaxRun)
  BY DEF Tick
<1>3. /\ lister' \in Listing /\ Fresher(lister')
      /\ monitor' \in Listing /\ Fresher(monitor') /\ monitor'.pc = monitor.pc
      /\ Going(monitor) => monitor'.age = monitor.age + 1
  BY <1>1, <1>2, PassingIs
<1>4. /\ cache' = Aged(cache) /\ cache' \in Seen /\ cache'.age <= cache.age + 1
      /\ cache.age \in Nat /\ cache'.age \in Nat
  <2>1. cache' = Aged(cache) /\ cache \in Seen /\ cache.age \in Nat
    BY TypeParts DEF Tick
  <2>2. cache' \in Seen /\ cache'.age <= cache.age + 1
    BY <2>1, AgedIs
  <2> QED BY <2>1, <2>2, Numbers DEF Seen
<1>5. /\ stamp' \in 0 .. Ttl /\ stamp' \in Nat /\ stamp \in Nat
      /\ stamp' < Ttl => stamp < Ttl /\ stamp' = stamp + 1
  <2>1. stamp' = Older(stamp, Ttl) /\ stamp \in Nat /\ Ttl \in Nat
    BY TypeParts, Numbers DEF Tick
  <2> QED BY <2>1 DEF Older
<1>6. topology' \in 0 .. Cooldown + 1
  <2>1. topology' = Older(topology, Cooldown + 1) /\ topology \in Nat /\ Cooldown + 1 \in Nat
    <3>1. topology' = Older(topology, Cooldown + 1) /\ topology \in 0 .. Cooldown + 1
      BY DEF Tick, TypeOK
    <3> QED BY <3>1, Numbers
  <2> QED BY <2>1 DEF Older
<1>7. runner' \in [valid : BOOLEAN, stamp : Ages, seen : Seen] /\ RunnerFresh'
  <2>1. CASE ~runner.valid
    <3>1. runner' = runner
      BY <2>1 DEF Tick
    <3> QED BY <3>1, TypeParts DEF AgeInv, RunnerFresh, Hit
  <2>2. CASE runner.valid
    <3> DEFINE n == Older(runner.stamp, RunnerTtl + 1)
               seen == Aged(runner.seen)
    <3>1. /\ runner.stamp \in Nat /\ runner.seen \in Seen /\ runner.seen.age \in Nat
          /\ RunnerTtl + 1 \in Nat
      BY TypeParts, Numbers
    <3>2. n \in 0 .. RunnerTtl + 1 /\ (n <= RunnerTtl => n = runner.stamp + 1)
      BY <3>1, Numbers DEF Older
    <3>3. n \in Ages
      BY <3>2, Numbers
    <3>4. seen \in Seen /\ seen.age <= runner.seen.age + 1
      BY <3>1, AgedIs
    <3>5. runner' = [runner EXCEPT !.stamp = n, !.seen = seen]
      BY <2>2 DEF Tick
    <3> HIDE DEF n, seen
    <3>6. /\ runner' \in [valid : BOOLEAN, stamp : Ages, seen : Seen]
          /\ runner'.valid = runner.valid /\ runner'.stamp = n /\ runner'.seen = seen
      BY <3>3, <3>4, <3>5, TypeParts
    <3>7. ASSUME n <= RunnerTtl PROVE seen.age <= n
      <4>1. runner.stamp <= RunnerTtl /\ n = runner.stamp + 1
        BY <3>1, <3>2, <3>7, Numbers
      <4>2. runner.seen.age <= runner.stamp
        BY <2>2, <4>1 DEF AgeInv, RunnerFresh, Hit
      <4>3. seen.age \in Nat
        BY <3>4, Numbers DEF Seen
      <4> QED BY <3>1, <3>4, <4>1, <4>2, <4>3
    <3>8. RunnerFresh'
      BY <3>6, <3>7 DEF RunnerFresh, Hit
    <3> QED BY <3>6, <3>8
  <2> QED BY <2>1, <2>2
<1>8. CacheFresh'
  <2> SUFFICES ASSUME Cached' PROVE cache'.age <= RunnerTtl + MaxRun + stamp'
    BY DEF CacheFresh
  <2>1. Cached /\ stamp' = stamp + 1
    BY <1>5 DEF Cached
  <2>2. cache.age <= (RunnerTtl + MaxRun) + stamp /\ RunnerTtl + MaxRun \in Nat
    BY <2>1, Numbers DEF AgeInv, CacheFresh
  <2> QED BY <1>4, <1>5, <2>1, <2>2, Grows
<1>11. OneThread'
  BY <1>3 DEF Tick, AgeInv, OneThread, Going
<1>9. StoredFresh'
  <2> SUFFICES ASSUME monitor'.pc = "listed" PROVE cache'.age <= RunnerTtl + MaxRun + monitor'.age
    BY DEF StoredFresh
  <2>1. monitor.pc = "listed" /\ monitor'.age = monitor.age + 1
    BY <1>3 DEF Going
  <2>2. monitor.age \in Nat /\ monitor'.age \in Nat
    BY <1>1, <1>3, ListingFields
  <2>3. cache.age <= (RunnerTtl + MaxRun) + monitor.age /\ RunnerTtl + MaxRun \in Nat
    BY <2>1, Numbers DEF AgeInv, StoredFresh
  <2> QED BY <1>4, <2>1, <2>2, <2>3, Grows
<1>10. TypeOK'
  BY <1>3, <1>4, <1>5, <1>6, <1>7 DEF Tick, TypeOK
<1> QED BY <1>3, <1>7, <1>8, <1>9, <1>10, <1>11 DEF AgeInv


\* Steps that leave the caches and the listings alone.
LEMMA SteadyAges ==
    ASSUME AgeInv, UNCHANGED <<kind, runner, cache, stamp, lister, monitor>> PROVE AgeInv'
BY DEF AgeInv, Fresher, RunnerFresh, Hit, CacheFresh, Cached, StoredFresh, OneThread, Going

\* Steps of the event loop that go on with a listing, or begin one.
LEMMA ListingAges ==
    ASSUME AgeInv, UNCHANGED <<kind, cache, stamp, monitor>>, Fresher(lister'), RunnerFresh'
    PROVE  AgeInv'
BY DEF AgeInv, Fresher, CacheFresh, Cached, StoredFresh, OneThread, Going

LEMMA AnswerTypes ==
    ASSUME TypeOK, NEW for, NEW seen \in Seen, Answer(for, seen)
    PROVE  registry' \in {"no adapter", "yes", "no"} /\ missed' \in BOOLEAN
BY DEF Answer, Update, TypeOK

LEMMA ListAges ==
    ASSUME AgedInv, NEW for \in {"refresh", "look", "topology"}, List(for),
           UNCHANGED <<kind, runner, cache, stamp, monitor>>
    PROVE  /\ AgeInv' /\ lister' \in Listing
           /\ registry' \in {"no adapter", "yes", "no"} /\ missed' \in BOOLEAN
<1>1. cache \in Seen /\ lister \in Listing /\ Fresher(lister) /\ AgeInv /\ RunnerFresh
  BY TypeParts DEF AgedInv, AgeInv
<1>2. CASE Cached
  BY <1>1, <1>2, AnswerTypes, SteadyAges DEF List, AgedInv
<1>3. CASE ~Cached
  <2>1. lister' = [NoListing EXCEPT !.pc = "asked", !.for = for] /\ UNCHANGED <<registry, missed>>
    BY <1>3 DEF List
  <2>2. lister' \in Listing /\ Fresher(lister')
    BY <2>1, NoListingIs, StartsFresh
  <2>3. RunnerFresh'
    BY <1>1 DEF RunnerFresh, Hit
  <2> QED BY <1>1, <2>1, <2>2, <2>3, ListingAges DEF AgedInv, TypeOK
<1> QED BY <1>2, <1>3

LEMMA HasConcat ==
    ASSUME NEW s \in Seq(Event), NEW t \in Seq(Event), NEW e, NEW n
    PROVE  /\ s \o t \in Seq(Event)
           /\ Has(e, s) \/ Has(e, t) => Has(e, s \o t)
           /\ Has(e, s \o t) => Has(e, s) \/ Has(e, t)
           /\ Within(e, s, n) => Within(e, s \o t, n)
<1>1. /\ s \o t \in Seq(Event) /\ Len(s \o t) = Len(s) + Len(t)
      /\ \A i \in 1 .. Len(s) + Len(t) : (s \o t)[i] = IF i <= Len(s) THEN s[i] ELSE t[i - Len(s)]
  BY ConcatProperties
<1>2. Len(s) \in Nat /\ Len(t) \in Nat
  OBVIOUS
<1> DEFINE u == s \o t
<1> HIDE DEF u
<1>3. Len(u) = Len(s) + Len(t)
  BY <1>1 DEF u
<1>4. ASSUME NEW i \in 1 .. Len(s) PROVE i \in 1 .. Len(u) /\ u[i] = s[i]
  <2>1. i \in 1 .. Len(u) /\ i <= Len(s)
    BY <1>2, <1>3
  <2> QED BY <1>1, <1>3, <2>1 DEF u
<1>5. ASSUME NEW i \in 1 .. Len(t) PROVE Len(s) + i \in 1 .. Len(u) /\ u[Len(s) + i] = t[i]
  <2>1. Len(s) + i \in 1 .. Len(u) /\ ~(Len(s) + i <= Len(s)) /\ Len(s) + i - Len(s) = i
    BY <1>2, <1>3
  <2>2. u[Len(s) + i] = IF Len(s) + i <= Len(s) THEN s[Len(s) + i] ELSE t[Len(s) + i - Len(s)]
    BY <1>1, <1>3, <2>1 DEF u
  <2> QED BY <2>1, <2>2
<1>6. (Has(e, s) \/ Has(e, t) => Has(e, u)) /\ (Within(e, s, n) => Within(e, u, n))
  BY <1>4, <1>5 DEF Has, Within
<1>7. Has(e, u) => Has(e, s) \/ Has(e, t)
  <2>1. ASSUME NEW i \in 1 .. Len(u), u[i] = e PROVE Has(e, s) \/ Has(e, t)
    <3>1. CASE i <= Len(s)
      <4>1. i \in 1 .. Len(s) /\ s[i] = e
        BY <1>1, <1>2, <1>3, <2>1, <3>1 DEF u
      <4> QED BY <4>1 DEF Has
    <3>2. CASE ~(i <= Len(s))
      <4>1. i - Len(s) \in 1 .. Len(t) /\ t[i - Len(s)] = e
        BY <1>1, <1>2, <1>3, <2>1, <3>2 DEF u
      <4> QED BY <4>1 DEF Has
    <3> QED BY <3>1, <3>2
  <2> QED BY <2>1 DEF Has
<1> QED BY <1>1, <1>6, <1>7 DEF u

LEMMA HasTail ==
    ASSUME NEW s \in Seq(Event), s # <<>>, NEW e, NEW n \in Nat, Head(s) # e
    PROVE  /\ Tail(s) \in Seq(Event)
           /\ Has(e, s) => Has(e, Tail(s)) /\ Within(e, Tail(s), Len(s) - 1)
           /\ Within(e, s, n) => n > 0 /\ Within(e, Tail(s), n - 1)
<1>1. /\ Tail(s) \in Seq(Event) /\ Len(s) \in Nat /\ Len(Tail(s)) = Len(s) - 1 /\ s[1] # e
      /\ \A i \in 1 .. Len(Tail(s)) : Tail(s)[i] = s[i + 1]
  OBVIOUS
<1> DEFINE u == Tail(s)
<1> HIDE DEF u
<1>2. ASSUME NEW i \in 1 .. Len(s), s[i] = e PROVE i > 1 /\ i - 1 \in 1 .. Len(u) /\ u[i - 1] = e
  <2>1. i > 1 /\ i - 1 \in 1 .. Len(u) /\ (i - 1) + 1 = i
    BY <1>1, <1>2 DEF u
  <2> QED BY <1>1, <1>2, <2>1 DEF u
<1>3. Has(e, s) => Has(e, u) /\ Within(e, u, Len(s) - 1)
  <2>1. ASSUME NEW i \in 1 .. Len(s), s[i] = e PROVE Has(e, u) /\ Within(e, u, Len(s) - 1)
    <3>1. i - 1 \in 1 .. Len(u) /\ u[i - 1] = e /\ i - 1 <= Len(s) - 1
      BY <1>1, <1>2, <2>1
    <3> QED BY <3>1 DEF Has, Within
  <2> QED BY <2>1 DEF Has
<1>4. Within(e, s, n) => n > 0 /\ Within(e, u, n - 1)
  <2>1. ASSUME NEW i \in 1 .. Len(s), s[i] = e, i <= n PROVE n > 0 /\ Within(e, u, n - 1)
    <3>1. i - 1 \in 1 .. Len(u) /\ u[i - 1] = e /\ i - 1 <= n - 1 /\ n > 0
      BY <1>1, <1>2, <2>1
    <3> QED BY <3>1 DEF Within
  <2> QED BY <2>1 DEF Within
<1> QED BY <1>1, <1>3, <1>4 DEF u

\* What the Bluetooth adapter emits: an arrival, and whatever differs from before.
LEMMA ChangesIs ==
    ASSUME NEW seen
    PROVE  /\ Changes(seen) \in Seq(Event)
           /\ (seen.there /\ ~idmap) => Has("available", Changes(seen))
           /\ seen.there # cache.there => Has("topology", Changes(seen))
<1> DEFINE s == IF seen.there /\ ~idmap THEN <<"available">> ELSE <<>>
           t == IF seen.there # cache.there THEN <<"topology">> ELSE <<>>
<1>1. <<>> \in Seq(Event) /\ <<"available">> \in Seq(Event) /\ <<"topology">> \in Seq(Event)
  BY DEF Event
<1>2. Has("available", <<"available">>) /\ Has("topology", <<"topology">>)
  BY DEF Has
<1>3. /\ s \in Seq(Event) /\ t \in Seq(Event)
      /\ (seen.there /\ ~idmap) => Has("available", s)
      /\ seen.there # cache.there => Has("topology", t)
  BY <1>1, <1>2
<1>4. Changes(seen) = s \o t
  BY DEF Changes
<1> HIDE DEF s, t
<1> QED BY <1>3, <1>4, HasConcat

LEMMA AutoTypes ==
    /\ NoAuto \in [looks : 0 .. MaxPolls, behind : Nat]
    /\ NoAuto.looks = 0 /\ NoAuto.behind = 0
    /\ \A looks \in 1 .. MaxPolls, behind \in Nat :
          /\ Looks(looks, behind) \in [looks : 0 .. MaxPolls, behind : Nat]
          /\ registry # "yes" => /\ Looks(looks, behind).looks = looks
                                 /\ Looks(looks, behind).behind = behind
          /\ Looks(looks, behind).looks = 0 => Looks(looks, behind) = NoAuto
    /\ \A r \in [looks : 0 .. MaxPolls, behind : Nat] :
          /\ Handled(r) \in [looks : 0 .. MaxPolls, behind : Nat]
          /\ Handled(r).looks = r.looks
          /\ r.behind > 0 => Handled(r).behind = r.behind - 1
          /\ r.behind = 0 => Handled(r).behind = 0
<1>1. NoAuto \in [looks : 0 .. MaxPolls, behind : Nat] /\ NoAuto.looks = 0 /\ NoAuto.behind = 0
  BY Numbers DEF NoAuto
<1>2. ASSUME NEW looks \in 1 .. MaxPolls, NEW behind \in Nat
      PROVE  /\ Looks(looks, behind) \in [looks : 0 .. MaxPolls, behind : Nat]
             /\ registry # "yes" => /\ Looks(looks, behind).looks = looks
                                    /\ Looks(looks, behind).behind = behind
             /\ Looks(looks, behind).looks = 0 => Looks(looks, behind) = NoAuto
  BY <1>1, Numbers DEF Looks
<1>3. ASSUME NEW r \in [looks : 0 .. MaxPolls, behind : Nat]
      PROVE  /\ Handled(r) \in [looks : 0 .. MaxPolls, behind : Nat]
             /\ Handled(r).looks = r.looks
             /\ r.behind > 0 => Handled(r).behind = r.behind - 1
             /\ r.behind = 0 => Handled(r).behind = 0
  <2> DEFINE n == IF r.behind > 0 THEN r.behind - 1 ELSE 0
  <2>1. Handled(r) = [r EXCEPT !.behind = n]
    BY DEF Handled
  <2>2. n \in Nat
    OBVIOUS
  <2> QED BY <2>1, <2>2
<1> QED BY <1>1, <1>2, <1>3


\* The listing of the loop, and of the thread, that asks and is answered.
LEMMA RunsAges ==
    ASSUME AgedInv, LoopRuns \/ MonitorRuns
    PROVE  /\ AgeInv' /\ lister' \in Listing /\ monitor' \in Listing
           /\ runner' \in [valid : BOOLEAN, stamp : Ages, seen : Seen]
           /\ lister'.for = lister.for
           /\ LoopRuns => lister.pc \in {"asked", "observed"} /\ lister'.pc \in {"observed", "ran"}
           /\ MonitorRuns => monitor'.pc \in {"observed", "ran"}
<1>1. /\ lister \in Listing /\ monitor \in Listing /\ TypeOK /\ AgeInv
      /\ runner \in [valid : BOOLEAN, stamp : Ages, seen : Seen]
      /\ Fresher(lister) /\ Fresher(monitor) /\ RunnerFresh
  BY TypeParts DEF AgedInv, AgeInv
<1>2. ASSUME NEW x \in Listing, Fresher(x), NEW y, Asks(x, y) \/ Returns(x, y)
      PROVE  /\ y \in Listing /\ Fresher(y) /\ y.for = x.for /\ y.pc \in {"observed", "ran"}
             /\ x.pc \in {"asked", "observed"}
             /\ runner' \in [valid : BOOLEAN, stamp : Ages, seen : Seen] /\ RunnerFresh'
  <2>1. CASE Asks(x, y)
    <3>1. /\ y \in Listing /\ Fresher(y) /\ y.for = x.for /\ y.pc \in {"observed", "ran"}
          /\ runner' = runner /\ x.pc = "asked"
      BY <1>1, <1>2, <2>1, AsksIs
    <3> QED BY <1>1, <3>1 DEF RunnerFresh, Hit
  <2>2. CASE Returns(x, y)
    BY <1>1, <1>2, <2>2, ReturnsIs
  <2> QED BY <1>2, <2>1, <2>2
<1>3. CASE LoopRuns
  <2>1. /\ lister' \in Listing /\ Fresher(lister') /\ lister'.for = lister.for
        /\ lister'.pc \in {"observed", "ran"} /\ lister.pc \in {"asked", "observed"}
        /\ runner' \in [valid : BOOLEAN, stamp : Ages, seen : Seen] /\ RunnerFresh'
    <3>1. Asks(lister, lister') \/ Returns(lister, lister')
      BY <1>3 DEF LoopRuns
    <3> QED BY <1>1, <1>2, <3>1
  <2>2. UNCHANGED <<kind, cache, stamp, monitor>>
    BY <1>3 DEF LoopRuns, adapterVars
  <2>3. AgeInv'
    BY <1>1, <2>1, <2>2, ListingAges
  <2>4. MonitorRuns => monitor'.pc \in {"observed", "ran"}
    BY <1>1, <1>2 DEF MonitorRuns
  <2> QED BY <1>1, <2>1, <2>2, <2>3, <2>4
<1>4. CASE MonitorRuns
  <2>1. /\ monitor' \in Listing /\ Fresher(monitor') /\ monitor'.pc \in {"observed", "ran"}
        /\ runner' \in [valid : BOOLEAN, stamp : Ages, seen : Seen] /\ RunnerFresh'
    <3>1. Asks(monitor, monitor') \/ Returns(monitor, monitor')
      BY <1>4 DEF MonitorRuns
    <3> QED BY <1>1, <1>2, <3>1
  <2>2. UNCHANGED <<kind, cache, stamp, lister>>
    BY <1>4 DEF MonitorRuns, adapterVars
  <2>3. Going(monitor)
    BY <1>1, <1>2, <1>4 DEF MonitorRuns, Going
  <2>5. AgeInv'
    BY <1>1, <2>1, <2>2, <2>3 DEF AgeInv, CacheFresh, Cached, StoredFresh, Fresher, OneThread
  <2>4. LoopRuns => lister.pc \in {"asked", "observed"} /\ lister'.pc \in {"observed", "ran"}
    BY <1>1, <1>2 DEF LoopRuns
  <2> QED BY <1>1, <2>1, <2>2, <2>4, <2>5
<1> QED BY <1>3, <1>4

\* A listing's answer becomes the adapter's, with the stamp of its start or its end.
LEMMA StampIs ==
    ASSUME NEW x \in Listing, kind = "bluetooth" \/ kind = "linux"
    PROVE  /\ StampOf(x) \in 0 .. Ttl
           /\ StampOf(x) < Ttl => StampOf(x) = x.age \/ kind # "bluetooth"
BY ListingFields, Numbers DEF StampOf

LEMMA StoresAges ==
    ASSUME AgedInv, LoopStores \/ MonitorStores \/ MonitorStamps
    PROVE  /\ AgeInv' /\ stamp' \in 0 .. Ttl
           /\ cache' \in Seen /\ idmap' \in BOOLEAN /\ lister' \in Listing /\ monitor' \in Listing
<1>1. /\ lister \in Listing /\ monitor \in Listing /\ TypeOK /\ AgeInv
      /\ Fresher(lister) /\ Fresher(monitor) /\ cache \in Seen /\ stamp \in 0 .. Ttl
      /\ stamp \in Nat /\ cache.age \in Nat /\ idmap \in BOOLEAN
  BY TypeParts DEF AgedInv, AgeInv, TypeOK
<1>2. /\ lister.age \in Nat /\ lister.age <= MaxRun /\ lister.seen \in Seen
      /\ lister.seen.there \in BOOLEAN /\ lister.seen.age \in Nat
      /\ monitor.age \in Nat /\ monitor.age <= MaxRun /\ monitor.seen \in Seen
      /\ monitor.seen.there \in BOOLEAN /\ monitor.seen.age \in Nat
      /\ RunnerTtl \in Nat /\ MaxRun \in Nat /\ Ttl \in Nat
  BY <1>1, ListingFields, Numbers DEF Fresher
<1>3. (kind = "bluetooth" \/ kind = "linux") /\ kind' = kind
  BY <1>1, DiscoveryBounds DEF TypeOK, LoopStores, MonitorStores, MonitorStamps
<1>4. CASE LoopStores
  <2>1. /\ lister.pc = "compared" /\ idmap' = lister.seen.there /\ cache' = lister.seen
        /\ stamp' = StampOf(lister) /\ lister' = NoListing /\ UNCHANGED <<monitor, runner>>
    BY <1>4 DEF LoopStores
  <2>2. lister.seen.age <= RunnerTtl + lister.age
    BY <1>1, <2>1 DEF Fresher
  <2>3. stamp' \in 0 .. Ttl /\ (stamp' < Ttl => stamp' = lister.age \/ kind # "bluetooth")
    BY <1>1, <1>3, <2>1, StampIs
  <2>4. CacheFresh'
    <3>1. stamp' \in Nat /\ cache'.age = lister.seen.age
      BY <1>2, <2>1, <2>3
    <3>2. cache'.age <= RunnerTtl + MaxRun + stamp'
      BY <1>2, <2>2, <3>1
    <3> QED BY <3>2 DEF CacheFresh
  <2>5. StoredFresh'
    <3>1. cache'.age <= RunnerTtl + MaxRun + monitor.age
      BY <1>2, <2>1, <2>2
    <3> QED BY <2>1, <3>1 DEF StoredFresh
  <2>6. RunnerFresh' /\ Fresher(monitor') /\ Fresher(lister') /\ OneThread'
    BY <1>1, <1>3, <2>1, StartsFresh DEF AgeInv, RunnerFresh, Hit, OneThread, Going
  <2> QED BY <1>1, <1>2, <2>1, <2>3, <2>4, <2>5, <2>6, NoListingIs DEF AgeInv
<1>5. CASE MonitorStores
  <2>1. /\ monitor.pc = "ran" /\ idmap' = monitor.seen.there /\ cache' = monitor.seen
        /\ monitor' = [monitor EXCEPT !.pc = "listed"] /\ UNCHANGED <<lister, runner, stamp>>
    BY <1>5 DEF MonitorStores
  <2>2. monitor' \in Listing /\ monitor'.pc = "listed" /\ monitor'.seen = monitor.seen
        /\ monitor'.age = monitor.age
    BY <1>1, <2>1 DEF Listing
  <2>3. monitor.seen.age <= RunnerTtl + monitor.age
    BY <1>1, <2>1 DEF Fresher
  <2>4. CacheFresh' /\ StoredFresh'
    <3>1. cache'.age <= RunnerTtl + MaxRun + stamp
      BY <1>1, <1>2, <2>1, <2>3
    <3>2. cache'.age <= RunnerTtl + MaxRun + monitor'.age
      BY <1>2, <2>1, <2>2, <2>3
    <3> QED BY <2>1, <3>1, <3>2 DEF CacheFresh, StoredFresh
  <2>5. RunnerFresh' /\ Fresher(lister') /\ Fresher(monitor') /\ OneThread'
    BY <1>1, <1>2, <1>3, <2>1, <2>2, <2>3 DEF AgeInv, RunnerFresh, Hit, Fresher, OneThread, Going
  <2> QED BY <1>1, <1>2, <2>1, <2>2, <2>4, <2>5 DEF AgeInv
<1>6. CASE MonitorStamps
  <2>1. /\ monitor.pc = "listed" /\ stamp' = StampOf(monitor) /\ monitor' = NoListing
        /\ UNCHANGED <<runner, idmap, cache, lister>>
    BY <1>6 DEF MonitorStamps
  <2>2. stamp' \in 0 .. Ttl /\ (stamp' < Ttl => stamp' = monitor.age \/ kind # "bluetooth")
    BY <1>1, <1>3, <2>1, StampIs
  <2>3. cache.age <= RunnerTtl + MaxRun + monitor.age
    BY <1>1, <2>1 DEF AgeInv, StoredFresh
  <2>4. kind = "bluetooth"
    BY <1>1, <2>1 DEF AgeInv, OneThread, Going
  <2>5. CacheFresh'
    <3>1. stamp' < Ttl => cache'.age <= RunnerTtl + MaxRun + stamp'
      BY <2>1, <2>2, <2>3, <2>4
    <3> QED BY <3>1 DEF CacheFresh, Cached
  <2>6. /\ StoredFresh' /\ RunnerFresh' /\ Fresher(lister') /\ Fresher(monitor') /\ OneThread'
    BY <1>1, <2>1, StartsFresh, NoListingIs
       DEF AgeInv, RunnerFresh, Hit, StoredFresh, OneThread, Going
  <2> QED BY <1>1, <1>2, <2>1, <2>2, <2>5, <2>6, NoListingIs DEF AgeInv
<1> QED BY <1>4, <1>5, <1>6


\* A source's answer, failed, is the adapter's cache or the default source.
LEMMA FailsAges ==
    ASSUME AgedInv, LoopFails \/ MonitorFails \/ LoopCompares \/ MonitorLists
    PROVE  AgeInv' /\ lister' \in Listing /\ monitor' \in Listing
<1>1. /\ lister \in Listing /\ monitor \in Listing /\ TypeOK /\ AgeInv /\ RunnerFresh
      /\ Fresher(lister) /\ Fresher(monitor) /\ cache \in Seen
  BY TypeParts DEF AgedInv, AgeInv
<1>2. /\ lister.age \in Nat /\ lister.age <= MaxRun /\ RunnerTtl \in Nat /\ Unseen \in Seen
      /\ Unseen.age = 0 /\ lister.seen.age \in Nat
  BY <1>1, ListingFields, Numbers, EmptyTypes DEF Fresher
<1>3. CASE LoopFails
  <2>1. UNCHANGED <<kind, runner, cache, stamp, monitor>>
    BY <1>3 DEF LoopFails, adapterVars
  <2>2. lister' = NoListing \/ lister' = [lister EXCEPT !.pc = "compared", !.seen = Unseen]
    BY <1>3 DEF LoopFails
  <2>3. lister' \in Listing /\ Fresher(lister')
    <3>1. CASE lister' = NoListing
      BY <3>1, NoListingIs, StartsFresh
    <3>2. CASE lister' = [lister EXCEPT !.pc = "compared", !.seen = Unseen]
      <4>1. lister' \in Listing /\ lister'.pc = "compared" /\ lister'.seen = Unseen
            /\ lister'.age = lister.age
        BY <1>1, <1>2, <3>2 DEF Listing
      <4> QED BY <1>2, <4>1 DEF Fresher
    <3> QED BY <2>2, <3>1, <3>2
  <2>4. RunnerFresh'
    BY <1>1, <2>1 DEF RunnerFresh, Hit
  <2> QED BY <1>1, <2>1, <2>3, <2>4, ListingAges
<1>4. CASE MonitorFails
  <2>1. UNCHANGED <<kind, runner, cache, stamp, lister>> /\ monitor' = NoListing
    BY <1>4 DEF MonitorFails, adapterVars
  <2> QED BY <1>1, <2>1, NoListingIs, StartsFresh
          DEF AgeInv, RunnerFresh, Hit, CacheFresh, Cached, StoredFresh, OneThread, Going
<1>5. CASE LoopCompares
  <2>1. /\ UNCHANGED <<kind, runner, cache, stamp, monitor>> /\ lister.pc = "ran"
        /\ lister' = [lister EXCEPT !.pc = "compared"]
    BY <1>5 DEF LoopCompares, adapterVars
  <2>2. lister' \in Listing /\ lister'.pc = "compared" /\ lister'.seen = lister.seen
        /\ lister'.age = lister.age
    BY <1>1, <2>1 DEF Listing
  <2>3. Fresher(lister') /\ RunnerFresh'
    BY <1>1, <2>1, <2>2 DEF Fresher, RunnerFresh, Hit
  <2> QED BY <1>1, <2>1, <2>2, <2>3, ListingAges
<1>6. CASE MonitorLists
  <2>1. /\ UNCHANGED <<kind, runner, cache, stamp, lister>> /\ kind = "bluetooth"
        /\ monitor' = [NoListing EXCEPT !.pc = "asked"]
    BY <1>6 DEF MonitorLists, adapterVars
  <2> QED BY <1>1, <2>1, NoListingIs, StartsFresh
          DEF AgeInv, RunnerFresh, Hit, CacheFresh, Cached, StoredFresh, OneThread, Going
<1> QED BY <1>3, <1>4, <1>5, <1>6

\* An event that is handled, and one that is announced.
LEMMA EventTypes ==
    ASSUME TypeOK
    PROVE  /\ events \in Seq(Event) /\ Len(events) \in Nat
           /\ Emitted(<<"topology">>) \in Seq(Event)
           /\ \A seen : Emitted(Changes(seen)) \in Seq(Event)
           /\ events # <<>> => Tail(events) \in Seq(Event) /\ Len(events) - 1 \in Nat
<1>1. events \in Seq(Event) /\ <<"topology">> \in Seq(Event)
  <2>1. events \in Seq({"available", "topology"})
    BY DEF TypeOK
  <2>2. "topology" \in Event
    BY DEF Event
  <2> QED BY <2>1, <2>2 DEF Event
<1>2. \A seen : Changes(seen) \in Seq(Event)
  BY ChangesIs
<1>3. events # <<>> => Tail(events) \in Seq(Event) /\ Len(events) - 1 \in Nat
  BY <1>1
<1> QED BY <1>1, <1>2, <1>3, HasConcat DEF Emitted

LEMMA AutoParts ==
    ASSUME TypeOK
    PROVE  /\ auto \in [Autos -> [looks : 0 .. MaxPolls, behind : Nat]]
           /\ \A a \in Autos : /\ auto[a] \in [looks : 0 .. MaxPolls, behind : Nat]
                               /\ auto[a].looks \in 0 .. MaxPolls /\ auto[a].behind \in Nat
BY DEF TypeOK

LEMMA InitAged == ASSUME Init PROVE AgedInv
<1>1. lister \in Listing /\ monitor \in Listing /\ Fresher(lister) /\ Fresher(monitor) /\ OneThread
      /\ monitor.pc = "none"
  BY NoListingIs, StartsFresh DEF Init, OneThread, Going
<1>2. cache \in Seen /\ runner \in [valid : BOOLEAN, stamp : Ages, seen : Seen] /\ ~runner.valid
  BY EmptyTypes DEF Init
<1>3. stamp \in 0 .. Ttl /\ stamp = Ttl /\ Ttl \in Nat /\ topology \in 0 .. Cooldown + 1
  <2>1. Ttl \in Nat /\ Cooldown \in Nat
    BY Numbers
  <2>2. stamp = Ttl /\ topology = Cooldown + 1
    BY DEF Init
  <2> QED BY <2>1, <2>2
<1>4. auto \in [Autos -> [looks : 0 .. MaxPolls, behind : Nat]]
  BY AutoTypes DEF Init
<1>7. kind \in Kinds /\ present \in BOOLEAN /\ idmap \in BOOLEAN /\ missed \in BOOLEAN
      /\ registry \in {"no adapter", "yes", "no"}
  BY DEF Init
<1>8. events \in Seq({"available", "topology"})
  <2>1. events = <<>>
    BY DEF Init
  <2> QED BY <2>1
<1>5. TypeOK
  BY <1>1, <1>2, <1>3, <1>4, <1>7, <1>8 DEF TypeOK
<1>6. RunnerFresh /\ CacheFresh /\ StoredFresh
  BY <1>1, <1>2, <1>3 DEF RunnerFresh, Hit, CacheFresh, Cached, StoredFresh
<1> QED BY <1>1, <1>5, <1>6 DEF AgedInv, AgeInv

LEMMA AgedStep == ASSUME AgedInv, [Next]_vars PROVE AgedInv'
<1>1. /\ TypeOK /\ AgeInv /\ lister \in Listing /\ monitor \in Listing /\ cache \in Seen
      /\ runner \in [valid : BOOLEAN, stamp : Ages, seen : Seen]
  BY TypeParts DEF AgedInv
<1>2. CASE Tick
  BY <1>2, TickAges
<1>3. CASE SourceComesOrGoes
  <2>1. AgeInv'
    BY <1>1, <1>3, SteadyAges DEF SourceComesOrGoes, adapterVars
  <2> QED BY <1>1, <1>3, <2>1 DEF SourceComesOrGoes, adapterVars, AgedInv, TypeOK
<1>4. CASE Hotplug
  <2>1. runner' = Empty /\ UNCHANGED <<kind, cache, stamp, monitor, lister>>
    BY <1>4 DEF Hotplug, Invalidated, adapterVars
  <2>2. RunnerFresh' /\ Fresher(lister')
    BY <1>1, <2>1, EmptyTypes DEF RunnerFresh, Hit, AgeInv
  <2>3. AgeInv'
    BY <1>1, <2>1, <2>2, ListingAges
  <2>4. events' \in Seq(Event) /\ topology' \in 0 .. Cooldown + 1
    <3>1. topology \in 0 .. Cooldown + 1 /\ 0 \in 0 .. Cooldown + 1
      <4>1. topology \in 0 .. Cooldown + 1 /\ Cooldown \in Nat
        BY <1>1, Numbers DEF TypeOK
      <4> QED BY <4>1
    <3> QED BY <1>1, <1>4, <3>1, EventTypes DEF Hotplug
  <2> QED BY <1>1, <1>4, <2>1, <2>3, <2>4, EmptyTypes DEF Hotplug, adapterVars, AgedInv, TypeOK, Event
<1>5. CASE Request
  <2>1. PICK for \in {"refresh", "look"} : List(for)
    BY <1>5 DEF Request
  <2>2. UNCHANGED <<kind, present, runner, idmap, cache, stamp, monitor, events, topology, auto>>
    BY <1>5 DEF Request, adapterVars
  <2>3. /\ AgeInv' /\ lister' \in Listing
        /\ registry' \in {"no adapter", "yes", "no"} /\ missed' \in BOOLEAN
    BY <2>1, <2>2, ListAges
  <2> QED BY <1>1, <2>2, <2>3 DEF AgedInv, TypeOK
<1>6. CASE LoopRuns
  BY <1>1, <1>6, RunsAges DEF LoopRuns, adapterVars, AgedInv, TypeOK
<1>7. CASE MonitorRuns
  BY <1>1, <1>7, RunsAges DEF MonitorRuns, adapterVars, AgedInv, TypeOK
<1>8. CASE LoopCompares
  <2>1. events' \in Seq(Event)
    BY <1>1, <1>8, EventTypes DEF LoopCompares
  <2>2. AgeInv' /\ lister' \in Listing /\ monitor' \in Listing
    BY <1>8, FailsAges
  <2> QED BY <1>1, <1>8, <2>1, <2>2 DEF LoopCompares, adapterVars, AgedInv, TypeOK, Event
<1>9. CASE LoopStores
  <2>1. /\ AgeInv' /\ stamp' \in 0 .. Ttl
        /\ cache' \in Seen /\ idmap' \in BOOLEAN /\ lister' \in Listing /\ monitor' \in Listing
    BY <1>9, StoresAges
  <2>2. registry' \in {"no adapter", "yes", "no"} /\ missed' \in BOOLEAN
    <3>1. Answer(lister.for, lister.seen) /\ lister.seen \in Seen
      BY <1>1, <1>9, ListingFields DEF LoopStores
    <3> QED BY <1>1, <3>1, AnswerTypes
  <2> QED BY <1>1, <1>9, <2>1, <2>2 DEF LoopStores, AgedInv, TypeOK
<1>10. CASE LoopFails
  <2>1. AgeInv' /\ lister' \in Listing /\ monitor' \in Listing
    BY <1>10, FailsAges
  <2>2. registry' \in {"no adapter", "yes", "no"} /\ missed' \in BOOLEAN
    <3>1. Answer(lister.for, cache) \/ UNCHANGED <<registry, missed>>
      BY <1>10 DEF LoopFails
    <3>2. CASE Answer(lister.for, cache)
      BY <1>1, <3>2, AnswerTypes
    <3>3. CASE UNCHANGED <<registry, missed>>
      BY <1>1, <3>3 DEF TypeOK
    <3> QED BY <3>1, <3>2, <3>3
  <2> QED BY <1>1, <1>10, <2>1, <2>2 DEF LoopFails, adapterVars, AgedInv, TypeOK
<1>11. CASE MonitorLists
  BY <1>1, <1>11, FailsAges DEF MonitorLists, adapterVars, AgedInv, TypeOK
<1>12. CASE MonitorStores
  <2>1. missed' \in BOOLEAN
    BY <1>12 DEF MonitorStores
  <2> QED BY <1>1, <1>12, <2>1, StoresAges DEF MonitorStores, AgedInv, TypeOK
<1>13. CASE MonitorStamps
  BY <1>1, <1>13, StoresAges DEF MonitorStamps, AgedInv, TypeOK
<1>14. CASE MonitorFails
  BY <1>1, <1>14, FailsAges DEF MonitorFails, adapterVars, AgedInv, TypeOK
<1>15. CASE HandleTopology
  <2>1. UNCHANGED <<kind, present, runner, idmap, cache, stamp, monitor, topology>> /\ List("topology")
    BY <1>15 DEF HandleTopology, adapterVars
  <2>2. /\ AgeInv' /\ lister' \in Listing
        /\ registry' \in {"no adapter", "yes", "no"} /\ missed' \in BOOLEAN
    BY <2>1, ListAges
  <2>3. events' \in Seq(Event)
    BY <1>1, <1>15, EventTypes DEF HandleTopology
  <2>4. auto' \in [Autos -> [looks : 0 .. MaxPolls, behind : Nat]]
    BY <1>1, <1>15, AutoParts, AutoTypes DEF HandleTopology
  <2> QED BY <1>1, <2>1, <2>2, <2>3, <2>4 DEF AgedInv, TypeOK, Event
<1>16. ASSUME NEW a \in Autos, HandleAvailable(a) PROVE AgedInv'
  <2>1. UNCHANGED <<kind, present, runner, idmap, cache, stamp, lister, monitor, registry, missed,
                   topology>>
    BY <1>16 DEF HandleAvailable, adapterVars
  <2>2. events' \in Seq(Event) /\ Len(events) - 1 \in Nat
    BY <1>1, <1>16, EventTypes DEF HandleAvailable
  <2>3. auto' \in [Autos -> [looks : 0 .. MaxPolls, behind : Nat]]
    <3>1. Looks(1, Len(events) - 1) \in [looks : 0 .. MaxPolls, behind : Nat]
      <4>1. 1 \in 1 .. MaxPolls
        BY Numbers
      <4> QED BY <2>2, <4>1, AutoTypes
    <3>2. \A b \in Autos : Handled(auto[b]) \in [looks : 0 .. MaxPolls, behind : Nat]
      BY <1>1, AutoParts, AutoTypes
    <3> QED BY <1>16, <3>1, <3>2 DEF HandleAvailable
  <2>4. AgeInv'
    BY <1>1, <2>1, SteadyAges
  <2> QED BY <1>1, <2>1, <2>2, <2>3, <2>4 DEF AgedInv, TypeOK, Event
<1>17. ASSUME NEW a \in Autos, LookAgain(a) \/ GiveUp(a) PROVE AgedInv'
  <2>1. UNCHANGED <<kind, present, runner, idmap, cache, stamp, lister, monitor, events, registry,
                   missed, topology>>
    BY <1>17 DEF LookAgain, GiveUp, adapterVars
  <2>2. auto' \in [Autos -> [looks : 0 .. MaxPolls, behind : Nat]]
    <3>1. CASE LookAgain(a)
      <4> DEFINE r == Looks(auto[a].looks + 1, Len(events))
      <4>1. auto[a].looks + 1 \in 1 .. MaxPolls
        BY <3>1, Numbers DEF LookAgain, Patient
      <4>2. r \in [looks : 0 .. MaxPolls, behind : Nat]
        BY <1>1, <4>1, AutoTypes, EventTypes
      <4>3. auto' = [auto EXCEPT ![a] = r]
        BY <3>1 DEF LookAgain
      <4> HIDE DEF r
      <4> QED BY <1>1, <4>2, <4>3, AutoParts
    <3>2. CASE GiveUp(a)
      <4>1. auto' = [auto EXCEPT ![a] = NoAuto]
        BY <3>2 DEF GiveUp
      <4> QED BY <1>1, <4>1, AutoParts, AutoTypes
    <3> QED BY <1>17, <3>1, <3>2
  <2>3. AgeInv'
    BY <1>1, <2>1, SteadyAges
  <2> QED BY <1>1, <2>1, <2>2, <2>3 DEF AgedInv, TypeOK
<1>18. CASE UNCHANGED vars
  <2>1. AgeInv'
    BY <1>1, <1>18, SteadyAges DEF vars
  <2> QED BY <1>1, <1>18, <2>1 DEF vars, AgedInv, TypeOK
<1> QED BY <1>2, <1>3, <1>4, <1>5, <1>6, <1>7, <1>8, <1>9, <1>10, <1>11, <1>12, <1>13, <1>14,
           <1>15, <1>16, <1>17, <1>18 DEF Next

\* The variables keep their types, whatever the caches' lives, and whatever is
\* seen at a place is bounded in age by what is known there.
THEOREM AgesAreKnown == Spec => []AgedInv
BY InitAged, AgedStep, PTL DEF Spec

\* Whatever the listings of the loop and the thread do, each variable stays in its type.
THEOREM DiscoveryTypeCorrect == Spec => []TypeOK
<1>1. AgedInv => TypeOK
  BY DEF AgedInv
<1> QED BY <1>1, AgesAreKnown, PTL

\* What list_sources answers on the loop, from its cache or after a listing that
\* did not fail, was true no longer ago than the two caches and one listing can
\* hold it, if no listing takes longer than MaxRun.
THEOREM ListingsAreFresh == Spec => []Freshness
<1>1. ASSUME AgedInv PROVE Cached => cache.age < Ttl + RunnerTtl + MaxRun
  <2> SUFFICES ASSUME Cached PROVE cache.age < Ttl + RunnerTtl + MaxRun
    OBVIOUS
  <2>1. cache.age <= RunnerTtl + MaxRun + stamp
    BY <1>1 DEF AgedInv, AgeInv, CacheFresh
  <2>2. stamp < Ttl /\ stamp \in Nat /\ cache.age \in Nat
    BY <1>1, TypeParts DEF AgedInv, Cached
  <2> QED BY <2>1, <2>2, Numbers
<1>2. ASSUME AgedInv, lister.pc \in {"ran", "compared"}
      PROVE  lister.seen.age <= RunnerTtl + MaxRun
  <2>1. lister.age <= MaxRun /\ lister.seen.age <= RunnerTtl + lister.age
    BY <1>2 DEF AgedInv, AgeInv, Fresher
  <2>2. lister.age \in Nat /\ lister.seen.age \in Nat
    BY <1>2, TypeParts, ListingFields DEF AgedInv
  <2> QED BY <2>1, <2>2, Numbers
<1>3. AgedInv => Freshness
  BY <1>1, <1>2 DEF Freshness
<1> QED BY <1>3, AgesAreKnown, PTL

-----------------------------------------------------------------------------
(* Announcements of the Linux adapter *)

LEMMA InitAnnounced == ASSUME Init PROVE AnnouncedIsSeen
BY Numbers DEF Init, AnnouncedIsSeen, Empty, NoListing

LEMMA TickAnnounced == ASSUME AgedInv, AnnouncedIsSeen, Tick PROVE AnnouncedIsSeen'
<1>1. /\ lister \in Listing /\ runner \in [valid : BOOLEAN, stamp : Ages, seen : Seen]
      /\ Fresher(lister)
      /\ Going(lister) => lister.age < MaxRun
      /\ topology \in 0 .. Cooldown + 1
  BY TypeParts DEF AgedInv, AgeInv, TypeOK, Tick
<1>2. /\ topology' = Older(topology, Cooldown + 1) /\ kind' = kind
      /\ lister' = Passing(lister)
  BY DEF Tick
<1> SUFFICES ASSUME kind = "linux", topology' <= Cooldown
             PROVE  /\ runner'.valid => runner'.seen.age <= topology'
                    /\ lister'.pc \in {"observed", "ran", "compared"}
                         => lister'.seen.age <= topology'
  BY <1>2 DEF AnnouncedIsSeen
<1>3. topology <= Cooldown /\ topology' = topology + 1 /\ topology \in Nat
  BY <1>1, <1>2, Numbers DEF Older
<1>4. ASSUME runner'.valid PROVE runner'.seen.age <= topology'
  <2>1. runner.valid
    BY <1>4 DEF Tick
  <2>2. runner'.seen = Aged(runner.seen) /\ runner.seen \in Seen
    BY <1>1, <2>1 DEF Tick
  <2>3. Aged(runner.seen).age <= runner.seen.age + 1 /\ Aged(runner.seen) \in Seen
    BY <2>2, AgedIs
  <2>4. runner.seen.age <= topology
    BY <1>3, <2>1 DEF AnnouncedIsSeen
  <2>5. runner'.seen.age \in Nat /\ runner.seen.age \in Nat
    BY <2>2, <2>3, Numbers DEF Seen
  <2> QED BY <1>3, <2>2, <2>3, <2>4, <2>5
<1>5. ASSUME lister'.pc \in {"observed", "ran", "compared"} PROVE lister'.seen.age <= topology'
  <2>1. lister.pc = lister'.pc
    BY <1>1, <1>2, PassingIs
  <2>2. lister'.seen = Aged(lister.seen) /\ lister.seen \in Seen
    <3>1. Going(lister) /\ lister.pc # "asked"
      BY <1>5, <2>1 DEF Going
    <3>2. lister' = [lister EXCEPT !.age = lister.age + 1, !.seen = Aged(lister.seen)]
      BY <1>2, <3>1 DEF Passing
    <3>3. [lister EXCEPT !.age = lister.age + 1, !.seen = Aged(lister.seen)].seen
            = Aged(lister.seen)
      BY <1>1 DEF Listing
    <3> QED BY <1>1, <3>2, <3>3, ListingFields
  <2>3. Aged(lister.seen).age <= lister.seen.age + 1 /\ Aged(lister.seen) \in Seen
    BY <2>2, AgedIs
  <2>4. lister.seen.age <= topology
    BY <1>3, <1>5, <2>1 DEF AnnouncedIsSeen
  <2>5. lister'.seen.age \in Nat /\ lister.seen.age \in Nat
    BY <2>2, <2>3, Numbers DEF Seen
  <2> QED BY <1>3, <2>2, <2>3, <2>4, <2>5
<1> QED BY <1>4, <1>5

LEMMA RunsAnnounced == ASSUME AgedInv, AnnouncedIsSeen, LoopRuns PROVE AnnouncedIsSeen'
<1>1. lister \in Listing /\ topology \in Nat /\ UNCHANGED <<kind, topology>>
  <2>1. lister \in Listing /\ topology \in 0 .. Cooldown + 1
    BY TypeParts DEF AgedInv, TypeOK
  <2> QED BY <2>1, Numbers DEF LoopRuns
<1>2. CASE Asks(lister, lister') /\ Hit
  <2>1. /\ lister' = [lister EXCEPT !.pc = "ran", !.seen = runner.seen]
        /\ runner' = runner /\ runner.valid
    BY <1>2 DEF Asks, Hit
  <2>2. lister'.seen = runner.seen
    BY <1>1, <2>1 DEF Listing
  <2> QED BY <1>1, <2>1, <2>2 DEF AnnouncedIsSeen
<1>3. CASE Asks(lister, lister') /\ ~Hit
  <2>1. /\ lister' = [lister EXCEPT !.pc = "observed", !.seen = [there |-> present, age |-> 0]]
        /\ runner' = runner
    BY <1>3 DEF Asks
  <2>2. lister'.seen.age = 0
    BY <1>1, <2>1 DEF Listing
  <2> QED BY <1>1, <2>1, <2>2 DEF AnnouncedIsSeen
<1>4. CASE Returns(lister, lister')
  <2>1. PICK t \in lister.seen.age .. lister.age : runner' = Entry(lister, t)
    BY <1>4 DEF Returns
  <2>2. lister.pc = "observed" /\ lister' = [lister EXCEPT !.pc = "ran"] /\ runner'.seen = lister.seen
    BY <1>4, <2>1 DEF Returns, Entry
  <2>3. lister'.seen = lister.seen
    BY <1>1, <2>2 DEF Listing
  <2> QED BY <1>1, <2>2, <2>3 DEF AnnouncedIsSeen
<1> QED BY <1>2, <1>3, <1>4 DEF LoopRuns

LEMMA ListAnnounced ==
    ASSUME AnnouncedIsSeen, NEW for \in {"refresh", "look", "topology"}, List(for),
           UNCHANGED <<kind, runner, topology>>
    PROVE  AnnouncedIsSeen'
<1>1. CASE Cached
  BY <1>1 DEF List, AnnouncedIsSeen
<1>2. CASE ~Cached
  <2>1. lister' = [NoListing EXCEPT !.pc = "asked", !.for = for]
    BY <1>2 DEF List
  <2>2. lister'.pc = "asked"
    BY <2>1, NoListingIs
  <2> QED BY <2>2 DEF AnnouncedIsSeen
<1> QED BY <1>1, <1>2

LEMMA AnnouncedStep ==
    ASSUME AgedInv, AnnouncedIsSeen, [Next]_vars PROVE AnnouncedIsSeen'
<1> USE DEF adapterVars
<1>1. lister \in Listing /\ (Going(monitor) => kind = "bluetooth")
  BY TypeParts DEF AgedInv, AgeInv, OneThread
<1>2. CASE Tick
  BY <1>2, TickAnnounced
<1>3. CASE Hotplug
  <2>1. runner' = Empty /\ UNCHANGED <<kind, lister>> /\ lister.pc = "none"
    BY <1>3 DEF Hotplug, Invalidated, Going
  <2> QED BY <2>1, EmptyTypes DEF AnnouncedIsSeen
<1>4. CASE Request
  BY <1>4, ListAnnounced DEF Request
<1>5. CASE LoopRuns
  BY <1>5, RunsAnnounced
<1>6. CASE LoopCompares
  <2>1. lister' = [lister EXCEPT !.pc = "compared"] /\ lister.pc = "ran"
        /\ UNCHANGED <<kind, runner, topology>>
    BY <1>6 DEF LoopCompares
  <2>2. lister'.seen = lister.seen
    BY <1>1, <2>1 DEF Listing
  <2> QED BY <2>1, <2>2 DEF AnnouncedIsSeen
<1>7. CASE LoopStores
  BY <1>7, NoListingIs DEF LoopStores, AnnouncedIsSeen
<1>8. CASE LoopFails
  <2>1. UNCHANGED <<kind, runner, topology>>
        /\ (lister' = NoListing \/ lister' = [lister EXCEPT !.pc = "compared", !.seen = Unseen])
    BY <1>8 DEF LoopFails
  <2>2. lister'.pc = "none" \/ lister'.seen.age = 0
    BY <1>1, <2>1, NoListingIs, EmptyTypes DEF Listing
  <2>3. topology \in Nat
    <3>1. topology \in 0 .. Cooldown + 1
      BY DEF AgedInv, TypeOK
    <3> QED BY <3>1, Numbers
  <2> QED BY <2>1, <2>2, <2>3 DEF AnnouncedIsSeen
<1>9. CASE MonitorLists \/ MonitorRuns \/ MonitorStores \/ MonitorStamps \/ MonitorFails
  <2>1. kind' = "bluetooth"
    BY <1>1, <1>9 DEF MonitorLists, MonitorRuns, MonitorStores, MonitorStamps, MonitorFails, Asks,
                      Returns, Going
  <2> QED BY <2>1 DEF AnnouncedIsSeen
<1>10. CASE HandleTopology
  BY <1>10, ListAnnounced DEF HandleTopology
<1>11. CASE \/ SourceComesOrGoes
            \/ \E a \in Autos : HandleAvailable(a) \/ LookAgain(a) \/ GiveUp(a)
            \/ UNCHANGED vars
  <2>1. UNCHANGED <<kind, runner, topology, lister>>
    BY <1>11 DEF SourceComesOrGoes, HandleAvailable, LookAgain, GiveUp, vars
  <2> QED BY <2>1 DEF AnnouncedIsSeen
<1> QED BY <1>2, <1>3, <1>4, <1>5, <1>6, <1>7, <1>8, <1>9, <1>10, <1>11 DEF Next

\* A listing that asks the runner while an announcement is recent is told what
\* PulseAudio has had since the announcement: the Linux adapter invalidates
\* before it announces, and nothing else runs on the loop during its listing.
THEOREM AnnouncementsAreSeen == Spec => []AnnouncedIsSeen
<1>1. Init => AnnouncedIsSeen
  BY InitAnnounced
<1>2. AgedInv /\ AnnouncedIsSeen /\ [Next]_vars => AnnouncedIsSeen'
  BY AnnouncedStep
<1> QED BY <1>1, <1>2, AgesAreKnown, PTL DEF Spec

-----------------------------------------------------------------------------
(* What the registry has, and what is on its way to it *)

LEMMA InTail ==
    ASSUME NEW s \in Seq(Event), s # <<>>, NEW e
    PROVE  /\ Has(e, Tail(s)) => Has(e, s)
           /\ Has(Head(s), s)
<1>1. /\ Tail(s) \in Seq(Event) /\ Len(s) \in Nat /\ Len(Tail(s)) = Len(s) - 1 /\ Head(s) = s[1]
      /\ 1 \in 1 .. Len(s)
      /\ \A i \in 1 .. Len(Tail(s)) : Tail(s)[i] = s[i + 1]
  OBVIOUS
<1> DEFINE u == Tail(s)
<1> HIDE DEF u
<1>2. ASSUME NEW i \in 1 .. Len(u), u[i] = e PROVE Has(e, s)
  <2>1. i + 1 \in 1 .. Len(s) /\ s[i + 1] = e
    BY <1>1, <1>2 DEF u
  <2> QED BY <2>1 DEF Has
<1> QED BY <1>1, <1>2 DEF Has, u

LEMMA NobodyWithinNothing == ASSUME NEW e, NEW s PROVE ~Within(e, s, 0)
BY DEF Within

\* Once the registry is to read, or has read, the adapter's list.
LEMMA ViewIsRead ==
    ASSUME \/ Reads'
           \/ /\ OneView' /\ cache'.there \in BOOLEAN /\ lister'.pc # "compared"
              /\ registry' = IF cache'.there THEN "yes" ELSE "no"
    PROVE  Agrees' /\ Announced' /\ Patience'
<1>1. CASE Reads'
  BY <1>1 DEF Agrees, Announced, Patience
<1>2. CASE /\ OneView' /\ cache'.there \in BOOLEAN /\ lister'.pc # "compared"
           /\ registry' = IF cache'.there THEN "yes" ELSE "no"
  BY <1>2 DEF Agrees, Announced, Patience, OneView
<1> QED BY <1>1, <1>2

\* A step that moves neither the registry, the adapter's list nor the events.
LEMMA ViewStays ==
    ASSUME ViewInv, UNCHANGED <<kind, registry, missed, idmap, events, auto>>,
           cache'.there = cache.there, Reads' = Reads, Going(lister) => Going(lister'),
           lister'.for = lister.for \/ ~Going(lister),
           lister'.pc = "compared" =>
               lister.pc = "compared" /\ lister'.seen.there = lister.seen.there
    PROVE  ViewInv'
<1>1. First' /\ OneView' /\ Looked' /\ Silent'
  BY DEF ViewInv, First, OneView, Looked, Silent, Waits
<1>2. Agrees'
  BY DEF ViewInv, Agrees, Waits
<1>3. Announced' /\ Patience'
  BY DEF ViewInv, Announced, Patience, Waits
<1> QED BY <1>1, <1>2, <1>3 DEF ViewInv

LEMMA HandledStays ==
    ASSUME TypeOK, Looked, NEW a \in Autos
    PROVE  /\ Handled(auto[a]).looks = auto[a].looks
           /\ Handled(auto[a]).looks = 0 => Handled(auto[a]) = NoAuto /\ auto[a] = NoAuto
<1>1. auto[a] \in [looks : 0 .. MaxPolls, behind : Nat]
  BY AutoParts
<1>2. Handled(auto[a]).looks = auto[a].looks
  BY <1>1, AutoTypes
<1>3. Handled(NoAuto) = NoAuto
  BY DEF Handled, NoAuto
<1> QED BY <1>2, <1>3 DEF Looked

LEMMA InitView == ASSUME Init PROVE ViewInv
<1>1. lister.pc = "asked" /\ lister.for = "register"
  BY NoListingIs DEF Init
<1>2. /\ registry = "no adapter" /\ ~idmap /\ ~cache.there /\ events = <<>> /\ idmap \in BOOLEAN
      /\ \A a \in Autos : auto[a] = NoAuto
  BY EmptyTypes DEF Init
<1>3. idmap = FALSE /\ cache.there = FALSE
  BY EmptyTypes DEF Init
<1>4. ~Waits("available")
  <2>1. ~Has("available", <<>>)
    BY DEF Has
  <2> QED BY <1>2, <2>1 DEF Waits
<1> QED BY <1>1, <1>2, <1>3, <1>4
        DEF ViewInv, First, OneView, Agrees, Announced, Looked, Silent, Patience, Going

\* The registry reads the adapter's cache, or waits for a listing of its own.
LEMMA ListView ==
    ASSUME AgedInv, ViewInv, ~Going(lister), UNCHANGED <<idmap, cache>>,
           NEW for \in {"refresh", "topology"}, List(for)
    PROVE  First' /\ OneView' /\ Agrees' /\ Announced' /\ Patience'
<1>1. OneView' /\ cache'.there \in BOOLEAN /\ registry # "no adapter"
  <2>1. cache.there \in BOOLEAN
    BY TypeParts DEF AgedInv, Seen
  <2> QED BY <2>1 DEF ViewInv, OneView, First
<1>2. CASE Cached
  <2>1. registry' = (IF cache'.there THEN "yes" ELSE "no") /\ lister' = lister
    BY <1>2 DEF List, Answer, Update
  <2> QED BY <1>1, <2>1, ViewIsRead DEF Going, First
<1>3. CASE ~Cached
  <2>1. lister' = [NoListing EXCEPT !.pc = "asked", !.for = for] /\ registry' = registry
    BY <1>3 DEF List
  <2>2. lister'.pc = "asked" /\ lister'.for = for
    BY <2>1, NoListingIs
  <2>3. Reads'
    BY <2>2 DEF Reads, Going
  <2> QED BY <1>1, <2>1, <2>3, ViewIsRead DEF First
<1> QED BY <1>2, <1>3

LEMMA RequestView == ASSUME AgedInv, ViewInv, Request PROVE ViewInv'
<1>1. /\ ~Going(lister) /\ UNCHANGED <<kind, idmap, cache, events, auto>>
      /\ Looked' /\ Silent'
  BY DEF Request, adapterVars, ViewInv, Looked, Silent, Waits
<1>2. PICK for \in {"refresh", "look"} : List(for)
  BY DEF Request
<1>3. CASE for = "refresh"
  BY <1>1, <1>2, <1>3, ListView DEF ViewInv
<1>4. CASE for = "look"
  <2>1. UNCHANGED <<registry, missed>>
    BY <1>2, <1>4 DEF List, Answer
  <2>2. lister' = lister \/ lister' = [NoListing EXCEPT !.pc = "asked", !.for = for]
    BY <1>2 DEF List
  <2>3. (lister'.pc = "none" \/ lister'.for = "look") /\ lister'.pc # "compared"
    BY <1>1, <1>4, <2>2, NoListingIs DEF Going
  <2>4. Reads' = Reads
    BY <1>1, <2>3 DEF Reads, Going
  <2> QED BY <1>1, <2>1, <2>3, <2>4, ViewStays
<1> QED BY <1>2, <1>3, <1>4


\* The loop announces what it is about to store.
LEMMA ComparesView == ASSUME AgedInv, ViewInv, LoopCompares PROVE ViewInv'
<1>1. /\ lister \in Listing /\ events \in Seq(Event) /\ lister.pc = "ran"
      /\ UNCHANGED <<kind, idmap, cache, registry, missed, auto>>
      /\ lister' = [lister EXCEPT !.pc = "compared"]
  BY TypeParts, EventTypes DEF AgedInv, LoopCompares, adapterVars
<1>2. lister'.pc = "compared" /\ lister'.for = lister.for /\ lister'.seen = lister.seen
  BY <1>1 DEF Listing
<1>3. First' /\ OneView' /\ Looked' /\ Reads' = Reads
  BY <1>1, <1>2 DEF ViewInv, First, OneView, Looked, Reads, Going
<1>4. CASE kind = "bluetooth"
  <2> DEFINE c == Changes(lister.seen)
  <2>1. /\ events' = events \o c /\ c \in Seq(Event)
        /\ (lister.seen.there /\ ~idmap) => Has("available", c)
        /\ lister.seen.there # cache.there => Has("topology", c)
    BY <1>1, <1>4, ChangesIs DEF LoopCompares, Emitted
  <2> HIDE DEF c
  <2>2. /\ Waits("topology") => Waits("topology")'
        /\ Waits("available") => Waits("available")'
        /\ lister.seen.there # cache.there => Waits("topology")'
        /\ (lister.seen.there /\ ~idmap) => Waits("available")'
        /\ \A n : Within("topology", events, n) => Within("topology", events', n)
    BY <1>1, <2>1, HasConcat DEF Waits
  <2>3. Agrees'
    BY <1>1, <1>2, <1>3, <2>2 DEF ViewInv, Agrees
  <2>4. Announced'
    BY <1>1, <1>2, <2>2 DEF Announced
  <2>5. Patience'
    BY <1>1, <1>3, <2>2 DEF ViewInv, Patience
  <2>6. Silent'
    BY <1>1, <1>4 DEF Silent
  <2> QED BY <1>3, <2>3, <2>4, <2>5, <2>6 DEF ViewInv
<1>5. CASE kind # "bluetooth"
  <2>1. events' = events
    BY <1>5 DEF LoopCompares
  <2>2. Silent'
    BY <1>1, <2>1 DEF ViewInv, Silent, Waits
  <2> QED BY <1>1, <1>3, <1>5, <2>2 DEF ViewInv, Agrees, Announced, Patience
<1> QED BY <1>4, <1>5

LEMMA StoresView == ASSUME AgedInv, ViewInv, LoopStores PROVE ViewInv'
<1>1. /\ lister \in Listing /\ lister.pc = "compared" /\ lister' = NoListing
      /\ idmap' = lister.seen.there /\ cache' = lister.seen /\ lister.seen.there \in BOOLEAN
      /\ UNCHANGED <<kind, events, auto>> /\ Answer(lister.for, lister.seen)
  BY TypeParts, ListingFields DEF AgedInv, LoopStores
<1>2. OneView' /\ Looked' /\ Silent' /\ lister'.pc = "none"
  BY <1>1, NoListingIs DEF ViewInv, OneView, Looked, Silent, Waits
<1>3. CASE lister.for # "look"
  <2>1. registry' = IF cache'.there THEN "yes" ELSE "no"
    BY <1>1, <1>3 DEF Answer, Update
  <2> QED BY <1>1, <1>2, <2>1, ViewIsRead DEF ViewInv, First
<1>4. CASE lister.for = "look"
  <2>1. UNCHANGED <<registry, missed>> /\ ~Reads /\ registry # "no adapter"
    BY <1>1, <1>4 DEF Answer, Reads, ViewInv, First
  <2>2. Agrees'
    BY <1>1, <1>2, <2>1 DEF ViewInv, Agrees, Waits
  <2>3. Announced' /\ First'
    BY <1>2, <2>1 DEF Announced, First
  <2>4. Patience'
    BY <1>1, <2>1 DEF ViewInv, Patience, Announced, Waits
  <2> QED BY <1>2, <2>2, <2>3, <2>4 DEF ViewInv
<1> QED BY <1>3, <1>4

LEMMA FailsView == ASSUME AgedInv, ViewInv, LoopFails PROVE ViewInv'
<1>1. /\ lister \in Listing /\ UNCHANGED <<kind, idmap, cache, events, auto>>
      /\ cache.there \in BOOLEAN /\ Going(lister)
      /\ OneView' /\ Looked' /\ Silent'
  <2>1. cache.there \in BOOLEAN /\ lister \in Listing
    BY TypeParts DEF AgedInv, Seen
  <2> QED BY <2>1 DEF LoopFails, adapterVars, ViewInv, OneView, Looked, Silent, Waits, Going
<1>2. CASE kind = "bluetooth"
  <2>1. Answer(lister.for, cache) /\ lister' = NoListing /\ lister'.pc = "none"
    BY <1>2, NoListingIs DEF LoopFails
  <2>2. CASE lister.for # "look"
    <3>1. registry' = IF cache'.there THEN "yes" ELSE "no"
      BY <1>1, <2>1, <2>2 DEF Answer, Update
    <3> QED BY <1>1, <2>1, <3>1, ViewIsRead DEF ViewInv, First
  <2>3. CASE lister.for = "look"
    <3>1. UNCHANGED <<registry, missed>> /\ ~Reads /\ ~Reads' /\ registry # "no adapter"
      BY <1>1, <2>1, <2>3 DEF Answer, Reads, ViewInv, First, Going
    <3>2. Agrees' /\ First'
      BY <1>1, <2>1, <3>1 DEF ViewInv, Agrees, Waits, First
    <3>3. Announced' /\ Patience'
      BY <1>1, <2>1, <3>1 DEF ViewInv, Patience, Announced, Waits
    <3> QED BY <1>1, <3>2, <3>3 DEF ViewInv
  <2> QED BY <2>2, <2>3
<1>3. CASE kind # "bluetooth"
  <2>1. lister' = [lister EXCEPT !.pc = "compared", !.seen = Unseen] /\ registry' = registry
    BY <1>3 DEF LoopFails
  <2>2. lister'.pc = "compared" /\ lister'.for = lister.for
    BY <1>1, <2>1 DEF Listing
  <2> QED BY <1>1, <1>3, <2>1, <2>2 DEF ViewInv, First, Going, Agrees, Announced, Patience
<1> QED BY <1>2, <1>3

\* What the thread changes in silence, it marks as missed.
LEMMA MonitorStoresView == ASSUME AgedInv, ViewInv, MonitorStores PROVE ViewInv'
<1>1. /\ UNCHANGED <<kind, lister, events, registry, auto>>
      /\ idmap' = monitor.seen.there /\ cache' = monitor.seen
      /\ missed' = (missed \/ Unheard(monitor.seen))
  BY DEF MonitorStores
<1>2. First' /\ OneView' /\ Looked' /\ Silent'
  BY <1>1 DEF ViewInv, First, OneView, Looked, Silent, Waits
<1>3. CASE missed \/ Unheard(monitor.seen)
  BY <1>1, <1>2, <1>3 DEF ViewInv, Agrees, Announced, Patience
<1>4. CASE ~missed /\ ~Unheard(monitor.seen)
  <2>1. missed' = missed /\ cache'.there = cache.there /\ idmap' = idmap
    <3>1. missed \in BOOLEAN /\ ~missed'
      BY <1>1, <1>4 DEF AgedInv, TypeOK
    <3>2. missed' \in BOOLEAN
      BY <1>1
    <3> QED BY <1>1, <1>4, <3>1, <3>2 DEF Unheard
  <2> QED BY <1>1, <2>1, ViewStays DEF Reads
<1> QED BY <1>3, <1>4

LEMMA HotplugView == ASSUME AgedInv, ViewInv, Hotplug PROVE ViewInv'
<1>1. /\ UNCHANGED <<kind, idmap, cache, lister, registry, missed, auto>>
      /\ events \in Seq(Event)
  BY EventTypes DEF Hotplug, adapterVars, AgedInv
<1>2. CASE events' = events
  BY <1>1, <1>2, ViewStays DEF Reads
<1>3. CASE events' # events
  <2>1. kind = "linux" /\ events' = events \o <<"topology">>
    BY <1>3 DEF Hotplug, Emitted
  <2>2. <<"topology">> \in Seq(Event) /\ ~Has("available", <<"topology">>)
    BY DEF Event, Has
  <2>3. Waits("available")' => Waits("available")
    BY <1>1, <2>1, <2>2, HasConcat DEF Waits
  <2>4. Silent'
    BY <1>1, <2>3 DEF ViewInv, Silent
  <2> QED BY <1>1, <2>1, <2>4
          DEF ViewInv, First, OneView, Looked, Agrees, Announced, Patience
<1> QED BY <1>2, <1>3

LEMMA HandleTopologyView == ASSUME AgedInv, ViewInv, HandleTopology PROVE ViewInv'
<1>1. /\ ~Going(lister) /\ UNCHANGED <<kind, idmap, cache>> /\ List("topology")
      /\ events \in Seq(Event) /\ events # <<>> /\ events' = Tail(events) /\ TypeOK
      /\ auto' = [a \in Autos |-> Handled(auto[a])]
  BY EventTypes DEF HandleTopology, adapterVars, AgedInv
<1>2. First' /\ OneView' /\ Agrees' /\ Announced' /\ Patience'
  BY <1>1, ListView
<1>3. Looked'
  BY <1>1, HandledStays DEF ViewInv, Looked
<1>4. Silent'
  <2> SUFFICES ASSUME kind # "bluetooth"
               PROVE  ~Waits("available")' /\ \A a \in Autos : auto'[a] = NoAuto
    BY <1>1 DEF Silent
  <2>1. ~Waits("available") /\ \A a \in Autos : auto[a] = NoAuto
    BY DEF ViewInv, Silent
  <2>2. ~Waits("available")'
    BY <1>1, <2>1, InTail DEF Waits
  <2>3. Handled(NoAuto) = NoAuto
    BY DEF Handled, NoAuto
  <2> QED BY <1>1, <2>1, <2>2, <2>3
<1> QED BY <1>2, <1>3, <1>4 DEF ViewInv

\* Auto play's first look: the topology event that follows its own is ahead of the second.
LEMMA HandleAvailableView ==
    ASSUME AgedInv, ViewInv, NEW a \in Autos, HandleAvailable(a) PROVE ViewInv'
<1>1. /\ ~Going(lister) /\ UNCHANGED <<kind, idmap, cache, lister, registry, missed>>
      /\ events \in Seq(Event) /\ events # <<>> /\ Head(events) = "available"
      /\ events' = Tail(events) /\ TypeOK /\ Len(events) - 1 \in Nat
      /\ auto' = [b \in Autos |-> IF b = a THEN Looks(1, Len(events) - 1) ELSE Handled(auto[b])]
  BY EventTypes DEF HandleAvailable, adapterVars, AgedInv
<1>2. Waits("available") /\ kind = "bluetooth"
  BY <1>1, InTail DEF ViewInv, Silent, Waits
<1>3. /\ Waits("topology") => Waits("topology")' /\ Within("topology", events', Len(events) - 1)
      /\ \A n \in Nat : Within("topology", events, n) =>
                            n > 0 /\ Within("topology", events', n - 1)
  BY <1>1, HasTail DEF Waits
<1>4. First' /\ OneView' /\ Silent' /\ Announced'
  BY <1>1, <1>2 DEF ViewInv, First, OneView, Silent, Announced, Going
<1>5. Agrees'
  BY <1>1, <1>3 DEF ViewInv, Agrees, Reads
<1>6. /\ Looks(1, Len(events) - 1).looks = 0 => Looks(1, Len(events) - 1) = NoAuto
      /\ registry # "yes" => /\ Looks(1, Len(events) - 1) # NoAuto
                             /\ Looks(1, Len(events) - 1).behind = Len(events) - 1
  <2>1. 1 \in 1 .. MaxPolls /\ NoAuto.looks = 0
    BY Numbers, AutoTypes
  <2>2. /\ Looks(1, Len(events) - 1).looks = 0 => Looks(1, Len(events) - 1) = NoAuto
        /\ registry # "yes" => /\ Looks(1, Len(events) - 1).looks = 1
                               /\ Looks(1, Len(events) - 1).behind = Len(events) - 1
    BY <1>1, <2>1, AutoTypes
  <2> QED BY <2>1, <2>2
<1>7. Looked'
  BY <1>1, <1>6, HandledStays DEF ViewInv, Looked
<1>8. Patience'
  <2> SUFFICES ASSUME registry = "no", ~missed, idmap
               PROVE  \E b \in Autos : auto'[b] # NoAuto /\ Within("topology", events', auto'[b].behind)
    BY <1>1 DEF Patience
  <2>1. Waits("topology")
    BY <1>1, <1>2 DEF ViewInv, Agrees, Reads, OneView
  <2> QED BY <1>1, <1>3, <1>6, <2>1
<1> QED BY <1>4, <1>5, <1>7, <1>8 DEF ViewInv

\* An auto play that is not behind any event is not the one that a source relies on.
LEMMA LooksView ==
    ASSUME AgedInv, ViewInv, NEW a \in Autos, LookAgain(a) \/ GiveUp(a) PROVE ViewInv'
<1>1. /\ ~Going(lister) /\ UNCHANGED <<kind, idmap, cache, lister, registry, missed, events>>
      /\ TypeOK /\ auto[a].behind = 0 /\ auto[a].looks # 0 /\ auto[a].looks \in 1 .. MaxPolls
  BY Numbers DEF LookAgain, GiveUp, Patient, adapterVars, AgedInv
<1>2. /\ auto \in [Autos -> [looks : 0 .. MaxPolls, behind : Nat]]
      /\ \E r : auto' = [auto EXCEPT ![a] = r] /\ (r.looks = 0 => r = NoAuto)
  <2>1. CASE LookAgain(a)
    <3> DEFINE r == Looks(auto[a].looks + 1, Len(events))
    <3>1. auto' = [auto EXCEPT ![a] = r]
      BY <2>1 DEF LookAgain
    <3>2. auto[a].looks + 1 \in 1 .. MaxPolls
      BY <2>1, Numbers DEF LookAgain, Patient
    <3>3. r.looks = 0 => r = NoAuto
      BY <1>1, <3>2, AutoTypes, EventTypes
    <3> QED BY <1>1, <3>1, <3>3, AutoParts
  <2>2. CASE GiveUp(a)
    BY <1>1, <2>2, AutoParts, AutoTypes DEF GiveUp
  <2> QED BY <2>1, <2>2
<1>3. /\ (auto'[a].looks = 0 => auto'[a] = NoAuto)
      /\ \A b \in Autos \ {a} : auto'[b] = auto[b]
  BY <1>2
<1>4. auto[a] # NoAuto /\ kind = "bluetooth"
  BY <1>1, AutoTypes DEF ViewInv, Silent
<1>5. First' /\ OneView' /\ Agrees' /\ Announced' /\ Silent' /\ Looked'
  BY <1>1, <1>3, <1>4
     DEF ViewInv, First, OneView, Agrees, Announced, Silent, Looked, Reads, Waits
<1>6. Patience'
  <2>1. ~Within("topology", events, auto[a].behind)
    BY <1>1, NobodyWithinNothing
  <2> QED BY <1>1, <1>3, <2>1 DEF ViewInv, Patience, Reads, Waits
<1> QED BY <1>5, <1>6 DEF ViewInv

LEMMA ViewStep == ASSUME AgedInv, ViewInv, [Next]_vars PROVE ViewInv'
<1>1. lister \in Listing /\ Fresher(lister)
  BY TypeParts DEF AgedInv, AgeInv
<1>2. CASE Tick
  <2>1. /\ UNCHANGED <<kind, registry, missed, idmap, events, auto>> /\ cache' = Aged(cache)
        /\ lister' = Passing(lister) /\ (Going(lister) => lister.age < MaxRun)
    BY <1>2 DEF Tick
  <2>2. cache'.there = cache.there
    BY <2>1, TypeParts, AgedIs DEF AgedInv
  <2>3. lister'.pc = lister.pc /\ lister'.for = lister.for /\ lister'.seen.there = lister.seen.there
    BY <1>1, <2>1, PassingIs
  <2> QED BY <2>1, <2>2, <2>3, ViewStays DEF Reads, Going
<1>3. CASE \/ SourceComesOrGoes \/ MonitorLists \/ MonitorRuns \/ MonitorStamps \/ MonitorFails
           \/ UNCHANGED vars
  <2>1. UNCHANGED <<kind, registry, missed, idmap, events, auto, cache, lister>>
    BY <1>3 DEF SourceComesOrGoes, MonitorLists, MonitorRuns, MonitorStamps, MonitorFails,
                adapterVars, vars
  <2> QED BY <2>1, ViewStays DEF Reads
<1>4. CASE LoopRuns
  <2>1. /\ UNCHANGED <<kind, registry, missed, idmap, events, auto, cache>>
    BY <1>4 DEF LoopRuns, adapterVars
  <2>2. /\ lister'.for = lister.for /\ lister'.pc \in {"observed", "ran"}
        /\ lister.pc \in {"asked", "observed"}
    BY <1>4, RunsAges
  <2> QED BY <2>1, <2>2, ViewStays DEF Reads, Going
<1> QED BY <1>2, <1>3, <1>4, HotplugView, RequestView, ComparesView, StoresView, FailsView,
           MonitorStoresView, HandleTopologyView, HandleAvailableView, LooksView DEF Next

\* A source the adapter has is in the registry, or an event or a listing that
\* will bring it there is on its way, and an auto play that looks for it is not
\* to look before: all this in every reachable state.
THEOREM NothingIsLostOnTheWay == Spec => [](AgedInv /\ ViewInv)
<1>1. Init => AgedInv /\ ViewInv
  BY InitAged, InitView
<1>2. AgedInv /\ ViewInv /\ [Next]_vars => (AgedInv /\ ViewInv)'
  BY AgedStep, ViewStep
<1> QED BY <1>1, <1>2, PTL DEF Spec

\* Once the loop is free, the registry agrees with the Bluetooth adapter about
\* the source, or the topology event that makes it agree waits, unless the
\* monitor's thread was the last to change the list.
THEOREM RegistryIsFollowed == Spec => []RegistryFollows
<1>1. AgedInv /\ ViewInv => RegistryFollows
  BY DEF ViewInv, Agrees, Reads, RegistryFollows, Waits, Has
<1> QED BY <1>1, NothingIsLostOnTheWay, PTL

\* An auto play that ends without a session has looked long enough: the source
\* is gone, is announced anew, is another auto play's, or came by the thread.
THEOREM AutoPlayIsPatient == Spec => GivesUpOnlyOnLost
<1> DEFINE Given(a) == auto[a] # NoAuto /\ auto'[a] = NoAuto /\ registry # "yes" =>
               \/ ~idmap \/ missed
               \/ \E i \in 1 .. Len(events) : events[i] = "available"
               \/ \E b \in Autos \ {a} : auto[b] # NoAuto
<1>1. ASSUME AgedInv, ViewInv, [Next]_vars, NEW a \in Autos,
             auto[a] # NoAuto, auto'[a] = NoAuto, registry # "yes"
      PROVE  \/ ~idmap \/ missed
             \/ \E i \in 1 .. Len(events) : events[i] = "available"
             \/ \E b \in Autos \ {a} : auto[b] # NoAuto
  <2>1. TypeOK /\ Looked /\ auto \in [Autos -> [looks : 0 .. MaxPolls, behind : Nat]]
    BY <1>1, AutoParts DEF AgedInv, ViewInv
  <2>2. auto'[a] # Handled(auto[a])
    BY <1>1, <2>1, HandledStays, AutoTypes
  <2>3. GiveUp(a)
    <3>1. auto' # auto
      BY <1>1
    <3>2. ~HandleTopology
      BY <2>2 DEF HandleTopology
    <3>3. ASSUME NEW c \in Autos PROVE ~HandleAvailable(c)
      BY <1>1, <2>2 DEF HandleAvailable
    <3>4. ASSUME NEW c \in Autos PROVE ~LookAgain(c)
      <4> SUFFICES ASSUME LookAgain(c) PROVE FALSE
        OBVIOUS
      <4> DEFINE r == Looks(auto[c].looks + 1, Len(events))
      <4>1. auto' = [auto EXCEPT ![c] = r]
        BY DEF LookAgain
      <4>2. auto[c].looks + 1 \in 1 .. MaxPolls
        BY Numbers DEF LookAgain, Patient
      <4>3. r.looks = auto[c].looks + 1
        BY <1>1, <2>1, <4>2, AutoTypes, EventTypes
      <4> HIDE DEF r
      <4>4. r # NoAuto
        BY <4>2, <4>3, AutoTypes
      <4> QED BY <1>1, <2>1, <4>1, <4>4
    <3>5. ASSUME NEW c \in Autos, GiveUp(c) PROVE c = a
      BY <1>1, <2>1, <3>5 DEF GiveUp
    <3>6. ~ \/ Tick \/ SourceComesOrGoes \/ Hotplug \/ Request \/ LoopRuns \/ LoopCompares
            \/ LoopStores \/ LoopFails \/ MonitorLists \/ MonitorRuns \/ MonitorStores
            \/ MonitorStamps \/ MonitorFails \/ UNCHANGED vars
      BY <3>1 DEF Tick, SourceComesOrGoes, Hotplug, Request, LoopRuns, LoopCompares, LoopStores,
                  LoopFails, MonitorLists, MonitorRuns, MonitorStores, MonitorStamps,
                  MonitorFails, vars
    <3> QED BY <1>1, <3>2, <3>3, <3>4, <3>5, <3>6 DEF Next
  <2>4. ~Going(lister) /\ auto[a].behind = 0
    BY <2>3 DEF GiveUp
  <2>5. registry = "no" /\ kind = "bluetooth"
    BY <1>1, <2>1, <2>4 DEF TypeOK, ViewInv, First, Silent
  <2>6. ~Within("topology", events, auto[a].behind) /\ ~Reads
    BY <2>4, NobodyWithinNothing DEF Reads
  <2> QED BY <1>1, <2>5, <2>6 DEF ViewInv, Patience, Waits, Has
<1>2. AgedInv /\ ViewInv /\ [Next]_vars => [\A a \in Autos : Given(a)]_vars
  BY <1>1
<1> QED BY <1>2, NothingIsLostOnTheWay, PTL DEF Spec, GivesUpOnlyOnLost
=============================================================================
