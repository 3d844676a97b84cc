------------------------- MODULE StreamFanoutProofs -------------------------
(***************************************************************************)
(* The fan-out of a stream, for any subscribers, any number of chunks, any *)
(* queue sizes and both delivery profiles, while subscribers come, lag,    *)
(* leave, are evicted and are closed by stop().                            *)
(*                                                                         *)
(* The argument: what a subscriber was given lies in its response, in the  *)
(* hand of its queue_get task and in its queue, in this order, and is the  *)
(* header followed by consecutive chunks (Chained); as long as the fan-out *)
(* knows the subscriber, the last of them is the last chunk emitted.       *)
(***************************************************************************)
EXTENDS StreamFanout, SequenceTheorems, TLAPS

Hand(s) == IF held[s] = None THEN 0 ELSE 1

\* The i-th chunk of a listener that missed b chunks after the header.
At(b, i) == IF i = 1 THEN 1 ELSE b + i

\* A generator that has not begun.
Fresh(s) ==
    /\ queue[s] = <<>> /\ yielded[s] = <<>> /\ held[s] = None
    /\ queued[s] = 0 /\ given[s] = 0 /\ overflow[s] = "no"
    /\ ~closed[s] /\ fate[s] = "none" /\ s \notin clients

Phase(s) ==
    /\ gen[s] \in {"none", "requested"} => Fresh(s)
    /\ gen[s] \in {"yielding", "ended"} => held[s] = None
    /\ s \in clients => /\ gen[s] \in {"waiting", "yielding"}
                        /\ ~closed[s] /\ fate[s] \in {"none", "late"}
                        /\ st # "active" => fate[s] = "late"

Counted(s) == given[s] <= emitted /\ queued[s] <= given[s]

ChainedFrom(s, b) ==
    /\ \A i \in DOMAIN yielded[s] : yielded[s][i] = At(b, i)
    /\ held[s] # None => held[s] = At(b, Len(yielded[s]) + 1)
    /\ \A i \in DOMAIN queue[s] : queue[s][i] = At(b, Len(yielded[s]) + Hand(s) + i)
    /\ given[s] # 0 => b + given[s] <= emitted
    /\ s \in clients => IF given[s] = 0 THEN emitted = 0 ELSE b + given[s] = emitted

Chained(s) == gen[s] # "ended" => \E b \in 0 .. emitted : ChainedFrom(s, b)

\* Nothing is lost on the way but by an eviction, and by the end of the generator.
Kept(s) ==
    /\ gen[s] # "ended" => Len(yielded[s]) + Hand(s) + Len(queue[s]) <= given[s]
    /\ gen[s] # "ended" /\ fate[s] \in {"none", "late"} =>
          Len(yielded[s]) + Hand(s) + Len(queue[s]) = given[s]
    /\ gen[s] = "ended" /\ fate[s] = "none" => Len(yielded[s]) + 1 >= given[s]

Backlog(s) == s \in clients =>
    /\ queued[s] = Len(queue[s]) + Hand(s)
    /\ queued[s] > QueueChunks => overflow[s] # "no"
    /\ Stable /\ s \in Primary => queued[s] < Hard(s)

SubInv(s) == Phase(s) /\ Counted(s) /\ Chained(s) /\ Kept(s) /\ Backlog(s)

IInv == TypeOK /\ \A s \in Subs : SubInv(s)

-----------------------------------------------------------------------------
(* Sequences, sizes and types *)

LEMMA AppendFacts ==
    ASSUME NEW S, NEW q \in Seq(S), NEW e \in S
    PROVE  /\ Append(q, e) \in Seq(S)
           /\ Len(Append(q, e)) = Len(q) + 1 /\ Len(q) \in Nat
           /\ \A i \in 1 .. Len(q) : Append(q, e)[i] = q[i]
           /\ Append(q, e)[Len(q) + 1] = e
           /\ DOMAIN q = 1 .. Len(q) /\ DOMAIN Append(q, e) = 1 .. Len(q) + 1
OBVIOUS

LEMMA TailFacts ==
    ASSUME NEW S, NEW q \in Seq(S), q # <<>>
    PROVE  /\ Tail(q) \in Seq(S)
           /\ Len(Tail(q)) = Len(q) - 1 /\ Len(q) \in Nat \ {0}
           /\ \A i \in 1 .. Len(q) - 1 : Tail(q)[i] = q[i + 1]
           /\ Head(q) = q[1] /\ Head(q) \in S
           /\ DOMAIN q = 1 .. Len(q) /\ DOMAIN Tail(q) = 1 .. Len(q) - 1
BY HeadTailProperties, EmptySeq

\* The hard limit lies above the limit at which a queue overflows.
LEMMA HardAbove == \A s \in Subs : Hard(s) \in Nat /\ Hard(s) > QueueChunks
<1>1. QueueChunks \in Nat /\ QueueChunks >= 1 /\ HardFactor \in Nat /\ HardFactor >= 2
  BY FanoutBounds
<1> DEFINE k == HardFactor - 2
<1>2. k \in Nat /\ HardFactor = k + 2
  BY <1>1
<1>3. QueueChunks * k \in Nat
  BY <1>1, <1>2
<1>4. QueueChunks * HardFactor = QueueChunks * k + 2 * QueueChunks
  BY <1>1, <1>2
<1> HIDE DEF k
<1> QED BY <1>1, <1>3, <1>4 DEF Hard

LEMMA SubTypes ==
    ASSUME TypeOK, NEW s \in Subs
    PROVE  /\ emitted \in Nat /\ emitted <= MaxChunks /\ MaxChunks \in Nat
           /\ queue[s] \in Seq(Nat) /\ yielded[s] \in Seq(Nat)
           /\ queue[s] \in Seq(Chunks) /\ yielded[s] \in Seq(Chunks)
           /\ Len(queue[s]) \in Nat /\ Len(yielded[s]) \in Nat
           /\ DOMAIN queue[s] = 1 .. Len(queue[s]) /\ DOMAIN yielded[s] = 1 .. Len(yielded[s])
           /\ held[s] \in Nat /\ queued[s] \in Nat /\ given[s] \in Nat /\ Hand(s) \in {0, 1}
<1>1. queue[s] \in Seq(Chunks) /\ yielded[s] \in Seq(Chunks)
  BY DEF TypeOK
<1>2. Chunks \subseteq Nat /\ MaxChunks \in Nat
  BY FanoutBounds DEF Chunks
<1>3. queue[s] \in Seq(Nat) /\ yielded[s] \in Seq(Nat)
  BY <1>1, <1>2, SeqMonotonic
<1>4. held[s] \in Nat /\ queued[s] \in Nat /\ given[s] \in Nat /\ emitted \in 0 .. MaxChunks
  <2>1. /\ held[s] \in Chunks \cup {None} /\ emitted \in 0 .. MaxChunks
        /\ queued[s] \in 0 .. MaxChunks + 1 /\ given[s] \in 0 .. MaxChunks + 1
    BY DEF TypeOK
  <2>2. queued[s] \in Nat /\ given[s] \in Nat
    BY <1>2, <2>1
  <2>3. held[s] \in Nat
    <3>1. held[s] \in Nat \/ held[s] = 0
      BY <1>2, <2>1, Zenon DEF None
    <3> QED BY <3>1
  <2> QED BY <2>1, <2>2, <2>3
<1>5. \A q \in Seq(Nat) : Len(q) \in Nat /\ DOMAIN q = 1 .. Len(q)
  OBVIOUS
<1>6. Hand(s) \in {0, 1} /\ emitted \in Nat /\ emitted <= MaxChunks
  BY <1>2, <1>4 DEF Hand
<1> QED BY <1>1, <1>2, <1>3, <1>4, <1>5, <1>6

\* A step of others leaves a subscriber as it is.
LEMMA Elsewhere ==
    ASSUME NEW s \in Subs, SubInv(s), UNCHANGED emitted,
           st' = st \/ s \notin clients,
           s \in clients' <=> s \in clients,
           gen'[s] = gen[s], queue'[s] = queue[s], held'[s] = held[s], closed'[s] = closed[s],
           queued'[s] = queued[s], overflow'[s] = overflow[s], given'[s] = given[s],
           yielded'[s] = yielded[s], fate'[s] = fate[s]
    PROVE  SubInv(s)'
BY DEF SubInv, Phase, Fresh, Counted, Chained, ChainedFrom, Kept, Backlog, Hand, Hard

-----------------------------------------------------------------------------
(* Steps of a subscriber: only it changes *)

LEMMA AttachKeeps == ASSUME IInv, NEW s \in Subs, Attach(s) PROVE IInv'
<1>1. /\ gen[s] = "requested" /\ Fresh(s) /\ SubInv(s)
      /\ emitted \in Nat /\ emitted <= MaxChunks
  BY SubTypes DEF IInv, SubInv, Phase, Attach
<1> DEFINE h == Header
<1>2. /\ h \in Seq(Chunks) /\ Len(h) \in {0, 1}
      /\ IF emitted = 0 THEN h = <<>> /\ Len(h) = 0 ELSE h = <<1>> /\ Len(h) = 1 /\ h[1] = 1
      /\ DOMAIN h = 1 .. Len(h)
  <2>1. CASE emitted = 0
    BY <2>1 DEF Header
  <2>2. CASE emitted # 0
    <3>1. h = <<1>> /\ 1 \in Chunks
      BY <1>1, <2>2, FanoutBounds DEF Header, Chunks
    <3>2. \A c \in Chunks : <<c>> \in Seq(Chunks) /\ Len(<<c>>) = 1 /\ DOMAIN <<c>> = 1 .. 1
      OBVIOUS
    <3> HIDE DEF h
    <3> QED BY <2>2, <3>1, <3>2
  <2> QED BY <2>1, <2>2
<1> HIDE DEF h
<1>3. /\ clients' = clients \cup {s}
      /\ queue' = [queue EXCEPT ![s] = h]
      /\ given' = [given EXCEPT ![s] = Len(h)]
      /\ queued' = [queued EXCEPT ![s] = Len(h)]
      /\ wake' = [wake EXCEPT ![s] = emitted # 0]
      /\ gen' = [gen EXCEPT ![s] = "waiting"]
      /\ fate' = [fate EXCEPT ![s] = IF st = "active" THEN fate[s] ELSE "late"]
      /\ UNCHANGED <<st, published, emitted, held, closed, overflow, yielded>>
  BY DEF Attach, h
<1>4. TypeOK'
  <2>1. Len(h) \in 0 .. MaxChunks + 1
    BY <1>2, FanoutBounds
  <2>5. clients' \subseteq Subs
    BY <1>3 DEF IInv, TypeOK
  <2>2. queue' \in [Subs -> Seq(Chunks)] /\ wake' \in [Subs -> BOOLEAN]
    BY <1>2, <1>3 DEF IInv, TypeOK
  <2>4. given' \in [Subs -> 0 .. MaxChunks + 1] /\ queued' \in [Subs -> 0 .. MaxChunks + 1]
    BY <1>3, <2>1 DEF IInv, TypeOK
  <2>3. fate' \in [Subs -> {"none", "evicted", "left", "late"}]
    BY <1>3 DEF IInv, TypeOK
  <2> QED BY <1>3, <2>2, <2>3, <2>4, <2>5 DEF IInv, TypeOK
<1>5. ASSUME NEW t \in Subs \ {s} PROVE SubInv(t)'
  BY <1>3, Elsewhere DEF IInv, TypeOK
<1>6. SubInv(s)'
  <2>1. /\ queue'[s] = h /\ given'[s] = Len(h) /\ queued'[s] = Len(h) /\ gen'[s] = "waiting"
        /\ yielded'[s] = <<>> /\ held'[s] = None /\ overflow'[s] = "no" /\ ~closed'[s]
        /\ fate'[s] = (IF st = "active" THEN "none" ELSE "late") /\ UNCHANGED <<st, emitted>>
        /\ Hand(s)' = 0
    BY <1>1, <1>3 DEF IInv, TypeOK, Fresh, Hand
  <2>2. Phase(s)' /\ Counted(s)' /\ Kept(s)'
    BY <1>1, <1>2, <2>1 DEF Phase, Counted, Kept
  <2>3. Chained(s)'
    <3>1. PICK b \in 0 .. emitted : b = IF emitted = 0 THEN 0 ELSE emitted - 1
      BY <1>1
    <3>2. s \in clients' /\ UNCHANGED emitted
      BY <1>3
    <3>3. ChainedFrom(s, b)'
      <4>1. given'[s] # 0 => b + given'[s] = emitted'
        <5>1. CASE emitted = 0
          BY <1>2, <2>1, <5>1
        <5>2. CASE emitted # 0
          <6>1. given'[s] = 1 /\ b = emitted - 1 /\ emitted' = emitted
            BY <1>2, <2>1, <3>1, <5>2
          <6> QED BY <1>1, <6>1
        <5> QED BY <5>1, <5>2
      <4>2. given'[s] = 0 => emitted' = 0
        BY <1>2, <2>1
      <4>3. \A i \in DOMAIN h : h[i] = At(b, 0 + 0 + i)
        BY <1>2 DEF At
      <4>4. Len(<<>>) = 0 /\ DOMAIN <<>> = {}
        OBVIOUS
      <4> QED BY <1>1, <2>1, <3>2, <4>1, <4>2, <4>3, <4>4 DEF ChainedFrom
    <3> QED BY <3>2, <3>3 DEF Chained
  <2>4. Backlog(s)'
    <3>1. Len(h) <= QueueChunks /\ Len(h) < Hard(s)
      BY <1>2, HardAbove, FanoutBounds
    <3> QED BY <1>2, <2>1, <3>1, FanoutBounds DEF Backlog, Hard
  <2> QED BY <2>2, <2>3, <2>4 DEF SubInv
<1> QED BY <1>4, <1>5, <1>6 DEF IInv

LEMMA TakesKeeps == ASSUME IInv, NEW s \in Subs, Takes(s) PROVE IInv'
<1>1. /\ gen[s] = "waiting" /\ held[s] = None /\ queue[s] # <<>>
      /\ held' = [held EXCEPT ![s] = Head(queue[s])]
      /\ queue' = [queue EXCEPT ![s] = Tail(queue[s])]
      /\ UNCHANGED <<st, published, emitted, clients, gen, wake, closed, queued, overflow, given,
                     yielded, fate>>
  BY DEF Takes
<1> DEFINE q == queue[s]
           n == Len(queue[s])
           m == Len(yielded[s])
<1>2. /\ Tail(q) \in Seq(Chunks) /\ Head(q) \in Chunks /\ Head(q) = q[1]
      /\ Len(Tail(q)) = n - 1 /\ n \in Nat \ {0}
      /\ DOMAIN q = 1 .. n /\ DOMAIN Tail(q) = 1 .. n - 1
      /\ \A i \in 1 .. n - 1 : Tail(q)[i] = q[i + 1]
  BY <1>1, TailFacts DEF IInv, TypeOK
<1>3. m \in Nat /\ DOMAIN yielded[s] = 1 .. m /\ Chunks \subseteq Nat \ {None}
  BY SubTypes DEF IInv, Chunks, None
<1>4. TypeOK'
  BY <1>1, <1>2 DEF IInv, TypeOK
<1>5. ASSUME NEW t \in Subs \ {s} PROVE SubInv(t)'
  BY <1>1, Elsewhere DEF IInv, TypeOK
<1>6. /\ queue'[s] = Tail(q) /\ held'[s] = q[1] /\ held'[s] # None
      /\ Hand(s)' = 1 /\ Hand(s) = 0
  BY <1>1, <1>2, <1>3 DEF IInv, TypeOK, Hand
<1>7. SubInv(s)
  BY DEF IInv
<1>8. Phase(s)' /\ Counted(s)'
  BY <1>1, <1>7 DEF SubInv, Phase, Counted
<1>9. Kept(s)' /\ Backlog(s)'
  <2>1. Len(queue'[s]) = n - 1 /\ n - 1 \in Nat
    BY <1>2, <1>6
  <2>2. m + Hand(s)' + Len(queue'[s]) = m + Hand(s) + n
    <3>1. m \in Nat /\ n - 1 \in Nat /\ n \in Nat
      BY <1>2, <1>3, <2>1
    <3>2. Hand(s)' = 1 /\ Hand(s) = 0 /\ Len(queue'[s]) = n - 1
      BY <1>6, <2>1
    <3> HIDE DEF m, n
    <3> QED BY <3>1, <3>2
  <2>3. Kept(s)'
    BY <1>1, <1>7, <2>2 DEF SubInv, Kept
  <2>4. Len(queue'[s]) + Hand(s)' = n + Hand(s)
    BY <1>2, <1>6, <2>1
  <2> QED BY <1>1, <1>7, <2>3, <2>4 DEF SubInv, Backlog, Hard
<1>10. ASSUME NEW b \in 0 .. emitted, ChainedFrom(s, b) PROVE ChainedFrom(s, b)'
  <2>1. q[1] = At(b, m + 1)
    BY <1>2, <1>3, <1>6, <1>10 DEF ChainedFrom
  <2>2. ASSUME NEW i \in 1 .. n - 1 PROVE Tail(q)[i] = At(b, m + 1 + i)
    <3>1. i + 1 \in 1 .. n /\ m + 0 + (i + 1) = m + 1 + i
      BY <1>2, <1>3
    <3> QED BY <1>2, <1>6, <1>10, <3>1 DEF ChainedFrom
  <2> QED BY <1>1, <1>2, <1>6, <1>10, <2>1, <2>2 DEF ChainedFrom
<1>11. Chained(s)'
  BY <1>1, <1>7, <1>10 DEF SubInv, Chained
<1> QED BY <1>4, <1>5, <1>8, <1>9, <1>11 DEF IInv, SubInv

LEMMA RequestKeeps == ASSUME IInv, NEW s \in Subs, Request(s) \/ GraceEnds(s) PROVE IInv'
<1>1. TypeOK'
  BY DEF IInv, TypeOK, Request, GraceEnds
<1>2. ASSUME NEW t \in Subs \ {s} PROVE SubInv(t)'
  BY Elsewhere DEF IInv, TypeOK, Request, GraceEnds
<1>3. SubInv(s)'
  <2>1. /\ UNCHANGED <<st, emitted, clients, queue, held, closed, queued, given, yielded, fate>>
        /\ \/ gen[s] = "none" /\ gen'[s] = "requested" /\ UNCHANGED overflow
           \/ overflow[s] = "yes" /\ overflow'[s] = "past" /\ UNCHANGED gen
    BY DEF IInv, TypeOK, Request, GraceEnds
  <2>2. SubInv(s)
    BY DEF IInv
  <2>3. Phase(s)'
    BY <2>1, <2>2 DEF SubInv, Phase, Fresh
  <2>4. Counted(s)' /\ Kept(s)' /\ Backlog(s)'
    BY <2>1, <2>2 DEF SubInv, Counted, Kept, Backlog, Hand, Hard
  <2>5. Chained(s)'
    BY <2>1, <2>2 DEF SubInv, Chained, ChainedFrom, Hand
  <2> QED BY <2>3, <2>4, <2>5 DEF SubInv
<1> QED BY <1>1, <1>2, <1>3 DEF IInv

\* A generator that ends with nothing in its queue, or because its listener left.
LEMMA EndsKeeps ==
    ASSUME IInv, NEW s \in Subs, Ends(s), gen[s] \in {"waiting", "yielding"},
           UNCHANGED <<st, published, emitted, queue, overflow, given, yielded, queued>>,
           wake' \in [Subs -> BOOLEAN],
           \/ Finished(s) /\ UNCHANGED fate
           \/ fate' = [fate EXCEPT ![s] = IF @ = "evicted" THEN @ ELSE "left"]
    PROVE  IInv'
<1>1. TypeOK'
  BY DEF IInv, TypeOK, Ends, None
<1>2. ASSUME NEW t \in Subs \ {s} PROVE SubInv(t)'
  BY Elsewhere DEF IInv, TypeOK, Ends
<1>3. SubInv(s)'
  <2>1. /\ gen'[s] = "ended" /\ s \notin clients' /\ held'[s] = None
        /\ fate'[s] = "none" => fate[s] = "none" /\ queue[s] = <<>>
    BY DEF IInv, TypeOK, Ends, Finished
  <2>2. SubInv(s)
    BY DEF IInv
  <2>3. Phase(s)' /\ Counted(s)' /\ Chained(s)' /\ Backlog(s)'
    BY <2>1, <2>2 DEF SubInv, Phase, Counted, Chained, Backlog
  <2>4. Kept(s)'
    <3>1. ASSUME fate'[s] = "none" PROVE Len(yielded[s]) + 1 >= given[s]
      <4>1. Len(yielded[s]) + Hand(s) + 0 = given[s]
        BY <2>1, <2>2, <3>1 DEF SubInv, Kept
      <4>2. Hand(s) \in {0, 1} /\ Len(yielded[s]) \in Nat /\ given[s] \in Nat
        BY SubTypes DEF IInv
      <4> QED BY <4>1, <4>2
    <3> QED BY <2>1, <3>1 DEF Kept
  <2> QED BY <2>3, <2>4 DEF SubInv
<1> QED BY <1>1, <1>2, <1>3 DEF IInv

\* The chunk in hand goes to the response.
Yields(s) ==
    /\ gen[s] = "waiting" /\ held[s] # None
    /\ yielded' = [yielded EXCEPT ![s] = Append(@, held[s])]
    /\ queued' = [queued EXCEPT ![s] = Uncounted(s)]
    /\ held' = [held EXCEPT ![s] = None]
    /\ gen' = [gen EXCEPT ![s] = "yielding"]
    /\ wake' \in [Subs -> BOOLEAN]
    /\ UNCHANGED <<st, published, emitted, clients, queue, closed, overflow, given, fate>>

LEMMA YieldKeeps == ASSUME IInv, NEW s \in Subs, Yields(s) PROVE IInv'
<1> DEFINE y == yielded[s]
           c == held[s]
           m == Len(yielded[s])
<1>1. c \in Chunks /\ y \in Seq(Chunks)
  BY DEF IInv, TypeOK, Yields
<1>2. /\ Append(y, c) \in Seq(Chunks)
      /\ Len(Append(y, c)) = m + 1 /\ m \in Nat
      /\ DOMAIN y = 1 .. m /\ DOMAIN Append(y, c) = 1 .. m + 1
      /\ \A i \in 1 .. m : Append(y, c)[i] = y[i]
      /\ Append(y, c)[m + 1] = c
  BY <1>1, AppendFacts
<1>3. yielded'[s] = Append(y, c) /\ held'[s] = None /\ gen'[s] = "yielding"
      /\ queued'[s] = Uncounted(s)
      /\ UNCHANGED <<st, emitted, clients, queue, closed, overflow, given, fate>>
  BY DEF IInv, TypeOK, Yields
<1>4. Uncounted(s) \in Nat /\ Uncounted(s) <= queued[s] /\ queued[s] \in Nat
      /\ (queued[s] > 0 => Uncounted(s) = queued[s] - 1)
  <2>1. queued[s] \in Nat
    BY SubTypes DEF IInv
  <2> QED BY <2>1 DEF Uncounted
<1>5. TypeOK'
  <2>1. Uncounted(s) \in 0 .. MaxChunks + 1
    <3>1. queued[s] \in 0 .. MaxChunks + 1 /\ MaxChunks \in Nat
      BY FanoutBounds DEF IInv, TypeOK
    <3> QED BY <1>4, <3>1
  <2>2. yielded' \in [Subs -> Seq(Chunks)]
    BY <1>2 DEF IInv, TypeOK, Yields
  <2>3. held' \in [Subs -> Chunks \cup {None}]
    BY DEF IInv, TypeOK, Yields
  <2> QED BY <2>1, <2>2, <2>3 DEF IInv, TypeOK, Yields
<1>6. ASSUME NEW t \in Subs \ {s} PROVE SubInv(t)'
  BY Elsewhere DEF IInv, TypeOK, Yields
<1>7. SubInv(s)
  BY DEF IInv
<1>8. Hand(s) = 1 /\ Hand(s)' = 0
  BY <1>3 DEF Hand, Yields
<1>9. Len(yielded'[s]) = m + 1 /\ Len(queue[s]) \in Nat /\ given[s] \in Nat /\ emitted \in Nat
  BY <1>2, <1>3, SubTypes DEF IInv
<1>10. Phase(s)'
  BY <1>3, <1>7 DEF SubInv, Phase, Yields
<1>11. Counted(s)'
  <2>1. given[s] <= emitted /\ queued[s] <= given[s]
    BY <1>7 DEF SubInv, Counted
  <2>2. Uncounted(s) <= given[s]
    BY <1>4, <1>9, <2>1
  <2> QED BY <1>3, <2>1, <2>2 DEF Counted
<1>12. Kept(s)'
  <2>1. Len(yielded'[s]) + Hand(s)' + Len(queue[s]) = m + Hand(s) + Len(queue[s])
    <3>1. m \in Nat /\ Len(yielded'[s]) = m + 1 /\ Len(queue[s]) \in Nat
      BY <1>2, <1>9
    <3> HIDE DEF m
    <3> QED BY <1>8, <3>1
  <2>2. /\ gen[s] = "waiting" /\ gen'[s] = "yielding"
        /\ queue'[s] = queue[s] /\ given'[s] = given[s] /\ fate'[s] = fate[s]
    BY <1>3 DEF Yields
  <2>3. /\ m + Hand(s) + Len(queue[s]) <= given[s]
        /\ fate[s] \in {"none", "late"} => m + Hand(s) + Len(queue[s]) = given[s]
    BY <1>7, <2>2 DEF SubInv, Kept
  <2>4. /\ Len(yielded'[s]) + Hand(s)' + Len(queue'[s]) <= given'[s]
        /\ fate'[s] \in {"none", "late"} =>
              Len(yielded'[s]) + Hand(s)' + Len(queue'[s]) = given'[s]
    BY <2>1, <2>2, <2>3
  <2> QED BY <2>2, <2>4 DEF Kept
<1>13. Backlog(s)'
  <2> SUFFICES ASSUME s \in clients PROVE Backlog(s)'
    BY <1>3 DEF Backlog
  <2>1. queued[s] = Len(queue[s]) + Hand(s)
    BY <1>7 DEF SubInv, Backlog
  <2>2. Uncounted(s) = Len(queue[s]) + Hand(s)'
    BY <1>4, <1>8, <1>9, <2>1
  <2>3. Uncounted(s) > QueueChunks => queued[s] > QueueChunks
    BY <1>4, FanoutBounds
  <2>4. queued[s] < Hard(s) => Uncounted(s) < Hard(s)
    BY <1>4, HardAbove
  <2> QED BY <1>3, <1>7, <2>2, <2>3, <2>4 DEF SubInv, Backlog, Hard
<1>14. ASSUME NEW b \in 0 .. emitted, ChainedFrom(s, b) PROVE ChainedFrom(s, b)'
  <2>1. c = At(b, m + 1)
    BY <1>14 DEF ChainedFrom, Yields
  <2>2. \A i \in 1 .. m + 1 : Append(y, c)[i] = At(b, i)
    <3> SUFFICES ASSUME NEW i \in 1 .. m + 1 PROVE Append(y, c)[i] = At(b, i)
      OBVIOUS
    <3>1. CASE i = m + 1
      BY <1>2, <2>1, <3>1
    <3>2. CASE i # m + 1
      <4>1. i \in 1 .. m
        BY <1>2, <3>2
      <4> QED BY <1>2, <1>14, <4>1 DEF ChainedFrom
    <3> QED BY <3>1, <3>2
  <2>3. \A i \in DOMAIN queue[s] : queue[s][i] = At(b, m + 1 + i)
    BY <1>8, <1>14 DEF ChainedFrom
  <2>4. \A i \in DOMAIN queue[s] : Len(yielded'[s]) + Hand(s)' + i = m + 1 + i
    <3>1. DOMAIN queue[s] \subseteq Nat
      BY SubTypes DEF IInv
    <3> QED BY <1>2, <1>8, <1>9, <3>1
  <2> HIDE DEF y, c, m
  <2> QED BY <1>2, <1>3, <1>14, <2>2, <2>3, <2>4 DEF ChainedFrom
<1>15. Chained(s)'
  BY <1>3, <1>7, <1>14 DEF SubInv, Chained, Yields
<1> QED BY <1>5, <1>6, <1>10, <1>11, <1>12, <1>13, <1>15 DEF IInv, SubInv

LEMMA ResumeKeeps == ASSUME IInv, NEW s \in Subs, Resume(s) PROVE IInv'
<1>1. PICK sees \in BOOLEAN : Resume(s)!(sees)
  BY DEF Resume
<1>2. wake' \in [Subs -> BOOLEAN] /\ gen[s] = "waiting"
  BY <1>1 DEF IInv, TypeOK
<1>3. CASE sees /\ Finished(s)
  <2>1. Ends(s) /\ UNCHANGED <<st, published, emitted, queue, overflow, given, yielded, queued, fate>>
    BY <1>1, <1>3
  <2> QED BY <1>2, <1>3, <2>1, EndsKeeps
<1>4. CASE ~(sees /\ Finished(s)) /\ held[s] # None
  <2>1. Yields(s)
    BY <1>1, <1>2, <1>4 DEF Yields
  <2> QED BY <2>1, YieldKeeps
<1>5. CASE ~(sees /\ Finished(s)) /\ held[s] = None
  <2>1. UNCHANGED <<st, published, emitted, queue, overflow, given, fate, clients, closed, held,
                    gen, queued, yielded>>
    BY <1>1, <1>5
  <2>2. \A t \in Subs : SubInv(t)'
    BY <2>1, Elsewhere DEF IInv
  <2> QED BY <1>2, <2>1, <2>2 DEF IInv, TypeOK
<1> QED BY <1>3, <1>4, <1>5

LEMMA SentKeeps == ASSUME IInv, NEW s \in Subs, Sent(s) \/ Leave(s) PROVE IInv'
<1>1. CASE Leave(s)
  <2>1. wake' \in [Subs -> BOOLEAN]
    BY <1>1 DEF Leave, IInv, TypeOK
  <2> QED BY <1>1, <2>1, EndsKeeps DEF Leave
<1>2. CASE Sent(s) /\ Finished(s) /\ Ends(s)
  <2>1. wake' \in [Subs -> BOOLEAN]
    BY <1>2 DEF Sent, IInv, TypeOK
  <2> QED BY <1>2, <2>1, EndsKeeps DEF Sent
<1>3. CASE Sent(s) /\ ~Finished(s)
  <2>1. /\ gen[s] = "yielding" /\ gen' = [gen EXCEPT ![s] = "waiting"]
        /\ UNCHANGED <<clients, closed, held, st, published, emitted, queue, wake, queued,
                       overflow, given, yielded, fate>>
    BY <1>3 DEF Sent
  <2>2. ASSUME NEW t \in Subs \ {s} PROVE SubInv(t)'
    BY <2>1, Elsewhere DEF IInv, TypeOK
  <2>3. SubInv(s) /\ gen'[s] = "waiting"
    BY <2>1 DEF IInv, TypeOK
  <2>4. Phase(s)' /\ Counted(s)' /\ Kept(s)' /\ Backlog(s)'
    BY <2>1, <2>3 DEF SubInv, Phase, Counted, Kept, Backlog, Hand, Hard
  <2>5. Chained(s)'
    BY <2>1, <2>3 DEF SubInv, Chained, ChainedFrom, Hand
  <2> QED BY <2>1, <2>2, <2>4, <2>5 DEF IInv, SubInv, TypeOK
<1> QED BY <1>1, <1>2, <1>3 DEF Sent

-----------------------------------------------------------------------------
(* Steps of the pipeline *)

LEMMA StopKeeps == ASSUME IInv, BeginStop \/ EndStop \/ Unpublish PROVE IInv'
<1>1. CASE BeginStop
  <2>1. /\ st = "active" /\ st' = "stopping" /\ clients' = {}
        /\ closed' = [s \in Subs |-> closed[s] \/ s \in clients]
        /\ wake' = [s \in Subs |-> wake[s] \/ s \in clients]
        /\ UNCHANGED <<published, emitted, gen, queue, held, queued, overflow, given, yielded, fate>>
    BY <1>1 DEF BeginStop, CloseAll, Rouse
  <2>2. ASSUME NEW s \in Subs PROVE SubInv(s)'
    <3>1. SubInv(s) /\ closed'[s] = (closed[s] \/ s \in clients) /\ s \notin clients'
      BY <2>1 DEF IInv
    <3>2. Phase(s)'
      BY <2>1, <3>1 DEF SubInv, Phase, Fresh
    <3>3. Counted(s)' /\ Kept(s)' /\ Backlog(s)'
      BY <2>1, <3>1 DEF SubInv, Counted, Kept, Backlog, Hand
    <3>4. Chained(s)'
      BY <2>1, <3>1 DEF SubInv, Chained, ChainedFrom, Hand
    <3> QED BY <3>2, <3>3, <3>4 DEF SubInv
  <2>3. TypeOK'
    BY <2>1 DEF IInv, TypeOK
  <2> QED BY <2>2, <2>3 DEF IInv
<1>2. CASE EndStop
  <2>1. st = "stopping" /\ st' = "stopped" /\ UNCHANGED <<published, emitted>> /\ UNCHANGED subVars
    BY <1>2 DEF EndStop
  <2>2. ASSUME NEW s \in Subs PROVE SubInv(s)'
    <3>1. SubInv(s)
      BY DEF IInv
    <3>2. Phase(s)'
      BY <2>1, <3>1 DEF SubInv, Phase, Fresh, subVars
    <3>3. Counted(s)' /\ Kept(s)' /\ Backlog(s)'
      BY <2>1, <3>1 DEF SubInv, Counted, Kept, Backlog, Hand, Hard, subVars
    <3>4. Chained(s)'
      BY <2>1, <3>1 DEF SubInv, Chained, ChainedFrom, Hand, subVars
    <3> QED BY <3>2, <3>3, <3>4 DEF SubInv
  <2> QED BY <2>1, <2>2 DEF IInv, TypeOK, subVars
<1>3. CASE Unpublish
  <2>1. published' \in BOOLEAN /\ UNCHANGED <<st, emitted>> /\ UNCHANGED subVars
    BY <1>3 DEF Unpublish
  <2>2. \A s \in Subs : SubInv(s)'
    BY <2>1, Elsewhere DEF IInv, subVars
  <2> QED BY <2>1, <2>2 DEF IInv, TypeOK, subVars
<1> QED BY <1>1, <1>2, <1>3

\* What a chunk does to one subscriber: nothing, its eviction, or one more
\* chunk in its queue, over its limit only when it is known to overflow.
LEMMA FanOutOn ==
    ASSUME IInv, ReadChunk, NEW s \in Subs
    PROVE  /\ emitted' = emitted + 1 /\ emitted + 1 \in Chunks
           /\ UNCHANGED st /\ gen'[s] = gen[s] /\ held'[s] = held[s] /\ yielded'[s] = yielded[s]
           /\ \/ /\ s \notin clients /\ s \notin clients'
                 /\ queue'[s] = queue[s] /\ queued'[s] = queued[s] /\ given'[s] = given[s]
                 /\ overflow'[s] = overflow[s] /\ closed'[s] = closed[s] /\ fate'[s] = fate[s]
              \/ /\ s \in clients /\ s \notin clients'
                 /\ queue'[s] = <<>> /\ queued'[s] = 0 /\ given'[s] = given[s]
                 /\ closed'[s] /\ fate'[s] = "evicted"
              \/ /\ s \in clients /\ s \in clients'
                 /\ queue'[s] = Append(queue[s], emitted + 1)
                 /\ queued'[s] = queued[s] + 1 /\ given'[s] = given[s] + 1
                 /\ closed'[s] = closed[s] /\ fate'[s] = fate[s]
                 /\ queued[s] + 1 > QueueChunks =>
                       /\ overflow'[s] # "no"
                       /\ Stable /\ s \in Primary => ~(queued[s] + 1 >= Hard(s))
           /\ overflow'[s] \in {"no", "yes", "past"}
<1>1. PICK behind \in IF BacklogLimit THEN SUBSET clients ELSE {{}} : ReadChunk!(behind)
  BY DEF ReadChunk
<1> DEFINE served == {x \in clients : ~closed[x]}
           over   == {x \in served : Overflowing(x, behind)}
           out    == {x \in over : Evicts(x)}
           in     == served \ out
<1>2. emitted' = emitted + 1 /\ emitted + 1 \in Chunks /\ UNCHANGED <<st, gen, held, yielded>>
  <2>1. emitted \in Nat /\ MaxChunks \in Nat /\ emitted < MaxChunks
    BY <1>1, SubTypes DEF IInv
  <2> QED BY <1>1, <2>1 DEF Chunks
<1>3. /\ queue'[s] = IF s \in out THEN <<>>
                     ELSE IF s \in in THEN Append(queue[s], emitted + 1) ELSE queue[s]
      /\ queued'[s] = IF s \in out THEN 0 ELSE IF s \in in THEN queued[s] + 1 ELSE queued[s]
      /\ given'[s] = IF s \in in THEN given[s] + 1 ELSE given[s]
      /\ overflow'[s] = IF s \notin served THEN overflow[s]
                        ELSE IF s \notin over THEN "no"
                        ELSE IF overflow[s] = "no" THEN "yes" ELSE overflow[s]
      /\ closed'[s] = (closed[s] \/ s \in out)
      /\ fate'[s] = IF s \in out THEN "evicted" ELSE fate[s]
      /\ clients' = clients \ out
  BY <1>1 DEF FanOut
<1>4. s \in clients => s \in served
  BY DEF IInv, SubInv, Phase
<1>5. overflow[s] \in {"no", "yes", "past"} /\ closed[s] \in BOOLEAN
  BY DEF IInv, TypeOK
<1>6. s \in served /\ queued[s] + 1 > QueueChunks => s \in over
  BY DEF Overflowing
<1>7. s \in over /\ s \notin out /\ Stable /\ s \in Primary => ~(queued[s] + 1 >= Hard(s))
  BY DEF Evicts
<1>8. out \subseteq clients /\ served \subseteq clients /\ over \subseteq served
  OBVIOUS
<1> HIDE DEF served, over, out
<1>9. CASE s \notin clients
  <2>1. s \notin served /\ s \notin out /\ s \notin in /\ s \notin clients'
    BY <1>3, <1>8, <1>9
  <2>2. /\ queue'[s] = queue[s] /\ queued'[s] = queued[s] /\ given'[s] = given[s]
        /\ overflow'[s] = overflow[s] /\ closed'[s] = closed[s] /\ fate'[s] = fate[s]
    BY <1>3, <1>5, <2>1
  <2> QED BY <1>2, <1>5, <1>9, <2>1, <2>2
<1>10. CASE s \in out
  <2>1. s \in clients /\ s \notin in /\ s \notin clients'
    BY <1>3, <1>8, <1>10
  <2>2. /\ queue'[s] = <<>> /\ queued'[s] = 0 /\ given'[s] = given[s]
        /\ overflow'[s] \in {"no", "yes", "past"} /\ closed'[s] /\ fate'[s] = "evicted"
    BY <1>3, <1>5, <1>10, <2>1
  <2> QED BY <1>2, <2>1, <2>2
<1>11. CASE s \in clients /\ s \notin out
  <2>1. s \in served /\ s \in in /\ s \in clients'
    BY <1>3, <1>4, <1>11
  <2>2. s \in over => overflow'[s] # "no"
    BY <1>3, <2>1
  <2>3. closed'[s] = closed[s]
    BY <1>3, <1>5, <1>11
  <2>4. /\ queue'[s] = Append(queue[s], emitted + 1)
        /\ queued'[s] = queued[s] + 1 /\ given'[s] = given[s] + 1
        /\ fate'[s] = fate[s] /\ overflow'[s] \in {"no", "yes", "past"}
    BY <1>3, <1>5, <1>11, <2>1
  <2>5. queued[s] + 1 > QueueChunks =>
           overflow'[s] # "no" /\ (Stable /\ s \in Primary => ~(queued[s] + 1 >= Hard(s)))
    BY <1>6, <1>7, <1>11, <2>1, <2>2
  <2> QED BY <1>2, <1>11, <2>1, <2>3, <2>4, <2>5
<1> QED BY <1>9, <1>10, <1>11

LEMMA ReadType == ASSUME IInv, ReadChunk PROVE TypeOK'
<1>1. PICK behind \in IF BacklogLimit THEN SUBSET clients ELSE {{}} : ReadChunk!(behind)
  BY DEF ReadChunk
<1>2. /\ UNCHANGED <<st, published, gen, held, yielded>>
      /\ emitted \in Nat /\ MaxChunks \in Nat /\ emitted < MaxChunks /\ emitted' = emitted + 1
  BY <1>1, FanoutBounds DEF IInv, TypeOK
<1>3. ASSUME NEW s \in Subs
      PROVE  /\ queue'[s] \in Seq(Chunks)
             /\ queued'[s] \in 0 .. MaxChunks + 1 /\ given'[s] \in 0 .. MaxChunks + 1
             /\ overflow'[s] \in {"no", "yes", "past"}
             /\ fate'[s] \in {"none", "evicted", "left", "late"}
  <2>1. /\ queue[s] \in Seq(Chunks) /\ fate[s] \in {"none", "evicted", "left", "late"}
        /\ given[s] \in Nat /\ queued[s] \in Nat
        /\ given[s] <= emitted /\ queued[s] <= given[s]
    BY SubTypes DEF IInv, TypeOK, SubInv, Counted
  <2>2. emitted + 1 \in Chunks => Append(queue[s], emitted + 1) \in Seq(Chunks)
    BY <2>1, AppendFacts
  <2>3. queue'[s] \in Seq(Chunks)
    <3>1. \/ queue'[s] = queue[s] \/ queue'[s] = <<>>
          \/ queue'[s] = Append(queue[s], emitted + 1) /\ emitted + 1 \in Chunks
      BY FanOutOn
    <3>2. <<>> \in Seq(Chunks)
      OBVIOUS
    <3> QED BY <2>1, <2>2, <3>1, <3>2
  <2>4. /\ queued'[s] \in {0, queued[s], queued[s] + 1} /\ given'[s] \in {given[s], given[s] + 1}
        /\ overflow'[s] \in {"no", "yes", "past"}
        /\ fate'[s] \in {"none", "evicted", "left", "late"}
    BY <2>1, FanOutOn
  <2>5. queued'[s] \in 0 .. MaxChunks + 1 /\ given'[s] \in 0 .. MaxChunks + 1
    BY <1>2, <2>1, <2>4
  <2> QED BY <2>3, <2>4, <2>5
<1>4. /\ wake' \in [Subs -> BOOLEAN] /\ closed' \in [Subs -> BOOLEAN] /\ clients' \subseteq Subs
      /\ DOMAIN queue' = Subs /\ queue' = [s \in Subs |-> queue'[s]]
      /\ queued' = [s \in Subs |-> queued'[s]] /\ given' = [s \in Subs |-> given'[s]]
      /\ overflow' = [s \in Subs |-> overflow'[s]] /\ fate' = [s \in Subs |-> fate'[s]]
  BY <1>1 DEF FanOut, IInv, TypeOK
<1>5. /\ queue' \in [Subs -> Seq(Chunks)]
      /\ queued' \in [Subs -> 0 .. MaxChunks + 1] /\ given' \in [Subs -> 0 .. MaxChunks + 1]
      /\ overflow' \in [Subs -> {"no", "yes", "past"}]
      /\ fate' \in [Subs -> {"none", "evicted", "left", "late"}]
  BY <1>3, <1>4
<1>6. emitted' \in 0 .. MaxChunks
  BY <1>2
<1> QED BY <1>2, <1>4, <1>5, <1>6 DEF IInv, TypeOK

\* The chunk that a subscriber in time is given follows the ones before it.
LEMMA GivenFollows ==
    ASSUME IInv, NEW s \in Subs, s \in clients, NEW b \in 0 .. emitted, ChainedFrom(s, b)
    PROVE  LET a == IF given[s] = 0 THEN 0 ELSE b IN
           /\ a \in 0 .. emitted + 1
           /\ \A i \in DOMAIN yielded[s] : yielded[s][i] = At(a, i)
           /\ held[s] # None => held[s] = At(a, Len(yielded[s]) + 1)
           /\ \A i \in 1 .. Len(queue[s]) : queue[s][i] = At(a, Len(yielded[s]) + Hand(s) + i)
           /\ emitted + 1 = At(a, Len(yielded[s]) + Hand(s) + (Len(queue[s]) + 1))
           /\ a + (given[s] + 1) = emitted + 1
<1> DEFINE m == Len(yielded[s])
           n == Len(queue[s])
           k == Hand(s)
<1>1. /\ m \in Nat /\ n \in Nat /\ k \in Nat /\ given[s] \in Nat /\ emitted \in Nat
      /\ DOMAIN queue[s] = 1 .. n /\ DOMAIN yielded[s] = 1 .. m
  BY SubTypes DEF IInv
<1>2. m + k + n = given[s]
  BY DEF IInv, SubInv, Kept, Phase
<1>3. k = 0 => held[s] = None
  BY DEF Hand
<1> HIDE DEF m, n, k
<1>4. CASE given[s] = 0
  <2>1. m = 0 /\ n = 0 /\ k = 0 /\ emitted = 0
    BY <1>1, <1>2, <1>4 DEF ChainedFrom
  <2>2. 0 + 0 + (0 + 1) = 1
    OBVIOUS
  <2>3. DOMAIN yielded[s] = {} /\ 1 .. n = {} /\ held[s] = None
    BY <1>1, <1>3, <2>1
  <2> QED BY <1>4, <2>1, <2>2, <2>3 DEF m, n, k, At
<1>5. CASE given[s] # 0
  <2>1. b + given[s] = emitted /\ b \in Nat
    BY <1>1, <1>5 DEF ChainedFrom
  <2>2. m + k + (n + 1) # 1 /\ b + (m + k + (n + 1)) = emitted + 1
    BY <1>1, <1>2, <1>5, <2>1
  <2>3. emitted + 1 = At(b, m + k + (n + 1))
    BY <2>2 DEF At
  <2>4. b + (given[s] + 1) = emitted + 1 /\ b \in 0 .. emitted + 1
    BY <1>1, <2>1
  <2>5. /\ \A i \in DOMAIN yielded[s] : yielded[s][i] = At(b, i)
        /\ held[s] # None => held[s] = At(b, m + 1)
        /\ \A i \in 1 .. n : queue[s][i] = At(b, m + k + i)
    BY <1>1 DEF ChainedFrom, m, k
  <2> QED BY <1>5, <2>3, <2>4, <2>5 DEF m, n, k
<1> QED BY <1>4, <1>5

LEMMA ReadKeeps == ASSUME IInv, ReadChunk PROVE IInv'
<1> SUFFICES ASSUME NEW s \in Subs PROVE SubInv(s)'
  BY ReadType DEF IInv
<1>1. SubInv(s) /\ emitted \in Nat /\ given[s] \in Nat /\ queued[s] \in Nat
  BY SubTypes DEF IInv
<1>2. /\ emitted' = emitted + 1 /\ UNCHANGED st
      /\ gen'[s] = gen[s] /\ held'[s] = held[s] /\ yielded'[s] = yielded[s]
      /\ Hand(s)' = Hand(s)
  BY FanOutOn DEF Hand
<1>3. CASE s \notin clients
  <2>1. /\ s \notin clients'
        /\ queue'[s] = queue[s] /\ queued'[s] = queued[s] /\ given'[s] = given[s]
        /\ overflow'[s] = overflow[s] /\ closed'[s] = closed[s] /\ fate'[s] = fate[s]
    BY <1>3, FanOutOn
  <2>2. Phase(s)'
    BY <1>1, <1>2, <2>1 DEF SubInv, Phase, Fresh
  <2>3. Counted(s)'
    <3>1. given[s] <= emitted + 1
      BY <1>1 DEF SubInv, Counted
    <3> QED BY <1>1, <1>2, <2>1, <3>1 DEF SubInv, Counted
  <2>4. Kept(s)' /\ Backlog(s)'
    BY <1>1, <1>2, <2>1 DEF SubInv, Kept, Backlog
  <2>5. ASSUME NEW b \in 0 .. emitted, ChainedFrom(s, b)
        PROVE  b \in 0 .. emitted' /\ ChainedFrom(s, b)'
    <3>1. b \in 0 .. emitted' /\ (b + given[s] <= emitted => b + given[s] <= emitted')
      BY <1>1, <1>2
    <3> QED BY <1>2, <2>1, <2>5, <3>1 DEF ChainedFrom
  <2>6. Chained(s)'
    BY <1>1, <1>2, <2>5 DEF SubInv, Chained
  <2> QED BY <2>2, <2>3, <2>4, <2>6 DEF SubInv
<1>4. CASE s \in clients /\ s \notin clients'
  <2>1. /\ queue'[s] = <<>> /\ queued'[s] = 0 /\ given'[s] = given[s]
        /\ closed'[s] /\ fate'[s] = "evicted"
    BY <1>4, FanOutOn
  <2>2. Phase(s)'
    BY <1>1, <1>2, <1>4, <2>1 DEF SubInv, Phase
  <2>3. Counted(s)'
    <3>1. given[s] <= emitted + 1
      BY <1>1 DEF SubInv, Counted
    <3> QED BY <1>1, <1>2, <2>1, <3>1 DEF Counted
  <2>4. Kept(s)' /\ Backlog(s)'
    <3>1. Len(yielded[s]) + Hand(s) + Len(queue[s]) <= given[s] /\ gen[s] # "ended"
      BY <1>1, <1>4 DEF SubInv, Kept, Phase
    <3>2. Len(yielded[s]) + Hand(s) + 0 <= given[s]
      <4>1. Len(yielded[s]) \in Nat /\ Hand(s) \in Nat /\ Len(queue[s]) \in Nat
        BY SubTypes DEF IInv
      <4> QED BY <1>1, <3>1, <4>1
    <3>3. Len(queue'[s]) = 0
      BY <2>1
    <3> QED BY <1>2, <1>4, <2>1, <3>1, <3>2, <3>3 DEF Kept, Backlog
  <2>5. ASSUME NEW b \in 0 .. emitted, ChainedFrom(s, b)
        PROVE  b \in 0 .. emitted' /\ ChainedFrom(s, b)'
    <3>1. b \in 0 .. emitted' /\ (b + given[s] <= emitted => b + given[s] <= emitted')
      BY <1>1, <1>2
    <3>2. DOMAIN queue'[s] = {}
      BY <2>1
    <3> QED BY <1>2, <1>4, <2>1, <2>5, <3>1, <3>2 DEF ChainedFrom
  <2>6. Chained(s)'
    BY <1>1, <1>2, <2>5 DEF SubInv, Chained
  <2> QED BY <2>2, <2>3, <2>4, <2>6 DEF SubInv
<1>5. CASE s \in clients /\ s \in clients'
  <2> DEFINE q == queue[s]
             m == Len(yielded[s])
             n == Len(queue[s])
             c == emitted + 1
  <2>1. /\ queue'[s] = Append(q, c)
        /\ queued'[s] = queued[s] + 1 /\ given'[s] = given[s] + 1
        /\ closed'[s] = closed[s] /\ fate'[s] = fate[s]
        /\ queued[s] + 1 > QueueChunks =>
              overflow'[s] # "no" /\ (Stable /\ s \in Primary => ~(queued[s] + 1 >= Hard(s)))
    BY <1>5, FanOutOn
  <2>2. /\ Len(queue'[s]) = n + 1 /\ DOMAIN queue'[s] = 1 .. n + 1
        /\ \A i \in 1 .. n : queue'[s][i] = q[i]
        /\ queue'[s][n + 1] = c
    <3>1. q \in Seq(Nat) /\ c \in Nat
      BY <1>1, SubTypes DEF IInv
    <3> QED BY <2>1, <3>1, AppendFacts
  <2>3. m \in Nat /\ n \in Nat /\ Hand(s) \in Nat
    BY SubTypes DEF IInv
  <2>4. Phase(s)'
    BY <1>1, <1>2, <1>5, <2>1 DEF SubInv, Phase
  <2>5. Counted(s)'
    <3>1. given[s] <= emitted /\ queued[s] <= given[s]
      BY <1>1 DEF SubInv, Counted
    <3>2. given[s] + 1 <= emitted + 1 /\ queued[s] + 1 <= given[s] + 1
      BY <1>1, <3>1
    <3> QED BY <1>2, <2>1, <3>2 DEF Counted
  <2>6. Kept(s)'
    <3>1. m + Hand(s) + n = given[s] /\ gen[s] # "ended"
      BY <1>1, <1>5 DEF SubInv, Kept, Phase
    <3>2. m + Hand(s) + (n + 1) = given[s] + 1
      <4>1. m + Hand(s) + n = given[s] /\ m \in Nat /\ n \in Nat /\ Hand(s) \in Nat
        BY <2>3, <3>1
      <4> HIDE DEF m, n
      <4> QED BY <4>1
    <3>3. Len(yielded'[s]) + Hand(s)' + Len(queue'[s]) = given'[s]
      BY <1>2, <2>1, <2>2, <3>2
    <3>4. given'[s] \in Nat
      BY <1>1, <2>1
    <3> QED BY <1>2, <3>1, <3>3, <3>4 DEF Kept
  <2>7. Backlog(s)'
    <3>1. queued[s] = n + Hand(s)
      BY <1>1, <1>5 DEF SubInv, Backlog
    <3>2. queued[s] + 1 = (n + 1) + Hand(s)
      BY <1>1, <2>3, <3>1
    <3>3. Stable /\ s \in Primary => queued[s] + 1 < Hard(s)
      <4>1. Hard(s) \in Nat /\ Hard(s) > QueueChunks /\ QueueChunks \in Nat
        BY HardAbove, FanoutBounds
      <4>2. queued[s] + 1 <= QueueChunks => queued[s] + 1 < Hard(s)
        BY <1>1, <4>1
      <4> QED BY <1>1, <2>1, <4>1, <4>2
    <3>4. Hard(s)' = Hard(s)
      BY DEF Hard
    <3> QED BY <1>2, <2>1, <2>2, <3>2, <3>3, <3>4 DEF Backlog
  <2>8. Chained(s)'
    <3>1. gen[s] # "ended"
      BY <1>1, <1>5 DEF SubInv, Phase
    <3>2. PICK b \in 0 .. emitted : ChainedFrom(s, b)
      BY <1>1, <3>1 DEF SubInv, Chained
    <3>3. PICK a : a = IF given[s] = 0 THEN 0 ELSE b
      OBVIOUS
    <3>4. /\ a \in 0 .. emitted'
          /\ \A i \in DOMAIN yielded[s] : yielded[s][i] = At(a, i)
          /\ held[s] # None => held[s] = At(a, m + 1)
          /\ \A i \in 1 .. n : q[i] = At(a, m + Hand(s) + i)
          /\ c = At(a, m + Hand(s) + (n + 1))
          /\ a + given'[s] = emitted'
      BY <1>2, <1>5, <2>1, <3>2, <3>3, GivenFollows
    <3>5. \A i \in 1 .. n + 1 : queue'[s][i] = At(a, m + Hand(s) + i)
      <4> SUFFICES ASSUME NEW i \in 1 .. n + 1 PROVE queue'[s][i] = At(a, m + Hand(s) + i)
        OBVIOUS
      <4>1. CASE i = n + 1
        BY <2>2, <3>4, <4>1
      <4>2. CASE i # n + 1
        <5>1. i \in 1 .. n
          BY <2>3, <4>2
        <5> QED BY <2>2, <3>4, <5>1
      <4> QED BY <4>1, <4>2
    <3>6. a + given'[s] <= emitted' /\ given'[s] # 0
      <4>1. given[s] + 1 # 0 /\ emitted + 1 \in Nat
        BY <1>1
      <4> QED BY <1>2, <2>1, <3>4, <4>1
    <3>7. ChainedFrom(s, a)'
      BY <1>2, <1>5, <2>2, <3>4, <3>5, <3>6 DEF ChainedFrom
    <3> QED BY <3>4, <3>7 DEF Chained
  <2> QED BY <2>4, <2>5, <2>6, <2>7, <2>8 DEF SubInv
<1> QED BY <1>3, <1>4, <1>5, FanOutOn

-----------------------------------------------------------------------------
(* The inductive invariant *)

LEMMA InitInv == Init => IInv
<1> SUFFICES ASSUME Init PROVE IInv
  OBVIOUS
<1>1. TypeOK
  BY FanoutBounds DEF Init, TypeOK, None
<1>2. ASSUME NEW s \in Subs PROVE SubInv(s)
  <2>1. /\ gen[s] = "none" /\ Fresh(s) /\ emitted = 0 /\ Hand(s) = 0
        /\ Len(queue[s]) = 0 /\ Len(yielded[s]) = 0 /\ DOMAIN queue[s] = {} /\ DOMAIN yielded[s] = {}
    BY DEF Init, Fresh, Hand
  <2>2. Phase(s) /\ Counted(s) /\ Kept(s) /\ Backlog(s)
    BY <2>1 DEF Phase, Counted, Kept, Backlog, Fresh
  <2>3. ChainedFrom(s, 0) /\ 0 \in 0 .. emitted
    BY <2>1 DEF ChainedFrom, Fresh
  <2> QED BY <2>2, <2>3 DEF SubInv, Chained
<1> QED BY <1>1, <1>2 DEF IInv

LEMMA NextInv == IInv /\ [Next]_vars => IInv'
<1> SUFFICES ASSUME IInv, [Next]_vars PROVE IInv'
  OBVIOUS
<1>1. CASE UNCHANGED vars
  <2>1. \A s \in Subs : SubInv(s)'
    BY <1>1, Elsewhere DEF IInv, vars
  <2> QED BY <1>1, <2>1 DEF IInv, TypeOK, vars
<1> QED BY <1>1, ReadKeeps, StopKeeps, RequestKeeps, AttachKeeps, TakesKeeps, ResumeKeeps, SentKeeps
        DEF Next, Serving

\* The invariant that the theorems below rest on.
THEOREM Invariant == Spec => []IInv
<1>1. Init => IInv
  BY InitInv
<1>2. IInv /\ [Next]_vars => IInv'
  BY NextInv
<1> QED BY <1>1, <1>2, PTL DEF Spec

-----------------------------------------------------------------------------
(* What the run checks, for every value of the constants *)

\* The variables keep their types, and no byte count exceeds what was emitted.
THEOREM FanoutTypeCorrect == Spec => []TypeOK
<1>1. IInv => TypeOK
  BY DEF IInv
<1> QED BY <1>1, Invariant, PTL

\* The byte count that the overflow policy looks at is exact for every
\* attached subscriber, and the limits hold.
THEOREM BacklogsAreBounded == Spec => []BacklogBounded
<1>1. IInv => BacklogBounded
  <2> SUFFICES ASSUME IInv, NEW s \in clients
               PROVE  /\ queued[s] = Len(queue[s]) + IF held[s] = None THEN 0 ELSE 1
                      /\ queued[s] > QueueChunks => overflow[s] # "no"
                      /\ Stable /\ s \in Primary => queued[s] < Hard(s)
    BY DEF BacklogBounded
  <2>1. s \in Subs
    BY DEF IInv, TypeOK
  <2> QED BY <2>1 DEF IInv, SubInv, Backlog, Hand
<1> QED BY <1>1, Invariant, PTL

\* What stop() lets a subscriber's stream end with.
THEOREM StopLosesAtMostOne == Spec => []StopDelivers
<1>1. IInv => StopDelivers
  <2> SUFFICES ASSUME IInv PROVE StopDelivers
    OBVIOUS
  <2>1. \A s \in Subs : gen[s] = "ended" /\ fate[s] = "none" => Len(yielded[s]) + 1 >= given[s]
    BY DEF IInv, SubInv, Kept
  <2>2. ASSUME st = "stopped", NEW s \in clients PROVE fate[s] = "late"
    BY <2>2 DEF IInv, TypeOK, SubInv, Phase
  <2> QED BY <2>1, <2>2 DEF StopDelivers
<1> QED BY <1>1, Invariant, PTL

-----------------------------------------------------------------------------
(* The fan-out implements Broadcast *)

LEMMA StreamInit == Init => Stream!Init
BY DEF Init, Stream!Init

\* With m chunks heard, one in hand and k queued out of g given ones.
LEMMA RoomForNext ==
    ASSUME NEW m \in Nat, NEW k \in Nat, NEW g \in Nat, NEW e \in Nat, NEW b \in 0 .. e,
           m + 1 + k <= g, g # 0 => b + g <= e
    PROVE  /\ b + (m + 1) <= e /\ b \in Nat
           /\ m = 0 \/ m = 1 \/ m > 1
           /\ m = 0 => 1 <= e
           /\ m = 1 => b + (m + 1) = b + 2 /\ b + 2 \in 2 .. e
           /\ m > 1 => m # 1 /\ m + 1 # 1 /\ b + (m + 1) = b + m + 1 /\ m \in 1 .. m
OBVIOUS

\* The chunk that the generator yields is one its listener may hear next.
LEMMA YieldHears == ASSUME IInv, NEW s \in Subs, Yields(s) PROVE Stream!Next
<1> DEFINE y == yielded[s]
           m == Len(yielded[s])
           c == held[s]
<1>1. /\ yielded' = [yielded EXCEPT ![s] = Append(@, c)] /\ UNCHANGED emitted
      /\ gen[s] = "waiting" /\ c # None
  BY DEF Yields
<1>2. PICK b \in 0 .. emitted : ChainedFrom(s, b)
  BY <1>1 DEF IInv, SubInv, Chained
<1>3. /\ c = At(b, m + 1)
      /\ \A i \in DOMAIN y : y[i] = At(b, i)
      /\ given[s] # 0 => b + given[s] <= emitted
  BY <1>1, <1>2 DEF ChainedFrom
<1>4. /\ m \in Nat /\ given[s] \in Nat /\ emitted \in Nat /\ DOMAIN y = 1 .. m
      /\ Len(queue[s]) \in Nat /\ y \in Seq(Nat)
  BY SubTypes DEF IInv
<1>5. m + 1 + Len(queue[s]) <= given[s]
  BY <1>1 DEF IInv, SubInv, Kept, Hand
<1>6. /\ b + (m + 1) <= emitted /\ b \in Nat
      /\ m = 0 \/ m = 1 \/ m > 1
      /\ m = 0 => 1 <= emitted
      /\ m = 1 => b + (m + 1) = b + 2 /\ b + 2 \in 2 .. emitted
      /\ m > 1 => m # 1 /\ m + 1 # 1 /\ b + (m + 1) = b + m + 1 /\ m \in 1 .. m
  <2> HIDE DEF m
  <2> QED BY <1>3, <1>4, <1>5, RoomForNext
<1>7. c <= emitted /\ c \in Stream!NextChunks(s)
  <2>1. CASE m = 0
    <3>1. y = <<>>
      BY <1>4, <2>1
    <3>2. c = 1 /\ c <= emitted
      BY <1>3, <1>6, <2>1 DEF At
    <3> QED BY <3>1, <3>2 DEF Stream!NextChunks
  <2>2. CASE m = 1
    <3>1. y # <<>>
      BY <2>2
    <3>2. c = b + 2 /\ c \in 2 .. emitted
      <4>1. m + 1 # 1
        BY <2>2
      <4> QED BY <1>3, <1>6, <2>2, <4>1 DEF At
    <3>3. c <= emitted
      BY <1>4, <3>2
    <3> QED BY <2>2, <3>1, <3>2, <3>3 DEF Stream!NextChunks
  <2>3. CASE m > 1
    <3>1. y # <<>> /\ Len(y) # 1
      BY <1>6, <2>3
    <3>2. y[m] = b + m
      <4>1. m \in DOMAIN y /\ m # 1
        BY <1>4, <1>6, <2>3
      <4> QED BY <1>3, <4>1 DEF At
    <3>3. c = b + (m + 1) /\ b + (m + 1) = b + m + 1
      BY <1>3, <1>6, <2>3 DEF At
    <3>4. c = y[m] + 1
      BY <3>2, <3>3
    <3>5. c <= emitted
      BY <1>6, <3>3
    <3> QED BY <3>1, <3>4, <3>5 DEF Stream!NextChunks
  <2> QED BY <1>6, <2>1, <2>2, <2>3
<1> QED BY <1>1, <1>7 DEF Stream!Next, Stream!Hear

LEMMA StreamStep == ASSUME IInv, [Next]_vars PROVE [Stream!Next]_<<emitted, yielded>>
<1>1. CASE ReadChunk
  BY <1>1 DEF ReadChunk, Stream!Next, Stream!Emit
<1>2. ASSUME NEW s \in Subs, Resume(s) PROVE [Stream!Next]_<<emitted, yielded>>
  <2>1. PICK sees \in BOOLEAN : Resume(s)!(sees)
    BY <1>2 DEF Resume
  <2>2. CASE ~(sees /\ Finished(s)) /\ held[s] # None
    <3>1. wake' \in [Subs -> BOOLEAN]
      BY <2>1 DEF IInv, TypeOK
    <3>2. Yields(s)
      BY <2>1, <2>2, <3>1 DEF Yields
    <3> QED BY <3>2, YieldHears
  <2>3. CASE (sees /\ Finished(s)) \/ held[s] = None
    BY <2>1, <2>3
  <2> QED BY <2>2, <2>3
<1>3. ASSUME NEW s \in Subs,
             Request(s) \/ Attach(s) \/ GraceEnds(s) \/ Takes(s) \/ Sent(s) \/ Leave(s)
      PROVE  UNCHANGED <<emitted, yielded>>
  BY <1>3 DEF Request, Attach, GraceEnds, Takes, Sent, Leave
<1>4. CASE BeginStop \/ EndStop \/ Unpublish
  BY <1>4 DEF BeginStop, EndStop, Unpublish, subVars
<1>5. CASE UNCHANGED vars
  BY <1>5 DEF vars
<1> QED BY <1>1, <1>2, <1>3, <1>4, <1>5 DEF Next, Serving

\* Every listener hears the header once and then the stream without a gap.
THEOREM StreamRefinement == Spec => StreamSpec
<1>1. Init => Stream!Init
  BY StreamInit
<1>2. IInv /\ [Next]_vars => [Stream!Next]_<<emitted, yielded>>
  BY StreamStep
<1> QED BY <1>1, <1>2, Invariant, PTL DEF Spec, StreamSpec, Stream!Spec
=============================================================================
