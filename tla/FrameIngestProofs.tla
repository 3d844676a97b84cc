------------------------- MODULE FrameIngestProofs -------------------------
(***************************************************************************)
(* The way of a frame, for any number of frames and pipelines, any sizes   *)
(* of the queue and the jitter target, both feed loops, captures on the    *)
(* loop and on threads, with encoders that die.                            *)
(*                                                                         *)
(* The argument: every frame ahead of another one on the way was captured  *)
(* before it (InOrder), and only the pipeline the sink points at has       *)
(* frames to write (Takeover).  So the head of the queue is never late,    *)
(* a popped frame follows everything any encoder has heard, and no frame   *)
(* is in two places.                                                       *)
(***************************************************************************)
EXTENDS FrameIngest, FiniteSetTheorems, SequenceTheorems, TLAPS

Elements(s) == {s[i] : i \in DOMAIN s}

Waiting  == Elements(queue)
Heard(p) == Elements(written[p])
Held(p)  == buffer[p] \cup Heard(p)

\* All of S was captured before all of T.
Before(S, T) == \A f \in S, g \in T : f < g

QueueInOrder == \A i, j \in DOMAIN queue : i < j => queue[i] < queue[j]

InOrder ==
    /\ QueueInOrder
    /\ \A p \in Pipes : Before(Held(p), Waiting)
    /\ \A p \in Pipes : Before(Heard(p), buffer[p])
    /\ \A p, q \in Pipes : p < q => Before(Held(p), Held(q))

\* Pipelines are used in the order of their numbers; those after the target
\* have no frames yet, those before it none that a feed task can still write.
Takeover ==
    /\ st[target] # "unused"
    /\ \A p, q \in Pipes : p < q /\ st[p] = "unused" => st[q] = "unused"
    /\ \A p, q \in Pipes \ {target} :
          st[p] \in {"built", "active"} /\ st[q] \in {"built", "active"} => p = q
    /\ \A p \in Pipes : p > target => Held(p) = {}
    /\ \A p \in Pipes : p < target => /\ st[p] \in {"dead", "stopped"}
                                      /\ feeder[p] = "over" \/ buffer[p] = {}

\* The next frame to play is the one after the last one played.
Played == \A p \in Pipes : \/ expected[p] = Unset
                           \/ \E f \in Heard(p) : expected[p] = f + 1

Accounted ==
    /\ \A f \in 1 .. captured : f \in Waiting \/ f \in overflowed \/ \E p \in Pipes : f \in Held(p)
    /\ Waiting \cup overflowed \subseteq 1 .. captured
    /\ \A p \in Pipes : Held(p) \subseteq 1 .. captured /\ Held(p) \cap overflowed = {}
    /\ Waiting \cap overflowed = {}

IInv == TypeOK /\ InOrder /\ Takeover /\ Played /\ Accounted

-----------------------------------------------------------------------------
(* Sequences of frames *)

LEMMA AppendFacts ==
    ASSUME NEW S, NEW s \in Seq(S), NEW e \in S
    PROVE  /\ Append(s, e) \in Seq(S)
           /\ Len(Append(s, e)) = Len(s) + 1
           /\ Elements(Append(s, e)) = Elements(s) \cup {e}
           /\ \A i \in 1 .. Len(s) : Append(s, e)[i] = s[i]
           /\ Append(s, e)[Len(s) + 1] = e
           /\ DOMAIN s = 1 .. Len(s) /\ DOMAIN Append(s, e) = 1 .. Len(s) + 1
<1> DEFINE t == Append(s, e)
<1>1. /\ t \in Seq(S) /\ Len(t) = Len(s) + 1 /\ DOMAIN t = 1 .. Len(s) + 1
      /\ DOMAIN s = 1 .. Len(s) /\ Len(s) \in Nat
      /\ \A i \in 1 .. Len(s) : t[i] = s[i]
      /\ t[Len(s) + 1] = e
  OBVIOUS
<1> HIDE DEF t
<1>2. Elements(t) = Elements(s) \cup {e}
  BY <1>1 DEF Elements
<1> QED BY <1>1, <1>2 DEF t

LEMMA TailFacts ==
    ASSUME NEW S, NEW s \in Seq(S), s # <<>>
    PROVE  /\ Tail(s) \in Seq(S)
           /\ Len(Tail(s)) = Len(s) - 1 /\ Len(s) \in Nat \ {0}
           /\ Elements(s) = Elements(Tail(s)) \cup {Head(s)}
           /\ \A i \in 1 .. Len(s) - 1 : Tail(s)[i] = s[i + 1]
           /\ Head(s) = s[1] /\ Head(s) \in S
           /\ DOMAIN s = 1 .. Len(s) /\ DOMAIN Tail(s) = 1 .. Len(s) - 1
<1> DEFINE t == Tail(s)
           n == Len(s)
<1>1. /\ t \in Seq(S) /\ Len(t) = n - 1 /\ DOMAIN t = 1 .. n - 1
      /\ DOMAIN s = 1 .. n /\ n \in Nat \ {0}
      /\ \A i \in 1 .. n - 1 : t[i] = s[i + 1]
      /\ Head(s) = s[1] /\ s[1] \in S
  BY HeadTailProperties, EmptySeq
<1> HIDE DEF t, n
<1>2. \A x \in Elements(s) : x = s[1] \/ x \in Elements(t)
  <2> SUFFICES ASSUME NEW i \in 1 .. n, i # 1 PROVE s[i] \in Elements(t)
    BY <1>1 DEF Elements
  <2>1. i - 1 \in 1 .. n - 1 /\ t[i - 1] = s[i]
    BY <1>1
  <2> QED BY <1>1, <2>1 DEF Elements
<1>3. \A x \in Elements(t) : x \in Elements(s)
  BY <1>1 DEF Elements
<1>4. s[1] \in Elements(s)
  BY <1>1 DEF Elements
<1> QED BY <1>1, <1>2, <1>3, <1>4 DEF t, n

\* The frames an operator of this module calls held are frames.
LEMMA FrameTypes ==
    ASSUME TypeOK
    PROVE  /\ captured \in Nat /\ target \in Pipes /\ Pipes \subseteq Nat
           /\ Waiting \subseteq Nat
           /\ \A p \in Pipes : Held(p) \subseteq Nat /\ Heard(p) \subseteq Held(p)
           /\ \A p \in Pipes : expected[p] \in Nat
           /\ \A p \in Pipes : DOMAIN written[p] = 1 .. Len(written[p])
<1>1. /\ queue \in Seq(Nat) /\ \A p \in Pipes : written[p] \in Seq(Nat) /\ buffer[p] \subseteq Nat
  BY FrameBounds, SeqMonotonic DEF TypeOK, Frames, Pipes
<1>2. \A s \in Seq(Nat) : Elements(s) \subseteq Nat /\ DOMAIN s = 1 .. Len(s)
  BY DEF Elements
<1> QED BY <1>1, <1>2, FrameBounds DEF TypeOK, Frames, Pipes, Waiting, Held, Heard

-----------------------------------------------------------------------------
(* What a step leaves alone *)

framesVars == <<queue, buffer, written, captured, overflowed, expected>>

LEMMA FramesStay ==
    ASSUME UNCHANGED framesVars
    PROVE  /\ InOrder => InOrder'
           /\ Played => Played'
           /\ Accounted => Accounted'
           /\ \A p \in Pipes : Held(p)' = Held(p)
BY DEF framesVars, InOrder, QueueInOrder, Played, Accounted, Before, Held, Heard, Waiting, Elements

\* Steps of the sink and of the feed tasks that touch no pipeline's life, and
\* start no feed task that had ended.
LEMMA TakeoverStays ==
    ASSUME Takeover, UNCHANGED <<st, target>>,
           \A p \in Pipes : /\ p > target => Held(p)' = {}
                            /\ p < target => /\ feeder[p] = "over" => feeder'[p] = "over"
                                             /\ buffer[p] = {} => buffer'[p] = {}
    PROVE  Takeover'
BY DEF Takeover

-----------------------------------------------------------------------------
(* Type correctness *)

LEMMA InitType == Init => TypeOK
BY FrameBounds DEF Init, TypeOK, Pipes, Frames, Unset

LEMMA SinkTypes == ASSUME TypeOK, OnFrame \/ StopSink \/ Ingestion PROVE TypeOK'
<1>1. CASE OnFrame
  <2>1. captured + 1 \in Frames /\ captured' = captured + 1
    BY <1>1, FrameBounds DEF OnFrame, TypeOK, Frames
  <2>2. CASE HasRoom
    <3>1. queue' = Append(queue, captured + 1) /\ getter' = Woken /\ UNCHANGED overflowed
      BY <1>1, <2>2 DEF OnFrame
    <3>2. queue \in Seq(Frames) /\ Len(queue) < QueueSize
      BY <2>2 DEF HasRoom, TypeOK
    <3>3. Append(queue, captured + 1) \in Seq(Frames)
          /\ Len(Append(queue, captured + 1)) = Len(queue) + 1
      BY <2>1, <3>2, AppendFacts
    <3>4. Len(queue') <= QueueSize
      BY <3>1, <3>2, <3>3, FrameBounds, LenProperties
    <3> QED BY <1>1, <2>1, <3>1, <3>3, <3>4
            DEF OnFrame, TypeOK, Woken, jitterVars, feedVars, Frames
  <2>3. CASE ~HasRoom
    <3>1. overflowed' = overflowed \cup {captured + 1} /\ UNCHANGED <<queue, getter>>
      BY <1>1, <2>3 DEF OnFrame
    <3>2. overflowed' \subseteq Frames /\ captured' \in 0 .. MaxFrames
      BY <2>1, <3>1, FrameBounds DEF TypeOK, Frames
    <3> QED BY <1>1, <3>1, <3>2 DEF OnFrame, TypeOK, jitterVars, feedVars
  <2> QED BY <2>2, <2>3
<1>2. CASE TakeFrame
  <2>1. queue' \in Seq(Frames) /\ Len(queue') <= QueueSize /\ Head(queue) \in Frames
    BY <1>2, TailFacts, FrameBounds DEF TakeFrame, TypeOK
  <2>2. buffer' \in [Pipes -> SUBSET Frames] /\ primed' \in [Pipes -> BOOLEAN]
    <3>1. CASE IsLate(target, Head(queue))
      BY <1>2, <3>1 DEF TakeFrame, Push, TypeOK
    <3>2. CASE ~IsLate(target, Head(queue))
      <4>1. /\ buffer' = [buffer EXCEPT ![target] = buffer[target] \cup {Head(queue)}]
            /\ primed' = [primed EXCEPT ![target] = primed[target]
                   \/ Cardinality(buffer[target] \cup {Head(queue)}) >= JitterTarget]
        BY <1>2, <3>2 DEF TakeFrame, Push
      <4> QED BY <2>1, <4>1 DEF TypeOK
    <3> QED BY <3>1, <3>2
  <2> QED BY <1>2, <2>1, <2>2 DEF TakeFrame, TypeOK
<1>3. CASE StopSink \/ SeesEmpty \/ FallsAsleep \/ Resumes
  BY <1>3 DEF StopSink, SeesEmpty, FallsAsleep, Resumes, TypeOK, jitterVars, feedVars
<1> QED BY <1>1, <1>2, <1>3 DEF Ingestion

LEMMA PipelineTypes ==
    ASSUME TypeOK, NEW p \in Pipes,
           Build(p) \/ StartPipeline(p) \/ Swap(p) \/ StopPipeline(p) \/ EncoderDies(p)
    PROVE  TypeOK'
BY DEF Build, StartPipeline, Swap, StopPipeline, Stopped, EncoderDies, TypeOK, sinkVars,
       jitterVars, feedVars

LEMMA FeedTypes == ASSUME TypeOK, NEW p \in Pipes, Feeding(p) \/ GoesIdle(p) PROVE TypeOK'
<1>1. CASE WriteFrame(p)
  <2>1. PICK f \in buffer[p] : WriteFrame(p)!(f)
    BY <1>1 DEF WriteFrame
  <2>2. f \in Frames /\ f + 1 \in 0 .. MaxFrames + 1 /\ Append(written[p], f) \in Seq(Frames)
    BY FrameBounds, AppendFacts DEF TypeOK, Frames
  <2> QED BY <2>1, <2>2 DEF TypeOK, sinkVars
<1>2. CASE WriteSilence(p) \/ Underrun(p)
  BY <1>2 DEF WriteSilence, Underrun, NothingPopped, TypeOK, sinkVars
<1>3. CASE Drained(p) \/ DrainRaises(p) \/ SlotEnds(p) \/ GoesIdle(p)
  BY <1>3 DEF Drained, DrainRaises, SlotEnds, GoesIdle, TypeOK, sinkVars, jitterVars
<1> QED BY <1>1, <1>2, <1>3 DEF Feeding

LEMMA TypeStep == TypeOK /\ [Next]_vars => TypeOK'
<1> SUFFICES ASSUME TypeOK, [Next]_vars PROVE TypeOK'
  OBVIOUS
<1>1. CASE UNCHANGED vars
  BY <1>1 DEF vars, TypeOK
<1> QED BY <1>1, SinkTypes, PipelineTypes, FeedTypes DEF Next

-----------------------------------------------------------------------------
(* The inductive invariant *)

LEMMA InitInv == Init => IInv
<1> SUFFICES ASSUME Init PROVE IInv
  OBVIOUS
<1>1. /\ Waiting = {} /\ 1 \in Pipes /\ Pipes \subseteq Nat
      /\ \A p \in Pipes : Held(p) = {} /\ Heard(p) = {}
  BY FrameBounds DEF Init, Waiting, Held, Heard, Elements, Pipes
<1>2. TypeOK
  BY InitType
<1>3. InOrder /\ Played
  BY <1>1 DEF Init, InOrder, QueueInOrder, Before, Played, Unset
<1>4. Takeover
  BY <1>1 DEF Init, Takeover
<1>5. Accounted
  BY <1>1 DEF Init, Accounted
<1> QED BY <1>2, <1>3, <1>4, <1>5 DEF IInv

\* A new frame is later than every frame on the way.
LEMMA OnFrameKeeps == ASSUME IInv, OnFrame PROVE InOrder' /\ Takeover' /\ Played' /\ Accounted'
<1>1. /\ captured' = captured + 1 /\ captured \in Nat
      /\ UNCHANGED <<origin, st, target, buffer, expected, feeder, written>>
  BY FrameTypes DEF OnFrame, jitterVars, feedVars, IInv
<1>2. \A p \in Pipes : Held(p)' = Held(p) /\ Heard(p)' = Heard(p)
  BY <1>1 DEF Held, Heard
<1>3. Takeover' /\ Played'
  BY <1>1, <1>2 DEF IInv, Takeover, Played
<1>4. \A p \in Pipes : Held(p) \subseteq 1 .. captured
  BY DEF IInv, Accounted
<1>5. Waiting \subseteq 1 .. captured
  BY DEF IInv, Accounted
<1>6. CASE HasRoom
  <2>1. queue \in Seq(Nat) /\ captured + 1 \in Nat
    BY <1>1, FrameBounds, SeqMonotonic DEF IInv, TypeOK, Frames
  <2>2. queue' = Append(queue, captured + 1) /\ UNCHANGED overflowed
    BY <1>6 DEF OnFrame
  <2>3. Waiting' = Waiting \cup {captured + 1}
    BY <2>1, <2>2, AppendFacts DEF Waiting
  <2>4. \A i \in DOMAIN queue : queue[i] <= captured
    BY <1>1, <1>5 DEF Waiting, Elements
  <2>5. QueueInOrder'
    <3>1. /\ DOMAIN queue = 1 .. Len(queue) /\ DOMAIN queue' = 1 .. Len(queue) + 1
          /\ Len(queue) \in Nat
          /\ \A i \in 1 .. Len(queue) : queue'[i] = queue[i] /\ queue[i] \in Nat
          /\ queue'[Len(queue) + 1] = captured + 1
      BY <2>1, <2>2, AppendFacts, LenProperties, ElementOfSeq
    <3> QED BY <1>1, <2>4, <3>1 DEF IInv, InOrder, QueueInOrder
  <2>6. InOrder'
    BY <1>1, <1>2, <1>4, <2>3, <2>5 DEF IInv, InOrder, Before
  <2>7. Accounted'
    BY <1>1, <1>2, <1>4, <2>2, <2>3 DEF IInv, Accounted
  <2> QED BY <1>3, <2>6, <2>7
<1>7. CASE ~HasRoom
  <2>1. overflowed' = overflowed \cup {captured + 1} /\ UNCHANGED queue
    BY <1>7 DEF OnFrame
  <2>2. InOrder'
    BY <1>1, <1>2, <2>1 DEF IInv, InOrder, QueueInOrder, Before, Waiting
  <2>3. Waiting' = Waiting
    BY <2>1 DEF Waiting
  <2>4. Accounted'
    BY <1>1, <1>2, <1>4, <2>1, <2>3 DEF IInv, Accounted
  <2> QED BY <1>3, <2>2, <2>4
<1> QED BY <1>6, <1>7

\* The head of the queue is later than all that the pipelines hold, so the
\* jitter buffer never drops it as late.
LEMMA NeverLate ==
    ASSUME IInv, queue # <<>>
    PROVE  /\ Head(queue) \in Waiting
           /\ \A p \in Pipes : \A f \in Held(p) : f < Head(queue)
           /\ ~IsLate(target, Head(queue))
<1>1. queue \in Seq(Nat)
  BY FrameBounds, SeqMonotonic DEF IInv, TypeOK, Frames
<1>2. Head(queue) \in Waiting /\ Head(queue) \in Nat
  BY <1>1, TailFacts DEF Waiting
<1>3. \A p \in Pipes : \A f \in Held(p) : f < Head(queue)
  BY <1>2 DEF IInv, InOrder, Before
<1>4. target \in Pipes /\ expected[target] \in Nat /\ Heard(target) \subseteq Held(target)
      /\ Held(target) \subseteq Nat
  BY FrameTypes DEF IInv
<1>5. expected[target] = Unset \/ expected[target] <= Head(queue)
  BY <1>2, <1>3, <1>4 DEF IInv, Played
<1> QED BY <1>2, <1>3, <1>4, <1>5 DEF IsLate

LEMMA TakeFrameKeeps ==
    ASSUME IInv, TakeFrame PROVE InOrder' /\ Takeover' /\ Played' /\ Accounted'
<1> DEFINE h == Head(queue)
<1>1. queue \in Seq(Nat) /\ queue # <<>> /\ target \in Pipes
  BY FrameBounds, SeqMonotonic DEF IInv, TypeOK, Frames, TakeFrame
<1>2. /\ ~IsLate(target, h) /\ h \in Waiting
      /\ \A p \in Pipes : \A f \in Held(p) : f < h
  BY <1>1, NeverLate
<1>3. /\ buffer' = [buffer EXCEPT ![target] = buffer[target] \cup {h}]
      /\ queue' = Tail(queue)
      /\ UNCHANGED <<st, target, captured, overflowed, expected, feeder, written>>
  BY <1>2 DEF TakeFrame, Push
<1>4. /\ Waiting = Waiting' \cup {h}
      /\ \A i \in 1 .. Len(queue) - 1 : queue'[i] = queue[i + 1]
      /\ h = queue[1] /\ h \in Nat
      /\ DOMAIN queue = 1 .. Len(queue) /\ DOMAIN queue' = 1 .. Len(queue) - 1
      /\ Len(queue) \in Nat \ {0}
  BY <1>1, <1>3, TailFacts DEF Waiting
<1> HIDE DEF h
<1>5. QueueInOrder'
  <2> SUFFICES ASSUME NEW i \in DOMAIN queue', NEW j \in DOMAIN queue', i < j
               PROVE  queue'[i] < queue'[j]
    BY DEF QueueInOrder
  <2>1. i + 1 \in DOMAIN queue /\ j + 1 \in DOMAIN queue /\ i + 1 < j + 1
    BY <1>4
  <2> QED BY <1>4, <2>1 DEF IInv, InOrder, QueueInOrder
<1>6. \A f \in Waiting' : h < f
  <2> SUFFICES ASSUME NEW i \in DOMAIN queue' PROVE h < queue'[i]
    BY DEF Waiting, Elements
  <2>1. 1 \in DOMAIN queue /\ i + 1 \in DOMAIN queue /\ 1 < i + 1
    BY <1>4
  <2> QED BY <1>4, <2>1 DEF IInv, InOrder, QueueInOrder
<1>7. /\ \A p \in Pipes : Heard(p)' = Heard(p)
      /\ \A p \in Pipes \ {target} : buffer'[p] = buffer[p]
      /\ buffer'[target] = buffer[target] \cup {h}
  BY <1>1, <1>3 DEF Heard, IInv, TypeOK
<1>8. /\ \A p \in Pipes \ {target} : Held(p)' = Held(p)
      /\ Held(target)' = Held(target) \cup {h}
  BY <1>1, <1>3, <1>7 DEF Held
<1>9. Pipes \subseteq Nat /\ \A p \in Pipes : Held(p) \subseteq Nat /\ Heard(p) \subseteq Held(p)
  BY FrameTypes DEF IInv
<1>10. InOrder'
  <2>1. \A p \in Pipes : Before(Held(p)', Waiting')
    BY <1>3, <1>4, <1>6, <1>8 DEF IInv, InOrder, Before
  <2>2. \A p \in Pipes : Before(Heard(p)', buffer'[p])
    BY <1>2, <1>7, <1>9 DEF IInv, InOrder, Before
  <2>3. ASSUME NEW p \in Pipes, NEW q \in Pipes, p < q PROVE Before(Held(p)', Held(q)')
    <3>1. CASE p = target
      <4>1. Held(q) = {} /\ q # target
        BY <1>9, <2>3, <3>1 DEF IInv, Takeover
      <4> QED BY <1>3, <1>8, <4>1 DEF Before
    <3>2. CASE p # target
      BY <1>2, <1>3, <1>8, <2>3, <3>2 DEF IInv, InOrder, Before
    <3> QED BY <3>1, <3>2
  <2> QED BY <1>5, <2>1, <2>2, <2>3 DEF InOrder, Before
<1>11. Takeover'
  <2>1. \A p \in Pipes : p > target \/ p < target => p # target
    BY <1>1, <1>9
  <2> QED BY <1>3, <1>7, <1>8, <2>1, TakeoverStays DEF IInv, Takeover
<1>12. Played'
  BY <1>3, <1>7 DEF IInv, Played
<1>13. Accounted'
  <2>1. Accounted /\ h \notin overflowed /\ h \in 1 .. captured
    BY <1>2 DEF IInv, Accounted
  <2>2. ASSUME NEW p \in Pipes
        PROVE  Held(p) \subseteq Held(p)' /\ Held(p)' \subseteq Held(p) \cup {h}
    <3>1. CASE p = target
      BY <1>3, <1>8, <3>1 DEF Held
    <3>2. CASE p # target
      BY <1>8, <3>2
    <3> QED BY <3>1, <3>2
  <2>3. target \in Pipes /\ \A p \in Pipes : p = target => h \in Held(p)'
    BY <1>1, <1>3, <1>8 DEF Held
  <2>4. Waiting' \subseteq Waiting /\ Waiting \subseteq Waiting' \cup {h}
    BY <1>4
  <2>5. captured' = captured /\ overflowed' = overflowed
    BY <1>3
  <2>6. ASSUME NEW f \in 1 .. captured
        PROVE  f \in Waiting' \/ f \in overflowed \/ \E p \in Pipes : f \in Held(p)'
    <3>1. CASE f = h
      BY <2>3, <3>1
    <3>2. CASE f # h
      BY <2>1, <2>2, <2>4, <2>6, <3>2 DEF Accounted
    <3> QED BY <3>1, <3>2
  <2>7. Waiting' \cup overflowed \subseteq 1 .. captured /\ Waiting' \cap overflowed = {}
    BY <2>1, <2>4 DEF Accounted
  <2>8. \A p \in Pipes : Held(p)' \subseteq 1 .. captured /\ Held(p)' \cap overflowed = {}
    BY <2>1, <2>2 DEF Accounted
  <2> QED BY <2>5, <2>6, <2>7, <2>8 DEF Accounted
<1> QED BY <1>10, <1>11, <1>12, <1>13

\* Only the target has frames to write, and they follow all that was heard.
LEMMA WriterIsTarget ==
    ASSUME IInv, NEW p \in Pipes, NEW f \in buffer[p], First(p, f), feeder[p] = "pop"
    PROVE  /\ p = target
           /\ f \in 1 .. captured
           /\ \A q \in Pipes : q <= p => \A g \in Heard(q) : g < f
           /\ \A q \in Pipes : q > p => Held(q) = {}
<1>1. /\ captured \in Nat /\ target \in Nat /\ p \in Nat /\ Pipes \subseteq Nat
      /\ f \in Held(p) /\ \A q \in Pipes : Heard(q) \subseteq Held(q)
  BY FrameTypes DEF IInv, Held
<1>2. p = target
  BY <1>1 DEF IInv, Takeover
<1>3. f \in 1 .. captured
  BY <1>1 DEF IInv, Accounted
<1>4. ASSUME NEW q \in Pipes, q <= p, NEW g \in Heard(q) PROVE g < f
  <2>1. CASE q = p
    BY <1>4, <2>1 DEF IInv, InOrder, Before
  <2>2. CASE q # p
    BY <1>1, <1>4, <2>2 DEF IInv, InOrder, Before
  <2> QED BY <2>1, <2>2
<1>5. \A q \in Pipes : q > p => Held(q) = {}
  BY <1>2 DEF IInv, Takeover
<1> QED BY <1>2, <1>3, <1>4, <1>5

\* A popped frame goes from the buffer to the encoder.
LEMMA WriteFrameMoves ==
    ASSUME TypeOK, NEW p \in Pipes, NEW f \in buffer[p], WriteFrame(p)!(f)
    PROVE  /\ buffer'[p] = buffer[p] \ {f}
           /\ written'[p] = Append(written[p], f)
           /\ Heard(p)' = Heard(p) \cup {f}
           /\ Held(p)' = Held(p)
           /\ expected'[p] = f + 1
           /\ \A q \in Pipes \ {p} : /\ buffer'[q] = buffer[q] /\ written'[q] = written[q]
                                     /\ expected'[q] = expected[q] /\ feeder'[q] = feeder[q]
                                     /\ Heard(q)' = Heard(q) /\ Held(q)' = Held(q)
<1>1. written[p] \in Seq(Frames) /\ f \in Frames
  BY DEF TypeOK
<1>2. /\ buffer'[p] = buffer[p] \ {f}
      /\ written'[p] = Append(written[p], f)
      /\ expected'[p] = f + 1
      /\ \A q \in Pipes \ {p} : /\ buffer'[q] = buffer[q] /\ written'[q] = written[q]
                                /\ expected'[q] = expected[q] /\ feeder'[q] = feeder[q]
  BY DEF TypeOK, WriteFrame
<1>3. Heard(p)' = Heard(p) \cup {f}
  BY <1>1, <1>2, AppendFacts DEF Heard
<1>4. Held(p)' = Held(p)
  BY <1>2, <1>3 DEF Held
<1>5. \A q \in Pipes \ {p} : Heard(q)' = Heard(q) /\ Held(q)' = Held(q)
  BY <1>2 DEF Heard, Held
<1> QED BY <1>2, <1>3, <1>4, <1>5

LEMMA WriteFrameKeeps ==
    ASSUME IInv, NEW p \in Pipes, WriteFrame(p)
    PROVE  InOrder' /\ Takeover' /\ Played' /\ Accounted'
<1>1. PICK f \in buffer[p] : WriteFrame(p)!(f)
  BY DEF WriteFrame
<1>2. TypeOK /\ First(p, f) /\ feeder[p] = "pop"
  BY <1>1 DEF IInv
<1>3. /\ p = target
      /\ \A q \in Pipes : q > p => Held(q) = {}
  BY <1>2, WriterIsTarget
<1>4. /\ buffer'[p] = buffer[p] \ {f}
      /\ Heard(p)' = Heard(p) \cup {f}
      /\ expected'[p] = f + 1
      /\ \A q \in Pipes : Held(q)' = Held(q)
      /\ \A q \in Pipes \ {p} : /\ buffer'[q] = buffer[q] /\ expected'[q] = expected[q]
                                /\ feeder'[q] = feeder[q] /\ Heard(q)' = Heard(q)
  BY <1>1, <1>2, WriteFrameMoves
<1>5. UNCHANGED <<st, target, queue, captured, overflowed>> /\ UNCHANGED Waiting
  BY <1>1 DEF sinkVars, Waiting
<1>6. Pipes \subseteq Nat /\ \A q \in Pipes : Held(q) \subseteq Nat
  BY FrameTypes DEF IInv
<1>7. InOrder'
  <2>1. QueueInOrder'
    BY <1>5 DEF IInv, InOrder, QueueInOrder
  <2>2. Before(Heard(p)', buffer'[p])
    <3>1. \A g \in buffer[p] \ {f} : f < g
      BY <1>2, <1>6 DEF First, Held
    <3> QED BY <1>4, <3>1 DEF IInv, InOrder, Before
  <2> QED BY <1>4, <1>5, <2>1, <2>2 DEF IInv, InOrder, Before
<1>8. Takeover'
  BY <1>3, <1>4, <1>5, <1>6 DEF IInv, Takeover
<1>9. Played'
  BY <1>4 DEF IInv, Played
<1>10. Accounted'
  BY <1>4, <1>5 DEF IInv, Accounted
<1> QED BY <1>7, <1>8, <1>9, <1>10

\* Builds, starts, swaps and stops touch no frame; a swap re-points the sink
\* to the one other pipeline that runs, which is a later one.
LEMMA PipelineKeeps ==
    ASSUME IInv, NEW p \in Pipes,
           Build(p) \/ StartPipeline(p) \/ Swap(p) \/ StopPipeline(p) \/ EncoderDies(p)
    PROVE  InOrder' /\ Takeover' /\ Played' /\ Accounted'
<1>1. UNCHANGED framesVars
  BY DEF Build, StartPipeline, Swap, StopPipeline, EncoderDies, framesVars, sinkVars, jitterVars,
         feedVars
<1>2. InOrder' /\ Played' /\ Accounted' /\ \A q \in Pipes : Held(q)' = Held(q) /\ UNCHANGED buffer
  BY <1>1, FramesStay DEF IInv, framesVars
<1>3. Pipes \subseteq Nat /\ target \in Pipes
  BY FrameTypes DEF IInv
<1> USE DEF IInv, TypeOK, Takeover
<1>4. CASE Build(p)
  BY <1>2, <1>3, <1>4 DEF Build, sinkVars, feedVars
<1>5. CASE StartPipeline(p)
  <2>1. /\ st' = [st EXCEPT ![p] = "active"] /\ feeder' = [feeder EXCEPT ![p] = "pop"]
        /\ st[p] = "built" /\ target' = target
    BY <1>5 DEF StartPipeline, sinkVars
  <2>2. ~(p < target)
    BY <2>1
  <2>3. \A q \in Pipes : /\ q # p => st'[q] = st[q] /\ feeder'[q] = feeder[q]
                         /\ st'[q] = "unused" <=> st[q] = "unused"
                         /\ st'[q] \in {"built", "active"} <=> st[q] \in {"built", "active"}
    BY <2>1
  <2>4. st'[target] # "unused"
    BY <1>3, <2>3
  <2>5. \A q, r \in Pipes : q < r /\ st'[q] = "unused" => st'[r] = "unused"
    BY <2>3
  <2>6. \A q, r \in Pipes \ {target} :
           st'[q] \in {"built", "active"} /\ st'[r] \in {"built", "active"} => q = r
    BY <2>3
  <2>7. \A q \in Pipes : q < target => /\ st'[q] \in {"dead", "stopped"}
                                       /\ feeder'[q] = "over" \/ buffer[q] = {}
    BY <2>2, <2>3
  <2>8. \A q \in Pipes : q > target => Held(q) = {}
    OBVIOUS
  <2>9. Takeover'
    BY <1>2, <2>1, <2>4, <2>5, <2>6, <2>7, <2>8
  <2> QED BY <1>2, <2>9
<1>6. CASE Swap(p)
  <2>1. p > target /\ target' = p
    BY <1>3, <1>6 DEF Swap
  <2>2. /\ st' = [st EXCEPT ![target] = "stopped"]
        /\ feeder' = [feeder EXCEPT ![target] = "over"]
        /\ st[p] = "active"
    BY <1>6 DEF Swap, Stopped
  <2>3. \A q \in Pipes \ {p} : st'[q] \notin {"built", "active"}
    BY <1>3, <2>1, <2>2
  <2>4. \A q \in Pipes : q < p => st'[q] \in {"dead", "stopped"}
    BY <1>3, <2>1, <2>2, <2>3
  <2>5. \A q \in Pipes : q < p => feeder'[q] = "over" \/ buffer[q] = {}
    <3> SUFFICES ASSUME NEW q \in Pipes, q < p PROVE feeder'[q] = "over" \/ buffer[q] = {}
      OBVIOUS
    <3>1. CASE q > target
      BY <3>1 DEF Held
    <3>2. CASE q <= target
      BY <1>3, <2>2, <3>2
    <3> QED BY <1>3, <3>1, <3>2
  <2>6. \A q \in Pipes : q > p => Held(q) = {}
    BY <1>3, <2>1
  <2> QED BY <1>2, <1>3, <2>1, <2>2, <2>3, <2>4, <2>5, <2>6
<1>7. CASE StopPipeline(p)
  BY <1>2, <1>3, <1>7 DEF StopPipeline, Stopped, sinkVars
<1>8. CASE EncoderDies(p)
  BY <1>2, <1>3, <1>8 DEF EncoderDies, sinkVars, feedVars
<1> QED BY <1>2, <1>4, <1>5, <1>6, <1>7, <1>8

\* Feed tasks that write no frame, and the ingestion task between frames.
LEMMA OthersKeep ==
    ASSUME IInv,
           \/ StopSink \/ SeesEmpty \/ FallsAsleep \/ Resumes
           \/ \E p \in Pipes : \/ WriteSilence(p) \/ Underrun(p) \/ Drained(p) \/ DrainRaises(p)
                               \/ SlotEnds(p) \/ GoesIdle(p)
           \/ UNCHANGED vars
    PROVE  InOrder' /\ Takeover' /\ Played' /\ Accounted'
<1>1. /\ UNCHANGED framesVars /\ UNCHANGED <<st, target>>
      /\ \A p \in Pipes : feeder[p] = "over" => feeder'[p] = "over"
  <2>1. CASE StopSink \/ SeesEmpty \/ FallsAsleep \/ Resumes \/ UNCHANGED vars
    BY <2>1 DEF StopSink, SeesEmpty, FallsAsleep, Resumes, vars, jitterVars, feedVars, framesVars
  <2>2. ASSUME NEW p \in Pipes, WriteSilence(p) \/ Underrun(p)
        PROVE  /\ UNCHANGED framesVars /\ UNCHANGED <<st, target>>
               /\ \A q \in Pipes : feeder[q] = "over" => feeder'[q] = "over"
    BY <2>2 DEF WriteSilence, Underrun, NothingPopped, sinkVars, framesVars, IInv, TypeOK
  <2>3. ASSUME NEW p \in Pipes, Drained(p) \/ DrainRaises(p) \/ SlotEnds(p) \/ GoesIdle(p)
        PROVE  /\ UNCHANGED framesVars /\ UNCHANGED <<st, target>>
               /\ \A q \in Pipes : feeder[q] = "over" => feeder'[q] = "over"
    BY <2>3 DEF Drained, DrainRaises, SlotEnds, GoesIdle, sinkVars, jitterVars, framesVars, IInv,
                TypeOK
  <2> QED BY <2>1, <2>2, <2>3
<1>2. InOrder' /\ Played' /\ Accounted' /\ \A p \in Pipes : Held(p)' = Held(p)
  BY <1>1, FramesStay DEF IInv
<1>3. Takeover'
  BY <1>1, <1>2 DEF framesVars, IInv, Takeover
<1> QED BY <1>2, <1>3

LEMMA NextInv == IInv /\ [Next]_vars => IInv'
<1> SUFFICES ASSUME IInv, [Next]_vars PROVE IInv'
  OBVIOUS
<1>1. TypeOK'
  BY TypeStep DEF IInv
<1>2. InOrder' /\ Takeover' /\ Played' /\ Accounted'
  BY OnFrameKeeps, TakeFrameKeeps, WriteFrameKeeps, PipelineKeeps, OthersKeep
     DEF Next, Ingestion, Feeding
<1> QED BY <1>1, <1>2 DEF IInv

\* The invariant that the theorems below rest on.
THEOREM Invariant == Spec => []IInv
<1>1. Init => IInv
  BY InitInv
<1>2. IInv /\ [Next]_vars => IInv'
  BY NextInv
<1> QED BY <1>1, <1>2, PTL DEF Spec

-----------------------------------------------------------------------------
(* What the runs check, for every value of the constants *)

\* The variables keep their types, and the sink's queue its bound.
THEOREM FrameTypeCorrect == Spec => []TypeOK
<1>1. IInv => TypeOK
  BY DEF IInv
<1> QED BY <1>1, Invariant, PTL

\* A position in the queue, a jitter buffer, an encoder or the drop count
\* holds the frame, and then no other place does.
LEMMA OnePlace == ASSUME IInv PROVE EveryFrameAccounted
<1> SUFFICES ASSUME NEW f \in 1 .. captured PROVE Cardinality(Places(f)) = 1
  BY DEF EveryFrameAccounted
<1> DEFINE inQueue   == {<<"queue", i>> : i \in {j \in DOMAIN queue : queue[j] = f}}
           inBuffer  == {<<"buffer", p>> : p \in {q \in Pipes : f \in buffer[q]}}
           inEncoder == {<<"encoder", p>> :
                            p \in {q \in Pipes : \E i \in DOMAIN written[q] : written[q][i] = f}}
           inDropped == {<<"dropped", 0>> : x \in {f} \cap overflowed}
<1>1. Places(f) = inQueue \cup inBuffer \cup inEncoder \cup inDropped
  BY DEF Places
<1>2. /\ \A p \in Pipes : f \in Heard(p) <=> \E i \in DOMAIN written[p] : written[p][i] = f
      /\ f \in Waiting <=> \E i \in DOMAIN queue : queue[i] = f
  BY DEF Heard, Waiting, Elements
<1>3. f \notin Waiting => inQueue = {}
  BY <1>2
<1>4. (\A p \in Pipes : f \notin Held(p)) => inBuffer = {} /\ inEncoder = {}
  BY <1>2 DEF Held
<1>5. f \notin overflowed => inDropped = {}
  OBVIOUS
<1>6. f \in Nat /\ Pipes \subseteq Nat
  BY FrameTypes DEF IInv
<1>7. \E x : Places(f) = {x}
  <2>1. CASE f \in Waiting
    <3>1. PICK i \in DOMAIN queue : queue[i] = f
      BY <1>2, <2>1
    <3>2. \A j \in DOMAIN queue : queue[j] = f => j = i
      <4>1. queue \in Seq(Nat)
        BY FrameBounds, SeqMonotonic DEF IInv, TypeOK, Frames
      <4>2. DOMAIN queue \subseteq Nat /\ \A j \in DOMAIN queue : queue[j] \in Nat
        BY <4>1
      <4> QED BY <3>1, <4>2 DEF IInv, InOrder, QueueInOrder
    <3>3. inQueue = {<<"queue", i>>}
      BY <3>1, <3>2
    <3>4. f \notin overflowed /\ \A p \in Pipes : f \notin Held(p)
      BY <1>6, <2>1 DEF IInv, InOrder, Before, Accounted
    <3> HIDE DEF inQueue, inBuffer, inEncoder, inDropped
    <3> QED BY <1>1, <1>4, <1>5, <3>3, <3>4
  <2>2. ASSUME NEW p \in Pipes, f \in Held(p) PROVE \E x : Places(f) = {x}
    <3>1. f \notin overflowed /\ f \notin Waiting
      BY <1>6, <2>2 DEF IInv, InOrder, Before, Accounted
    <3>2. \A q \in Pipes : f \in Held(q) => q = p
      BY <1>6, <2>2 DEF IInv, InOrder, Before
    <3>3. ~(f \in buffer[p] /\ f \in Heard(p))
      BY <1>6 DEF IInv, InOrder, Before
    <3>4. CASE f \in buffer[p]
      <4>1. inBuffer = {<<"buffer", p>>}
        BY <3>2, <3>4 DEF Held
      <4>2. inEncoder = {}
        BY <1>2, <3>2, <3>3, <3>4 DEF Held
      <4> HIDE DEF inQueue, inBuffer, inEncoder, inDropped
      <4> QED BY <1>1, <1>3, <1>5, <3>1, <4>1, <4>2
    <3>5. CASE f \in Heard(p)
      <4>1. inEncoder = {<<"encoder", p>>}
        BY <1>2, <3>2, <3>5 DEF Held
      <4>2. inBuffer = {}
        BY <3>2, <3>3, <3>5 DEF Held
      <4> HIDE DEF inQueue, inBuffer, inEncoder, inDropped
      <4> QED BY <1>1, <1>3, <1>5, <3>1, <4>1, <4>2
    <3> QED BY <2>2, <3>4, <3>5 DEF Held
  <2>3. CASE f \in overflowed
    <3>1. f \notin Waiting /\ \A p \in Pipes : f \notin Held(p)
      BY <2>3 DEF IInv, Accounted
    <3>2. inDropped = {<<"dropped", 0>>}
      BY <2>3
    <3> HIDE DEF inQueue, inBuffer, inEncoder, inDropped
    <3> QED BY <1>1, <1>3, <1>4, <3>1, <3>2
  <2> QED BY <2>1, <2>2, <2>3 DEF IInv, Accounted
<1> QED BY <1>7, FS_Singleton

\* Every captured frame is in exactly one place, over every swap.
THEOREM FramesAreAccounted == Spec => []EveryFrameAccounted
<1>1. IInv => EveryFrameAccounted
  BY OnePlace
<1> QED BY <1>1, Invariant, PTL

-----------------------------------------------------------------------------
(* The frame path implements FrameChannel *)

LEMMA ChannelInit == Init => Channel!Init
BY DEF Init, Channel!Init

\* A written frame is the next one an encoder may hear; a captured one is
\* sent; every other step leaves the channel as it is.
LEMMA ChannelStep == ASSUME IInv, [Next]_vars PROVE [Channel!Next]_<<captured, written>>
<1>1. CASE OnFrame
  BY <1>1 DEF OnFrame, feedVars, Channel!Next, Channel!Send
<1>2. ASSUME NEW p \in Pipes, WriteFrame(p) PROVE Channel!Next
  <2>1. PICK f \in buffer[p] : WriteFrame(p)!(f)
    BY <1>2 DEF WriteFrame
  <2>2. /\ p = target /\ f \in 1 .. captured
        /\ \A q \in Pipes : q <= p => \A g \in Heard(q) : g < f
        /\ \A q \in Pipes : q > p => Held(q) = {}
    BY <2>1, WriterIsTarget
  <2>3. Channel!Follows(f, p)
    <3> SUFFICES ASSUME NEW d \in Pipes, NEW i \in DOMAIN written[d]
                 PROVE  IF d <= p THEN written[d][i] < f ELSE f < written[d][i]
      BY DEF Channel!Follows
    <3>1. written[d][i] \in Heard(d) /\ Heard(d) \subseteq Held(d)
      BY DEF Heard, Held, Elements
    <3>2. d \in Nat /\ p \in Nat
      BY FrameTypes DEF IInv
    <3> QED BY <2>2, <3>1, <3>2
  <2>4. written' = [written EXCEPT ![p] = Append(@, f)] /\ UNCHANGED captured
    BY <2>1 DEF sinkVars
  <2> QED BY <2>2, <2>3, <2>4 DEF Channel!Next, Channel!Hear
<1>3. ASSUME NEW p \in Pipes,
             \/ Build(p) \/ StartPipeline(p) \/ Swap(p) \/ StopPipeline(p) \/ EncoderDies(p)
             \/ GoesIdle(p) \/ WriteSilence(p) \/ Underrun(p) \/ Drained(p) \/ DrainRaises(p)
             \/ SlotEnds(p)
      PROVE  UNCHANGED <<captured, written>>
  BY <1>3 DEF Build, StartPipeline, Swap, StopPipeline, EncoderDies, GoesIdle, WriteSilence,
         Underrun, NothingPopped, Drained, DrainRaises, SlotEnds, sinkVars, feedVars
<1>4. CASE StopSink \/ Ingestion
  BY <1>4 DEF StopSink, Ingestion, TakeFrame, SeesEmpty, FallsAsleep, Resumes, feedVars
<1>5. CASE UNCHANGED vars
  BY <1>5 DEF vars
<1> QED BY <1>1, <1>2, <1>3, <1>4, <1>5 DEF Next, Feeding

\* Encoders hear frames in the order of capture, none twice, and none that
\* another encoder has heard.
THEOREM FrameRefinement == Spec => ChannelSpec
<1>1. Init => Channel!Init
  BY ChannelInit
<1>2. IInv /\ [Next]_vars => [Channel!Next]_<<captured, written>>
  BY ChannelStep
<1> QED BY <1>1, <1>2, Invariant, PTL DEF Spec, ChannelSpec, Channel!Spec
=============================================================================
