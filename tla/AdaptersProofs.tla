--------------------------- MODULE AdaptersProofs ---------------------------
(***************************************************************************)
(* Proofs about the small parts that MCAdapters puts side by side, for any *)
(* constants that its assumptions allow.  Every part has an invariant of   *)
(* its own.                                                                *)
(***************************************************************************)
EXTENDS MCAdapters, Sequences, FiniteSetTheorems, TLAPS

-----------------------------------------------------------------------------
(* A behaviour of all the parts is one of each *)

LEMMA IsCallback == Spec => Callback!Spec
<1>1. Init => Callback!Init
  BY DEF Init
<1>2. [Next]_vars => [Callback!Next]_Callback!vars
  BY DEF Next, vars, Rest, callback_vars, Callback!vars, Callback!diagnostics, Callback!start
<1> QED
  BY <1>1, <1>2, PTL DEF Spec, Callback!Spec

LEMMA IsPairing == Spec => Pairing!Spec
<1>1. Init => Pairing!Init
  BY DEF Init
<1>2. [Next]_vars => [Pairing!Next]_Pairing!vars
  BY DEF Next, vars, Rest, pairing_vars, Pairing!vars
<1> QED
  BY <1>1, <1>2, PTL DEF Spec, Pairing!Spec

LEMMA IsSonos == Spec => Sonos!Spec
<1>1. Init => Sonos!Init
  BY DEF Init
<1>2. [Next]_vars => [Sonos!Next]_Sonos!vars
  BY DEF Next, vars, Rest, sonos_vars, Sonos!vars
<1> QED
  BY <1>1, <1>2, PTL DEF Spec, Sonos!Spec

LEMMA IsTrust == Spec => Trust!Spec
<1>1. Init => Trust!Init
  BY DEF Init
<1>2. [Next]_vars => [Trust!Next]_Trust!vars
  BY DEF Next, vars, Rest, trust_vars, Trust!vars, Trust!store, Trust!startup, Trust!facts
<1> QED
  BY <1>1, <1>2, PTL DEF Spec, Trust!Spec

LEMMA IsProfile == Spec => Profile!Spec
<1>1. Init => Profile!Init
  BY DEF Init
<1>2. [Next]_vars => [Profile!Next]_Profile!vars
  BY DEF Next, vars, Rest, profile_vars, Profile!vars, Profile!session,
         Profile!attempt, Profile!facts
<1> QED
  BY <1>1, <1>2, PTL DEF Spec, Profile!Spec

-----------------------------------------------------------------------------
(* PortAudio's callback *)

\* The last level is reached with a frame, and what is taken for a signal has
\* been heard in the same capture.
CallbackInv ==
    /\ Callback!TypeOK
    /\ Callback!CallbackFindsSink
    /\ level = Callback!Frames => fed
    /\ signal => heard
    /\ verdict = "active" => fed \/ heard

LEMMA CallbackInit == Callback!Init => CallbackInv
<1> SUFFICES ASSUME Callback!Init
             PROVE  CallbackInv
  OBVIOUS
<1> USE DEF Callback!Init, Callback!Nothing, Callback!Frames
<1>1. Callback!TypeOK
  <2>1. starts \in 0 .. MaxStarts /\ level \in 0 .. 3
    BY Bounds
  <2> QED
    BY <2>1 DEF Callback!TypeOK
<1>2. Callback!CallbackFindsSink
  BY DEF Callback!CallbackFindsSink
<1> QED
  BY <1>1, <1>2 DEF CallbackInv

LEMMA CallbackNext == CallbackInv /\ [Callback!Next]_Callback!vars => CallbackInv'
<1> SUFFICES ASSUME CallbackInv, [Callback!Next]_Callback!vars
             PROVE  CallbackInv'
  OBVIOUS
<1> USE DEF CallbackInv, Callback!TypeOK, Callback!CallbackFindsSink, Callback!diagnostics,
            Callback!start, Callback!Nothing, Callback!Callbacks, Callback!Samples,
            Callback!Frames
<1>1. CASE Callback!RefreshBackend
  BY <1>1 DEF Callback!RefreshBackend
<1>2. ASSUME NEW s \in Sinks, Callback!Start(s)
      PROVE  CallbackInv'
  <2>1. starts' \in 0 .. MaxStarts /\ sessionId' \in 1 .. MaxStarts /\ level' \in 0 .. 3
    BY <1>2, Bounds DEF Callback!Start, Callback!Begins, Callback!Reset
  <2>2. frameSink' \in Sinks /\ frameSink' # None
    BY <1>2, Distinct DEF Callback!Start
  <2>3. Callback!TypeOK'
    BY <1>2, <2>1, <2>2 DEF Callback!Start, Callback!Begins, Callback!Reset
  <2> HIDE DEF Callback!TypeOK
  <2> QED
    BY <1>2, <2>2, <2>3 DEF Callback!Start, Callback!Begins, Callback!Reset
<1>3. CASE Callback!StartWithoutDevice
  BY <1>3, Bounds DEF Callback!StartWithoutDevice, Callback!Begins
<1>4. CASE Callback!Opens
  BY <1>4 DEF Callback!Opens
<1>5. CASE Callback!StartFails
  BY <1>5 DEF Callback!StartFails
<1>6. CASE Callback!Starts
  BY <1>6 DEF Callback!Starts
<1>7. CASE Callback!Runs
  BY <1>7 DEF Callback!Runs
<1>8. CASE Callback!CallbackChecks
  BY <1>8 DEF Callback!CallbackChecks
<1>9. CASE Callback!CallbackConverts
  BY <1>9 DEF Callback!CallbackConverts
<1>10. CASE Callback!CallbackDelivers
  <2>1. Callback!TypeOK' /\ Callback!CallbackFindsSink'
    BY <1>10 DEF Callback!CallbackDelivers
  <2>2. level' = Callback!Frames => fed'
    BY <1>10 DEF Callback!CallbackDelivers
  <2>3. signal' = signal /\ heard' = heard /\ verdict' = verdict /\ (fed => fed')
    BY <1>10 DEF Callback!CallbackDelivers
  <2> QED
    BY <2>1, <2>2, <2>3
<1>11. CASE Callback!CallbackFails
  BY <1>11 DEF Callback!CallbackFails
<1>12. CASE Callback!Stop
  <2>1. /\ capturing' \in BOOLEAN /\ call' = "closing"
        /\ UNCHANGED <<backend, frameSink, sessionId, stream, callback, level, signal, lastError,
                       fed, heard, leaked, starts, verdict, allowSilent>>
    BY <1>12 DEF Callback!Stop
  <2> QED
    BY <2>1
<1>13. CASE Callback!Closes
  BY <1>13 DEF Callback!Closes, Callback!CanClose, Callback!Forgets
<1>14. CASE Callback!CloseFails
  BY <1>14 DEF Callback!CloseFails, Callback!CanClose, Callback!Forgets
<1>15. CASE Callback!Poll
  BY <1>15 DEF Callback!Poll, Callback!Classified, Callback!Healthy,
              Callback!PublicState
<1>16. CASE Callback!Deadline
  BY <1>16 DEF Callback!Deadline
<1>17. CASE UNCHANGED Callback!vars
  BY <1>17 DEF Callback!vars
<1> QED
  BY <1>1, <1>2, <1>3, <1>4, <1>5, <1>6, <1>7, <1>8, <1>9, <1>10, <1>11, <1>12, <1>13, <1>14,
     <1>15, <1>16, <1>17
  DEF Callback!Next

\* The callback never uses a sink that stop has taken away, unless closing the
\* stream has failed, and the health and the verdict of a start on Windows are
\* never those of the capture before.
THEOREM CapturesAreTheirOwn == Spec => [](Callback!TypeOK /\ CaptureIsItsOwn)
<1>1. CallbackInv => Callback!TypeOK /\ CaptureIsItsOwn
  BY DEF CallbackInv, CaptureIsItsOwn, Callback!HealthIsOfThisCapture, Callback!PublicState
<1>2. Callback!Spec => [](Callback!TypeOK /\ CaptureIsItsOwn)
  BY <1>1, CallbackInit, CallbackNext, PTL DEF Callback!Spec
<1> QED
  BY <1>2, IsCallback, PTL


-----------------------------------------------------------------------------
(* The pairing window *)

\* Windows are opened in their order, and the ones that ended by themselves are
\* those the bus was told of.
Ran == {w \in Pairing!Windows : stage[w] = "over"}

Counted ==
    /\ \A w \in Pairing!Windows : stage[w] = "none" <=> opened < w
    /\ closed = Cardinality(Ran)

\* As long as no call hits a clean-up or the next window, the task that works or
\* cleans up is the only one, of the window that is open.
AtWork(w) == stage[w] \in Pairing!Working \cup Pairing!CleaningUp

OneAtWork == \A w \in Pairing!Windows : AtWork(w) => isOpen /\ task = w

\* What a window has turned on is turned off further on in its clean-up.
MayBePaired(w) == stage[w] \in {"showing", "waiting", "hiding", "pairing off"}
MayBeFound(w)  == stage[w] \in {"waiting", "hiding"}

Leaves ==
    /\ \A w \in agent : AtWork(w) /\ stage[w] \notin {"connecting", "registering"}
    /\ ~kept /\ pairable => \E w \in Pairing!Windows : MayBePaired(w)
    /\ ~kept /\ discoverable => \E w \in Pairing!Windows : MayBeFound(w)

PairingInv == Pairing!TypeOK /\ Counted /\ (~crossed => OneAtWork /\ Leaves)

LEMMA SomeWindows ==
    ASSUME NEW S \in SUBSET Pairing!Windows
    PROVE  IsFiniteSet(S) /\ Cardinality(S) \in 0 .. MaxWindows
<1>1. IsFiniteSet(Pairing!Windows) /\ Cardinality(Pairing!Windows) = MaxWindows
  BY Bounds, FS_Interval DEF Pairing!Windows
<1> QED
  BY <1>1, FS_Subset, FS_CardinalityType, Bounds

LEMMA PairingInit == Pairing!Init => PairingInv
<1> SUFFICES ASSUME Pairing!Init
             PROVE  PairingInv
  OBVIOUS
<1>1. Pairing!TypeOK
  <2>1. closer \in [Pairing!Windows -> 0 .. Pairing!MaxClosers]
    BY DEF Pairing!Init, Pairing!MaxClosers
  <2>2. opened \in 0 .. MaxWindows /\ closed \in 0 .. MaxWindows
    BY Bounds DEF Pairing!Init
  <2> QED
    BY <2>1, <2>2 DEF Pairing!Init, Pairing!TypeOK, Pairing!Ended
<1>2. Counted
  <2>1. Ran = {}
    BY DEF Pairing!Init, Ran
  <2>2. Cardinality(Ran) = 0
    BY <2>1, FS_EmptySet
  <2> QED
    BY <2>2 DEF Pairing!Init, Counted, Pairing!Windows
<1>3. OneAtWork /\ Leaves
  BY DEF Pairing!Init, OneAtWork, Leaves, AtWork, Pairing!Working, Pairing!CleaningUp
<1> QED
  BY <1>1, <1>2, <1>3 DEF PairingInv

\* Neither the windows that were opened nor those that ended change.
LEMMA CountedStays ==
    ASSUME PairingInv, opened' = opened, closed' = closed,
           \A w \in Pairing!Windows :
               /\ stage'[w] = "none" <=> stage[w] = "none"
               /\ stage'[w] = "over" <=> stage[w] = "over"
    PROVE  Counted'
<1>1. Ran' = Ran
  BY DEF Ran
<1> QED
  BY <1>1 DEF PairingInv, Counted

\* The same for the rest of the invariant, when only the stage of a window at work
\* changes and it stays at work.
LEMMA WorkGoesOn ==
    ASSUME PairingInv, NEW w \in Pairing!Windows, NEW to, ~crossed, AtWork(w),
           stage' = [stage EXCEPT ![w] = to], isOpen' = isOpen, task' = task
    PROVE  OneAtWork' /\ \A v \in Pairing!Windows \ {w} : stage'[v] = stage[v] /\ ~AtWork(v)
<1>1. stage \in [Pairing!Windows -> Pairing!Working \cup Pairing!CleaningUp \cup Pairing!Ended]
      /\ OneAtWork
  BY DEF PairingInv, Pairing!TypeOK
<1>2. task = w /\ isOpen /\ \A v \in Pairing!Windows \ {w} : stage'[v] = stage[v] /\ ~AtWork(v)
  BY <1>1 DEF OneAtWork
<1> QED
  BY <1>1, <1>2 DEF OneAtWork, AtWork

LEMMA OpenInv ==
    ASSUME PairingInv, NEW w \in Pairing!Windows, NEW c \in Devices \cup {Anyone},
           Pairing!Open(w, c)
    PROVE  PairingInv'
<1>1. Pairing!TypeOK /\ Counted /\ (~crossed => OneAtWork /\ Leaves)
  BY DEF PairingInv
<1>2. w \in 1 .. MaxWindows /\ opened \in Nat /\ opened < w /\ opened' = opened + 1
  BY <1>1, Bounds DEF Pairing!Open, Counted, Pairing!Windows, Pairing!TypeOK
<1>3. opened = w - 1
  <2>1. ASSUME opened + 1 < w
        PROVE  FALSE
    <3>1. opened + 1 \in 1 .. w - 1 /\ opened + 1 \in Pairing!Windows
      BY <1>2, <2>1, Bounds DEF Pairing!Windows
    <3>2. stage[opened + 1] # "none"
      BY <3>1 DEF Pairing!Open
    <3> QED
      BY <1>1, <1>2, <3>1, <3>2 DEF Counted
  <2> QED
    BY <1>2, <2>1
<1>4. Pairing!TypeOK'
  <2>1. opened' \in 0 .. MaxWindows
    BY <1>2, <1>3, Bounds
  <2> QED
    BY <1>1, <2>1 DEF Pairing!Open, Pairing!TypeOK, Pairing!Working
<1>5. /\ closed' = closed /\ stage' = [stage EXCEPT ![w] = "connecting"] /\ stage[w] = "none"
      /\ opened' = w /\ w \in Nat
      /\ stage \in [Pairing!Windows -> Pairing!Working \cup Pairing!CleaningUp \cup Pairing!Ended]
  BY <1>1, <1>2, <1>3 DEF Pairing!Open, Pairing!TypeOK
<1>6. Counted'
  <2>1. Ran' = Ran
    BY <1>5 DEF Ran
  <2>2. ASSUME NEW v \in Pairing!Windows
        PROVE  stage'[v] = "none" <=> w < v
    <3>1. (stage[v] = "none" <=> w - 1 < v) /\ v \in Nat
      BY <1>1, <1>3 DEF Counted, Pairing!Windows
    <3> QED
      BY <1>5, <3>1
  <2> QED
    BY <1>1, <1>5, <2>1, <2>2 DEF Counted
<1>7. ASSUME ~crossed
      PROVE  OneAtWork' /\ Leaves'
  <2>1. \A v \in Pairing!Windows : ~AtWork(v)
    BY <1>1, <1>7 DEF Pairing!Open, OneAtWork
  <2>2. agent = {}
    BY <1>1, <1>7, <2>1 DEF Leaves, Pairing!TypeOK
  <2>3. \A v \in Pairing!Windows : ~MayBePaired(v) /\ ~MayBeFound(v)
    BY <2>1 DEF AtWork, MayBePaired, MayBeFound, Pairing!Working, Pairing!CleaningUp
  <2>4. ~kept => ~pairable /\ ~discoverable
    BY <1>1, <1>7, <2>3 DEF Leaves
  <2>5. OneAtWork'
    BY <1>5, <2>1 DEF Pairing!Open, OneAtWork, AtWork
  <2> QED
    BY <2>2, <2>4, <2>5 DEF Pairing!Open, Leaves
<1> QED
  BY <1>4, <1>6, <1>7 DEF Pairing!Open, PairingInv

LEMMA CloseInv == ASSUME PairingInv, Pairing!Close PROVE PairingInv'
<1>1. Pairing!TypeOK /\ (~crossed => OneAtWork /\ Leaves)
  BY DEF PairingInv
<1> DEFINE to == Pairing!CancelledAt(stage[task])
<1>2. /\ isOpen /\ task \in Pairing!Windows
      /\ UNCHANGED <<isOpen, task, candidate, completion, agent, pairable, discoverable, opened,
                     closed, paired, kept>>
      /\ crossed' = (crossed \/ stage[task] \in Pairing!CleaningUp)
      /\ stage' = [stage EXCEPT ![task] = to]
      /\ stage \in [Pairing!Windows -> Pairing!Working \cup Pairing!CleaningUp \cup Pairing!Ended]
  BY <1>1 DEF Pairing!Close, Pairing!TypeOK, Pairing!CancelledAt
<1>3. closer' \in [Pairing!Windows -> 0 .. Pairing!MaxClosers]
  BY <1>1, <1>2 DEF Pairing!Close, Pairing!TypeOK, Pairing!MaxClosers
<1>4. /\ to \in Pairing!Working \cup Pairing!CleaningUp \cup Pairing!Ended
      /\ (to = "none" <=> stage[task] = "none") /\ (to = "over" <=> stage[task] = "over")
      /\ ~AtWork(task) => to = stage[task]
      /\ stage[task] = "connecting" => to = "cancelled"
      /\ AtWork(task) /\ stage[task] \notin Pairing!CleaningUp \cup {"connecting"} => to = "hiding"
  BY <1>2 DEF AtWork, Pairing!CancelledAt, Pairing!Working, Pairing!CleaningUp, Pairing!Ended
<1> HIDE DEF to
<1>5. Pairing!TypeOK'
  BY <1>1, <1>2, <1>3, <1>4 DEF Pairing!TypeOK
<1>6. Counted'
  BY <1>2, <1>4, CountedStays
<1>7. ASSUME ~crossed, stage[task] \notin Pairing!CleaningUp
      PROVE  OneAtWork' /\ Leaves'
  <2>1. CASE ~AtWork(task)
    <3>1. stage' = stage
      BY <1>2, <1>4, <2>1
    <3> QED
      BY <1>1, <1>2, <1>7, <3>1 DEF OneAtWork, Leaves, AtWork, MayBePaired, MayBeFound
  <2>2. CASE stage[task] = "connecting"
    <3>1. AtWork(task) /\ stage'[task] = "cancelled"
      BY <1>2, <1>4, <2>2 DEF AtWork, Pairing!Working
    <3>2. OneAtWork' /\ \A v \in Pairing!Windows \ {task} : stage'[v] = stage[v] /\ ~AtWork(v)
      BY <1>2, <1>7, <3>1, WorkGoesOn
    <3>3. agent = {}
      BY <1>1, <1>2, <1>7, <2>2, <3>2 DEF Leaves, Pairing!TypeOK
    <3>4. \A v \in Pairing!Windows : ~MayBePaired(v) /\ ~MayBeFound(v)
      BY <2>2, <3>2 DEF AtWork, MayBePaired, MayBeFound, Pairing!Working, Pairing!CleaningUp
    <3> QED
      BY <1>1, <1>2, <1>7, <3>2, <3>3, <3>4 DEF Leaves
  <2>3. CASE AtWork(task) /\ stage[task] # "connecting"
    <3>1. stage'[task] = "hiding"
      BY <1>2, <1>4, <1>7, <2>3
    <3>2. OneAtWork' /\ \A v \in Pairing!Windows \ {task} : stage'[v] = stage[v] /\ ~AtWork(v)
      BY <1>2, <1>7, <2>3, WorkGoesOn
    <3>3. AtWork(task)' /\ MayBePaired(task)' /\ MayBeFound(task)'
      BY <1>2, <3>1 DEF AtWork, MayBePaired, MayBeFound, Pairing!CleaningUp
    <3>4. \A v \in agent : v = task
      BY <1>1, <1>7, <3>2 DEF Leaves, Pairing!TypeOK
    <3> QED
      BY <1>2, <3>1, <3>2, <3>3, <3>4 DEF Leaves
  <2> QED
    BY <2>1, <2>2, <2>3
<1> QED
  BY <1>2, <1>5, <1>6, <1>7 DEF PairingInv

\* Neither stages nor properties change.
LEMMA StagesStay ==
    ASSUME PairingInv, Pairing!TypeOK', UNCHANGED <<stage, agent, pairable, discoverable, opened,
                                                    closed, kept>>,
           ~crossed' => ~crossed /\ (UNCHANGED <<isOpen, task>>
                                      \/ \A w \in Pairing!Windows : ~AtWork(w))
    PROVE  PairingInv'
<1>1. ~crossed => OneAtWork /\ Leaves
  BY DEF PairingInv
<1>2. Counted'
  BY CountedStays
<1>3. ASSUME ~crossed'
      PROVE  OneAtWork' /\ Leaves'
  <2>1. OneAtWork'
    <3>1. CASE UNCHANGED <<isOpen, task>>
      BY <1>1, <1>3, <3>1 DEF OneAtWork, AtWork
    <3>2. CASE \A w \in Pairing!Windows : ~AtWork(w)
      BY <3>2 DEF OneAtWork, AtWork
    <3> QED
      BY <1>3, <3>1, <3>2
  <2>2. Leaves'
    BY <1>1, <1>3 DEF Leaves, AtWork, MayBePaired, MayBeFound
  <2> QED
    BY <2>1, <2>2
<1> QED
  BY <1>2, <1>3 DEF PairingInv

LEMMA ClosedInv ==
    ASSUME PairingInv, NEW w \in Pairing!Windows, Pairing!Closed(w) \/ Pairing!CloseRaises(w)
    PROVE  PairingInv'
<1>1. Pairing!TypeOK /\ (~crossed => OneAtWork)
  BY DEF PairingInv
<1>2. closer \in [Pairing!Windows -> 0 .. 2] /\ closer[w] \in 1 .. 2
      /\ closer' = [closer EXCEPT ![w] = closer[w] - 1]
  BY <1>1 DEF Pairing!Closed, Pairing!CloseRaises, Pairing!TypeOK, Pairing!MaxClosers
<1>3. closer' \in [Pairing!Windows -> 0 .. 2]
  BY <1>2
<1>4. CASE Pairing!Closed(w)
  <2>1. Pairing!TypeOK'
    BY <1>1, <1>3, <1>4 DEF Pairing!Closed, Pairing!TypeOK, Pairing!MaxClosers
  <2>2. ASSUME ~crossed'
        PROVE  \A v \in Pairing!Windows : ~AtWork(v)
    <3>1. ~crossed /\ task \in {w, None}
      BY <1>4, <2>2 DEF Pairing!Closed
    <3>2. ~AtWork(w)
      BY <1>4 DEF Pairing!Closed, AtWork, Pairing!Working, Pairing!CleaningUp
    <3>3. None \notin Pairing!Windows
      BY Bounds, Distinct DEF Pairing!Windows
    <3> QED
      BY <1>1, <3>1, <3>2, <3>3 DEF OneAtWork
  <2> QED
    BY <1>4, <2>1, <2>2, StagesStay DEF Pairing!Closed
<1>5. CASE Pairing!CloseRaises(w)
  <2>1. Pairing!TypeOK'
    BY <1>1, <1>3, <1>5 DEF Pairing!CloseRaises, Pairing!TypeOK, Pairing!MaxClosers
  <2> QED
    BY <1>5, <2>1, StagesStay DEF Pairing!CloseRaises
<1> QED
  BY <1>4, <1>5

\* The task of a window goes one step further, up to the end of its clean-up.
LEMMA GoesOnInv ==
    ASSUME PairingInv, NEW w \in Pairing!Windows,
           \/ Pairing!Connects(w) \/ Pairing!Registers(w) \/ Pairing!PairingOn(w)
           \/ Pairing!Shows(w) \/ Pairing!Completes(w) \/ Pairing!Hides(w) \/ Pairing!PairingOff(w)
    PROVE  PairingInv'
<1>1. Pairing!TypeOK /\ (~crossed => OneAtWork /\ Leaves)
  BY DEF PairingInv
<1>2. Pairing!TypeOK'
  BY <1>1 DEF Pairing!Connects, Pairing!Registers, Pairing!PairingOn, Pairing!Shows,
              Pairing!Completes,
              Pairing!Hides, Pairing!PairingOff, Pairing!Goes, Pairing!TypeOK, Pairing!Working,
              Pairing!CleaningUp, Pairing!Ended
<1>3. /\ UNCHANGED <<isOpen, task, opened, closed, crossed>> /\ AtWork(w)
      /\ \E to : /\ stage' = [stage EXCEPT ![w] = to]
                 /\ to \notin {"none", "over"} /\ stage[w] \notin {"none", "over"}
  BY DEF Pairing!Connects, Pairing!Registers, Pairing!PairingOn, Pairing!Shows, Pairing!Completes,
         Pairing!Hides, Pairing!PairingOff, Pairing!Goes, AtWork, Pairing!Working,
         Pairing!CleaningUp
<1>4. Counted'
  BY <1>1, <1>3, CountedStays DEF Pairing!TypeOK
<1>5. ASSUME ~crossed
      PROVE  OneAtWork' /\ Leaves'
  <2>1. OneAtWork' /\ \A v \in Pairing!Windows \ {w} : stage'[v] = stage[v] /\ ~AtWork(v)
    BY <1>3, <1>5, WorkGoesOn
  <2>2. stage \in [Pairing!Windows -> Pairing!Working \cup Pairing!CleaningUp \cup Pairing!Ended]
        /\ Leaves
    BY <1>1, <1>5 DEF Pairing!TypeOK
  <2>3. /\ \A v \in agent : v = w /\ stage[w] \notin {"connecting", "registering"}
        /\ ~kept /\ pairable => MayBePaired(w)
        /\ ~kept /\ discoverable => MayBeFound(w)
    BY <1>1, <2>1, <2>2
    DEF Leaves, AtWork, MayBePaired, MayBeFound, Pairing!TypeOK, Pairing!Working,
        Pairing!CleaningUp
  <2>4. /\ \A v \in agent' : v = w /\ AtWork(w)' /\ stage'[w] \notin {"connecting", "registering"}
        /\ ~kept' /\ pairable' => MayBePaired(w)'
        /\ ~kept' /\ discoverable' => MayBeFound(w)'
    <3> USE DEF Pairing!Goes, AtWork, MayBePaired, MayBeFound, Pairing!Working,
                Pairing!CleaningUp
    <3>1. CASE Pairing!Connects(w)
      BY <2>2, <2>3, <3>1 DEF Pairing!Connects
    <3>2. CASE Pairing!Registers(w)
      BY <2>2, <2>3, <3>2 DEF Pairing!Registers
    <3>3. CASE Pairing!PairingOn(w)
      BY <2>2, <2>3, <3>3 DEF Pairing!PairingOn
    <3>4. CASE Pairing!Shows(w)
      BY <2>2, <2>3, <3>4 DEF Pairing!Shows
    <3>5. CASE Pairing!Completes(w)
      BY <2>2, <2>3, <3>5 DEF Pairing!Completes
    <3>6. CASE Pairing!Hides(w)
      BY <2>2, <2>3, <3>6 DEF Pairing!Hides
    <3>7. CASE Pairing!PairingOff(w)
      BY <2>2, <2>3, <3>7 DEF Pairing!PairingOff
    <3> QED
      BY <3>1, <3>2, <3>3, <3>4, <3>5, <3>6, <3>7
  <2> QED
    BY <2>1, <2>4 DEF Leaves
<1> QED
  BY <1>2, <1>3, <1>4, <1>5 DEF PairingInv

LEMMA UnregistersInv ==
    ASSUME PairingInv, NEW w \in Pairing!Windows, Pairing!Unregisters(w)
    PROVE  PairingInv'
<1>1. Pairing!TypeOK /\ Counted /\ (~crossed => OneAtWork /\ Leaves)
  BY DEF PairingInv
<1>2. /\ stage[w] = "unregistering" /\ stage' = [stage EXCEPT ![w] = "over"] /\ agent' = agent \ {w}
      /\ opened' = opened /\ closed' = closed + 1
      /\ stage \in [Pairing!Windows -> Pairing!Working \cup Pairing!CleaningUp \cup Pairing!Ended]
  BY <1>1 DEF Pairing!Unregisters, Pairing!Goes, Pairing!Without, Pairing!TypeOK
<1>3. Ran' = Ran \cup {w} /\ w \notin Ran
  BY <1>2 DEF Ran
<1>4. Cardinality(Ran') = closed + 1
  <2>1. IsFiniteSet(Ran)
    BY SomeWindows DEF Ran
  <2> QED
    BY <1>1, <1>3, <2>1, FS_AddElement DEF Counted
<1>5. closed' \in 0 .. MaxWindows
  <2>1. Ran' \subseteq Pairing!Windows
    BY DEF Ran
  <2> QED
    BY <1>2, <1>4, <2>1, SomeWindows
<1>6. Pairing!TypeOK'
  BY <1>1, <1>2, <1>5 DEF Pairing!Unregisters, Pairing!TypeOK, Pairing!Ended
<1>7. Counted'
  BY <1>1, <1>2, <1>4 DEF Counted
<1>8. ASSUME ~crossed
      PROVE  OneAtWork' /\ Leaves'
  <2>1. AtWork(w)
    BY <1>2 DEF AtWork, Pairing!CleaningUp
  <2>2. \A v \in Pairing!Windows \ {w} : stage'[v] = stage[v] /\ ~AtWork(v)
    BY <1>1, <1>2, <1>8, <2>1 DEF OneAtWork
  <2>3. \A v \in Pairing!Windows : ~AtWork(v)'
    BY <1>2, <2>2 DEF AtWork, Pairing!Working, Pairing!CleaningUp
  <2>4. agent' = {}
    BY <1>1, <1>2, <1>8, <2>2 DEF Leaves, Pairing!TypeOK
  <2>5. \A v \in Pairing!Windows : ~MayBePaired(v) /\ ~MayBeFound(v)
    BY <1>2, <2>2 DEF AtWork, MayBePaired, MayBeFound, Pairing!Working, Pairing!CleaningUp
  <2>6. ~kept => ~pairable /\ ~discoverable
    BY <1>1, <1>8, <2>5 DEF Leaves
  <2> QED
    BY <2>3, <2>4, <2>6 DEF Pairing!Unregisters, OneAtWork, Leaves
<1> QED
  BY <1>6, <1>7, <1>8 DEF Pairing!Unregisters, PairingInv

LEMMA PairingNext == PairingInv /\ [Pairing!Next]_Pairing!vars => PairingInv'
<1> SUFFICES ASSUME PairingInv, [Pairing!Next]_Pairing!vars
             PROVE  PairingInv'
  OBVIOUS
<1>1. Pairing!TypeOK
  BY DEF PairingInv
<1>2. ASSUME NEW w \in Pairing!Windows, NEW d \in Devices, Pairing!RequestPairing(w, d)
      PROVE  PairingInv'
  <2>1. Pairing!TypeOK'
    BY <1>1, <1>2 DEF Pairing!RequestPairing, Pairing!TypeOK
  <2> QED
    BY <1>2, <2>1, StagesStay DEF Pairing!RequestPairing
<1>3. CASE UNCHANGED Pairing!vars
  <2>1. Pairing!TypeOK'
    BY <1>1, <1>3 DEF Pairing!vars, Pairing!TypeOK
  <2> QED
    BY <1>3, <2>1, StagesStay DEF Pairing!vars
<1> QED
  BY <1>2, <1>3, OpenInv, CloseInv, ClosedInv, GoesOnInv, UnregistersInv
  DEF Pairing!Next

\* However a pairing window ends, the adapter is as before: nobody can pair with
\* it or find it, and no agent answers, unless a call cancels the clean-up itself
\* or closes the next window, or BlueZ does not turn a property off.
THEOREM WindowsClose == Spec => [](Pairing!TypeOK /\ ClosedIsClosed)
<1>1. PairingInv => Pairing!TypeOK /\ ClosedIsClosed
  BY DEF PairingInv, OneAtWork, Leaves, AtWork, Pairing!Working, Pairing!CleaningUp,
         MayBePaired, MayBeFound, ClosedIsClosed, Pairing!ClosedIsClosed, Pairing!TypeOK
<1>2. Pairing!Spec => [](Pairing!TypeOK /\ ClosedIsClosed)
  BY <1>1, PairingInit, PairingNext, PTL DEF Pairing!Spec
<1> QED
  BY <1>2, IsPairing, PTL


-----------------------------------------------------------------------------
(* The Sonos target *)

\* The call in the thread, and what its operation is for.
CallOK(o) ==
    /\ op[o].thread # "none" => /\ op[o].do \in {"play", "stop", "heal"}
                                /\ op[o].pc \in {"idle", "calling"}
    /\ op[o].pc = "calling" => op[o].thread # "none"
    /\ op[o].do = "stop" /\ op[o].thread # "none" => op[o].pc = "calling"
    /\ op[o].thread = "restarting" => op[o].do = "heal"
    /\ op[o].do = "play" /\ op[o] # Sonos!Idle => op[o].url \in Urls
    /\ op[o].do = "heal" /\ op[o].thread # "none" => op[o].url \in Urls

\* Whatever is on its way to the player is what the bridge has last asked for.
AsAsked(o) == Sonos!OnTheWay(o) =>
    /\ op[o].do \in {"play", "heal"} => op[o].url = wanted
    /\ op[o].do = "stop" => wanted = None

\* The player does something else only while a call that is about to change that
\* has not succeeded yet.
Due(o) == op[o].do \in {"play", "stop"} /\ op[o].thread \in {"busy", "error"}
Obeys  == plays \in {wanted, Silent, Foreign} \/ \E o \in Ops : Due(o)

SonosInv ==
    /\ Sonos!TypeOK
    /\ \A o \in Ops : CallOK(o)
    /\ ~failed => record = wanted
    /\ ~failed /\ ~crowded => Obeys /\ \A o \in Ops : AsAsked(o)

LEMMA SonosInit == Sonos!Init => SonosInv
<1> SUFFICES ASSUME Sonos!Init
             PROVE  SonosInv
  OBVIOUS
<1>1. Sonos!Idle \in Sonos!Operation
  BY Bounds DEF Sonos!Idle, Sonos!Operation
<1>2. Sonos!TypeOK
  BY <1>1 DEF Sonos!Init, Sonos!TypeOK
<1>3. \A o \in Ops : op[o] = Sonos!Idle
  BY DEF Sonos!Init
<1>4. \A o \in Ops : CallOK(o) /\ AsAsked(o)
  BY <1>3 DEF CallOK, AsAsked, Sonos!OnTheWay, Sonos!Idle
<1> QED
  BY <1>2, <1>4 DEF Sonos!Init, SonosInv, Obeys

\* One operation takes a step, and what is asked of the player stays.
LEMMA OneMoves ==
    ASSUME SonosInv, NEW o \in Ops, Sonos!TypeOK', CallOK(o)',
           \A p \in Ops \ {o} : op'[p] = op[p],
           UNCHANGED <<record, wanted, crowded>>, failed => failed',
           ~failed' /\ ~crowded /\ Obeys /\ AsAsked(o) => Obeys' /\ AsAsked(o)'
    PROVE  SonosInv'
<1>1. /\ \A p \in Ops : CallOK(p)
      /\ ~failed => record = wanted
      /\ ~failed /\ ~crowded => Obeys /\ \A p \in Ops : AsAsked(p)
  BY DEF SonosInv
<1>2. \A p \in Ops : CallOK(p)'
  BY <1>1 DEF CallOK
<1>3. ASSUME ~failed', ~crowded'
      PROVE  Obeys' /\ \A p \in Ops : AsAsked(p)'
  <2>1. Obeys' /\ AsAsked(o)'
    BY <1>1, <1>3
  <2>2. \A p \in Ops \ {o} : AsAsked(p)'
    BY <1>1, <1>3 DEF AsAsked, Sonos!OnTheWay
  <2> QED
    BY <2>1, <2>2
<1> QED
  BY <1>1, <1>2, <1>3 DEF SonosInv

\* The player stays too, and a call that is due stays so, or has failed.
LEMMA OneMovesOn ==
    ASSUME SonosInv, NEW o \in Ops, NEW x \in Sonos!Operation,
           op' = [op EXCEPT ![o] = x], CallOK(o)',
           UNCHANGED <<there, plays, record, wanted, crowded>>,
           known' \in {"no", "player", "target"}, listed' \in BOOLEAN, failed' \in BOOLEAN,
           failed => failed', Due(o) => failed' \/ Due(o)', AsAsked(o) => AsAsked(o)'
    PROVE  SonosInv'
<1>1. Sonos!TypeOK
  BY DEF SonosInv
<1>2. Sonos!TypeOK'
  BY <1>1 DEF Sonos!TypeOK
<1>3. \A p \in Ops \ {o} : op'[p] = op[p]
  BY <1>1 DEF Sonos!TypeOK
<1>4. ~failed' /\ Obeys => Obeys'
  <2>1. \A p \in Ops : Due(p) => failed' \/ Due(p)'
    BY <1>3 DEF Due
  <2> QED
    BY <2>1 DEF Obeys
<1> QED
  BY <1>2, <1>3, <1>4, OneMoves

\* The world changes; nothing that is under way does.
LEMMA WorldInv ==
    ASSUME SonosInv, Sonos!PlayerComesOrGoes \/ Sonos!SomebodyElse \/ Sonos!StopUnknown
    PROVE  SonosInv'
<1>1. Sonos!TypeOK /\ op' = op
  BY DEF SonosInv, Sonos!PlayerComesOrGoes, Sonos!SomebodyElse, Sonos!StopUnknown
<1>2. Sonos!TypeOK'
  BY <1>1 DEF Sonos!PlayerComesOrGoes, Sonos!SomebodyElse, Sonos!StopUnknown, Sonos!TypeOK,
              Sonos!adapter, Sonos!history
<1>3. \A p \in Ops : (CallOK(p) => CallOK(p)') /\ (Due(p) => Due(p)')
  BY <1>1 DEF CallOK, Due
<1>4. CASE Sonos!PlayerComesOrGoes \/ Sonos!SomebodyElse
  <2>1. UNCHANGED <<record, wanted, crowded, failed>>
        /\ plays' \in {plays, Silent, Foreign}
    BY <1>4 DEF Sonos!PlayerComesOrGoes, Sonos!SomebodyElse, Sonos!adapter, Sonos!history
  <2>2. \A p \in Ops : AsAsked(p) => AsAsked(p)'
    BY <1>1, <2>1 DEF AsAsked, Sonos!OnTheWay
  <2>3. Obeys => Obeys'
    BY <1>3, <2>1 DEF Obeys
  <2> QED
    BY <1>2, <1>3, <2>1, <2>2, <2>3 DEF SonosInv
<1>5. CASE Sonos!StopUnknown
  BY <1>2, <1>3, <1>5 DEF Sonos!StopUnknown, SonosInv
<1> QED
  BY <1>4, <1>5

\* A call in a thread reaches the player or not, and succeeds or not.
LEMMA AttemptInv ==
    ASSUME SonosInv, NEW o \in Ops, NEW x, Sonos!Attempt(o, x),
           UNCHANGED <<there, known, record, listed, wanted, crowded, failed>>,
           op[o].thread \in {"busy", "restarting"},
           x \in Urls \cup {Silent}, op[o].do \in {"play", "stop", "heal"},
           op[o].do = "stop" <=> x = Silent, op[o].do # "stop" => x = op[o].url
    PROVE  SonosInv'
<1>1. Sonos!TypeOK /\ CallOK(o)
  BY DEF SonosInv
<1>2. PICK r \in {"ok", "error"} : op' = [op EXCEPT ![o].thread = r]
  BY DEF Sonos!Attempt
<1>3. op[o] \in Sonos!Operation /\ op'[o] = [op[o] EXCEPT !.thread = r]
      /\ \A p \in Ops \ {o} : op'[p] = op[p]
  BY <1>1, <1>2 DEF Sonos!TypeOK
<1>4. /\ op'[o] \in Sonos!Operation /\ op'[o].thread = r
      /\ op'[o].do = op[o].do /\ op'[o].pc = op[o].pc /\ op'[o].url = op[o].url
  BY <1>3 DEF Sonos!Operation
<1>5. plays' \in {plays, x} /\ (plays' = x \/ (r = "error" /\ plays' = plays))
  <2>1. CASE plays' = x
    BY <2>1
  <2>2. CASE op' = [op EXCEPT ![o].thread = "error"] /\ plays' = plays
    <3>1. op'[o] = [op[o] EXCEPT !.thread = "error"]
      BY <1>1, <2>2 DEF Sonos!TypeOK
    <3>2. op'[o].thread = "error"
      BY <1>3, <3>1 DEF Sonos!Operation
    <3> QED
      BY <1>4, <2>2, <3>2
  <2> QED
    BY <2>1, <2>2 DEF Sonos!Attempt
<1>6. Sonos!TypeOK'
  BY <1>1, <1>2, <1>4, <1>5 DEF Sonos!TypeOK
<1>7. op[o] # Sonos!Idle /\ op'[o] # Sonos!Idle
  BY <1>4 DEF Sonos!Idle
<1>8. CallOK(o)'
  BY <1>1, <1>4, <1>7 DEF CallOK
<1>9. AsAsked(o) => AsAsked(o)'
  BY <1>4 DEF AsAsked, Sonos!OnTheWay
<1>10. ASSUME Obeys, AsAsked(o)
       PROVE  Obeys'
  <2>1. op[o].do # "stop" => op[o].url = wanted
    BY <1>10 DEF AsAsked, Sonos!OnTheWay
  <2>2. CASE plays' = x
    BY <2>1, <2>2 DEF Obeys
  <2>3. CASE r = "error" /\ plays' = plays
    <3>1. \A p \in Ops : Due(p) => Due(p)'
      BY <1>3, <1>4, <2>3 DEF Due
    <3> QED
      BY <1>10, <2>3, <3>1 DEF Obeys
  <2> QED
    BY <1>5, <2>2, <2>3
<1> QED
  BY <1>3, <1>6, <1>8, <1>9, <1>10, OneMoves

LEMMA ThreadInv ==
    ASSUME SonosInv, NEW o \in Ops, Sonos!ThreadActs(o) \/ Sonos!ThreadRestarts(o)
    PROVE  SonosInv'
<1>1. Sonos!TypeOK /\ CallOK(o) /\ op[o] \in Sonos!Operation
  BY DEF SonosInv, Sonos!TypeOK
<1>2. UNCHANGED <<there, known, record, listed, wanted, crowded, failed>>
  BY DEF Sonos!ThreadActs, Sonos!ThreadRestarts, Sonos!adapter, Sonos!history
<1>3. op[o].thread \in {"busy", "restarting"} /\ op[o] # Sonos!Idle
      /\ op[o].do \in {"play", "stop", "heal"}
  <2>1. op[o].thread \in {"busy", "restarting"}
    BY DEF Sonos!ThreadActs, Sonos!ThreadRestarts
  <2>2. op[o] # Sonos!Idle
    BY <2>1 DEF Sonos!Idle
  <2> QED
    BY <1>1, <2>1, <2>2 DEF CallOK
<1>4. op[o].do # "stop" => op[o].url \in Urls
  BY <1>1, <1>3 DEF CallOK
<1>5. CASE op[o].do = "play" /\ Sonos!ThreadActs(o)
  <2>1. Sonos!Attempt(o, op[o].url)
    BY <1>5 DEF Sonos!ThreadActs
  <2> QED
    BY <1>2, <1>3, <1>4, <1>5, <2>1, AttemptInv, Distinct
<1>6. CASE op[o].do = "stop" /\ Sonos!ThreadActs(o)
  <2>1. Sonos!Attempt(o, Silent)
    BY <1>6 DEF Sonos!ThreadActs
  <2> QED
    BY <1>2, <1>3, <1>6, <2>1, AttemptInv
<1>7. CASE op[o].do = "heal" /\ Sonos!ThreadActs(o)
  <2>1. PICK r \in {"ok", "restarting", "error"} :
            op' = [op EXCEPT ![o].thread = r] /\ plays' = plays
    BY <1>7 DEF Sonos!ThreadActs
  <2> DEFINE x == [op[o] EXCEPT !.thread = r]
  <2>2. x \in Sonos!Operation /\ op' = [op EXCEPT ![o] = x] /\ op'[o] = x
    BY <1>1, <2>1 DEF Sonos!TypeOK, Sonos!Operation
  <2>3. x.thread = r /\ x.do = "heal" /\ x.pc = op[o].pc /\ x.url = op[o].url
    BY <1>1, <1>7 DEF Sonos!Operation
  <2> HIDE DEF x
  <2>4. CallOK(o)'
    BY <1>1, <1>3, <1>4, <1>7, <2>2, <2>3 DEF CallOK
  <2>5. (Due(o) => Due(o)') /\ (AsAsked(o) => AsAsked(o)')
    BY <1>2, <1>3, <1>7, <2>2, <2>3 DEF Due, AsAsked, Sonos!OnTheWay
  <2> QED
    BY <1>1, <1>2, <2>1, <2>2, <2>4, <2>5, OneMovesOn DEF Sonos!TypeOK
<1>8. CASE Sonos!ThreadRestarts(o)
  <2>1. Sonos!Attempt(o, op[o].url) /\ op[o].do = "heal"
    BY <1>1, <1>8 DEF Sonos!ThreadRestarts, CallOK
  <2> QED
    BY <1>2, <1>3, <1>4, <2>1, AttemptInv, Distinct
<1> QED
  BY <1>3, <1>5, <1>6, <1>7, <1>8


\* What a thread has come back with, or nobody waits for.
LEMMA CallInv ==
    ASSUME SonosInv, NEW o \in Ops,
           \/ Sonos!Returns(o) \/ Sonos!Retries(o) \/ Sonos!GivesUp(o) \/ Sonos!Cancel(o)
           \/ Sonos!Forgotten(o)
    PROVE  SonosInv'
<1>1. Sonos!TypeOK /\ CallOK(o) /\ op[o] \in Sonos!Operation
  BY DEF SonosInv, Sonos!TypeOK
<1>2. UNCHANGED <<there, plays, known, record, listed, wanted, crowded>>
      /\ (failed' = failed \/ Sonos!GivesUp(o) \/ Sonos!Cancel(o) \/ Sonos!Forgotten(o))
  BY DEF Sonos!Returns, Sonos!Retries, Sonos!GivesUp, Sonos!Cancel, Sonos!Forgotten,
         Sonos!adapter, Sonos!history
<1>3. failed' \in BOOLEAN /\ (failed => failed')
  BY <1>1, <1>2 DEF Sonos!GivesUp, Sonos!Cancel, Sonos!Forgotten, Sonos!TypeOK, Sonos!Unplayed
<1>4. ASSUME op' = [op EXCEPT ![o] = Sonos!Idle], Due(o) => failed'
      PROVE  SonosInv'
  <2>1. Sonos!Idle \in Sonos!Operation
    BY Bounds DEF Sonos!Idle, Sonos!Operation
  <2>2. op'[o] = Sonos!Idle
    BY <1>1, <1>4 DEF Sonos!TypeOK
  <2>3. CallOK(o)' /\ AsAsked(o)'
    BY <2>2 DEF CallOK, AsAsked, Sonos!OnTheWay, Sonos!Idle
  <2> QED
    BY <1>1, <1>2, <1>3, <1>4, <2>1, <2>3, OneMovesOn DEF Sonos!TypeOK
<1>5. CASE Sonos!Returns(o)
  BY <1>4, <1>5 DEF Sonos!Returns, Due
<1>6. CASE Sonos!Retries(o)
  <2> DEFINE x == [op[o] EXCEPT !.tries = @ + 1, !.thread = "busy"]
  <2>1. op[o].tries + 1 \in 0 .. MaxTries - 1
    BY <1>1, <1>6, Bounds DEF Sonos!Retries, Sonos!Again, Sonos!Operation
  <2>2. x \in Sonos!Operation /\ op' = [op EXCEPT ![o] = x] /\ op'[o] = x
    BY <1>1, <1>6, <2>1 DEF Sonos!Retries, Sonos!TypeOK, Sonos!Operation
  <2>3. x.thread = "busy" /\ x.do = op[o].do /\ x.pc = op[o].pc /\ x.url = op[o].url
    BY <1>1 DEF Sonos!Operation
  <2>4. op[o].thread = "error" /\ op[o] # Sonos!Idle
    BY <1>6 DEF Sonos!Retries, Sonos!Idle
  <2> HIDE DEF x
  <2>5. CallOK(o)'
    BY <1>1, <2>2, <2>3, <2>4 DEF CallOK
  <2>6. (Due(o) => Due(o)') /\ (AsAsked(o) => AsAsked(o)')
    BY <1>2, <2>2, <2>3, <2>4 DEF Due, AsAsked, Sonos!OnTheWay
  <2> QED
    BY <1>1, <1>2, <1>3, <2>2, <2>5, <2>6, OneMovesOn DEF Sonos!TypeOK
<1>7. CASE Sonos!GivesUp(o)
  <2>1. Due(o) => failed'
    BY <1>7 DEF Sonos!GivesUp, Due
  <2> QED
    BY <1>4, <1>7, <2>1 DEF Sonos!GivesUp
<1>8. CASE Sonos!Forgotten(o)
  <2>1. Due(o) => failed'
    BY <1>1, <1>8 DEF Sonos!Forgotten, Sonos!Unplayed, Due, CallOK
  <2> QED
    BY <1>4, <1>8, <2>1 DEF Sonos!Forgotten
<1>9. CASE Sonos!Cancel(o)
  <2>1. CASE op' = [op EXCEPT ![o] = Sonos!Idle] /\ failed' = (failed \/ Sonos!Unplayed(o))
    <3>1. Due(o) => failed'
      BY <1>9, <2>1 DEF Sonos!Cancel, Sonos!Unplayed, Due
    <3> QED
      BY <1>4, <2>1, <3>1
  <2>2. CASE op[o].thread \in {"busy", "restarting"} /\ op' = [op EXCEPT ![o].pc = "idle"]
             /\ UNCHANGED failed
    <3> DEFINE x == [op[o] EXCEPT !.pc = "idle"]
    <3>1. x \in Sonos!Operation /\ op' = [op EXCEPT ![o] = x] /\ op'[o] = x
      BY <1>1, <2>2 DEF Sonos!TypeOK, Sonos!Operation
    <3>2. x.pc = "idle" /\ x.thread = op[o].thread /\ x.do = op[o].do /\ x.url = op[o].url
      BY <1>1 DEF Sonos!Operation
    <3>3. op[o].do \in {"heal", "play"} /\ op[o] # Sonos!Idle
      BY <1>9, <2>2 DEF Sonos!Cancel, Sonos!Idle
    <3> HIDE DEF x
    <3>4. CallOK(o)'
      BY <1>1, <2>2, <3>1, <3>2, <3>3 DEF CallOK
    <3>5. (Due(o) => Due(o)') /\ (AsAsked(o) => AsAsked(o)')
      BY <1>2, <2>2, <3>1, <3>2 DEF Due, AsAsked, Sonos!OnTheWay
    <3> QED
      BY <1>1, <1>2, <1>3, <3>1, <3>4, <3>5, OneMovesOn DEF Sonos!TypeOK
  <2> QED
    BY <1>9, <2>1, <2>2 DEF Sonos!Cancel
<1> QED
  BY <1>5, <1>6, <1>7, <1>8, <1>9

\* An operation that has called nothing goes on without a call, or ends.
LEMMA NoCallInv ==
    ASSUME SonosInv, NEW o \in Ops, NEW x \in Sonos!Operation, op' = [op EXCEPT ![o] = x],
           x = Sonos!Idle \/ (x.thread = "none" /\ x.pc \notin {"idle", "calling"}),
           x.do = "play" /\ x # Sonos!Idle => x.url \in Urls,
           op[o].thread = "none",
           UNCHANGED <<there, plays, record, wanted, crowded, failed>>,
           known' \in {"no", "player", "target"}, listed' \in BOOLEAN
    PROVE  SonosInv'
<1>1. Sonos!TypeOK
  BY DEF SonosInv
<1>2. op'[o] = x /\ x.thread = "none" /\ x.pc # "calling"
  BY <1>1 DEF Sonos!TypeOK, Sonos!Idle
<1>3. CallOK(o)' /\ AsAsked(o)' /\ ~Due(o)
  BY <1>2 DEF CallOK, AsAsked, Sonos!OnTheWay, Due
<1> QED
  BY <1>1, <1>3, OneMovesOn DEF Sonos!TypeOK


LEMMA ListingInv ==
    ASSUME SonosInv, NEW o \in Ops,
           \/ \E do \in {"heal", "prepare", "refresh"} : Sonos!Begins(o, do)
           \/ Sonos!Discovers(o) \/ Sonos!Lists(o) \/ Sonos!ListingRaises(o)
    PROVE  SonosInv'
<1>1. Sonos!TypeOK /\ CallOK(o) /\ op[o] \in Sonos!Operation
  BY DEF SonosInv, Sonos!TypeOK
<1>2. Sonos!Idle \in Sonos!Operation /\ Sonos!Idle.thread = "none"
  BY Bounds DEF Sonos!Idle, Sonos!Operation
<1>3. ASSUME NEW do \in {"heal", "prepare", "refresh"}, Sonos!Begins(o, do)
      PROVE  SonosInv'
  <2> DEFINE x == [Sonos!Idle EXCEPT !.do = do, !.pc = "listing"]
  <2>1. x \in Sonos!Operation /\ x.thread = "none" /\ x.pc = "listing" /\ x.do = do
    BY <1>2 DEF Sonos!Idle, Sonos!Operation
  <2>2. op' = [op EXCEPT ![o] = x] /\ op[o].thread = "none"
    BY <1>2, <1>3 DEF Sonos!Begins
  <2> HIDE DEF x
  <2> QED
    BY <1>1, <1>3, <2>1, <2>2, NoCallInv
    DEF Sonos!Begins, Sonos!adapter, Sonos!history, Sonos!TypeOK
<1>4. CASE Sonos!Discovers(o)
  <2>1. PICK found \in BOOLEAN :
            op' = [op EXCEPT ![o] = [op[o] EXCEPT !.pc = "grouping", !.found = found]]
    BY <1>1, <1>4 DEF Sonos!Discovers, Sonos!TypeOK
  <2> DEFINE x == [op[o] EXCEPT !.pc = "grouping", !.found = found]
  <2>2. op[o].pc = "listing" /\ op[o] # Sonos!Idle
    BY <1>4 DEF Sonos!Discovers, Sonos!Idle
  <2>3. op[o].thread = "none" /\ (op[o].do = "play" => op[o].url \in Urls)
    BY <1>1, <2>2 DEF CallOK
  <2>4. x \in Sonos!Operation /\ x.thread = "none" /\ x.pc = "grouping" /\ x.do = op[o].do
        /\ x.url = op[o].url
    BY <1>1, <2>3 DEF Sonos!Operation
  <2>5. op' = [op EXCEPT ![o] = x]
    BY <2>1
  <2> HIDE DEF x
  <2> QED
    BY <1>1, <1>4, <2>3, <2>4, <2>5, NoCallInv
    DEF Sonos!Discovers, Sonos!adapter, Sonos!history, Sonos!TypeOK
<1>5. ASSUME NEW got, Sonos!Listed(o, got), op[o].pc \in {"listing", "grouping"},
             UNCHANGED <<there, plays, record, wanted, crowded, failed>>,
             known' \in {"no", "player", "target"}, listed' \in BOOLEAN
      PROVE  SonosInv'
  <2>1. op[o] # Sonos!Idle /\ op[o].thread = "none" /\ (op[o].do = "play" => op[o].url \in Urls)
    BY <1>1, <1>5 DEF CallOK, Sonos!Idle
  <2>2. PICK x \in {Sonos!Idle, [op[o] EXCEPT !.pc = "joining"],
                    [op[o] EXCEPT !.pc = "verifying"]} :
            op' = [op EXCEPT ![o] = x]
    BY <1>5 DEF Sonos!Listed
  <2>3. CASE x = Sonos!Idle
    BY <1>2, <1>5, <2>1, <2>2, <2>3, NoCallInv
  <2>4. CASE x = [op[o] EXCEPT !.pc = "joining"] \/ x = [op[o] EXCEPT !.pc = "verifying"]
    <3>1. x \in Sonos!Operation /\ x.thread = "none" /\ x.pc \in {"joining", "verifying"}
          /\ x.do = op[o].do /\ x.url = op[o].url
      BY <1>1, <2>1, <2>4 DEF Sonos!Operation
    <3> QED
      BY <1>5, <2>1, <2>2, <3>1, NoCallInv
  <2> QED
    BY <2>2, <2>3, <2>4
<1>6. CASE Sonos!Lists(o)
  <2>1. known' \in {"no", "player", "target"}
    BY <1>1, <1>6 DEF Sonos!Lists, Sonos!TypeOK
  <2>2. listed' \in BOOLEAN
    BY <1>1, <1>6 DEF Sonos!Lists, Sonos!Refreshed, Sonos!TypeOK
  <2> QED
    BY <1>5, <1>6, <2>1, <2>2 DEF Sonos!Lists, Sonos!history
<1>7. CASE Sonos!ListingRaises(o)
  <2>1. listed' \in BOOLEAN
    BY <1>1, <1>7 DEF Sonos!ListingRaises, Sonos!Refreshed, Sonos!TypeOK
  <2>2. known' \in {"no", "player", "target"}
        /\ UNCHANGED <<there, plays, record, wanted, crowded, failed>>
    BY <1>1, <1>7 DEF Sonos!ListingRaises, Sonos!adapter, Sonos!history, Sonos!TypeOK
  <2>3. CASE Sonos!Listed(o, known)
    BY <1>5, <1>7, <2>1, <2>2, <2>3 DEF Sonos!ListingRaises
  <2>4. CASE op' = [op EXCEPT ![o] = Sonos!Idle]
    <3>1. op[o].thread = "none"
      BY <1>1, <1>7 DEF Sonos!ListingRaises, CallOK
    <3> QED
      BY <1>2, <2>1, <2>2, <2>4, <3>1, NoCallInv
  <2> QED
    BY <1>7, <2>3, <2>4 DEF Sonos!ListingRaises
<1> QED
  BY <1>3, <1>4, <1>6, <1>7

LEMMA VerifyInv ==
    ASSUME SonosInv, NEW o \in Ops,
           \/ Sonos!Verified(o) \/ Sonos!VerifyFails(o) \/ Sonos!JoinFails(o)
           \/ \E url \in Urls : Sonos!Play(o, url)
    PROVE  SonosInv'
<1>1. Sonos!TypeOK /\ CallOK(o) /\ op[o] \in Sonos!Operation
  BY DEF SonosInv, Sonos!TypeOK
<1>2. Sonos!Idle \in Sonos!Operation /\ Sonos!Idle.thread = "none"
  BY Bounds DEF Sonos!Idle, Sonos!Operation
<1>3. UNCHANGED <<there, plays, record, wanted, crowded, failed, known, listed>>
  BY DEF Sonos!Verified, Sonos!VerifyFails, Sonos!JoinFails, Sonos!Play, Sonos!adapter,
         Sonos!history
<1>4. op[o].thread = "none"
  BY <1>1, <1>2 DEF Sonos!Verified, Sonos!VerifyFails, Sonos!JoinFails, Sonos!Play, CallOK
<1>5. CASE op' = [op EXCEPT ![o] = Sonos!Idle]
  BY <1>1, <1>2, <1>3, <1>4, <1>5, NoCallInv DEF Sonos!TypeOK
<1>6. ASSUME NEW x, op' = [op EXCEPT ![o] = x], op[o].do = "heal",
             x \in {[op[o] EXCEPT !.pc = "joining"], [op[o] EXCEPT !.pc = "listing", !.tries = 1]}
      PROVE  SonosInv'
  <2>1. 1 \in 0 .. MaxTries - 1
    BY Bounds
  <2>2. x \in Sonos!Operation /\ x.thread = "none" /\ x.pc \in {"joining", "listing"}
        /\ x.do = "heal"
    BY <1>1, <1>4, <1>6, <2>1 DEF Sonos!Operation
  <2> QED
    BY <1>1, <1>3, <1>4, <1>6, <2>2, NoCallInv DEF Sonos!TypeOK
<1>7. ASSUME NEW url \in Urls, Sonos!Play(o, url)
      PROVE  SonosInv'
  <2> DEFINE x == [Sonos!Idle EXCEPT !.do = "play", !.url = url, !.pc = "joining"]
  <2>1. x \in Sonos!Operation /\ x.thread = "none" /\ x.pc = "joining" /\ x.url = url
    BY <1>2 DEF Sonos!Idle, Sonos!Operation
  <2>2. op' = [op EXCEPT ![o] = x]
    BY <1>7 DEF Sonos!Play
  <2> HIDE DEF x
  <2> QED
    BY <1>1, <1>3, <1>4, <2>1, <2>2, NoCallInv DEF Sonos!TypeOK
<1>8. CASE op[o].do = "heal"
  BY <1>5, <1>6, <1>7, <1>8 DEF Sonos!Verified, Sonos!VerifyFails, Sonos!JoinFails
<1>9. CASE op[o].do # "heal"
  BY <1>5, <1>7, <1>9 DEF Sonos!Verified, Sonos!VerifyFails, Sonos!JoinFails
<1> QED
  BY <1>8, <1>9

\* A heal calls with the record, which is what is wanted.
LEMMA HealsInv == ASSUME SonosInv, NEW o \in Ops, Sonos!Heals(o) PROVE SonosInv'
<1>1. Sonos!TypeOK /\ CallOK(o) /\ op[o] \in Sonos!Operation
  BY DEF SonosInv, Sonos!TypeOK
<1>2. UNCHANGED <<there, plays, record, wanted, crowded, failed, known, listed>>
      /\ op[o].do = "heal" /\ op[o].thread = "none"
  BY <1>1 DEF Sonos!Heals, Sonos!adapter, Sonos!history, CallOK
<1>3. CASE op' = [op EXCEPT ![o] = Sonos!Idle]
  <2>1. Sonos!Idle \in Sonos!Operation /\ Sonos!Idle.thread = "none"
    BY Bounds DEF Sonos!Idle, Sonos!Operation
  <2> QED
    BY <1>1, <1>2, <1>3, <2>1, NoCallInv DEF Sonos!TypeOK
<1>4. CASE record # None /\ Sonos!Calls(o, "heal", record)
  <2> DEFINE x == [Sonos!Idle EXCEPT !.do = "heal", !.url = record, !.pc = "calling",
                                     !.thread = "busy"]
  <2>1. record \in Urls /\ Sonos!Idle \in Sonos!Operation
    BY <1>1, <1>4, Bounds DEF Sonos!TypeOK, Sonos!Idle, Sonos!Operation
  <2>2. /\ x \in Sonos!Operation /\ x.thread = "busy" /\ x.pc = "calling" /\ x.url = record
        /\ x.do = "heal"
    BY <2>1 DEF Sonos!Idle, Sonos!Operation
  <2>3. op' = [op EXCEPT ![o] = x] /\ op'[o] = x
    BY <1>1, <1>4 DEF Sonos!Calls, Sonos!TypeOK
  <2> HIDE DEF x
  <2>4. Sonos!TypeOK' /\ \A p \in Ops \ {o} : op'[p] = op[p]
    BY <1>1, <1>2, <2>2, <2>3 DEF Sonos!TypeOK
  <2>5. CallOK(o)'
    BY <2>1, <2>2, <2>3 DEF CallOK
  <2>6. ~failed => AsAsked(o)'
    BY <1>2, <2>2, <2>3 DEF SonosInv, AsAsked
  <2>7. Obeys => Obeys'
    <3>1. \A p \in Ops : Due(p) => Due(p)'
      BY <1>2, <2>4 DEF Due
    <3> QED
      BY <1>2, <3>1 DEF Obeys
  <2> QED
    BY <1>2, <2>4, <2>5, <2>6, <2>7, OneMoves
<1> QED
  BY <1>3, <1>4 DEF Sonos!Heals

\* A play or a stop that meets no other call says what is wanted, and is due.
LEMMA AsksInv == ASSUME SonosInv, NEW o \in Ops, Sonos!Plays(o) \/ Sonos!Stop(o) PROVE SonosInv'
<1>1. Sonos!TypeOK /\ CallOK(o) /\ op[o] \in Sonos!Operation
      /\ (~failed => record = wanted) /\ \A p \in Ops : CallOK(p)
  BY DEF SonosInv, Sonos!TypeOK
<1>2. PICK do \in {"play", "stop"}, url \in Urls \cup {None} :
          /\ Sonos!Calls(o, do, url) /\ (do = "play" => url \in Urls) /\ (do = "stop" => url = None)
          /\ record' = url /\ wanted' = url /\ crowded' = Sonos!Crowds(o)
          /\ UNCHANGED <<there, plays, known, listed, failed>>
  <2>1. CASE Sonos!Plays(o)
    <3>1. op[o].url \in Urls
      BY <1>1, <2>1 DEF Sonos!Plays, Sonos!Idle, CallOK
    <3> QED
      BY <2>1, <3>1 DEF Sonos!Plays
  <2>2. CASE Sonos!Stop(o)
    BY <2>2 DEF Sonos!Stop, Sonos!Cleared
  <2> QED
    BY <2>1, <2>2
<1> DEFINE x == [Sonos!Idle EXCEPT !.do = do, !.url = url, !.pc = "calling", !.thread = "busy"]
<1>3. Sonos!Idle \in Sonos!Operation
  BY Bounds DEF Sonos!Idle, Sonos!Operation
<1>4. /\ x \in Sonos!Operation /\ x.thread = "busy" /\ x.pc = "calling" /\ x.url = url
      /\ x.do = do
  BY <1>3 DEF Sonos!Idle, Sonos!Operation
<1>5. op' = [op EXCEPT ![o] = x] /\ op'[o] = x /\ \A p \in Ops \ {o} : op'[p] = op[p]
  BY <1>1, <1>2 DEF Sonos!Calls, Sonos!TypeOK
<1> HIDE DEF x
<1>6. Sonos!TypeOK'
  <2>1. crowded' \in BOOLEAN
    BY <1>1, <1>2 DEF Sonos!Crowds, Sonos!TypeOK
  <2> QED
    BY <1>1, <1>2, <1>4, <1>5, <2>1 DEF Sonos!TypeOK
<1>7. \A p \in Ops : CallOK(p)'
  BY <1>1, <1>2, <1>4, <1>5 DEF CallOK
<1>8. Due(o)' /\ AsAsked(o)'
  BY <1>2, <1>4, <1>5 DEF Due, AsAsked
<1>9. ASSUME ~crowded'
      PROVE  \A p \in Ops : AsAsked(p)'
  <2>1. \A p \in Ops \ {o} : ~Sonos!OnTheWay(p)
    BY <1>2, <1>9 DEF Sonos!Crowds
  <2> QED
    BY <1>5, <1>8, <2>1 DEF AsAsked, Sonos!OnTheWay
<1> QED
  BY <1>2, <1>6, <1>7, <1>8, <1>9 DEF SonosInv, Obeys

LEMMA SonosNext == SonosInv /\ [Sonos!Next]_Sonos!vars => SonosInv'
<1> SUFFICES ASSUME SonosInv, [Sonos!Next]_Sonos!vars
             PROVE  SonosInv'
  OBVIOUS
<1>1. CASE UNCHANGED Sonos!vars
  BY <1>1 DEF SonosInv, Sonos!vars, Sonos!TypeOK, CallOK, AsAsked, Due, Obeys, Sonos!OnTheWay
<1> QED
  BY <1>1, WorldInv, ThreadInv, CallInv, ListingInv, VerifyInv, HealsInv, AsksInv
  DEF Sonos!Next

\* A player that has been told to stop stays silent, and one that has been told
\* what to play plays nothing else of the bridge: no heal brings an old stream
\* back, whenever it began and whatever it waited for.
THEOREM StopsStick == Spec => [](Sonos!TypeOK /\ StopSticks)
<1>1. SonosInv => Sonos!TypeOK /\ StopSticks
  BY DEF SonosInv, StopSticks, Sonos!StopSticks, Sonos!OnTheWay, Obeys, Due
<1>2. Sonos!Spec => [](Sonos!TypeOK /\ StopSticks)
  BY <1>1, SonosInit, SonosNext, PTL DEF Sonos!Spec
<1> QED
  BY <1>2, IsSonos, PTL
-----------------------------------------------------------------------------
(* The trusted devices *)

\* The store holds no device that the user has not asked for, and a file that
\* was saved holds the same devices as the store.
StoreOK ==
    /\ lost \/ trusted \subseteq asked
    /\ ~unsaved /\ file # None => file.trusted = trusted

\* on_startup goes through devices that were asked for when it looked, and
\* through none before it looks.
StartupOK ==
    /\ lost \/ (macs \subseteq askedThen /\ (now # None => now \in askedThen))
    /\ routine = "waiting" \/ ~up => now = None
    /\ routine = "connecting" => up

TrustInv == Trust!TypeOK /\ StoreOK /\ StartupOK

\* What the file may say, or that it was cut off.
Files == [trusted : SUBSET Devices, preferred : Devices \cup {None}] \cup {None}

\* Whatever becomes of a save, the file is as StoreOK says.
LEMMA SaveKeepsFile ==
    ASSUME Trust!Save, file \in Files, trusted' \subseteq Devices,
           preferred' \in Devices \cup {None}
    PROVE  /\ up' \in BOOLEAN /\ unsaved' \in BOOLEAN /\ file' \in Files
           /\ ~unsaved' /\ file' # None => file'.trusted = trusted'
<1> DEFINE entry == [trusted |-> trusted', preferred |-> preferred']
<1>1. entry \in Files /\ entry.trusted = trusted'
  BY DEF Files
<1>2. CASE up' = TRUE /\ unsaved' = FALSE /\ file' = Trust!Contents'
  <2>1. file' = entry
    BY <1>2 DEF Trust!Contents
  <2> HIDE DEF entry
  <2> QED
    BY <1>1, <1>2, <2>1
<1>3. CASE up' = TRUE /\ unsaved' = TRUE /\ UNCHANGED file
  BY <1>3
<1>4. CASE up' \in BOOLEAN /\ unsaved' = FALSE /\ file' = None
  BY <1>4 DEF Files
<1> QED
  BY <1>2, <1>3, <1>4 DEF Trust!Save

\* The calls of the store leave on_startup alone while the bridge runs.
LEMMA StartupGoesOnOK ==
    ASSUME TrustInv, up, Trust!StartupGoesOn, lost' = lost, askedThen' = askedThen, up' \in BOOLEAN
    PROVE  StartupOK' /\ routine' \in {"waiting", "connecting", "over"}
           /\ macs' \subseteq Devices /\ now' \in Devices \cup {None}
<1>1. CASE up'
  BY <1>1 DEF Trust!StartupGoesOn, Trust!startup, TrustInv, Trust!TypeOK, StartupOK
<1>2. CASE ~up'
  BY <1>2 DEF Trust!StartupGoesOn, TrustInv, Trust!TypeOK, StartupOK
<1> QED
  BY <1>1, <1>2

LEMMA TrustsInv == ASSUME TrustInv, NEW mac \in Devices, Trust!Trust(mac) PROVE TrustInv'
<1>1. /\ up /\ calls' = calls + 1 /\ calls < MaxCalls /\ runs' = runs
      /\ trusted' = trusted \cup {mac} /\ preferred' = preferred /\ asked' = asked \cup {mac}
      /\ lost' = lost /\ askedThen' = askedThen
  BY DEF Trust!Trust, Trust!facts
<1>2. /\ up' \in BOOLEAN /\ unsaved' \in BOOLEAN /\ file' \in Files
      /\ ~unsaved' /\ file' # None => file'.trusted = trusted'
  BY <1>1, SaveKeepsFile DEF Trust!Trust, TrustInv, Trust!TypeOK, Files
<1>3. StartupOK' /\ routine' \in {"waiting", "connecting", "over"}
      /\ macs' \subseteq Devices /\ now' \in Devices \cup {None}
  BY <1>1, <1>2, StartupGoesOnOK DEF Trust!Trust
<1>4. Trust!TypeOK'
  BY <1>1, <1>2, <1>3, Bounds DEF TrustInv, Trust!TypeOK, Files
<1> QED
  BY <1>1, <1>2, <1>3, <1>4 DEF TrustInv, StoreOK

LEMMA ForgetInv == ASSUME TrustInv, NEW mac \in Devices, Trust!Forget(mac) PROVE TrustInv'
<1>1. /\ up /\ calls' = calls + 1 /\ calls < MaxCalls /\ runs' = runs
      /\ trusted' = trusted \ {mac} /\ preferred' \in {preferred, None}
      /\ asked' = asked \ {mac} /\ lost' = lost /\ askedThen' = askedThen
  BY DEF Trust!Forget, Trust!Untrust, Trust!facts
<1>2. /\ up' \in BOOLEAN /\ unsaved' \in BOOLEAN /\ file' \in Files
      /\ ~unsaved' /\ file' # None => file'.trusted = trusted'
  <2>1. CASE mac \in trusted
    BY <1>1, <2>1, SaveKeepsFile DEF Trust!Forget, Trust!Untrust, TrustInv, Trust!TypeOK, Files
  <2>2. CASE mac \notin trusted
    <3>1. trusted' = trusted /\ UNCHANGED <<up, file, unsaved>>
      BY <1>1, <2>2 DEF Trust!Forget, Trust!Untrust
    <3> QED
      BY <3>1 DEF TrustInv, Trust!TypeOK, StoreOK, Files
  <2> QED
    BY <2>1, <2>2
<1>3. StartupOK' /\ routine' \in {"waiting", "connecting", "over"}
      /\ macs' \subseteq Devices /\ now' \in Devices \cup {None}
  BY <1>1, <1>2, StartupGoesOnOK DEF Trust!Forget
<1>4. Trust!TypeOK'
  BY <1>1, <1>2, <1>3, Bounds DEF TrustInv, Trust!TypeOK, Files
<1> QED
  BY <1>1, <1>2, <1>3, <1>4 DEF TrustInv, StoreOK

LEMMA SetPreferredInv ==
    ASSUME TrustInv, NEW mac \in Devices \cup {None}, Trust!SetPreferred(mac)
    PROVE  TrustInv'
<1>1. /\ up /\ calls' = calls + 1 /\ calls < MaxCalls /\ runs' = runs
      /\ trusted' = trusted /\ preferred' = mac /\ asked' = asked
      /\ lost' = lost /\ askedThen' = askedThen
  BY DEF Trust!SetPreferred, Trust!facts
<1>2. /\ up' \in BOOLEAN /\ unsaved' \in BOOLEAN /\ file' \in Files
      /\ ~unsaved' /\ file' # None => file'.trusted = trusted'
  BY <1>1, SaveKeepsFile DEF Trust!SetPreferred, TrustInv, Trust!TypeOK, Files
<1>3. StartupOK' /\ routine' \in {"waiting", "connecting", "over"}
      /\ macs' \subseteq Devices /\ now' \in Devices \cup {None}
  BY <1>1, <1>2, StartupGoesOnOK DEF Trust!SetPreferred
<1>4. Trust!TypeOK'
  BY <1>1, <1>2, <1>3, Bounds DEF TrustInv, Trust!TypeOK, Files
<1> QED
  BY <1>1, <1>2, <1>3, <1>4 DEF TrustInv, StoreOK

\* A start reads the file that is there: the store's last word, or nothing, or
\* one that fell behind, which "lost" remembers.
LEMMA StartsInv == ASSUME TrustInv, Trust!Starts PROVE TrustInv'
<1>1. /\ ~up /\ up' = TRUE /\ runs' = runs + 1 /\ runs < MaxRuns
      /\ trusted' = IF file = None THEN {} ELSE file.trusted
      /\ preferred' = IF file = None THEN None ELSE file.preferred
      /\ routine' = "waiting" /\ lost' = (lost \/ unsaved)
      /\ UNCHANGED <<file, macs, now, calls, asked, unsaved, askedThen>>
  BY DEF Trust!Starts
<1>2. Trust!TypeOK'
  BY <1>1, Bounds DEF TrustInv, Trust!TypeOK
<1>3. StoreOK'
  BY <1>1 DEF TrustInv, Trust!TypeOK, StoreOK
<1>4. StartupOK'
  BY <1>1 DEF TrustInv, Trust!TypeOK, StartupOK
<1> QED
  BY <1>2, <1>3, <1>4 DEF TrustInv

LEMMA TrustNext == TrustInv /\ [Trust!Next]_Trust!vars => TrustInv'
<1> SUFFICES ASSUME TrustInv, [Trust!Next]_Trust!vars
             PROVE  TrustInv'
  OBVIOUS
<1>1. CASE \E mac \in Devices : Trust!Trust(mac) \/ Trust!Forget(mac)
  BY <1>1, TrustsInv, ForgetInv
<1>2. CASE \E mac \in Devices \cup {None} : Trust!SetPreferred(mac)
  BY <1>2, SetPreferredInv
<1>3. CASE Trust!Dies
  <2>1. Trust!TypeOK'
    BY <1>3 DEF Trust!Dies, Trust!StartupGoesOn, Trust!store, Trust!facts, TrustInv, Trust!TypeOK
  <2> QED
    BY <1>3, <2>1
    DEF Trust!Dies, Trust!StartupGoesOn, Trust!store, Trust!facts, TrustInv, StoreOK, StartupOK
<1>4. CASE Trust!Starts
  BY <1>4, StartsInv
<1>5. CASE Trust!Available
  <2>1. Trust!TypeOK'
    BY <1>5 DEF Trust!Available, Trust!store, TrustInv, Trust!TypeOK
  <2> QED
    BY <1>5, <2>1 DEF Trust!Available, Trust!store, TrustInv, StoreOK, StartupOK
<1>6. CASE Trust!Unavailable
  <2>1. Trust!TypeOK'
    BY <1>6 DEF Trust!Unavailable, Trust!store, Trust!facts, TrustInv, Trust!TypeOK
  <2> QED
    BY <1>6, <2>1 DEF Trust!Unavailable, Trust!store, Trust!facts, TrustInv, StoreOK, StartupOK
<1>7. CASE Trust!Connects
  <2>1. Trust!TypeOK'
    BY <1>7 DEF Trust!Connects, Trust!store, Trust!facts, TrustInv, Trust!TypeOK
  <2>2. StoreOK'
    BY <1>7 DEF Trust!Connects, Trust!store, Trust!facts, TrustInv, StoreOK
  <2>3. up \/ now' = None
    BY <1>7 DEF Trust!Connects, TrustInv, Trust!TypeOK, StartupOK
  <2> QED
    BY <1>7, <2>1, <2>2, <2>3 DEF Trust!Connects, Trust!store, Trust!facts, TrustInv, StartupOK
<1>8. CASE Trust!Answered
  <2>1. Trust!TypeOK'
    BY <1>8 DEF Trust!Answered, Trust!store, Trust!facts, TrustInv, Trust!TypeOK
  <2> QED
    BY <1>8, <2>1 DEF Trust!Answered, Trust!store, Trust!facts, TrustInv, StoreOK, StartupOK
<1>9. CASE UNCHANGED Trust!vars
  BY <1>9
  DEF Trust!vars, Trust!store, Trust!startup, Trust!facts, TrustInv, Trust!TypeOK, StoreOK,
      StartupOK
<1> QED
  BY <1>1, <1>2, <1>3, <1>4, <1>5, <1>6, <1>7, <1>8, <1>9 DEF Trust!Next

LEMMA TrustStarts == Trust!Init => TrustInv
<1> SUFFICES ASSUME Trust!Init
             PROVE  TrustInv
  OBVIOUS
<1>1. Trust!TypeOK
  <2>1. file = [trusted |-> {}, preferred |-> None]
    BY DEF Trust!Init, Trust!Contents
  <2>2. [trusted |-> {}, preferred |-> None] \in Files
    BY DEF Files
  <2>3. calls \in 0 .. MaxCalls /\ runs \in 1 .. MaxRuns
    BY Bounds DEF Trust!Init
  <2> QED
    BY <2>1, <2>2, <2>3 DEF Trust!Init, Trust!TypeOK, Files
<1>2. StoreOK /\ StartupOK
  BY DEF Trust!Init, Trust!Contents, StoreOK, StartupOK
<1> QED
  BY <1>1, <1>2 DEF TrustInv

\* No device is connected at the start of the bridge that the user had had
\* forgotten, whatever saves were cut off or failed, as long as none that failed
\* was read again.
THEOREM Forgotten == Spec => [](Trust!TypeOK /\ ForgottenStaysForgotten)
<1>1. TrustInv => Trust!TypeOK /\ ForgottenStaysForgotten
  BY DEF TrustInv, StartupOK, ForgottenStaysForgotten, Trust!ForgottenStaysForgotten
<1>2. Trust!Spec => [](Trust!TypeOK /\ ForgottenStaysForgotten)
  BY <1>1, TrustStarts, TrustNext, PTL DEF Trust!Spec
<1> QED
  BY <1>2, IsTrust, PTL

-----------------------------------------------------------------------------
(* The stream profiles *)

ProfileProofs == INSTANCE StreamProfilesProofs

\* The proofs are about the same operators and the same steps.
LEMMA SameLists ==
    /\ ProfileProofs!Profiles = Profile!Profiles /\ ProfileProofs!AnyProfile = Profile!AnyProfile
    /\ ProfileProofs!MP3 = Profile!MP3
BY DEF Profile!PCM, ProfileProofs!PCM, Profile!AAC, ProfileProofs!AAC, Profile!MP3,
    ProfileProofs!MP3, Profile!Profiles, ProfileProofs!Profiles, Profile!AnyProfile,
    ProfileProofs!AnyProfile

LEMMA SameSupport ==
    ASSUME NEW p, NEW s, NEW t
    PROVE  ProfileProofs!Supported(p, s, t) <=> Profile!Supported(p, s, t)
BY DEF Profile!PCM, ProfileProofs!PCM, Profile!AAC, ProfileProofs!AAC, Profile!MP3,
    ProfileProofs!MP3, Profile!Profiles, ProfileProofs!Profiles, Profile!STREAM_PROFILES,
    ProfileProofs!STREAM_PROFILES, Profile!Lists, ProfileProofs!Lists, Profile!Supported,
    ProfileProofs!Supported

LEMMA SameChoice ==
    ASSUME NEW s, NEW t, NEW lastKnown
    PROVE  ProfileProofs!Negotiated(s, t, lastKnown) = Profile!Negotiated(s, t, lastKnown)
BY DEF Profile!PCM, ProfileProofs!PCM, Profile!AAC, ProfileProofs!AAC, Profile!MP3,
    ProfileProofs!MP3, Profile!Profiles, ProfileProofs!Profiles, Profile!STREAM_PROFILES,
    ProfileProofs!STREAM_PROFILES, Profile!Lists, ProfileProofs!Lists, Profile!Supported,
    ProfileProofs!Supported, Profile!Negotiated, ProfileProofs!Negotiated

LEMMA SameLadder ==
    ASSUME NEW first, NEW s, NEW t
    PROVE  ProfileProofs!Ladder(first, s, t) = Profile!Ladder(first, s, t)
BY SameLists, SameSupport DEF Profile!Ladder, ProfileProofs!Ladder

LEMMA SameSteps == [Profile!Next]_Profile!vars => [ProfileProofs!Next]_ProfileProofs!vars
<1> USE SameLists DEF Profile!session, ProfileProofs!session, Profile!attempt,
                      ProfileProofs!attempt, Profile!facts, ProfileProofs!facts
<1>1. Profile!Refresh => ProfileProofs!Refresh
  BY DEF Profile!Refresh, ProfileProofs!Refresh
<1>2. Profile!NewSession => ProfileProofs!NewSession
  BY DEF Profile!NewSession, ProfileProofs!NewSession
<1>3. Profile!Start => ProfileProofs!Start
  BY SameSupport, SameChoice, SameLadder DEF Profile!Start, ProfileProofs!Start
<1>4. Profile!Attempt => ProfileProofs!Attempt
  BY DEF Profile!Attempt, ProfileProofs!Attempt, Profile!PipelineProfile,
    ProfileProofs!PipelineProfile
<1>5. Profile!AttemptFails => ProfileProofs!AttemptFails
  BY DEF Profile!AttemptFails, ProfileProofs!AttemptFails
<1>6. Profile!AttemptSucceeds => ProfileProofs!AttemptSucceeds
  BY DEF Profile!AttemptSucceeds, ProfileProofs!AttemptSucceeds
<1>7. Profile!Swap => ProfileProofs!Swap
  BY DEF Profile!Swap, ProfileProofs!Swap, Profile!PipelineProfile, ProfileProofs!PipelineProfile
<1>8. Profile!Ends => ProfileProofs!Ends
  BY DEF Profile!Ends, ProfileProofs!Ends
<1>9. Profile!vars = ProfileProofs!vars /\ Profile!vars' = ProfileProofs!vars'
  BY DEF Profile!vars, ProfileProofs!vars
<1> QED
  BY <1>1, <1>2, <1>3, <1>4, <1>5, <1>6, <1>7, <1>8, <1>9 DEF Profile!Next, ProfileProofs!Next

\* Side by side with the others too, a start selects what both sides accept and
\* the best of it that has not failed, and in the session's first start the
\* pipeline encodes it.  In a later one it may not: there the pipeline is built
\* for the profile of the start before.
THEOREM ProfilesFit == Spec => [](Profile!TypeOK /\ ProfileFits)
<1>1. Profile!Init => ProfileProofs!Init
  BY SameLists DEF Profile!Init, ProfileProofs!Init
<1>2. ProfileProofs!TypeOK /\ ProfileProofs!ProfileFits => Profile!TypeOK /\ ProfileFits
  <2>1. ProfileProofs!TypeOK => Profile!TypeOK
    BY SameLists DEF Profile!TypeOK, ProfileProofs!TypeOK
  <2>2. ProfileProofs!PlaysWhatBothAccept => Profile!PlaysWhatBothAccept
    BY SameLists DEF Profile!PlaysWhatBothAccept, ProfileProofs!PlaysWhatBothAccept
  <2>3. ProfileProofs!BestFirst => Profile!BestFirst
    BY SameLists DEF Profile!BestFirst, ProfileProofs!BestFirst
  <2>4. ProfileProofs!StreamsWhatItSays => Profile!StreamsWhatItSays
    BY DEF Profile!StreamsWhatItSays, ProfileProofs!StreamsWhatItSays
  <2> QED
    BY <2>1, <2>2, <2>3, <2>4 DEF ProfileFits, Profile!ProfileFits, ProfileProofs!ProfileFits
<1>3. Profile!Spec => ProfileProofs!Spec
  BY <1>1, SameSteps, PTL DEF Profile!Spec, ProfileProofs!Spec
<1>4. Profile!Spec => [](ProfileProofs!TypeOK /\ ProfileProofs!ProfileFits)
  BY <1>3, ProfileProofs!TypeCorrect, ProfileProofs!Fits, PTL
<1> QED
  BY <1>2, <1>4, IsProfile, PTL


-----------------------------------------------------------------------------
(* The Home Assistant integration *)

\* What every poll saw playing, and has played ever since it began, plays now
\* and is in the data that it brings; and a stop owes nothing that it leaves out.
SeenPlaying(p) == /\ p.steady \subseteq Home!Playing(bridge)
                  /\ p.pc = "config" => \A s \in p.steady : p.sessions[s] = Home!PLAYING
HomeInv ==
    /\ Home!TypeOK
    /\ \A p \in polls : SeenPlaying(p)
    /\ \A s \in sure : data.sessions[s] = Home!PLAYING
    /\ command.owed \subseteq command.left

LEMMA IsHome == Spec => Home!Spec
<1>1. Init => Home!Init
  BY DEF Init
<1>2. [Next]_vars => [Home!Next]_Home!vars
  BY DEF Next, vars, Rest, home_vars, Home!vars
<1> QED
  BY <1>1, <1>2, PTL DEF Spec, Home!Spec

LEMMA HomeInit == Home!Init => HomeInv
<1> SUFFICES ASSUME Home!Init
             PROVE  HomeInv
  OBVIOUS
<1> USE DEF Home!Init
<1>1. {Home!ABSENT, Home!PLAYING} \subseteq Home!SessionState \cup {Home!ABSENT}
  BY DEF Home!SessionState, Home!PLAYING
<1>2. bridge \in [Home!Sessions -> [state : Home!SessionState \cup {Home!ABSENT},
                                   speaker : Speakers \cup {None}]]
  BY <1>1
<1>3. data \in [chosen : Speakers,
                sessions : [Home!Sessions -> Home!SessionState \cup {Home!ABSENT}]]
  BY <1>2 DEF Home!StatesIn
<1>4. \A s \in sure : data.sessions[s] = Home!PLAYING
  BY DEF Home!StatesIn, Home!Playing
<1>5. Home!TypeOK
  BY <1>2, <1>3, Bounds DEF Home!TypeOK, Home!NoCommand, Home!Playing
<1> QED
  BY <1>4, <1>5 DEF HomeInv, Home!NoCommand

\* The bridge changes: what plays no longer leaves what a poll or the data
\* counts on.
LEMMA BridgeBecomes ==
    ASSUME HomeInv, NEW b \in [Home!Sessions -> [state : Home!SessionState \cup {Home!ABSENT},
                                                speaker : Speakers \cup {None}]],
           Home!Becomes(b)
    PROVE  /\ bridge' = b /\ polls' \subseteq Home!Poll /\ sure' \subseteq sure
           /\ \A p \in polls' : SeenPlaying(p)'
<1>1. polls \subseteq Home!Poll /\ \A p \in polls : SeenPlaying(p)
  BY DEF HomeInv, Home!TypeOK
<1>2. ASSUME NEW p \in polls
      PROVE  LET q == [p EXCEPT !.steady = @ \cap Home!Playing(b)]
             IN  /\ q \in Home!Poll /\ q.steady \subseteq Home!Playing(b)
                 /\ q.pc = "config" => \A s \in q.steady : q.sessions[s] = Home!PLAYING
  BY <1>1 DEF Home!Poll, SeenPlaying
<1>3. /\ bridge' = b /\ sure' \subseteq sure
      /\ polls' = {[p EXCEPT !.steady = @ \cap Home!Playing(b)] : p \in polls}
  BY DEF Home!Becomes
<1>4. Home!Playing(bridge)' = Home!Playing(b)
  BY <1>3 DEF Home!Playing
<1> QED
  BY <1>2, <1>3, <1>4 DEF SeenPlaying

\* A step that keeps the data, and owes no more of what it leaves.
LEMMA BridgeMoves ==
    ASSUME HomeInv, NEW b \in [Home!Sessions -> [state : Home!SessionState \cup {Home!ABSENT},
                                                speaker : Speakers \cup {None}]],
           Home!Becomes(b), UNCHANGED data, chosen' \in Speakers, moves' \in 0 .. MaxMoves,
           command' \in [pc : {"idle", "asking"}, left : SUBSET Home!Sessions,
                         owed : SUBSET Home!Sessions],
           command'.owed \subseteq command'.left
    PROVE  HomeInv'
<1>1. data \in [chosen : Speakers,
                sessions : [Home!Sessions -> Home!SessionState \cup {Home!ABSENT}]]
      /\ sure \subseteq Home!Sessions /\ \A s \in sure : data.sessions[s] = Home!PLAYING
  BY DEF HomeInv, Home!TypeOK
<1>2. /\ bridge' = b /\ polls' \subseteq Home!Poll /\ sure' \subseteq sure
      /\ \A p \in polls' : SeenPlaying(p)'
  BY BridgeBecomes
<1> QED
  BY <1>1, <1>2 DEF HomeInv, Home!TypeOK

\* A step that leaves the bridge and the polls alone.
LEMMA OnlyCommand ==
    ASSUME HomeInv, UNCHANGED <<bridge, polls, data, sure>>,
           chosen' \in Speakers, moves' \in 0 .. MaxMoves,
           command' \in [pc : {"idle", "asking"}, left : SUBSET Home!Sessions,
                         owed : SUBSET Home!Sessions],
           command'.owed \subseteq command'.left
    PROVE  HomeInv'
BY DEF HomeInv, Home!TypeOK, SeenPlaying, Home!Playing

LEMMA HomeTypes ==
    ASSUME HomeInv
    PROVE  /\ bridge \in [Home!Sessions -> [state : Home!SessionState \cup {Home!ABSENT},
                                            speaker : Speakers \cup {None}]]
           /\ chosen \in Speakers /\ data.chosen \in Speakers /\ sure \subseteq Home!Sessions
           /\ moves \in 0 .. MaxMoves /\ command.owed \subseteq command.left
           /\ command \in [pc : {"idle", "asking"}, left : SUBSET Home!Sessions,
                           owed : SUBSET Home!Sessions]
BY DEF HomeInv, Home!TypeOK

LEMMA AcceptedStates ==
    ASSUME NEW from, NEW to, <<from, to>> \in Home!ValidTransitions
    PROVE  to \in Home!SessionState
BY DEF Home!ValidTransitions, Home!SessionState

LEMMA PlayedOnType ==
    ASSUME HomeInv, NEW t \in Speakers, NEW b \in Home!PlayedOn(t)
    PROVE  b \in [Home!Sessions -> [state : Home!SessionState \cup {Home!ABSENT},
                                   speaker : Speakers \cup {None}]]
<1>1. {Home!STARTING, Home!SUPERSEDED} \subseteq Home!SessionState
  BY DEF Home!SessionState
<1> QED
  BY <1>1, HomeTypes DEF Home!PlayedOn

LEMMA HomeMoves == HomeInv /\ Home!Moves => HomeInv'
<1> SUFFICES ASSUME HomeInv, NEW s \in Home!Sessions, NEW n \in States,
                    moves < MaxMoves, <<bridge[s].state, n>> \in Home!ValidTransitions,
                    Home!Becomes([bridge EXCEPT ![s].state = n]),
                    command' = [command EXCEPT !.owed = Home!Owed(bridge')],
                    moves' = moves + 1, UNCHANGED <<chosen, data>>
             PROVE  HomeInv'
  BY DEF Home!Moves
<1>1. [bridge EXCEPT ![s].state = n] \in
          [Home!Sessions -> [state : Home!SessionState \cup {Home!ABSENT},
                             speaker : Speakers \cup {None}]]
  BY AcceptedStates, HomeTypes
<1>2. /\ command' \in [pc : {"idle", "asking"}, left : SUBSET Home!Sessions,
                       owed : SUBSET Home!Sessions]
      /\ command'.owed \subseteq command'.left
  BY HomeTypes DEF Home!Owed
<1>3. moves' \in 0 .. MaxMoves /\ chosen' \in Speakers
  BY HomeTypes, Bounds
<1> QED
  BY <1>1, <1>2, <1>3, BridgeMoves

LEMMA HomeSomebodyPlays == HomeInv /\ Home!SomebodyPlays => HomeInv'
<1> SUFFICES ASSUME HomeInv, NEW t \in Speakers, NEW b \in Home!PlayedOn(t), Home!Becomes(b),
                    command' = [command EXCEPT !.owed = Home!Owed(bridge')],
                    UNCHANGED <<chosen, data, moves>>
             PROVE  HomeInv'
  BY DEF Home!SomebodyPlays
<1>1. /\ command' \in [pc : {"idle", "asking"}, left : SUBSET Home!Sessions,
                       owed : SUBSET Home!Sessions]
      /\ command'.owed \subseteq command'.left
  BY HomeTypes DEF Home!Owed
<1> QED
  BY <1>1, PlayedOnType, BridgeMoves, HomeTypes

LEMMA HomePressPlay == HomeInv /\ Home!PressPlay => HomeInv'
<1> SUFFICES ASSUME HomeInv, Home!PressPlay
             PROVE  HomeInv'
  OBVIOUS
<1>1. UNCHANGED <<chosen, data, command, moves>>
  BY DEF Home!PressPlay
<1>2. CASE UNCHANGED <<bridge, polls, sure>>
  BY <1>1, <1>2, OnlyCommand, HomeTypes
<1>3. ASSUME NEW b \in Home!PlayedOn(data.chosen), Home!Becomes(b)
      PROVE  HomeInv'
  BY <1>1, <1>3, PlayedOnType, BridgeMoves, HomeTypes
<1> QED
  BY <1>2, <1>3 DEF Home!PressPlay

LEMMA StoppedType ==
    ASSUME HomeInv, NEW s \in Home!Sessions
    PROVE  Home!Stopped(s) \in [Home!Sessions -> [state : Home!SessionState \cup {Home!ABSENT},
                                                speaker : Speakers \cup {None}]]
<1>1. Home!STOPPED \in Home!SessionState
  BY DEF Home!SessionState
<1> QED
  BY <1>1, HomeTypes DEF Home!Stopped

LEMMA HomeAskStop == HomeInv /\ Home!AskStop => HomeInv'
<1> SUFFICES ASSUME HomeInv, NEW s \in Home!Sessions, Home!Becomes(Home!Stopped(s)),
                    command' = [command EXCEPT !.left = @ \ {s},
                                               !.owed = Home!Owed(bridge') \ {s}],
                    UNCHANGED <<chosen, data, moves>>
             PROVE  HomeInv'
  BY DEF Home!AskStop
<1>1. /\ command' \in [pc : {"idle", "asking"}, left : SUBSET Home!Sessions,
                       owed : SUBSET Home!Sessions]
      /\ command'.owed \subseteq command'.left
  BY HomeTypes DEF Home!Owed
<1> QED
  BY <1>1, StoppedType, BridgeMoves, HomeTypes

LEMMA HomeStopFails == HomeInv /\ Home!StopFails => HomeInv'
<1> SUFFICES ASSUME HomeInv, NEW s \in Home!Sessions,
                    UNCHANGED <<bridge, polls, sure>> \/ Home!Becomes(Home!Stopped(s)),
                    command' = Home!NoCommand, UNCHANGED <<chosen, data, moves>>
             PROVE  HomeInv'
  BY DEF Home!StopFails
<1>1. /\ command' \in [pc : {"idle", "asking"}, left : SUBSET Home!Sessions,
                       owed : SUBSET Home!Sessions]
      /\ command'.owed \subseteq command'.left
  BY DEF Home!NoCommand
<1>2. CASE UNCHANGED <<bridge, polls, sure>>
  BY <1>1, <1>2, OnlyCommand, HomeTypes
<1>3. CASE Home!Becomes(Home!Stopped(s))
  BY <1>1, <1>3, StoppedType, BridgeMoves, HomeTypes
<1> QED
  BY <1>2, <1>3

LEMMA HomePolls ==
    ASSUME HomeInv, Home!Begins \/ Home!ListsSessions \/ Home!Ends \/ Home!Fails
    PROVE  HomeInv'
<1>1. /\ polls \subseteq Home!Poll /\ \A p \in polls : SeenPlaying(p)
      /\ \A s \in sure : data.sessions[s] = Home!PLAYING
  BY DEF HomeInv, Home!TypeOK
<1>2. UNCHANGED <<bridge, chosen, command, moves>>
  BY DEF Home!Begins, Home!ListsSessions, Home!Ends, Home!Fails
<1>3. ASSUME polls' \subseteq Home!Poll, \A p \in polls' : SeenPlaying(p),
             data' \in [chosen : Speakers,
                        sessions : [Home!Sessions -> Home!SessionState \cup {Home!ABSENT}]],
             sure' \subseteq Home!Sessions, \A s \in sure' : data'.sessions[s] = Home!PLAYING
      PROVE  HomeInv'
  BY <1>2, <1>3 DEF HomeInv, Home!TypeOK, SeenPlaying, Home!Playing
<1>4. CASE Home!Begins
  <2> DEFINE q == [pc |-> "listing", sessions |-> Home!Nothing, steady |-> Home!Playing(bridge)]
  <2>1. q \in Home!Poll /\ SeenPlaying(q)
    BY DEF Home!Poll, Home!Nothing, Home!Playing, SeenPlaying
  <2>2. polls' = polls \cup {q} /\ UNCHANGED <<data, sure>>
    BY <1>4 DEF Home!Begins
  <2> HIDE DEF q
  <2>3. polls' \subseteq Home!Poll /\ \A p \in polls' : SeenPlaying(p)
    BY <1>1, <2>1, <2>2
  <2> QED
    BY <1>1, <1>3, <2>2, <2>3 DEF HomeInv, Home!TypeOK
<1>5. CASE Home!ListsSessions
  <2>1. PICK p \in polls :
          polls' = (polls \ {p}) \cup
                      {[p EXCEPT !.pc = "config", !.sessions = Home!StatesIn(bridge)]}
    BY <1>5 DEF Home!ListsSessions
  <2> DEFINE q == [p EXCEPT !.pc = "config", !.sessions = Home!StatesIn(bridge)]
  <2>2. Home!StatesIn(bridge) \in [Home!Sessions -> Home!SessionState \cup {Home!ABSENT}]
    BY HomeTypes DEF Home!StatesIn
  <2>3. p \in Home!Poll /\ p.steady \subseteq Home!Playing(bridge)
    BY <1>1 DEF SeenPlaying
  <2>4. q \in Home!Poll /\ q.steady = p.steady /\ q.sessions = Home!StatesIn(bridge)
    BY <2>2, <2>3 DEF Home!Poll
  <2>5. SeenPlaying(q)
    BY <2>3, <2>4 DEF SeenPlaying, Home!StatesIn, Home!Playing
  <2> HIDE DEF q
  <2>6. polls' \subseteq Home!Poll /\ \A r \in polls' : SeenPlaying(r)
    BY <1>1, <2>1, <2>4, <2>5 DEF q
  <2>7. UNCHANGED <<data, sure>>
    BY <1>5 DEF Home!ListsSessions
  <2> QED
    BY <1>1, <1>3, <2>6, <2>7 DEF HomeInv, Home!TypeOK
<1>6. CASE Home!Ends
  <2>1. PICK p \in polls : /\ p.pc = "config" /\ sure' = p.steady /\ polls' = polls \ {p}
                           /\ data' = [sessions |-> p.sessions, chosen |-> chosen]
    BY <1>6 DEF Home!Ends
  <2>2. p \in Home!Poll /\ SeenPlaying(p) /\ chosen \in Speakers
    BY <1>1, HomeTypes
  <2>3. data' \in [chosen : Speakers,
                   sessions : [Home!Sessions -> Home!SessionState \cup {Home!ABSENT}]]
    BY <2>1, <2>2 DEF Home!Poll
  <2>4. sure' \subseteq Home!Sessions /\ \A s \in sure' : data'.sessions[s] = Home!PLAYING
    BY <2>1, <2>2 DEF Home!Poll, SeenPlaying
  <2> QED
    BY <1>1, <1>3, <2>1, <2>3, <2>4
<1>7. CASE Home!Fails
  <2>1. polls' \subseteq polls /\ UNCHANGED <<data, sure>>
    BY <1>7 DEF Home!Fails
  <2> QED
    BY <1>1, <1>3, <2>1 DEF HomeInv, Home!TypeOK
<1> QED
  BY <1>4, <1>5, <1>6, <1>7

LEMMA HomePresses == HomeInv /\ (Home!PressStop \/ Home!PressMediaStop) => HomeInv'
<1> SUFFICES ASSUME HomeInv, Home!PressStop \/ Home!PressMediaStop
             PROVE  HomeInv'
  OBVIOUS
<1>1. /\ sure \subseteq Home!Sessions /\ \A s \in sure : data.sessions[s] = Home!PLAYING
      /\ UNCHANGED <<bridge, chosen, polls, data, sure, moves>>
  BY DEF HomeInv, Home!TypeOK, Home!PressStop, Home!PressMediaStop, Home!Presses
<1>2. PICK left \in SUBSET Home!Sessions, owed \in SUBSET Home!Sessions :
        owed \subseteq left /\ command' = [pc |-> "asking", left |-> left, owed |-> owed]
  BY <1>1 DEF Home!PressStop, Home!PressMediaStop, Home!Presses, Home!ActiveSession,
              Home!OnSpeaker
<1> QED
  BY <1>1, <1>2, OnlyCommand, HomeTypes

LEMMA HomeNext == HomeInv /\ [Home!Next]_Home!vars => HomeInv'
<1> SUFFICES ASSUME HomeInv, [Home!Next]_Home!vars
             PROVE  HomeInv'
  OBVIOUS
<1>1. CASE Home!Chooses
  BY <1>1, OnlyCommand, HomeTypes, Bounds DEF Home!Chooses
<1>2. CASE Home!Finishes
  BY <1>2, OnlyCommand, HomeTypes DEF Home!Finishes, Home!NoCommand
<1>3. CASE UNCHANGED Home!vars
  BY <1>3, OnlyCommand, HomeTypes DEF Home!vars
<1> QED
  BY <1>1, <1>2, <1>3, HomeMoves, HomeSomebodyPlays, HomePressPlay, HomeAskStop, HomeStopFails,
     HomePolls, HomePresses
     DEF Home!Next

\* A stop in Home Assistant that returns has stopped everything it is for that has
\* played since its data was read, whatever polls began, failed or ended meanwhile.
THEOREM StopReaches == Spec => [](Home!TypeOK /\ StopReachesWhatPlays)
<1>1. HomeInv => Home!TypeOK /\ StopReachesWhatPlays
  BY DEF HomeInv, StopReachesWhatPlays, Home!StopReachesWhatPlays
<1>2. Home!Spec => []HomeInv
  BY HomeInit, HomeNext, PTL DEF Home!Spec
<1> QED
  BY <1>1, <1>2, IsHome, PTL


-----------------------------------------------------------------------------
(* The watch over the delivery *)

\* A detachment is no older than the absence that it is taken for, and one
\* absence has brought one of them, unless something broke it in two.
AgesInOrder ==
    /\ state = "quiesced" => look = None /\ away # None /\ away - lag >= DetachGrace
    /\ look # None /\ look.delivery => away = None
    /\ look # None /\ ~look.delivery => away # None /\ away >= lag
    /\ detach # None /\ (look = None \/ ~look.delivery) => away # None /\ away >= detach
OneForEach ==
    /\ profile = "experimental" => Len(recent) <= 1
    /\ away # None => absences > 0
    /\ ~flapped /\ absences < 2 => /\ Len(recent) <= absences
                                   /\ Len(recent) = 1 /\ detach = None => away = None
DeliveryInv == Delivery!TypeOK /\ AgesInOrder /\ OneForEach

LEMMA IsDelivery == Spec => Delivery!Spec
<1>1. Init => Delivery!Init
  BY DEF Init
<1>2. [Next]_vars => [Delivery!Next]_Delivery!vars
  BY DEF Next, vars, Rest, delivery_vars, Delivery!vars, Delivery!clock, Delivery!facts
<1> QED
  BY <1>1, <1>2, PTL DEF Spec, Delivery!Spec

LEMMA SomeAges == /\ Delivery!Cap \in Nat /\ MaxLag < Delivery!Cap /\ None \notin Delivery!Ages
                  /\ \A age \in Delivery!Ages \cup {None} :
                        Delivery!Older(age) \in Delivery!Ages \cup {None}
                  /\ \A age \in Delivery!Ages :
                        /\ Delivery!Older(age) \in Delivery!Ages /\ Delivery!Older(age) >= age
                        /\ \A other \in Delivery!Ages :
                              age >= other => Delivery!Older(age) >= Delivery!Older(other)
                  /\ Delivery!Older(None) = None
BY Bounds, Distinct DEF Delivery!Cap, Delivery!Ages, Delivery!Older

LEMMA DeliveryInit == Delivery!Init => DeliveryInv
<1> SUFFICES ASSUME Delivery!Init
             PROVE  DeliveryInv
  OBVIOUS
<1> USE DEF Delivery!Init
<1>1. recent \in Seq(Delivery!Ages) /\ Len(recent) = 0
  OBVIOUS
<1>2. /\ attach \in 0 .. AttachGrace /\ lag \in 0 .. MaxLag /\ played \in 1 .. MaxPlays
      /\ heals \in 0 .. 2 /\ absences \in 0 .. 2
  BY Bounds
<1>4. Delivery!TypeOK
  <2>1. recent \in Seq(Delivery!Ages) /\ Len(recent) <= 2
    BY <1>1
  <2>2. {detach, away} \subseteq Delivery!Ages \cup {None}
    OBVIOUS
  <2>3. look \in [delivery : BOOLEAN, encoder : BOOLEAN] \cup {None}
    OBVIOUS
  <2> QED
    BY <1>2, <2>1, <2>2, <2>3 DEF Delivery!TypeOK
<1>3. AgesInOrder /\ OneForEach
  BY <1>1 DEF AgesInOrder, OneForEach
<1> QED
  BY <1>3, <1>4 DEF DeliveryInv

\* Pruning takes nothing but the front of the queue.
LEMMA PrunedIsShorter ==
    ASSUME NEW ages \in Seq(Delivery!Ages), Len(ages) <= 2, lag \in 0 .. MaxLag
    PROVE  Delivery!Pruned(ages) \in Seq(Delivery!Ages) /\ Len(Delivery!Pruned(ages)) <= Len(ages)
<1> DEFINE Young(i) == ages[i] - lag <= Window
           First(i) == /\ i <= Len(ages) => Young(i)
                       /\ \A j \in 1 .. i - 1 : ~Young(j)
           first == CHOOSE i \in 1 .. Len(ages) + 1 : First(i)
<1>1. \E i \in 1 .. Len(ages) + 1 : First(i)
  <2>1. CASE Len(ages) = 0
    <3>1. First(1)
      BY <2>1
    <3> QED
      BY <2>1, <3>1
  <2>2. CASE Len(ages) >= 1 /\ Young(1)
    <3>1. First(1)
      BY <2>2
    <3> QED
      BY <2>2, <3>1
  <2>3. CASE Len(ages) = 1 /\ ~Young(1)
    <3>1. First(2)
      <4>1. \A j \in 1 .. 1 : j = 1
        OBVIOUS
      <4> QED
        BY <2>3, <4>1
    <3> QED
      BY <2>3, <3>1
  <2>4. CASE Len(ages) = 2 /\ ~Young(1) /\ Young(2)
    <3>1. First(2)
      <4>1. \A j \in 1 .. 1 : j = 1
        OBVIOUS
      <4> QED
        BY <2>4, <4>1
    <3> QED
      BY <2>4, <3>1
  <2>5. CASE Len(ages) = 2 /\ ~Young(1) /\ ~Young(2)
    <3>1. First(3)
      <4>1. \A j \in 1 .. 2 : j = 1 \/ j = 2
        OBVIOUS
      <4> QED
        BY <2>5, <4>1
    <3> QED
      BY <2>5, <3>1
  <2> QED
    BY <2>1, <2>2, <2>3, <2>4, <2>5
<1>2. first \in 1 .. Len(ages) + 1
  <2> HIDE DEF First
  <2> QED
    BY <1>1
<1>3. Delivery!Pruned(ages) = SubSeq(ages, first, Len(ages))
  BY DEF Delivery!Pruned
<1> HIDE DEF first
<1>4. SubSeq(ages, first, Len(ages)) \in Seq(Delivery!Ages)
      /\ Len(SubSeq(ages, first, Len(ages))) <= Len(ages)
  BY <1>2
<1> QED
  BY <1>3, <1>4

LEMMA DeliveryTypes ==
    ASSUME DeliveryInv
    PROVE  /\ state \in {"playing", "quiesced"} /\ profile \in {"stable", "experimental"}
           /\ renderer \in BOOLEAN /\ encoder \in BOOLEAN /\ established \in BOOLEAN
           /\ attach \in 0 .. AttachGrace /\ detach \in Delivery!Ages \cup {None}
           /\ away \in Delivery!Ages \cup {None}
           /\ recent \in Seq(Delivery!Ages) /\ Len(recent) <= 2
           /\ heals \in 0 .. 2 /\ look \in [delivery : BOOLEAN, encoder : BOOLEAN] \cup {None}
           /\ lag \in 0 .. MaxLag /\ due \in BOOLEAN /\ played \in 1 .. MaxPlays
           /\ absences \in 0 .. 2 /\ flapped \in BOOLEAN
           /\ AgesInOrder /\ OneForEach
BY DEF DeliveryInv, Delivery!TypeOK

LEMMA DeliveryPasses == DeliveryInv /\ Delivery!Passes => DeliveryInv'
<1> SUFFICES ASSUME DeliveryInv, Delivery!Passes
             PROVE  DeliveryInv'
  OBVIOUS
<1>1. /\ \/ look = None /\ due' = TRUE /\ lag' = lag
         \/ look # None /\ lag < MaxLag /\ lag' = lag + 1 /\ due' = due
      /\ attach' = IF attach = 0 THEN 0 ELSE attach - 1
      /\ detach' = Delivery!Older(detach) /\ away' = Delivery!Older(away)
      /\ recent' = [i \in DOMAIN recent |-> Delivery!Older(recent[i])]
      /\ UNCHANGED <<state, profile, renderer, encoder, established, heals, look, played, absences,
                     flapped>>
  BY DEF Delivery!Passes
<1>2. recent' \in Seq(Delivery!Ages) /\ Len(recent') = Len(recent)
  <2>1. recent' \in [1 .. Len(recent) -> Delivery!Ages]
    BY <1>1, DeliveryTypes, SomeAges
  <2>2. Len(recent) \in Nat
    BY DeliveryTypes
  <2> QED
    BY <2>1, <2>2
<1>3. lag' \in 0 .. MaxLag /\ attach' \in 0 .. AttachGrace /\ due' \in BOOLEAN
      /\ lag' >= lag /\ lag' <= lag + 1 /\ (look = None => lag' = lag)
  <2>1. lag \in Nat /\ lag <= MaxLag /\ due \in BOOLEAN /\ attach \in 0 .. AttachGrace
    BY DeliveryTypes
  <2>2. CASE look = None
    BY <1>1, <2>1, <2>2, Bounds
  <2>3. CASE look # None
    BY <1>1, <2>1, <2>3, Bounds
  <2> QED
    BY <2>2, <2>3
<1>4. Delivery!TypeOK'
  BY <1>1, <1>2, <1>3, DeliveryTypes, SomeAges DEF Delivery!TypeOK
<1>5. /\ away' = None <=> away = None
      /\ detach' = None <=> detach = None
      /\ away # None => away' >= away
      /\ away # None /\ detach # None /\ away >= detach => away' >= detach'
      /\ away # None /\ away >= lag => away' >= lag'
  <2>1. away # None => away' \in Delivery!Ages /\ away' >= away
    BY <1>1, DeliveryTypes, SomeAges
  <2>2. away # None /\ detach # None /\ away >= detach => away' >= detach'
    BY <1>1, DeliveryTypes, SomeAges
  <2>3. away # None /\ away >= lag => away' >= lag'
    BY <1>1, <1>3, DeliveryTypes, SomeAges, Bounds DEF Delivery!Older, Delivery!Ages, Delivery!Cap
  <2>4. detach # None => detach' \in Delivery!Ages
    BY <1>1, DeliveryTypes, SomeAges
  <2> QED
    BY <1>1, <2>1, <2>2, <2>3, <2>4, SomeAges
<1>6. AgesInOrder'
  <2>1. state = "quiesced" => away' # None /\ away' - lag' >= DetachGrace
    BY <1>1, <1>3, <1>4, <1>5, DeliveryTypes, SomeAges, Bounds
       DEF AgesInOrder, Delivery!Ages, Delivery!TypeOK
  <2> QED
    BY <1>1, <1>5, <2>1, DeliveryTypes DEF AgesInOrder
<1>7. OneForEach'
  BY <1>1, <1>2, <1>5, DeliveryTypes DEF OneForEach
<1> QED
  BY <1>4, <1>6, <1>7 DEF DeliveryInv

LEMMA DeliveryLooks == DeliveryInv /\ Delivery!Looks => DeliveryInv'
<1> SUFFICES ASSUME DeliveryInv, Delivery!Looks
             PROVE  DeliveryInv'
  OBVIOUS
<1>1. /\ state = "playing" /\ look = None
      /\ look' = [delivery |-> renderer, encoder |-> encoder] /\ lag' = 0 /\ due' = FALSE
      /\ established' = (established \/ renderer)
      /\ away' = IF renderer THEN None ELSE IF away = None THEN 0 ELSE away
      /\ absences' = IF renderer \/ away # None \/ absences = 2 THEN absences ELSE absences + 1
      /\ UNCHANGED <<state, profile, renderer, encoder, attach, detach, recent, heals, played,
                     flapped>>
  BY DEF Delivery!Looks
<1>2. /\ look' \in [delivery : BOOLEAN, encoder : BOOLEAN] /\ look'.delivery = renderer
      /\ away' \in Delivery!Ages \cup {None} /\ absences' \in 0 .. 2 /\ look' # None
      /\ absences' >= absences /\ lag' \in 0 .. MaxLag
  BY <1>1, DeliveryTypes, SomeAges, Distinct, Bounds DEF Delivery!Ages
<1>3. Delivery!TypeOK'
  BY <1>1, <1>2, DeliveryTypes DEF Delivery!TypeOK
<1>4. AgesInOrder'
  BY <1>1, <1>2, DeliveryTypes, SomeAges, Distinct DEF AgesInOrder, Delivery!Ages
<1>5. OneForEach'
  <2>1. Len(recent) \in Nat /\ absences \in 0 .. 2 /\ OneForEach
    BY DeliveryTypes
  <2>2. /\ UNCHANGED <<recent, profile, flapped, detach>>
        /\ absences' = IF renderer \/ away # None \/ absences = 2 THEN absences ELSE absences + 1
        /\ away' = IF renderer THEN None ELSE IF away = None THEN 0 ELSE away
    BY <1>1
  <2> QED
    BY <2>1, <2>2 DEF OneForEach
<1> QED
  BY <1>3, <1>4, <1>5 DEF DeliveryInv


\* What a round of the loop makes of the detachment, before the rest of it.
LEMMA JudgedDetachment ==
    ASSUME DeliveryInv, look # None
    PROVE  /\ Delivery!Detachment \in Delivery!Ages \cup {None}
           /\ Delivery!Detachment # None => away # None /\ away >= Delivery!Detachment
           /\ detach = None /\ Delivery!Detachment = None => Delivery!Remembered = recent
           /\ detach # None /\ Delivery!Detachment = None /\ look.delivery => away = None
<1>1. /\ lag \in Delivery!Ages /\ detach \in Delivery!Ages \cup {None} /\ lag # None
      /\ away \in Delivery!Ages \cup {None} /\ look.delivery \in BOOLEAN
      /\ AgesInOrder
  BY DeliveryTypes, SomeAges, Bounds, Distinct DEF Delivery!Ages
<1>2. Delivery!Missed => ~look.delivery
  BY DEF Delivery!Missed
<1>3. Delivery!Detachment \in Delivery!Ages \cup {None}
  BY <1>1 DEF Delivery!Detachment
<1>4. Delivery!Detachment # None => away # None /\ away >= Delivery!Detachment
  BY <1>1, <1>2 DEF Delivery!Detachment, AgesInOrder
<1>5. detach = None /\ Delivery!Detachment = None => Delivery!Remembered = recent
  BY <1>1 DEF Delivery!Detachment, Delivery!Remembered
<1>6. look.delivery => away = None
  BY <1>1 DEF AgesInOrder
<1> QED
  BY <1>3, <1>4, <1>5, <1>6

\* A detachment that begins is remembered, and no other.
LEMMA JudgedQueue ==
    ASSUME DeliveryInv, look # None
    PROVE  /\ Delivery!Remembered \in Seq(Delivery!Ages) /\ Len(Delivery!Remembered) <= 2
           /\ profile = "experimental" /\ ~Delivery!Missed => Delivery!Remembered = recent
           /\ Delivery!Missed /\ detach = None => Len(Delivery!Remembered) <= Len(recent) + 1
           /\ ~Delivery!Missed \/ detach # None => Len(Delivery!Remembered) <= Len(recent)
<1>1. /\ recent \in Seq(Delivery!Ages) /\ Len(recent) <= 2 /\ lag \in Delivery!Ages
      /\ lag \in 0 .. MaxLag /\ OneForEach
  BY DeliveryTypes, SomeAges, Bounds DEF Delivery!Ages
<1>2. CASE ~(profile = "experimental" /\ Delivery!Missed)
  BY <1>1, <1>2 DEF Delivery!Remembered
<1>3. CASE profile = "experimental" /\ Delivery!Missed /\ detach = None
  <2>1. Append(recent, lag) \in Seq(Delivery!Ages) /\ Len(Append(recent, lag)) = Len(recent) + 1
    BY <1>1
  <2>2. Len(Append(recent, lag)) <= 2
    BY <1>1, <1>3, <2>1 DEF OneForEach
  <2>3. Delivery!Remembered = Delivery!Pruned(Append(recent, lag))
    BY <1>3 DEF Delivery!Remembered
  <2> HIDE DEF Delivery!Remembered
  <2>4. /\ Delivery!Pruned(Append(recent, lag)) \in Seq(Delivery!Ages)
        /\ Len(Delivery!Pruned(Append(recent, lag))) <= Len(Append(recent, lag))
    BY <1>1, <2>1, <2>2, PrunedIsShorter
  <2>5. Len(recent) \in Nat /\ Len(Delivery!Remembered) \in Nat
    BY <1>1, <2>3, <2>4
  <2> QED
    BY <1>3, <2>1, <2>2, <2>3, <2>4, <2>5
<1>4. CASE profile = "experimental" /\ Delivery!Missed /\ detach # None
  <2>1. Delivery!Remembered = Delivery!Pruned(recent)
    BY <1>4 DEF Delivery!Remembered
  <2>2. /\ Delivery!Pruned(recent) \in Seq(Delivery!Ages)
        /\ Len(Delivery!Pruned(recent)) <= Len(recent)
    BY <1>1, PrunedIsShorter
  <2>3. Len(recent) \in Nat /\ Len(Delivery!Remembered) \in Nat
    BY <1>1, <2>1, <2>2
  <2> QED
    BY <1>1, <1>4, <2>1, <2>2, <2>3
<1> QED
  BY <1>2, <1>3, <1>4

LEMMA DeliveryJudges == DeliveryInv /\ Delivery!Judges => DeliveryInv'
<1> SUFFICES ASSUME DeliveryInv, Delivery!Judges
             PROVE  DeliveryInv'
  OBVIOUS
<1>1. /\ look # None /\ state = "playing" /\ look' = None
      /\ detach' = Delivery!Detachment /\ recent' = Delivery!Remembered
      /\ profile' = IF Delivery!FallsBack THEN "stable" ELSE profile
      /\ flapped' = (flapped \/ (detach # None /\ ~look.delivery /\ Delivery!Detachment = None))
      /\ Delivery!Overdue => state' = "quiesced"
      /\ ~Delivery!Overdue => state' = state
      /\ heals' \in {heals, heals + 1} /\ (heals = 2 => heals' = 2)
      /\ UNCHANGED <<renderer, encoder, established, attach, lag, due, played, away, absences>>
  BY DEF Delivery!Judges
<1>2. Delivery!TypeOK'
  <2>1. heals' \in 0 .. 2
    BY <1>1, DeliveryTypes
  <2>2. flapped' \in BOOLEAN /\ profile' \in {"stable", "experimental"}
        /\ state' \in {"playing", "quiesced"}
    BY <1>1, DeliveryTypes
  <2>3. recent' \in Seq(Delivery!Ages) /\ Len(recent') <= 2
    BY <1>1, JudgedQueue
  <2>4. {detach', away'} \subseteq Delivery!Ages \cup {None}
    BY <1>1, JudgedDetachment, DeliveryTypes
  <2> QED
    BY <1>1, <2>1, <2>2, <2>3, <2>4, DeliveryTypes DEF Delivery!TypeOK
<1>3. AgesInOrder'
  <2>1. Delivery!Overdue => away # None /\ away - lag >= DetachGrace
    <3>1. Delivery!Overdue => Delivery!Detachment # None /\ Delivery!Detachment - lag >= DetachGrace
      BY DEF Delivery!Overdue
    <3>2. /\ away \in Delivery!Ages \cup {None} /\ lag \in 0 .. MaxLag
          /\ Delivery!Detachment \in Delivery!Ages \cup {None}
          /\ Delivery!Detachment # None => away # None /\ away >= Delivery!Detachment
      BY <1>1, JudgedDetachment, DeliveryTypes
    <3> QED
      BY <3>1, <3>2, SomeAges, Bounds DEF Delivery!Ages
  <2>2. Delivery!Detachment # None => away # None /\ away >= Delivery!Detachment
    BY <1>1, JudgedDetachment
  <2> QED
    BY <1>1, <2>1, <2>2, DeliveryTypes DEF AgesInOrder
<1>4. OneForEach'
  <2>1. /\ recent \in Seq(Delivery!Ages) /\ Len(recent) \in Nat /\ absences \in 0 .. 2 /\ OneForEach
        /\ recent' \in Seq(Delivery!Ages) /\ Len(recent') \in Nat
    BY <1>1, JudgedQueue, DeliveryTypes
  <2>2. profile' = "experimental" => Len(recent') <= 1
    <3> SUFFICES ASSUME profile' = "experimental"
                 PROVE  Len(recent') <= 1
      OBVIOUS
    <3>1. profile = "experimental" /\ ~Delivery!FallsBack
      BY <1>1
    <3>2. CASE Delivery!Missed
      BY <1>1, <2>1, <3>1, <3>2 DEF Delivery!FallsBack
    <3>3. CASE ~Delivery!Missed
      BY <1>1, <2>1, <3>1, <3>3, JudgedQueue DEF OneForEach
    <3> QED
      BY <3>2, <3>3
  <2>3. ~flapped' /\ absences < 2 => Len(recent') <= absences
    <3> SUFFICES ASSUME ~flapped', absences < 2
                 PROVE  Len(recent') <= absences
      OBVIOUS
    <3>1. ~flapped
      BY <1>1
    <3>2. CASE Delivery!Missed /\ detach = None
      <4>1. away # None
        BY <1>1, <3>2, DeliveryTypes DEF AgesInOrder, Delivery!Missed
      <4>2. Len(recent) = 0 /\ absences > 0
        <5>1. Len(recent) # 1 /\ Len(recent) <= absences /\ absences > 0
          BY <2>1, <3>1, <3>2, <4>1 DEF OneForEach
        <5>2. absences = 1 /\ Len(recent) \in Nat
          BY <2>1, <3>2, <5>1
        <5>3. Len(recent) = 0
          BY <5>1, <5>2
        <5> QED
          BY <5>1, <5>3
      <4> QED
        BY <1>1, <2>1, <3>2, <4>2, JudgedQueue
    <3>3. CASE ~Delivery!Missed \/ detach # None
      BY <1>1, <2>1, <3>1, <3>3, JudgedQueue DEF OneForEach
    <3> QED
      BY <3>2, <3>3
  <2>4. ~flapped' /\ absences < 2 /\ Len(recent') = 1 /\ detach' = None => away = None
    <3> SUFFICES ASSUME ~flapped', absences < 2, Len(recent') = 1, detach' = None
                 PROVE  away = None
      OBVIOUS
    <3>1. CASE detach = None
      <4>1. Len(recent) = 1 /\ ~flapped
        BY <1>1, <3>1, JudgedDetachment
      <4> QED
        BY <2>1, <3>1, <4>1 DEF OneForEach
    <3>2. CASE detach # None
      BY <1>1, <3>2, JudgedDetachment
    <3> QED
      BY <3>1, <3>2
  <2>5. away # None => absences > 0
    BY <2>1 DEF OneForEach
  <2> QED
    BY <1>1, <2>2, <2>3, <2>4, <2>5 DEF OneForEach
<1> QED
  BY <1>2, <1>3, <1>4 DEF DeliveryInv

LEMMA DeliveryStartsAgain == DeliveryInv /\ Delivery!StartsAgain => DeliveryInv'
<1> SUFFICES ASSUME DeliveryInv, Delivery!StartsAgain
             PROVE  DeliveryInv'
  OBVIOUS
<1>1. /\ played < MaxPlays /\ state' = "playing" /\ played' = played + 1
      /\ profile' \in {"stable", "experimental"}
      /\ renderer' = FALSE /\ encoder' = TRUE
      /\ attach' = AttachGrace /\ detach' = None /\ recent' = <<>>
      /\ look' = None /\ lag' = 0 /\ due' = TRUE
      /\ away' = None /\ absences' = 0 /\ flapped' = FALSE
      /\ UNCHANGED <<established, heals>>
  BY DEF Delivery!StartsAgain
<1>2. recent' \in Seq(Delivery!Ages) /\ Len(recent') = 0
  BY <1>1
<1>3. /\ attach' \in 0 .. AttachGrace /\ lag' \in 0 .. MaxLag /\ played' \in 1 .. MaxPlays
      /\ absences' \in 0 .. 2
  BY <1>1, DeliveryTypes, Bounds
<1>4. Delivery!TypeOK'
  <2>1. Len(recent') <= 2
    BY <1>2
  <2> QED
    BY <1>1, <1>2, <1>3, <2>1, DeliveryTypes DEF Delivery!TypeOK
<1>5. AgesInOrder' /\ OneForEach'
  BY <1>1, <1>2 DEF AgesInOrder, OneForEach
<1> QED
  BY <1>4, <1>5 DEF DeliveryInv

LEMMA DeliveryNext == DeliveryInv /\ [Delivery!Next]_Delivery!vars => DeliveryInv'
<1> SUFFICES ASSUME DeliveryInv, [Delivery!Next]_Delivery!vars
             PROVE  DeliveryInv'
  OBVIOUS
<1>1. ASSUME renderer' \in BOOLEAN, encoder' \in BOOLEAN, attach' \in 0 .. AttachGrace,
             UNCHANGED <<state, profile, established, detach, recent, heals, look, lag, due,
                         played, away, absences, flapped>>
      PROVE  DeliveryInv'
  BY <1>1 DEF DeliveryInv, Delivery!TypeOK, AgesInOrder, OneForEach
<1>2. CASE Delivery!RendererComesOrGoes
  BY <1>1, <1>2, DeliveryTypes DEF Delivery!RendererComesOrGoes, Delivery!clock, Delivery!facts
<1>3. CASE Delivery!EncoderHiccups
  BY <1>1, <1>3, DeliveryTypes DEF Delivery!EncoderHiccups, Delivery!clock, Delivery!facts
<1>4. CASE Delivery!PlaysAgain
  BY <1>1, <1>4, DeliveryTypes, Bounds DEF Delivery!PlaysAgain, Delivery!clock, Delivery!facts
<1>5. CASE UNCHANGED Delivery!vars
  BY <1>1, <1>5, DeliveryTypes DEF Delivery!vars, Delivery!clock, Delivery!facts
<1> QED
  BY <1>2, <1>3, <1>4, <1>5, DeliveryPasses, DeliveryLooks, DeliveryJudges, DeliveryStartsAgain
     DEF Delivery!Next

\* A session is quiesced only when every look for the whole grace missed its
\* renderer, whatever was awaited in between, and falls back to the stable profile
\* only for a second absence, a second heal, or an absence that was broken in two.
THEOREM Detachments == Spec => [](Delivery!TypeOK /\ DetachmentsAreReal)
<1>1. DeliveryInv => Delivery!TypeOK /\ DetachmentsAreReal
  <2> SUFFICES ASSUME DeliveryInv
               PROVE  Delivery!TypeOK /\ DetachmentsAreReal
    OBVIOUS
  <2>1. Delivery!TypeOK
    BY DEF DeliveryInv
  <2>2. Delivery!QuiescedOnlyWhenAway
    BY DeliveryTypes DEF AgesInOrder, Delivery!QuiescedOnlyWhenAway
  <2>3. Delivery!FallsBackOnRepeat
    <3> SUFFICES ASSUME look # None, Delivery!Missed, Len(Delivery!Remembered) >= 2,
                        absences # 2, ~flapped
                 PROVE  FALSE
      BY DEF Delivery!FallsBackOnRepeat, Delivery!FallsBack
    <3>1. /\ Len(recent) \in Nat /\ Len(Delivery!Remembered) \in Nat /\ absences \in {0, 1}
          /\ AgesInOrder /\ OneForEach
      BY DeliveryTypes, JudgedQueue
    <3>2. away # None
      BY <3>1 DEF AgesInOrder, Delivery!Missed
    <3>3. CASE detach = None
      <4>1. Len(recent) = 0
        <5>1. Len(recent) # 1 /\ Len(recent) <= absences
          BY <3>1, <3>2, <3>3 DEF OneForEach
        <5> QED
          BY <3>1, <5>1
      <4> QED
        BY <3>1, <3>3, <4>1, JudgedQueue
    <3>4. CASE detach # None
      BY <3>1, <3>4, JudgedQueue DEF OneForEach
    <3> QED
      BY <3>3, <3>4
  <2> QED
    BY <2>1, <2>2, <2>3 DEF DetachmentsAreReal, Delivery!DetachmentsAreReal
<1>2. Delivery!Spec => []DeliveryInv
  BY DeliveryInit, DeliveryNext, PTL DEF Delivery!Spec
<1> QED
  BY <1>1, <1>2, IsDelivery, PTL


-----------------------------------------------------------------------------
(* A capturing adapter *)

\* There is one task at most that is not over, and the fields are its own: what
\* captures is the current task, in a session that somebody holds, and what runs
\* is its process.
OneCapture ==
    /\ \A t, u \in Process!Tasks :
           pc[t] \notin Process!Over /\ pc[u] \notin Process!Over => t = u
    /\ \A t \in Process!Tasks : pc[t] \in Process!Capturing => current = t /\ session # None
    /\ \A t \in Process!Tasks :
           proc[t] = "running" => pc[t] \in {"reading", "cancelled"} /\ process = t
    /\ session = None => ~running /\ sink = None
    /\ ~forgotten /\ session # None => \E s \in Sinks : held[s] = session
    /\ running => current # None /\ pc[current] \in Process!Capturing
ProcessInv == Process!TypeOK /\ (~hasty => OneCapture)

LEMMA IsProcess == Spec => Process!Spec
<1>1. Init => Process!Init
  BY DEF Init
<1>2. [Next]_vars => [Process!Next]_Process!vars
  BY DEF Next, vars, Rest, process_vars, Process!vars
<1> QED
  BY <1>1, <1>2, PTL DEF Spec, Process!Spec

LEMMA ProcessInit == Process!Init => ProcessInv
<1> SUFFICES ASSUME Process!Init
             PROVE  ProcessInv
  OBVIOUS
<1> USE DEF Process!Init, Process!Over, Process!Capturing
<1>1. Process!TypeOK
  BY DEF Process!TypeOK
<1>2. OneCapture
  BY DEF OneCapture
<1> QED
  BY <1>1, <1>2 DEF ProcessInv

LEMMA ProcessTypes ==
    ASSUME ProcessInv
    PROVE  /\ kind \in Kinds /\ running \in BOOLEAN /\ hasty \in BOOLEAN /\ forgotten \in BOOLEAN
           /\ session \in Process!Tasks \cup {None} /\ sink \in Sinks \cup {None}
           /\ current \in Process!Tasks \cup {None} /\ process \in Process!Tasks \cup {None}
           /\ pc \in [Process!Tasks -> Process!Capturing \cup Process!Over \cup
                                       {"cancelled", "waiting"}]
           /\ on \in [Process!Tasks -> Process!Tasks \cup {None}]
           /\ proc \in [Process!Tasks -> {"none", "running", "dying", "gone"}]
           /\ held \in [Sinks -> Process!Tasks \cup {None}]
           /\ None \notin Process!Tasks /\ (~hasty => OneCapture)
BY Distinct DEF ProcessInv, Process!TypeOK, Process!Tasks

LEMMA SessionIds == \A t \in Process!Tasks : Process!SessionId(t) \in Process!Tasks
BY Bounds DEF Process!SessionId, Process!Tasks

LEMMA TerminatedType ==
    ASSUME NEW procs \in [Process!Tasks -> {"none", "running", "dying", "gone"}],
           NEW p \in Process!Tasks
    PROVE  /\ Process!Terminated(procs, p) \in
                  [Process!Tasks -> {"none", "running", "dying", "gone"}]
           /\ \A t \in Process!Tasks :
                  Process!Terminated(procs, p)[t] = "running" => procs[t] = "running" /\ t # p
BY DEF Process!Terminated

\* The clean-up terminates what runs.
LEMMA CleanUpTerminates ==
    ASSUME ProcessInv, NEW t \in Process!Tasks, NEW p \in Process!Tasks \cup {None},
           NEW procs \in [Process!Tasks -> {"none", "running", "dying", "gone"}],
           pc[t] \notin Process!Over, UNCHANGED Process!callers, Process!CleansUp(t, p, procs),
           ~hasty => \A u \in Process!Tasks : procs[u] = "running" => p = u
    PROVE  ProcessInv'
<1> USE ProcessTypes
<1>1. /\ running' = FALSE /\ UNCHANGED <<kind, session, sink, current, held, hasty, forgotten>>
      /\ pc' = [pc EXCEPT ![t] = "over"] \/ pc' = [pc EXCEPT ![t] = "waiting"]
  BY DEF Process!CleansUp, Process!callers
<1>2. /\ process' \in Process!Tasks \cup {None}
      /\ proc' \in [Process!Tasks -> {"none", "running", "dying", "gone"}]
      /\ on' \in [Process!Tasks -> Process!Tasks \cup {None}]
  BY TerminatedType DEF Process!CleansUp
<1>3. ~hasty => \A u \in Process!Tasks : proc'[u] # "running"
  <2> SUFFICES ASSUME ~hasty, NEW u \in Process!Tasks, proc'[u] = "running"
               PROVE  FALSE
    OBVIOUS
  <2>1. CASE p = None \/ procs[p] = "gone"
    BY <2>1 DEF Process!CleansUp
  <2>2. CASE ~(p = None \/ procs[p] = "gone")
    BY <2>2, TerminatedType DEF Process!CleansUp
  <2> QED
    BY <2>1, <2>2
<1>4. pc' \in [Process!Tasks -> Process!Capturing \cup Process!Over \cup {"cancelled", "waiting"}]
  BY <1>1 DEF Process!Over
<1>5. \A u \in Process!Tasks :
          /\ pc'[u] \notin Process!Over => pc[u] \notin Process!Over
          /\ pc'[u] \in Process!Capturing => pc[u] \in Process!Capturing
  BY <1>1 DEF Process!Over, Process!Capturing
<1>6. Process!TypeOK'
  BY <1>1, <1>2, <1>4 DEF Process!TypeOK
<1>7. ~hasty' => OneCapture'
  BY <1>1, <1>3, <1>5 DEF OneCapture
<1> QED
  BY <1>6, <1>7 DEF ProcessInv

\* A task goes on, and what is its own stays so.
LEMMA TaskGoesOn ==
    ASSUME ProcessInv, NEW t \in Process!Tasks, UNCHANGED Process!callers, running' \in BOOLEAN,
           running' => running,
           NEW to \in Process!Capturing \cup Process!Over \cup {"cancelled", "waiting"},
           pc' = [pc EXCEPT ![t] = to], pc[t] \notin Process!Over,
           to \in Process!Capturing => pc[t] \in Process!Capturing,
           running' => to \in Process!Capturing \/ t # current,
           process' \in Process!Tasks \cup {None},
           on' \in [Process!Tasks -> Process!Tasks \cup {None}],
           proc' \in [Process!Tasks -> {"none", "running", "dying", "gone"}],
           ~hasty => \A u \in Process!Tasks :
               proc'[u] = "running" => pc'[u] \in {"reading", "cancelled"} /\ process' = u
    PROVE  ProcessInv'
<1> USE ProcessTypes
<1>1. UNCHANGED <<kind, session, sink, current, held, hasty, forgotten>>
  BY DEF Process!callers
<1>2. /\ pc' \in [Process!Tasks -> Process!Capturing \cup Process!Over \cup
                                   {"cancelled", "waiting"}]
      /\ \A u \in Process!Tasks : pc'[u] = IF u = t THEN to ELSE pc[u]
  OBVIOUS
<1>3. \A u \in Process!Tasks :
          /\ pc'[u] \notin Process!Over => pc[u] \notin Process!Over
          /\ pc'[u] \in Process!Capturing => pc[u] \in Process!Capturing
  BY <1>2
<1>4. Process!TypeOK'
  BY <1>1, <1>2 DEF Process!TypeOK
<1>5. ASSUME ~hasty
      PROVE  OneCapture'
  <2>1. OneCapture
    BY <1>5
  <2>2. running' => current # None /\ pc'[current] \in Process!Capturing
    BY <1>2, <2>1 DEF OneCapture
  <2>3. /\ \A u, v \in Process!Tasks :
              pc'[u] \notin Process!Over /\ pc'[v] \notin Process!Over => u = v
        /\ \A u \in Process!Tasks : pc'[u] \in Process!Capturing => current = u /\ session # None
    BY <1>3, <2>1 DEF OneCapture
  <2> QED
    BY <1>1, <1>5, <2>1, <2>2, <2>3 DEF OneCapture
<1> QED
  BY <1>1, <1>4, <1>5 DEF ProcessInv


LEMMA ProcessStart ==
    ASSUME ProcessInv, NEW s \in Sinks, NEW t \in Process!Tasks, Process!Start(s, t)
    PROVE  ProcessInv'
<1> USE ProcessTypes, SessionIds
<1>1. /\ session' = Process!SessionId(t) /\ sink' = s /\ running' = TRUE /\ current' = t
      /\ pc' = [pc EXCEPT ![t] = "new"]
      /\ held' = [held EXCEPT ![s] = Process!SessionId(t)]
      /\ hasty' = (hasty \/ \E u \in Process!Tasks : pc[u] \notin Process!Over)
      /\ UNCHANGED <<kind, process, on, proc, forgotten>>
  BY DEF Process!Start
<1>2. Process!TypeOK'
  BY <1>1 DEF Process!TypeOK, Process!Capturing
<1>3. ASSUME ~hasty'
      PROVE  OneCapture'
  <2>1. /\ \A u \in Process!Tasks : pc[u] \in Process!Over
        /\ OneCapture
    BY <1>1, <1>3
  <2>2. \A u \in Process!Tasks : pc'[u] = IF u = t THEN "new" ELSE pc[u]
    BY <1>1
  <2>3. \A u \in Process!Tasks : u # t => pc'[u] \in Process!Over /\ pc'[u] \notin Process!Capturing
    BY <2>1, <2>2 DEF Process!Over, Process!Capturing
  <2>4. \A u \in Process!Tasks : proc'[u] # "running"
    BY <1>1, <2>1 DEF OneCapture, Process!Over
  <2>5. session' # None /\ held'[s] = session' /\ pc'[t] \in Process!Capturing /\ current' # None
    BY <1>1 DEF Process!Capturing
  <2> QED
    BY <1>1, <2>3, <2>4, <2>5 DEF OneCapture
<1> QED
  BY <1>2, <1>3 DEF ProcessInv

LEMMA ProcessStop == ASSUME ProcessInv, NEW s \in Sinks, Process!Stop(s)
                     PROVE  ProcessInv'
<1> USE ProcessTypes
<1>1. /\ held' = [held EXCEPT ![s] = None]
      /\ session' = None /\ sink' = None /\ current' = None /\ running' = FALSE
      /\ pc' = IF current = None THEN pc ELSE Process!Cancelled(current)
      /\ UNCHANGED <<kind, process, on, hasty, forgotten>>
  BY DEF Process!Stop
<1>2. /\ proc' \in [Process!Tasks -> {"none", "running", "dying", "gone"}]
      /\ \A u \in Process!Tasks : proc'[u] = "running" => proc[u] = "running"
  BY TerminatedType DEF Process!Stop
<1>3. /\ pc' \in [Process!Tasks -> Process!Capturing \cup Process!Over \cup
                                   {"cancelled", "waiting"}]
      /\ \A u \in Process!Tasks :
            /\ pc'[u] \notin Process!Over => pc[u] \notin Process!Over
            /\ u # current => pc'[u] = pc[u]
            /\ u = current => pc'[u] \notin Process!Capturing
            /\ pc[u] \in {"reading", "cancelled"} => pc'[u] \in {"reading", "cancelled"}
  BY <1>1 DEF Process!Cancelled, Process!Over, Process!Capturing
<1>4. Process!TypeOK'
  BY <1>1, <1>2, <1>3 DEF Process!TypeOK
<1>5. ASSUME ~hasty'
      PROVE  OneCapture'
  <2>1. OneCapture
    BY <1>1, <1>5
  <2>2. \A u \in Process!Tasks : pc'[u] \notin Process!Capturing
    BY <1>3, <2>1 DEF OneCapture
  <2>3. \A u, v \in Process!Tasks :
            pc'[u] \notin Process!Over /\ pc'[v] \notin Process!Over => u = v
    BY <1>3, <2>1 DEF OneCapture
  <2>4. \A u \in Process!Tasks :
            proc'[u] = "running" => pc'[u] \in {"reading", "cancelled"} /\ process' = u
    BY <1>1, <1>2, <1>3, <2>1 DEF OneCapture
  <2> QED
    BY <1>1, <2>2, <2>3, <2>4 DEF OneCapture
<1> QED
  BY <1>4, <1>5 DEF ProcessInv

\* What the sessions believe may change, as long as the adapter's session is held.
LEMMA OnlyHeld ==
    ASSUME ProcessInv, held' \in [Sinks -> Process!Tasks \cup {None}], forgotten' \in BOOLEAN,
           UNCHANGED <<kind, session, running, sink, current, process, pc, on, proc, hasty>>,
           ~hasty /\ ~forgotten' /\ session # None => \E s \in Sinks : held'[s] = session
    PROVE  ProcessInv'
BY DEF ProcessInv, Process!TypeOK, OneCapture

LEMMA ProcessHeld ==
    ASSUME ProcessInv, NEW s \in Sinks,
           Process!StartRunning(s) \/ Process!StopOther(s) \/ Process!StopVanished(s)
    PROVE  ProcessInv'
<1> USE ProcessTypes
<1>1. CASE Process!StartRunning(s)
  BY <1>1, OnlyHeld DEF Process!StartRunning
<1>2. CASE Process!StopOther(s)
  BY <1>2, OnlyHeld DEF Process!StopOther, OneCapture
<1>3. CASE Process!StopVanished(s)
  BY <1>3, OnlyHeld DEF Process!StopVanished
<1> QED
  BY <1>1, <1>2, <1>3

LEMMA ProcessTask ==
    ASSUME ProcessInv, NEW t \in Process!Tasks,
           Process!Generate(t) \/ Process!Spawn(t) \/ Process!NoParec(t)
    PROVE  ProcessInv'
<1> USE ProcessTypes
<1>1. /\ pc[t] = "new" /\ pc[t] \notin Process!Over /\ pc[t] \in Process!Capturing
      /\ UNCHANGED Process!callers /\ UNCHANGED <<process, on, proc>>
  BY DEF Process!Generate, Process!Spawn, Process!NoParec, Process!Over, Process!Capturing
<1>2. \/ pc' = [pc EXCEPT ![t] = "reading"] /\ running' = running
      \/ pc' = [pc EXCEPT ![t] = "spawning"] /\ running' = running
      \/ pc' = [pc EXCEPT ![t] = "over"] /\ running' = FALSE
  BY DEF Process!Generate, Process!Spawn, Process!NoParec
<1>3. PICK to \in {"reading", "spawning", "over"} :
          /\ pc' = [pc EXCEPT ![t] = to]
          /\ running' => running /\ to # "over"
          /\ running' \in BOOLEAN
  <2>1. CASE pc' = [pc EXCEPT ![t] = "reading"] /\ running' = running
    BY <2>1
  <2>2. CASE pc' = [pc EXCEPT ![t] = "spawning"] /\ running' = running
    BY <2>2
  <2>3. CASE pc' = [pc EXCEPT ![t] = "over"] /\ running' = FALSE
    BY <2>3
  <2> QED
    BY <1>2, <2>1, <2>2, <2>3
<1>4. ~hasty => \A u \in Process!Tasks :
          proc'[u] = "running" => pc'[u] \in {"reading", "cancelled"} /\ process' = u
  BY <1>1, <1>3 DEF OneCapture
<1>5. to \in Process!Capturing \cup Process!Over /\ (to # "over" => to \in Process!Capturing)
  BY DEF Process!Capturing, Process!Over
<1> QED
  BY <1>1, <1>3, <1>4, <1>5, TaskGoesOn

LEMMA ProcessSpawned == ASSUME ProcessInv, NEW t \in Process!Tasks, Process!Spawned(t)
                        PROVE  ProcessInv'
<1> USE ProcessTypes
<1> DEFINE procs == [proc EXCEPT ![t] = "running"]
<1>1. /\ pc[t] = "spawning" /\ pc[t] \notin Process!Over /\ pc[t] \in Process!Capturing
      /\ UNCHANGED Process!callers
  BY DEF Process!Spawned, Process!Over, Process!Capturing
<1>2. ~hasty => \A u \in Process!Tasks : procs[u] = "running" => t = u
  <2>1. ~hasty => \A u \in Process!Tasks : proc[u] = "running" => u = t
    BY <1>1 DEF OneCapture, Process!Over
  <2> QED
    BY <2>1
<1>3. procs \in [Process!Tasks -> {"none", "running", "dying", "gone"}]
  OBVIOUS
<1>4. CASE running
  <2>1. /\ process' = t /\ proc' = procs /\ pc' = [pc EXCEPT ![t] = "reading"]
        /\ on' = [on EXCEPT ![t] = t] /\ UNCHANGED running
    BY <1>4 DEF Process!Spawned
  <2> HIDE DEF procs
  <2>2. "reading" \in Process!Capturing
    BY DEF Process!Capturing
  <2>3. ~hasty => \A u \in Process!Tasks :
            proc'[u] = "running" => pc'[u] \in {"reading", "cancelled"} /\ process' = u
    BY <1>2, <2>1
  <2> QED
    BY <1>1, <1>3, <2>1, <2>2, <2>3, TaskGoesOn
<1>5. CASE ~running
  <2>1. Process!CleansUp(t, t, procs)
    BY <1>5 DEF Process!Spawned
  <2> HIDE DEF procs
  <2> QED
    BY <1>1, <1>2, <1>3, <2>1, CleanUpTerminates
<1> QED
  BY <1>4, <1>5

LEMMA ProcessEnds ==
    ASSUME ProcessInv, NEW t \in Process!Tasks, pc[t] \in {"spawning", "reading", "cancelled"},
           Process!CleansUp(t, process, proc), UNCHANGED Process!callers
    PROVE  ProcessInv'
<1> USE ProcessTypes
<1>1. pc[t] \notin Process!Over
  BY DEF Process!Over
<1>2. ~hasty => \A u \in Process!Tasks : proc[u] = "running" => process = u
  BY DEF OneCapture
<1> QED
  BY <1>1, <1>2, CleanUpTerminates

LEMMA ProcessReadsOn == ASSUME ProcessInv, NEW t \in Process!Tasks, Process!ReadsOn(t)
                        PROVE  ProcessInv'
<1>1. CASE Process!CleansUp(t, process, proc)
  BY <1>1, ProcessEnds DEF Process!ReadsOn
<1>2. CASE ~Process!CleansUp(t, process, proc)
  <2>1. /\ process # None /\ on' = [on EXCEPT ![t] = process]
        /\ UNCHANGED <<running, process, pc, proc>> /\ UNCHANGED Process!callers
    BY <1>2 DEF Process!ReadsOn
  <2> QED
    BY <2>1, ProcessTypes DEF ProcessInv, Process!TypeOK, OneCapture, Process!callers
<1> QED
  BY <1>1, <1>2

LEMMA ProcessWaits ==
    ASSUME ProcessInv, NEW t \in Process!Tasks, Process!CleanedUp(t) \/ Process!Overdue(t)
    PROVE  ProcessInv'
<1> USE ProcessTypes
<1>1. /\ pc[t] = "waiting" /\ pc[t] \notin Process!Over /\ UNCHANGED Process!callers
      /\ UNCHANGED running
  BY DEF Process!CleanedUp, Process!Overdue, Process!Over
<1>2. ~hasty => \A u \in Process!Tasks : proc[u] # "running"
  BY <1>1 DEF OneCapture, Process!Over
<1>3. /\ process' \in Process!Tasks \cup {None}
      /\ on' \in [Process!Tasks -> Process!Tasks \cup {None}]
      /\ proc' \in [Process!Tasks -> {"none", "running", "dying", "gone"}]
      /\ \A u \in Process!Tasks : proc'[u] = "running" => proc[u] = "running"
      /\ pc' = [pc EXCEPT ![t] = "over"] \/ pc' = pc
  <2>1. CASE Process!CleanedUp(t)
    BY <2>1 DEF Process!CleanedUp
  <2>2. CASE Process!Overdue(t) /\ process = None
    BY <2>2 DEF Process!Overdue
  <2>3. CASE Process!Overdue(t) /\ process # None
    <3>1. /\ proc' = Process!Terminated(proc, process) /\ on' = [on EXCEPT ![t] = process]
          /\ pc' = pc /\ process' = process /\ process \in Process!Tasks
      BY <2>3 DEF Process!Overdue
    <3>2. /\ proc' \in [Process!Tasks -> {"none", "running", "dying", "gone"}]
          /\ \A u \in Process!Tasks : proc'[u] = "running" => proc[u] = "running"
      BY <3>1, TerminatedType
    <3> QED
      BY <3>1, <3>2
  <2> QED
    BY <2>1, <2>2, <2>3
<1>4. /\ pc' = [pc EXCEPT ![t] = "over"] \/ pc' = [pc EXCEPT ![t] = "waiting"]
      /\ {"over", "waiting"} \subseteq Process!Over \cup {"cancelled", "waiting"}
      /\ "over" \notin Process!Capturing /\ "waiting" \notin Process!Capturing
  BY <1>1, <1>3 DEF Process!Over, Process!Capturing
<1>5. ASSUME ~hasty, running
      PROVE  t # current
  BY <1>1, <1>5 DEF OneCapture, Process!Capturing
<1>6. Process!TypeOK'
  BY <1>1, <1>3, <1>4 DEF Process!TypeOK, Process!callers
<1>7. ASSUME ~hasty
      PROVE  OneCapture'
  <2>1. OneCapture /\ UNCHANGED <<session, sink, current, held, forgotten, running>>
    BY <1>1, <1>7 DEF Process!callers
  <2>2. \A u \in Process!Tasks :
            /\ pc'[u] \notin Process!Over => pc[u] \notin Process!Over
            /\ pc'[u] \in Process!Capturing <=> pc[u] \in Process!Capturing
    BY <1>1, <1>3, <1>4 DEF Process!Capturing
  <2> QED
    BY <1>2, <1>3, <1>7, <2>1, <2>2 DEF OneCapture
<1> QED
  BY <1>1, <1>6, <1>7 DEF ProcessInv, Process!callers

LEMMA ProcessExits == ASSUME ProcessInv, NEW t \in Process!Tasks, Process!Exits(t)
                      PROVE  ProcessInv'
<1> USE ProcessTypes
<1>1. /\ proc' = [proc EXCEPT ![t] = "gone"] /\ UNCHANGED Process!callers
      /\ UNCHANGED <<running, process, pc, on>>
  BY DEF Process!Exits
<1>2. /\ proc' \in [Process!Tasks -> {"none", "running", "dying", "gone"}]
      /\ \A u \in Process!Tasks : proc'[u] = "running" => proc[u] = "running"
  BY <1>1
<1> QED
  BY <1>1, <1>2 DEF ProcessInv, Process!TypeOK, OneCapture, Process!callers

LEMMA ProcessNext == ProcessInv /\ [Process!Next]_Process!vars => ProcessInv'
<1> SUFFICES ASSUME ProcessInv, [Process!Next]_Process!vars
             PROVE  ProcessInv'
  OBVIOUS
<1>1. ASSUME NEW t \in Process!Tasks,
             Process!SpawnFails(t) \/ Process!EndOfFile(t) \/ Process!Unwinds(t)
      PROVE  ProcessInv'
  BY <1>1, ProcessEnds DEF Process!SpawnFails, Process!EndOfFile, Process!Unwinds
<1>2. CASE UNCHANGED Process!vars
  BY <1>2 DEF Process!vars, ProcessInv, Process!TypeOK, OneCapture
<1> QED
  BY <1>1, <1>2, ProcessStart, ProcessStop, ProcessHeld, ProcessTask, ProcessSpawned,
     ProcessReadsOn, ProcessWaits, ProcessExits
     DEF Process!Next

\* A capture goes no further than its bridge session, and its process no further
\* than its task, as long as no capture begins before the last is cleaned up.
THEOREM NothingRunsOn == Spec => [](Process!TypeOK /\ NothingLeftRunning)
<1>1. ProcessInv => Process!TypeOK /\ NothingLeftRunning
  <2> SUFFICES ASSUME ProcessInv, ~hasty
               PROVE  NothingLeftRunning
    BY DEF ProcessInv, NothingLeftRunning, Process!NothingLeftRunning
  <2>1. OneCapture
    BY DEF ProcessInv
  <2>2. ~forgotten /\ (\A s \in Sinks : held[s] = None) =>
            ~running /\ sink = None /\ \A t \in Process!Tasks : pc[t] \notin Process!Capturing
    BY <2>1 DEF OneCapture
  <2>3. (\A t \in Process!Tasks : pc[t] \in Process!Over) =>
            ~running /\ \A t \in Process!Tasks : proc[t] # "running"
    BY <2>1, ProcessTypes DEF OneCapture, Process!Over, Process!Capturing
  <2> QED
    BY <2>2, <2>3 DEF NothingLeftRunning, Process!NothingLeftRunning
<1>2. Process!Spec => []ProcessInv
  BY ProcessInit, ProcessNext, PTL DEF Process!Spec
<1> QED
  BY <1>1, <1>2, IsProcess, PTL

-----------------------------------------------------------------------------
(* All of them *)

\* The state of every part is of its type, and a call is tried max_retries times
\* at most.
THEOREM PartsAreTyped == Spec => []TypeOK
BY CapturesAreTheirOwn, WindowsClose, StopsStick, Forgotten, ProfilesFit, StopReaches,
   Detachments, NothingRunsOn, PTL
   DEF TypeOK
=============================================================================
