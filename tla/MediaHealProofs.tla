-------------------------- MODULE MediaHealProofs --------------------------
(***************************************************************************)
(* Type correctness of MediaHeal, that one heal at a time is at work, that *)
(* swaps are whole and leave no encoder behind, and that only starts       *)
(* finish starts: for any number of pipelines and heal coroutines, any set *)
(* of calls and any failures.                                              *)
(*                                                                         *)
(* OneHeal is not inductive: a heal that has built its pipeline advances   *)
(* the epoch, and still counts itself as its owner only because no step    *)
(* before has moved the epoch.  Young says so.                             *)
(*                                                                         *)
(* What a swap leaves behind rests on who may be at work together.  The    *)
(* heal at work is the registered one or the one a stop drains, so past    *)
(* its drain a stop is alone; hence, unless a start overruns a heal, so is *)
(* a start, which is STARTING throughout.  Then whoever moves the          *)
(* session's pipeline is the only one to hold the one before, and every    *)
(* encoder is the session's or is being stopped.                           *)
(***************************************************************************)
EXTENDS MediaHeal, TLAPS

Young == \A h \in Heals : heal[h].pc \in {"delay", "start"} => heal[h].age = 0

HealInv ==
    /\ inProgress \in BOOLEAN
    /\ attempts \in 0 .. MaxHealAttempts
    /\ registered \in Heals \cup {NoHeal}
    /\ heal \in [Heals -> Heal]
    /\ OneHeal
    /\ Young

SessionInv ==
    /\ state \in SessionState
    /\ reason \in Reasons
    /\ overrun \in BOOLEAN
    /\ monitor \in {"off", "armed", "emitted"}

MediaInv ==
    /\ {pipeline, published, fed} \subseteq Pipelines \cup {None}
    /\ pipe \in [Pipelines -> {"off", "running", "stopping"}]
    /\ silent \subseteq Pipelines

CallInv ==
    /\ call \in Call
    /\ quiesce \in [pc : {"idle", "begin", "pipe_stop"}, pipe : Pipelines \cup {None}]

IInv == HealInv /\ SessionInv /\ MediaInv /\ CallInv

-----------------------------------------------------------------------------
(* Steps of a heal *)

LEMMA IdleTypes == IdleHeal \in Heal /\ IdleHeal.pc = "idle" /\ IdleCall \in Call
BY DEF IdleHeal, Heal, IdleCall, Call

LEMMA StateTypes == {STARTING, PLAYING, DEGRADED, QUIESCED, HEALING, STOPPING, STOPPED, FAILED}
                        \subseteq SessionState
BY DEF SessionState

\* A heal is scheduled only when none is at work, and is then the only one.
LEMMA ScheduleKeeps ==
    ASSUME HealInv, NEW mode \in {"swap", "replay"}, NEW otherwise \in Reasons,
           Schedule(mode, otherwise)
    PROVE  HealInv' /\ reason' \in Reasons
<1>1. CASE inProgress \/ attempts >= MaxHealAttempts
  BY <1>1 DEF Schedule, HealInv, healVars, OneHeal, HealAtWork, Young
<1>2. CASE ~(inProgress \/ attempts >= MaxHealAttempts)
  <2>1. \A g \in Heals : heal[g].pc = "idle"
    BY <1>2 DEF HealInv, OneHeal, HealAtWork
  <2> DEFINE new == [IdleHeal EXCEPT !.pc = "delay", !.mode = mode]
  <2>2. PICK h \in Heals :
           /\ attempts' = attempts + 1 /\ inProgress' = TRUE /\ reason' = "healing"
           /\ registered' = h
           /\ heal' = [x \in Heals |->
                 IF x = h THEN new
                 ELSE IF heal[x].pc = "idle" \/ heal[x].age = 2 THEN heal[x]
                 ELSE [heal[x] EXCEPT !.age = @ + 1]]
    BY <1>2 DEF Schedule
  <2>3. new \in Heal /\ new.pc = "delay" /\ new.age = 0
    BY IdleTypes DEF IdleHeal, Heal
  <2>4. heal' = [x \in Heals |-> IF x = h THEN new ELSE heal[x]]
    BY <2>1, <2>2
  <2>5. heal' \in [Heals -> Heal] /\ heal'[h] = new /\ \A x \in Heals \ {h} : heal'[x].pc = "idle"
    BY <2>1, <2>3, <2>4 DEF HealInv
  <2> HIDE DEF new
  <2>6. OneHeal'
    BY <2>2, <2>3, <2>5 DEF OneHeal, HealAtWork
  <2>7. Young'
    BY <2>3, <2>5 DEF Young
  <2>8. attempts' \in 0 .. MaxHealAttempts /\ inProgress' \in BOOLEAN /\ reason' \in Reasons
    BY <1>2, <2>2 DEF HealInv, MaxHealAttempts, Reasons
  <2> QED BY <2>2, <2>5, <2>6, <2>7, <2>8 DEF HealInv
<1> QED BY <1>1, <1>2

\* The heal that ends was the only one at work.
LEMMA FinishKeeps ==
    ASSUME HealInv, NEW h \in Heals, HealAtWork(h), NEW raised \in BOOLEAN,
           Finish(h, raised), attempts' \in 0 .. MaxHealAttempts
    PROVE  HealInv'
<1> DEFINE done == [IdleHeal EXCEPT !.raised = raised /\ call.heal = h]
<1>1. done \in Heal /\ done.pc = "idle"
  BY IdleTypes DEF IdleHeal, Heal
<1>2. heal' \in [Heals -> Heal] /\ heal'[h] = done /\ \A x \in Heals \ {h} : heal'[x] = heal[x]
  BY <1>1 DEF Finish, HealInv
<1>3. \A x \in Heals : heal'[x].pc = "idle"
  BY <1>1, <1>2 DEF HealInv, OneHeal, HealAtWork
<1>4. OneHeal' /\ Young'
  BY <1>3 DEF OneHeal, HealAtWork, Young
<1> QED BY <1>2, <1>4 DEF Finish, HealInv

\* Another record for one coroutine, idle or past its epoch's step.
LEMMA RecordKeeps ==
    ASSUME HealInv, NEW h \in Heals, NEW r \in Heal, heal' = [heal EXCEPT ![h] = r],
           \/ r.pc = "idle"
           \/ HealAtWork(h) /\ r.age <= 1 /\ (r.pc \in {"delay", "start"} => r.age = 0),
           UNCHANGED inProgress, UNCHANGED attempts, registered' \in Heals \cup {NoHeal}
    PROVE  HealInv'
<1>1. heal' \in [Heals -> Heal] /\ heal'[h] = r /\ \A x \in Heals \ {h} : heal'[x] = heal[x]
  BY DEF HealInv
<1>2. \A x \in Heals : HealAtWork(x)' => HealAtWork(x) /\ heal'[x].age <= 1
  BY <1>1 DEF HealInv, OneHeal, HealAtWork
<1>3. OneHeal'
  BY <1>2 DEF HealInv, OneHeal
<1>4. Young'
  BY <1>1 DEF HealInv, Young
<1> QED BY <1>1, <1>3, <1>4 DEF HealInv

LEMMA SameKeeps == ASSUME HealInv, UNCHANGED healVars PROVE HealInv'
BY DEF HealInv, healVars, OneHeal, HealAtWork, Young

\* A heal whose exception or return comes before the try.
LEMMA AbandonKeeps ==
    ASSUME HealInv, NEW h \in Heals, heal' = [heal EXCEPT ![h] = IdleHeal],
           UNCHANGED <<inProgress, attempts>>, registered' \in Heals \cup {NoHeal}
    PROVE  HealInv'
<1> DEFINE r == IdleHeal
<1>1. r \in Heal /\ r.pc = "idle" /\ heal' = [heal EXCEPT ![h] = r]
  BY IdleTypes
<1> HIDE DEF r
<1> QED BY <1>1, RecordKeeps

\* A heal that goes on to its next point.
LEMMA StepKeeps ==
    ASSUME HealInv, NEW h \in Heals, HealAtWork(h), NEW pc \in {"play", "watch"}, Step(h, pc),
           UNCHANGED <<inProgress, registered, attempts>>
    PROVE  HealInv'
<1> DEFINE r == [heal[h] EXCEPT !.pc = pc]
<1>1. heal[h] \in Heal /\ heal[h].age <= 1
  BY DEF HealInv, OneHeal
<1>2. r \in Heal /\ r.age <= 1 /\ r.pc = pc
  BY <1>1 DEF Heal
<1>3. heal' = [heal EXCEPT ![h] = r]
  BY DEF Step
<1> HIDE DEF r
<1> QED BY <1>2, <1>3, RecordKeeps DEF HealInv

-----------------------------------------------------------------------------
(* Pipelines *)

\* stop() on a pipeline, or on none, keeps what is known of pipelines.
LEMMA StopKeeps ==
    ASSUME MediaInv, NEW p \in Pipelines \cup {None}, BeginStop(p) \/ EndStop(p)
    PROVE  pipe' \in [Pipelines -> {"off", "running", "stopping"}]
BY DEF MediaInv, BeginStop, EndStop

LEMMA EndStopKeeps ==
    ASSUME MediaInv, NEW p \in Pipelines \cup {None}, EndStop(p)
    PROVE  pipe' \in [Pipelines -> {"off", "running", "stopping"}] /\ silent' \subseteq Pipelines
BY DEF MediaInv, EndStop

LEMMA CallType ==
    ASSUME CallInv, NEW p \in Pipelines \cup {None},
           NEW pc \in {"stop_heal", "release", "stop_pipe", "old_stop", "setup", "pipe_start",
                       "play", "cleanup", "clean_pipe", "heal_target"}
    PROVE  /\ [call EXCEPT !.pc = pc] \in Call
           /\ [call EXCEPT !.pc = pc, !.pipe = p] \in Call
           /\ [IdleCall EXCEPT !.pc = pc] \in Call
BY DEF CallInv, Call, IdleCall

-----------------------------------------------------------------------------
(* The steps of Next *)

LEMMA InitInv == Init => IInv
<1> SUFFICES ASSUME Init PROVE IInv
  OBVIOUS
<1>1. 1 \in Pipelines
  BY HealAssumption DEF Pipelines
<1>2. HealInv
  <2>1. heal \in [Heals -> Heal] /\ \A h \in Heals : heal[h].pc = "idle"
    BY IdleTypes DEF Init
  <2>2. OneHeal /\ Young
    BY <2>1 DEF OneHeal, HealAtWork, Young
  <2>3. inProgress = FALSE /\ attempts = 0 /\ registered = NoHeal
    BY DEF Init
  <2>4. attempts \in 0 .. MaxHealAttempts
    BY <2>3 DEF MaxHealAttempts
  <2>5. inProgress \in BOOLEAN
    BY <2>3, Zenon
  <2> QED BY <2>1, <2>2, <2>3, <2>4, <2>5 DEF HealInv
<1>3. SessionInv
  BY StateTypes DEF Init, SessionInv, Reasons
<1>4. MediaInv
  BY <1>1 DEF Init, MediaInv
<1>5. CallInv
  BY IdleTypes DEF Init, CallInv
<1> QED BY <1>2, <1>3, <1>4, <1>5 DEF IInv

LEMMA HealBegunKeeps == ASSUME IInv, NEW h \in Heals, HealBegun(h) PROVE IInv'
<1> USE DEF IInv
<1>1. SessionInv' /\ MediaInv' /\ CallInv'
  <2>1. reason' \in Reasons
    BY DEF HealBegun, HealBegins, SessionInv, Reasons
  <2> QED BY <2>1 DEF HealBegun, mediaVars, SessionInv, MediaInv, CallInv
<1>2. HealAtWork(h) /\ heal[h] \in Heal /\ HealBegins(h)
  BY DEF HealBegun, HealBegins, Resumes, HealAtWork, HealInv
<1>3. CASE /\ heal' = [heal EXCEPT ![h] = IdleHeal]
           /\ UNCHANGED <<inProgress, registered, attempts>>
  <2>1. registered' \in Heals \cup {NoHeal}
    BY <1>3 DEF HealInv
  <2> QED BY <1>1, <1>3, <2>1, AbandonKeeps
<1>4. CASE UNCHANGED attempts /\ \E raised \in BOOLEAN : Finish(h, raised)
  BY <1>1, <1>2, <1>4, FinishKeeps DEF HealInv
<1>5. CASE Step(h, "play") /\ UNCHANGED <<inProgress, registered, attempts>>
  BY <1>1, <1>2, <1>5, StepKeeps
<1>6. CASE /\ heal[h].age = 0 /\ UNCHANGED <<inProgress, registered, attempts>>
           /\ \E p \in Pipelines : heal' = [heal EXCEPT ![h].pc = "start", ![h].old = pipeline, ![h].new = p]
  <2>1. PICK p \in Pipelines : heal' = [heal EXCEPT ![h].pc = "start", ![h].old = pipeline, ![h].new = p]
    BY <1>6
  <2> DEFINE r == [heal[h] EXCEPT !.pc = "start", !.old = pipeline, !.new = p]
  <2>2. r \in Heal /\ r.age = 0 /\ r.pc = "start"
    BY <1>2, <1>6 DEF Heal, MediaInv
  <2>3. heal' = [heal EXCEPT ![h] = r]
    BY <2>1 DEF HealInv
  <2> HIDE DEF r
  <2>4. /\ registered' \in Heals \cup {NoHeal}
        /\ inProgress' = inProgress /\ attempts' = attempts /\ r.age <= 1
    BY <1>6, <2>2 DEF HealInv
  <2>5. HealInv'
    BY <1>2, <2>2, <2>3, <2>4, RecordKeeps
  <2> QED BY <1>1, <2>5
<1>7. \/ /\ heal' = [heal EXCEPT ![h] = IdleHeal]
         /\ UNCHANGED <<inProgress, registered, attempts>>
      \/ UNCHANGED attempts /\ \E raised \in BOOLEAN : Finish(h, raised)
      \/ Step(h, "play") /\ UNCHANGED <<inProgress, registered, attempts>>
      \/ /\ heal[h].age = 0 /\ UNCHANGED <<inProgress, registered, attempts>>
         /\ \E p \in Pipelines : heal' = [heal EXCEPT ![h].pc = "start", ![h].old = pipeline, ![h].new = p]
  BY <1>2 DEF HealBegins
<1> QED BY <1>3, <1>4, <1>5, <1>6, <1>7

LEMMA HealPipelineStartedKeeps == ASSUME IInv, NEW h \in Heals, HealPipelineStarted(h) PROVE IInv'
<1> USE DEF IInv
<1> DEFINE new == heal[h].new
           old == heal[h].old
           age == IF heal[h].age = 2 THEN 2 ELSE heal[h].age + 1
           pc == IF old = None \/ pipe[old] = "off" THEN "play" ELSE "old_stop"
           r == [heal[h] EXCEPT !.age = age, !.new = None, !.pc = pc]
<1>1. HealAtWork(h) /\ heal[h] \in Heal /\ heal[h].age = 0
  BY DEF HealPipelineStarted, Resumes, HealAtWork, HealInv, Young
<1>2. SessionInv' /\ CallInv'
  BY DEF HealPipelineStarted, SessionInv, CallInv
<1>3. CASE Finish(h, TRUE) /\ UNCHANGED <<mediaVars, pipe, attempts, silent>>
  BY <1>1, <1>2, <1>3, FinishKeeps DEF HealInv, MediaInv, mediaVars
<1>4. CASE /\ published' = new /\ fed' = (IF fed = None THEN None ELSE new) /\ pipeline' = new
           /\ pipe' = [p \in Pipelines |-> IF p = new THEN "running"
                        ELSE IF p = old /\ pipe[p] = "running" THEN "stopping" ELSE pipe[p]]
           /\ heal' = [x \in Heals |-> IF x = h THEN r
                        ELSE IF heal[x].pc = "idle" \/ heal[x].age = 2 THEN heal[x]
                        ELSE [heal[x] EXCEPT !.age = @ + 1]]
           /\ UNCHANGED <<inProgress, registered, attempts, silent>>
  <2>1. MediaInv'
    BY <1>1, <1>4 DEF MediaInv, Heal
  <2>2. r \in Heal /\ r.age = 1 /\ r.pc \in {"play", "old_stop"}
    <3>1. pc \in {"play", "old_stop"} /\ age = 1 /\ age \in 0 .. 2
      BY <1>1
    <3> HIDE DEF pc, age
    <3> QED BY <1>1, <3>1 DEF Heal
  <2>3. \A x \in Heals : x # h => heal[x].pc = "idle"
    BY <1>1 DEF HealInv, OneHeal, HealAtWork
  <2> HIDE DEF r
  <2>4. heal' = [x \in Heals |-> IF x = h THEN r ELSE heal[x]]
    BY <1>4, <2>3
  <2>5. heal' = [heal EXCEPT ![h] = r]
    BY <2>4 DEF HealInv
  <2>6. HealInv'
    BY <1>1, <1>4, <2>2, <2>5, RecordKeeps DEF HealInv
  <2> QED BY <1>2, <2>1, <2>6
<1> QED BY <1>3, <1>4 DEF HealPipelineStarted

LEMMA HealOldStoppedKeeps == ASSUME IInv, NEW h \in Heals, HealOldStopped(h) PROVE IInv'
<1> USE DEF IInv
<1> DEFINE r == [heal[h] EXCEPT !.pc = "play", !.old = None]
<1>1. HealAtWork(h) /\ heal[h] \in Heal /\ heal[h].age <= 1
  BY DEF HealOldStopped, Resumes, HealAtWork, HealInv, OneHeal
<1>2. r \in Heal /\ r.age <= 1 /\ r.pc = "play"
  BY <1>1 DEF Heal
<1>3. heal' = [heal EXCEPT ![h] = r]
  BY DEF HealOldStopped, HealInv
<1> HIDE DEF r
<1>4. HealInv'
  BY <1>1, <1>2, <1>3, RecordKeeps DEF HealOldStopped, HealInv
<1>5. MediaInv'
  <2>1. heal[h].old \in Pipelines \cup {None}
    BY <1>1 DEF Heal
  <2> QED BY <2>1, EndStopKeeps DEF HealOldStopped, MediaInv, mediaVars
<1> QED BY <1>4, <1>5 DEF HealOldStopped, SessionInv, CallInv

LEMMA HealPlayedKeeps == ASSUME IInv, NEW h \in Heals, HealPlayed(h) PROVE IInv'
<1> USE DEF IInv
<1>1. HealAtWork(h)
  BY DEF HealPlayed, Resumes, HealAtWork
<1>2. HealInv'
  BY <1>1, FinishKeeps, StepKeeps DEF HealPlayed, HealInv
<1> QED BY <1>2 DEF HealPlayed, SessionInv, MediaInv, CallInv, mediaVars

LEMMA HealEndsKeeps == ASSUME IInv, NEW h \in Heals, HealSucceeds(h) \/ HealGivesUp(h) PROVE IInv'
<1> USE DEF IInv
<1>1. HealAtWork(h)
  BY DEF HealSucceeds, HealGivesUp, Resumes, HealAtWork
<1>2. attempts' \in 0 .. MaxHealAttempts
  <2>1. attempts' = attempts \/ attempts' = 0
    BY DEF HealSucceeds, HealGivesUp
  <2> QED BY <2>1 DEF HealInv, MaxHealAttempts
<1>3. Finish(h, TRUE) \/ Finish(h, FALSE)
  BY DEF HealSucceeds, HealGivesUp
<1>4. HealInv'
  BY <1>1, <1>2, <1>3, FinishKeeps
<1>5. SessionInv'
  BY StateTypes DEF HealSucceeds, HealGivesUp, SessionInv, Reasons
<1> QED BY <1>4, <1>5 DEF HealSucceeds, HealGivesUp, MediaInv, CallInv, mediaVars

LEMMA HealCancelledKeeps == ASSUME IInv, NEW h \in Heals, HealCancelled(h) PROVE IInv'
<1> USE DEF IInv
<1>1. HealAtWork(h) /\ heal[h] \in Heal /\ heal[h].age <= 1
  BY DEF HealCancelled, HealAtWork, HealInv, OneHeal
<1>2. MediaInv'
  <2>1. heal[h].old \in Pipelines \cup {None}
    BY <1>1 DEF Heal
  <2> QED BY <2>1, EndStopKeeps DEF HealCancelled, MediaInv, mediaVars
<1>7. SessionInv' /\ CallInv'
  BY DEF HealCancelled, SessionInv, CallInv
<1>3. CASE heal' = [heal EXCEPT ![h] = IdleHeal] /\ UNCHANGED <<inProgress, registered, attempts>>
  <2>1. registered' \in Heals \cup {NoHeal}
    BY <1>3 DEF HealInv
  <2> QED BY <1>2, <1>3, <1>7, <2>1, AbandonKeeps
<1>4. CASE Finish(h, FALSE) /\ UNCHANGED attempts
  BY <1>1, <1>2, <1>4, <1>7, FinishKeeps DEF HealInv
<1>5. CASE /\ heal[h].pc = "old_stop" /\ heal' = [heal EXCEPT ![h].cancelled = FALSE]
           /\ UNCHANGED <<inProgress, registered, attempts>>
  <2> DEFINE r == [heal[h] EXCEPT !.cancelled = FALSE]
  <2>1. r \in Heal /\ r.age <= 1 /\ r.pc = "old_stop"
    BY <1>1, <1>5 DEF Heal
  <2>2. heal' = [heal EXCEPT ![h] = r]
    BY <1>5
  <2> HIDE DEF r
  <2>3. HealInv'
    BY <1>1, <1>5, <2>1, <2>2, RecordKeeps DEF HealInv
  <2> QED BY <1>2, <1>7, <2>3
<1>6. \/ heal' = [heal EXCEPT ![h] = IdleHeal] /\ UNCHANGED <<inProgress, registered, attempts>>
      \/ Finish(h, FALSE) /\ UNCHANGED attempts
      \/ /\ heal[h].pc = "old_stop" /\ heal' = [heal EXCEPT ![h].cancelled = FALSE]
         /\ UNCHANGED <<inProgress, registered, attempts>>
  BY DEF HealCancelled
<1> QED BY <1>3, <1>4, <1>5, <1>6

\* The steps that may schedule a heal.
LEMMA MonitorKeeps == ASSUME IInv, MonitorDegrades \/ MonitorDetaches PROVE IInv'
<1> USE DEF IInv
<1>1. CASE UNCHANGED healVars /\ reason' \in Reasons
  BY <1>1, SameKeeps, StateTypes
  DEF MonitorDegrades, MonitorDetaches, SessionInv, MediaInv, CallInv, mediaVars
<1>2. CASE \E mode \in {"swap", "replay"}, o \in Reasons : Schedule(mode, o)
  <2>1. HealInv' /\ reason' \in Reasons
    BY <1>2, ScheduleKeeps
  <2> QED BY <2>1, StateTypes
    DEF MonitorDegrades, MonitorDetaches, SessionInv, MediaInv, CallInv, mediaVars
<1> QED BY <1>1, <1>2 DEF MonitorDegrades, MonitorDetaches, Reasons

LEMMA RecoverKeeps == ASSUME IInv, Recover PROVE IInv'
<1> USE DEF IInv
<1>1. reason \in Reasons /\ (IF reason = "detached" THEN "replay" ELSE "swap") \in {"swap", "replay"}
  BY DEF SessionInv
<1>2. HealInv' /\ reason' \in Reasons
  BY <1>1, ScheduleKeeps DEF Recover
<1> QED BY <1>2 DEF Recover, SessionInv, MediaInv, CallInv, mediaVars

\* The other steps of the monitor and of the encoder.
LEMMA WatchKeeps ==
    ASSUME IInv, MonitorRestores \/ MonitorRetires \/ EncoderFalters PROVE IInv'
<1> USE DEF IInv
<1>1. HealInv'
  BY SameKeeps DEF MonitorRestores, MonitorRetires, EncoderFalters
<1>2. SessionInv' /\ CallInv'
  BY StateTypes DEF MonitorRestores, MonitorRetires, EncoderFalters, SessionInv, CallInv, Reasons
<1>3. MediaInv'
  BY DEF MonitorRestores, MonitorRetires, EncoderFalters, MediaInv, mediaVars
<1> QED BY <1>1, <1>2, <1>3

LEMMA QuiesceKeeps == ASSUME IInv, Quiesces \/ Quiesced PROVE IInv'
<1> USE DEF IInv
<1>1. HealInv'
  BY SameKeeps DEF Quiesces, Quiesced
<1>2. SessionInv'
  BY DEF Quiesces, Quiesced, SessionInv
<1>3. CallInv'
  BY DEF Quiesces, Quiesced, CallInv, MediaInv
<1>4. MediaInv'
  <2>1. quiesce.pipe \in Pipelines \cup {None} /\ pipeline \in Pipelines \cup {None}
    BY DEF CallInv, MediaInv
  <2>2. pipe' \in [Pipelines -> {"off", "running", "stopping"}] /\ silent' \subseteq Pipelines
    BY <2>1, StopKeeps, EndStopKeeps DEF Quiesces, Quiesced, MediaInv
  <2> QED BY <2>2 DEF Quiesces, Quiesced, MediaInv, mediaVars
<1> QED BY <1>1, <1>2, <1>3, <1>4

LEMMA RecoverTargetKeeps == ASSUME IInv, RecoverTarget \/ TargetHealed PROVE IInv'
<1> USE DEF IInv
<1>1. HealInv'
  BY SameKeeps DEF RecoverTarget, TargetHealed
<1>2. SessionInv'
  BY StateTypes DEF RecoverTarget, TargetHealed, SessionInv
<1>3. CallInv'
  BY CallType, IdleTypes DEF RecoverTarget, TargetHealed, Goto, CallInv
<1> QED BY <1>1, <1>2, <1>3 DEF RecoverTarget, TargetHealed, MediaInv, mediaVars

-----------------------------------------------------------------------------
(* stop_session *)

LEMMA StopHealKeeps == ASSUME IInv, StopHeal PROVE IInv'
<1> USE DEF IInv
<1>1. SessionInv' /\ MediaInv'
  BY DEF StopHeal, SessionInv, MediaInv, mediaVars
<1>2. CASE registered = NoHeal
  BY <1>1, <1>2, SameKeeps, CallType DEF StopHeal, healVars, Goto, CallInv
<1>3. ASSUME NEW h \in Heals, registered = h, registered # NoHeal PROVE IInv'
  <2> DEFINE r == [heal[h] EXCEPT !.cancelled = TRUE]
  <2>1. heal[h] \in Heal
    BY DEF HealInv
  <2>2. CallInv'
    BY <1>3, <2>1 DEF StopHeal, CallInv, Call
  <2>3. r \in Heal /\ r.pc = heal[h].pc /\ r.age = heal[h].age
    BY <2>1 DEF Heal
  <2>4. /\ heal' = [heal EXCEPT ![h] = r]
        /\ inProgress' = inProgress /\ attempts' = attempts /\ registered' = NoHeal
    BY <1>3 DEF StopHeal
  <2>5. heal[h].pc # "idle" => HealAtWork(h) /\ heal[h].age <= 1
    BY DEF HealInv, OneHeal, HealAtWork
  <2>6. heal[h].pc \in {"delay", "start"} => heal[h].age = 0
    BY DEF HealInv, Young
  <2> HIDE DEF r
  <2>7. \/ r.pc = "idle"
        \/ HealAtWork(h) /\ r.age <= 1 /\ (r.pc \in {"delay", "start"} => r.age = 0)
    BY <2>3, <2>5, <2>6
  <2>8. HealInv'
    BY <2>3, <2>4, <2>7, RecordKeeps
  <2> QED BY <1>1, <2>2, <2>8
<1> QED BY <1>2, <1>3 DEF HealInv

LEMMA HealDrainedKeeps == ASSUME IInv, HealDrained PROVE IInv'
<1> USE DEF IInv
<1>1. SessionInv' /\ MediaInv'
  BY DEF HealDrained, SessionInv, MediaInv, mediaVars
<1>2. CallInv'
  BY CallType, IdleTypes DEF HealDrained, CallInv
<1>3. CASE call.heal \in Heals
  BY <1>1, <1>2, <1>3, AbandonKeeps DEF HealDrained, HealInv
<1>4. CASE call.heal \notin Heals
  <2>1. heal' = heal
    BY <1>4 DEF HealDrained, HealInv
  <2> QED BY <1>1, <1>2, <2>1, SameKeeps DEF HealDrained, healVars
<1> QED BY <1>3, <1>4

LEMMA StopKeepsRest == ASSUME IInv, CallStop \/ Release \/ StopDone PROVE IInv'
<1> USE DEF IInv
<1>1. HealInv'
  BY SameKeeps DEF CallStop, Release, StopDone
<1>2. SessionInv'
  BY StateTypes DEF CallStop, Release, StopDone, SessionInv
<1>3. pipeline \in Pipelines \cup {None} /\ call.pipe \in Pipelines \cup {None}
  BY DEF MediaInv, CallInv, Call
<1>4. CallInv'
  BY <1>3, CallType, IdleTypes DEF CallStop, Release, StopDone, Goto, CallInv
<1>5. pipe' \in [Pipelines -> {"off", "running", "stopping"}] /\ silent' \subseteq Pipelines
  BY <1>3, StopKeeps, EndStopKeeps DEF CallStop, Release, StopDone, MediaInv
<1>6. MediaInv'
  BY <1>5 DEF CallStop, Release, StopDone, MediaInv, mediaVars
<1> QED BY <1>1, <1>2, <1>4, <1>6

-----------------------------------------------------------------------------
(* start_session *)

LEMMA FailAndStopKeeps ==
    ASSUME SessionInv, CallInv, FailAndStop
    PROVE  call' \in Call /\ state' \in SessionState /\ monitor' \in {"off", "armed", "emitted"}
BY CallType, IdleTypes, StateTypes DEF FailAndStop, SessionInv, CallInv

LEMMA SetUpKeeps ==
    ASSUME IInv, CallStart \/ OldStopped \/ SetUp \/ PipelineStarted PROVE IInv'
<1> USE DEF IInv
<1>1. HealInv'
  BY SameKeeps DEF CallStart, OldStopped, SetUp, PipelineStarted
<1>2. SessionInv'
  BY StateTypes, Zenon DEF CallStart, OldStopped, SetUp, PipelineStarted, SessionInv
<1>3. pipeline \in Pipelines \cup {None} /\ call.pipe \in Pipelines \cup {None}
  BY DEF MediaInv, CallInv, Call
<1>4. CallInv'
  BY <1>3, CallType DEF CallStart, OldStopped, SetUp, PipelineStarted, Goto, CallInv
<1>5. pipe' \in [Pipelines -> {"off", "running", "stopping"}] /\ silent' \subseteq Pipelines
  BY <1>3, StopKeeps, EndStopKeeps DEF CallStart, OldStopped, SetUp, PipelineStarted, MediaInv
<1>6. MediaInv'
  BY <1>5 DEF CallStart, OldStopped, SetUp, PipelineStarted, MediaInv, mediaVars
<1> QED BY <1>1, <1>2, <1>4, <1>6

LEMMA PlayedKeeps == ASSUME IInv, Played \/ CleanUp \/ CleanedUp PROVE IInv'
<1> USE DEF IInv
<1>1. HealInv'
  BY SameKeeps DEF Played, CleanUp, CleanedUp
<1>2. pipeline \in Pipelines \cup {None} /\ call.pipe \in Pipelines \cup {None}
  BY DEF MediaInv, CallInv, Call
<1>3. call' \in Call /\ state' \in SessionState /\ monitor' \in {"off", "armed", "emitted"}
  <2>1. CASE Played
    BY <2>1, FailAndStopKeeps, CallType, IdleTypes, StateTypes DEF Played, Goto, SessionInv, CallInv
  <2>2. CASE CleanUp
    BY <1>2, <2>2, CallType DEF CleanUp, SessionInv
  <2>3. CASE CleanedUp
    BY <2>3, FailAndStopKeeps DEF CleanedUp
  <2> QED BY <2>1, <2>2, <2>3
<1>4. SessionInv' /\ CallInv'
  BY <1>3 DEF Played, CleanUp, CleanedUp, SessionInv, CallInv, Reasons
<1>5. pipe' \in [Pipelines -> {"off", "running", "stopping"}] /\ silent' \subseteq Pipelines
  BY <1>2, StopKeeps, EndStopKeeps DEF Played, CleanUp, CleanedUp, MediaInv
<1>6. MediaInv'
  BY <1>5 DEF Played, CleanUp, CleanedUp, MediaInv, mediaVars
<1> QED BY <1>1, <1>4, <1>6

-----------------------------------------------------------------------------
(* The invariant *)

LEMMA NextInv == IInv /\ [Next]_vars => IInv'
<1> SUFFICES ASSUME IInv, [Next]_vars PROVE IInv'
  OBVIOUS
<1>1. CASE \E h \in Heals : HealStep(h)
  BY <1>1, HealBegunKeeps, HealPipelineStartedKeeps, HealOldStoppedKeeps, HealPlayedKeeps,
     HealEndsKeeps, HealCancelledKeeps DEF HealStep
<1>2. CASE MonitorDegrades \/ MonitorDetaches \/ Recover
  BY <1>2, MonitorKeeps, RecoverKeeps
<1>3. CASE MonitorRestores \/ MonitorRetires \/ EncoderFalters \/ Quiesces \/ Quiesced
  BY <1>3, WatchKeeps, QuiesceKeeps
<1>4. CASE RecoverTarget \/ CallStop \/ CallStart \/ CallStep
  BY <1>4, RecoverTargetKeeps, StopHealKeeps, HealDrainedKeeps, StopKeepsRest, SetUpKeeps, PlayedKeeps
  DEF CallStep
<1>5. CASE UNCHANGED vars
  BY <1>5, SameKeeps DEF IInv, SessionInv, MediaInv, CallInv, vars, mediaVars
<1> QED BY <1>1, <1>2, <1>3, <1>4, <1>5 DEF Next

THEOREM Invariant == Spec => []IInv
<1> QED BY InitInv, NextInv, PTL DEF Spec

\* Every variable keeps its type: the heals' epoch differences stay in 0 .. 2,
\* the attempts within their limit.
THEOREM HealTypeCorrect == Spec => []TypeOK
<1>1. IInv => TypeOK
  BY DEF IInv, HealInv, SessionInv, MediaInv, CallInv, TypeOK
<1> QED BY <1>1, Invariant, PTL

\* media_heal_in_progress guards _heal_media_plane: at most one is at work,
\* whatever scheduled it, and it holds the flag until its finally clears it.
THEOREM HealsExclude == Spec => []OneHeal
<1>1. IInv => OneHeal
  BY DEF IInv, HealInv
<1> QED BY <1>1, Invariant, PTL


-----------------------------------------------------------------------------
(* What a swap leaves behind: the second invariant, on top of the first    *)

\* Some heal runs.  Which steps of a call stand inside stop_session, which
\* inside start_session.
HealActive == \E h \in Heals : HealAtWork(h)
StopPcs  == {"stop_heal", "drain", "release", "stop_pipe"}
StartPcs == {"old_stop", "setup", "pipe_start", "play", "cleanup", "clean_pipe"}

\* A stop holds the session in STOPPING to its end.
Stopping == call.pc \in StopPcs => state = STOPPING

\* The heal at work is the one `_session_heals` names or a stop is draining.
Known ==
    /\ \A h \in Heals : HealAtWork(h) => registered = h \/ (call.pc = "drain" /\ call.heal = h)
    /\ call.pc = "drain" => registered = NoHeal

\* Past its drain a stop has no heal beside it, nor has a stopped session.
Quiet == call.pc \in {"release", "stop_pipe"} \/ state = STOPPED => ~HealActive

\* STARTING is the state of a start in flight and of nothing else.
Starting == ~overrun =>
    /\ call.pc \in StartPcs => state = STARTING /\ ~HealActive
    /\ state = STARTING => call.pc \in StartPcs

Control == Stopping /\ Known /\ Quiet /\ Starting

\* Whoever feeds a pipeline feeds the one published and the session's own.
Whole == fed # None /\ call.pc # "setup" => published = fed /\ pipeline = fed
FedOff == call.pc \in {"stop_pipe", "clean_pipe"} => fed = None

\* Every encoder is the session's, or somebody is stopping it.
Owned(p) == \/ p = pipeline
            \/ quiesce.pc = "pipe_stop" /\ quiesce.pipe = p
            \/ \E h \in Heals : heal[h].pc = "old_stop" /\ heal[h].old = p
OldKnown == \A h \in Heals : heal[h].pc = "start" => heal[h].old = pipeline
CallKnown ==
    /\ call.pc \in {"old_stop", "pipe_start", "play", "clean_pipe", "stop_pipe"} => call.pipe = pipeline
    /\ call.pc = "setup" => pipeline = None \/ pipe[pipeline] = "off"
Own == ~overrun =>
    /\ OldKnown /\ CallKnown
    /\ \A p \in Pipelines : pipe[p] # "off" => Owned(p)

SwapInv == Control /\ Whole /\ FedOff /\ Own

LEMMA Moves ==
    /\ state = STOPPING => /\ ~CanMove(PLAYING) /\ ~CanMove(HEALING) /\ ~CanMove(STARTING)
                           /\ CanMove(STOPPED)
    /\ state = STARTING => CanMove(FAILED) /\ CanMove(PLAYING)
    /\ STOPPING # STARTING /\ STOPPING # STOPPED /\ STOPPED # STARTING
    /\ \A s \in {PLAYING, DEGRADED, HEALING, QUIESCED, FAILED} : s \notin {STOPPING, STARTING, STOPPED}
    /\ \A s \in {DEGRADED, HEALING, QUIESCED} : s # PLAYING
BY DEF CanMove, ValidTransitions, CREATED, PREPARING, READY, STARTING, PLAYING, HEALING,
       DEGRADED, QUIESCED, SUPERSEDED, STOPPING, STOPPED, FAILED

LEMMA PcSets ==
    /\ StopPcs \cap StartPcs = {}
    /\ \A pc \in {"idle", "heal_target"} : pc \notin StopPcs \cup StartPcs
BY DEF StopPcs, StartPcs

\* What a step of a heal leaves alone, whichever it is.
LEMMA HealFrame ==
    ASSUME IInv, NEW h \in Heals, HealStep(h)
    PROVE  /\ HealAtWork(h) /\ UNCHANGED <<call, quiesce, overrun>>
           /\ \A x \in Heals \ {h} : heal[x].pc = "idle" /\ heal'[x].pc = "idle"
           /\ registered' = registered \/ (registered' = NoHeal /\ heal'[h].pc = "idle")
           /\ state' = state \/ (state' = PLAYING /\ CanMove(PLAYING))
<1> USE DEF IInv, HealInv
<1>1. HealAtWork(h) /\ UNCHANGED <<call, quiesce, overrun>>
  BY DEF HealStep, HealBegun, HealBegins, HealPipelineStarted, HealOldStopped, HealPlayed,
         HealSucceeds, HealGivesUp, HealCancelled, Resumes, HealAtWork
<1>2. \A x \in Heals \ {h} : heal[x].pc = "idle"
  BY <1>1 DEF OneHeal, HealAtWork
<1>3. \A x \in Heals \ {h} : heal'[x] = heal[x]
  <2>1. CASE HealBegun(h)
    BY <2>1 DEF HealBegun, HealBegins, Finish, Step
  <2>2. CASE HealPipelineStarted(h)
    BY <1>2, <2>2 DEF HealPipelineStarted, Finish
  <2>3. CASE HealOldStopped(h) \/ HealPlayed(h)
    BY <2>3 DEF HealOldStopped, HealPlayed, Finish, Step
  <2>4. CASE HealSucceeds(h) \/ HealGivesUp(h)
    BY <2>4 DEF HealSucceeds, HealGivesUp, Finish
  <2>5. CASE HealCancelled(h)
    BY <2>5 DEF HealCancelled, Finish
  <2> QED BY <2>1, <2>2, <2>3, <2>4, <2>5 DEF HealStep
<1>4. registered' = registered \/ (registered' = NoHeal /\ heal'[h].pc = "idle")
  <2>1. \A raised \in BOOLEAN : Finish(h, raised) => registered' = NoHeal /\ heal'[h].pc = "idle"
    BY DEF Finish, IdleHeal
  <2>2. CASE HealBegun(h)
    BY <2>1, <2>2 DEF HealBegun, HealBegins
  <2>3. CASE HealPipelineStarted(h) \/ HealOldStopped(h) \/ HealPlayed(h)
    BY <2>1, <2>3 DEF HealPipelineStarted, HealOldStopped, HealPlayed
  <2>4. CASE HealSucceeds(h) \/ HealGivesUp(h) \/ HealCancelled(h)
    BY <2>1, <2>4 DEF HealSucceeds, HealGivesUp, HealCancelled
  <2> QED BY <2>2, <2>3, <2>4 DEF HealStep
<1>5. state' = state \/ (state' = PLAYING /\ CanMove(PLAYING))
  BY DEF HealStep, HealBegun, HealPipelineStarted, HealOldStopped, HealPlayed,
         HealSucceeds, HealGivesUp, HealCancelled
<1> QED BY <1>1, <1>2, <1>3, <1>4, <1>5

\* Scheduling leaves the heals as they are, or starts the only one.
LEMMA ScheduleFrame ==
    ASSUME HealInv, NEW mode, NEW otherwise, Schedule(mode, otherwise)
    PROVE  \/ UNCHANGED <<heal, registered>>
           \/ \E h \in Heals : /\ registered' = h /\ heal'[h].pc = "delay"
                               /\ \A x \in Heals : heal[x].pc = "idle"
                               /\ \A x \in Heals \ {h} : heal'[x].pc = "idle"
<1>1. CASE inProgress \/ attempts >= MaxHealAttempts
  BY <1>1 DEF Schedule, healVars
<1>2. CASE ~(inProgress \/ attempts >= MaxHealAttempts)
  <2>1. \A x \in Heals : heal[x].pc = "idle"
    BY <1>2 DEF HealInv, OneHeal, HealAtWork
  <2> DEFINE new == [IdleHeal EXCEPT !.pc = "delay", !.mode = mode]
  <2>2. new.pc = "delay"
    BY DEF IdleHeal
  <2> HIDE DEF new
  <2>3. PICK h \in Heals : registered' = h /\ heal' = [x \in Heals |-> IF x = h THEN new ELSE heal[x]]
    BY <1>2, <2>1 DEF Schedule, new
  <2> QED BY <2>1, <2>2, <2>3
<1> QED BY <1>1, <1>2


-----------------------------------------------------------------------------
(* Control *)

LEMMA HealControl == ASSUME IInv, Control, NEW h \in Heals, HealStep(h) PROVE Control'
<1>1. /\ HealAtWork(h) /\ UNCHANGED <<call, overrun>>
      /\ \A x \in Heals \ {h} : heal[x].pc = "idle" /\ heal'[x].pc = "idle"
      /\ registered' = registered \/ (registered' = NoHeal /\ heal'[h].pc = "idle")
      /\ state' = state \/ (state' = PLAYING /\ CanMove(PLAYING))
  BY HealFrame
<1>2. HealActive /\ \A x \in Heals : HealAtWork(x)' => x = h
  BY <1>1 DEF HealActive, HealAtWork
<1>3. Stopping'
  BY <1>1, Moves DEF Control, Stopping
<1>4. Known'
  BY <1>1, <1>2 DEF Control, Known, HealAtWork
<1>5. Quiet'
  BY <1>1, <1>2, Moves DEF Control, Quiet
<1>6. Starting'
  BY <1>1, <1>2, Moves DEF Control, Starting
<1> QED BY <1>3, <1>4, <1>5, <1>6 DEF Control

\* The steps that may schedule: the session plays or is degraded, so neither a
\* stop nor a start is in flight.
LEMMA ScheduleControl ==
    ASSUME IInv, Control, MonitorDegrades \/ MonitorDetaches \/ Recover
    PROVE  Control'
<1>1. /\ UNCHANGED <<call, overrun>> /\ state \in {PLAYING, DEGRADED}
      /\ state' \in {PLAYING, DEGRADED, QUIESCED}
  BY DEF MonitorDegrades, MonitorDetaches, Recover
<1>2. \/ UNCHANGED <<heal, registered>>
      \/ \E h \in Heals : /\ registered' = h /\ heal'[h].pc = "delay"
                          /\ \A x \in Heals : heal[x].pc = "idle"
                          /\ \A x \in Heals \ {h} : heal'[x].pc = "idle"
  BY ScheduleFrame DEF MonitorDegrades, MonitorDetaches, Recover, healVars, IInv
<1>3. call.pc \notin StopPcs /\ (~overrun => call.pc \notin StartPcs)
  BY <1>1, Moves DEF Control, Stopping, Starting
<1>4. call.pc \notin {"drain", "release", "stop_pipe"}
  BY <1>3 DEF StopPcs
<1>5. Stopping'
  BY <1>1, <1>3 DEF Stopping
<1>6. Known'
  BY <1>1, <1>2, <1>4 DEF Control, Known, HealAtWork
<1>7. Quiet'
  BY <1>1, <1>4, Moves DEF Quiet
<1>8. Starting'
  BY <1>1, <1>3, Moves DEF Starting
<1> QED BY <1>5, <1>6, <1>7, <1>8 DEF Control

LEMMA WatchControl ==
    ASSUME IInv, Control,
           \/ MonitorRestores \/ MonitorRetires \/ EncoderFalters \/ Quiesces \/ Quiesced
           \/ UNCHANGED vars
    PROVE  Control'
<1>1. /\ UNCHANGED <<call, overrun, heal, registered>>
      /\ state' = state \/ (state = DEGRADED /\ state' = PLAYING)
  BY DEF MonitorRestores, MonitorRetires, EncoderFalters, Quiesces, Quiesced, vars, healVars
<1>2. HealActive' <=> HealActive
  BY <1>1 DEF HealActive, HealAtWork
<1>3. Stopping' /\ Starting'
  BY <1>1, <1>2, Moves DEF Control, Stopping, Starting
<1>4. Known'
  BY <1>1 DEF Control, Known, HealAtWork
<1>5. Quiet'
  BY <1>1, <1>2, Moves DEF Control, Quiet
<1> QED BY <1>3, <1>4, <1>5 DEF Control

\* The calls that touch no heal.
LEMMA CallControl ==
    ASSUME IInv, Control, UNCHANGED <<heal, registered>>,
           call'.pc \notin {"drain", "release"}, call.pc # "drain",
           call'.pc = "stop_pipe" => call.pc = "release",
           Stopping', Starting',
           state' = STOPPED => call.pc = "stop_pipe" \/ state = STOPPED
    PROVE  Control'
<1>1. HealActive' <=> HealActive
  BY DEF HealActive, HealAtWork
<1>2. Known'
  BY DEF Control, Known, HealAtWork
<1>3. Quiet'
  BY <1>1 DEF Control, Quiet
<1> QED BY <1>2, <1>3 DEF Control

LEMMA CallPc ==
    ASSUME CallInv, NEW pc
    PROVE  /\ [call EXCEPT !.pc = pc].pc = pc
           /\ \A p : [call EXCEPT !.pc = pc, !.pipe = p].pc = pc /\ [call EXCEPT !.pc = pc, !.pipe = p].pipe = p
           /\ [call EXCEPT !.pc = pc].pipe = call.pipe
           /\ [IdleCall EXCEPT !.pc = pc].pc = pc
           /\ IdleCall.pc = "idle"
BY DEF CallInv, Call, IdleCall

LEMMA TargetControl == ASSUME IInv, Control, RecoverTarget \/ TargetHealed PROVE Control'
<1>1. UNCHANGED <<heal, registered, overrun>>
  BY DEF RecoverTarget, TargetHealed, healVars
<1>2. call.pc \in {"idle", "heal_target"} /\ call'.pc \in {"idle", "heal_target"}
  BY CallPc DEF RecoverTarget, TargetHealed, Goto, IInv
<1>3. state' = state \/ state' \in {HEALING, PLAYING, FAILED}
  BY DEF RecoverTarget, TargetHealed
<1>4. call.pc \notin StartPcs \cup StopPcs /\ call'.pc \notin StartPcs \cup StopPcs
  BY <1>2, PcSets
<1>5. Stopping' /\ Starting'
  BY <1>1, <1>3, <1>4, Moves DEF Control, Stopping, Starting
<1>6. state' = STOPPED => state = STOPPED
  BY <1>3, Moves
<1> QED BY <1>1, <1>2, <1>5, <1>6, CallControl

LEMMA StopControl == ASSUME IInv, Control, CallStop \/ StopHeal \/ HealDrained \/ Release \/ StopDone PROVE Control'
<1>1. CASE CallStop
  <2>1. UNCHANGED <<heal, registered, overrun>> /\ call.pc = "idle" /\ call'.pc = "stop_heal" /\ state' = STOPPING
    BY <1>1, CallPc DEF CallStop, Goto, healVars, IInv
  <2>2. Stopping' /\ Starting'
    BY <2>1, Moves DEF Stopping, Starting, StartPcs
  <2> QED BY <2>1, <2>2, Moves, CallControl
<1>2. CASE StopHeal
  <2>1. state = STOPPING /\ state' = STOPPING /\ call.pc = "stop_heal"
    BY <1>2 DEF StopHeal, Control, Stopping, StopPcs
  <2>2. CASE registered = NoHeal
    <3>1. call'.pc = "release" /\ UNCHANGED <<heal, registered>>
      BY <1>2, <2>2, CallPc DEF StopHeal, Goto, IInv
    <3>2. ~HealActive
      BY <2>1, <2>2, HealAssumption DEF Control, Known, HealActive
    <3>3. ~HealActive'
      BY <3>1, <3>2 DEF HealActive, HealAtWork
    <3>4. Stopping' /\ Starting'
      BY <2>1, <3>1, Moves DEF Stopping, Starting, StartPcs
    <3>5. Known' /\ Quiet'
      BY <3>1, <3>3 DEF Known, Quiet, HealActive
    <3> QED BY <3>4, <3>5 DEF Control
  <2>3. ASSUME NEW h \in Heals, registered = h, registered # NoHeal PROVE Control'
    <3>1. /\ registered' = NoHeal /\ call'.pc = "drain" /\ call'.heal = h
          /\ heal' = [heal EXCEPT ![h].cancelled = TRUE]
      BY <1>2, <2>3 DEF StopHeal, IInv, CallInv, Call
    <3>2. \A x \in Heals : heal'[x].pc = heal[x].pc
      BY <3>1 DEF IInv, HealInv, Heal
    <3>3. \A x \in Heals : HealAtWork(x)' => x = h
      BY <2>1, <2>3, <3>2 DEF Control, Known, HealAtWork
    <3>4. Stopping' /\ Starting'
      BY <2>1, <3>1, Moves DEF Stopping, Starting, StartPcs
    <3>5. Known' /\ Quiet'
      BY <2>1, <3>1, <3>3, Moves DEF Known, Quiet
    <3> QED BY <3>4, <3>5 DEF Control
  <2> QED BY <2>2, <2>3 DEF IInv, HealInv
<1>3. CASE HealDrained
  <2>1. /\ state = STOPPING /\ state' = STOPPING /\ call.pc = "drain"
        /\ registered = NoHeal /\ registered' = NoHeal /\ call'.pc \in {"idle", "release"}
    BY <1>3, CallPc DEF HealDrained, Control, Stopping, StopPcs, Known, IInv
  <2>2. \A x \in Heals : heal[x].pc = "idle"
    BY <1>3, <2>1, HealAssumption DEF HealDrained, Control, Known, HealAtWork
  <2>3. \A x \in Heals : heal'[x].pc = "idle"
    BY <1>3, <2>2, IdleTypes DEF HealDrained, IInv, HealInv
  <2>4. ~HealActive'
    BY <2>3 DEF HealActive, HealAtWork
  <2>5. Stopping' /\ Starting'
    BY <2>1, Moves DEF Stopping, Starting, StartPcs
  <2>6. Known' /\ Quiet'
    BY <2>1, <2>4 DEF Known, Quiet, HealActive
  <2> QED BY <2>5, <2>6 DEF Control
<1>4. CASE Release
  <2>1. UNCHANGED <<heal, registered, overrun, state>> /\ call.pc = "release" /\ call'.pc = "stop_pipe"
    BY <1>4, CallPc DEF Release, healVars, IInv
  <2>2. Stopping' /\ Starting'
    BY <2>1, Moves DEF Control, Stopping, Starting, StopPcs, StartPcs
  <2> QED BY <2>1, <2>2, CallControl
<1>5. CASE StopDone
  <2>1. UNCHANGED <<heal, registered, overrun>> /\ call.pc = "stop_pipe" /\ call'.pc = "idle" /\ state' = STOPPED
    BY <1>5, CallPc, Moves DEF StopDone, healVars, IInv, Control, Stopping, StopPcs
  <2>2. Stopping' /\ Starting'
    BY <2>1, Moves DEF Stopping, Starting, StopPcs, StartPcs
  <2> QED BY <2>1, <2>2, CallControl
<1> QED BY <1>1, <1>2, <1>3, <1>4, <1>5


\* FAILED and stop_session: the session ends up in STOPPING with a stop in flight.
LEMMA FailedStops ==
    ASSUME FailAndStop
    PROVE  \/ state' = STOPPING /\ call'.pc = "stop_heal" /\ CanMove(FAILED)
           \/ state' = state /\ call'.pc = "idle" /\ ~CanMove(FAILED)
BY DEF FailAndStop, IdleCall

LEMMA StartControl ==
    ASSUME IInv, Control,
           CallStart \/ OldStopped \/ SetUp \/ PipelineStarted \/ Played \/ CleanUp \/ CleanedUp
    PROVE  Control'
<1>1. CASE CallStart
  <2>1. /\ UNCHANGED <<heal, registered>> /\ call.pc = "idle" /\ state' = STARTING
        /\ call'.pc \in {"setup", "old_stop"}
        /\ ~overrun' => ~overrun /\ (state = STOPPED \/ ~HealActive)
    <3>1. call'.pc \in {"setup", "old_stop"}
      BY <1>1 DEF CallStart, Goto, IInv, CallInv, Call
    <3> QED BY <1>1, <3>1 DEF CallStart, healVars, HealActive
  <2>2. ~overrun' => ~HealActive'
    BY <2>1 DEF Control, Quiet, HealActive, HealAtWork
  <2>3. Stopping' /\ Starting'
    BY <2>1, <2>2 DEF Stopping, Starting, StopPcs, StartPcs
  <2> QED BY <2>1, <2>3, Moves, CallControl
<1>2. CASE OldStopped \/ SetUp \/ PipelineStarted \/ CleanUp
  <2>1. UNCHANGED <<heal, registered, overrun, state>>
    BY <1>2 DEF OldStopped, SetUp, PipelineStarted, CleanUp, healVars
  <2>2. call.pc \in StartPcs /\ call'.pc \in StartPcs
    BY <1>2 DEF OldStopped, SetUp, PipelineStarted, CleanUp, Goto, StartPcs, IInv, CallInv, Call, IdleCall
  <2>3. HealActive' <=> HealActive
    BY <2>1 DEF HealActive, HealAtWork
  <2>4. Stopping' /\ Starting'
    BY <2>1, <2>2, <2>3, PcSets DEF Control, Stopping, Starting
  <2>5. call.pc \notin {"drain"} /\ call'.pc \notin {"drain", "release", "stop_pipe"}
    BY <2>2 DEF StartPcs
  <2> QED BY <2>1, <2>4, <2>5, CallControl
<1>3. CASE Played \/ CleanedUp
  <2>1. UNCHANGED <<heal, registered, overrun>> /\ call.pc \in {"play", "clean_pipe"}
    BY <1>3 DEF Played, CleanedUp, healVars
  <2>2. call.pc \in StartPcs /\ (~overrun => state = STARTING /\ ~HealActive)
    BY <2>1 DEF StartPcs, Control, Starting
  <2>3. \/ state' = PLAYING /\ call'.pc = "idle"
        \/ state' = state /\ call'.pc = "cleanup"
        \/ state' = STOPPING /\ call'.pc = "stop_heal"
        \/ state' = state /\ call'.pc = "idle" /\ ~CanMove(FAILED)
    BY <1>3, FailedStops, CallPc DEF Played, CleanedUp, Goto, IInv
  <2>4. HealActive' <=> HealActive
    BY <2>1 DEF HealActive, HealAtWork
  <2>5. Stopping'
    BY <2>3, PcSets DEF Stopping, StopPcs
  <2>6. Starting'
    <3>1. {"idle", "stop_heal"} \cap StartPcs = {} /\ "cleanup" \in StartPcs
      BY DEF StartPcs
    <3>2. ASSUME ~overrun' PROVE (call'.pc \in StartPcs => state' = STARTING /\ ~HealActive')
                                 /\ (state' = STARTING => call'.pc \in StartPcs)
      BY <2>1, <2>2, <2>3, <2>4, <3>1, <3>2, Moves
    <3> QED BY <3>2 DEF Starting
  <2>7. state' = STOPPED => state = STOPPED
    BY <2>3, Moves
  <2>8. call.pc # "drain" /\ call'.pc \notin {"drain", "release", "stop_pipe"}
    BY <2>1, <2>3
  <2> QED BY <2>1, <2>5, <2>6, <2>7, <2>8, CallControl
<1> QED BY <1>1, <1>2, <1>3

LEMMA NextControl == ASSUME IInv, Control, [Next]_vars PROVE Control'
BY HealControl, ScheduleControl, WatchControl, TargetControl, StopControl, StartControl
DEF Next, CallStep

LEMMA InitControl == Init => Control
<1> SUFFICES ASSUME Init PROVE Control
  OBVIOUS
<1>1. ~HealActive
  BY IdleTypes DEF Init, HealActive, HealAtWork
<1>2. state = PLAYING /\ call.pc = "idle"
  BY DEF Init, IdleCall
<1> QED BY <1>1, <1>2, Moves, PcSets DEF Control, Stopping, Known, Quiet, Starting, HealActive


-----------------------------------------------------------------------------
(* Whole swaps *)

LEMMA WholeKeeps == ASSUME IInv, Whole, FedOff, [Next]_vars PROVE Whole' /\ FedOff'
<1>1. ASSUME fed' = None PROVE Whole' /\ FedOff'
  BY <1>1 DEF Whole, FedOff
<1>2. ASSUME UNCHANGED mediaVars, call.pc # "setup" \/ call' = call,
             call' = call \/ call'.pc \notin {"stop_pipe", "clean_pipe"}
      PROVE  Whole' /\ FedOff'
  BY <1>2 DEF Whole, FedOff, mediaVars
<1>3. ASSUME NEW h \in Heals, HealStep(h) PROVE Whole' /\ FedOff'
  <2>1. call' = call
    BY <1>3, HealFrame
  <2>2. CASE UNCHANGED mediaVars
    BY <1>2, <2>1, <2>2
  <2>3. CASE published' = heal[h].new /\ pipeline' = heal[h].new
             /\ fed' = (IF fed = None THEN None ELSE heal[h].new)
    BY <2>1, <2>3 DEF Whole, FedOff
  <2> QED BY <1>3, <2>2, <2>3
    DEF HealStep, HealBegun, HealPipelineStarted, HealOldStopped, HealPlayed, HealSucceeds,
        HealGivesUp, HealCancelled
<1>4. CASE \/ MonitorDegrades \/ MonitorRestores \/ MonitorDetaches \/ MonitorRetires
           \/ Quiesced \/ EncoderFalters \/ Recover \/ UNCHANGED vars
  <2>1. UNCHANGED <<mediaVars, call>>
    BY <1>4 DEF MonitorDegrades, MonitorRestores, MonitorDetaches, MonitorRetires, Quiesced,
                EncoderFalters, Recover, vars
  <2> QED BY <1>2, <2>1
<1>5. CASE Quiesces \/ Release \/ CleanUp
  BY <1>1, <1>5 DEF Quiesces, Release, CleanUp
<1>6. CASE StopDone \/ CleanedUp
  BY <1>1, <1>6 DEF StopDone, CleanedUp, FedOff
<1>7. CASE RecoverTarget \/ TargetHealed \/ CallStop \/ CallStart
  <2>1. UNCHANGED mediaVars /\ call.pc # "setup"
    BY <1>7 DEF RecoverTarget, TargetHealed, CallStop, CallStart
  <2>2. call'.pc \in {"heal_target", "idle", "stop_heal", "setup", "old_stop"}
    <3>1. CASE RecoverTarget \/ TargetHealed
      BY <3>1, CallPc DEF RecoverTarget, TargetHealed, Goto, IInv
    <3>2. CASE CallStop
      BY <3>2, CallPc DEF CallStop, Goto, IInv
    <3>3. CASE CallStart
      BY <3>3 DEF CallStart, Goto, IInv, CallInv, Call
    <3> QED BY <1>7, <3>1, <3>2, <3>3
  <2> QED BY <1>2, <2>1, <2>2
<1>8. CASE StopHeal \/ HealDrained \/ PipelineStarted
  <2>1. UNCHANGED mediaVars /\ call.pc # "setup"
    BY <1>8 DEF StopHeal, HealDrained, PipelineStarted
  <2>2. call'.pc \in {"release", "drain", "idle", "play", "cleanup"}
    <3>1. CASE StopHeal
      BY <3>1 DEF StopHeal, Goto, IInv, CallInv, Call
    <3>2. CASE HealDrained
      BY <3>2, CallPc DEF HealDrained, IInv
    <3>3. CASE PipelineStarted
      <4>1. (Goto("play") => call'.pc = "play") /\ (Goto("cleanup") => call'.pc = "cleanup")
        BY CallPc DEF Goto, IInv
      <4> QED BY <3>3, <4>1 DEF PipelineStarted
    <3> QED BY <1>8, <3>1, <3>2, <3>3
  <2> QED BY <1>2, <2>1, <2>2
<1>9. CASE Played
  <2>1. UNCHANGED mediaVars /\ call.pc # "setup"
    BY <1>9 DEF Played
  <2>2. call'.pc \in {"idle", "stop_heal", "cleanup"}
    <3>1. FailAndStop => call'.pc \in {"idle", "stop_heal"}
      BY FailedStops
    <3>2. Goto("cleanup") => call'.pc = "cleanup"
      BY CallPc DEF Goto, IInv
    <3>3. IdleCall.pc = "idle"
      BY CallPc DEF IInv
    <3>4. Goto("cleanup") \/ FailAndStop \/ call' = IdleCall
      BY <1>9 DEF Played
    <3> QED BY <3>1, <3>2, <3>3, <3>4
  <2> QED BY <1>2, <2>1, <2>2
<1>10. CASE OldStopped
  <2>1. call'.pc = "setup"
    BY <1>10 DEF OldStopped, IdleCall
  <2> QED BY <2>1 DEF Whole, FedOff
<1>11. CASE SetUp
  <2>1. published' = fed' /\ pipeline' = fed' /\ call'.pc = "pipe_start"
    BY <1>11 DEF SetUp, IInv, CallInv, Call
  <2> QED BY <2>1 DEF Whole, FedOff
<1> QED BY <1>3, <1>4, <1>5, <1>6, <1>7, <1>8, <1>9, <1>10, <1>11 DEF Next, CallStep


-----------------------------------------------------------------------------
(* No encoder without an owner *)

LEMMA PipesStop ==
    ASSUME MediaInv, NEW q \in Pipelines \cup {None}
    PROVE  /\ BeginStop(q) => \A p \in Pipelines : pipe'[p] # "off" => pipe[p] # "off"
           /\ EndStop(q) => \A p \in Pipelines : pipe'[p] # "off" => pipe[p] # "off" /\ p # q
BY DEF MediaInv, BeginStop, EndStop

\* A step that starts no encoder and leaves pipeline, quiesce and heals alone.
LEMMA OwnFrame ==
    ASSUME Own, UNCHANGED <<pipeline, quiesce>>, ~overrun' => ~overrun,
           \A h \in Heals : /\ heal'[h].pc = heal[h].pc
                            /\ heal[h].pc = "idle" \/ heal'[h].old = heal[h].old,
           \A p \in Pipelines : pipe'[p] # "off" => pipe[p] # "off",
           ~overrun' => CallKnown'
    PROVE  Own'
<1> SUFFICES ASSUME ~overrun'
             PROVE  OldKnown' /\ \A p \in Pipelines : pipe'[p] # "off" => Owned(p)'
  BY DEF Own
<1>1. OldKnown'
  BY DEF Own, OldKnown
<1>2. ASSUME NEW p \in Pipelines, pipe'[p] # "off" PROVE Owned(p)'
  <2>1. Owned(p)
    BY <1>2 DEF Own
  <2> QED BY <2>1 DEF Owned
<1> QED BY <1>1, <1>2

LEMMA HealOwn == ASSUME IInv, Control, Own, NEW h \in Heals, HealStep(h) PROVE Own'
<1> SUFFICES ASSUME ~overrun'
             PROVE  OldKnown' /\ CallKnown' /\ \A p \in Pipelines : pipe'[p] # "off" => Owned(p)'
  BY DEF Own
<1>1. /\ HealAtWork(h) /\ UNCHANGED <<call, quiesce, overrun>>
      /\ \A x \in Heals \ {h} : heal[x].pc = "idle" /\ heal'[x].pc = "idle"
  BY HealFrame
<1>2. call.pc \notin {"old_stop", "setup", "pipe_start", "play", "clean_pipe", "stop_pipe"}
  BY <1>1 DEF Control, Quiet, Starting, HealActive, StartPcs
<1>3. CallKnown'
  BY <1>1, <1>2 DEF CallKnown
<1>4. heal[h].pc = "start" => heal[h].old = pipeline
  BY <1>1 DEF Own, OldKnown
<1>5. \A p \in Pipelines : pipe[p] # "off" =>
         \/ p = pipeline
         \/ quiesce.pc = "pipe_stop" /\ quiesce.pipe = p
         \/ heal[h].pc = "old_stop" /\ heal[h].old = p
  BY <1>1 DEF Own, Owned
<1>6. heal[h] \in Heal /\ heal \in [Heals -> Heal]
  BY DEF IInv, HealInv
<1>0. /\ \A raised \in BOOLEAN : Finish(h, raised) => heal'[h].pc = "idle"
      /\ \A pc \in {"play", "watch"} : Step(h, pc) => heal'[h].pc = pc
      /\ heal' = [heal EXCEPT ![h] = IdleHeal] => heal'[h].pc = "idle"
  <2>1. \A raised \in BOOLEAN : Finish(h, raised) => heal'[h].pc = "idle"
    BY <1>6 DEF Finish, IdleHeal
  <2>2. \A pc \in {"play", "watch"} : Step(h, pc) => heal'[h].pc = pc
    BY <1>6 DEF Step, Heal
  <2>3. heal' = [heal EXCEPT ![h] = IdleHeal] => heal'[h].pc = "idle"
    BY <1>6 DEF IdleHeal
  <2> QED BY <2>1, <2>2, <2>3
<1>7. ASSUME heal'[h].pc # "start", UNCHANGED pipeline,
             \A p \in Pipelines : pipe'[p] # "off" =>
                 pipe[p] # "off" /\ (heal[h].pc = "old_stop" => p # heal[h].old \/ heal'[h] = heal[h])
      PROVE  OldKnown' /\ \A p \in Pipelines : pipe'[p] # "off" => Owned(p)'
  <2>1. OldKnown'
    BY <1>1, <1>7 DEF OldKnown
  <2>2. ASSUME NEW p \in Pipelines, pipe'[p] # "off" PROVE Owned(p)'
    BY <1>1, <1>5, <1>7, <2>2 DEF Owned
  <2> QED BY <2>1, <2>2
<1>8. CASE HealBegun(h)
  <2>1. heal[h].pc = "delay" /\ UNCHANGED <<pipeline, pipe>>
    BY <1>8 DEF HealBegun, HealBegins, Resumes, mediaVars
  <2>2. CASE heal'[h].pc # "start"
    BY <1>3, <1>7, <2>1, <2>2
  <2>3. CASE heal'[h].pc = "start"
    <3>1. heal'[h].old = pipeline
      <4>1. PICK p \in Pipelines : heal' = [heal EXCEPT ![h].pc = "start", ![h].old = pipeline, ![h].new = p]
        BY <1>0, <1>8, <2>3 DEF HealBegun, HealBegins
      <4> QED BY <1>6, <4>1 DEF Heal
    <3>2. OldKnown'
      BY <1>1, <2>1, <3>1 DEF OldKnown
    <3>3. ASSUME NEW p \in Pipelines, pipe'[p] # "off" PROVE Owned(p)'
      BY <1>1, <1>5, <2>1, <3>3 DEF Owned
    <3> QED BY <1>3, <3>2, <3>3
  <2> QED BY <2>2, <2>3
<1>9. CASE HealPipelineStarted(h)
  <2>1. heal[h].pc = "start"
    BY <1>9 DEF HealPipelineStarted, Resumes
  <2>2. CASE Finish(h, TRUE) /\ UNCHANGED <<mediaVars, pipe>>
    <3>1. heal'[h].pc = "idle"
      BY <1>6, <2>2 DEF Finish, IdleHeal
    <3> QED BY <1>3, <1>7, <2>1, <2>2, <3>1 DEF mediaVars
  <2>3. CASE ~(Finish(h, TRUE) /\ UNCHANGED <<mediaVars, pipe>>)
    <3> DEFINE new == heal[h].new
               old == heal[h].old
               pc == IF old = None \/ pipe[old] = "off" THEN "play" ELSE "old_stop"
    <3>1. pipeline' = new /\ \A p \in Pipelines : p # new => (pipe'[p] # "off" => pipe[p] # "off")
      BY <1>9, <2>3 DEF HealPipelineStarted
    <3>2. heal'[h].pc = pc /\ heal'[h].old = old
      <4> DEFINE age == IF heal[h].age = 2 THEN 2 ELSE heal[h].age + 1
                 moved == [heal[h] EXCEPT !.age = age, !.new = None, !.pc = pc]
      <4>1. heal'[h] = moved
        <5> HIDE DEF moved
        <5>1. heal' = [x \in Heals |-> IF x = h THEN moved
                        ELSE IF heal[x].pc = "idle" \/ heal[x].age = 2 THEN heal[x]
                        ELSE [heal[x] EXCEPT !.age = @ + 1]]
          BY <1>9, <2>3 DEF HealPipelineStarted, moved
        <5> QED BY <5>1
      <4> HIDE DEF age, pc
      <4> QED BY <1>6, <4>1 DEF Heal
    <3>3. old = pipeline /\ pc # "start"
      BY <1>4, <2>1
    <3>4. OldKnown'
      BY <1>1, <3>2, <3>3 DEF OldKnown
    <3>5. ASSUME NEW p \in Pipelines, pipe'[p] # "off" PROVE Owned(p)'
      <4>1. CASE p = new
        BY <3>1, <4>1 DEF Owned
      <4>2. CASE p # new
        <5>1. pipe[p] # "off" /\ (p = pipeline \/ (quiesce.pc = "pipe_stop" /\ quiesce.pipe = p))
          BY <1>5, <2>1, <3>1, <3>5, <4>2
        <5>2. CASE p = pipeline
          <6>1. old # None
            BY <3>3, <5>2 DEF Pipelines, None
          <6>2. heal'[h].pc = "old_stop" /\ heal'[h].old = p
            BY <3>2, <3>3, <5>1, <5>2, <6>1
          <6> QED BY <6>2 DEF Owned
        <5>3. CASE quiesce.pc = "pipe_stop" /\ quiesce.pipe = p
          BY <1>1, <5>3 DEF Owned
        <5> QED BY <5>1, <5>2, <5>3
      <4> QED BY <4>1, <4>2
    <3> QED BY <1>3, <3>4, <3>5
  <2> QED BY <2>2, <2>3
<1>10. CASE HealOldStopped(h)
  <2>1. heal'[h].pc = "play" /\ UNCHANGED pipeline
    BY <1>6, <1>10 DEF HealOldStopped, mediaVars, Heal
  <2>2. \A p \in Pipelines : pipe'[p] # "off" => pipe[p] # "off" /\ p # heal[h].old
    BY <1>6, <1>10, PipesStop DEF HealOldStopped, Heal, IInv
  <2> QED BY <1>3, <1>7, <2>1, <2>2
<1>11. CASE HealPlayed(h) \/ HealSucceeds(h) \/ HealGivesUp(h)
  <2>1. heal[h].pc \in {"play", "watch"} /\ UNCHANGED <<pipeline, pipe>>
    BY <1>11 DEF HealPlayed, HealSucceeds, HealGivesUp, Resumes, mediaVars
  <2>2. heal'[h].pc \in {"idle", "watch"}
    BY <1>0, <1>11 DEF HealPlayed, HealSucceeds, HealGivesUp
  <2> QED BY <1>3, <1>7, <2>1, <2>2
<1>12. CASE HealCancelled(h)
  <2>1. UNCHANGED pipeline /\ heal'[h].pc \in {"idle", "old_stop"}
    <3>1. heal' = [heal EXCEPT ![h].cancelled = FALSE] => heal'[h].pc = heal[h].pc
      BY <1>6 DEF Heal
    <3> QED BY <1>0, <1>12, <3>1 DEF HealCancelled, mediaVars
  <2>2. CASE UNCHANGED pipe /\ heal[h].pc # "old_stop"
    BY <1>3, <1>7, <2>1, <2>2
  <2>3. CASE heal[h].pc = "old_stop" /\ EndStop(heal[h].old)
    <3>1. \A p \in Pipelines : pipe'[p] # "off" => pipe[p] # "off" /\ p # heal[h].old
      BY <1>6, <2>3, PipesStop DEF Heal, IInv
    <3> QED BY <1>3, <1>7, <2>1, <3>1
  <2>4. CASE heal[h].pc = "old_stop" /\ UNCHANGED pipe /\ heal' = [heal EXCEPT ![h].cancelled = FALSE]
    <3>1. heal'[h].pc = "old_stop" /\ heal'[h].old = heal[h].old
      BY <1>6, <2>4 DEF Heal
    <3>2. OldKnown'
      BY <1>1, <3>1 DEF OldKnown
    <3>3. ASSUME NEW p \in Pipelines, pipe'[p] # "off" PROVE Owned(p)'
      BY <1>1, <1>5, <2>1, <2>4, <3>1, <3>3 DEF Owned
    <3> QED BY <1>3, <3>2, <3>3
  <2> QED BY <1>12, <2>2, <2>3, <2>4 DEF HealCancelled
<1> QED BY <1>8, <1>9, <1>10, <1>11, <1>12 DEF HealStep


LEMMA ScheduleOwn == ASSUME IInv, Own, MonitorDegrades \/ MonitorDetaches \/ Recover PROVE Own'
<1>1. UNCHANGED <<pipeline, pipe, call, overrun>>
  BY DEF MonitorDegrades, MonitorDetaches, Recover, mediaVars
<1>2. quiesce' = quiesce \/ quiesce.pc = "idle"
  BY DEF MonitorDegrades, MonitorDetaches, Recover
<1>3. \/ UNCHANGED <<heal, registered>>
      \/ \E h \in Heals : /\ registered' = h /\ heal'[h].pc = "delay"
                          /\ \A x \in Heals : heal[x].pc = "idle"
                          /\ \A x \in Heals \ {h} : heal'[x].pc = "idle"
  BY ScheduleFrame DEF MonitorDegrades, MonitorDetaches, Recover, healVars, IInv
<1> SUFFICES ASSUME ~overrun'
             PROVE  OldKnown' /\ CallKnown' /\ \A p \in Pipelines : pipe'[p] # "off" => Owned(p)'
  BY DEF Own
<1>4. OldKnown /\ CallKnown /\ \A p \in Pipelines : pipe[p] # "off" => Owned(p)
  BY <1>1 DEF Own
<1>5. OldKnown' /\ CallKnown'
  BY <1>1, <1>3, <1>4 DEF OldKnown, CallKnown
<1>6. ASSUME NEW p \in Pipelines, pipe'[p] # "off" PROVE Owned(p)'
  BY <1>1, <1>2, <1>3, <1>4, <1>6 DEF Owned
<1> QED BY <1>5, <1>6

LEMMA QuiesceOwn == ASSUME IInv, Own, Quiesces \/ Quiesced PROVE Own'
<1>1. UNCHANGED <<pipeline, call, overrun, heal>>
  BY DEF Quiesces, Quiesced, mediaVars, healVars
<1>2. /\ pipeline \in Pipelines \cup {None} /\ quiesce.pipe \in Pipelines \cup {None}
  BY DEF IInv, MediaInv, CallInv
<1>3. \A p \in Pipelines : pipe'[p] # "off" => pipe[p] # "off"
  BY <1>2, PipesStop DEF Quiesces, Quiesced, IInv
<1> SUFFICES ASSUME ~overrun'
             PROVE  OldKnown' /\ CallKnown' /\ \A p \in Pipelines : pipe'[p] # "off" => Owned(p)'
  BY DEF Own
<1>4. OldKnown /\ CallKnown /\ \A p \in Pipelines : pipe[p] # "off" => Owned(p)
  BY <1>1 DEF Own
<1>5. OldKnown'
  BY <1>1, <1>4 DEF OldKnown
<1>6. CallKnown'
  <2>1. pipeline # None => pipeline \in Pipelines /\ pipe'[pipeline] \in {"off", "running", "stopping"}
    BY <1>2, QuiesceKeeps DEF IInv, MediaInv
  <2> QED BY <1>1, <1>3, <1>4, <2>1 DEF CallKnown
<1>7. ASSUME NEW p \in Pipelines, pipe'[p] # "off" PROVE Owned(p)'
  <2>1. Owned(p) /\ (quiesce.pc = "pipe_stop" => p # quiesce.pipe)
    BY <1>2, <1>3, <1>4, <1>7, PipesStop DEF Quiesces, Quiesced, IInv
  <2> QED BY <1>1, <2>1 DEF Owned
<1> QED BY <1>5, <1>6, <1>7

\* Calls of which CallKnown asks nothing afterwards, and that start no encoder.
LEMMA FreeOwn ==
    ASSUME IInv, Own,
           \/ MonitorRestores \/ MonitorRetires \/ EncoderFalters \/ UNCHANGED vars
           \/ RecoverTarget \/ TargetHealed \/ CallStop \/ StopHeal \/ HealDrained \/ StopDone
           \/ Played
    PROVE  Own'
<1>1. UNCHANGED <<pipeline, quiesce, overrun>>
  BY DEF MonitorRestores, MonitorRetires, EncoderFalters, RecoverTarget, TargetHealed, CallStop,
         StopHeal, HealDrained, StopDone, Played, vars, mediaVars
<1>2. \A h \in Heals : /\ heal'[h].pc = heal[h].pc
                       /\ heal[h].pc = "idle" \/ heal'[h].old = heal[h].old
  <2>1. CASE StopHeal
    BY <2>1 DEF StopHeal, IInv, HealInv, Heal
  <2>2. CASE HealDrained
    BY <2>2, IdleTypes DEF HealDrained, IInv, HealInv
  <2>3. CASE ~StopHeal /\ ~HealDrained
    <3>1. heal' = heal
      BY <2>3 DEF MonitorRestores, MonitorRetires, EncoderFalters, RecoverTarget, TargetHealed,
                  CallStop, StopDone, Played, vars, healVars
    <3> QED BY <3>1
  <2> QED BY <2>1, <2>2, <2>3
<1>3. /\ \A p \in Pipelines : pipe'[p] # "off" => pipe[p] # "off"
      /\ pipe' = pipe \/ call'.pc = "idle"
  <2>1. CASE StopDone
    <3>1. call.pipe \in Pipelines \cup {None} /\ call'.pc = "idle"
      BY <2>1, CallPc DEF StopDone, IInv, CallInv, Call
    <3> QED BY <2>1, <3>1, PipesStop DEF StopDone, IInv
  <2>2. CASE ~StopDone
    BY <2>2 DEF MonitorRestores, MonitorRetires, EncoderFalters, RecoverTarget, TargetHealed,
                CallStop, StopHeal, HealDrained, Played, vars
  <2> QED BY <2>1, <2>2
<1>4. call' = call \/ call'.pc \in {"idle", "heal_target", "stop_heal", "release", "drain", "cleanup"}
  <2>1. CASE MonitorRestores \/ MonitorRetires \/ EncoderFalters \/ UNCHANGED vars
    BY <2>1 DEF MonitorRestores, MonitorRetires, EncoderFalters, vars
  <2>2. CASE RecoverTarget \/ TargetHealed \/ StopDone
    BY <2>2, CallPc DEF RecoverTarget, TargetHealed, StopDone, Goto, IInv
  <2>3. CASE CallStop
    BY <2>3, CallPc DEF CallStop, Goto, IInv
  <2>6. CASE HealDrained
    BY <2>6, CallPc DEF HealDrained, IInv
  <2>4. CASE StopHeal
    BY <2>4 DEF StopHeal, Goto, IInv, CallInv, Call
  <2>5. CASE Played
    <3>1. Goto("cleanup") => call'.pc = "cleanup"
      BY CallPc DEF Goto, IInv
    <3>2. IdleCall.pc = "idle" /\ (FailAndStop => call'.pc \in {"idle", "stop_heal"})
      BY FailedStops, CallPc DEF IInv
    <3>3. Goto("cleanup") \/ FailAndStop \/ call' = IdleCall
      BY <2>5 DEF Played
    <3> QED BY <3>1, <3>2, <3>3
  <2> QED BY <2>1, <2>2, <2>3, <2>4, <2>5, <2>6
<1>5. ~overrun' => CallKnown'
  BY <1>1, <1>3, <1>4 DEF Own, CallKnown
<1> QED BY <1>1, <1>2, <1>3, <1>5, OwnFrame

LEMMA StoppingOwn == ASSUME IInv, Own, Release \/ CallStart \/ CleanUp PROVE Own'
<1>1. UNCHANGED <<pipeline, quiesce, heal>> /\ (~overrun' => ~overrun)
  <2>1. CASE Release \/ CleanUp
    BY <2>1 DEF Release, CleanUp, healVars
  <2>2. CASE CallStart
    BY <2>2 DEF CallStart, mediaVars, healVars
  <2> QED BY <2>1, <2>2
<1>2. pipeline \in Pipelines \cup {None}
  BY DEF IInv, MediaInv
<1>3. \A p \in Pipelines : pipe'[p] # "off" => pipe[p] # "off"
  BY <1>2, PipesStop DEF Release, CallStart, CleanUp, IInv
<1>4. CASE call'.pc \in {"stop_pipe", "old_stop", "clean_pipe"} /\ call'.pipe = pipeline
  BY <1>1, <1>3, <1>4, OwnFrame DEF CallKnown
<1>5. CASE call'.pc = "setup" /\ (pipeline = None \/ pipe[pipeline] = "off") /\ pipe' = pipe
  BY <1>1, <1>3, <1>5, OwnFrame DEF CallKnown
<1>6. Release => call'.pc = "stop_pipe" /\ call'.pipe = pipeline
  BY DEF Release, IInv, CallInv, Call
<1>7. CleanUp => call'.pc = "clean_pipe" /\ call'.pipe = pipeline
  BY DEF CleanUp, IInv, CallInv, Call
<1>8. CallStart => \/ call'.pc = "old_stop" /\ call'.pipe = pipeline
                   \/ call'.pc = "setup" /\ (pipeline = None \/ pipe[pipeline] = "off") /\ pipe' = pipe
  BY DEF CallStart, Goto, IInv, CallInv, Call
<1> QED BY <1>4, <1>5, <1>6, <1>7, <1>8

\* A start has no heal beside it, so its pipeline is its own.
LEMMA StartOwn ==
    ASSUME IInv, Control, Own, OldStopped \/ SetUp \/ PipelineStarted \/ CleanedUp
    PROVE  Own'
<1> SUFFICES ASSUME ~overrun'
             PROVE  OldKnown' /\ CallKnown' /\ \A p \in Pipelines : pipe'[p] # "off" => Owned(p)'
  BY DEF Own
<1>1. UNCHANGED <<heal, quiesce, overrun>>
  BY DEF OldStopped, SetUp, PipelineStarted, CleanedUp, healVars
<1>2. OldKnown /\ CallKnown /\ \A p \in Pipelines : pipe[p] # "off" => Owned(p)
  BY <1>1 DEF Own
<1>3. \A h \in Heals : heal[h].pc = "idle"
  BY <1>1 DEF OldStopped, SetUp, PipelineStarted, CleanedUp, Control, Starting, StartPcs,
              HealActive, HealAtWork
<1>4. OldKnown'
  BY <1>1, <1>3 DEF OldKnown
<1>5. \A p \in Pipelines : pipe[p] # "off" =>
         p = pipeline \/ (quiesce.pc = "pipe_stop" /\ quiesce.pipe = p)
  BY <1>2, <1>3 DEF Owned
<1>6. call.pipe \in Pipelines \cup {None} /\ pipeline \in Pipelines \cup {None}
  BY DEF IInv, CallInv, Call, MediaInv
<1>7. CASE OldStopped
  <2>1. call.pipe = pipeline /\ pipeline' = None /\ call'.pc = "setup"
    BY <1>2, <1>7, CallPc DEF OldStopped, CallKnown, IInv
  <2>2. \A p \in Pipelines : pipe'[p] # "off" => pipe[p] # "off" /\ p # call.pipe
    BY <1>6, <1>7, PipesStop DEF OldStopped, IInv
  <2>3. ASSUME NEW p \in Pipelines, pipe'[p] # "off" PROVE Owned(p)'
    BY <1>1, <1>5, <2>1, <2>2, <2>3 DEF Owned
  <2>4. CallKnown'
    BY <2>1 DEF CallKnown
  <2> QED BY <1>4, <2>3, <2>4
<1>8. CASE SetUp
  <2>1. call'.pc = "pipe_start" /\ call'.pipe = pipeline' /\ pipe' = pipe
    BY <1>8 DEF SetUp, IInv, CallInv, Call
  <2>2. pipeline = None \/ pipe[pipeline] = "off"
    BY <1>2, <1>8 DEF SetUp, CallKnown
  <2>3. ASSUME NEW p \in Pipelines, pipe'[p] # "off" PROVE Owned(p)'
    <3>1. p # None
      BY DEF Pipelines, None
    <3> QED BY <1>1, <1>5, <2>1, <2>2, <2>3, <3>1 DEF Owned
  <2>4. CallKnown'
    BY <2>1 DEF CallKnown
  <2> QED BY <1>4, <2>3, <2>4
<1>9. CASE PipelineStarted
  <2>1. call.pipe = pipeline /\ pipeline' = pipeline
    BY <1>2, <1>9 DEF PipelineStarted, CallKnown, mediaVars
  <2>2. \A p \in Pipelines : pipe'[p] # "off" => p = call.pipe \/ pipe[p] # "off"
    BY <1>9 DEF PipelineStarted, IInv, MediaInv
  <2>3. ASSUME NEW p \in Pipelines, pipe'[p] # "off" PROVE Owned(p)'
    BY <1>1, <1>5, <2>1, <2>2, <2>3 DEF Owned
  <2>4. call'.pc \in {"play", "cleanup"} /\ call'.pipe = call.pipe
    <3>1. \A pc : Goto(pc) => call'.pc = pc /\ call'.pipe = call.pipe
      BY CallPc DEF Goto, IInv
    <3>2. Goto("play") \/ Goto("cleanup")
      BY <1>9 DEF PipelineStarted
    <3> QED BY <3>1, <3>2
  <2>5. CallKnown'
    BY <2>1, <2>4 DEF CallKnown
  <2> QED BY <1>4, <2>3, <2>5
<1>10. CASE CleanedUp
  <2>1. call.pipe = pipeline /\ pipeline' = None
    BY <1>2, <1>10 DEF CleanedUp, CallKnown
  <2>2. \A p \in Pipelines : pipe'[p] # "off" => pipe[p] # "off" /\ p # call.pipe
    <3>1. \A p \in Pipelines : p # None
      BY DEF Pipelines, None
    <3> QED BY <1>6, <1>10, <3>1, PipesStop DEF CleanedUp, IInv
  <2>3. ASSUME NEW p \in Pipelines, pipe'[p] # "off" PROVE Owned(p)'
    BY <1>1, <1>5, <2>1, <2>2, <2>3 DEF Owned
  <2>4. CallKnown'
    BY <1>10, FailedStops DEF CleanedUp, CallKnown
  <2> QED BY <1>4, <2>3, <2>4
<1> QED BY <1>7, <1>8, <1>9, <1>10

LEMMA NextOwn == ASSUME IInv, Control, Own, [Next]_vars PROVE Own'
BY HealOwn, ScheduleOwn, QuiesceOwn, FreeOwn, StoppingOwn, StartOwn DEF Next, CallStep

LEMMA InitSwap == Init => SwapInv
<1> SUFFICES ASSUME Init PROVE SwapInv
  OBVIOUS
<1>1. call.pc = "idle" /\ \A h \in Heals : heal[h].pc = "idle"
  BY IdleTypes DEF Init, IdleCall
<1>2. pipeline = 1 /\ published = 1 /\ fed = 1 /\ \A p \in Pipelines : pipe[p] # "off" => p = 1
  BY DEF Init
<1>3. Whole /\ FedOff
  BY <1>1, <1>2 DEF Whole, FedOff
<1>4. Own
  BY <1>1, <1>2 DEF Own, OldKnown, CallKnown, Owned
<1> QED BY <1>3, <1>4, InitControl DEF SwapInv

LEMMA SwapStep == IInv /\ SwapInv /\ [Next]_vars => SwapInv'
BY NextControl, WholeKeeps, NextOwn DEF SwapInv

THEOREM SwapInvariant == Spec => [](IInv /\ SwapInv)
<1> QED BY InitInv, NextInv, InitSwap, SwapStep, PTL DEF Spec

\* _heal_media_plane publishes, re-points the frame sink and replaces
\* session.pipeline without an await between: the pipeline that is fed is the
\* one published, in every state a playing or degraded session can be in.
THEOREM SwapsAreWhole == Spec => []SwapIsWhole
<1>1. SwapInv => SwapIsWhole
  <2> SUFFICES ASSUME SwapInv, state \in {PLAYING, DEGRADED}, fed # None, ~overrun
               PROVE  published = fed /\ pipeline = fed
    BY DEF SwapIsWhole
  <2>1. call.pc # "setup"
    BY Moves DEF SwapInv, Control, Starting, StartPcs
  <2> QED BY <2>1 DEF SwapInv, Whole
<1> QED BY <1>1, SwapInvariant, PTL

\* Whatever fails or is cancelled in a swap, a stop or a start, an encoder that
\* still runs when nothing is in flight is the session's.
THEOREM NoOrphans == Spec => []NoOrphan
<1>1. SwapInv => NoOrphan
  BY DEF SwapInv, Own, Owned, NoOrphan, Settled, HealAtWork, Encoding
<1> QED BY <1>1, SwapInvariant, PTL

\* A session leaves STARTING for PLAYING only by the start that put it there:
\* a heal scheduled earlier was drained by the stop before.
THEOREM StartsFinishThemselves == Spec => OnlyStartsFinishStarts
<1>1. IInv /\ SwapInv /\ [Next]_vars =>
        [~overrun' /\ state = STARTING /\ state' = PLAYING => call.pc = "play"]_vars
  <2> SUFFICES ASSUME IInv, SwapInv, Next, ~overrun', state = STARTING, state' = PLAYING
               PROVE  call.pc = "play"
    OBVIOUS
  <2>2. ~overrun
    <3>1. ASSUME NEW h \in Heals, HealStep(h) PROVE overrun' = overrun
      BY <3>1, HealFrame
    <3> QED BY <3>1 DEF Next, CallStep, MonitorDegrades, MonitorRestores, MonitorDetaches,
          MonitorRetires, Quiesces, Quiesced, EncoderFalters, Recover, RecoverTarget, CallStop,
          CallStart, TargetHealed, StopHeal, HealDrained, Release, StopDone, OldStopped, SetUp,
          PipelineStarted, Played, CleanUp, CleanedUp
  <2>3. call.pc \in StartPcs /\ ~HealActive
    BY <2>2 DEF SwapInv, Control, Starting
  <2>4. \A h \in Heals : ~HealStep(h)
    BY <2>3, HealFrame DEF HealActive
  <2>5. ~(RecoverTarget \/ CallStop \/ CallStart \/ TargetHealed \/ StopHeal \/ HealDrained
          \/ Release \/ StopDone)
    BY <2>3 DEF StartPcs, RecoverTarget, CallStop, CallStart, TargetHealed, StopHeal, HealDrained,
                Release, StopDone
  <2>6. STARTING \notin {PLAYING, DEGRADED} /\ STOPPING # PLAYING
    BY Moves
  <2>7. ~CleanedUp
    BY <2>6, FailedStops DEF CleanedUp
  <2> QED BY <2>4, <2>5, <2>6, <2>7 DEF Next, CallStep, MonitorDegrades, MonitorRestores,
        MonitorDetaches, MonitorRetires, Quiesces, Quiesced, EncoderFalters, Recover, OldStopped,
        SetUp, PipelineStarted, Played, CleanUp
<1> QED BY <1>1, SwapInvariant, PTL DEF Spec, OnlyStartsFinishStarts
=============================================================================
