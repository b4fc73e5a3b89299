---------------------------- MODULE ChecklistProofs ----------------------------
(***************************************************************************)
(* Theorems about Checklist, for every set of records, every finite set of *)
(* keys and every bound on the clock.                                      *)
(***************************************************************************)
EXTENDS Checklist, FiniteSetTheorems, TLAPS

-----------------------------------------------------------------------------
(* Facts about the counting queries.                                       *)

(* A set of keys has a cardinality, which lies within the column's range.  *)
LEMMA KeySetCount ==
    ASSUME NEW S \in SUBSET Key
    PROVE  IsFiniteSet(S) /\ Cardinality(S) \in Count
  <1>1. IsFiniteSet(S) /\ Cardinality(S) <= Cardinality(Key)
    BY KeyAssumption, FS_Subset
  <1>2. Cardinality(S) \in Nat /\ Cardinality(Key) \in Nat
    BY <1>1, KeyAssumption, FS_CardinalityType
  <1> QED
    BY <1>1, <1>2 DEF Count

(* Both counting queries of a step table stay in the column's range.       *)
LEMMA CountsTyped ==
    ASSUME NEW ss
    PROVE  CountTotal(ss) \in Count /\ CountDone(ss) \in Count
  <1>1. Present(ss) \in SUBSET Key /\ Done(ss) \in SUBSET Key
    BY DEF Present, Done
  <1> QED
    BY <1>1, KeySetCount DEF CountTotal, CountDone

(* The counters meet exactly when there are steps and all are done: the    *)
(* comparison of two numbers in recompute_completion decides it.           *)
LEMMA CountersMeet ==
    ASSUME NEW ss \in [Key -> StepRow]
    PROVE  (CountTotal(ss) > 0 /\ CountDone(ss) >= CountTotal(ss))
               <=> (Present(ss) # {} /\ Done(ss) = Present(ss))
  <1>1. Done(ss) \subseteq Present(ss) /\ Present(ss) \in SUBSET Key
    BY DEF Done, Present, DoneStatus
  <1>2. IsFiniteSet(Present(ss)) /\ IsFiniteSet(Done(ss))
    BY <1>1, KeySetCount, FS_Subset
  <1>3. CountTotal(ss) \in Nat /\ CountDone(ss) \in Nat
    BY <1>2, FS_CardinalityType DEF CountTotal, CountDone
  <1>4. CountTotal(ss) = 0 <=> Present(ss) = {}
    BY <1>2, FS_EmptySet DEF CountTotal
  <1>5. CountDone(ss) <= CountTotal(ss)
    BY <1>1, <1>2, FS_Subset DEF CountTotal, CountDone
  <1>6. CountDone(ss) = CountTotal(ss) <=> Done(ss) = Present(ss)
    BY <1>1, <1>2, FS_Subset DEF CountTotal, CountDone
  <1> QED
    BY <1>3, <1>4, <1>5, <1>6

-----------------------------------------------------------------------------
(* Facts about the rows the helpers write.                                 *)

(* recompute_completion touches completed_on alone, and leaves there NULL, *)
(* the time it was called or the time it found.                            *)
LEMMA RecomputeTyped ==
    ASSUME NEW row \in OnboardingRow, NEW t \in Time
    PROVE  /\ RecomputeCompletion(row, t) \in OnboardingRow
           /\ RecomputeCompletion(row, t).started_on = row.started_on
           /\ RecomputeCompletion(row, t).total_steps = row.total_steps
           /\ RecomputeCompletion(row, t).completed_steps = row.completed_steps
           /\ RecomputeCompletion(row, t).completed_on \in {Null, t, row.completed_on}
  BY DEF RecomputeCompletion, OnboardingRow, Timestamp

(* It stamps the row of a record exactly when the counters meet.           *)
LEMMA RecomputeStamps ==
    ASSUME NEW row \in OnboardingRow, NEW t \in Time
    PROVE  RecomputeCompletion(row, t).completed_on # Null <=> AllStepsDone(row)
  BY DEF RecomputeCompletion, OnboardingRow, Time, Null

(* The recounts yield rows of the model.                                   *)
LEMMA RecountsTyped ==
    ASSUME NEW row \in OnboardingRow, NEW ss, NEW s
    PROVE  /\ RecountAfterAdd(row, ss, s) \in OnboardingRow
           /\ RecountAfterAdd(row, ss, s).started_on = row.started_on
           /\ RecountAfterAdd(row, ss, s).completed_on = row.completed_on
           /\ RecountDone(row, ss) \in OnboardingRow
           /\ RecountDone(row, ss).started_on = row.started_on
           /\ RecountDone(row, ss).completed_on = row.completed_on
  BY CountsTyped DEF RecountAfterAdd, RecountDone, OnboardingRow

(* A new row is a row of the model.                                        *)
LEMMA NewRowTyped ==
    ASSUME NEW t \in Timestamp
    PROVE  NewOnboarding(t) \in OnboardingRow
  <1>1. Cardinality(Key) \in Nat
    BY KeyAssumption, FS_CardinalityType
  <1> QED
    BY <1>1 DEF NewOnboarding, OnboardingRow, Count, Timestamp, Null

(* The status and the times of the steps the helpers write.                *)
LEMMA StepsTyped ==
    ASSUME NEW t \in Time
    PROVE  /\ \A s \in Status : StepBorn(s, t) \in StepRow
           /\ \A s \in DoneStatus : [status |-> s, completed_on |-> t] \in StepRow
           /\ [status |-> "pending", completed_on |-> Null] \in StepRow
  BY DEF StepBorn, StepRow, Status, DoneStatus, Timestamp, Null

-----------------------------------------------------------------------------
(* Type correctness.                                                       *)

(* Each helper leaves its record typed.                                    *)
LEMMA GetOrCreateTyped ==
    ASSUME TypeOK, NEW r \in Record, GetOrCreate(r)
    PROVE  TypeOK'
  <1>1. PICK t \in Fresh(r) :
            /\ onboarding' = [onboarding EXCEPT ![r] = NewOnboarding(t)]
            /\ UNCHANGED <<steps, now>>
    BY DEF GetOrCreate
  <1>2. t \in Time /\ t \in Timestamp /\ t <= now
    BY DEF Fresh, Timestamp
  <1>3. NewOnboarding(t) \in OnboardingRow /\ NewOnboarding(t).started_on <= now
            /\ NewOnboarding(t).completed_on <= now
    BY <1>2, NewRowTyped DEF NewOnboarding, Null, TypeOK, Time
  <1> QED
    BY <1>1, <1>3 DEF TypeOK, Passed

(* The shape the three helpers that write a step share.                    *)
LEMMA WriteTyped ==
    ASSUME TypeOK, NEW r \in Record, NEW row \in OnboardingRow,
           NEW ss \in [Key -> StepRow],
           row.started_on <= now, row.completed_on <= now,
           \A k \in Key : ss[k].completed_on <= now,
           steps' = [steps EXCEPT ![r] = ss],
           onboarding' = [onboarding EXCEPT ![r] = row],
           now' = now
    PROVE  TypeOK'
  BY DEF TypeOK, Passed

LEMMA AddStepTyped ==
    ASSUME TypeOK, NEW r \in Record, NEW k \in Key, NEW s \in Status, AddStep(r, k, s)
    PROVE  TypeOK'
  <1> DEFINE Row(a) == IF Exists(r) THEN onboarding[r] ELSE NewOnboarding(a.create)
             SS(a)  == [steps[r] EXCEPT ![k] = StepBorn(s, a.stamp)]
             New(a) == RecomputeCompletion(RecountAfterAdd(Row(a), SS(a), s), a.complete)
  <1>1. PICK a \in Readings(r) :
            /\ steps' = [steps EXCEPT ![r] = SS(a)]
            /\ onboarding' = [onboarding EXCEPT ![r] = New(a)]
            /\ now' = now
    BY DEF AddStep
  <1>2. /\ a.create \in Time /\ a.stamp \in Time /\ a.complete \in Time
        /\ a.create <= now /\ a.stamp <= now /\ a.complete <= now
    BY DEF Readings, Fresh
  <1>3. now \in Time /\ now \in Nat /\ 0 <= now
    BY DEF TypeOK, Time
  <1>4. /\ Row(a) \in OnboardingRow
        /\ Row(a).started_on <= now /\ Row(a).completed_on <= now
    <2>1. CASE Exists(r)
      BY <2>1 DEF TypeOK, Passed
    <2>2. CASE ~Exists(r)
      <3>1. NewOnboarding(a.create) \in OnboardingRow
        BY <1>2, NewRowTyped DEF Timestamp
      <3> QED
        BY <2>2, <3>1, <1>2, <1>3 DEF NewOnboarding, Null
    <2> QED
      BY <2>1, <2>2
  <1>5. SS(a) \in [Key -> StepRow]
    BY <1>2, StepsTyped DEF TypeOK
  <1>6. \A j \in Key : SS(a)[j].completed_on <= now
    BY <1>2, <1>3 DEF TypeOK, Passed, StepBorn, Null
  <1>7. /\ New(a) \in OnboardingRow
        /\ New(a).started_on <= now /\ New(a).completed_on <= now
    <2> HIDE DEF Row, SS
    <2>1. /\ RecountAfterAdd(Row(a), SS(a), s) \in OnboardingRow
          /\ RecountAfterAdd(Row(a), SS(a), s).started_on = Row(a).started_on
          /\ RecountAfterAdd(Row(a), SS(a), s).completed_on = Row(a).completed_on
      BY <1>4, RecountsTyped
    <2> QED
      BY <2>1, <1>2, <1>3, <1>4, RecomputeTyped DEF Null
  <1> HIDE DEF Row, SS, New
  <1> QED
    BY <1>1, <1>5, <1>6, <1>7, WriteTyped

LEMMA TransitionTyped ==
    ASSUME TypeOK, NEW r \in Record, NEW k \in Key, NEW s \in DoneStatus,
           TransitionStep(r, k, s)
    PROVE  TypeOK'
  <1> DEFINE SS(a)  == [steps[r] EXCEPT ![k] = [status |-> s, completed_on |-> a.stamp]]
             Rec(a) == RecomputeCompletion(RecountDone(onboarding[r], SS(a)), a.complete)
             New(a) == IF steps[r][k].status \in DoneStatus THEN onboarding[r] ELSE Rec(a)
  <1>1. PICK a \in Readings(r) :
            /\ steps' = [steps EXCEPT ![r] = SS(a)]
            /\ onboarding' = [onboarding EXCEPT ![r] = New(a)]
            /\ now' = now
    BY DEF TransitionStep, TypeOK
  <1>2. /\ a.stamp \in Time /\ a.complete \in Time
        /\ a.stamp <= now /\ a.complete <= now
    BY DEF Readings, Fresh
  <1>3. now \in Nat /\ 0 <= now
    BY DEF TypeOK, Time
  <1>4. /\ onboarding[r] \in OnboardingRow
        /\ onboarding[r].started_on <= now /\ onboarding[r].completed_on <= now
    BY DEF TypeOK, Passed
  <1>5. SS(a) \in [Key -> StepRow]
    BY <1>2, StepsTyped DEF TypeOK
  <1>6. \A j \in Key : SS(a)[j].completed_on <= now
    BY <1>2 DEF TypeOK, Passed
  <1>7. /\ New(a) \in OnboardingRow
        /\ New(a).started_on <= now /\ New(a).completed_on <= now
    <2> HIDE DEF SS
    <2>1. /\ RecountDone(onboarding[r], SS(a)) \in OnboardingRow
          /\ RecountDone(onboarding[r], SS(a)).started_on <= now
          /\ RecountDone(onboarding[r], SS(a)).completed_on <= now
      BY <1>4, RecountsTyped
    <2>2. /\ Rec(a) \in OnboardingRow
          /\ Rec(a).started_on <= now /\ Rec(a).completed_on <= now
      BY <1>2, <1>3, <2>1, RecomputeTyped DEF Null
    <2> QED
      BY <2>2, <1>4
  <1> HIDE DEF SS, New
  <1> QED
    BY <1>1, <1>5, <1>6, <1>7, WriteTyped

LEMMA ReopenTyped ==
    ASSUME TypeOK, NEW r \in Record, NEW k \in Key, ReopenStep(r, k)
    PROVE  TypeOK'
  <1> DEFINE SS     == [steps[r] EXCEPT ![k] =
                            [status |-> "pending", completed_on |-> Null]]
             New(a) == RecomputeCompletion(RecountDone(onboarding[r], SS), a.complete)
  <1>1. PICK a \in Readings(r) :
            /\ steps' = [steps EXCEPT ![r] = SS]
            /\ onboarding' = [onboarding EXCEPT ![r] = New(a)]
            /\ now' = now
    BY DEF ReopenStep, TypeOK
  <1>2. a.complete \in Time /\ a.complete <= now
    BY DEF Readings, Fresh
  <1>3. now \in Nat /\ 0 <= now /\ MaxTime \in Nat \ {0}
    BY MaxTimeAssumption DEF TypeOK, Time
  <1>4. /\ onboarding[r] \in OnboardingRow
        /\ onboarding[r].started_on <= now /\ onboarding[r].completed_on <= now
    BY DEF TypeOK, Passed
  <1>5. SS \in [Key -> StepRow]
    BY <1>2, StepsTyped DEF TypeOK
  <1>6. \A j \in Key : SS[j].completed_on <= now
    BY <1>3 DEF TypeOK, Passed, Null
  <1>7. /\ New(a) \in OnboardingRow
        /\ New(a).started_on <= now /\ New(a).completed_on <= now
    <2> HIDE DEF SS
    <2> QED
      BY <1>2, <1>3, <1>4, RecountsTyped, RecomputeTyped DEF Null
  <1> HIDE DEF SS, New
  <1> QED
    BY <1>1, <1>5, <1>6, <1>7, WriteTyped

(* The clock runs ahead of every time that has been written.              *)
LEMMA TickTyped ==
    ASSUME TypeOK, Tick
    PROVE  TypeOK'
  <1>1. now' \in Time /\ now <= now' /\ now \in Nat /\ now' \in Nat
    BY MaxTimeAssumption DEF Tick, TypeOK, Time
  <1>2. \A r \in Record : \A t \in Passed(r) : t \in Nat /\ t <= now
    BY MaxTimeAssumption DEF TypeOK, Passed, OnboardingRow, StepRow, NoStep, Timestamp, Time, Null
  <1>3. \A r \in Record : Passed(r)' = Passed(r)
    BY DEF Tick, Passed
  <1>4. \A r \in Record : \A t \in Passed(r)' : t <= now'
    BY <1>1, <1>2, <1>3
  <1> QED
    BY <1>1, <1>4 DEF Tick, TypeOK

(* No record and no step yet, and the clock at its first value.            *)
LEMMA InitTyped == Init => TypeOK
  <1> SUFFICES ASSUME Init PROVE TypeOK
    OBVIOUS
  <1>1. NoOnboarding \in OnboardingRow
    BY NewRowTyped DEF NoOnboarding, Timestamp
  <1>2. NoOnboarding.started_on = 0 /\ NoOnboarding.completed_on = 0
    BY DEF NoOnboarding, NewOnboarding, Null
  <1>3. NoStep \in StepRow /\ NoStep.completed_on = 0
    BY DEF NoStep, StepRow, Null
  <1>4. 1 \in Time
    BY MaxTimeAssumption DEF Time
  <1> QED
    BY <1>1, <1>2, <1>3, <1>4 DEF Init, TypeOK, Passed

(* Every step of a helper or of the clock keeps the rows typed.            *)
LEMMA StepTyped == TypeOK /\ [Next]_vars => TypeOK'
  <1> SUFFICES ASSUME TypeOK, [Next]_vars PROVE TypeOK'
    OBVIOUS
  <1>1. ASSUME NEW r \in Record, GetOrCreate(r) PROVE TypeOK'
    BY <1>1, GetOrCreateTyped
  <1>2. ASSUME NEW r \in Record, NEW k \in Key, NEW s \in Status, AddStep(r, k, s)
        PROVE  TypeOK'
    BY <1>2, AddStepTyped
  <1>3. ASSUME NEW r \in Record, NEW k \in Key,
               CompleteStep(r, k) \/ MarkNotApplicable(r, k)
        PROVE  TypeOK'
    BY <1>3, TransitionTyped DEF CompleteStep, MarkNotApplicable, DoneStatus
  <1>4. ASSUME NEW r \in Record, NEW k \in Key, ReopenStep(r, k) PROVE TypeOK'
    BY <1>4, ReopenTyped
  <1>5. CASE Tick
    BY <1>5, TickTyped
  <1>6. CASE UNCHANGED vars
    BY <1>6 DEF vars, TypeOK, Passed
  <1> QED
    BY <1>1, <1>2, <1>3, <1>4, <1>5, <1>6 DEF Next

(* Every reachable state is typed: counters stay within the number of keys *)
(* and no helper writes a time ahead of the clock.                         *)
THEOREM TypeCorrect == Spec => []TypeOK
  BY InitTyped, StepTyped, PTL DEF Spec

-----------------------------------------------------------------------------
(* Counters and completion.  Neither is inductive alone: the completion    *)
(* time is right because it is computed from counters that are.            *)
Counted(row, ss) ==
    row.total_steps = CountTotal(ss) /\ row.completed_steps = CountDone(ss)
CompletedRight(row, ss) ==
    row.completed_on # Null <=> Present(ss) # {} /\ Done(ss) = Present(ss)

CountersAndCompletion == CountersMatchSteps /\ CompletionMatchesSteps

(* recompute_completion on a row whose counters are right.                 *)
LEMMA RecomputeRight ==
    ASSUME NEW row \in OnboardingRow, NEW ss \in [Key -> StepRow], NEW t \in Time,
           Counted(row, ss)
    PROVE  /\ Counted(RecomputeCompletion(row, t), ss)
           /\ CompletedRight(RecomputeCompletion(row, t), ss)
  <1>1. Counted(RecomputeCompletion(row, t), ss)
    BY RecomputeTyped DEF Counted
  <1>2. AllStepsDone(row) <=> Present(ss) # {} /\ Done(ss) = Present(ss)
    BY CountersMeet DEF AllStepsDone, Counted
  <1> QED
    BY <1>1, <1>2, RecomputeStamps DEF CompletedRight

(* A record whose row and steps are written together and agree.            *)
LEMMA WriteRight ==
    ASSUME TypeOK, CountersAndCompletion, NEW r \in Record, NEW row, NEW ss,
           Counted(row, ss), CompletedRight(row, ss),
           steps' = [steps EXCEPT ![r] = ss],
           onboarding' = [onboarding EXCEPT ![r] = row]
    PROVE  CountersAndCompletion'
  BY DEF TypeOK, CountersAndCompletion, CountersMatchSteps,
         CompletionMatchesSteps, Counted, CompletedRight

(* A record without a row has no steps, so a fresh row counts them right.  *)
LEMMA EmptyRow ==
    ASSUME NEW t, NEW ss, Present(ss) = {}
    PROVE  Counted(NewOnboarding(t), ss) /\ CompletedRight(NewOnboarding(t), ss)
  <1>1. Done(ss) = {}
    BY DEF Done, Present, DoneStatus
  <1> QED
    BY <1>1, FS_EmptySet
       DEF NewOnboarding, Counted, CompletedRight, CountTotal, CountDone, Null

(* Only a record that has a row has steps.                                 *)
StepsHaveParent ==
    \A r \in Record : ~Exists(r) => Present(steps[r]) = {}

CountersInv == TypeOK /\ StepsHaveParent /\ CountersAndCompletion

LEMMA GetOrCreateRight ==
    ASSUME CountersInv, NEW r \in Record, GetOrCreate(r)
    PROVE  CountersAndCompletion'
  <1>1. PICK t \in Fresh(r) :
            /\ ~Exists(r)
            /\ onboarding' = [onboarding EXCEPT ![r] = NewOnboarding(t)]
            /\ steps' = steps
    BY DEF GetOrCreate
  <1>2. Counted(NewOnboarding(t), steps[r]) /\ CompletedRight(NewOnboarding(t), steps[r])
    BY <1>1, EmptyRow DEF CountersInv, StepsHaveParent
  <1>3. steps' = [steps EXCEPT ![r] = steps[r]]
    BY <1>1 DEF CountersInv, TypeOK
  <1> QED
    BY <1>1, <1>2, <1>3, WriteRight DEF CountersInv

LEMMA AddStepRight ==
    ASSUME CountersInv, NEW r \in Record, NEW k \in Key, NEW s \in Status,
           AddStep(r, k, s)
    PROVE  CountersAndCompletion'
  <1> DEFINE Row(a) == IF Exists(r) THEN onboarding[r] ELSE NewOnboarding(a.create)
             SS(a)  == [steps[r] EXCEPT ![k] = StepBorn(s, a.stamp)]
             Cnt(a) == RecountAfterAdd(Row(a), SS(a), s)
  <1>1. PICK a \in Readings(r) :
            /\ steps[r][k].status = "absent"
            /\ steps' = [steps EXCEPT ![r] = SS(a)]
            /\ onboarding' = [onboarding EXCEPT ![r] =
                                  RecomputeCompletion(Cnt(a), a.complete)]
    BY DEF AddStep
  <1>2. a.create \in Time /\ a.stamp \in Time /\ a.complete \in Time
    BY DEF Readings, Fresh
  <1>3. Row(a) \in OnboardingRow /\ Row(a).completed_steps = CountDone(steps[r])
    <2>1. CASE Exists(r)
      BY <2>1 DEF CountersInv, TypeOK, CountersAndCompletion, CountersMatchSteps
    <2>2. CASE ~Exists(r)
      <3>1. Counted(NewOnboarding(a.create), steps[r])
        BY <2>2, EmptyRow DEF CountersInv, StepsHaveParent
      <3>2. NewOnboarding(a.create) \in OnboardingRow
        BY <1>2, NewRowTyped DEF Timestamp
      <3> QED
        BY <2>2, <3>1, <3>2 DEF Counted
    <2> QED
      BY <2>1, <2>2
  <1>4. SS(a) \in [Key -> StepRow]
    BY <1>2, StepsTyped DEF CountersInv, TypeOK
  <1>5. s \notin DoneStatus => Done(SS(a)) = Done(steps[r])
    <2>1. steps[r] \in [Key -> StepRow]
      BY DEF CountersInv, TypeOK
    <2> QED
      BY <1>1, <2>1 DEF Done, DoneStatus, StepBorn
  <1>6. Counted(Cnt(a), SS(a)) /\ Cnt(a) \in OnboardingRow
    <2> HIDE DEF Row, SS
    <2>1. Cnt(a) \in OnboardingRow
      BY <1>3, RecountsTyped
    <2>2. Cnt(a).total_steps = CountTotal(SS(a))
      BY <1>3 DEF RecountAfterAdd, OnboardingRow
    <2>3. Cnt(a).completed_steps = CountDone(SS(a))
      <3>1. CASE s \in DoneStatus
        BY <1>3, <3>1 DEF RecountAfterAdd, OnboardingRow
      <3>2. CASE s \notin DoneStatus
        <4>1. Cnt(a).completed_steps = Row(a).completed_steps
          BY <1>3, <3>2 DEF RecountAfterAdd, OnboardingRow
        <4>2. CountDone(SS(a)) = CountDone(steps[r])
          BY <1>5, <3>2 DEF CountDone
        <4> QED
          BY <4>1, <4>2, <1>3
      <3> QED
        BY <3>1, <3>2
    <2> QED
      BY <2>1, <2>2, <2>3 DEF Counted
  <1> HIDE DEF Row, SS, Cnt
  <1>7. /\ Counted(RecomputeCompletion(Cnt(a), a.complete), SS(a))
        /\ CompletedRight(RecomputeCompletion(Cnt(a), a.complete), SS(a))
    BY <1>2, <1>4, <1>6, RecomputeRight
  <1> QED
    BY <1>1, <1>7, WriteRight DEF CountersInv

(* A helper that rewrites an existing step keeps the set of steps, and so  *)
(* the total; recounting the done ones is enough.                          *)
LEMMA RecountRight ==
    ASSUME CountersInv, NEW r \in Record, NEW ss \in [Key -> StepRow], NEW t \in Time,
           Present(ss) = Present(steps[r])
    PROVE  /\ Counted(RecomputeCompletion(RecountDone(onboarding[r], ss), t), ss)
           /\ CompletedRight(RecomputeCompletion(RecountDone(onboarding[r], ss), t), ss)
  <1>1. onboarding[r] \in OnboardingRow
    BY DEF CountersInv, TypeOK
  <1>2. RecountDone(onboarding[r], ss) \in OnboardingRow
    BY <1>1, RecountsTyped
  <1>3. onboarding[r].total_steps = CountTotal(ss)
    BY DEF CountersInv, CountersAndCompletion, CountersMatchSteps, CountTotal
  <1>4. Counted(RecountDone(onboarding[r], ss), ss)
    BY <1>1, <1>3 DEF RecountDone, Counted, OnboardingRow
  <1> QED
    BY <1>2, <1>4, RecomputeRight

LEMMA TransitionRight ==
    ASSUME CountersInv, NEW r \in Record, NEW k \in Key, NEW s \in DoneStatus,
           TransitionStep(r, k, s)
    PROVE  CountersAndCompletion'
  <1> DEFINE SS(a)  == [steps[r] EXCEPT ![k] = [status |-> s, completed_on |-> a.stamp]]
             Rec(a) == RecomputeCompletion(RecountDone(onboarding[r], SS(a)), a.complete)
             New(a) == IF steps[r][k].status \in DoneStatus THEN onboarding[r] ELSE Rec(a)
  <1>0. onboarding \in [Record -> OnboardingRow] /\ steps[r] \in [Key -> StepRow]
    BY DEF CountersInv, TypeOK
  <1>1. PICK a \in Readings(r) :
            /\ steps[r][k].status # "absent"
            /\ steps' = [steps EXCEPT ![r] = SS(a)]
            /\ onboarding' = [onboarding EXCEPT ![r] = New(a)]
    BY <1>0 DEF TransitionStep
  <1>2. a.stamp \in Time /\ a.complete \in Time
    BY DEF Readings, Fresh
  <1>3. SS(a) \in [Key -> StepRow]
    BY <1>0, <1>2, StepsTyped
  <1>4. Present(SS(a)) = Present(steps[r])
    BY <1>0, <1>1 DEF Present, DoneStatus
  <1>5. steps[r][k].status \in DoneStatus => Done(SS(a)) = Done(steps[r])
    BY <1>0 DEF Done
  <1>6. Counted(New(a), SS(a)) /\ CompletedRight(New(a), SS(a))
    <2> HIDE DEF SS
    <2>1. CASE steps[r][k].status \in DoneStatus
      <3>1. Counted(onboarding[r], steps[r]) /\ CompletedRight(onboarding[r], steps[r])
        BY DEF CountersInv, CountersAndCompletion, CountersMatchSteps,
               CompletionMatchesSteps, Counted, CompletedRight
      <3> QED
        BY <2>1, <3>1, <1>4, <1>5
           DEF Counted, CompletedRight, CountTotal, CountDone
    <2>2. CASE steps[r][k].status \notin DoneStatus
      BY <2>2, <1>2, <1>3, <1>4, RecountRight
    <2> QED
      BY <2>1, <2>2
  <1> HIDE DEF SS, New
  <1> QED
    BY <1>1, <1>6, WriteRight DEF CountersInv

LEMMA ReopenRight ==
    ASSUME CountersInv, NEW r \in Record, NEW k \in Key, ReopenStep(r, k)
    PROVE  CountersAndCompletion'
  <1> DEFINE SS     == [steps[r] EXCEPT ![k] =
                            [status |-> "pending", completed_on |-> Null]]
             New(a) == RecomputeCompletion(RecountDone(onboarding[r], SS), a.complete)
  <1>0. onboarding \in [Record -> OnboardingRow] /\ steps[r] \in [Key -> StepRow]
    BY DEF CountersInv, TypeOK
  <1>1. PICK a \in Readings(r) :
            /\ steps[r][k].status = "completed"
            /\ steps' = [steps EXCEPT ![r] = SS]
            /\ onboarding' = [onboarding EXCEPT ![r] = New(a)]
    BY <1>0 DEF ReopenStep, CanReopen
  <1>2. a.complete \in Time
    BY DEF Readings, Fresh
  <1>3. SS \in [Key -> StepRow]
    BY <1>0 DEF StepRow, Status, Timestamp
  <1>4. Present(SS) = Present(steps[r])
    BY <1>0, <1>1 DEF Present
  <1> HIDE DEF SS
  <1>5. Counted(New(a), SS) /\ CompletedRight(New(a), SS)
    BY <1>2, <1>3, <1>4, RecountRight
  <1> HIDE DEF New
  <1> QED
    BY <1>1, <1>5, WriteRight DEF CountersInv

-----------------------------------------------------------------------------
(* What a helper leaves alone: the other records, and the other steps of   *)
(* its own record, which exists from then on.                              *)
Leaves(q) == onboarding'[q] = onboarding[q] /\ steps'[q] = steps[q]
WritesStep(r, k) ==
    /\ onboarding'[r].started_on # Null
    /\ \A q \in Record \ {r} : Leaves(q)
    /\ \A j \in Key \ {k} : steps'[r][j] = steps[r][j]

LEMMA CreateEffect ==
    ASSUME TypeOK, NEW r \in Record, GetOrCreate(r)
    PROVE  /\ ~Exists(r) /\ onboarding'[r].started_on # Null
           /\ steps' = steps /\ \A q \in Record \ {r} : Leaves(q)
  BY DEF GetOrCreate, NewOnboarding, Fresh, Time, Null, TypeOK, Leaves

LEMMA AddEffect ==
    ASSUME TypeOK, NEW r \in Record, NEW k \in Key, NEW s \in Status, AddStep(r, k, s)
    PROVE  /\ WritesStep(r, k)
           /\ steps[r][k].status = "absent" /\ steps'[r][k].status = s
  <1> DEFINE Row(a) == IF Exists(r) THEN onboarding[r] ELSE NewOnboarding(a.create)
             SS(a)  == [steps[r] EXCEPT ![k] = StepBorn(s, a.stamp)]
             Cnt(a) == RecountAfterAdd(Row(a), SS(a), s)
  <1>1. PICK a \in Readings(r) :
            /\ steps[r][k].status = "absent"
            /\ steps' = [steps EXCEPT ![r] = SS(a)]
            /\ onboarding' = [onboarding EXCEPT ![r] =
                                  RecomputeCompletion(Cnt(a), a.complete)]
    BY DEF AddStep
  <1>2. a.create \in Time /\ a.complete \in Time
    BY DEF Readings, Fresh
  <1>3. Row(a).started_on # Null /\ Row(a) \in OnboardingRow
    <2>1. NewOnboarding(a.create) \in OnboardingRow
      BY <1>2, NewRowTyped DEF Timestamp
    <2> QED
      BY <1>2, <2>1 DEF NewOnboarding, Exists, Time, Null, TypeOK
  <1>4. /\ SS(a)[k].status = s
        /\ \A j \in Key \ {k} : SS(a)[j] = steps[r][j]
    BY DEF StepBorn, TypeOK
  <1> HIDE DEF Row, SS
  <1>5. Cnt(a) \in OnboardingRow /\ Cnt(a).started_on = Row(a).started_on
    BY <1>3, RecountsTyped
  <1> HIDE DEF Cnt
  <1>6. RecomputeCompletion(Cnt(a), a.complete).started_on = Cnt(a).started_on
    BY <1>2, <1>5, RecomputeTyped
  <1> QED
    BY <1>1, <1>3, <1>4, <1>5, <1>6 DEF TypeOK, WritesStep, Leaves

LEMMA TransitionEffect ==
    ASSUME TypeOK, NEW r \in Record, NEW k \in Key, NEW s \in DoneStatus,
           TransitionStep(r, k, s)
    PROVE  /\ WritesStep(r, k) /\ Exists(r)
           /\ steps[r][k].status # "absent" /\ steps'[r][k].status = s
  <1> DEFINE SS(a)  == [steps[r] EXCEPT ![k] = [status |-> s, completed_on |-> a.stamp]]
             Rec(a) == RecomputeCompletion(RecountDone(onboarding[r], SS(a)), a.complete)
  <1>1. PICK a \in Readings(r) :
            /\ Exists(r) /\ steps[r][k].status # "absent"
            /\ steps' = [steps EXCEPT ![r] = SS(a)]
            /\ \/ onboarding' = [onboarding EXCEPT ![r] = onboarding[r]]
               \/ onboarding' = [onboarding EXCEPT ![r] = Rec(a)]
    BY DEF TransitionStep, TypeOK
  <1>2. a.complete \in Time /\ onboarding[r] \in OnboardingRow
    BY DEF Readings, Fresh, TypeOK
  <1>3. /\ SS(a)[k].status = s
        /\ \A j \in Key \ {k} : SS(a)[j] = steps[r][j]
    BY DEF TypeOK
  <1> HIDE DEF SS
  <1>4. Rec(a).started_on = onboarding[r].started_on
    <2>1. /\ RecountDone(onboarding[r], SS(a)) \in OnboardingRow
          /\ RecountDone(onboarding[r], SS(a)).started_on = onboarding[r].started_on
      BY <1>2, RecountsTyped
    <2> QED
      BY <1>2, <2>1, RecomputeTyped
  <1> HIDE DEF Rec
  <1> QED
    BY <1>1, <1>3, <1>4 DEF TypeOK, Exists, WritesStep, Leaves

LEMMA ReopenEffect ==
    ASSUME TypeOK, NEW r \in Record, NEW k \in Key, ReopenStep(r, k)
    PROVE  /\ WritesStep(r, k) /\ Exists(r)
           /\ steps[r][k].status = "completed" /\ steps'[r][k].status = "pending"
  <1> DEFINE SS     == [steps[r] EXCEPT ![k] =
                            [status |-> "pending", completed_on |-> Null]]
             Rec(a) == RecomputeCompletion(RecountDone(onboarding[r], SS), a.complete)
  <1>1. PICK a \in Readings(r) :
            /\ Exists(r) /\ steps[r][k].status = "completed"
            /\ steps' = [steps EXCEPT ![r] = SS]
            /\ onboarding' = [onboarding EXCEPT ![r] = Rec(a)]
    BY DEF ReopenStep, CanReopen, TypeOK
  <1>2. a.complete \in Time /\ onboarding[r] \in OnboardingRow
    BY DEF Readings, Fresh, TypeOK
  <1>3. /\ SS[k].status = "pending"
        /\ \A j \in Key \ {k} : SS[j] = steps[r][j]
    BY DEF TypeOK
  <1> HIDE DEF SS
  <1>4. Rec(a).started_on = onboarding[r].started_on
    <2>1. /\ RecountDone(onboarding[r], SS) \in OnboardingRow
          /\ RecountDone(onboarding[r], SS).started_on = onboarding[r].started_on
      BY <1>2, RecountsTyped
    <2> QED
      BY <1>2, <2>1, RecomputeTyped
  <1> HIDE DEF Rec
  <1> QED
    BY <1>1, <1>3, <1>4 DEF TypeOK, Exists, WritesStep, Leaves

(* A record once created stays, and so does each of its steps.             *)
LEMMA RowsStay ==
    ASSUME TypeOK, [Next]_vars, NEW q \in Record
    PROVE  /\ Exists(q) => onboarding'[q].started_on # Null
           /\ \A j \in Key :
                 steps[q][j].status # "absent" => steps'[q][j].status # "absent"
  <1> DEFINE Stay == /\ Exists(q) => onboarding'[q].started_on # Null
                     /\ \A j \in Key :
                           steps[q][j].status # "absent" => steps'[q][j].status # "absent"
  <1>1. ASSUME NEW r \in Record, GetOrCreate(r) PROVE Stay
    BY <1>1, CreateEffect DEF Leaves, Exists
  <1>2. ASSUME NEW r \in Record, NEW k \in Key, WritesStep(r, k),
               steps'[r][k].status # "absent"
        PROVE  Stay
    BY <1>2 DEF WritesStep, Leaves, Exists
  <1>3. ASSUME NEW r \in Record, NEW k \in Key, NEW s \in Status, AddStep(r, k, s)
        PROVE  Stay
    BY <1>2, <1>3, AddEffect DEF Status, DoneStatus
  <1>4. ASSUME NEW r \in Record, NEW k \in Key, NEW s \in DoneStatus,
               TransitionStep(r, k, s)
        PROVE  Stay
    BY <1>2, <1>4, TransitionEffect DEF DoneStatus
  <1>5. ASSUME NEW r \in Record, NEW k \in Key, ReopenStep(r, k) PROVE Stay
    BY <1>2, <1>5, ReopenEffect
  <1>6. CASE UNCHANGED <<onboarding, steps>>
    BY <1>6 DEF Exists
  <1> QED
    BY <1>1, <1>3, <1>4, <1>5, <1>6
       DEF Next, vars, Tick, CompleteStep, MarkNotApplicable, DoneStatus

-----------------------------------------------------------------------------
(* The row a helper writes has been started, so its steps have a parent.   *)
LEMMA ParentKept ==
    ASSUME TypeOK, StepsHaveParent, [Next]_vars
    PROVE  StepsHaveParent'
  <1>1. ASSUME NEW r \in Record, onboarding'[r].started_on # Null,
               \A q \in Record \ {r} : Leaves(q)
        PROVE  StepsHaveParent'
    <2> SUFFICES ASSUME NEW q \in Record, ~Exists(q)'
                 PROVE  Present(steps'[q]) = {}
      BY DEF StepsHaveParent
    <2>1. q # r
      BY <1>1 DEF Exists
    <2> QED
      BY <2>1, <1>1 DEF StepsHaveParent, Exists, Leaves
  <1>2. ASSUME UNCHANGED <<onboarding, steps>>
        PROVE  StepsHaveParent'
    BY <1>2 DEF StepsHaveParent, Exists, Present
  <1>3. ASSUME NEW r \in Record, GetOrCreate(r) PROVE StepsHaveParent'
    BY <1>1, <1>3, CreateEffect
  <1>4. ASSUME NEW r \in Record, NEW k \in Key, NEW s \in Status, AddStep(r, k, s)
        PROVE  StepsHaveParent'
    BY <1>1, <1>4, AddEffect DEF WritesStep
  <1>5. ASSUME NEW r \in Record, NEW k \in Key, NEW s \in DoneStatus,
               TransitionStep(r, k, s)
        PROVE  StepsHaveParent'
    BY <1>1, <1>5, TransitionEffect DEF WritesStep
  <1>6. ASSUME NEW r \in Record, NEW k \in Key, ReopenStep(r, k)
        PROVE  StepsHaveParent'
    BY <1>1, <1>6, ReopenEffect DEF WritesStep
  <1> QED
    BY <1>2, <1>3, <1>4, <1>5, <1>6
       DEF Next, vars, Tick, CompleteStep, MarkNotApplicable, DoneStatus

(* What is inductive: types, parents, counters and completion together.    *)
LEMMA CountersInductive == Spec => []CountersInv
  <1>1. Init => StepsHaveParent /\ CountersAndCompletion
    <2> SUFFICES ASSUME Init, NEW r \in Record
                 PROVE  /\ Present(steps[r]) = {}
                        /\ Counted(onboarding[r], steps[r])
                        /\ CompletedRight(onboarding[r], steps[r])
      BY DEF StepsHaveParent, CountersAndCompletion, CountersMatchSteps,
             CompletionMatchesSteps, Counted, CompletedRight
    <2>1. Present(steps[r]) = {} /\ onboarding[r] = NewOnboarding(Null)
      BY DEF Init, Present, NoStep, NoOnboarding
    <2> QED
      BY <2>1, EmptyRow
  <1>2. TypeOK /\ StepsHaveParent /\ CountersAndCompletion /\ [Next]_vars
            => StepsHaveParent' /\ CountersAndCompletion'
    <2> SUFFICES ASSUME TypeOK, StepsHaveParent, CountersAndCompletion, [Next]_vars
                 PROVE  CountersAndCompletion'
      BY ParentKept
    <2> USE DEF CountersInv
    <2>1. ASSUME NEW r \in Record, GetOrCreate(r) PROVE CountersAndCompletion'
      BY <2>1, GetOrCreateRight
    <2>2. ASSUME NEW r \in Record, NEW k \in Key, NEW s \in Status, AddStep(r, k, s)
          PROVE  CountersAndCompletion'
      BY <2>2, AddStepRight
    <2>3. ASSUME NEW r \in Record, NEW k \in Key,
                 CompleteStep(r, k) \/ MarkNotApplicable(r, k)
          PROVE  CountersAndCompletion'
      BY <2>3, TransitionRight DEF CompleteStep, MarkNotApplicable, DoneStatus
    <2>4. ASSUME NEW r \in Record, NEW k \in Key, ReopenStep(r, k)
          PROVE  CountersAndCompletion'
      BY <2>4, ReopenRight
    <2>5. CASE UNCHANGED <<onboarding, steps>>
      BY <2>5 DEF CountersAndCompletion, CountersMatchSteps, CompletionMatchesSteps
    <2> QED
      BY <2>1, <2>2, <2>3, <2>4, <2>5 DEF Next, Tick, vars
  <1> QED
    BY <1>1, <1>2, TypeCorrect, PTL DEF Spec, CountersInv

(* The stored counters are always the numbers of step rows and of done     *)
(* step rows (api.py, module docstring).                                   *)
THEOREM CountersCorrect == Spec => []CountersMatchSteps
  <1>1. CountersInv => CountersMatchSteps
    BY DEF CountersInv, CountersAndCompletion
  <1> QED
    BY <1>1, CountersInductive, PTL

(* A record has a completion time exactly when it has steps and all are    *)
(* done, so the comparison of two counters in recompute_completion, which  *)
(* never looks at a step, decides the right thing.                         *)
THEOREM CompletionCorrect == Spec => []CompletionMatchesSteps
  <1>1. CountersInv => CompletionMatchesSteps
    BY DEF CountersInv, CountersAndCompletion
  <1> QED
    BY <1>1, CountersInductive, PTL

(* A step has a completion time exactly when it is done, so a view that    *)
(* reads the time without the status (timeline, stalled) is not misled.    *)
THEOREM StepTimesCorrect == Spec => []StepTimesMatchStatus
  <1> DEFINE Right(step) == step.completed_on # Null <=> step.status \in DoneStatus
  <1>1. /\ \A s \in Status, t \in Time : Right(StepBorn(s, t))
        /\ \A s \in DoneStatus, t \in Time : Right([status |-> s, completed_on |-> t])
        /\ Right([status |-> "pending", completed_on |-> Null])
        /\ Right(NoStep)
    BY DEF StepBorn, NoStep, DoneStatus, Time, Null
  <1>2. StepTimesMatchStatus <=> \A r \in Record, k \in Key : Right(steps[r][k])
    BY DEF StepTimesMatchStatus
  <1>3. Init => StepTimesMatchStatus
    BY <1>1, <1>2 DEF Init
  <1>4. TypeOK /\ StepTimesMatchStatus /\ [Next]_vars => StepTimesMatchStatus'
    <2> SUFFICES ASSUME TypeOK, StepTimesMatchStatus, [Next]_vars
                 PROVE  StepTimesMatchStatus'
      OBVIOUS
    <2>1. ASSUME NEW r \in Record, NEW k \in Key, NEW step, Right(step),
                 steps' = [steps EXCEPT ![r] = [steps[r] EXCEPT ![k] = step]]
          PROVE  StepTimesMatchStatus'
      <3> SUFFICES ASSUME NEW q \in Record, NEW j \in Key
                   PROVE  Right(steps'[q][j])
        BY DEF StepTimesMatchStatus
      <3>1. CASE q = r /\ j = k
        BY <2>1, <3>1 DEF TypeOK
      <3>2. CASE ~(q = r /\ j = k)
        <4>1. steps'[q][j] = steps[q][j]
          BY <2>1, <3>2 DEF TypeOK
        <4> QED
          BY <4>1, <1>2
      <3> QED
        BY <3>1, <3>2
    <2>2. ASSUME UNCHANGED steps PROVE StepTimesMatchStatus'
      BY <2>2 DEF StepTimesMatchStatus
    <2>3. ASSUME NEW r \in Record, NEW k \in Key, NEW s \in Status, AddStep(r, k, s)
          PROVE  StepTimesMatchStatus'
      <3>1. PICK a \in Readings(r) : steps' = [steps EXCEPT
                ![r] = [steps[r] EXCEPT ![k] = StepBorn(s, a.stamp)]]
        BY <2>3 DEF AddStep
      <3>2. Right(StepBorn(s, a.stamp))
        BY <1>1 DEF Readings, Fresh
      <3> QED
        BY <3>1, <3>2, <2>1
    <2>4. ASSUME NEW r \in Record, NEW k \in Key, NEW s \in DoneStatus,
                 TransitionStep(r, k, s)
          PROVE  StepTimesMatchStatus'
      <3>1. PICK a \in Readings(r) : steps' = [steps EXCEPT
                ![r] = [steps[r] EXCEPT ![k] = [status |-> s, completed_on |-> a.stamp]]]
        BY <2>4 DEF TransitionStep
      <3>2. Right([status |-> s, completed_on |-> a.stamp])
        BY <1>1 DEF Readings, Fresh
      <3> QED
        BY <3>1, <3>2, <2>1
    <2>5. ASSUME NEW r \in Record, NEW k \in Key, ReopenStep(r, k)
          PROVE  StepTimesMatchStatus'
      BY <2>5, <1>1, <2>1 DEF ReopenStep
    <2> QED
      BY <2>2, <2>3, <2>4, <2>5
         DEF Next, vars, GetOrCreate, Tick, CompleteStep, MarkNotApplicable, DoneStatus
  <1> QED
    BY <1>3, <1>4, TypeCorrect, PTL DEF Spec

-----------------------------------------------------------------------------
(* Single steps.                                                           *)

(* While a record stays complete, no step of any helper moves the time it  *)
(* was completed: duplicate events do not rewrite the student's history.   *)
THEOREM CompletionTimeNeverMoves == Spec => CompletionTimeStable
  <1> DEFINE Stable(q) ==
                 onboarding[q].completed_on # Null /\ onboarding'[q].completed_on # Null
                     => onboarding'[q].completed_on = onboarding[q].completed_on
  <1>1. CountersInv /\ [Next]_vars => \A q \in Record : Stable(q)
    <2> SUFFICES ASSUME CountersInv, [Next]_vars, NEW q \in Record
                 PROVE  Stable(q)
      OBVIOUS
    <2>0. onboarding \in [Record -> OnboardingRow]
      BY DEF CountersInv, TypeOK
    <2>1. ASSUME NEW row \in OnboardingRow, NEW t \in Time, NEW r \in Record,
                 row.completed_on = onboarding[r].completed_on,
                 onboarding' = [onboarding EXCEPT ![r] = RecomputeCompletion(row, t)]
          PROVE  Stable(q)
      <3>1. \/ RecomputeCompletion(row, t).completed_on = Null
            \/ row.completed_on = Null
            \/ RecomputeCompletion(row, t).completed_on = row.completed_on
        BY DEF RecomputeCompletion, OnboardingRow
      <3> QED
        BY <2>0, <2>1, <3>1
    <2>2. ASSUME UNCHANGED onboarding PROVE Stable(q)
      BY <2>2
    <2>3. ASSUME NEW r \in Record, onboarding[r].completed_on = Null,
                 \A p \in Record : p # r => onboarding'[p] = onboarding[p]
          PROVE  Stable(q)
      BY <2>3
    <2>4. ASSUME NEW r \in Record, ~Exists(r)
          PROVE  onboarding[r].completed_on = Null
      BY <2>4 DEF CountersInv, StepsHaveParent, CountersAndCompletion,
                  CompletionMatchesSteps
    <2>5. ASSUME NEW r \in Record, GetOrCreate(r) PROVE Stable(q)
      BY <2>0, <2>3, <2>4, <2>5 DEF GetOrCreate
    <2>6. ASSUME NEW r \in Record, NEW k \in Key, NEW s \in Status, AddStep(r, k, s)
          PROVE  Stable(q)
      <3> DEFINE Row(a) == IF Exists(r) THEN onboarding[r] ELSE NewOnboarding(a.create)
                 SS(a)  == [steps[r] EXCEPT ![k] = StepBorn(s, a.stamp)]
                 Cnt(a) == RecountAfterAdd(Row(a), SS(a), s)
      <3>1. PICK a \in Readings(r) :
                onboarding' = [onboarding EXCEPT ![r] =
                                   RecomputeCompletion(Cnt(a), a.complete)]
        BY <2>6 DEF AddStep
      <3> HIDE DEF SS
      <3>2. CASE Exists(r)
        <4>1. Row(a) = onboarding[r] /\ Row(a) \in OnboardingRow /\ a.complete \in Time
          BY <2>0, <3>2 DEF Readings, Fresh
        <4> HIDE DEF Row
        <4>2. /\ Cnt(a) \in OnboardingRow
              /\ Cnt(a).completed_on = onboarding[r].completed_on
          BY <4>1, RecountsTyped
        <4> HIDE DEF Cnt
        <4> QED
          BY <3>1, <4>1, <4>2, <2>1
      <3>3. CASE ~Exists(r)
        <4> HIDE DEF Cnt
        <4> QED
          BY <2>0, <2>3, <2>4, <3>1, <3>3
      <3> QED
        BY <3>2, <3>3
    <2>7. ASSUME NEW r \in Record, NEW ss, NEW t \in Time,
                 onboarding' = [onboarding EXCEPT ![r] =
                     RecomputeCompletion(RecountDone(onboarding[r], ss), t)]
          PROVE  Stable(q)
      <3>1. /\ RecountDone(onboarding[r], ss) \in OnboardingRow
            /\ RecountDone(onboarding[r], ss).completed_on = onboarding[r].completed_on
        BY <2>0, RecountsTyped
      <3> QED
        BY <2>7, <3>1, <2>1
    <2>8. ASSUME NEW r \in Record, NEW k \in Key, NEW s \in DoneStatus,
                 TransitionStep(r, k, s)
          PROVE  Stable(q)
      <3> DEFINE SS(a) == [steps[r] EXCEPT ![k] = [status |-> s, completed_on |-> a.stamp]]
      <3>1. PICK a \in Readings(r) :
                \/ UNCHANGED onboarding
                \/ onboarding' = [onboarding EXCEPT ![r] =
                       RecomputeCompletion(RecountDone(onboarding[r], SS(a)), a.complete)]
        BY <2>0, <2>8 DEF TransitionStep
      <3>2. a.complete \in Time
        BY DEF Readings, Fresh
      <3> HIDE DEF SS
      <3> QED
        BY <3>1, <3>2, <2>2, <2>7
    <2>9. ASSUME NEW r \in Record, NEW k \in Key, ReopenStep(r, k) PROVE Stable(q)
      <3> DEFINE SS == [steps[r] EXCEPT ![k] =
                            [status |-> "pending", completed_on |-> Null]]
      <3>1. PICK a \in Readings(r) :
                onboarding' = [onboarding EXCEPT ![r] =
                    RecomputeCompletion(RecountDone(onboarding[r], SS), a.complete)]
        BY <2>0, <2>9 DEF ReopenStep
      <3>2. a.complete \in Time
        BY DEF Readings, Fresh
      <3> HIDE DEF SS
      <3> QED
        BY <3>1, <3>2, <2>7
    <2> QED
      BY <2>2, <2>5, <2>6, <2>8, <2>9
         DEF Next, vars, Tick, CompleteStep, MarkNotApplicable, DoneStatus
  <1>2. CountersInv /\ [Next]_vars =>
            [\A r \in Record :
                onboarding[r].completed_on # Null /\ onboarding'[r].completed_on # Null
                    => onboarding'[r].completed_on = onboarding[r].completed_on]_vars
    BY <1>1
  <1> QED
    BY <1>2, CountersInductive, PTL DEF Spec, CompletionTimeStable
-----------------------------------------------------------------------------
(* A checklist has the times of its steps in order: nothing happens on it  *)
(* before it is started.                                                   *)
StartedFirst(r) ==
    /\ \A k \in Key : steps[r][k].completed_on # Null =>
           Exists(r) /\ onboarding[r].started_on <= steps[r][k].completed_on
    /\ onboarding[r].completed_on # Null => Exists(r)

(* The times of a checklist: a helper starts its record if it has not been *)
(* started, and stamps nothing with a time before that.                    *)
OnTime(r) ==
    /\ \A q \in Record \ {r} : Leaves(q)
    /\ onboarding'[r].started_on # Null
    /\ Exists(r) => onboarding'[r].started_on = onboarding[r].started_on
    /\ \A k \in Key :
          \/ steps'[r][k].completed_on \in {Null, steps[r][k].completed_on}
          \/ onboarding'[r].started_on <= steps'[r][k].completed_on

LEMMA CreateOnTime ==
    ASSUME TypeOK, NEW r \in Record, GetOrCreate(r)
    PROVE  OnTime(r)
  BY CreateEffect DEF OnTime

LEMMA AddOnTime ==
    ASSUME TypeOK, NEW r \in Record, NEW k \in Key, NEW s \in Status, AddStep(r, k, s)
    PROVE  OnTime(r)
  <1> DEFINE Row(a) == IF Exists(r) THEN onboarding[r] ELSE NewOnboarding(a.create)
             SS(a)  == [steps[r] EXCEPT ![k] = StepBorn(s, a.stamp)]
             Cnt(a) == RecountAfterAdd(Row(a), SS(a), s)
  <1>1. PICK a \in Readings(r) :
            /\ steps' = [steps EXCEPT ![r] = SS(a)]
            /\ onboarding' = [onboarding EXCEPT ![r] =
                                  RecomputeCompletion(Cnt(a), a.complete)]
    BY DEF AddStep
  <1>2. /\ a.create \in Time /\ a.complete \in Time /\ a.stamp \in Time
        /\ a.create <= a.stamp /\ onboarding[r].started_on <= a.stamp
    BY DEF Readings, Fresh, Passed
  <1>3. /\ Row(a).started_on # Null /\ Row(a) \in OnboardingRow
        /\ Row(a).started_on <= a.stamp
        /\ Exists(r) => Row(a).started_on = onboarding[r].started_on
    <2>1. NewOnboarding(a.create) \in OnboardingRow
      BY <1>2, NewRowTyped DEF Timestamp
    <2> QED
      BY <1>2, <2>1 DEF NewOnboarding, Exists, Time, Null, TypeOK
  <1>4. /\ SS(a)[k].completed_on \in {Null, a.stamp}
        /\ \A j \in Key \ {k} : SS(a)[j] = steps[r][j]
    BY DEF StepBorn, TypeOK
  <1> HIDE DEF Row, SS
  <1>5. Cnt(a) \in OnboardingRow /\ Cnt(a).started_on = Row(a).started_on
    BY <1>3, RecountsTyped
  <1> HIDE DEF Cnt
  <1>6. RecomputeCompletion(Cnt(a), a.complete).started_on = Cnt(a).started_on
    BY <1>2, <1>5, RecomputeTyped
  <1>7. /\ onboarding'[r].started_on = Row(a).started_on /\ steps'[r] = SS(a)
        /\ \A q \in Record \ {r} : Leaves(q)
    BY <1>1, <1>5, <1>6 DEF TypeOK, Leaves
  <1> QED
    BY <1>3, <1>4, <1>7 DEF OnTime

LEMMA TransitionOnTime ==
    ASSUME TypeOK, NEW r \in Record, NEW k \in Key, NEW s \in DoneStatus,
           TransitionStep(r, k, s)
    PROVE  OnTime(r)
  <1> DEFINE SS(a)  == [steps[r] EXCEPT ![k] = [status |-> s, completed_on |-> a.stamp]]
             Rec(a) == RecomputeCompletion(RecountDone(onboarding[r], SS(a)), a.complete)
  <1>1. PICK a \in Readings(r) :
            /\ Exists(r)
            /\ steps' = [steps EXCEPT ![r] = SS(a)]
            /\ \/ onboarding' = [onboarding EXCEPT ![r] = onboarding[r]]
               \/ onboarding' = [onboarding EXCEPT ![r] = Rec(a)]
    BY DEF TransitionStep, TypeOK
  <1>2. /\ a.complete \in Time /\ onboarding[r] \in OnboardingRow
        /\ onboarding[r].started_on <= a.stamp
    BY DEF Readings, Fresh, Passed, TypeOK
  <1>3. /\ SS(a)[k].completed_on = a.stamp
        /\ \A j \in Key \ {k} : SS(a)[j] = steps[r][j]
    BY DEF TypeOK
  <1> HIDE DEF SS
  <1>4. Rec(a).started_on = onboarding[r].started_on
    <2>1. /\ RecountDone(onboarding[r], SS(a)) \in OnboardingRow
          /\ RecountDone(onboarding[r], SS(a)).started_on = onboarding[r].started_on
      BY <1>2, RecountsTyped
    <2> QED
      BY <1>2, <2>1, RecomputeTyped
  <1> HIDE DEF Rec
  <1>5. /\ onboarding'[r].started_on = onboarding[r].started_on /\ steps'[r] = SS(a)
        /\ \A q \in Record \ {r} : Leaves(q)
    BY <1>1, <1>4 DEF TypeOK, Leaves
  <1> QED
    BY <1>1, <1>2, <1>3, <1>5 DEF OnTime, Exists

LEMMA ReopenOnTime ==
    ASSUME TypeOK, NEW r \in Record, NEW k \in Key, ReopenStep(r, k)
    PROVE  OnTime(r)
  <1> DEFINE SS     == [steps[r] EXCEPT ![k] =
                            [status |-> "pending", completed_on |-> Null]]
             Rec(a) == RecomputeCompletion(RecountDone(onboarding[r], SS), a.complete)
  <1>1. PICK a \in Readings(r) :
            /\ Exists(r)
            /\ steps' = [steps EXCEPT ![r] = SS]
            /\ onboarding' = [onboarding EXCEPT ![r] = Rec(a)]
    BY DEF ReopenStep, TypeOK
  <1>2. a.complete \in Time /\ onboarding[r] \in OnboardingRow
    BY DEF Readings, Fresh, TypeOK
  <1>3. /\ SS[k].completed_on = Null
        /\ \A j \in Key \ {k} : SS[j] = steps[r][j]
    BY DEF TypeOK
  <1> HIDE DEF SS
  <1>4. Rec(a).started_on = onboarding[r].started_on
    <2>1. /\ RecountDone(onboarding[r], SS) \in OnboardingRow
          /\ RecountDone(onboarding[r], SS).started_on = onboarding[r].started_on
      BY <1>2, RecountsTyped
    <2> QED
      BY <1>2, <2>1, RecomputeTyped
  <1> HIDE DEF Rec
  <1>5. /\ onboarding'[r].started_on = onboarding[r].started_on /\ steps'[r] = SS
        /\ \A q \in Record \ {r} : Leaves(q)
    BY <1>1, <1>4 DEF TypeOK, Leaves
  <1> QED
    BY <1>1, <1>3, <1>5 DEF OnTime, Exists

(* So the times stay in order.                                             *)
LEMMA OrderKept ==
    ASSUME TypeOK, TypeOK', NEW r \in Record, OnTime(r), \A q \in Record : StartedFirst(q)
    PROVE  \A q \in Record : StartedFirst(q)'
  <1>1. ASSUME NEW q \in Record \ {r} PROVE StartedFirst(q)'
    <2>1. StartedFirst(q) /\ Leaves(q)
      BY DEF OnTime
    <2> QED
      BY <2>1 DEF StartedFirst, Leaves, Exists
  <1>2. StartedFirst(r)'
    <2>1. onboarding'[r].started_on # Null
      BY DEF OnTime
    <2>2. ASSUME NEW k \in Key, steps'[r][k].completed_on # Null
          PROVE  onboarding'[r].started_on <= steps'[r][k].completed_on
      <3>1. CASE steps'[r][k].completed_on = steps[r][k].completed_on
        <4>1. Exists(r) /\ onboarding[r].started_on <= steps[r][k].completed_on
          BY <2>2, <3>1 DEF StartedFirst
        <4> QED
          BY <3>1, <4>1 DEF OnTime
      <3> QED
        BY <2>2, <3>1 DEF OnTime
    <2> QED
      BY <2>1, <2>2 DEF StartedFirst, Exists
  <1> QED
    BY <1>1, <1>2
=============================================================================
