------------------------------ MODULE StaffProofs ------------------------------
(***************************************************************************)
(* Theorems about what staff see and start.  First StaffViews, for every   *)
(* set of records, every finite set of keys, every bound on the clock and  *)
(* any number of direct writes; then BatchRecalculate.                     *)
(***************************************************************************)
EXTENDS StaffViews, BatchRecalculate, ChecklistProofs

-----------------------------------------------------------------------------
(* A row that is right about its steps as far as the counters outside u    *)
(* go: RecountRepairs for one record.                                      *)
Repaired(row, ss, u) ==
    /\ "total_steps" \notin u => row.total_steps = CountTotal(ss)
    /\ "completed_steps" \notin u => row.completed_steps = CountDone(ss)
    /\ u = {} => CompletedRight(row, ss)

FormRow ==
    [rec : SUBSET Record, posted : BOOLEAN, row : OnboardingRow, steps : [Key -> StepRow]]

(* A form is open on one record that exists, and so do the steps it shows; *)
(* the times it holds were loaded from the rows, so they have passed.      *)
FormInv ==
    /\ form \in FormRow
    /\ form.rec \subseteq Rows
    /\ form.row.completed_on <= now
    /\ \A k \in Key : form.steps[k].completed_on <= now
    /\ \A r \in form.rec :
          /\ form.rec = {r}
          /\ form.row.started_on = onboarding[r].started_on
          /\ \A k \in Key :
                form.steps[k].status # "absent" => steps[r][k].status # "absent"

StaffInv ==
    /\ TypeOK
    /\ unsure \in [Record -> SUBSET Counter]
    /\ edits \in 0 .. MaxEdits
    /\ FormInv
    /\ StepsHaveParent
    /\ \A r \in Rows : Repaired(onboarding[r], steps[r], unsure[r])

(* recompute_completion on a row whose recounted counters are right.       *)
LEMMA RecomputeRepairs ==
    ASSUME NEW row \in OnboardingRow, NEW ss \in [Key -> StepRow], NEW t \in Time,
           NEW u \in SUBSET Counter,
           "total_steps" \notin u => row.total_steps = CountTotal(ss),
           "completed_steps" \notin u => row.completed_steps = CountDone(ss)
    PROVE  /\ Repaired(RecomputeCompletion(row, t), ss, u)
           /\ RecomputeCompletion(row, t).started_on = row.started_on
  <1>1. u = {} => Counted(row, ss)
    BY DEF Counted
  <1>2. u = {} => CompletedRight(RecomputeCompletion(row, t), ss)
    BY <1>1, RecomputeRight
  <1> QED
    BY <1>2, RecomputeTyped DEF Repaired

-----------------------------------------------------------------------------
(* The helpers.  Each writes a row and the steps of one record, drops no   *)
(* step, and leaves the record right as far as it has been recounted.      *)
LEMMA HelperWrites ==
    ASSUME StaffInv, TypeOK', NEW r \in Record, NEW row, NEW ss,
           NEW counters \in SUBSET Counter, Recounted(r, counters),
           onboarding' = [onboarding EXCEPT ![r] = row],
           steps' = [steps EXCEPT ![r] = ss],
           row.started_on # Null,
           Exists(r) => row.started_on = onboarding[r].started_on, now' = now,
           Present(steps[r]) \subseteq Present(ss),
           Repaired(row, ss, unsure[r] \ counters)
    PROVE  StaffInv'
  <1>1. /\ onboarding'[r] = row /\ steps'[r] = ss
        /\ unsure'[r] = unsure[r] \ counters
    BY DEF StaffInv, TypeOK, Recounted
  <1>2. \A q \in Record \ {r} :
            onboarding'[q] = onboarding[q] /\ steps'[q] = steps[q] /\ unsure'[q] = unsure[q]
    BY DEF StaffInv, TypeOK, Recounted
  <1>3. unsure' \in [Record -> SUBSET Counter]
    BY DEF StaffInv, Recounted
  <1>4. \A q \in Record : Exists(q) => Exists(q)'
    BY <1>1, <1>2 DEF Exists
  <1>5. \A q \in Record : Present(steps[q]) \subseteq Present(steps'[q])
    BY <1>1, <1>2
  <1>6. FormInv'
    <2>1. form' = form /\ form.rec \subseteq Record
      BY DEF Recounted, StaffInv, FormInv, FormRow
    <2>2. form'.rec \subseteq Rows'
      BY <2>1, <1>4 DEF StaffInv, FormInv, Rows
        <2>3. \A q \in form.rec : onboarding'[q].started_on = onboarding[q].started_on
      BY <1>1, <1>2, <2>1 DEF StaffInv, FormInv, Rows
    <2> QED
      BY <2>1, <2>2, <2>3, <1>5 DEF StaffInv, FormInv, Present
  <1>7. StepsHaveParent'
    BY <1>1, <1>2 DEF StaffInv, StepsHaveParent, Exists
  <1>8. \A q \in Rows' : Repaired(onboarding'[q], steps'[q], unsure'[q])
    <2> SUFFICES ASSUME NEW q \in Rows'
                 PROVE  Repaired(onboarding'[q], steps'[q], unsure'[q])
      OBVIOUS
    <2>1. CASE q = r
      BY <2>1, <1>1
    <2>2. CASE q # r
      BY <2>2, <1>2 DEF StaffInv, Rows, Exists
    <2> QED
      BY <2>1, <2>2
  <1> QED
    BY <1>3, <1>6, <1>7, <1>8 DEF StaffInv, Recounted

(* A record without a row has no steps, so a new row is right about them.  *)
LEMMA NewRowRepaired ==
    ASSUME StaffInv, NEW r \in Record, ~Exists(r), NEW t
    PROVE  \A u : Repaired(NewOnboarding(t), steps[r], u)
  BY EmptyRow DEF StaffInv, StepsHaveParent, Repaired, Counted

LEMMA VisitKeeps ==
    ASSUME StaffInv, NEW r \in Record, Visit(r)
    PROVE  StaffInv'
  <1>1. PICK t \in Fresh(r) :
            /\ ~Exists(r)
            /\ onboarding' = [onboarding EXCEPT ![r] = NewOnboarding(t)]
            /\ steps' = steps
    BY DEF Visit, GetOrCreate
  <1>2. TypeOK'
    BY GetOrCreateTyped DEF StaffInv, Visit
  <1>3. steps' = [steps EXCEPT ![r] = steps[r]]
    BY <1>1 DEF StaffInv, TypeOK
  <1>4. Recounted(r, {}) /\ unsure[r] \ {} = unsure[r]
    BY DEF Visit, staff, Recounted, StaffInv
  <1>5. NewOnboarding(t).started_on # Null
    BY <1>1 DEF Fresh, Time, Null, NewOnboarding
  <1>6. Repaired(NewOnboarding(t), steps[r], unsure[r])
    BY <1>1, NewRowRepaired
  <1>7. now' = now
    BY DEF Visit, GetOrCreate
  <1> QED
    BY <1>1, <1>2, <1>3, <1>4, <1>5, <1>6, <1>7, HelperWrites

LEMMA AddsKeeps ==
    ASSUME StaffInv, NEW r \in Record, NEW k \in Key, NEW s \in Status,
           HelperAdds(r, k, s)
    PROVE  StaffInv'
  <1> DEFINE Row(a) == IF Exists(r) THEN onboarding[r] ELSE NewOnboarding(a.create)
             SS(a)  == [steps[r] EXCEPT ![k] = StepBorn(s, a.stamp)]
             Cnt(a) == RecountAfterAdd(Row(a), SS(a), s)
             counters == IF s \in DoneStatus THEN Counter ELSE {"total_steps"}
             left == unsure[r] \ counters
  <1>1. PICK a \in Readings(r) :
            /\ steps[r][k].status = "absent"
            /\ steps' = [steps EXCEPT ![r] = SS(a)]
            /\ onboarding' = [onboarding EXCEPT ![r] =
                                  RecomputeCompletion(Cnt(a), a.complete)]
    BY DEF HelperAdds, AddStep
  <1>2. a.create \in Time /\ a.stamp \in Time /\ a.complete \in Time
    BY DEF Readings, Fresh
  <1>3. TypeOK' /\ Recounted(r, counters) /\ counters \in SUBSET Counter
    BY AddStepTyped DEF StaffInv, HelperAdds, Counter
  <1>4. /\ Row(a) \in OnboardingRow
        /\ Row(a).started_on # Null
        /\ "completed_steps" \notin unsure[r] =>
               Row(a).completed_steps = CountDone(steps[r])
        /\ Exists(r) => Row(a).started_on = onboarding[r].started_on
    <2>1. CASE Exists(r)
      BY <2>1 DEF StaffInv, TypeOK, Rows, Repaired, Exists
    <2>2. CASE ~Exists(r)
      <3>1. NewOnboarding(a.create) \in OnboardingRow
        BY <1>2, NewRowTyped DEF Timestamp
      <3>2. Repaired(NewOnboarding(a.create), steps[r], {})
        BY <2>2, NewRowRepaired
      <3> QED
        BY <2>2, <3>1, <3>2, <1>2 DEF Repaired, NewOnboarding, Time, Null
    <2> QED
      BY <2>1, <2>2
  <1>5. /\ SS(a) \in [Key -> StepRow]
        /\ Present(steps[r]) \subseteq Present(SS(a))
        /\ s \notin DoneStatus => Done(SS(a)) = Done(steps[r])
    <2>1. steps[r] \in [Key -> StepRow]
      BY DEF StaffInv, TypeOK
    <2>2. SS(a) \in [Key -> StepRow]
      BY <2>1, <1>2, StepsTyped
    <2> QED
      BY <2>1, <2>2, <1>1 DEF Present, Done, DoneStatus, StepBorn, Status
  <1>6. /\ Cnt(a) \in OnboardingRow /\ Cnt(a).started_on # Null
        /\ Cnt(a).started_on = Row(a).started_on
        /\ Cnt(a).total_steps = CountTotal(SS(a))
        /\ "completed_steps" \notin left => Cnt(a).completed_steps = CountDone(SS(a))
    <2> HIDE DEF Row, SS
    <2>1. Cnt(a) \in OnboardingRow /\ Cnt(a).started_on = Row(a).started_on
      BY <1>4, RecountsTyped
    <2>2. Cnt(a).total_steps = CountTotal(SS(a))
      BY <1>4 DEF RecountAfterAdd, OnboardingRow
    <2>3. CASE s \in DoneStatus
      BY <2>1, <2>2, <2>3, <1>4 DEF RecountAfterAdd, OnboardingRow
    <2>4. CASE s \notin DoneStatus
      <3>1. Cnt(a).completed_steps = Row(a).completed_steps
        BY <2>4, <1>4 DEF RecountAfterAdd, OnboardingRow
      <3>2. "completed_steps" \notin left => "completed_steps" \notin unsure[r]
        BY <2>4
      <3> QED
        BY <3>1, <3>2, <2>1, <2>2, <2>4, <1>4, <1>5 DEF CountDone
    <2> QED
      BY <2>3, <2>4
  <1>7. left \in SUBSET Counter
    BY DEF StaffInv
  <1> HIDE DEF Row, SS, Cnt, counters, left
  <1>8. /\ Repaired(RecomputeCompletion(Cnt(a), a.complete), SS(a), left)
        /\ RecomputeCompletion(Cnt(a), a.complete).started_on # Null
        /\ RecomputeCompletion(Cnt(a), a.complete).started_on = Row(a).started_on
    BY <1>2, <1>5, <1>6, <1>7, RecomputeRepairs
  <1>9. left = unsure[r] \ counters
    BY DEF left
  <1>10. now' = now
    BY DEF HelperAdds, AddStep
  <1> QED
    BY <1>1, <1>3, <1>4, <1>5, <1>8, <1>9, <1>10, HelperWrites

LEMMA MovesKeeps ==
    ASSUME StaffInv, NEW r \in Record, NEW k \in Key, NEW s \in DoneStatus,
           HelperMoves(r, k, s)
    PROVE  StaffInv'
  <1> DEFINE SS(a)  == [steps[r] EXCEPT ![k] = [status |-> s, completed_on |-> a.stamp]]
             Redone(a) == RecomputeCompletion(RecountDone(onboarding[r], SS(a)), a.complete)
             WasDone == steps[r][k].status \in DoneStatus
             New(a) == IF WasDone THEN onboarding[r] ELSE Redone(a)
             counters == IF WasDone THEN {} ELSE {"completed_steps"}
             left == unsure[r] \ counters
  <1>0. /\ onboarding \in [Record -> OnboardingRow] /\ steps[r] \in [Key -> StepRow]
        /\ unsure[r] \in SUBSET Counter
    BY DEF StaffInv, TypeOK
  <1>1. PICK a \in Readings(r) :
            /\ Exists(r)
            /\ steps[r][k].status # "absent"
            /\ steps' = [steps EXCEPT ![r] = SS(a)]
            /\ onboarding' = [onboarding EXCEPT ![r] = New(a)]
    BY <1>0 DEF HelperMoves, TransitionStep
  <1>2. a.stamp \in Time /\ a.complete \in Time
    BY DEF Readings, Fresh
  <1>3. TypeOK' /\ Recounted(r, counters) /\ counters \in SUBSET Counter
    BY TransitionTyped DEF StaffInv, HelperMoves, Counter
  <1>4. SS(a) \in [Key -> StepRow]
    BY <1>0, <1>2, StepsTyped
  <1>5. /\ Present(SS(a)) = Present(steps[r])
        /\ WasDone => Done(SS(a)) = Done(steps[r])
    BY <1>0, <1>1 DEF Present, Done, DoneStatus
  <1>6. Repaired(onboarding[r], steps[r], unsure[r]) /\ onboarding[r].started_on # Null
    BY <1>1 DEF StaffInv, Rows, Exists
  <1>7. /\ Repaired(New(a), SS(a), left) /\ New(a).started_on # Null
        /\ New(a).started_on = onboarding[r].started_on
    <2>1. CASE WasDone
      <3>1. left = unsure[r]
        BY <2>1
      <3> QED
        BY <2>1, <3>1, <1>5, <1>6
           DEF Repaired, CompletedRight, CountTotal, CountDone
    <2>2. CASE ~WasDone
      <3> HIDE DEF SS
      <3>1. /\ RecountDone(onboarding[r], SS(a)) \in OnboardingRow
            /\ RecountDone(onboarding[r], SS(a)).started_on = onboarding[r].started_on
        BY <1>0, RecountsTyped
      <3>2. /\ RecountDone(onboarding[r], SS(a)).completed_steps = CountDone(SS(a))
            /\ RecountDone(onboarding[r], SS(a)).total_steps = onboarding[r].total_steps
        BY <1>0 DEF RecountDone, OnboardingRow
      <3>3. "total_steps" \notin left => onboarding[r].total_steps = CountTotal(SS(a))
        BY <2>2, <1>5, <1>6 DEF Repaired, CountTotal
      <3>4. left \in SUBSET Counter
        BY <1>0
      <3> HIDE DEF left
      <3> QED
        BY <2>2, <3>1, <3>2, <3>3, <3>4, <1>2, <1>4, <1>6, RecomputeRepairs
    <2> QED
      BY <2>1, <2>2
  <1>8. left = unsure[r] \ counters
    OBVIOUS
  <1> HIDE DEF SS, New, left, counters
  <1>9. now' = now
    BY DEF HelperMoves, TransitionStep
  <1> QED
    BY <1>1, <1>3, <1>5, <1>7, <1>8, <1>9, HelperWrites

LEMMA ReopensKeeps ==
    ASSUME StaffInv, NEW r \in Record, NEW k \in Key, HelperReopens(r, k)
    PROVE  StaffInv'
  <1> DEFINE SS == [steps[r] EXCEPT ![k] =
                        [status |-> "pending", completed_on |-> Null]]
             Cnt == RecountDone(onboarding[r], SS)
             New(a) == RecomputeCompletion(Cnt, a.complete)
             left == unsure[r] \ {"completed_steps"}
  <1>0. /\ onboarding \in [Record -> OnboardingRow] /\ steps[r] \in [Key -> StepRow]
        /\ unsure[r] \in SUBSET Counter
    BY DEF StaffInv, TypeOK
  <1>1. PICK a \in Readings(r) :
            /\ Exists(r)
            /\ steps[r][k].status = "completed"
            /\ steps' = [steps EXCEPT ![r] = SS]
            /\ onboarding' = [onboarding EXCEPT ![r] = New(a)]
    BY <1>0 DEF HelperReopens, ReopenStep, CanReopen
  <1>2. a.complete \in Time
    BY DEF Readings, Fresh
  <1>3. /\ TypeOK' /\ Recounted(r, {"completed_steps"})
        /\ {"completed_steps"} \in SUBSET Counter
    BY ReopenTyped DEF StaffInv, HelperReopens, Counter
  <1>4. SS \in [Key -> StepRow]
    BY <1>0 DEF StepRow, Status, Timestamp
  <1>5. Present(SS) = Present(steps[r])
    BY <1>0, <1>1 DEF Present
  <1>6. Repaired(onboarding[r], steps[r], unsure[r]) /\ onboarding[r].started_on # Null
    BY <1>1 DEF StaffInv, Rows, Exists
  <1> HIDE DEF SS
  <1>7. /\ Cnt \in OnboardingRow /\ Cnt.started_on = onboarding[r].started_on
        /\ Cnt.completed_steps = CountDone(SS)
        /\ Cnt.total_steps = onboarding[r].total_steps
    BY <1>0, RecountsTyped DEF RecountDone, OnboardingRow
  <1>8. "total_steps" \notin left => Cnt.total_steps = CountTotal(SS)
    BY <1>5, <1>6, <1>7 DEF Repaired, CountTotal
  <1>9. left \in SUBSET Counter /\ left = unsure[r] \ {"completed_steps"}
    BY <1>0
  <1> HIDE DEF Cnt, left
  <1>10. /\ Repaired(New(a), SS, left) /\ New(a).started_on # Null
         /\ New(a).started_on = onboarding[r].started_on
    BY <1>2, <1>4, <1>6, <1>7, <1>8, <1>9, RecomputeRepairs
  <1> HIDE DEF New
  <1>11. now' = now
    BY DEF HelperReopens, ReopenStep
  <1> QED
    BY <1>1, <1>3, <1>5, <1>9, <1>10, <1>11, HelperWrites

-----------------------------------------------------------------------------
(* The writes past the helpers.  Each makes the counters of the records it *)
(* touches unsure, so it owes nothing about them, and leaves the others be.*)
LEMMA TimesPassed ==
    ASSUME StaffInv
    PROVE  /\ now \in Time /\ Null <= now
           /\ \A q \in Record : /\ onboarding[q].completed_on <= now
                               /\ \A k \in Key : steps[q][k].completed_on <= now
  BY DEF StaffInv, TypeOK, Passed, Time, Null

LEMMA DirectWrites ==
    ASSUME StaffInv, NEW rs \in SUBSET Rows, Direct(rs),
           onboarding' \in [Record -> OnboardingRow],
           steps' \in [Record -> [Key -> StepRow]],
           \A r \in Record :
               /\ onboarding'[r].started_on = onboarding[r].started_on
               /\ onboarding'[r].completed_on <= now
               /\ \A k \in Key : steps'[r][k].completed_on <= now,
           \A r \in Record \ rs :
               onboarding'[r] = onboarding[r] /\ steps'[r] = steps[r],
           FormInv'
    PROVE  StaffInv'
  <1>1. TypeOK'
    <2>1. now' = now /\ now \in Time /\ Null <= now
      BY DEF Direct, StaffInv, TypeOK, Time, Null
    <2>2. \A r \in Record : \A t \in Passed(r)' : t <= now'
      <3> SUFFICES ASSUME NEW r \in Record, NEW t \in Passed(r)' PROVE t <= now
        BY <2>1
      <3>1. onboarding[r].started_on <= now
        BY DEF StaffInv, TypeOK, Passed
      <3> QED
        BY <2>1, <3>1 DEF Passed
    <2> QED
      BY <2>1, <2>2 DEF TypeOK
  <1>2. \A r \in Record : Exists(r)' <=> Exists(r)
    BY DEF Exists
  <1>3. rs \subseteq Record /\ unsure' \in [Record -> SUBSET Counter]
        /\ \A r \in Record \ rs : unsure'[r] = unsure[r]
    BY DEF Direct, StaffInv, Rows, Counter
  <1>4. edits' \in 0 .. MaxEdits
    BY MaxEditsAssumption DEF Direct, StaffInv
  <1>5. StepsHaveParent'
    BY <1>2 DEF StaffInv, StepsHaveParent, Rows
  <1>6. \A r \in Rows' : Repaired(onboarding'[r], steps'[r], unsure'[r])
    <2> SUFFICES ASSUME NEW r \in Rows'
                 PROVE  Repaired(onboarding'[r], steps'[r], unsure'[r])
      OBVIOUS
    <2>0. r \in Rows
      BY <1>2 DEF Rows
    <2>1. CASE r \in rs
      <3>1. unsure'[r] = Counter
        BY <2>0, <2>1 DEF Direct, Rows
      <3> QED
        BY <3>1 DEF Repaired, Counter
    <2>2. CASE r \notin rs
      BY <2>0, <2>2, <1>3 DEF StaffInv, Rows
    <2> QED
      BY <2>1, <2>2
  <1> QED
    BY <1>1, <1>3, <1>4, <1>5, <1>6 DEF StaffInv

(* A form stays right while no row it shows goes away.                     *)
LEMMA FormKept ==
    ASSUME FormInv, form' = form, onboarding' = onboarding, now' = now,
           \A q \in Record, j \in Key :
               steps'[q][j].status = "absent" => steps[q][j].status = "absent"
    PROVE  FormInv'
  <1>1. Rows' = Rows
    BY DEF Rows, Exists
  <1>2. form.rec \subseteq Record
    BY DEF FormInv, FormRow
  <1> QED
    BY <1>1, <1>2 DEF FormInv

(* A step row with another status is still a row.                          *)
LEMMA StatusChanged ==
    ASSUME NEW row \in StepRow, NEW s \in Status
    PROVE  /\ [row EXCEPT !.status = s] \in StepRow
           /\ [row EXCEPT !.status = s].completed_on = row.completed_on
           /\ [row EXCEPT !.status = s].status = s /\ s # "absent"
  BY DEF StepRow, NoStep, Status, DoneStatus, Timestamp, Null

LEMMA EditKeeps ==
    ASSUME StaffInv, NEW r \in Record, NEW k \in Key, EditStep(r, k)
    PROVE  StaffInv'
  <1>0. steps \in [Record -> [Key -> StepRow]]
    BY DEF StaffInv, TypeOK
  <1>1. PICK s \in Status : steps' = [steps EXCEPT ![r][k].status = s]
    BY DEF EditStep
  <1>2. PICK row \in StepRow :
            /\ row.status # "absent" /\ row.completed_on = steps[r][k].completed_on
            /\ steps' = [steps EXCEPT ![r][k] = row]
    <2> DEFINE row == [steps[r][k] EXCEPT !.status = s]
    <2>1. steps' = [steps EXCEPT ![r][k] = row]
      BY <1>1
    <2>2. /\ row \in StepRow /\ row.status # "absent"
          /\ row.completed_on = steps[r][k].completed_on
      BY <1>0, StatusChanged
    <2> HIDE DEF row
    <2> QED
      BY <2>1, <2>2
  <1>3. steps' \in [Record -> [Key -> StepRow]]
    BY <1>0, <1>2
  <1>4. \A q \in Record \ {r} : steps'[q] = steps[q]
    BY <1>0, <1>2
  <1>8. \A q \in Record, j \in Key :
            /\ steps'[q][j].completed_on = steps[q][j].completed_on
            /\ steps'[q][j].status = "absent" => steps[q][j].status = "absent"
    BY <1>0, <1>2
  <1>5. /\ onboarding' = onboarding /\ form' = form
        /\ Direct({r}) /\ {r} \in SUBSET Rows
    BY DEF EditStep, Rows
  <1>6. FormInv'
    BY <1>5, <1>8, FormKept DEF StaffInv, Direct
  <1>7. onboarding \in [Record -> OnboardingRow]
    BY DEF StaffInv, TypeOK
  <1> QED
    BY <1>3, <1>4, <1>5, <1>6, <1>7, <1>8, TimesPassed, DirectWrites

(* A form nobody has open shows nothing.                                   *)
LEMMA NoFormRight ==
    /\ NoForm \in FormRow /\ NoForm.rec = {} /\ NoForm.row.completed_on = Null
    /\ \A k \in Key : NoForm.steps[k].completed_on = Null
  <1>1. NoOnboarding \in OnboardingRow /\ NoOnboarding.completed_on = Null
    BY NewRowTyped DEF NoOnboarding, NewOnboarding, Timestamp
  <1>2. NoStep \in StepRow /\ NoStep.completed_on = Null
    BY DEF StepRow, NoStep
  <1> QED
    BY <1>1, <1>2 DEF NoForm, FormRow

LEMMA NoFormInv ==
    ASSUME form' = NoForm, now' \in Time
    PROVE  FormInv'
  <1>1. Null <= now'
    BY DEF Time, Null
  <1> QED
    BY <1>1, NoFormRight DEF FormInv

LEMMA DeleteStepKeeps ==
    ASSUME StaffInv, NEW r \in Record, NEW k \in Key, DeleteStep(r, k)
    PROVE  StaffInv'
  <1>0. /\ steps \in [Record -> [Key -> StepRow]]
        /\ onboarding \in [Record -> OnboardingRow]
    BY DEF StaffInv, TypeOK
  <1>1. /\ steps[r][k].status # "absent" /\ onboarding' = onboarding
        /\ steps' = [steps EXCEPT ![r][k] = NoStep]
        /\ form' = (IF r \in form.rec /\ form.steps[k].status # "absent" THEN NoForm
                    ELSE form)
        /\ Direct({r}) /\ now' = now
    BY DEF DeleteStep, Direct
  <1>2. {r} \in SUBSET Rows
    BY <1>1 DEF StaffInv, StepsHaveParent, Present, Rows
  <1>3. /\ steps' \in [Record -> [Key -> StepRow]]
        /\ \A q \in Record \ {r} : steps'[q] = steps[q]
        /\ \A q \in Record, j \in Key :
              steps'[q][j].completed_on \in {steps[q][j].completed_on, Null}
        /\ \A j \in Key \ {k} : steps'[r][j] = steps[r][j]
    <2>1. NoStep \in StepRow /\ NoStep.completed_on = Null
      BY DEF StepRow, NoStep
    <2> QED
      BY <1>0, <1>1, <2>1
  <1>4. FormInv'
    <2>1. CASE r \in form.rec /\ form.steps[k].status # "absent"
      BY <2>1, <1>1, TimesPassed, NoFormInv
    <2>2. CASE ~ (r \in form.rec /\ form.steps[k].status # "absent")
      <3>1. form' = form /\ Rows' = Rows
        BY <2>2, <1>1 DEF Rows, Exists
      <3>2. ASSUME NEW q \in form.rec, NEW j \in Key, form.steps[j].status # "absent"
            PROVE  steps'[q][j].status # "absent"
        <4>1. q \in Record /\ steps[q][j].status # "absent"
          BY <3>2 DEF StaffInv, FormInv, Rows
        <4>2. steps'[q][j] = steps[q][j]
          BY <2>2, <3>2, <4>1, <1>3
        <4> QED
          BY <4>1, <4>2
      <3> QED
        BY <3>1, <3>2, <1>1 DEF StaffInv, FormInv
    <2> QED
      BY <2>1, <2>2
  <1>5. \A q \in Record, j \in Key : steps'[q][j].completed_on <= now
    BY <1>3, TimesPassed
  <1> QED
    BY <1>0, <1>1, <1>2, <1>3, <1>4, <1>5, TimesPassed, DirectWrites

(* Deleting a record leaves neither a row nor a step of it.                *)
LEMMA DeleteRecordKeeps ==
    ASSUME StaffInv, NEW r \in Record, DeleteRecord(r)
    PROVE  StaffInv'
  <1>0. /\ steps \in [Record -> [Key -> StepRow]]
        /\ onboarding \in [Record -> OnboardingRow]
        /\ unsure \in [Record -> SUBSET Counter]
    BY DEF StaffInv, TypeOK
  <1>1. /\ onboarding' = [onboarding EXCEPT ![r] = NoOnboarding]
        /\ steps' = [steps EXCEPT ![r] = [k \in Key |-> NoStep]]
        /\ form' = (IF r \in form.rec THEN NoForm ELSE form)
        /\ unsure' = [unsure EXCEPT ![r] = {}]
        /\ edits < MaxEdits /\ edits' = edits + 1
        /\ now' = now
    BY DEF DeleteRecord
  <1>2. /\ NoOnboarding \in OnboardingRow
        /\ NoOnboarding.started_on = Null /\ NoOnboarding.completed_on = Null
        /\ NoStep \in StepRow /\ NoStep.completed_on = Null /\ NoStep.status = "absent"
    BY NewRowTyped DEF NoOnboarding, NewOnboarding, NoStep, StepRow, Timestamp
  <1>3. now \in Time /\ Null <= now
    BY DEF StaffInv, TypeOK, Time, Null
  <1>4. TypeOK'
    <2> DEFINE none == [k \in Key |-> NoStep]
    <2>1. none \in [Key -> StepRow] /\ \A k \in Key : none[k].completed_on = Null
      BY <1>2
    <2> HIDE DEF none
    <2>2. steps' = [steps EXCEPT ![r] = none]
      BY <1>1 DEF none
    <2> QED
      BY <1>1, <1>2, <1>3, <2>1, <2>2, WriteTyped DEF StaffInv
  <1>5. \A q \in Record \ {r} :
            onboarding'[q] = onboarding[q] /\ steps'[q] = steps[q] /\ unsure'[q] = unsure[q]
    BY <1>0, <1>1
  <1>6. ~Exists(r)' /\ Present(steps'[r]) = {}
    BY <1>0, <1>1, <1>2 DEF Exists, Present
  <1>7. Rows' = Rows \ {r}
    BY <1>5, <1>6 DEF Rows, Exists
  <1>8. FormInv'
    <2>1. CASE r \in form.rec
      BY <2>1, <1>1, <1>3, NoFormInv
    <2>2. CASE r \notin form.rec
      <3>1. form' = form /\ form.rec \subseteq Rows' /\ form.rec \subseteq Record
        BY <2>2, <1>1, <1>7 DEF StaffInv, FormInv, FormRow
      <3>2. \A q \in form.rec : q \in Record \ {r}
        BY <2>2, <3>1
      <3>3. \A q \in form.rec :
                onboarding'[q] = onboarding[q] /\ steps'[q] = steps[q]
        BY <3>2, <1>5
      <3> QED
        BY <3>1, <3>3, <1>1 DEF StaffInv, FormInv
    <2> QED
      BY <2>1, <2>2
  <1>9. StepsHaveParent'
    BY <1>5, <1>6 DEF StaffInv, StepsHaveParent, Exists
  <1>10. \A q \in Rows' : Repaired(onboarding'[q], steps'[q], unsure'[q])
    BY <1>5, <1>7 DEF StaffInv, Rows
  <1>11. edits' \in 0 .. MaxEdits
    BY <1>1, MaxEditsAssumption DEF StaffInv
  <1>12. unsure' \in [Record -> SUBSET Counter]
    BY <1>0, <1>1
  <1> QED
    BY <1>4, <1>8, <1>9, <1>10, <1>11, <1>12 DEF StaffInv

LEMMA BulkWaiveKeeps ==
    ASSUME StaffInv, NEW k \in Key, BulkWaive(k)
    PROVE  StaffInv'
  <1> DEFINE rows == {r \in Record : steps[r][k].status # "absent"}
  <1>0. /\ steps \in [Record -> [Key -> StepRow]]
        /\ onboarding \in [Record -> OnboardingRow]
    BY DEF StaffInv, TypeOK
  <1>1. /\ steps' = [r \in Record |-> 
                      IF r \in rows THEN [steps[r] EXCEPT ![k].status = "not_applicable"]
                      ELSE steps[r]]
        /\ Direct(rows) /\ onboarding' = onboarding /\ form' = form
    BY DEF BulkWaive
  <1>2. rows \in SUBSET Rows
    BY DEF StaffInv, StepsHaveParent, Present, Rows
  <1>3. ASSUME NEW r \in Record
        PROVE  /\ steps'[r] \in [Key -> StepRow]
               /\ r \notin rows => steps'[r] = steps[r]
               /\ \A j \in Key :
                     /\ steps'[r][j].completed_on = steps[r][j].completed_on
                     /\ steps'[r][j].status = "absent" => steps[r][j].status = "absent"
    <2>1. CASE r \in rows
      <3>1. PICK row \in StepRow :
                /\ row.status # "absent" /\ row.completed_on = steps[r][k].completed_on
                /\ steps'[r] = [steps[r] EXCEPT ![k] = row]
        <4> DEFINE row == [steps[r][k] EXCEPT !.status = "not_applicable"]
        <4>1. steps'[r] = [steps[r] EXCEPT ![k] = row]
          BY <1>1, <2>1
        <4>2. "not_applicable" \in Status
          BY DEF Status, DoneStatus
        <4>3. /\ row \in StepRow /\ row.status # "absent"
              /\ row.completed_on = steps[r][k].completed_on
          BY <1>0, <4>2, StatusChanged
        <4> HIDE DEF row
        <4> QED
          BY <4>1, <4>3
      <3>2. steps[r] \in [Key -> StepRow]
        BY <1>0
      <3> QED
        BY <2>1, <3>1, <3>2
    <2>2. CASE r \notin rows
      <3>1. steps'[r] = steps[r]
        BY <1>1, <2>2
      <3> QED
        BY <1>0, <3>1
    <2> QED
      BY <2>1, <2>2
  <1>5. steps' \in [Record -> [Key -> StepRow]]
    BY <1>1, <1>3
  <1>6. \A r \in Record, j \in Key :
            /\ steps'[r][j].completed_on = steps[r][j].completed_on
            /\ steps'[r][j].status = "absent" => steps[r][j].status = "absent"
    BY <1>3
  <1>7. \A r \in Record \ rows : steps'[r] = steps[r]
    BY <1>3
  <1> HIDE DEF rows
  <1>8. FormInv'
    BY <1>1, <1>6, FormKept DEF StaffInv, Direct
  <1> QED
    BY <1>0, <1>1, <1>2, <1>5, <1>6, <1>7, <1>8, TimesPassed, DirectWrites

(* What is loaded into a form are columns of the record it is open on.     *)
LEMMA FormLoaded ==
    ASSUME StaffInv, NEW r \in Record, Exists(r),
           UNCHANGED <<onboarding, steps, now, unsure, edits>>,
           form'.rec = {r}, form' \in FormRow,
           form'.row.started_on = onboarding[r].started_on,
           form'.row.completed_on \in {Null, onboarding[r].completed_on},
           \A k \in Key :
               /\ form'.steps[k].completed_on \in {Null, steps[r][k].completed_on}
               /\ form'.steps[k].status # "absent" => steps[r][k].status # "absent"
    PROVE  StaffInv'
  <1>1. /\ onboarding[r].completed_on <= now /\ Null <= now
        /\ \A k \in Key : steps[r][k].completed_on <= now
    BY DEF StaffInv, TypeOK, Passed, Time, Null
  <1>2. form'.row.completed_on <= now /\ \A k \in Key : form'.steps[k].completed_on <= now
    BY <1>1
  <1>3. FormInv'
    BY <1>2 DEF FormInv, Rows, Exists
  <1> QED
    BY <1>3 DEF StaffInv, TypeOK, Passed, StepsHaveParent, Exists, Rows

LEMMA OpenFormKeeps ==
    ASSUME StaffInv, NEW r \in Record, OpenForm(r)
    PROVE  StaffInv'
  <1> DEFINE row == [onboarding[r] EXCEPT !.completed_on = Null]
             shown == [k \in Key |-> [steps[r][k] EXCEPT !.completed_on = Null]]
  <1>0. steps[r] \in [Key -> StepRow] /\ onboarding[r] \in OnboardingRow
    BY DEF StaffInv, TypeOK
  <1>1. /\ form' = [rec |-> {r}, posted |-> FALSE, row |-> row, steps |-> shown]
        /\ UNCHANGED <<onboarding, steps, now, unsure, edits>> /\ Exists(r)
    BY DEF OpenForm
  <1>2. ASSUME NEW k \in Key
        PROVE  /\ shown[k] \in StepRow /\ shown[k].completed_on = Null
               /\ shown[k].status = steps[r][k].status
    BY <1>0 DEF StepRow, NoStep, Timestamp
  <1>3. /\ row \in OnboardingRow /\ row.completed_on = Null
        /\ row.started_on = onboarding[r].started_on
    BY <1>0 DEF OnboardingRow, Timestamp
  <1>4. shown \in [Key -> StepRow]
    BY <1>2
  <1> HIDE DEF row, shown
  <1>5. /\ form'.rec = {r} /\ form'.row = row /\ form'.steps = shown
        /\ form' \in FormRow
    BY <1>1, <1>3, <1>4 DEF FormRow
  <1> QED
    BY <1>1, <1>2, <1>3, <1>5, FormLoaded

LEMMA PostFormKeeps ==
    ASSUME StaffInv, PostForm
    PROVE  StaffInv'
  <1>0. /\ form \in FormRow /\ form.rec \subseteq Rows
    BY DEF StaffInv, FormInv
  <1>1. PICK r \in form.rec :
            /\ form' = [form EXCEPT
                   !.posted = TRUE,
                   !.row = [onboarding[r] EXCEPT
                               !.total_steps = form.row.total_steps,
                               !.completed_steps = form.row.completed_steps],
                   !.steps = [k \in Key |->
                       IF @[k].status \in {"absent", steps[r][k].status} THEN NoStep
                       ELSE [steps[r][k] EXCEPT !.status = form.steps[k].status]]]
            /\ UNCHANGED <<onboarding, steps, now, unsure, edits>>
    BY DEF PostForm
  <1> DEFINE row == [onboarding[r] EXCEPT
                        !.total_steps = form.row.total_steps,
                        !.completed_steps = form.row.completed_steps]
             changed == [k \in Key |->
                 IF form.steps[k].status \in {"absent", steps[r][k].status} THEN NoStep
                 ELSE [steps[r][k] EXCEPT !.status = form.steps[k].status]]
  <1>2. r \in Record /\ Exists(r)
    BY <1>0 DEF Rows
  <1>3. form.rec = {r}
    BY <1>0, <1>1 DEF StaffInv, FormInv
  <1>4. /\ steps[r] \in [Key -> StepRow] /\ onboarding[r] \in OnboardingRow
        /\ form.row \in OnboardingRow /\ form.steps \in [Key -> StepRow]
    BY <1>0, <1>2 DEF StaffInv, TypeOK, FormRow
  <1>5. /\ row \in OnboardingRow /\ row.started_on = onboarding[r].started_on
        /\ row.completed_on = onboarding[r].completed_on
    BY <1>4 DEF OnboardingRow
  <1>6. ASSUME NEW k \in Key
        PROVE  /\ changed[k] \in StepRow
               /\ changed[k].completed_on \in {Null, steps[r][k].completed_on}
               /\ changed[k].status # "absent" => steps[r][k].status # "absent"
    <2>0. /\ NoStep \in StepRow /\ NoStep.completed_on = Null /\ NoStep.status = "absent"
      BY DEF StepRow, NoStep
    <2>1. CASE form.steps[k].status \in {"absent", steps[r][k].status}
      BY <2>0, <2>1
    <2>2. CASE form.steps[k].status \notin {"absent", steps[r][k].status}
      <3>1. /\ steps[r][k] \in StepRow /\ form.steps[k] \in StepRow
            /\ form.steps[k].status # "absent"
        BY <1>4, <2>2
      <3>2. form.steps[k].status \in Status
        BY <3>1 DEF StepRow, NoStep
      <3>3. changed[k] = [steps[r][k] EXCEPT !.status = form.steps[k].status]
        BY <2>2
      <3>4. steps[r][k].status # "absent"
        BY <1>1, <3>1 DEF StaffInv, FormInv
      <3> HIDE DEF changed
      <3> QED
        BY <3>1, <3>2, <3>3, <3>4, StatusChanged
    <2> QED
      BY <2>1, <2>2
  <1>7. changed \in [Key -> StepRow]
    BY <1>6
  <1>8. form' = [form EXCEPT !.posted = TRUE, !.row = row, !.steps = changed]
    BY <1>0, <1>1 DEF FormRow
  <1> HIDE DEF row, changed
  <1>9. /\ form'.rec = {r} /\ form'.row = row /\ form'.steps = changed
        /\ form' \in FormRow
    BY <1>0, <1>3, <1>5, <1>7, <1>8 DEF FormRow
  <1> QED
    BY <1>1, <1>2, <1>5, <1>6, <1>9, FormLoaded

LEMMA SaveFormKeeps ==
    ASSUME StaffInv, SaveForm
    PROVE  StaffInv'
  <1>0. /\ steps \in [Record -> [Key -> StepRow]]
        /\ onboarding \in [Record -> OnboardingRow]
        /\ form.row \in OnboardingRow
        /\ form.steps \in [Key -> StepRow]
        /\ form.rec \subseteq Rows
    BY DEF StaffInv, TypeOK, FormInv, FormRow
  <1>1. PICK r \in form.rec :
            /\ onboarding' = [onboarding EXCEPT ![r] = form.row]
            /\ steps' = [steps EXCEPT ![r] = [k \in Key |->
                   IF form.steps[k] = NoStep THEN @[k] ELSE form.steps[k]]]
            /\ form' = NoForm
            /\ Direct({r})
    BY DEF SaveForm
  <1>2. r \in Record /\ {r} \in SUBSET Rows
    BY <1>0 DEF Rows
  <1>3. \A k \in Key : steps'[r][k] \in {steps[r][k], form.steps[k]}
    BY <1>0, <1>1, <1>2
  <1>4. /\ steps' \in [Record -> [Key -> StepRow]]
        /\ \A q \in Record \ {r} : steps'[q] = steps[q]
    BY <1>0, <1>1, <1>2
  <1>5. /\ onboarding' \in [Record -> OnboardingRow]
        /\ \A q \in Record \ {r} : onboarding'[q] = onboarding[q]
        /\ onboarding'[r] = form.row
    BY <1>0, <1>1, <1>2
  <1>6. /\ form.row.started_on = onboarding[r].started_on
        /\ form.row.completed_on <= now
        /\ \A k \in Key : form.steps[k].completed_on <= now
    BY <1>1 DEF StaffInv, FormInv
  <1>7. /\ \A q \in Record : onboarding'[q].started_on = onboarding[q].started_on
        /\ \A q \in Record : onboarding'[q].completed_on <= now
        /\ \A q \in Record, k \in Key : steps'[q][k].completed_on <= now
    <2>1. \A q \in Record : /\ onboarding[q].completed_on <= now
                            /\ \A k \in Key : steps[q][k].completed_on <= now
      BY DEF StaffInv, TypeOK, Passed
    <2> QED
      BY <1>3, <1>4, <1>5, <1>6, <2>1
  <1>8. FormInv'
    BY <1>1, TimesPassed, NoFormInv DEF Direct
  <1> QED
    BY <1>1, <1>2, <1>4, <1>5, <1>7, <1>8, DirectWrites

LEMMA CloseFormKeeps ==
    ASSUME StaffInv, CloseForm
    PROVE  StaffInv'
  <1>1. form' = NoForm /\ UNCHANGED <<onboarding, steps, now, unsure, edits>>
    BY DEF CloseForm
  <1>2. FormInv'
    BY <1>1, TimesPassed, NoFormInv
  <1> QED
    BY <1>1, <1>2 DEF StaffInv, TypeOK, Passed, StepsHaveParent, Exists, Rows

LEMMA PassesKeeps ==
    ASSUME StaffInv, Passes
    PROVE  StaffInv'
  <1>1. TypeOK'
    BY TickTyped DEF StaffInv, Passes
  <1>2. UNCHANGED <<onboarding, steps, form, unsure, edits>>
    BY DEF Passes, Tick, staff
  <1>3. FormInv'
    <2>1. now \in Nat /\ now' = now + 1
      BY DEF StaffInv, TypeOK, Time, Passes, Tick
    <2>2. /\ form.row.completed_on \in Nat /\ form.row.completed_on <= now
          /\ \A k \in Key : form.steps[k].completed_on \in Nat
                             /\ form.steps[k].completed_on <= now
      BY DEF StaffInv, FormInv, FormRow, OnboardingRow, StepRow, NoStep, Timestamp,
             Time, Null
    <2> QED
      BY <1>2, <2>1, <2>2 DEF StaffInv, FormInv, Exists, Rows
  <1> QED
    BY <1>1, <1>2, <1>3 DEF StaffInv, StepsHaveParent, Exists, Rows

(* The invariant holds at first, when there is no record, and every step   *)
(* of a helper, of the admin and of the clock keeps it.                    *)
LEMMA StaffInductive == StaffSpec => []StaffInv
  <1>1. StaffInit => StaffInv
    <2> SUFFICES ASSUME StaffInit PROVE StaffInv
      OBVIOUS
    <2>1. TypeOK
      BY InitTyped DEF StaffInit
    <2>2. Rows = {} /\ \A r \in Record : Present(steps[r]) = {}
      BY DEF StaffInit, Init, Rows, Exists, NoOnboarding, NewOnboarding, Present, NoStep
    <2>3. FormInv
      <3>1. Null <= now
        BY <2>1 DEF TypeOK, Time, Null
      <3> QED
        BY <3>1, NoFormRight DEF StaffInit, FormInv
    <2>4. unsure \in [Record -> SUBSET Counter] /\ edits \in 0 .. MaxEdits
      BY MaxEditsAssumption DEF StaffInit
    <2> QED
      BY <2>1, <2>2, <2>3, <2>4 DEF StaffInv, StepsHaveParent
  <1>2. StaffInv /\ [StaffNext]_staffVars => StaffInv'
    <2> SUFFICES ASSUME StaffInv, [StaffNext]_staffVars PROVE StaffInv'
      OBVIOUS
    <2>1. ASSUME NEW r \in Record, Visit(r) PROVE StaffInv'
      BY <2>1, VisitKeeps
    <2>2. ASSUME NEW r \in Record, NEW k \in Key, NEW s \in Status, HelperAdds(r, k, s)
          PROVE  StaffInv'
      BY <2>2, AddsKeeps
    <2>3. ASSUME NEW r \in Record, NEW k \in Key, NEW s \in DoneStatus, HelperMoves(r, k, s)
          PROVE  StaffInv'
      BY <2>3, MovesKeeps
    <2>4. ASSUME NEW r \in Record, NEW k \in Key, HelperReopens(r, k) PROVE StaffInv'
      BY <2>4, ReopensKeeps
    <2>5. ASSUME NEW r \in Record, NEW k \in Key, EditStep(r, k) PROVE StaffInv'
      BY <2>5, EditKeeps
    <2>6. ASSUME NEW r \in Record, NEW k \in Key, DeleteStep(r, k) PROVE StaffInv'
      BY <2>6, DeleteStepKeeps
    <2>7. ASSUME NEW r \in Record, DeleteRecord(r) PROVE StaffInv'
      BY <2>7, DeleteRecordKeeps
    <2>8. ASSUME NEW k \in Key, BulkWaive(k) PROVE StaffInv'
      BY <2>8, BulkWaiveKeeps
    <2>9. ASSUME NEW r \in Record, OpenForm(r) PROVE StaffInv'
      BY <2>9, OpenFormKeeps
    <2>10. CASE SaveForm
      BY <2>10, SaveFormKeeps
    <2>14. CASE PostForm
      BY <2>14, PostFormKeeps
    <2>11. CASE CloseForm
      BY <2>11, CloseFormKeeps
    <2>12. CASE Passes
      BY <2>12, PassesKeeps
    <2>13. CASE UNCHANGED staffVars
      BY <2>13 DEF staffVars, StaffInv, TypeOK, Passed, FormInv, StepsHaveParent, Exists, Rows
    <2> QED
      BY <2>1, <2>2, <2>3, <2>4, <2>5, <2>6, <2>7, <2>8, <2>9, <2>10, <2>11,
         <2>12, <2>13, <2>14 DEF StaffNext
  <1> QED
    BY <1>1, <1>2, PTL DEF StaffSpec

-----------------------------------------------------------------------------
(* Direct writes, however many and however late a form is posted back,     *)
(* leave rows of the model, and a form never shows a row that is gone.     *)
THEOREM StaffTyped == StaffSpec => []StaffTypeOK
  <1>1. StaffInv => StaffTypeOK
    BY DEF StaffInv, FormInv, StaffTypeOK
  <1> QED
    BY <1>1, StaffInductive, PTL

(* A counter that a helper has recounted since the last direct write is    *)
(* right, and with both recounted the record is complete exactly when all  *)
(* of its steps are done: recompute_completion repairs the drift.          *)
THEOREM RepairCorrect == StaffSpec => []RecountRepairs
  <1>1. StaffInv => RecountRepairs
    BY DEF StaffInv, Repaired, CompletedRight, RecountRepairs
  <1> QED
    BY <1>1, StaffInductive, PTL

-----------------------------------------------------------------------------
(* The latest of some times: the one with none after it.  The sets of      *)
(* later times grow ever smaller, and one of them is the smallest.         *)
LEMMA HasLatest ==
    ASSUME NEW T \in SUBSET Timestamp, T # {}
    PROVE  \E t \in T : \A u \in T : u <= t
  <1>1. T \in SUBSET Nat /\ MaxTime \in Nat /\ \A t \in T : t <= MaxTime
    BY MaxTimeAssumption DEF Timestamp, Time, Null
  <1>2. IsFiniteSet(T)
    BY <1>1, FS_BoundedSetOfNaturals
  <1> DEFINE Later(t) == {u \in T : t < u}
             F == {Later(t) : t \in T}
             R == StrictSubsetOrdering(T)
  <1>3. F \subseteq FiniteSubsetsOf(T) /\ F # {}
    <2>1. ASSUME NEW t \in T PROVE Later(t) \in FiniteSubsetsOf(T)
      BY <1>2, FS_Subset DEF FiniteSubsetsOf
    <2> QED
      BY <2>1
  <1>4. IsWellFoundedOn(R, FiniteSubsetsOf(T))
    BY FS_StrictSubsetOrderingWellFounded
  <1>5. PICK L \in F : \A M \in F : ~ (<<M, L>> \in R)
    <2> HIDE DEF F, R
    <2> QED
      BY <1>3, <1>4, WFMin
  <1>6. PICK t \in T : L = Later(t)
    OBVIOUS
  <1>7. ASSUME NEW u \in Later(t) PROVE FALSE
    <2>1. Later(u) \in F /\ u \in T /\ t < u
      OBVIOUS
    <2>2. Later(u) \subseteq Later(t) /\ Later(u) # Later(t)
      <3>1. ASSUME NEW x \in Later(u) PROVE x \in Later(t)
        BY <1>1, <2>1, <3>1
      <3>2. u \notin Later(u)
        BY <1>1, <2>1
      <3> QED
        BY <3>1, <3>2
    <2>3. <<Later(u), Later(t)>> \in R
      BY <2>2 DEF StrictSubsetOrdering
    <2> QED
      BY <1>5, <1>6, <2>1, <2>3
  <1>8. \A u \in T : u <= t
    BY <1>1, <1>7
  <1> QED
    BY <1>8

LEMMA LatestRight ==
    ASSUME StaffInv, NEW r \in Record
    PROVE  /\ LastStepCompletedOn(r) \in {Null} \union {steps[r][k].completed_on : k \in Key}
           /\ LastStepCompletedOn(r) \in Nat
           /\ \A k \in Key : steps[r][k].completed_on <= LastStepCompletedOn(r)
  <1> DEFINE times == {Null} \union {steps[r][k].completed_on : k \in Key}
  <1>1. times \in SUBSET Timestamp
    BY DEF StaffInv, TypeOK, StepRow, NoStep, Timestamp
  <1>2. \E t \in times : \A u \in times : u <= t
    <2> HIDE DEF times
    <2>1. times # {}
      BY DEF times
    <2> QED
      BY <1>1, <2>1, HasLatest
  <1>3. LastStepCompletedOn(r) = CHOOSE t \in times : \A u \in times : u <= t
    BY DEF LastStepCompletedOn
  <1>4. /\ LastStepCompletedOn(r) \in times
        /\ \A u \in times : u <= LastStepCompletedOn(r)
    <2> HIDE DEF times
    <2> QED
      BY <1>2, <1>3
  <1>5. \A k \in Key : steps[r][k].completed_on \in times
    OBVIOUS
  <1>6. Timestamp \subseteq Nat
    BY MaxTimeAssumption DEF Timestamp, Time, Null
  <1> QED
    BY <1>1, <1>4, <1>5, <1>6

-----------------------------------------------------------------------------
(* The report and the planner choose the same records of a scope, whatever *)
(* has been written past the helpers: one asks for pending rows, the other *)
(* for rows that are not done.                                             *)
LEMMA OpenArePending ==
    ASSUME StaffInv, NEW r \in Record
    PROVE  /\ PendingSteps(r) = {k \in Present(steps[r]) : steps[r][k].status \notin DoneStatus}
           /\ PendingSteps(r) = Present(steps[r]) \ Done(steps[r])
           /\ Done(steps[r]) \subseteq Present(steps[r])
  <1>1. \A k \in Key : steps[r][k].status \in Status \union {"absent"}
    <2>1. \A k \in Key : steps[r][k] \in StepRow
      BY DEF StaffInv, TypeOK
    <2> QED
      BY <2>1 DEF StepRow, NoStep
  <1> QED
    BY <1>1 DEF PendingSteps, Present, Done, Status, DoneStatus

LEMMA ReportIsPlan ==
    ASSUME StaffInv, NEW keys \in SUBSET Key
    PROVE  PendingOnboardings(keys, Visible) = Planned(keys) \intersect Visible
  <1> DEFINE Open(r) == {k \in Present(steps[r]) : steps[r][k].status \notin DoneStatus}
  <1>1. \A r \in Rows : PendingSteps(r) = Open(r)
    BY OpenArePending DEF Rows
  <1>2. \A r \in Rows :
            Decision(r, keys) = "row" <=>
                Open(r) \intersect (IF keys = {} THEN Key ELSE keys) # {}
    BY DEF Decision, Present
  <1> QED
    BY <1>1, <1>2 DEF PendingOnboardings, Planned

(* A share of 100 is only shown when everything is done.                   *)
LEMMA Percent ==
    ASSUME NEW t \in Nat, NEW c \in Nat, t > 0, c <= t
    PROVE  (100 * c) \div t = 100 <=> c = t
  <1> DEFINE q == (100 * c) \div t
  <1>1. q \in Int /\ q * t <= 100 * c /\ 100 * c < q * t + t
    OBVIOUS
  <1>2. ASSUME q = 100 PROVE c = t
    BY <1>1, <1>2
  <1>3. ASSUME c = t PROVE q = 100
    BY <1>1, <1>3
  <1> QED
    BY <1>2, <1>3

(* Sets of records are finite.                                             *)
LEMMA RecordsCounted ==
    ASSUME NEW S \in SUBSET Record, NEW T \in SUBSET S
    PROVE  /\ Cardinality(S) \in Nat /\ Cardinality(T) \in Nat
           /\ Cardinality(T) <= Cardinality(S)
           /\ Cardinality(S) = Cardinality(T) => S = T
           /\ Cardinality(S) = 0 <=> S = {}
  <1>1. IsFiniteSet(S) /\ IsFiniteSet(T)
    BY FiniteAssumption, FS_Subset
  <1> QED
    BY <1>1, FS_Subset, FS_CardinalityType, FS_EmptySet

(* Each record of a set is complete or open.                               *)
LEMMA OneOrOther ==
    ASSUME NEW rs \in SUBSET Record
    PROVE  LET done == {r \in rs : onboarding[r].completed_on # Null}
               open == {r \in rs : onboarding[r].completed_on = Null}
           IN  /\ Cardinality(rs) \in Nat /\ Cardinality(done) \in Nat
               /\ Cardinality(open) \in Nat
               /\ Cardinality(rs) = Cardinality(done) + Cardinality(open)
  <1> DEFINE done == {r \in rs : onboarding[r].completed_on # Null}
             open == {r \in rs : onboarding[r].completed_on = Null}
  <1>1. done \union open = rs /\ done \intersect open = {}
    OBVIOUS
  <1>2. done \in SUBSET rs /\ open \in SUBSET rs /\ IsFiniteSet(rs)
    BY FiniteAssumption, FS_Subset
  <1> HIDE DEF done, open
  <1>3. IsFiniteSet(done) /\ IsFiniteSet(open)
    BY <1>2, FS_Subset
  <1>4. /\ Cardinality(done) \in Nat /\ Cardinality(open) \in Nat
        /\ Cardinality(rs) \in Nat /\ Cardinality({}) = 0
    BY <1>2, <1>3, FS_CardinalityType, FS_EmptySet
  <1>5. Cardinality(done \union open) =
            Cardinality(done) + Cardinality(open) - Cardinality(done \intersect open)
    BY <1>3, FS_Union
  <1>6. Cardinality(rs) = Cardinality(done) + Cardinality(open) - Cardinality({})
    BY <1>1, <1>5, Zenon
  <1>7. Cardinality(rs) = Cardinality(done) + Cardinality(open)
    BY <1>4, <1>6
  <1> QED
    BY <1>4, <1>7 DEF done, open

(* A record that has been recounted is complete exactly when it has steps  *)
(* and none of them is pending.                                            *)
LEMMA SureRecord ==
    ASSUME StaffInv, NEW r \in Scoped, unsure[r] = {}
    PROVE  onboarding[r].completed_on = Null <=>
               Present(steps[r]) = {} \/ \E k \in Key : steps[r][k].status = "pending"
  <1>1. /\ r \in Record /\ r \in Rows
        /\ onboarding[r].completed_on # Null <=>
               Present(steps[r]) # {} /\ Done(steps[r]) = Present(steps[r])
    BY DEF Scoped, Rows, StaffInv, Repaired, CompletedRight
  <1>2. /\ PendingSteps(r) = Present(steps[r]) \ Done(steps[r])
        /\ Done(steps[r]) \subseteq Present(steps[r])
    BY <1>1, OpenArePending
  <1>3. PendingSteps(r) # {} <=> \E k \in Key : steps[r][k].status = "pending"
    BY DEF PendingSteps
  <1> QED
    BY <1>1, <1>2, <1>3

(* Each record is behind the bars of its own labels, and behind no other.  *)
LEMMA BehindBars ==
    ASSUME NEW h, NEW k \in Key, NEW s
    PROVE  UNION {Bar(h, k, l, s) : l \in Label} =
               {r \in OfSchool(Scoped, h) : steps[r][k].status = s}
  <1>1. \A r \in OfSchool(Scoped, h) : LabelOf[r][k] \in Label
    BY LabelAssumption DEF OfSchool, Scoped, Rows
  <1> QED
    BY <1>1 DEF Bar

(* The bars of all labels of a key open its table; and of records that     *)
(* have been recounted, the tabs that read completed_on and those that     *)
(* read the step rows tell one story.  The report lists whom a reminder    *)
(* for the same items would name, recounted or not.                        *)
THEOREM ViewsAlwaysAgree == StaffSpec => []ViewsAgree
  <1>1. ASSUME NEW h, NEW k \in Key, NEW s \in Status
        PROVE  UNION {Bar(h, k, l, s) : l \in Label} = Table(h, Anything, k, s)
    <2>1. k # Anything /\ Anything # "completed" /\ Anything # "pending"
      BY AnythingAssumption DEF Anything
    <2>2. Table(h, Anything, k, s) = {r \in OfSchool(Scoped, h) : steps[r][k].status = s}
      BY <2>1 DEF Table, STEP_STATUSES
    <2> QED
      BY <2>2, BehindBars
  <1>2. ASSUME NEW h
        PROVE  Unfinished(h) = {r \in OfSchool(Scoped, h) :
                   Present(steps[r]) = {} \/ \E k \in Key : steps[r][k].status = "pending"}
    <2>1. ItemBars(h, "pending") =
              UNION {UNION {Bar(h, k, l, "pending") : l \in Label} : k \in Key}
      BY DEF ItemBars
    <2>2. ItemBars(h, "pending") =
              {r \in OfSchool(Scoped, h) : \E k \in Key : steps[r][k].status = "pending"}
      BY <2>1, BehindBars
    <2> QED
      BY <2>2 DEF Unfinished
  <1>3. ASSUME StaffInv, NEW h, AllSure(OfSchool(Scoped, h))
        PROVE  /\ \A k \in Key : Table(h, "completed", k, "pending") = {}
               /\ Table(h, "pending", Anything, Anything) = Unfinished(h)
               /\ Timeline(h, now).started - Timeline(h, now).completed =
                     Cardinality(Unfinished(h))
    <2> DEFINE rs == OfSchool(Scoped, h)
               open == {r \in rs : onboarding[r].completed_on = Null}
               done == {r \in rs : onboarding[r].completed_on # Null}
    <2>1. rs \in SUBSET Scoped /\ rs \in SUBSET Record
      BY DEF OfSchool, Scoped, Rows
    <2>2. Unfinished(h) = open
      BY <1>2, <1>3, <2>1, SureRecord DEF AllSure
    <2>3. ASSUME NEW k \in Key PROVE Table(h, "completed", k, "pending") = {}
      <3>1. k # Anything /\ "pending" \in STEP_STATUSES
        BY AnythingAssumption DEF STEP_STATUSES, Status
      <3>2. Table(h, "completed", k, "pending") \subseteq
                {r \in done : steps[r][k].status = "pending"}
        BY <3>1 DEF Table
      <3> QED
        BY <1>3, <2>1, <3>2, SureRecord DEF AllSure
    <2>4. Table(h, "pending", Anything, Anything) = open
      BY DEF Table
    <2>5. Timeline(h, now) = [started |-> Cardinality(rs), completed |-> Cardinality(done)]
      <3>1. \A r \in rs : /\ onboarding[r].started_on <= now
                          /\ onboarding[r].completed_on <= now
        BY <1>3, <2>1 DEF StaffInv, TypeOK, Passed
      <3>2. /\ {r \in rs : onboarding[r].started_on <= now} = rs
            /\ {r \in rs : onboarding[r].completed_on # Null
                              /\ onboarding[r].completed_on <= now} = done
        BY <3>1
      <3> QED
        BY <3>2 DEF Timeline
    <2>6. /\ Cardinality(rs) \in Nat /\ Cardinality(done) \in Nat /\ Cardinality(open) \in Nat
          /\ Cardinality(rs) = Cardinality(done) + Cardinality(open)
      BY <2>1, OneOrOther
    <2> HIDE DEF rs, open, done
    <2>7. Timeline(h, now).started - Timeline(h, now).completed = Cardinality(open)
      BY <2>5, <2>6
    <2> QED
      BY <2>2, <2>3, <2>4, <2>7
  <1>4. ASSUME StaffInv, NEW x \in SchoolRows,
               AllSure({r \in Scoped : SchoolOf[r] = x})
        PROVE  BySchool(x).percent = 100 <=>
                   {r \in Scoped : SchoolOf[r] = x} \intersect Unfinished(Anything) = {}
    <2> DEFINE rs == {r \in Scoped : SchoolOf[r] = x}
               open == {r \in rs : onboarding[r].completed_on = Null}
               done == {r \in rs : onboarding[r].completed_on # Null}
    <2>1. rs \in SUBSET Scoped /\ rs \in SUBSET Record /\ rs # {}
      BY DEF Scoped, Rows, SchoolRows
    <2>2. OfSchool(Scoped, Anything) = Scoped
      BY DEF OfSchool
    <2>3. rs \intersect Unfinished(Anything) = open
      BY <1>2, <1>4, <2>1, <2>2, SureRecord DEF AllSure
    <2>4. BySchool(x).percent = (100 * Cardinality(done)) \div Cardinality(rs)
      BY <2>1 DEF BySchool
    <2>5. /\ Cardinality(rs) \in Nat /\ Cardinality(done) \in Nat /\ Cardinality(open) \in Nat
          /\ Cardinality(rs) = Cardinality(done) + Cardinality(open)
          /\ Cardinality(rs) # 0 /\ (Cardinality(open) = 0 <=> open = {})
      BY <2>1, OneOrOther, RecordsCounted
    <2> HIDE DEF rs, open, done
    <2>6. (100 * Cardinality(done)) \div Cardinality(rs) = 100
              <=> Cardinality(done) = Cardinality(rs)
      <3>1. Cardinality(rs) > 0 /\ Cardinality(done) <= Cardinality(rs)
        BY <2>5
      <3> QED
        BY ONLY <2>5, <3>1, Percent
    <2>7. Cardinality(done) = Cardinality(rs) <=> open = {}
      BY <2>5
    <2> QED
      BY <2>3, <2>4, <2>6, <2>7 DEF rs
  <1>5. StaffInv => ViewsAgree
    BY <1>1, <1>3, <1>4, ReportIsPlan DEF ViewsAgree
  <1> QED
    BY <1>5, StaffInductive, PTL

(* With both counters recounted nobody falls between the tabs: a step that *)
(* is shown as pending puts its student on the report, the plan, the       *)
(* announcement and, in the end, the stalled tab.                          *)
THEOREM NobodyFallsBetween == StaffSpec => []PendingSeenEverywhere
  <1>1. ASSUME StaffInv, NEW r \in Scoped, unsure[r] = {}
        PROVE  /\ PendingCount(r) = Cardinality(PendingSteps(r))
               /\ Progress(r) = 100 <=> onboarding[r].completed_on # Null
               /\ \A k \in PendingSteps(r) :
                     /\ r \in PendingOnboardings({k}, Visible) \intersect Planned({k})
                     /\ EmailOf[r] \in Recipients({k}, Visible) \union {NoEmail}
                     /\ r \in Stalled(now + 1)
    <2> DEFINE ss == steps[r]
               t == Cardinality(Present(ss))
               c == Cardinality(Done(ss))
    <2>1. /\ r \in Record /\ r \in Rows /\ r \in Visible
          /\ onboarding[r].total_steps = t /\ onboarding[r].completed_steps = c
          /\ onboarding[r].completed_on # Null <=>
                 Present(ss) # {} /\ Done(ss) = Present(ss)
      BY <1>1 DEF Scoped, Rows, StaffInv, Repaired, CompletedRight, CountTotal, CountDone
    <2>2. /\ PendingSteps(r) = Present(ss) \ Done(ss) /\ Done(ss) \subseteq Present(ss)
          /\ Present(ss) \in SUBSET Key
      BY <1>1, <2>1, OpenArePending DEF Present
    <2>3. /\ t \in Nat /\ c \in Nat /\ c <= t /\ (c = t <=> Done(ss) = Present(ss))
          /\ t = 0 <=> Present(ss) = {}
          /\ Cardinality(PendingSteps(r)) = t - c
      <3> DEFINE P == Present(ss)
                 D == Done(ss)
      <3>1. IsFiniteSet(P) /\ D \in SUBSET P /\ PendingSteps(r) = P \ D
        BY <2>2, KeyAssumption, FS_Subset
      <3> HIDE DEF P, D, ss
      <3>2. IsFiniteSet(D) /\ IsFiniteSet(P \ D) /\ D \intersect (P \ D) = {}
            /\ D \union (P \ D) = P
        BY <3>1, FS_Subset
      <3>3. /\ Cardinality(P) \in Nat /\ Cardinality(D) \in Nat
            /\ Cardinality(P \ D) \in Nat
        BY <3>1, <3>2, FS_CardinalityType
      <3>4. Cardinality(P) = Cardinality(D) + Cardinality(P \ D) - Cardinality({})
        BY <3>2, FS_Union
      <3>5. Cardinality({}) = 0 /\ (Cardinality(P) = 0 <=> P = {})
        BY <3>1, FS_EmptySet
      <3>6. Cardinality(D) <= Cardinality(P) /\ (Cardinality(P) = Cardinality(D) => P = D)
        BY <3>1, FS_Subset
      <3> QED
        BY <3>1, <3>3, <3>4, <3>5, <3>6 DEF P, D
    <2>4. PendingCount(r) = Cardinality(PendingSteps(r))
      BY <2>1, <2>3 DEF PendingCount
    <2>5. Progress(r) = 100 <=> onboarding[r].completed_on # Null
      <3> HIDE DEF ss, t, c
      <3>1. Progress(r) = IF t = 0 THEN 0 ELSE (100 * c) \div t
        BY <2>1 DEF Progress
      <3>2. CASE t = 0
        BY <2>1, <2>3, <3>1, <3>2
      <3>3. CASE t # 0
        <4>1. (100 * c) \div t = 100 <=> c = t
          BY <2>3, <3>3, Percent
        <4> QED
          BY <2>1, <2>3, <3>1, <3>3, <4>1
      <3> QED
        BY <3>2, <3>3
    <2>6. ASSUME NEW k \in PendingSteps(r)
          PROVE  /\ r \in PendingOnboardings({k}, Visible) \intersect Planned({k})
                 /\ EmailOf[r] \in Recipients({k}, Visible) \union {NoEmail}
                 /\ r \in Stalled(now + 1)
      <3>1. onboarding[r].completed_on = Null /\ k \in Key
        BY <2>1, <2>2
      <3>2. r \in PendingOnboardings({k}, Visible)
        BY <2>1, <3>1 DEF PendingOnboardings
      <3>3. r \in Planned({k})
        <4>1. {k} \in SUBSET Key
          BY <3>1
        <4> QED
          BY <1>1, <3>2, <4>1, ReportIsPlan
      <3>4. r \in Stalled(now + 1)
        <4>1. /\ onboarding[r].started_on <= now
              /\ \A j \in Key : steps[r][j].completed_on <= now
              /\ now \in Nat /\ 0 <= now
          BY <1>1, <2>1 DEF StaffInv, TypeOK, Passed, Time
        <4>2. /\ LastStepCompletedOn(r) \in {Null} \union {steps[r][j].completed_on : j \in Key}
              /\ LastStepCompletedOn(r) \in Nat
          BY <1>1, <2>1, LatestRight
        <4>3. LastStepCompletedOn(r) <= now
          BY <4>1, <4>2 DEF Null
        <4>4. onboarding[r].started_on \in Nat
          BY <1>1, <2>1 DEF StaffInv, TypeOK, OnboardingRow, Timestamp, Time, Null
        <4>5. NoProgressSince(r, now + 1)
          BY <4>1, <4>2, <4>3, <4>4 DEF NoProgressSince
        <4> QED
          BY <1>1, <3>1, <4>5 DEF Stalled
      <3> QED
        BY <3>2, <3>3, <3>4 DEF Recipients
    <2> QED
      BY <2>4, <2>5, <2>6
  <1>2. StaffInv => PendingSeenEverywhere
    BY <1>1 DEF PendingSeenEverywhere
  <1> QED
    BY <1>2, StaffInductive, PTL

-----------------------------------------------------------------------------
(***************************************************************************)
(* BatchRecalculate, for every set of students, terms, campuses and ids,   *)
(* every user and any number of outside changes.                           *)
(***************************************************************************)
RequestPhase ==
    {"idle", "filter", "term", "refused", "loop", "busy", "clicked", "responded"}
BatchRow ==
    [pc : RequestPhase, raw : SUBSET Id, posted : Term \union {NoTerm},
     rows : [Student -> Nat], skipped : Int, term : Term \union {NoTerm},
     processed : Nat, failed : Nat, totals : [Changes -> Nat]]
JobRow ==
    [pc : {"idle", "resolve", "create", "work"}, student : Student \union {NoStudent},
     term : Term \union {NoTerm}, result : [Changes -> SUBSET Key]]
HeardRow ==
    [seen : SUBSET Student, active : SUBSET (Term \union {NoTerm, Unset}),
     asked : SUBSET (Student \union {NoStudent}), found : SUBSET Student,
     attempts : [Student -> Nat]]

BatchTyped ==
    /\ TypeOK
    /\ existing \subseteq Student
    /\ active \in ActiveTerms
    /\ request \in BatchRow
    /\ job \in JobRow
    /\ heard \in HeardRow
    /\ outside \in 0 .. MaxOutside

(* A deleted student leaves no record, and every job has its caller.       *)
OwnersExist == \A r \in Record : Exists(r) => r[1] \in existing
CallerWaits == job.pc # "idle" <=> request.pc \in {"busy", "clicked"}

(* Before the filter nothing has been counted; after it every student it   *)
(* found is still a row, under way, or in one of the two counts.           *)
Filtered == request.pc \in {"term", "loop", "busy", "responded"}
Waiting == {s \in Student : request.rows[s] > 0}
UnderWay == IF request.pc = "busy" THEN 1 ELSE 0
CountInv ==
    /\ request.pc = "filter" =>
          /\ heard.asked = {StudentOf[i] : i \in request.raw}
          /\ \A s \in Student : heard.attempts[s] = 0
    /\ request.pc \in {"filter", "term"} =>
          /\ request.processed = 0 /\ request.failed = 0
          /\ \A c \in Changes : request.totals[c] = 0
    /\ request.pc = "responded" => Waiting = {}
    /\ Filtered =>
          /\ IsFiniteSet(heard.found)
          /\ Waiting \subseteq heard.found
          /\ \A s \in Student :
                heard.attempts[s] + request.rows[s] = IF s \in heard.found THEN 1 ELSE 0
          /\ request.processed + request.failed + UnderWay + Cardinality(Waiting)
                 = Cardinality(heard.found)
          /\ request.skipped >= 0
          /\ \A c \in Changes :
                request.totals[c] <= request.processed * Cardinality(Key)

(* What the history has kept up with since the request or the click.       *)
HeardInv ==
    /\ request.pc # "idle" => active \in heard.active /\ Seen \subseteq heard.seen
    /\ Filtered => heard.found \subseteq heard.seen \intersect heard.asked

(* The term of the request is the posted one if that is allowed, or was    *)
(* active; and that of a job, once it is resolved, is the request's.       *)
TermInv ==
    /\ request.pc \in {"idle", "filter", "term", "clicked"} => request.term = NoTerm
    /\ request.pc \in {"idle", "clicked"} => request.posted = NoTerm
    /\ request.pc \in {"loop", "busy"} =>
          IF request.posted # NoTerm
          THEN request.term = request.posted /\ ~Refused(request.posted)
          ELSE request.term \in heard.active \union {NoTerm}

JobInv ==
    /\ job.pc # "idle" =>
          /\ job.student \in Student
          /\ job.student \in heard.seen \intersect heard.asked
    /\ job.pc = "resolve" => job.term = request.term
    /\ job.pc \in {"create", "work"} => job.term \in Term /\ Entitled(Rec)

BatchInv ==
    BatchTyped /\ OwnersExist /\ CallerWaits /\ CountInv /\ HeardInv /\ TermInv /\ JobInv

(* What the actions that touch neither the checklists nor the world keep.  *)
LEMMA SeenStudents ==
    ASSUME BatchTyped
    PROVE  Seen \subseteq existing /\ Seen \subseteq Student
  BY DEF Seen, BatchTyped

LEMMA QuietWorld ==
    ASSUME BatchInv, UNCHANGED <<checklist, world>>
    PROVE  /\ TypeOK' /\ OwnersExist' /\ existing' \subseteq Student
           /\ active' \in ActiveTerms'
           /\ Seen' = Seen /\ active' = active /\ user' = user
           /\ onboarding' = onboarding /\ steps' = steps
  <1>1. /\ onboarding' = onboarding /\ steps' = steps /\ now' = now
        /\ user' = user /\ existing' = existing /\ reach' = reach /\ active' = active
    BY DEF checklist, world
  <1>2. Seen' = Seen
    BY <1>1 DEF Seen, Reasons
  <1>3. TypeOK'
    BY <1>1 DEF BatchInv, BatchTyped, TypeOK, Passed
  <1>4. OwnersExist'
    BY <1>1 DEF BatchInv, OwnersExist, Exists
  <1> QED
    BY <1>1, <1>2, <1>3, <1>4 DEF BatchInv, BatchTyped, ActiveTerms

LEMMA BlankTyped ==
    NoRequest \in BatchRow /\ NoJob \in JobRow /\ NoneHeard \in HeardRow
  <1>1. NoRequest \in BatchRow
    BY DEF NoRequest, BatchRow, RequestPhase, NoTotals
  <1>2. NoJob \in JobRow
    BY DEF NoJob, JobRow, NoResult
  <1>3. NoneHeard \in HeardRow
    BY DEF NoneHeard, HeardRow
  <1> QED
    BY <1>1, <1>2, <1>3

LEMMA BatchInitRight == BatchInit => BatchInv
  <1> SUFFICES ASSUME BatchInit PROVE BatchInv
    OBVIOUS
  <1>1. PICK rs \in {{}, Record} :
            /\ onboarding = [r \in Record |-> IF r \in rs THEN Completed(1)
                                             ELSE NoOnboarding]
            /\ steps = [r \in Record |-> [k \in Key |->
                  IF r \in rs THEN StepBorn("completed", 1) ELSE NoStep]]
    BY DEF BatchInit
  <1>2. /\ NoOnboarding \in OnboardingRow /\ Completed(1) \in OnboardingRow
        /\ NoOnboarding.started_on = 0 /\ NoOnboarding.completed_on = 0
        /\ Completed(1).started_on = 1 /\ Completed(1).completed_on = 1
    <2>1. NewOnboarding(1) \in OnboardingRow /\ NoOnboarding \in OnboardingRow
      BY NewRowTyped, MaxTimeAssumption DEF NoOnboarding, Timestamp, Time, Null
    <2>2. Cardinality(Key) \in Count /\ 1 \in Timestamp
      BY KeyAssumption, FS_CardinalityType, MaxTimeAssumption DEF Count, Timestamp, Time
    <2> QED
      BY <2>1, <2>2 DEF Completed, NoOnboarding, NewOnboarding, OnboardingRow, Null
  <1>3. /\ NoStep \in StepRow /\ StepBorn("completed", 1) \in StepRow
        /\ NoStep.completed_on = 0 /\ StepBorn("completed", 1).completed_on = 1
    <2>1. 1 \in Time
      BY MaxTimeAssumption DEF Time
    <2> QED
      BY <2>1, StepsTyped DEF StepBorn, NoStep, StepRow, Null, Status, DoneStatus
  <1>4. now = 1 /\ 1 \in Time
    BY MaxTimeAssumption DEF BatchInit, Time
  <1>5. TypeOK
    <2>1. onboarding \in [Record -> OnboardingRow] /\ steps \in [Record -> [Key -> StepRow]]
      BY <1>1, <1>2, <1>3
    <2>2. ASSUME NEW r \in Record, NEW t \in Passed(r) PROVE t <= now
      <3>1. onboarding[r].started_on \in {0, 1} /\ onboarding[r].completed_on \in {0, 1}
        BY <1>1, <1>2
      <3>2. \A k \in Key : steps[r][k].completed_on \in {0, 1}
        BY <1>1, <1>3
      <3> QED
        BY <2>2, <3>1, <3>2, <1>4 DEF Passed
    <2> QED
      BY <2>1, <2>2, <1>4 DEF TypeOK
  <1>6. OwnersExist
    <2> SUFFICES ASSUME NEW r \in Record PROVE r[1] \in existing
      BY DEF OwnersExist
    <2> QED
      BY RecordAssumption DEF BatchInit
  <1>7. request = NoRequest /\ job = NoJob /\ heard = NoneHeard /\ outside = 0
        /\ existing = Student /\ active \in ActiveTerms
    BY DEF BatchInit
  <1>8. BatchTyped
    BY <1>5, <1>7, BlankTyped, MaxOutsideAssumption DEF BatchTyped
  <1>9. request.pc = "idle" /\ job.pc = "idle" /\ request.term = NoTerm
        /\ request.posted = NoTerm
    BY <1>7 DEF NoRequest, NoJob
  <1> QED
    BY <1>6, <1>8, <1>9
       DEF BatchInv, CallerWaits, CountInv, HeardInv, TermInv, JobInv, Filtered

-----------------------------------------------------------------------------
(* The request up to its loop.                                             *)
LEMMA PostKeeps ==
    ASSUME BatchInv, NEW raw \in SUBSET Id, NEW posted \in Term \union {NoTerm},
           Post(raw, posted)
    PROVE  BatchInv'
  <1>1. /\ request' = [NoRequest EXCEPT !.pc = "filter", !.raw = raw, !.posted = posted]
        /\ heard' = [NoneHeard EXCEPT !.seen = Seen, !.active = {active},
                                      !.asked = {StudentOf[i] : i \in raw}]
        /\ job' = job /\ outside' = outside /\ request.pc = "idle"
    BY DEF Post, Hears
  <1>2. /\ request'.pc = "filter" /\ request'.raw = raw /\ request'.term = NoTerm
        /\ request'.processed = 0 /\ request'.failed = 0
        /\ \A c \in Changes : request'.totals[c] = 0
        /\ heard'.asked = {StudentOf[i] : i \in raw} /\ heard'.seen = Seen
        /\ heard'.active = {active} /\ \A s \in Student : heard'.attempts[s] = 0
    BY <1>1 DEF NoRequest, NoneHeard, NoTotals
  <1>3. UNCHANGED <<checklist, world>>
    BY DEF Post
  <1>4. BatchTyped'
    <2>1. request' \in BatchRow
      BY <1>1, BlankTyped DEF BatchRow, RequestPhase
    <2>2. {StudentOf[i] : i \in raw} \subseteq Student \union {NoStudent}
      BY IdAssumption
    <2>3. active \in Term \union {NoTerm, Unset}
      BY DEF BatchInv, BatchTyped, ActiveTerms
    <2>4. heard' \in HeardRow
      BY <1>1, <2>2, <2>3, BlankTyped, SeenStudents DEF BatchInv, HeardRow
    <2> QED
      BY <1>1, <1>3, <2>1, <2>4, QuietWorld DEF BatchInv, BatchTyped
  <1>5. job.pc = "idle"
    BY <1>1 DEF BatchInv, CallerWaits
  <1> QED
    BY <1>1, <1>2, <1>3, <1>4, <1>5, QuietWorld
       DEF BatchInv, CallerWaits, CountInv, HeardInv, TermInv, JobInv, Filtered

(* Each student the filter finds is named by an id of its own.             *)
LEMMA FewerThanIds ==
    ASSUME NEW raw \in SUBSET Id, NEW S \in SUBSET {StudentOf[i] : i \in raw}
    PROVE  IsFiniteSet(S) /\ Cardinality(S) <= Cardinality(raw)
           /\ Cardinality(S) \in Nat /\ Cardinality(raw) \in Nat
  <1> DEFINE T == {StudentOf[i] : i \in raw}
             f == [i \in raw |-> StudentOf[i]]
  <1>1. IsFiniteSet(raw)
    BY FiniteIdAssumption, FS_Subset
  <1>2. f \in Surjection(raw, T)
    BY DEF Surjection
  <1>3. IsFiniteSet(T) /\ Cardinality(T) <= Cardinality(raw)
    BY <1>1, <1>2, FS_Surjection
  <1>4. IsFiniteSet(S) /\ Cardinality(S) <= Cardinality(T)
    BY <1>3, FS_Subset
  <1>5. Cardinality(raw) \in Nat /\ Cardinality(T) \in Nat /\ Cardinality(S) \in Nat
    BY <1>1, <1>3, <1>4, FS_CardinalityType
  <1> QED
    BY <1>3, <1>4, <1>5

LEMMA FilterKeeps ==
    ASSUME BatchInv, Filter
    PROVE  BatchInv'
  <1> DEFINE found == InScope(request.raw)
  <1>1. /\ request.pc = "filter" /\ job' = job /\ outside' = outside
        /\ request' = [request EXCEPT
               !.pc = "term", !.raw = {},
               !.rows = [s \in Student |-> IF s \in found THEN 1 ELSE 0],
               !.skipped = Cardinality(request.raw) - Cardinality(found)]
        /\ heard' = [heard EXCEPT !.found = heard.asked \intersect Seen]
        /\ UNCHANGED <<checklist, world>>
    BY DEF Filter, RowsOf
  <1>2. request \in BatchRow /\ heard \in HeardRow /\ BatchTyped
    BY DEF BatchInv, BatchTyped
  <1>3. found = heard.asked \intersect Seen
    BY <1>1, <1>2, SeenStudents DEF BatchInv, CountInv, InScope, Asked
  <1>4. /\ IsFiniteSet(found) /\ Cardinality(found) <= Cardinality(request.raw)
        /\ Cardinality(found) \in Nat /\ Cardinality(request.raw) \in Nat
    <2>1. request.raw \in SUBSET Id
      BY <1>2 DEF BatchRow
    <2>2. found \in SUBSET {StudentOf[i] : i \in request.raw}
      BY DEF InScope, Asked
    <2> QED
      BY <2>1, <2>2, FewerThanIds
  <1>5. found \subseteq Student
    BY <1>2, <1>3, SeenStudents
  <1> HIDE DEF found
  <1>6. /\ request'.pc = "term" /\ request'.processed = request.processed
        /\ request'.failed = request.failed /\ request'.totals = request.totals
        /\ request'.skipped = Cardinality(request.raw) - Cardinality(found)
        /\ request'.rows = [s \in Student |-> IF s \in found THEN 1 ELSE 0]
        /\ request'.term = request.term
        /\ heard'.found = found /\ heard'.seen = heard.seen /\ heard'.asked = heard.asked
        /\ heard'.active = heard.active /\ heard'.attempts = heard.attempts
    BY <1>1, <1>2, <1>3 DEF BatchRow, HeardRow
  <1>7. BatchTyped'
    <2>1. request' \in BatchRow
      <3> DEFINE rows == [s \in Student |-> IF s \in found THEN 1 ELSE 0]
                 skipped == Cardinality(request.raw) - Cardinality(found)
      <3>1. rows \in [Student -> Nat] /\ skipped \in Int
        BY <1>4
      <3>2. request' = [request EXCEPT !.pc = "term", !.raw = {}, !.rows = rows,
                                       !.skipped = skipped]
        BY <1>1
      <3> HIDE DEF rows, skipped
      <3> QED
        BY <1>2, <3>1, <3>2 DEF BatchRow, RequestPhase
    <2>2. heard' \in HeardRow
      BY <1>1, <1>2, <1>3, <1>5 DEF HeardRow
    <2> QED
      BY <1>1, <2>1, <2>2, QuietWorld DEF BatchInv, BatchTyped
  <1>8. CountInv'
    <2>1. Waiting' = found
      BY <1>5, <1>6 DEF Waiting
    <2>2. UnderWay' = 0
      BY <1>6 DEF UnderWay
    <2>3. /\ request.processed = 0 /\ request.failed = 0
          /\ \A c \in Changes : request.totals[c] = 0
          /\ \A s \in Student : heard.attempts[s] = 0
      BY <1>1 DEF BatchInv, CountInv
    <2>4. \A s \in Student :
              heard'.attempts[s] + request'.rows[s] = IF s \in found THEN 1 ELSE 0
      BY <1>6, <2>3
    <2>5. Cardinality(Key) \in Nat
      BY KeyAssumption, FS_CardinalityType
    <2>6. \A c \in Changes :
              request'.totals[c] <= request'.processed * Cardinality(Key)
      BY <1>6, <2>3, <2>5
    <2>7. request'.skipped >= 0
      BY <1>4, <1>6
    <2>8. request'.processed + request'.failed + UnderWay' + Cardinality(Waiting')
              = Cardinality(heard'.found)
      BY <1>4, <1>6, <2>1, <2>2, <2>3
    <2> QED
      BY <1>4, <1>6, <2>1, <2>3, <2>4, <2>6, <2>7, <2>8 DEF CountInv
  <1>9. job.pc = "idle"
    BY <1>1 DEF BatchInv, CallerWaits
  <1>10. HeardInv' /\ TermInv' /\ JobInv' /\ CallerWaits'
    BY <1>1, <1>3, <1>5, <1>6, <1>9, QuietWorld
       DEF BatchInv, CallerWaits, HeardInv, TermInv, JobInv
  <1> QED
    BY <1>1, <1>7, <1>8, <1>10, QuietWorld DEF BatchInv

LEMMA RefusedKept ==
    ASSUME user' = user, request'.posted = request.posted
    PROVE  Refused(request.posted)' <=> Refused(request.posted)
  BY DEF Refused, MayProcess

LEMMA PickTermKeeps ==
    ASSUME BatchInv, PickTerm
    PROVE  BatchInv'
  <1> DEFINE picked == IF request.posted # NoTerm THEN request.posted
                       ELSE IF active = Unset THEN NoTerm ELSE active
  <1>1. /\ request.pc = "term" /\ job' = job /\ heard' = heard /\ outside' = outside
        /\ UNCHANGED <<checklist, world>>
        /\ \/ /\ Refused(request.posted)
              /\ request' = [request EXCEPT !.pc = "refused"]
           \/ /\ ~Refused(request.posted)
              /\ request' = [request EXCEPT !.pc = "loop", !.term = picked]
    BY DEF PickTerm
  <1>2. request \in BatchRow /\ active \in Term \union {NoTerm, Unset}
    BY DEF BatchInv, BatchTyped, ActiveTerms
  <1>3. picked \in Term \union {NoTerm} /\ job.pc = "idle" /\ active \in heard.active
        /\ (request.posted = NoTerm => picked \in heard.active \union {NoTerm})
        /\ (request.posted # NoTerm => picked = request.posted)
    BY <1>1, <1>2, TermAssumption DEF BatchInv, CallerWaits, HeardInv, BatchRow
  <1> HIDE DEF picked
  <1>4. BatchTyped' /\ OwnersExist' /\ UNCHANGED <<active, user>> /\ Seen' = Seen
    <2>1. request' \in BatchRow
      BY <1>1, <1>2, <1>3 DEF BatchRow, RequestPhase
    <2> QED
      BY <1>1, <2>1, QuietWorld DEF BatchInv, BatchTyped
  <1>5. CASE request'.pc = "refused"
    BY <1>1, <1>3, <1>4, <1>5
       DEF BatchInv, CallerWaits, CountInv, HeardInv, TermInv, JobInv, Filtered
  <1>6. CASE request'.pc = "loop"
    <2>1. ~Refused(request.posted)
      BY <1>1, <1>2, <1>6 DEF BatchRow
    <2>2. /\ request'.posted = request.posted /\ request'.rows = request.rows
          /\ request'.processed = request.processed /\ request'.failed = request.failed
          /\ request'.totals = request.totals /\ request'.skipped = request.skipped
          /\ request'.term = picked
      BY <1>1, <1>2, <2>1 DEF BatchRow
    <2>3. Waiting' = Waiting /\ UnderWay' = UnderWay
      BY <1>1, <1>6, <2>2 DEF Waiting, UnderWay
    <2>4. CountInv'
      BY <1>1, <1>6, <2>2, <2>3 DEF BatchInv, CountInv, Filtered
    <2>5. Refused(request.posted)' <=> Refused(request.posted)
      BY <1>4, <2>2, RefusedKept
    <2>6. TermInv'
      BY <1>1, <1>3, <1>6, <2>1, <2>2, <2>5 DEF TermInv
    <2> QED
      BY <1>1, <1>3, <1>4, <1>6, <2>4, <2>6
         DEF BatchInv, CallerWaits, HeardInv, JobInv, Filtered
  <1> QED
    BY <1>1, <1>2, <1>5, <1>6 DEF BatchRow

LEMMA NextStudentKeeps ==
    ASSUME BatchInv, NEW s \in Student, NextStudent(s)
    PROVE  BatchInv'
  <1>1. /\ request.pc = "loop" /\ request.rows[s] > 0 /\ outside' = outside
        /\ request' = [request EXCEPT !.pc = "busy", !.rows[s] = @ - 1]
        /\ job' = [NoJob EXCEPT !.pc = "resolve", !.student = s, !.term = request.term]
        /\ heard' = [heard EXCEPT !.attempts[s] = @ + 1]
        /\ UNCHANGED <<checklist, world>>
    BY DEF NextStudent, PassedTerm
  <1>2. request \in BatchRow /\ heard \in HeardRow
    BY DEF BatchInv, BatchTyped
  <1>3. /\ request.rows \in [Student -> Nat] /\ heard.attempts \in [Student -> Nat]
        /\ request.rows[s] \in Nat /\ request.rows[s] - 1 \in Nat
        /\ heard.attempts[s] \in Nat
    BY <1>1, <1>2 DEF BatchRow, HeardRow
  <1>4. s \in heard.found /\ request.rows[s] = 1 /\ heard.attempts[s] = 0
    BY <1>1, <1>3 DEF BatchInv, CountInv, Filtered, Waiting
  <1>5. /\ request'.pc = "busy" /\ request'.posted = request.posted
        /\ request'.rows = [request.rows EXCEPT ![s] = 0]
        /\ request'.processed = request.processed /\ request'.failed = request.failed
        /\ request'.totals = request.totals /\ request'.skipped = request.skipped
        /\ request'.term = request.term
        /\ job'.pc = "resolve" /\ job'.student = s /\ job'.term = request.term
        /\ heard'.attempts = [heard.attempts EXCEPT ![s] = 1]
        /\ heard'.seen = heard.seen /\ heard'.asked = heard.asked
        /\ heard'.found = heard.found /\ heard'.active = heard.active
    BY <1>1, <1>2, <1>4 DEF BatchRow, HeardRow, NoJob
  <1>6. BatchTyped' /\ OwnersExist' /\ UNCHANGED <<active, user>> /\ Seen' = Seen
    <2>1. request' \in BatchRow
      BY <1>1, <1>2, <1>3 DEF BatchRow, RequestPhase
    <2>2. job' \in JobRow
      BY <1>1, <1>2, BlankTyped DEF BatchRow, JobRow
    <2>3. heard' \in HeardRow
      BY <1>1, <1>2, <1>3 DEF HeardRow
    <2> QED
      BY <1>1, <2>1, <2>2, <2>3, QuietWorld DEF BatchInv, BatchTyped
  <1>7. CountInv'
    <2>1. Waiting' = Waiting \ {s} /\ s \in Waiting
      BY <1>1, <1>3, <1>5 DEF Waiting
    <2>2. UnderWay' = 1 /\ UnderWay = 0
      BY <1>1, <1>5 DEF UnderWay
    <2>3. /\ IsFiniteSet(heard.found) /\ Waiting \subseteq heard.found
          /\ \A q \in Student :
                heard.attempts[q] + request.rows[q] = IF q \in heard.found THEN 1 ELSE 0
          /\ request.processed + request.failed + UnderWay + Cardinality(Waiting)
                 = Cardinality(heard.found)
          /\ request.skipped >= 0
          /\ \A c \in Changes :
                request.totals[c] <= request.processed * Cardinality(Key)
      BY <1>1 DEF BatchInv, CountInv, Filtered
    <2>4. IsFiniteSet(Waiting) /\ Cardinality(Waiting) \in Nat
          /\ Cardinality(Waiting \ {s}) = Cardinality(Waiting) - 1
      BY <2>1, <2>3, FS_Subset, FS_RemoveElement, FS_CardinalityType
    <2>5. request.processed \in Nat /\ request.failed \in Nat
      BY <1>2 DEF BatchRow
    <2>6. request'.processed + request'.failed + UnderWay' + Cardinality(Waiting')
              = Cardinality(heard'.found)
      BY <1>5, <2>1, <2>2, <2>3, <2>4, <2>5
    <2>7. \A q \in Student :
              heard'.attempts[q] + request'.rows[q] = IF q \in heard'.found THEN 1 ELSE 0
      BY <1>3, <1>4, <1>5, <2>3
    <2> QED
      BY <1>5, <2>1, <2>3, <2>6, <2>7 DEF CountInv
  <1>8. TermInv'
    <2>1. Refused(request.posted)' <=> Refused(request.posted)
      BY <1>5, <1>6, RefusedKept
    <2> QED
      BY <1>1, <1>5, <2>1 DEF BatchInv, TermInv
  <1>9. CallerWaits' /\ HeardInv' /\ JobInv'
    BY <1>1, <1>4, <1>5, <1>6 DEF BatchInv, CallerWaits, HeardInv, JobInv, Filtered
  <1> QED
    BY <1>6, <1>7, <1>8, <1>9 DEF BatchInv

LEMMA RespondKeeps ==
    ASSUME BatchInv, Respond
    PROVE  BatchInv'
  <1>1. /\ request.pc = "loop" /\ job' = job /\ heard' = heard /\ outside' = outside
        /\ request' = [request EXCEPT !.pc = "responded"]
        /\ UNCHANGED <<checklist, world>>
    BY DEF Respond
  <1>2. request \in BatchRow
    BY DEF BatchInv, BatchTyped
  <1>3. /\ request'.pc = "responded" /\ request'.rows = request.rows
        /\ request'.processed = request.processed /\ request'.failed = request.failed
        /\ request'.totals = request.totals /\ request'.skipped = request.skipped
    BY <1>1, <1>2 DEF BatchRow
  <1>4. BatchTyped' /\ OwnersExist' /\ UNCHANGED active /\ Seen' = Seen
    <2>1. request' \in BatchRow
      BY <1>1, <1>2 DEF BatchRow, RequestPhase
    <2> QED
      BY <1>1, <2>1, QuietWorld DEF BatchInv, BatchTyped
  <1>5. CountInv'
    <2>1. Waiting' = Waiting /\ UnderWay' = UnderWay /\ Waiting = {}
      BY <1>1, <1>3 DEF Respond, Waiting, UnderWay
    <2> QED
      BY <1>1, <1>3, <2>1 DEF BatchInv, CountInv, Filtered
  <1>6. job.pc = "idle"
    BY <1>1 DEF BatchInv, CallerWaits
  <1> QED
    BY <1>1, <1>3, <1>4, <1>5, <1>6
       DEF BatchInv, CallerWaits, HeardInv, TermInv, JobInv, Filtered

LEMMA ClickKeeps ==
    ASSUME BatchInv, NEW s \in Student, Click(s)
    PROVE  BatchInv'
  <1>1. /\ request.pc = "idle" /\ request' = [request EXCEPT !.pc = "clicked"]
        /\ job' = [NoJob EXCEPT !.pc = "resolve", !.student = s]
        /\ heard' = [NoneHeard EXCEPT !.seen = Seen, !.active = {active}, !.asked = {s}]
        /\ outside' = outside /\ s \in Seen
        /\ UNCHANGED <<checklist, world>>
    BY DEF Click, Hears
  <1>2. /\ request'.pc = "clicked" /\ request'.term = NoTerm /\ request'.posted = NoTerm
        /\ job'.pc = "resolve" /\ job'.student = s /\ job'.term = NoTerm
        /\ heard'.seen = Seen /\ heard'.active = {active} /\ heard'.asked = {s}
    <2>1. request \in BatchRow /\ request.term = NoTerm /\ request.posted = NoTerm
      BY <1>1 DEF BatchInv, BatchTyped, TermInv
    <2> QED
      BY <1>1, <2>1 DEF BatchRow, NoJob, NoneHeard
  <1>3. BatchTyped' /\ OwnersExist' /\ UNCHANGED active /\ Seen' = Seen
    <2>1. request' \in BatchRow /\ job' \in JobRow
      BY <1>1, BlankTyped DEF BatchInv, BatchTyped, BatchRow, JobRow, RequestPhase
    <2>2. active \in Term \union {NoTerm, Unset}
      BY DEF BatchInv, BatchTyped, ActiveTerms
    <2>3. heard' \in HeardRow
      BY <1>1, <2>2, BlankTyped, SeenStudents DEF BatchInv, HeardRow
    <2> QED
      BY <1>1, <2>1, <2>3, QuietWorld DEF BatchInv, BatchTyped
  <1> QED
    BY <1>1, <1>2, <1>3
       DEF BatchInv, CallerWaits, CountInv, HeardInv, TermInv, JobInv, Filtered

-----------------------------------------------------------------------------
(* The end of a recalculation: the request goes on to its next student     *)
(* with one more counted, or has been a click and is over.                 *)
LEMMA JobEnds ==
    ASSUME BatchInv, job.pc # "idle", job' = NoJob,
           UNCHANGED <<checklist, world, heard, outside>>,
           request.pc = "clicked" => request' = NoRequest,
           request.pc = "busy" =>
               /\ request' \in BatchRow /\ request'.pc = "loop"
               /\ request'.posted = request.posted /\ request'.term = request.term
               /\ request'.rows = request.rows /\ request'.skipped = request.skipped
               /\ request'.processed + request'.failed
                      = request.processed + request.failed + 1
               /\ \A c \in Changes :
                     request'.totals[c] <= request'.processed * Cardinality(Key)
    PROVE  BatchInv'
  <1>1. /\ request \in BatchRow /\ request.pc \in {"busy", "clicked"}
        /\ heard' = heard /\ outside' = outside /\ job'.pc = "idle"
    BY DEF BatchInv, BatchTyped, CallerWaits, NoJob
  <1>2. UNCHANGED <<checklist, world>>
    OBVIOUS
  <1>3. BatchTyped' /\ OwnersExist' /\ UNCHANGED <<active, user>> /\ Seen' = Seen
    <2>1. request' \in BatchRow /\ job' \in JobRow
      BY <1>1, BlankTyped
    <2> QED
      BY <1>1, <1>2, <2>1, QuietWorld DEF BatchInv, BatchTyped
  <1>4. CASE request.pc = "clicked"
    <2>1. request'.pc = "idle" /\ request'.term = NoTerm /\ request'.posted = NoTerm
      BY <1>4 DEF NoRequest
    <2> QED
      BY <1>1, <1>3, <2>1
         DEF BatchInv, CallerWaits, CountInv, HeardInv, TermInv, JobInv, Filtered
  <1>5. CASE request.pc = "busy"
    <2>1. CountInv'
      <3>1. Waiting' = Waiting /\ UnderWay' = 0 /\ UnderWay = 1
        BY <1>5 DEF Waiting, UnderWay
      <3>2. IsFiniteSet(heard.found) /\ Waiting \subseteq heard.found
        BY <1>5 DEF BatchInv, CountInv, Filtered
      <3>3. Cardinality(Waiting) \in Nat
        BY <3>2, FS_Subset, FS_CardinalityType
      <3>4. /\ request.processed \in Nat /\ request.failed \in Nat
            /\ request'.processed \in Nat /\ request'.failed \in Nat
        BY <1>1, <1>5 DEF BatchRow
      <3>5. request'.processed + request'.failed + UnderWay' + Cardinality(Waiting')
                = Cardinality(heard'.found)
        BY <1>1, <1>5, <3>1, <3>3, <3>4 DEF BatchInv, CountInv, Filtered
      <3> QED
        BY <1>1, <1>5, <3>1, <3>5 DEF BatchInv, CountInv, Filtered
    <2>2. TermInv'
      <3>1. Refused(request.posted)' <=> Refused(request.posted)
        BY <1>3, <1>5, RefusedKept
      <3> QED
        BY <1>1, <1>5, <3>1 DEF BatchInv, TermInv
    <2> QED
      BY <1>1, <1>3, <1>5, <2>1, <2>2
         DEF BatchInv, CallerWaits, HeardInv, JobInv, Filtered
  <1> QED
    BY <1>1, <1>4, <1>5

LEMMA RaisesKeeps ==
    ASSUME BatchInv, job.pc # "idle", Raises,
           UNCHANGED <<checklist, world, heard, outside>>
    PROVE  BatchInv'
  <1>1. request \in BatchRow
    BY DEF BatchInv, BatchTyped
  <1>2. request.pc = "clicked" => request' = NoRequest
    BY DEF Raises
  <1>3. ASSUME request.pc = "busy"
        PROVE  /\ request' \in BatchRow /\ request'.pc = "loop"
               /\ request'.posted = request.posted /\ request'.term = request.term
               /\ request'.rows = request.rows /\ request'.skipped = request.skipped
               /\ request'.processed + request'.failed
                      = request.processed + request.failed + 1
               /\ \A c \in Changes :
                     request'.totals[c] <= request'.processed * Cardinality(Key)
    <2>1. request' = [request EXCEPT !.pc = "loop", !.failed = @ + 1]
      BY <1>3 DEF Raises, Skip
    <2>2. request.failed \in Nat /\ request.failed + 1 \in Nat /\ request.processed \in Nat
      BY <1>1 DEF BatchRow
    <2>3. request' \in BatchRow
      BY <1>1, <2>1, <2>2 DEF BatchRow, RequestPhase
    <2>4. /\ request'.pc = "loop"
          /\ request'.posted = request.posted /\ request'.term = request.term
          /\ request'.rows = request.rows /\ request'.skipped = request.skipped
          /\ request'.failed = request.failed + 1
          /\ request'.processed = request.processed /\ request'.totals = request.totals
      BY <1>1, <2>1 DEF BatchRow
    <2>5. \A c \in Changes : request'.totals[c] <= request'.processed * Cardinality(Key)
      BY <1>3, <2>4 DEF BatchInv, CountInv, Filtered
    <2> QED
      BY <2>2, <2>3, <2>4, <2>5
  <1> QED
    BY <1>2, <1>3, JobEnds DEF Raises

LEMMA OneMoreRow ==
    ASSUME NEW p \in Nat, NEW size \in Nat, NEW total \in Nat, NEW n \in Nat,
           total <= p * size, n <= size
    PROVE  total + n <= (p + 1) * size
  <1>1. (p + 1) * size = p * size + size
    OBVIOUS
  <1>2. p * size \in Nat
    OBVIOUS
  <1> QED
    BY <1>1, <1>2

(* A result names each key at most once per list, so the totals grow by at *)
(* most the number of keys.                                                *)
LEMMA ReturnsKeeps ==
    ASSUME BatchInv, job.pc # "idle", Returns,
           UNCHANGED <<checklist, world, heard, outside>>
    PROVE  BatchInv'
  <1>1. request \in BatchRow /\ job \in JobRow
    BY DEF BatchInv, BatchTyped
  <1>2. request.pc = "clicked" => request' = NoRequest
    BY DEF Returns
  <1>3. ASSUME request.pc = "busy"
        PROVE  /\ request' \in BatchRow /\ request'.pc = "loop"
               /\ request'.posted = request.posted /\ request'.term = request.term
               /\ request'.rows = request.rows /\ request'.skipped = request.skipped
               /\ request'.processed + request'.failed
                      = request.processed + request.failed + 1
               /\ \A c \in Changes :
                     request'.totals[c] <= request'.processed * Cardinality(Key)
    <2> DEFINE totals == [c \in Changes |->
                             request.totals[c] + Cardinality(job.result[c])]
    <2>1. request' = [request EXCEPT !.pc = "loop", !.processed = @ + 1, !.totals = totals]
      BY <1>3 DEF Returns
    <2>2. request.processed \in Nat /\ request.processed + 1 \in Nat /\ request.failed \in Nat
      BY <1>1 DEF BatchRow
    <2>3. Cardinality(Key) \in Nat
      BY KeyAssumption, FS_CardinalityType
    <2>4. ASSUME NEW c \in Changes
          PROVE  /\ totals[c] \in Nat
                 /\ totals[c] <= (request.processed + 1) * Cardinality(Key)
      <3>1. job.result[c] \in SUBSET Key /\ request.totals[c] \in Nat
        BY <1>1 DEF JobRow, BatchRow
      <3>2. /\ Cardinality(job.result[c]) \in Nat
            /\ Cardinality(job.result[c]) <= Cardinality(Key)
        BY <2>3, <3>1, KeySetCount DEF Count
      <3>3. request.totals[c] <= request.processed * Cardinality(Key)
        BY <1>3 DEF BatchInv, CountInv, Filtered
      <3>4. totals[c] = request.totals[c] + Cardinality(job.result[c])
        OBVIOUS
      <3> HIDE DEF totals
      <3> QED
        BY <2>2, <2>3, <3>1, <3>2, <3>3, <3>4, OneMoreRow
    <2>5. totals \in [Changes -> Nat]
      BY <2>4
    <2> HIDE DEF totals
    <2>6. request' \in BatchRow
      BY <1>1, <2>1, <2>2, <2>5 DEF BatchRow, RequestPhase
    <2>7. /\ request'.pc = "loop"
          /\ request'.posted = request.posted /\ request'.term = request.term
          /\ request'.rows = request.rows /\ request'.skipped = request.skipped
          /\ request'.failed = request.failed /\ request'.totals = totals
          /\ request'.processed = request.processed + 1
      BY <1>1, <2>1 DEF BatchRow
    <2> QED
      BY <2>2, <2>4, <2>6, <2>7
  <1> QED
    BY <1>2, <1>3, JobEnds DEF Returns

-----------------------------------------------------------------------------
(* A recalculation at work.  Its steps leave the request alone.            *)
LEMMA JobSteps ==
    ASSUME BatchInv, job.pc # "idle", TypeOK', OwnersExist',
           job' \in JobRow, job'.pc # "idle", job'.student = job.student,
           job'.pc = "resolve" => job'.term = request.term,
           job'.pc \in {"create", "work"} => job'.term \in Term /\ Entitled(Rec)',
           UNCHANGED <<world, request, heard, outside>>
    PROVE  BatchInv'
  <1>1. /\ request' = request /\ heard' = heard /\ outside' = outside
        /\ user' = user /\ existing' = existing /\ reach' = reach /\ active' = active
    BY DEF world
  <1>2. Seen' = Seen
    BY <1>1 DEF Seen, Reasons
  <1>3. BatchTyped'
    BY <1>1 DEF BatchInv, BatchTyped, ActiveTerms
  <1>4. CountInv'
    <2>1. Waiting' = Waiting /\ UnderWay' = UnderWay /\ (Filtered' <=> Filtered)
      BY <1>1 DEF Waiting, UnderWay, Filtered
    <2> QED
      BY <1>1, <2>1 DEF BatchInv, CountInv
  <1>5. TermInv'
    <2>1. Refused(request.posted)' <=> Refused(request.posted)
      BY <1>1, RefusedKept
    <2> QED
      BY <1>1, <2>1 DEF BatchInv, TermInv
  <1>6. CallerWaits' /\ HeardInv' /\ JobInv'
    BY <1>1, <1>2 DEF BatchInv, CallerWaits, HeardInv, JobInv, Filtered
  <1> QED
    BY <1>3, <1>4, <1>5, <1>6 DEF BatchInv

(* The term a recalculation takes up is one it may.                        *)
LEMMA ResolvesEntitled ==
    ASSUME BatchInv, job.pc = "resolve", NEW t \in Term,
           t = IF job.term # NoTerm THEN job.term ELSE active
    PROVE  Entitled(<<job.student, t>>)
  <1>1. /\ request.pc \in {"busy", "clicked"} /\ job.term = request.term
        /\ job.student \in heard.seen \intersect heard.asked
        /\ active \in heard.active
        /\ request \in BatchRow
    BY DEF BatchInv, BatchTyped, CallerWaits, JobInv, HeardInv
  <1>2. CASE request.pc = "clicked"
    <2>1. request.term = NoTerm /\ request.posted = NoTerm
      BY <1>2 DEF BatchInv, TermInv
    <2> QED
      BY <1>1, <2>1 DEF Entitled
  <1>3. CASE request.pc = "busy"
    <2>1. IF request.posted # NoTerm
          THEN request.term = request.posted /\ ~Refused(request.posted)
          ELSE request.term \in heard.active \union {NoTerm}
      BY <1>3 DEF BatchInv, TermInv
    <2>2. CASE request.posted # NoTerm
      <3>1. t = request.posted /\ t = request.term /\ ~Refused(t)
        BY <1>1, <2>1, <2>2
      <3>2. user = "campus" => CampusOf[t] \in Processes
        BY <2>2, <3>1 DEF Refused, MayProcess
      <3> QED
        BY <1>1, <2>2, <3>1, <3>2 DEF Entitled
    <2>3. CASE request.posted = NoTerm
      <3>1. t \in heard.active /\ (request.term # NoTerm => t = request.term)
        BY <1>1, <2>1, <2>3
      <3> QED
        BY <1>1, <2>3, <3>1 DEF Entitled
    <2> QED
      BY <2>2, <2>3
  <1> QED
    BY <1>1, <1>2, <1>3

LEMMA ResolveKeeps ==
    ASSUME BatchInv, Resolve
    PROVE  BatchInv'
  <1> DEFINE t == IF job.term # NoTerm THEN job.term ELSE active
  <1>1. /\ job.pc = "resolve"
        /\ \/ Raises
           \/ Returns
           \/ /\ t \in Term /\ request' = request
              /\ job' = [job EXCEPT !.pc = "create", !.term = t]
        /\ UNCHANGED <<checklist, world, heard, outside>>
    BY DEF Resolve
  <1>2. CASE Raises
    BY <1>1, <1>2, RaisesKeeps
  <1>3. CASE Returns
    BY <1>1, <1>3, ReturnsKeeps
  <1>4. CASE /\ t \in Term /\ request' = request
             /\ job' = [job EXCEPT !.pc = "create", !.term = t]
    <2>1. job \in JobRow
      BY DEF BatchInv, BatchTyped
    <2>2. /\ job' \in JobRow /\ job'.pc = "create" /\ job'.term = t
          /\ job'.student = job.student
      BY <1>4, <2>1 DEF JobRow
    <2>3. Entitled(<<job.student, t>>)
      BY <1>1, <1>4, ResolvesEntitled
    <2>4. heard' = heard /\ user' = user /\ outside' = outside
      BY <1>1 DEF world
    <2>5. Entitled(Rec)'
      BY <1>4, <2>2, <2>3, <2>4 DEF Entitled, Rec
    <2> QED
      BY <1>1, <1>4, <2>2, <2>4, <2>5, JobSteps, QuietWorld
  <1> QED
    BY <1>1, <1>2, <1>3, <1>4

(* The record under way is one of those there may be.                      *)
LEMMA RecOfStudent ==
    ASSUME BatchInv, job.pc \in {"create", "work"}
    PROVE  Rec \in Record /\ Rec[1] = job.student
  BY RecordAssumption DEF BatchInv, JobInv, Rec

LEMMA EntitledKept ==
    ASSUME Entitled(Rec), job'.student = job.student, job'.term = job.term,
           UNCHANGED <<user, request, heard>>
    PROVE  Entitled(Rec)'
  BY DEF Entitled, Rec

LEMMA CreateKeeps ==
    ASSUME BatchInv, Create
    PROVE  BatchInv'
  <1>1. /\ job.pc = "create" /\ job.student \in existing
        /\ job' = [job EXCEPT !.pc = "work"]
        /\ GetOrCreate(Rec) \/ UNCHANGED checklist
        /\ UNCHANGED <<world, request, heard, outside>>
    BY DEF Create
  <1>2. Rec \in Record /\ Rec[1] = job.student /\ TypeOK
    BY <1>1, RecOfStudent DEF BatchInv, BatchTyped
  <1>3. TypeOK' /\ OwnersExist'
    <2>1. CASE GetOrCreate(Rec)
      <3>1. TypeOK' /\ \A q \in Record \ {Rec} : Leaves(q)
        BY <1>2, <2>1, GetOrCreateTyped, CreateEffect
      <3>2. \A q \in Record \ {Rec} : Exists(q)' <=> Exists(q)
        BY <3>1 DEF Leaves, Exists
      <3> QED
        BY <1>1, <1>2, <3>1, <3>2 DEF BatchInv, OwnersExist, world
    <2>2. CASE UNCHANGED checklist
      BY <1>1, <2>2, QuietWorld
    <2> QED
      BY <1>1, <2>1, <2>2
  <1>4. /\ job' \in JobRow /\ job'.pc = "work" /\ job'.student = job.student
        /\ job'.term = job.term /\ job.term \in Term /\ Entitled(Rec)
    <2>1. job \in JobRow
      BY DEF BatchInv, BatchTyped
    <2> QED
      BY <1>1, <2>1 DEF BatchInv, JobInv, JobRow
  <1>5. Entitled(Rec)'
    BY <1>1, <1>4, EntitledKept DEF world
  <1> QED
    BY <1>1, <1>3, <1>4, <1>5, JobSteps

(* The writes of the two loops: of the record under way, whose student     *)
(* there still is when it could be made anew.                              *)
LEMMA WorkKeeps ==
    ASSUME BatchInv, NEW k \in Key, NEW c \in Changes,
           job.pc = "work", Records(c, k), TypeOK',
           \/ UNCHANGED checklist
           \/ /\ WritesStep(Rec, k)
              /\ job.student \in existing \/ Exists(Rec),
           UNCHANGED <<world, request, heard, outside>>
    PROVE  BatchInv'
  <1>1. Rec \in Record /\ Rec[1] = job.student /\ existing' = existing
    BY RecOfStudent DEF world
  <1>2. OwnersExist'
    <2>1. CASE UNCHANGED checklist
      BY <2>1, QuietWorld
    <2>2. CASE WritesStep(Rec, k) /\ (job.student \in existing \/ Exists(Rec))
      <3>1. \A q \in Record \ {Rec} : Exists(q)' <=> Exists(q)
        BY <2>2 DEF WritesStep, Leaves, Exists
      <3> QED
        BY <1>1, <2>2, <3>1 DEF BatchInv, OwnersExist
    <2> QED
      BY <2>1, <2>2
  <1>3. /\ job' \in JobRow /\ job'.pc = "work" /\ job'.student = job.student
        /\ job'.term = job.term /\ job.term \in Term /\ Entitled(Rec)
    <2>1. job \in JobRow
      BY DEF BatchInv, BatchTyped
    <2>2. job' = [job EXCEPT !.result[c] = @ \union {k}]
      BY DEF Records
    <2>3. job.result \in [Changes -> SUBSET Key] /\ job.result[c] \union {k} \in SUBSET Key
      BY <2>1 DEF JobRow
    <2> QED
      BY <2>1, <2>2, <2>3 DEF BatchInv, JobInv, JobRow
  <1>4. Entitled(Rec)'
    BY <1>3, EntitledKept DEF world
  <1> QED
    BY <1>2, <1>3, <1>4, JobSteps

LEMMA JobSeedsKeeps ==
    ASSUME BatchInv, NEW k \in Key, Seeds(k)
    PROVE  BatchInv'
  <1>1. /\ job.pc = "work" /\ job.student \in existing /\ Records("seeded", k)
        /\ AddStep(Rec, k, "pending") \/ UNCHANGED checklist
        /\ UNCHANGED <<world, request, heard, outside>>
    BY DEF Seeds
  <1>2. Rec \in Record /\ TypeOK /\ "pending" \in Status /\ "seeded" \in Changes
    BY <1>1, RecOfStudent DEF BatchInv, BatchTyped, Status, Changes
  <1>3. CASE AddStep(Rec, k, "pending")
    <2>1. TypeOK' /\ WritesStep(Rec, k)
      BY <1>2, <1>3, AddStepTyped, AddEffect
    <2> QED
      BY <1>1, <1>2, <2>1, WorkKeeps
  <1>4. CASE UNCHANGED checklist
    BY <1>1, <1>2, <1>4, QuietWorld, WorkKeeps
  <1> QED
    BY <1>1, <1>3, <1>4

LEMMA JobMovesKeeps ==
    ASSUME BatchInv, NEW k \in Key, Moves(k)
    PROVE  BatchInv'
  <1>1. PICK c \in Changes :
            /\ job.pc = "work" /\ Records(c, k)
            /\ Completes(k) \/ Reopens(k)
            /\ UNCHANGED <<world, request, heard, outside>>
    BY DEF Moves, Changes
  <1>2. Rec \in Record /\ TypeOK /\ "completed" \in DoneStatus
    BY <1>1, RecOfStudent DEF BatchInv, BatchTyped, DoneStatus
  <1>3. CASE CompleteStep(Rec, k)
    <2>1. TypeOK' /\ WritesStep(Rec, k) /\ Exists(Rec)
      BY <1>2, <1>3, TransitionTyped, TransitionEffect DEF CompleteStep
    <2> QED
      BY <1>1, <2>1, WorkKeeps
  <1>4. CASE ReopenStep(Rec, k)
    <2>1. TypeOK' /\ WritesStep(Rec, k) /\ Exists(Rec)
      BY <1>2, <1>4, ReopenTyped, ReopenEffect
    <2> QED
      BY <1>1, <2>1, WorkKeeps
  <1>5. CASE UNCHANGED checklist
    BY <1>1, <1>5, QuietWorld, WorkKeeps
  <1> QED
    BY <1>1, <1>3, <1>4, <1>5 DEF Completes, Reopens

-----------------------------------------------------------------------------
(* What others do: they change no job and no request, and the history      *)
(* learns of it.                                                           *)
LEMMA ElsewhereKeeps ==
    ASSUME BatchInv, Elsewhere, TypeOK', OwnersExist',
           existing' \subseteq Student, active' \in ActiveTerms
    PROVE  BatchInv'
  <1>1. /\ request' = request /\ job' = job /\ user' = user
        /\ outside < MaxOutside /\ outside' = outside + 1
        /\ heard' = IF request.pc = "idle" THEN heard
                    ELSE [heard EXCEPT !.seen = @ \union Seen',
                                       !.active = @ \union {active'}]
    BY DEF Elsewhere
  <1>2. request \in BatchRow /\ heard \in HeardRow /\ job \in JobRow
    BY DEF BatchInv, BatchTyped
  <1>3. /\ heard'.asked = heard.asked /\ heard'.found = heard.found
        /\ heard'.attempts = heard.attempts
        /\ heard.seen \subseteq heard'.seen /\ heard.active \subseteq heard'.active
        /\ request.pc # "idle" => Seen' \subseteq heard'.seen /\ active' \in heard'.active
    BY <1>1, <1>2 DEF HeardRow
  <1>4. BatchTyped'
    <2>1. Seen' \subseteq Student
      BY DEF Seen
    <2>2. active' \in Term \union {NoTerm, Unset} /\ active' \in ActiveTerms'
      BY <1>1 DEF ActiveTerms
    <2>3. heard' \in HeardRow
      <3>1. CASE request.pc = "idle"
        BY <1>1, <1>2, <3>1
      <3>2. CASE request.pc # "idle"
        <4>1. /\ heard.seen \union Seen' \in SUBSET Student
              /\ heard.active \union {active'} \in SUBSET (Term \union {NoTerm, Unset})
          BY <1>2, <2>1, <2>2 DEF HeardRow
        <4> QED
          BY <1>1, <1>2, <3>2, <4>1 DEF HeardRow
      <3> QED
        BY <3>1, <3>2
    <2>4. outside' \in 0 .. MaxOutside
      BY <1>1, MaxOutsideAssumption DEF BatchInv, BatchTyped
    <2> QED
      BY <1>1, <1>2, <2>2, <2>3, <2>4 DEF BatchTyped
  <1>5. CountInv'
    <2>1. Waiting' = Waiting /\ UnderWay' = UnderWay /\ (Filtered' <=> Filtered)
      BY <1>1 DEF Waiting, UnderWay, Filtered
    <2> QED
      BY <1>1, <1>3, <2>1 DEF BatchInv, CountInv
  <1>6. TermInv'
    <2>1. Refused(request.posted)' <=> Refused(request.posted)
      BY <1>1, RefusedKept
    <2> QED
      BY <1>1, <1>3, <2>1 DEF BatchInv, TermInv
  <1>7. JobInv'
    <2>1. Rec' = Rec
      BY <1>1 DEF Rec
    <2>2. Entitled(Rec) => Entitled(Rec)'
      BY <1>1, <1>3, <2>1 DEF Entitled
    <2> QED
      BY <1>1, <1>3, <2>2 DEF BatchInv, JobInv
  <1>8. CallerWaits' /\ HeardInv'
    BY <1>1, <1>3 DEF BatchInv, CallerWaits, HeardInv, Filtered
  <1> QED
    BY <1>4, <1>5, <1>6, <1>7, <1>8 DEF BatchInv

LEMMA DeleteStudentKeeps ==
    ASSUME BatchInv, NEW s \in Student, DeleteStudent(s)
    PROVE  BatchInv'
  <1> DEFINE gone == {s} \X Term
  <1>1. /\ existing' = existing \ {s}
        /\ onboarding' = [r \in Record |->
               IF r \in gone THEN NoOnboarding ELSE onboarding[r]]
        /\ steps' = [r \in Record |->
               IF r \in gone THEN [k \in Key |-> NoStep] ELSE steps[r]]
        /\ active' = active /\ Elsewhere /\ now' = now
    BY DEF DeleteStudent, Elsewhere
  <1>2. TypeOK
    BY DEF BatchInv, BatchTyped
  <1>3. /\ NoOnboarding \in OnboardingRow /\ NoOnboarding.started_on = 0
        /\ NoOnboarding.completed_on = 0
        /\ NoStep \in StepRow /\ NoStep.completed_on = 0
    BY NewRowTyped DEF NoOnboarding, NewOnboarding, NoStep, StepRow, Timestamp, Null
  <1>4. TypeOK'
    <2>1. /\ onboarding' \in [Record -> OnboardingRow]
          /\ steps' \in [Record -> [Key -> StepRow]] /\ now' \in Time
      BY <1>1, <1>2, <1>3 DEF TypeOK
    <2>2. ASSUME NEW r \in Record, NEW t \in Passed(r)'
          PROVE  t <= now
      <3>1. CASE r \in gone
        <4>1. onboarding'[r] = NoOnboarding /\ steps'[r] = [k \in Key |-> NoStep]
          BY <1>1, <3>1
        <4>2. t = 0
          BY <1>3, <2>2, <4>1 DEF Passed
        <4> QED
          BY <1>2, <4>2, MaxTimeAssumption DEF TypeOK, Time
      <3>2. CASE r \notin gone
        <4>1. t \in Passed(r)
          BY <1>1, <2>2, <3>2 DEF Passed
        <4> QED
          BY <1>2, <4>1 DEF TypeOK
      <3> QED
        BY <3>1, <3>2
    <2> QED
      BY <1>1, <2>1, <2>2 DEF TypeOK
  <1>5. OwnersExist'
    <2> SUFFICES ASSUME NEW r \in Record, Exists(r)' PROVE r[1] \in existing'
      BY DEF OwnersExist
    <2>1. r \notin gone
      BY <1>1, <1>3 DEF Exists, Null
    <2>2. r[1] \in existing
      BY <1>1, <2>1 DEF BatchInv, OwnersExist, Exists
    <2>3. r[1] # s
      BY <2>1, RecordAssumption
    <2> QED
      BY <1>1, <2>2, <2>3
  <1>6. existing' \subseteq Student /\ active' \in ActiveTerms
    BY <1>1 DEF BatchInv, BatchTyped
  <1> QED
    BY <1>1, <1>4, <1>5, <1>6, ElsewhereKeeps

(* The actions that leave the checklists and the students alone.           *)
LEMMA WorldMovesKeep ==
    ASSUME BatchInv, Elsewhere, UNCHANGED <<onboarding, steps, existing>>,
           active' \in ActiveTerms
    PROVE  BatchInv'
  <1>1. now' = now
    BY DEF Elsewhere
  <1>2. TypeOK'
    BY <1>1 DEF BatchInv, BatchTyped, TypeOK, Passed
  <1>3. OwnersExist' /\ existing' \subseteq Student
    BY DEF BatchInv, BatchTyped, OwnersExist, Exists
  <1> QED
    BY <1>2, <1>3, ElsewhereKeeps

-----------------------------------------------------------------------------
LEMMA BatchStep == BatchInv /\ [BatchNext]_batchVars => BatchInv'
  <1> SUFFICES ASSUME BatchInv, [BatchNext]_batchVars PROVE BatchInv'
    OBVIOUS
  <1>1. ASSUME NEW raw \in SUBSET Id, NEW t \in Term \union {NoTerm}, Post(raw, t)
        PROVE  BatchInv'
    BY <1>1, PostKeeps
  <1>2. CASE Filter
    BY <1>2, FilterKeeps
  <1>3. CASE PickTerm
    BY <1>3, PickTermKeeps
  <1>4. ASSUME NEW s \in Student, NextStudent(s) PROVE BatchInv'
    BY <1>4, NextStudentKeeps
  <1>5. CASE Respond
    BY <1>5, RespondKeeps
  <1>6. ASSUME NEW s \in Student, Click(s) PROVE BatchInv'
    BY <1>6, ClickKeeps
  <1>7. CASE Resolve
    BY <1>7, ResolveKeeps
  <1>8. CASE Create
    BY <1>8, CreateKeeps
  <1>9. ASSUME NEW k \in Key, Seeds(k) \/ Moves(k) PROVE BatchInv'
    BY <1>9, JobSeedsKeeps, JobMovesKeeps
  <1>10. CASE Finish
    BY <1>10, ReturnsKeeps DEF Finish
  <1>11. CASE Fail
    BY <1>11, RaisesKeeps DEF Fail
  <1>12. ASSUME NEW t \in ActiveTerms, SetActive(t) PROVE BatchInv'
    BY <1>12, WorldMovesKeep DEF SetActive
  <1>13. ASSUME NEW s \in Student, NEW reasons, Transfer(s, reasons) PROVE BatchInv'
    <2>1. active' \in ActiveTerms
      BY <1>13 DEF Transfer, BatchInv, BatchTyped
    <2> QED
      BY <1>13, <2>1, WorldMovesKeep DEF Transfer
  <1>14. ASSUME NEW s \in Student, DeleteStudent(s) PROVE BatchInv'
    BY <1>14, DeleteStudentKeeps
  <1>15. CASE UNCHANGED batchVars
    <2>1. /\ UNCHANGED <<checklist, world, request, heard, outside>> /\ job' = job
      BY <1>15 DEF batchVars, checklist, world
    <2> QED
      BY <1>15, <2>1
         DEF BatchInv, BatchTyped, TypeOK, Passed, OwnersExist, Exists, batchVars,
             ActiveTerms, CallerWaits, CountInv, Filtered, Waiting, UnderWay,
             HeardInv, Seen, Reasons, TermInv, Refused, MayProcess, JobInv,
             Entitled, Rec
  <1> QED
    BY <1>1, <1>2, <1>3, <1>4, <1>5, <1>6, <1>7, <1>8, <1>9, <1>10, <1>11, <1>12,
       <1>13, <1>14, <1>15 DEF BatchNext

THEOREM BatchInvariant == BatchSpec => []BatchInv
  BY BatchInitRight, BatchStep, PTL DEF BatchSpec

THEOREM BatchTypeCorrect == BatchSpec => []BatchTypeOK
  <1>1. BatchInv => BatchTypeOK
    BY DEF BatchInv, BatchTyped, OwnersExist, CallerWaits, BatchTypeOK, BatchRow
  <1> QED
    BY <1>1, BatchInvariant, PTL

(* When the answer is given no row waits and none is under way, so each    *)
(* student found was begun once and is in one of the two counts.           *)
THEOREM EachStudentExactlyOnce == BatchSpec => []EachStudentOnce
  <1>1. ASSUME BatchInv, request.pc = "responded"
        PROVE  EachStudentOnce
    <2>1. /\ Waiting = {} /\ UnderWay = 0
          /\ \A s \in Student :
                heard.attempts[s] + request.rows[s] = IF s \in heard.found THEN 1 ELSE 0
          /\ request.processed + request.failed + UnderWay + Cardinality(Waiting)
                 = Cardinality(heard.found)
          /\ request.skipped >= 0
          /\ \A c \in Changes :
                request.totals[c] <= request.processed * Cardinality(Key)
      BY <1>1 DEF BatchInv, CountInv, Filtered, UnderWay
    <2>2. request \in BatchRow /\ heard \in HeardRow
      BY <1>1 DEF BatchInv, BatchTyped
    <2>3. \A s \in Student : request.rows[s] = 0 /\ heard.attempts[s] \in Nat
      BY <2>1, <2>2 DEF Waiting, BatchRow, HeardRow
    <2>4. request.processed + request.failed = Cardinality(heard.found)
      BY <2>1, <2>2, FS_EmptySet DEF BatchRow
    <2> QED
      BY <2>1, <2>3, <2>4 DEF EachStudentOnce
  <1>2. BatchInv => EachStudentOnce
    BY <1>1 DEF EachStudentOnce
  <1> QED
    BY <1>2, BatchInvariant, PTL

(* A recalculation writes the rows of no record but its own, and it has    *)
(* one only once its term is resolved.                                     *)
LEMMA JobWritesOwn ==
    ASSUME BatchInv, [BatchNext]_batchVars, job' # job, NEW r \in Record,
           <<onboarding[r], steps[r]>>' # <<onboarding[r], steps[r]>>
    PROVE  job.pc \in {"create", "work"} /\ r = Rec
  <1>1. ~UNCHANGED checklist
    BY DEF checklist
  <1>2. ~Elsewhere /\ ~UNCHANGED batchVars
    BY DEF Elsewhere, batchVars
  <1>3. TypeOK
    BY DEF BatchInv, BatchTyped
  <1>4. CASE Create
    <2>1. job.pc = "create" /\ GetOrCreate(Rec)
      BY <1>1, <1>4 DEF Create
    <2>2. \A q \in Record \ {Rec} : Leaves(q)
      BY <1>3, <2>1, RecOfStudent, CreateEffect
    <2> QED
      BY <2>1, <2>2 DEF Leaves
  <1>5. ASSUME NEW k \in Key, Seeds(k)
        PROVE  job.pc \in {"create", "work"} /\ r = Rec
    <2>1. job.pc = "work" /\ AddStep(Rec, k, "pending")
      BY <1>1, <1>5 DEF Seeds
    <2>2. \A q \in Record \ {Rec} : Leaves(q)
      BY <1>3, <2>1, RecOfStudent, AddEffect DEF WritesStep, Status
    <2> QED
      BY <2>1, <2>2 DEF Leaves
  <1>6. ASSUME NEW k \in Key, Moves(k)
        PROVE  job.pc \in {"create", "work"} /\ r = Rec
    <2>1. job.pc = "work" /\ (CompleteStep(Rec, k) \/ ReopenStep(Rec, k))
      BY <1>1, <1>6 DEF Moves, Completes, Reopens
    <2>2. \A q \in Record \ {Rec} : Leaves(q)
      BY <1>3, <2>1, RecOfStudent, TransitionEffect, ReopenEffect
         DEF CompleteStep, WritesStep, DoneStatus
    <2> QED
      BY <2>1, <2>2 DEF Leaves
  <1> QED
    BY <1>1, <1>2, <1>4, <1>5, <1>6
       DEF BatchNext, Post, Filter, PickTerm, NextStudent, Respond, Click, Resolve,
           Finish, Fail, SetActive, Transfer, DeleteStudent

THEOREM OnlyEntitledWritten == BatchSpec => WritesOnlyEntitled
  <1>1. ASSUME BatchInv, [BatchNext]_batchVars
        PROVE  [job' # job =>
                   \A r \in Record :
                       <<onboarding[r], steps[r]>>' # <<onboarding[r], steps[r]>>
                           => Entitled(r)]_batchVars
    BY <1>1, JobWritesOwn DEF BatchInv, JobInv
  <1> QED
    BY <1>1, BatchInvariant, PTL DEF BatchSpec, WritesOnlyEntitled
=============================================================================
