------------------------------- MODULE Checklist -------------------------------
(***************************************************************************)
(* What student_onboarding/api.py promises its callers: every helper is    *)
(* one atomic step on one record, whoever else is calling.  ChecklistTx    *)
(* shows how row locks and transactions keep the promise.                  *)
(*                                                                         *)
(* A call reads the clock while it runs, not when it commits, so a step    *)
(* picks its times among those the record has not yet passed.              *)
(***************************************************************************)
EXTENDS ChecklistData

VARIABLES
    onboarding,     \* the StudentOnboarding row of each record
    steps,          \* the StudentOnboardingStep rows of each record, by key
    now             \* the clock

vars == <<onboarding, steps, now>>

Init ==
    /\ onboarding = [r \in Record |-> NoOnboarding]
    /\ steps = [r \in Record |-> [k \in Key |-> NoStep]]
    /\ now = 1

Exists(r) == onboarding[r].started_on # Null

(* The times a call on record r may read: it holds the record's lock, so   *)
(* it reads the clock after every call that has already committed.         *)
Passed(r) ==
    {onboarding[r].started_on, onboarding[r].completed_on}
        \union {steps[r][k].completed_on : k \in Key}
Fresh(r) == {t \in Time : t <= now /\ \A s \in Passed(r) : s <= t}

(* The clock readings of one call, in the order it makes them: for the     *)
(* row it may create, for the step, and for the completion of the record.  *)
Readings(r) ==
    {a \in [create : Fresh(r), stamp : Fresh(r), complete : Fresh(r)] :
        a.create <= a.stamp /\ a.stamp <= a.complete}

-----------------------------------------------------------------------------
(* get_or_create_for_current_term when the record has no row yet; with a   *)
(* row it returns it and changes nothing.                                  *)
GetOrCreate(r) ==
    \E t \in Fresh(r) :
        /\ ~Exists(r)
        /\ onboarding' = [onboarding EXCEPT ![r] = NewOnboarding(t)]
        /\ UNCHANGED <<steps, now>>

(* add_step for a key the record does not have; an existing step is        *)
(* returned untouched.  A step born done gets its completion time.         *)
StepBorn(s, t) ==
    [status |-> s, completed_on |-> IF s \in DoneStatus THEN t ELSE Null]

AddStep(r, k, s) ==
    \E a \in Readings(r) :
        LET row == IF Exists(r) THEN onboarding[r] ELSE NewOnboarding(a.create)
            ss  == [steps[r] EXCEPT ![k] = StepBorn(s, a.stamp)]
        IN  /\ steps[r][k].status = "absent"
            /\ steps' = [steps EXCEPT ![r] = ss]
            /\ onboarding' = [onboarding EXCEPT ![r] =
                   RecomputeCompletion(RecountAfterAdd(row, ss, s), a.complete)]
            /\ UNCHANGED now

(* complete_step and mark_not_applicable: the status and the time are      *)
(* written even when the step was done; the counters only when it was not. *)
TransitionStep(r, k, s) ==
    \E a \in Readings(r) :
        LET wasDone == steps[r][k].status \in DoneStatus
            ss == [steps[r] EXCEPT ![k] = [status |-> s, completed_on |-> a.stamp]]
        IN  /\ Exists(r)
            /\ steps[r][k].status # "absent"
            /\ steps' = [steps EXCEPT ![r] = ss]
            /\ onboarding' = [onboarding EXCEPT ![r] =
                   IF wasDone THEN @
                   ELSE RecomputeCompletion(RecountDone(@, ss), a.complete)]
            /\ UNCHANGED now

CompleteStep(r, k) == TransitionStep(r, k, "completed")
MarkNotApplicable(r, k) == TransitionStep(r, k, "not_applicable")

(* reopen_step: only a completed step moves, a not_applicable one stays.   *)
CanReopen(status) == status = "completed"

ReopenStep(r, k) ==
    \E a \in Readings(r) :
        LET ss == [steps[r] EXCEPT ![k] =
                       [status |-> "pending", completed_on |-> Null]]
        IN  /\ Exists(r)
            /\ CanReopen(steps[r][k].status)
            /\ steps' = [steps EXCEPT ![r] = ss]
            /\ onboarding' = [onboarding EXCEPT ![r] =
                   RecomputeCompletion(RecountDone(@, ss), a.complete)]
            /\ UNCHANGED now

Tick ==
    /\ now < MaxTime
    /\ now' = now + 1
    /\ UNCHANGED <<onboarding, steps>>

Next ==
    \/ \E r \in Record : GetOrCreate(r)
    \/ \E r \in Record, k \in Key, s \in Status : AddStep(r, k, s)
    \/ \E r \in Record, k \in Key : CompleteStep(r, k)
    \/ \E r \in Record, k \in Key : MarkNotApplicable(r, k)
    \/ \E r \in Record, k \in Key : ReopenStep(r, k)
    \/ Tick

Spec == Init /\ [][Next]_vars

-----------------------------------------------------------------------------
(* Every row has the columns of its model, the counters within the number  *)
(* of keys, and no time lies ahead of the clock.                           *)
TypeOK ==
    /\ onboarding \in [Record -> OnboardingRow]
    /\ steps \in [Record -> [Key -> StepRow]]
    /\ now \in Time
    /\ \A r \in Record : \A t \in Passed(r) : t <= now

(* "counter mutations ... don't corrupt total_steps / completed_steps"     *)
(* (api.py, module docstring): the counters a record stores are the        *)
(* numbers of its step rows and of its done step rows.                     *)
CountersMatchSteps ==
    \A r \in Record :
        /\ onboarding[r].total_steps = CountTotal(steps[r])
        /\ onboarding[r].completed_steps = CountDone(steps[r])

(* A record counts as complete exactly when it has steps and all of them   *)
(* are done: the reminders and the reports select on completed_on alone.   *)
CompletionMatchesSteps ==
    \A r \in Record :
        onboarding[r].completed_on # Null <=>
            Present(steps[r]) # {} /\ Done(steps[r]) = Present(steps[r])

(* A step carries a completion time exactly when it is done: the timeline  *)
(* and the stalled-students view read the time without the status.         *)
StepTimesMatchStatus ==
    \A r \in Record, k \in Key :
        steps[r][k].completed_on # Null <=> steps[r][k].status \in DoneStatus

(* Duplicate events and late not_applicable marks restamp steps; while the *)
(* record stays complete the time it was completed never moves.            *)
CompletionTimeStable ==
    [][\A r \in Record :
          onboarding[r].completed_on # Null /\ onboarding'[r].completed_on # Null
              => onboarding'[r].completed_on = onboarding[r].completed_on]_vars
=============================================================================
