----------------------------- MODULE ChecklistData -----------------------------
(***************************************************************************)
(* The rows of the onboarding checklist (student_onboarding/models.py) and *)
(* the computations the helpers of api.py make on them.  A record is one   *)
(* (student, term) pair; its row of StudentOnboarding and its rows of      *)
(* StudentOnboardingStep, one per step key, are all the state it has.      *)
(* Labels, links, messages and the display order are wording and left out; *)
(* last_notified_on belongs to the reminders.                              *)
(***************************************************************************)
EXTENDS Naturals, FiniteSets

CONSTANTS
    Record,     \* (student, term) pairs
    Key,        \* step keys
    MaxTime     \* bound on the clock

ASSUME KeyAssumption == IsFiniteSet(Key)
ASSUME MaxTimeAssumption == MaxTime \in Nat \ {0}

(* The SQL NULL of a timestamp column, kept below every time.              *)
Null == 0
Time == 1 .. MaxTime
Timestamp == {Null} \union Time

DoneStatus == {"completed", "not_applicable"}
Status == {"pending"} \union DoneStatus

(* A missing step row is a row whose status is "absent".                   *)
NoStep == [status |-> "absent", completed_on |-> Null]
StepRow == [status : Status, completed_on : Timestamp] \union {NoStep}

(* started_on is never NULL (auto_now_add), so Null marks a missing row.   *)
Count == 0 .. Cardinality(Key)
OnboardingRow ==
    [started_on : Timestamp, completed_on : Timestamp,
     total_steps : Count, completed_steps : Count]
NewOnboarding(t) ==
    [started_on |-> t, completed_on |-> Null,
     total_steps |-> 0, completed_steps |-> 0]
NoOnboarding == NewOnboarding(Null)

-----------------------------------------------------------------------------
(* The counting queries, on the step rows ss of one record.                *)
Present(ss) == {k \in Key : ss[k].status # "absent"}
Done(ss) == {k \in Key : ss[k].status \in DoneStatus}
CountTotal(ss) == Cardinality(Present(ss))
CountDone(ss) == Cardinality(Done(ss))

(* StudentOnboarding.recompute_completion at time t: the completion time   *)
(* is set once when the counters meet and cleared when they part.          *)
AllStepsDone(row) ==
    row.total_steps > 0 /\ row.completed_steps >= row.total_steps
NeverCleared(row, t) ==                 \* mutant: the elif branch is missing
    [row EXCEPT !.completed_on = IF AllStepsDone(row) /\ @ = Null THEN t ELSE @]
StampedAgain(row, t) ==                 \* mutant: `if not completed_on` is missing
    [row EXCEPT !.completed_on = IF AllStepsDone(row) THEN t ELSE Null]
RecomputeCompletion(row, t) ==
    [row EXCEPT !.completed_on = IF ~AllStepsDone(row) THEN Null
                                 ELSE IF @ = Null THEN t ELSE @]

(* The parent row after add_step inserted a step of status s: the total is *)
(* always recounted, the completed count only if the step is born done.    *)
CountedTwice(row, ss, s) ==             \* mutant: counted and incremented
    [row EXCEPT !.total_steps = CountTotal(ss) + 1]
TotalAlone(row, ss, s) ==               \* mutant: a step born done is not counted
    [row EXCEPT !.total_steps = CountTotal(ss)]
RecountAfterAdd(row, ss, s) ==
    [row EXCEPT !.total_steps = CountTotal(ss),
                !.completed_steps = IF s \in DoneStatus THEN CountDone(ss) ELSE @]

(* The parent row after a step changed between done and not done.          *)
RecountDone(row, ss) == [row EXCEPT !.completed_steps = CountDone(ss)]
=============================================================================
