------------------------------ MODULE StaffViews ------------------------------
(***************************************************************************)
(* What staff see of the checklists and what they do to them past the      *)
(* helpers.  The tabs, the export, the report and the reminders page each  *)
(* compute their own lists from the stored columns (views.py,              *)
(* serializers.py, reports/onboarding_pending_items.py, services.py).  The *)
(* admin (admin.py) and the bulk updates of README.md write step rows and  *)
(* counters directly, so the stored counters drift from the rows until the *)
(* helpers of api.py recount them.                                         *)
(***************************************************************************)
EXTENDS Checklist, Integers

CONSTANTS
    School,         \* the high schools
    NoSchool,       \* stands for a student without one
    SchoolOf,       \* the school of each record's student
    Label,          \* the wordings a step has had
    LabelOf,        \* the label of each record's row of a step
    NoEmail,        \* stands for an empty address
    EmailOf,        \* the address of each record's student
    Visible,        \* the records the user's campuses let them see
    MaxEdits        \* bound on the writes past the helpers

ASSUME SchoolAssumption ==
    NoSchool \notin School /\ SchoolOf \in [Record -> School \union {NoSchool}]
ASSUME LabelAssumption == LabelOf \in [Record -> [Key -> Label]]
(* A filter left empty.                                                    *)
Anything == "anything"
ASSUME AnythingAssumption == Anything \notin Key \union School \union {NoSchool}
ASSUME FiniteAssumption == IsFiniteSet(Record)
ASSUME VisibleAssumption == Visible \subseteq Record
ASSUME MaxEditsAssumption == MaxEdits \in Nat

VARIABLES
    form,       \* the change form of the record admin that somebody has open
    unsure,     \* history: the counters not recounted since a direct write
    edits       \* the number of direct writes so far

staff == <<form, unsure, edits>>
staffVars == <<onboarding, steps, now, form, unsure, edits>>

Counter == {"total_steps", "completed_steps"}
NoForm == [rec |-> {}, posted |-> FALSE, row |-> NoOnboarding,
           steps |-> [k \in Key |-> NoStep]]

StaffInit ==
    /\ Init
    /\ form = NoForm
    /\ unsure = [r \in Record |-> {}]
    /\ edits = 0

-----------------------------------------------------------------------------
(* The helpers, and the counters each of them recounts.                    *)
Recounted(r, counters) ==
    /\ unsure' = [unsure EXCEPT ![r] = @ \ counters]
    /\ UNCHANGED <<form, edits>>

Visit(r) == GetOrCreate(r) /\ UNCHANGED staff

HelperAdds(r, k, s) ==
    /\ AddStep(r, k, s)
    /\ Recounted(r, IF s \in DoneStatus THEN Counter ELSE {"total_steps"})

HelperMoves(r, k, s) ==
    /\ TransitionStep(r, k, s)
    /\ Recounted(r, IF steps[r][k].status \in DoneStatus THEN {}
                    ELSE {"completed_steps"})

HelperReopens(r, k) ==
    /\ ReopenStep(r, k)
    /\ Recounted(r, {"completed_steps"})

(* A direct write: nothing is recounted or recomputed after it.            *)
Direct(records) ==
    /\ edits < MaxEdits
    /\ edits' = edits + 1
    /\ unsure' = [r \in Record |-> IF r \in records THEN Counter ELSE unsure[r]]
    /\ UNCHANGED now

(* The step admin: a status is changed, a row added or deleted.  The       *)
(* completion time is read-only there, so it stays.  A record form that    *)
(* shows a row deleted since is refused, so it counts as closed.           *)
EditStep(r, k) ==
    /\ Exists(r)
    /\ \E s \in Status \ {steps[r][k].status} :
          steps' = [steps EXCEPT ![r][k].status = s]
    /\ Direct({r})
    /\ UNCHANGED <<onboarding, form>>

DeleteStep(r, k) ==
    /\ steps[r][k].status # "absent"
    /\ steps' = [steps EXCEPT ![r][k] = NoStep]
    /\ form' = IF r \in form.rec /\ form.steps[k].status # "absent" THEN NoForm
               ELSE form
    /\ Direct({r})
    /\ UNCHANGED onboarding

DeleteRecord(r) ==
    /\ Exists(r)
    /\ onboarding' = [onboarding EXCEPT ![r] = NoOnboarding]
    /\ steps' = [steps EXCEPT ![r] = [k \in Key |-> NoStep]]
    /\ form' = IF r \in form.rec THEN NoForm ELSE form
    /\ edits < MaxEdits
    /\ edits' = edits + 1
    /\ unsure' = [unsure EXCEPT ![r] = {}]
    /\ UNCHANGED now

(* README.md, Scenario B: .filter(key=...).update(status='not_applicable').*)
BulkWaive(k) ==
    LET rows == {r \in Record : steps[r][k].status # "absent"} IN
    /\ rows # {}
    /\ steps' = [r \in Record |->
           IF r \in rows THEN [steps[r] EXCEPT ![k].status = "not_applicable"]
           ELSE steps[r]]
    /\ Direct(rows)
    /\ UNCHANGED <<onboarding, form>>

(* The record admin shows the counters and, inline, the steps, and posts   *)
(* back all of them but the times, which are read-only there.  The request *)
(* loads the rows again, without locking them, puts the posted columns     *)
(* over what it loaded, and then saves the record and the steps that were  *)
(* posted with another status, each with all its columns: what the helpers *)
(* wrote since the form was opened, and the times they wrote since the     *)
(* rows were loaded, are overwritten.                                      *)
OpenForm(r) ==
    /\ form = NoForm
    /\ Exists(r)
    /\ form' = [rec |-> {r}, posted |-> FALSE,
                row |-> [onboarding[r] EXCEPT !.completed_on = Null],
                steps |-> [k \in Key |-> [steps[r][k] EXCEPT !.completed_on = Null]]]
    /\ UNCHANGED <<onboarding, steps, now, unsure, edits>>

PostForm ==
    \E r \in form.rec :
        /\ ~form.posted
        /\ form' = [form EXCEPT
               !.posted = TRUE,
               !.row = [onboarding[r] EXCEPT
                           !.total_steps = form.row.total_steps,
                           !.completed_steps = form.row.completed_steps],
               !.steps = [k \in Key |->
                   IF @[k].status \in {"absent", steps[r][k].status} THEN NoStep
                   ELSE [steps[r][k] EXCEPT !.status = form.steps[k].status]]]
        /\ UNCHANGED <<onboarding, steps, now, unsure, edits>>

SaveForm ==
    \E r \in form.rec :
        /\ form.posted
        /\ onboarding' = [onboarding EXCEPT ![r] = form.row]
        /\ steps' = [steps EXCEPT ![r] = [k \in Key |->
               IF form.steps[k] = NoStep THEN @[k] ELSE form.steps[k]]]
        /\ form' = NoForm
        /\ Direct({r})

CloseForm ==
    /\ form # NoForm
    /\ form' = NoForm
    /\ UNCHANGED <<onboarding, steps, now, unsure, edits>>

Passes == Tick /\ UNCHANGED staff

StaffNext ==
    \/ \E r \in Record : Visit(r)
    \/ \E r \in Record, k \in Key, s \in Status : HelperAdds(r, k, s)
    \/ \E r \in Record, k \in Key, s \in DoneStatus : HelperMoves(r, k, s)
    \/ \E r \in Record, k \in Key : HelperReopens(r, k)
    \/ \E r \in Record, k \in Key : EditStep(r, k)
    \/ \E r \in Record, k \in Key : DeleteStep(r, k)
    \/ \E r \in Record : DeleteRecord(r)
    \/ \E k \in Key : BulkWaive(k)
    \/ \E r \in Record : OpenForm(r)
    \/ PostForm
    \/ SaveForm
    \/ CloseForm
    \/ Passes

StaffSpec == StaffInit /\ [][StaffNext]_staffVars
-----------------------------------------------------------------------------
(* The views, of one term.                                                 *)
Rows == {r \in Record : Exists(r)}
Scoped == Rows \intersect Visible               \* _scope_to_user
OfSchool(rs, h) == {r \in rs : h = Anything \/ SchoolOf[r] = h}
SchoolFilter == School \union {Anything}        \* the values of highschool_id

(* The columns and the serializer's fields.                                *)
Progress(r) ==
    IF onboarding[r].total_steps = 0 THEN 0
    ELSE (100 * onboarding[r].completed_steps) \div onboarding[r].total_steps
PendingSteps(r) == {k \in Key : steps[r][k].status = "pending"}
LastStepCompletedOn(r) ==
    LET times == {Null} \union {steps[r][k].completed_on : k \in Key} IN
    CHOOSE t \in times : \A u \in times : u <= t

(* The by-student table and its export: a step filter names a key and a    *)
(* status, and any status the model does not have counts as pending.       *)
STEP_STATUSES == Status

Table(h, status, k, stepStatus) ==
    {r \in OfSchool(Scoped, h) :
        /\ status = "completed" => onboarding[r].completed_on # Null
        /\ status = "pending" => onboarding[r].completed_on = Null
        /\ k # Anything =>
              steps[r][k].status =
                  IF stepStatus \in STEP_STATUSES THEN stepStatus ELSE "pending"}

(* The by-school tab: one row for each school that has records, "(none)"   *)
(* included, which no filter can ask for.                                  *)
SchoolRows == {SchoolOf[r] : r \in Scoped}
BySchool(x) ==
    LET rs == {r \in Scoped : SchoolOf[r] = x}
        done == {r \in rs : onboarding[r].completed_on # Null} IN
    [total |-> Cardinality(rs), completed |-> Cardinality(done),
     pending |-> Cardinality({r \in rs : onboarding[r].completed_on = Null}),
     percent |-> IF rs = {} THEN 0
                 ELSE (100 * Cardinality(done)) \div Cardinality(rs)]

(* The funnel chart has a bar for each key AND label, as long as it has    *)
(* step rows of a status: one for each of these records.  A click on it    *)
(* opens the table of the key alone.                                       *)
Bar(h, k, l, s) ==
    {r \in OfSchool(Scoped, h) : LabelOf[r][k] = l /\ steps[r][k].status = s}

(* The timeline at the end of a day: started and completed by then.        *)
Timeline(h, end) ==
    LET rs == OfSchool(Scoped, h) IN
    [started |-> Cardinality({r \in rs : onboarding[r].started_on <= end}),
     completed |-> Cardinality({r \in rs : onboarding[r].completed_on # Null
                                    /\ onboarding[r].completed_on <= end})]

(* The stalled tab: open records with no step progress since the cutoff,   *)
(* or none at all and started before it.                                   *)
NullFails(r, cutoff) ==                 \* mutant: the second Q is missing
    LastStepCompletedOn(r) # Null /\ LastStepCompletedOn(r) < cutoff
NoProgressSince(r, cutoff) ==
    IF LastStepCompletedOn(r) # Null THEN LastStepCompletedOn(r) < cutoff
    ELSE onboarding[r].started_on < cutoff
Stalled(cutoff) ==
    {r \in Scoped : onboarding[r].completed_on = Null /\ NoProgressSince(r, cutoff)}
PendingCount(r) == onboarding[r].total_steps - onboarding[r].completed_steps

(* The planner's decision on a record, up to rate limit and address: "row" *)
(* stands for the decisions that follow.  An empty selection allows all.   *)
Decision(r, allowed) ==
    LET pending == {k \in Present(steps[r]) : steps[r][k].status \notin DoneStatus} IN
    IF pending = {} THEN "all_done"
    ELSE IF allowed # {} /\ pending \intersect allowed = {} THEN "no_match"
    ELSE "row"
Planned(allowed) ==
    {r \in Rows : onboarding[r].completed_on = Null /\ Decision(r, allowed) = "row"}

(* The report of pending items, for the students of a scope, and the       *)
(* announcement it feeds: one row for each address.                        *)
PendingOnboardings(keys, scope) ==
    {r \in Rows \intersect scope :
        /\ onboarding[r].completed_on = Null
        /\ PendingSteps(r) \intersect (IF keys = {} THEN Key ELSE keys) # {}}
Recipients(keys, scope) ==
    {EmailOf[r] : r \in PendingOnboardings(keys, scope)} \ {NoEmail}
-----------------------------------------------------------------------------
(* The columns stay in range under direct writes, and a form is open on at *)
(* most one record, which still has every row the form shows or writes.    *)
StaffTypeOK ==
    /\ TypeOK
    /\ unsure \in [Record -> SUBSET Counter]
    /\ edits \in 0 .. MaxEdits
    /\ form.rec \subseteq Rows
    /\ \A r \in form.rec, k \in Key :
          form.steps[k].status # "absent" => steps[r][k].status # "absent"

(* "recompute_completion" repairs what direct writes left behind, once the *)
(* helpers have run (README.md, Scenario B): a counter a helper recounted  *)
(* since the last direct write is the number of rows, and with both        *)
(* recounted the record is complete exactly when its rows are all done.    *)
RecountRepairs ==
    \A r \in Rows :
        /\ "total_steps" \notin unsure[r] =>
              onboarding[r].total_steps = CountTotal(steps[r])
        /\ "completed_steps" \notin unsure[r] =>
              onboarding[r].completed_steps = CountDone(steps[r])
        /\ unsure[r] = {} =>
              (onboarding[r].completed_on # Null <=>
                  Present(steps[r]) # {} /\ Done(steps[r]) = Present(steps[r]))

(* The tabs read two sources, completed_on and the step rows, and must     *)
(* tell one story of the records that have been recounted: who is complete *)
(* is behind no pending bar, who is not is behind one or has no steps, and *)
(* the percentage of a school and the end of the timeline count the same.  *)
(* Unconditionally, the bars of all labels of a key open its table, and    *)
(* the report lists whom a reminder for the same items would name.         *)
ItemBars(h, s) == UNION {Bar(h, k, l, s) : k \in Key, l \in Label}
Unfinished(h) == ItemBars(h, "pending") \union
                  {r \in OfSchool(Scoped, h) : Present(steps[r]) = {}}
AllSure(rs) == \A r \in rs : unsure[r] = {}
ViewsAgree ==
    /\ \A h \in SchoolFilter :
          /\ \A k \in Key, s \in Status :
                UNION {Bar(h, k, l, s) : l \in Label} = Table(h, Anything, k, s)
          /\ AllSure(OfSchool(Scoped, h)) =>
                /\ \A k \in Key : Table(h, "completed", k, "pending") = {}
                /\ Table(h, "pending", Anything, Anything) = Unfinished(h)
                /\ Timeline(h, now).started - Timeline(h, now).completed =
                      Cardinality(Unfinished(h))
    /\ \A x \in SchoolRows :
          LET rs == {r \in Scoped : SchoolOf[r] = x} IN
          AllSure(rs) => (BySchool(x).percent = 100 <=>
                                rs \intersect Unfinished(Anything) = {})
    /\ \A keys \in SUBSET Key :
          PendingOnboardings(keys, Visible) = Planned(keys) \intersect Visible

(* Nobody falls between the tabs: when both counters of a record have been *)
(* recounted, each step it lists as pending puts it on the report, the     *)
(* plan, the announcement and, in the end, the stalled tab, which counts   *)
(* as many pending items as it names; 100 % is shown for complete records. *)
PendingSeenEverywhere ==
    \A r \in Scoped : unsure[r] = {} =>
        /\ PendingCount(r) = Cardinality(PendingSteps(r))
        /\ Progress(r) = 100 <=> onboarding[r].completed_on # Null
        /\ \A k \in PendingSteps(r) :
              /\ r \in PendingOnboardings({k}, Visible) \intersect Planned({k})
              /\ EmailOf[r] \in Recipients({k}, Visible) \union {NoEmail}
              /\ r \in Stalled(now + 1)
=============================================================================
