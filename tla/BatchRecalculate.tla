--------------------------- MODULE BatchRecalculate ---------------------------
(***************************************************************************)
(* The two ways staff start api.recalculate: the batch of the onboarding   *)
(* tabs (views.RecalculateView), one request for many posted ids, and the  *)
(* action on a student's page (actions.recalculate_onboarding).  What one  *)
(* recalculation decides is in Recalculate; here it is any sequence of     *)
(* helper calls it may make, ending in a result or in an exception, while  *)
(* students, campuses and the active term change around it.  Recalculations*)
(* of one student that overlap are in Recalculate too; here either a batch *)
(* or an action is under way.                                              *)
(***************************************************************************)
EXTENDS Checklist, Integers

CONSTANTS
    Student, Term,
    NoTerm,         \* no term: None, or a term_id that names none
    Unset,          \* active_term() raises TermNotConfigured
    Campus, NoCampus,
    CampusOf,       \* term.academic_year.campus
    Processes,      \* the campuses the user processes
    Id,             \* the values posted as student_ids[], finitely many
    NoStudent,
    StudentOf,      \* the student an id names; malformed and unknown ids none
    MaxIds,         \* MAX_RECALCULATE_IDS
    MaxOutside      \* bound on the changes made by others

ASSUME RecordAssumption == Record = Student \X Term
ASSUME TermAssumption ==
    NoTerm \notin Term /\ Unset \notin Term /\ NoTerm # Unset
ASSUME CampusAssumption ==
    CampusOf \in [Term -> Campus \union {NoCampus}] /\ Processes \subseteq Campus
ASSUME IdAssumption ==
    NoStudent \notin Student /\ StudentOf \in [Id -> Student \union {NoStudent}]
ASSUME FiniteIdAssumption == IsFiniteSet(Id)
ASSUME MaxOutsideAssumption == MaxOutside \in Nat

VARIABLES
    user,       \* the deployment and the user's rights in it
    existing,   \* the students that have not been deleted
    reach,      \* why the user sees each student: campuses, "unverified"
    active,     \* what active_term() answers
    request,    \* the batch request
    job,        \* the recalculation under way
    heard,      \* history: who was seen and what was active since the request
    outside     \* the number of outside changes so far

checklist == <<onboarding, steps, now>>
world == <<user, existing, reach, active>>
batchVars == <<onboarding, steps, now, user, existing, reach, active,
               request, job, heard, outside>>

(* single: one campus, everything seen; campus: CE staff of several        *)
(* campuses; super: a superuser there.                                     *)
User == {"single", "campus", "super"}
Reach == Campus \union {"unverified"}
Changes == {"seeded", "completed", "reopened"}
NoResult == [c \in Changes |-> {}]
NoTotals == [c \in Changes |-> 0]

NoJob == [pc |-> "idle", student |-> NoStudent, term |-> NoTerm, result |-> NoResult]
NoRequest ==
    [pc |-> "idle", raw |-> {}, posted |-> NoTerm, rows |-> [s \in Student |-> 0],
     skipped |-> 0, term |-> NoTerm, processed |-> 0, failed |-> 0,
     totals |-> NoTotals]
NoneHeard ==
    [seen |-> {}, active |-> {}, asked |-> {}, found |-> {},
     attempts |-> [s \in Student |-> 0]]

(* Superusers see everyone, CE staff the unverified students and those     *)
(* registered at a campus they process.                                    *)
Reasons(s) ==
    IF user = "campus" THEN reach[s] \intersect (Processes \union {"unverified"})
    ELSE {"all"}
Seen == {s \in existing : Reasons(s) # {}}

(* Only a deployment of several campuses may have no term configured.      *)
ActiveTerms ==
    Term \union {NoTerm} \union IF user = "single" THEN {} ELSE {Unset}

(* A student either starts without records or with all steps completed.    *)
Completed(t) ==
    [NewOnboarding(t) EXCEPT !.completed_on = t, !.total_steps = Cardinality(Key),
                             !.completed_steps = Cardinality(Key)]
BatchInit ==
    /\ \E rs \in {{}, Record} :
          /\ onboarding = [r \in Record |-> IF r \in rs THEN Completed(1)
                                           ELSE NoOnboarding]
          /\ steps = [r \in Record |-> [k \in Key |->
                IF r \in rs THEN StepBorn("completed", 1) ELSE NoStep]]
    /\ now = 1
    /\ user \in User
    /\ existing = Student
    /\ reach = [s \in Student |-> Campus]
    /\ active \in ActiveTerms
    /\ request = NoRequest
    /\ job = NoJob
    /\ heard = NoneHeard
    /\ outside = 0

Hears(asked) ==
    heard' = [NoneHeard EXCEPT !.seen = Seen, !.active = {active}, !.asked = asked]

-----------------------------------------------------------------------------
(* RecalculateView.post: the ids are counted, then parsed and looked up    *)
(* within the user's scope.  The scope joins the registrations, so a       *)
(* student may match in several ways; distinct() leaves one row.           *)
TooMany(raw) == Cardinality(raw) > MaxIds

Post(raw, posted) ==
    /\ request.pc = "idle"
    /\ ~TooMany(raw)                     \* else 400, and nothing is done
    /\ request' = [NoRequest EXCEPT !.pc = "filter", !.raw = raw, !.posted = posted]
    /\ Hears({StudentOf[i] : i \in raw})
    /\ UNCHANGED <<checklist, world, job, outside>>

Asked(raw) == {StudentOf[i] : i \in raw} \intersect existing
RowPerMatch(s) == Cardinality(Reasons(s))       \* mutant: no distinct()
RowsOf(s) == 1
AllAsked(raw) == Asked(raw)                     \* mutant: no _scope_to_user
InScope(raw) == Asked(raw) \intersect Seen

Filter ==
    LET inScope == InScope(request.raw) IN
    /\ request.pc = "filter"
    /\ request' = [request EXCEPT
           !.pc = "term", !.raw = {},
           !.rows = [s \in Student |-> IF s \in inScope THEN RowsOf(s) ELSE 0],
           !.skipped = Cardinality(request.raw) - Cardinality(inScope)]
    /\ heard' = [heard EXCEPT !.found = heard.asked \intersect Seen]
    /\ UNCHANGED <<checklist, world, job, outside>>

(* A posted term must be on a campus the user processes where there are    *)
(* several; without one the active term is used, and if none is configured *)
(* each recalculation looks it up again.                                   *)
MayProcess(t) ==
    user = "super" \/ (CampusOf[t] # NoCampus /\ CampusOf[t] \in Processes)
Refused(t) == t # NoTerm /\ user # "single" /\ ~MayProcess(t)

PickTerm ==
    /\ request.pc = "term"
    /\ request' =
           IF Refused(request.posted) THEN [request EXCEPT !.pc = "refused"]
           ELSE [request EXCEPT
                    !.pc = "loop",
                    !.term = IF request.posted # NoTerm THEN request.posted
                             ELSE IF active = Unset THEN NoTerm ELSE active]
    /\ UNCHANGED <<checklist, world, job, heard, outside>>

NotPassed(t) == NoTerm                  \* mutant: recalculate(student)
PassedTerm(t) == t

NextStudent(s) ==
    /\ request.pc = "loop"
    /\ request.rows[s] > 0
    /\ request' = [request EXCEPT !.pc = "busy", !.rows[s] = @ - 1]
    /\ job' = [NoJob EXCEPT !.pc = "resolve", !.student = s,
                            !.term = PassedTerm(request.term)]
    /\ heard' = [heard EXCEPT !.attempts[s] = @ + 1]
    /\ UNCHANGED <<checklist, world, outside>>

Respond ==
    /\ request.pc = "loop"
    /\ \A s \in Student : request.rows[s] = 0
    /\ request' = [request EXCEPT !.pc = "responded"]
    /\ UNCHANGED <<checklist, world, job, heard, outside>>

(* recalculate_onboarding: the first id must name a student the user may   *)
(* access.  The active term is only asked for, not passed on.              *)
Click(s) ==
    /\ request.pc = "idle"
    /\ s \in Seen
    /\ active \notin {NoTerm, Unset}
    /\ request' = [request EXCEPT !.pc = "clicked"]
    /\ job' = [NoJob EXCEPT !.pc = "resolve", !.student = s]
    /\ Hears({s})
    /\ UNCHANGED <<checklist, world, outside>>

-----------------------------------------------------------------------------
(* One recalculation.  It raises without a configured term, returns empty  *)
(* lists with none, and may raise wherever it reads or writes.             *)
Rec == <<job.student, job.term>>

LeaveOut(r) == [r EXCEPT !.pc = "responded", !.failed = @ + 1] \* mutant: no continue
Skip(r) == [r EXCEPT !.pc = "loop", !.failed = @ + 1]

Raises ==
    /\ job' = NoJob
    /\ request' = IF request.pc = "clicked" THEN NoRequest ELSE Skip(request)

Returns ==
    /\ job' = NoJob
    /\ request' =
           IF request.pc = "clicked" THEN NoRequest
           ELSE [request EXCEPT
                    !.pc = "loop", !.processed = @ + 1,
                    !.totals = [c \in Changes |-> @[c] + Cardinality(job.result[c])]]

Resolve ==
    LET t == IF job.term # NoTerm THEN job.term ELSE active IN
    /\ job.pc = "resolve"
    /\ \/ t = Unset /\ Raises
       \/ t = NoTerm /\ Returns
       \/ /\ t \in Term
          /\ job' = [job EXCEPT !.pc = "create", !.term = t]
          /\ UNCHANGED request
    /\ UNCHANGED <<checklist, world, heard, outside>>

Records(c, k) == job' = [job EXCEPT !.result[c] = @ \union {k}]

(* The record is made if it is missing; a deleted student fails.           *)
Create ==
    /\ job.pc = "create"
    /\ job.student \in existing
    /\ job' = [job EXCEPT !.pc = "work"]
    /\ \/ GetOrCreate(Rec)
       \/ Exists(Rec) /\ UNCHANGED checklist
    /\ UNCHANGED <<world, request, heard, outside>>

(* The first loop adds steps, the second completes or reopens them, each   *)
(* key at most once.  A step somebody else added or deleted meanwhile is   *)
(* left alone by the helper and still named in the result.                 *)
Seeds(k) ==
    /\ job.pc = "work"
    /\ job.student \in existing
    /\ k \notin job.result["seeded"]
    /\ job.result["completed"] \union job.result["reopened"] = {}
    /\ Records("seeded", k)
    /\ \/ AddStep(Rec, k, "pending")
       \/ steps[Rec][k].status # "absent" /\ UNCHANGED checklist
    /\ UNCHANGED <<world, request, heard, outside>>

Completes(k) ==
    \/ CompleteStep(Rec, k)
    \/ steps[Rec][k].status = "absent" /\ UNCHANGED checklist
Reopens(k) ==
    \/ ReopenStep(Rec, k)
    \/ steps[Rec][k].status # "completed" /\ UNCHANGED checklist

Moves(k) ==
    /\ job.pc = "work"
    /\ k \notin job.result["completed"] \union job.result["reopened"]
    /\ \/ Completes(k) /\ Records("completed", k)
       \/ Reopens(k) /\ Records("reopened", k)
    /\ UNCHANGED <<world, request, heard, outside>>

Finish ==
    /\ job.pc = "work"
    /\ Returns
    /\ UNCHANGED <<checklist, world, heard, outside>>

Fail ==
    /\ job.pc # "idle"
    /\ Raises
    /\ UNCHANGED <<checklist, world, heard, outside>>

-----------------------------------------------------------------------------
(* What others do meanwhile.                                               *)
Elsewhere ==
    /\ outside < MaxOutside
    /\ outside' = outside + 1
    /\ UNCHANGED <<now, user, request, job>>
    /\ heard' = IF request.pc = "idle" THEN heard
                ELSE [heard EXCEPT !.seen = @ \union Seen',
                                   !.active = @ \union {active'}]

SetActive(t) ==
    /\ active # t
    /\ active' = t
    /\ UNCHANGED <<onboarding, steps, existing, reach>>
    /\ Elsewhere

Transfer(s, reasons) ==
    /\ reach[s] # reasons
    /\ reach' = [reach EXCEPT ![s] = reasons]
    /\ UNCHANGED <<onboarding, steps, existing, active>>
    /\ Elsewhere

(* Deleting a student takes the student's records along.                   *)
DeleteStudent(s) ==
    LET gone == {s} \X Term IN
    /\ s \in existing
    /\ existing' = existing \ {s}
    /\ onboarding' = [r \in Record |->
                         IF r \in gone THEN NoOnboarding ELSE onboarding[r]]
    /\ steps' = [r \in Record |->
                    IF r \in gone THEN [k \in Key |-> NoStep] ELSE steps[r]]
    /\ UNCHANGED <<reach, active>>
    /\ Elsewhere

BatchNext ==
    \/ \E raw \in SUBSET Id, t \in Term \union {NoTerm} : Post(raw, t)
    \/ Filter
    \/ PickTerm
    \/ \E s \in Student : NextStudent(s)
    \/ Respond
    \/ \E s \in Student : Click(s)
    \/ Resolve
    \/ Create
    \/ \E k \in Key : Seeds(k) \/ Moves(k)
    \/ Finish
    \/ Fail
    \/ \E t \in ActiveTerms : SetActive(t)
    \/ \E s \in Student, reasons \in {{}, {"unverified"}, Campus} : Transfer(s, reasons)
    \/ \E s \in Student : DeleteStudent(s)

BatchSpec == BatchInit /\ [][BatchNext]_batchVars

-----------------------------------------------------------------------------
(* The rows are those of the checklist, no student of a deleted one is     *)
(* left, and the batch runs at most one recalculation.                     *)
BatchTypeOK ==
    /\ TypeOK
    /\ existing \subseteq Student
    /\ active \in ActiveTerms
    /\ \A r \in Record : Exists(r) => r[1] \in existing
    /\ request.rows \in [Student -> Nat]
    /\ job.pc # "idle" <=> request.pc \in {"busy", "clicked"}
    /\ outside \in 0 .. MaxOutside

(* "A student whose recalculation raises is logged and counted in failed;  *)
(* the rest still run" (RecalculateView): when the answer is given, every  *)
(* posted student the filter found was recalculated exactly once, however  *)
(* many ids and campuses led to them, nobody else was, the counts add up,  *)
(* and the totals leave out what those that raised had done.               *)
EachStudentOnce ==
    request.pc = "responded" =>
        /\ \A s \in Student :
              heard.attempts[s] = IF s \in heard.found THEN 1 ELSE 0
        /\ request.processed + request.failed = Cardinality(heard.found)
        /\ request.skipped >= 0
        /\ \A c \in Changes :
              request.totals[c] <= request.processed * Cardinality(Key)

(* "Students outside the user's campus scope are ... never recalculated"   *)
(* and a posted term "must be on a campus the user processes" (#145): a    *)
(* recalculation writes only records of a student who was asked for and    *)
(* whom the user could see since, in the posted term if that is allowed,   *)
(* or in a term that was active since; and a batch that began with a term  *)
(* keeps to it, whatever becomes the active term meanwhile.                *)
Entitled(r) ==
    /\ r[1] \in heard.seen \intersect heard.asked
    /\ request.term # NoTerm => r[2] = request.term
    /\ IF request.posted # NoTerm
       THEN /\ r[2] = request.posted
            /\ user = "campus" => CampusOf[r[2]] \in Processes
       ELSE r[2] \in heard.active

WritesOnlyEntitled ==
    [][job' # job =>
          \A r \in Record :
              <<onboarding[r], steps[r]>>' # <<onboarding[r], steps[r]>>
                  => Entitled(r)]_batchVars
=============================================================================
