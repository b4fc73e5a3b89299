------------------------------ MODULE DailyStats ------------------------------
(***************************************************************************)
(* management/commands/aggregate_onboarding_stats.py: the rollup of one    *)
(* term's checklists into DailyOnboardingStats, query by query, while the  *)
(* helpers of api.py go on changing the checklists.  The nightly job and a *)
(* backfill started by hand are both runs; each upsert of a run commits on *)
(* its own, and nothing keeps two runs apart.                              *)
(*                                                                         *)
(* The clock of Checklist counts days here: a run for day d looks at the   *)
(* times up to the end of d.                                               *)
(***************************************************************************)
EXTENDS Checklist, Sequences

CONSTANTS
    Worker,         \* the processes that run the command
    School,         \* high schools
    NoSchool,       \* the NULL of a highschool column
    AnyStep,        \* the empty step_key
    NightlyOnly,    \* TRUE: only the nightly job runs, for the day it runs on
    MaxChanges      \* bound on the changes to the checklists

ASSUME NullAssumption == NoSchool \notin School /\ AnyStep \notin Key
ASSUME BoundAssumption == NightlyOnly \in BOOLEAN /\ MaxChanges \in Nat
ASSUME RecordAssumption == IsFiniteSet(Record)

VARIABLES
    schoolOf,       \* the high school of each record's student
    stats,          \* the rows of DailyOnboardingStats under each key
    pc,             \* the next query of each worker
    run,            \* the locals of its run
    quiet,          \* history: nobody else has written since the run began
    settled,        \* history: days a quiet run rolled up, nothing written since
    changes

checklist == <<onboarding, steps, now, schoolOf>>
histories == <<quiet, settled>>
allVars == <<onboarding, steps, now, schoolOf, stats, pc, run, quiet, settled, changes>>

(* (date, highschool, step_key), unique together: but in SQL two NULLs are *)
(* different, so the key binds only the rows of a school.                  *)
StatsKey == Time \X (School \union {NoSchool}) \X (Key \union {AnyStep})
Unique(k) == k[2] # NoSchool

Figures(total, completed, stepCompleted) ==
    [total_onboardings |-> total, completed_count |-> completed,
     step_completed_count |-> stepCompleted]

(* An upsert to be done: the key and the defaults.                         *)
Upsert(k, figures) == [key |-> k, figures |-> figures]

(* The upserts of the last query, and the one whose row was not found.     *)
NoRun ==
    [date |-> 1, last |-> 1, began |-> 1, total |-> 0, todo |-> {}, insert |-> {}]

-----------------------------------------------------------------------------
(* The queries of _aggregate_for.  A record counts once it is started, as  *)
(* completed once completed_on lies before the end of the day.             *)
StartedBefore(r, d) == onboarding[r].started_on \in 1 .. d - 1   \* mutant: __lt
StartedBy(r, d) == onboarding[r].started_on \in 1 .. d
CompletedBy(r, d) == StartedBy(r, d) /\ onboarding[r].completed_on \in 1 .. d
Total(d, rs) == Cardinality({r \in rs : StartedBy(r, d)})
Completed(d, rs) == Cardinality({r \in rs : CompletedBy(r, d)})
StepCompleted(d, k) == Cardinality({r \in Record : steps[r][k].completed_on \in 1 .. d})
Pupils(h) == {r \in Record : schoolOf[r] = h}

AllRow(d, total) ==
    Upsert(<<d, NoSchool, AnyStep>>, Figures(total, Completed(d, Record), 0))

(* GROUP BY yields the groups that have rows; students without a school    *)
(* are skipped, so that they do not write over the row for all schools.    *)
GroupNull(h) == TRUE                    \* mutant: `if hs_id is None: continue` is missing
Grouped(h) == h # NoSchool
SchoolRows(d) ==
    {Upsert(<<d, h, AnyStep>>, Figures(Total(d, Pupils(h)), Completed(d, Pupils(h)), 0)) :
        h \in {g \in School \union {NoSchool} : Grouped(g) /\ Total(d, Pupils(g)) > 0}}
StepRows(d, total) ==
    {Upsert(<<d, NoSchool, k>>, Figures(total, 0, StepCompleted(d, k))) :
        k \in {j \in Key : StepCompleted(d, j) > 0}}

Settled(ss) ==
    LET row == [NewOnboarding(1) EXCEPT !.total_steps = CountTotal(ss)]
    IN  RecomputeCompletion(RecountDone(row, ss), 1)

(* Checklists of the first day, as calls of the helpers leave them.        *)
StatsInit ==
    /\ \/ Init
       \/ /\ steps \in [Record -> [Key -> {StepBorn(s, 1) : s \in Status} \union {NoStep}]]
          /\ onboarding = [r \in Record |-> Settled(steps[r])]
          /\ now = 1
    /\ schoolOf \in [Record -> School \union {NoSchool}]
    /\ stats = [k \in StatsKey |-> <<>>]
    /\ pc = [w \in Worker |-> "idle"]
    /\ run = [w \in Worker |-> NoRun]
    /\ quiet = [w \in Worker |-> FALSE]
    /\ settled = {}
    /\ changes = 0

GoTo(w, query) == pc' = [pc EXCEPT ![w] = query]
Date(w) == run[w].date

(* History: w has written rows, the other runs are not alone.              *)
Disturb(w) == quiet' = [v \in Worker |-> quiet[v] /\ v = w]

-----------------------------------------------------------------------------
(* The days from --backfill-from to --date; both default to today.         *)
Start(w, first, last) ==
    /\ pc[w] = "idle"
    /\ first <= last /\ last <= now
    /\ NightlyOnly => first = now
    /\ run' = [run EXCEPT ![w] = [NoRun EXCEPT !.date = first, !.last = last, !.began = now]]
    /\ GoTo(w, "total")
    /\ quiet' = [quiet EXCEPT ![w] = \A v \in Worker : pc[v] = "idle"]
    /\ UNCHANGED <<checklist, stats, settled, changes>>

CountStarted(w) ==
    /\ pc[w] = "total"
    /\ run' = [run EXCEPT ![w].total = Total(Date(w), Record)]
    /\ GoTo(w, "completed")
    /\ UNCHANGED <<checklist, stats, histories, changes>>

(* The other queries leave rows to be upserted, in no given order, before  *)
(* the next query.                                                         *)
Query(w, query, upserts, next) ==
    /\ pc[w] = query
    /\ run[w].todo = {} /\ run[w].insert = {}
    /\ run' = [run EXCEPT ![w].todo = upserts]
    /\ GoTo(w, next)
    /\ UNCHANGED <<checklist, stats, histories, changes>>

CountCompleted(w) == Query(w, "completed", {AllRow(Date(w), run[w].total)}, "schools")
QuerySchools(w) == Query(w, "schools", SchoolRows(Date(w)), "steps")
QuerySteps(w) == Query(w, "steps", StepRows(Date(w), run[w].total), "next")

(* update_or_create.  It locks and updates the one row it finds; more than *)
(* one raises MultipleObjectsReturned and ends the command; with none it   *)
(* inserts in a second statement.                                          *)
Accumulated(old, new) ==                \* mutant: F('...') + count
    [new EXCEPT !.total_onboardings = @ + old.total_onboardings]
Updated(old, new) == new

AlwaysCreated(k) == <<>>                \* mutant: create for update_or_create
Found(k) == stats[k]

UpdateOrCreate(w) ==
    \E u \in run[w].todo :
        LET rows == Found(u.key) IN
        /\ run[w].insert = {}
        /\ \/ /\ Len(rows) = 0
              /\ run' = [run EXCEPT ![w].insert = {u}]
              /\ UNCHANGED <<stats, pc, histories>>
           \/ /\ Len(rows) = 1
              /\ stats' = [stats EXCEPT ![u.key] = <<Updated(rows[1], u.figures)>>]
              /\ run' = [run EXCEPT ![w].todo = @ \ {u}]
              /\ Disturb(w)
              /\ UNCHANGED <<pc, settled>>
           \/ /\ Len(rows) > 1
              /\ run' = [run EXCEPT ![w] = NoRun]
              /\ GoTo(w, "idle")
              /\ quiet' = [quiet EXCEPT ![w] = FALSE]
              /\ UNCHANGED <<stats, settled>>
        /\ UNCHANGED <<checklist, changes>>

(* The insert.  If another run has inserted the same unique key by then it *)
(* fails, and the row is fetched and updated after all.                    *)
Insert(w) ==
    \E u \in run[w].insert :
        LET rows == stats[u.key] IN
        /\ stats' = [stats EXCEPT ![u.key] =
               IF Unique(u.key) /\ rows # <<>> THEN <<Updated(rows[1], u.figures)>>
               ELSE Append(rows, u.figures)]
        /\ run' = [run EXCEPT ![w].todo = @ \ {u}, ![w].insert = {}]
        /\ Disturb(w)
        /\ settled' = settled \ {u.key[1]}
        /\ UNCHANGED <<checklist, pc, changes>>

NextDate(w) ==
    /\ pc[w] = "next"
    /\ run[w].todo = {} /\ run[w].insert = {}
    /\ settled' = IF quiet[w] THEN settled \union {Date(w)} ELSE settled \ {Date(w)}
    /\ IF Date(w) < run[w].last
       THEN /\ run' = [run EXCEPT ![w].date = @ + 1]
            /\ GoTo(w, "total")
            /\ UNCHANGED quiet
       ELSE /\ run' = [run EXCEPT ![w] = NoRun]
            /\ GoTo(w, "idle")
            /\ quiet' = [quiet EXCEPT ![w] = FALSE]
    /\ UNCHANGED <<checklist, stats, changes>>

(* The command is killed, or a query fails: what it has written stays.     *)
Die(w) ==
    /\ pc[w] # "idle"
    /\ run' = [run EXCEPT ![w] = NoRun]
    /\ GoTo(w, "idle")
    /\ quiet' = [quiet EXCEPT ![w] = FALSE]
    /\ UNCHANGED <<checklist, stats, settled, changes>>

Aggregate(w) ==
    \/ CountStarted(w)
    \/ CountCompleted(w)
    \/ QuerySchools(w)
    \/ QuerySteps(w)
    \/ UpdateOrCreate(w)
    \/ Insert(w)
    \/ NextDate(w)
    \/ Die(w)

-----------------------------------------------------------------------------
(* A helper of api.py changes a checklist, or a student changes schools.   *)
(* A call is over within the day it reads off the clock.                   *)
Changed ==
    /\ changes < MaxChanges
    /\ changes' = changes + 1
    /\ quiet' = [w \in Worker |-> FALSE]
    /\ settled' = {}
    /\ UNCHANGED <<stats, pc, run>>

ChecklistChanges(r) ==
    /\ \/ GetOrCreate(r)
       \/ \E k \in Key, s \in Status : AddStep(r, k, s)
       \/ \E k \in Key : CompleteStep(r, k) \/ MarkNotApplicable(r, k)
       \/ \E k \in Key : ReopenStep(r, k)
    /\ Passed(r)' \subseteq Passed(r) \union {Null, now}
    /\ Changed
    /\ UNCHANGED schoolOf

SchoolChanges(r) ==
    /\ \E h \in School \union {NoSchool} : schoolOf' = [schoolOf EXCEPT ![r] = h]
    /\ Changed
    /\ UNCHANGED <<onboarding, steps, now>>

DayPasses ==
    /\ Tick
    /\ UNCHANGED <<schoolOf, stats, pc, run, histories, changes>>

StatsNext ==
    \/ \E w \in Worker, first, last \in Time : Start(w, first, last)
    \/ \E w \in Worker : Aggregate(w)
    \/ \E r \in Record : ChecklistChanges(r)
    \/ \E r \in Record : SchoolChanges(r)
    \/ DayPasses

StatsSpec == StatsInit /\ [][StatsNext]_allVars

-----------------------------------------------------------------------------
Counter == 0 .. Cardinality(Record)
FiguresType ==
    [total_onboardings : Counter, completed_count : Counter,
     step_completed_count : Counter]
UpsertType == [key : StatsKey, figures : FiguresType]

(* The counters stay within the number of records, and a run works within  *)
(* the days it was given.                                                  *)
StatsTypeOK ==
    /\ TypeOK
    /\ schoolOf \in [Record -> School \union {NoSchool}]
    /\ \A k \in StatsKey : \A i \in DOMAIN stats[k] : stats[k][i] \in FiguresType
    /\ pc \in [Worker -> {"idle", "total", "completed", "schools", "steps", "next"}]
    /\ \A w \in Worker :
        /\ run[w].total \in Counter
        /\ run[w].date \in 1 .. run[w].last /\ run[w].last <= now /\ run[w].began <= now
        /\ run[w].insert \subseteq run[w].todo /\ run[w].todo \subseteq UpsertType
    /\ settled \subseteq Time

(* "one row per (date, term, highschool, step_key)" (README.md:466): the   *)
(* timeline plots a day once per row of it.                                *)
OneRowPerKey == \A k \in StatsKey : Len(stats[k]) <= 1

(* "Idempotent daily rollup" (README.md:364): to roll up a day once more   *)
(* changes nothing, as long as no checklist has changed and nobody else is *)
(* writing.                                                                *)
RerunKeepsStats ==
    [][\A w \in Worker :
          quiet[w] /\ quiet'[w] /\ run[w].todo # {} /\ Date(w) \in settled
              => stats' = stats]_allVars

(* What a quiet run leaves for the groups it found: the figures of all     *)
(* schools, of each school and of each step are those of the checklists.   *)
Recorded(d, u) == stats[u.key] = <<u.figures>>
QuietRunRecordsGroups ==
    \A d \in settled :
        /\ Recorded(d, AllRow(d, Total(d, Record)))
        /\ \A u \in StepRows(d, Total(d, Record)) : Recorded(d, u)
        /\ \A h \in School :
              Total(d, Pupils(h)) > 0 =>
                  Recorded(d, Upsert(<<d, h, AnyStep>>,
                      Figures(Total(d, Pupils(h)), Completed(d, Pupils(h)), 0)))

(* A day that was over when the run began is rolled up consistently though *)
(* the checklists change between the queries: a run never writes a row     *)
(* with more completions than there are records.                           *)
PastDayConsistent ==
    \A w \in Worker : \A u \in run[w].todo :
        Date(w) < run[w].began =>
            /\ u.figures.completed_count <= u.figures.total_onboardings
            /\ u.figures.step_completed_count <= u.figures.total_onboardings

(* "rollup of completions for that step up to `date`" (the command, line   *)
(* 139): after a quiet run the rows of a day say how many completions of   *)
(* the step there are.                                                     *)
StepRowsCurrent ==
    \A d \in settled, k \in Key :
        LET rows == stats[<<d, NoSchool, k>>] IN
        rows # <<>> => rows[1].step_completed_count = StepCompleted(d, k)

(* "`completed_count` = count where `completed_on::date <= date`" and the  *)
(* same for the records started (docs/ce_onboarding_summary_plan.md:102):  *)
(* the job has left a past day's row with the records started by that day. *)
NightlyRowCoversDay ==
    \A d \in Time :
        LET rows == stats[<<d, NoSchool, AnyStep>>] IN
        d < now /\ rows # <<>> => rows[1].total_onboardings = Total(d, Record)
=============================================================================
