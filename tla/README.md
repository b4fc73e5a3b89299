# Verification of student_onboarding

TLA+ models of the onboarding checklists of `package-student_onboarding`, the
TLC runs that check them and the TLAPS proofs about them. `PROJECT.json` maps
each definition to the lines it stands for and lists the runs, the mutants of
the code that each property detects, the hazards and the findings. Paths below
are relative to `src/student_onboarding/` unless they start with `src/`.

## 1. Inventory

| Component | State | Operations | Talks to |
|---|---|---|---|
| Rows (`models.py`) | `StudentOnboarding`: one row per (student, term), with `started_on`, `completed_on`, `total_steps`, `completed_steps`, `last_notified_on`; `StudentOnboardingStep`: one row per (record, key), with `status`, `completed_on` | `recompute_completion` | written by the helpers, the admin and the reminders |
| Helpers (`api.py`) | none of their own | `get_or_create_for_current_term`, `add_step`, `complete_step`, `mark_not_applicable`, `reopen_step` | one transaction each, row lock on the record |
| Recalculation (`api.py`) | locals of a run: the snapshot of the statuses | `recalculate` | predicates of the registry, then the helpers one by one |
| Step registry (`step_registry.py`) | `_registry`, per process | `register`, `all_steps`, `should_seed`, `is_complete` | the host's catalog; read by recalculation, backfill, reminders, settings |
| Event bus (`signals.py`, `handlers.py`, `apps.py`, `onboarding_dispatch`, `onboarding_doctor`) | `_handlers` and the receivers of the signal, per process | `register`, `unregister`, `dispatch`, `_bridge`, `ready` | producers in the host; handlers call the helpers |
| Context processor | none | `onboarding_progress` | creates the record on a page view |
| Reminders (`services.py`, `notify_pending_onboarding`, Send Now) | `last_notified_on`; the plan of a run | `build_plan`, `send_notifications` | settings, rows, the mailer |
| Settings form | one JSON setting, one CronTab row | save, `from_db` | reminders |
| Statistics (`aggregate_onboarding_stats`) | `DailyOnboardingStats` | `_aggregate_for` per day | reads the rows; the timeline view reads its dates |
| Backfill (`seed_onboarding`) | locals of a run | filter, dispatch, pre-mark | event bus, predicates, `complete_step` |
| Batch and action (`RecalculateView`, `actions.py`) | locals of a request | `post`, `recalculate_onboarding` | campus scope of the host, then `recalculate` per student |
| Staff views (`views.py`, `serializers.py`, `reports/`) | none | tabs, export, report, announcement | read the rows, the counters, the times |
| Admin (`admin.py`) | the forms people have open | edits and deletions past the helpers | rows |
| Other commands, menu, migrations | none | see `PROJECT.json` | helpers, or read-only |

What is hard about it: every helper may be called by several processes at once
and may die anywhere; completion is derived from two stored counters rather
than from the steps; `recalculate`, the planner, the aggregator and the
backfill are sequences of separate transactions that act on what they read
earlier; the clock and the active term move while they run; the admin writes
past all of it; handlers share a list that changes while it is walked.

What makes each part correct:

* Rows and helpers: counters and completion time agree with the step rows after
  every call; times are not lost.
* Recalculation: what it leaves is in line with the predicates; it leaves alone
  what was waived before; it is idempotent.
* Reminders: nobody is mailed more often than `freq` allows, and nobody who is
  due is forgotten.
* Statistics: one row per key, figures that agree with the rows, reruns that
  change nothing.
* Batch: everybody in scope is recalculated once and counted once; nobody else is.
* Views: the helpers repair what they recount, and of a record that has been
  recounted all lists tell the same story.
* Event bus: every handler runs once and in order; a dispatch that is reported
  has happened.
* Backfill: who has been processed is fully seeded; who had a record is left
  alone.

## 2. Modules

| Module | Models | Extends |
|---|---|---|
| `ChecklistData` | the rows, the counting queries, `recompute_completion` | |
| `Checklist` | the helpers, each one atomic step: the abstract specification | `ChecklistData` |
| `ChecklistTx` | the helpers statement by statement under READ COMMITTED | `ChecklistData`; implements `Checklist` |
| `Recalculate` | `recalculate`, the changing predicates and other callers | `Checklist` |
| `BatchRecalculate` | the batch view and the staff action around `recalculate` | `Checklist` |
| `Reminders` | planner, sender, settings, rate limit | |
| `DailyStats` | the rollup and its rows | `Checklist` |
| `Seeding` | the backfill, its event, the context processor, term rollover | `Checklist` |
| `EventBus` | signal, bridge, handler registry, `onboarding_dispatch`, the doctor | `Checklist` |
| `StaffViews` | direct writes of staff, and every list that staff read | `Checklist` |

The theorems are in modules of their own:

| Module | Theorems about | Extends |
|---|---|---|
| `ChecklistProofs` | `Checklist` | `Checklist` |
| `ChecklistTxProofs` | `ChecklistTx` | `ChecklistTx`; cites an instance of `ChecklistProofs` |
| `RecalculateProofs` | `Recalculate` | `Recalculate`, `ChecklistProofs` |
| `RemindersProofs` | `Reminders` | `Reminders` |
| `DailyStatsProofs` | `DailyStats` | `DailyStats`, `ChecklistProofs` |
| `SeedingProofs` | `Seeding` | `Seeding`, `ChecklistProofs` |
| `EventBusProofs` | `EventBus` | `EventBus`, `ChecklistProofs` |
| `StaffProofs` | `StaffViews` and `BatchRecalculate` | both, `ChecklistProofs` |

Each `MC*` module extends the module it is named for and only adds model
values, symmetry sets and values for the constants.

**ChecklistData, Checklist.** A record is a (student, term) pair. A missing row
is a row whose `started_on` is NULL, a missing step has the status `"absent"`.
A call takes effect at once, but its clock readings are picked from the times
the record has not yet passed: a transaction reads the clock while it runs. All
time stamps are taken under the record's lock, so they come after those of
earlier calls.

**ChecklistTx.** `pc` is the next SQL statement of a caller, `mem` the model
instances it holds in memory, `written` the columns it has saved and not yet
committed, `lock` the holder of a record's row lock or of its uncommitted
unique key. `SelectForUpdate`, `InsertForUpdate`, `GetStep`, `SaveStep`,
`CountSteps`, `SaveCounters`, `Recompute` and `Commit` are the statements of the
helpers in their order; `Abort` rolls a caller back at any of them. The
`get_or_create` of the context processor runs outside a transaction (`Select`,
`Insert`). `update_fields` is kept: a save writes only its columns, from memory.

`Checklist` has no run of its own: the rows that `ChecklistTx` commits satisfy
its properties, and they are checked there, where a call can break them.

**Recalculate.** `run[w].rows` is the snapshot; the helper calls are the actions
of `Checklist`. `isComplete` and `shouldSeed` are what the predicates would
return now (`"none"`: no predicate, or it raised); `FactsChange` moves them.
`heard[w]` is a history variable, of what has happened since `w` began: nothing,
only calls on its record by runs that themselves began after the last outside
change (`"run"`), a call on its record by a run from before it (`"stale"`), or a
change from outside (`"outside"`). `waived[w]` is history too: the steps that
were waived when `w` began and have been ever since.

A row the second loop has compared is forgotten, as the code does not look at it
again.

**BatchRecalculate.** One request at a time, and one recalculation (`job`) in
it. `Filter` is the query for the students in scope, `PickTerm` the check and
choice of the term, `NextStudent` one turn of the loop. `Resolve`, `Create`,
`Seeds`, `Moves` and `Finish` are any recalculation: which keys it adds or moves
is left open, because `Recalculate` decides it; `Fail` is an exception at any of
them. An id is a model value that names a student: two spellings of one UUID are
two ids, a malformed id names nobody. `reach` is why a user sees a student - one
row of the join for each reason. `heard` is history: who could be seen and what
was the active term since the request began.

**Reminders.** Times are kept as ages in parts of a day, capped at the longest
`freq`, so the clock runs for ever in a finite model. A run reads the setting and
the open records (`BuildPlan`), reads the steps of one record after the other
(`Classify`) and then sends and stamps them one by one. Cron starts it at one
part of the day (`StartScheduled`), an operator at any (`StartByHand`). Staff
change the setting, `freq` included, and the record form of the admin posts back
the `last_notified_on` it was opened with (`OpenRecord`, `SaveRecord`).
`mailAge`, `unstamped`, `unmailed` and `unseen` are history variables: what
really was sent, which stamps are missing, undone by a form, or stand for no
e-mail, and which e-mails a run could not know of. `Reachable` are the students
with a valid address.

**DailyStats.** The clock of `Checklist` counts days. `stats` maps a key to the
rows under it, because the unique key does not bind rows whose highschool is
NULL. `todo` are the upserts that follow from the last query; `UpdateOrCreate`
is the locking lookup with its update, `Insert` the second statement if nothing
was found. `quiet` and `settled` are history variables.

**Seeding.** The command works on its own copy of term and registry; every
helper call resolves the active term anew. The host's handler is external and
modelled as `src/README.md` lists it: `add_step` for each registered step, all
of them due. `existed` and `run.split` are history: the records that were there
when the run began, and whether the term has changed since.

**EventBus.** `listeners` is the registry, `receivers` how often the bridge is
connected. Each thread walks the live list by position (`Pick`,
`HandlerReturns`, `NextReceiver`, `Sent`), so a change of the registry shifts
what it sees. Handlers are sequences of helper calls given by the constant
`Work`; the host's list of them is external. `quiet` and `owed` are history:
whether the registry has stood still, and which steps a command has promised to
complete. The host's `ready()` registers a list without repetitions (`register`
makes it one); another app may have registered one handler before or after it
(`AtStartup`), so a signal with several handlers needs no change. If the host's
`ready()` runs again it registers its handlers one by one (`Register`); that of
the package only reconnects the bridge (`Ready`).

**StaffViews.** The actions are the helpers of `Checklist` and the writes that
go past them: the step admin, the record form, deletions and the bulk update of
Scenario B. The form is opened (`OpenForm`), and its request loads the rows again
and puts the posted columns over them (`PostForm`) and saves what it then has,
whole rows (`SaveForm`), or it is left (`CloseForm`). `unsure` is history: the
counters of a record that no helper has recounted since the last such write. The
tabs, the charts, the export, the report, the announcement and the planner are
operators over the stored rows, one for each query. A step was worded differently
when different records got it (`LabelOf`): the funnel has a bar for each wording
(`Bar`), and a click on any of them opens the table of the key.

## 3. Runs

| Run | Instance | Shows |
|---|---|---|
| `checklist_tx` | 2 callers, 1 record, 2 keys, 2 times | the transactions implement `Checklist` (`ImplementsChecklist`); counters, completion and times of the committed rows; no stale parent row; every call ends |
| `recalculate` | 2 workers, 1 record, 2 registered keys and 1 other, 1 outside change | an undisturbed run brings the checklist in line and a second one does nothing; overlapping runs end in line too; earlier waivers are kept |
| `reminders` | 1 student, 1 key, the job, and a second process for runs by hand and Send Now, all modes, 2 values of `freq`, the record form, 1 crash | early reminders only if the last one was not on record in time; the rate limit holds back only who was mailed within `freq`, or stamped by a debug run |
| `reminders_all` | 2 students, 2 keys, the job, every selection of items, 1 crash | no student is starved by the steps, the e-mails or the failures of others |
| `reminders_days` | 1 student, 1 key, 2 parts of a day | finding 1 |
| `daily_stats` | 2 records, 1 school or none, 2 days, 1 change | a single aggregator: unique rows, right groups, consistent past days, idempotence |
| `daily_stats_twice` | 1 record, 2 workers | finding 2 |
| `seeding` | 1 student, 2 terms, 2 keys, every event | processed students are seeded and pre-marked; reruns leave records alone; a term change may split a checklist, but loses no step |
| `seeding_new_step` | 1 student, 1 term, 2 keys | finding 3 |
| `staff_views` | 2 records, one with a school, one address, 2 keys, 2 labels, 2 times, 1 direct write | helpers repair the counters they recount; the lists tell one story of recounted records; nobody pending is missed |
| `batch` | 2 students, 2 terms, 4 ids (2 spellings of one, 1 malformed), at most 2 posted, 3 campuses, 1 outside change | everybody in scope once, counts add up, writes only where the user may |
| `event_bus` | 2 records, 2 events, 3 handlers, a request and a command, 1 change of the registry | handlers once and in order; a reported dispatch was served |

**Bounds.** One record is enough for the helpers: they lock, read and write one
record only, and the proofs cover any number of records. Recalculations of
different records meet only in the predicates; that a worker may go on from one
record to another is left to the proofs, which cover any number of both. Two
callers cover every conflict of a pair; two keys let them work on the same step
and on different ones, and let one step be done while another is added; two times
let a step be restamped. The backfill treats one student after the other and no
step of it looks at two of them, so one student has all its races; being killed
between two students is being killed between two runs. `MaxOutside`, `MaxChanges`
and `MaxCrashes` bound what happens beside a run: one change can fall between any
two steps of it, which is what the properties are about, and the initial states
of `Recalculate` already range over all settled checklists. `reminders` has one
part to a day and ages up to the longer `freq`: for either `freq` a stamp just
within the limit and one exactly at it; `NothingSelected` fixes the selection of
items, which `reminders_all` varies. `reminders_all` has a second student, whose
row may be before or after the one that raises, and a second step; one crash
stands for finitely many, as only what follows the last one decides whether a
student is starved. `MaxEdits = 1` is one write
past the helpers, with the form that was opened before it or is posted as it; the
constraint `Small` keeps at most two step rows between the two records, which
still gives a record with an open and a done step, and two records that share an
address and have different labels, and opens the form only on the first record
and while a write is left to save it. A batch of two ids has the second spelling
of a student, the malformed id and two students; `MaxIds` itself cuts off the
third. `MaxTime` bounds the clock, `Age` caps the ages where the code stops
distinguishing them.

**Fairness.** `ChecklistTx.FairSpec`: statements are executed (weak fairness of
each caller), and PostgreSQL serves waiting transactions in turn (strong
fairness of the statements that wait). `Reminders.FairSpec`: days pass, a run
goes on, and cron starts the job again and again; the start needs strong
fairness because it is enabled only at one part of the day. Runs by hand, staff
and crashes have no fairness; crashes are finitely many.

`batch` alone switches deadlock checking off: it models one request, after whose
answer nothing is left to do.

## 4. Findings

Each of these is a run that TLC finds violated; the texts and lines are in
`PROJECT.json`.

1. A daily job reminds every `freq + 1` days, not every `freq`
   (`reminders_days`).
2. Overlapping aggregators insert two all-schools rows, and later runs for the
   day fail (`daily_stats_twice`).
3. A backfill after a new step reaches no student who has a record
   (`seeding_new_step`); `recalculate` does.

The modules state more that the docs or comments say and the code does not do.
No configuration is kept for them; the constants given here show the violation.

* `WaivedLeftAlone` with one worker, one key and `MaxOutside = 1`: a step waived
  after the snapshot is completed (`api.py:187` says it is left alone).
* `LastRunBringsInLine` with `MaxOutside = 1`: of two overlapping recalculations
  the one with the older predicate value may write last, and nothing triggers
  another run.
* `RateLimitKept` with two senders: they mail a student twice, as the check and
  the stamp are far apart. With one sender and the record form open on the
  student: posting it takes the stamp of the last e-mail back. `EarlyOnlyIfUnrecorded` is
  what remains true.
* `OptedOutIgnored` with two keys, one of them in `Offered`: a step without
  `notify_label` is still named if the setting lists it.
* `StepRowsCurrent` with one worker and one change: a rerun of the rollup leaves
  the row of a step whose last completion was taken back.
* `NightlyRowCoversDay` with `NightlyOnly = TRUE`: the nightly rollup covers the
  first hours of its day only.
* `FullRunReachesEveryone` with `Events = {"visit"}`: a page view before the
  backfill makes it skip the student.
* `PremarkedByOwnTerm` with two terms and `Events = {"rollover"}`: a term change
  during the backfill completes a step of the new term on the word of a predicate
  about the old one.

Seen while the modules were written, and visible in them rather than in a run:

* A record that a page view has created is open and has nothing pending, so the
  planner counts it as `all_done`, which `services.py:201-211` calls a bucket
  for drifted data only (`Decision`).
* A run of the reminders ends at the first row that raises (`services.py:283`). If
  the same row raises every day, the rows after it are never reached;
  `RemindedForever` holds because only finitely many runs die.
* The stalled tab names students "with no step completion in the last X days"
  (`views.py:207`). A step completed in the admin gets no time, and one that is
  deleted takes its time along, so a student who was active yesterday may be
  listed (`Stalled`, after `EditStep` or `DeleteStep`).
* The funnel has one bar for each wording of a step (`Bar`), and each opens the
  table of all of them: when labels of a key differ, as `src/README.md:559` says
  they may, each bar is shorter than the table it opens.
* A waived step can be completed, and a completed one reopened, so a waiver is
  undone by two calls although no single one makes a waived step due again.
* After a step row is deleted or waived in bulk nothing recomputes the record: it
  may stay open with nothing pending until a helper changes another step
  (`RecountRepairs` is about the records that a helper has recounted).
* `src/README.md:660` calls the admin "read-only support access"; its record
  form posts back the counters, the statuses and `last_notified_on` as they were
  when it was opened, and overwrites even the times that the helpers wrote between
  its own load and its save (`PostForm`, `SaveForm`; `SaveRecord` in `Reminders`).
* `src/README.md:466` says the stored statistics power the by-school and funnel
  charts; both query the rows (`BySchool`, `Bar`), and the timeline takes only
  its dates from them.
* `get_recipients` says "One row per student with an email"
  (`reports/onboarding_pending_items.py:199`) and gives one per address
  (`Recipients`): of two students who share one, one is left out.
* The batch counts the second spelling of an id it has processed as `skipped`,
  "out of scope, unknown or malformed" (`views.py:329`, `Filter`).
* `dispatch` promises "every handler" (`handlers.py:35`); one that is
  unregistered during it makes the next one be passed over, hence the condition
  `quiet` of `QuietDispatchServesAll`.
* A completion event that is served while its student is being seeded finds no
  step, and nothing repeats it, hence `owed` in `SentMeansServed`.
* The doctor's `bridge_attached` counts any receiver of the signal, not the
  bridge (`DoctorPasses`).
* The sample handlers of `src/README.md:130` take the student by position;
  `dispatch` passes it as a keyword, so they raise `TypeError`.

## 5. Proofs

Every theorem is about every value of the constants: any number of records,
callers, workers, senders, students and direct writes, any finite set of keys,
any bound on the clock. The assumptions are those the modules name: the keys are
a finite set and the bounds are natural numbers (`KeyAssumption`,
`MaxTimeAssumption`, `MaxEditsAssumption`, `CrashesAssumption`), the records are
finite where they are counted (`RecordAssumption` of `DailyStats` and `EventBus`,
`FiniteAssumption` of `StaffViews`), each row has one of the labels
(`LabelAssumption`), `freq` is between one day and a bound (`FreqAssumption`),
and the constants that stand for "none" or "any" are not one of the things they
are compared with. One is about the code: `HostAssumption` (the lists the host
registers have no repetitions, which `register` sees to).

**`ChecklistProofs`**: `TypeOK` (`TypeCorrect`), `CountersMatchSteps`
(`CountersCorrect`), `CompletionMatchesSteps` (`CompletionCorrect`),
`StepTimesMatchStatus` (`StepTimesCorrect`) and `CompletionTimeStable`
(`CompletionTimeNeverMoves`). `TypeOK` is inductive as it stands (one lemma per
action). The counters are not: a step row without its parent would break them
when the parent is created with zero counters. `CountersInv` therefore adds
`StepsHaveParent` (a record without a row has no step rows) and states, for each
record, that the counters are the cardinalities of the two sets of keys and that
the completion time is set exactly when both are equal and positive.
`RecomputeRight` says that `recompute_completion` establishes the latter from the
former; `RecountRight` that counting after a write gives the former; each action
needs one of them. `CountersMeet` (equal cardinalities of a finite set and its
subset mean equal sets) turns "all counted" into "all done". The effect of each
helper (`AddEffect`, `TransitionEffect`, `ReopenEffect`, `CreateEffect`) and the
order of the times (`OrderKept`) are lemmas that the other proof modules cite.

**`ChecklistTxProofs`**: `TypeOK` (`TxTypeCorrect`), `NoStaleRow`
(`RowsNeverStale`) and the refinement `ImplementsChecklist`
(`TxImplementsChecklist`); from the refinement and the theorems about `Checklist`
it follows that the committed rows have the right counters
(`CommittedCountersRight`), completion (`CommittedCompletionRight`) and step
times (`CommittedTimesRight`), and that a completion time does not move
(`CommittedTimeNeverMoves`), whatever is under way. `TxInv` says, for each caller
at each statement, what it holds (`HoldInv`: the lock lies with it until its
commit), which columns of memory differ from the database and are or will be
written (`SavedInv`: the `update_fields` of every save name what has changed) and
which computation its memory is in the middle of (`StageInv`). At the commit this
leaves three cases, `Unchanged`, `Restamped` and `Updated`, each of which is one
helper of `Checklist`; the clock readings of that helper are those the caller
took at its statements. Every other statement, and `Abort`, changes no committed
row.

**`RecalculateProofs`**: `RecalcTypeOK` (`RecalcTypeCorrect`),
`EarlierWaiversKept` (`WaiversLeftAlone`), `QuietRunBringsInLine`
(`QuietRunsBringInLine`), `OverlappingRunsBringInLine`
(`OverlappingRunsConverge`) and `QuietRunKeepsLine` (`QuietRunsAreIdempotent`). A
run that others disturb no longer knows the rows; `RecInv` says how much it still
knows. `KnowsEnough`: where its snapshot and the row of a key have parted, the
second loop leaves nothing out of line; a write of a run that began after the
last outside change (`SoundWrite`) keeps that true of every other such run, since
both go by the same predicates. A run with `create` off that found no record
promises nothing itself, and the run that creates the record takes over
(`TakenOver`). `WaivedInv` says that a step that has been waived since before the
run began is still waived in its snapshot until the second loop has passed it, so
the run adds, completes or reopens another one.

**`RemindersProofs`**: `TypeOK` (`RemindTypeCorrect`), `EarlyOnlyIfUnrecorded`
(`EarlyMeansUnrecorded`) and `RateLimitedWasNotified` (`HeldBackWasMailed`).
`RemindInv` ties the stamps to the e-mails: an e-mail is recorded unless its
stamp is missing or on its way (`MailRecorded`), a stamp stands for an e-mail
unless a debug run wrote it (`StampMeansMail`), whom a run of the command may
still mail has not been mailed within its `freq` days as far as it could know
(`KnowsMails`), and an open form shows a stamp no younger than the row's, for
which an e-mail was sent unless a debug run wrote it (`FormInv`).

**`DailyStatsProofs`**: `StatsTypeOK` (`StatsTypeCorrect`),
`QuietRunRecordsGroups` (`QuietRunsRecord`), `PastDayConsistent`
(`PastDaysConsistent`), `RerunKeepsStats` (`RerunsChangeNothing`) and, under the
hypothesis that there is but one aggregator, `OneRowPerKey`
(`OneAggregatorOneRow`); that two break it is finding 2. `StatsInv`: as long as
nothing has changed, what a run carries is what the query would find now
(`UpToDate`) and what it has asked for it has written or is going to write
(`QuietRight`); for a past day its total stays what it was and bounds every
figure (`PastRight`), because no record starts before the day on which it is
made, nor completes before it starts.

**`SeedingProofs`**: `SeedTypeOK` (`SeedTypeCorrect`), `ProcessedAreSeeded`
(`ProcessedStaySeeded`), `NoStepLost` (`NoStepIsLost`) and
`RerunLeavesRecordsAlone` (`RerunIsSafe`). `SeedInv` adds that the students still
to come had no record when the run began (`TermInv`) and what the current student
already has of the keys the run is done with (`CurrentInv`).

**`EventBusProofs`**: `BusTypeOK` (`BusTypeCorrect`), `QuietDispatchServesAll`
(`QuietDispatchCorrect`) and `SentMeansServed` (`ReportedIsServed`). `BusInv`:
under an unchanged registry the handlers served are those before the position of
the loop (`LoopRight`), the command's count is the students taken without the one
on its way (`CountRight`), and a step it owes is done, or its signal still comes
to a helper call that completes it (`OwedRight`).

**`StaffProofs`**: `StaffTypeOK` (`StaffTyped`), `RecountRepairs`
(`RepairCorrect`), `ViewsAgree` (`ViewsAlwaysAgree`) and `PendingSeenEverywhere`
(`NobodyFallsBetween`). After a direct write nothing relates the counters to the
steps until a helper recounts, so the invariant of `ChecklistProofs` does not
carry over. `StaffInv` says what does: the rows are typed, a record without a row
has no step rows, a form shows only rows that exist, and, for each record, a
counter that is not in `unsure` is the number it stands for, with the completion
time right when neither is. Two lemmas carry the two kinds of step:
`HelperWrites` (a helper leaves one record with fresh rows, recounts what it
recounts and recomputes the completion) and `DirectWrites` (staff change rows,
but put into `unsure` every counter the change may make wrong). `FormLoaded` says
that what a posted form will write shows no row that is gone. For the views,
`SureRecord` takes a recounted record from its completion time to its step rows
and `BehindBars` a whole selection of them; that the last time of a checklist
exists (`HasLatest`) is needed for the stalled tab.

Of `BatchRecalculate`, with any number of students, terms, campuses, posted ids
and outside changes: `BatchTypeOK` (`BatchTypeCorrect`), `EachStudentOnce`
(`EachStudentExactlyOnce`) and `WritesOnlyEntitled` (`OnlyEntitledWritten`). The
invariant `BatchInv` accounts for every student the filter found (`CountInv`): a
row that waits, the one under way, or one of the two counts; that `skipped` is
never negative rests on an id naming at most one student (`FewerThanIds`) and on
the ids being finitely many, as those of a request are (`FiniteIdAssumption`). Of
the rights, `HeardInv` says that the history has kept up with who is seen and
what is active, `TermInv` that the term of the request was allowed or was active
when it was picked, and `JobInv` that the recalculation under way may write its
record (`ResolvesEntitled`), which no later change takes back. `JobWritesOwn`
adds that it writes no other.

Only model-checked: liveness (`CallsTerminate`, `RemindedForever`), which is out
of the prover's reach, as is `ENABLED`. Every invariant and every action property
of the passing runs is a theorem.

Looking for the invariants changed the models in four places, each of which a
bound had hidden:

* `OverlappingRunsBringInLine` was false with two records: the worker of a stale
  run may leave one record out of line and then begin a fresh run on the other,
  after which its own history no longer told that the first run had been stale.
  The others on that record are told now (`Told`).
* `RerunKeepsStats` was false with two aggregators: the step that changed a row
  was not that of the quiet run. It is about the run's own steps now.
* `LastStepCompletedOn` (`StaffViews`) took the maximum over no rows to be
  whatever `CHOOSE` gives when there are no keys at all; it is NULL.
* A handler list with repetitions, which `register` never makes, was allowed as
  the host's.

## 6. What is not modelled

* Labels, links, messages, display order, e-mail texts, notes, CSV layout, search
  boxes and page permissions: no property depends on them. The label of a record's
  row of a step is a constant of `StaffViews`; the admin could change it.
* `notify_action`, `add_note` and dry runs (of the reminders and of
  `onboarding_dispatch`): side effects in the host, whose exceptions are
  swallowed, or counts of what would be done. A student named twice in
  `--student` is sent the event twice; targets are a set here.
* A missing active term outside `BatchRecalculate`: the helpers fail on the
  NOT NULL column, the commands stop at once.
* Records made by hand in the admin and counters typed in by hand: the form of
  `StaffViews` posts back what it showed. If a row it shows has been deleted
  meanwhile Django refuses the form. A row that is deleted between the form's load
  and its save is an error too in the model, where Django may insert it again.
* The `last_notified_on` of the form in `Reminders` and its other columns in
  `StaffViews` are separate forms: no property relates them.
* `--dry-run` and `--student` of the reminder command: the first changes nothing,
  the second plans one record of those that `BuildPlan` reads.
* Recalculations of one student that overlap are in `Recalculate`, not in
  `BatchRecalculate`; what one of them decides is not repeated there.
* The settings form beyond the values the planner reads, with its CronTab row,
  which is saved before the setting (`settings/student_regis_pending.py:82`);
  the doctor's checks of term and tables; `onboarding_inspect`.
* Menu, templates, migrations: presentation, generated or one-shot.
* The host: its handlers, students, campuses, terms, cron runner and settings
  storage appear as environment actions and constants.

## 7. Plan

1. (done) `ChecklistData`, `Checklist`, `ChecklistTx`: rows, helpers, locks;
   refinement; proofs of the atomic level.
2. (done) `Recalculate`, `Reminders`.
3. (done) `DailyStats`, `Seeding`.
4. (done) `EventBus`: registration, order, a handler that raises, a registry
   that changes during a dispatch.
5. (done) `StaffViews`: direct writes, their repair, the lists of staff.
6. (done) `BatchRecalculate`: scope, term, failures and totals.
7. (done) `StaffProofs`: typing, repair after direct writes, agreement of the views.
8. (done) `ChecklistTxProofs`: who holds which lock, stale rows, the refinement.
9. (done) Proofs about `Recalculate`, `Reminders`, `DailyStats`, `Seeding`,
   `EventBus` and `BatchRecalculate`.
10. The settings form with its CronTab row.
