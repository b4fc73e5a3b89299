------------------------------ MODULE ChecklistTx ------------------------------
(***************************************************************************)
(* The helpers of student_onboarding/api.py statement by statement: web    *)
(* workers, signal handlers and commands call them concurrently, each call *)
(* in a transaction (transaction.atomic) at the READ COMMITTED level that  *)
(* is Django's default on PostgreSQL.  Other transactions see nothing of a *)
(* call before it commits; a row locked by SELECT ... FOR UPDATE, and a    *)
(* unique key inserted but not yet committed, make the next claimant wait. *)
(* Any call may die before its commit and is rolled back.                  *)
(***************************************************************************)
EXTENDS ChecklistData

CONSTANTS
    Proc,       \* callers: request threads, signal handlers, commands
    NoProc      \* holder of a free lock

ASSUME NoProcAssumption == NoProc \notin Proc

VARIABLES
    onboarding, steps, now,     \* the committed rows and the clock
    lock,       \* the transaction that locks a record's row, or its unique key
    pc,         \* the next statement of each caller
    call,       \* the helper a caller runs, with its arguments
    mem,        \* the model instances a caller holds in memory
    written     \* the columns a caller has saved from them, uncommitted

db == <<onboarding, steps, now>>
txs == <<lock, pc, call, mem, written>>
vars == <<onboarding, steps, now, lock, pc, call, mem, written>>

(* Calls of the helpers; transition is complete_step with status           *)
(* "completed" and mark_not_applicable with "not_applicable".              *)
Call ==
    [op : {"ensure"}, rec : Record]
        \union [op : {"add"}, rec : Record, key : Key, status : Status]
        \union [op : {"transition"}, rec : Record, key : Key, status : DoneStatus]
        \union [op : {"reopen"}, rec : Record, key : Key]
NoCall == [op |-> "none"]

NoMem == [row |-> NoOnboarding, step |-> NoStep]

(* The columns of the parent row, and the step row as a whole.             *)
RowColumn == {"started_on", "completed_on", "total_steps", "completed_steps"}
Column == RowColumn \union {"step"}

Statement ==
    {"idle", "select", "insert", "get_step", "save_step", "count",
     "save_counters", "recompute", "commit"}

Init ==
    /\ onboarding = [r \in Record |-> NoOnboarding]
    /\ steps = [r \in Record |-> [k \in Key |-> NoStep]]
    /\ now = 1
    /\ lock = [r \in Record |-> NoProc]
    /\ pc = [p \in Proc |-> "idle"]
    /\ call = [p \in Proc |-> NoCall]
    /\ mem = [p \in Proc |-> NoMem]
    /\ written = [p \in Proc |-> {}]

Exists(r) == onboarding[r].started_on # Null
FreeAnyway(r) == TRUE                           \* mutant: no FOR UPDATE
Free(r) == lock[r] = NoProc

(* What a statement of p reads: the committed rows under its own writes.   *)
StepsSeen(p) ==
    LET c == call[p] IN
    [steps[c.rec] EXCEPT ![c.key] = IF "step" \in written[p] THEN mem[p].step ELSE @]
RowSeen(p) ==
    [c \in RowColumn |->
        IF c \in written[p] THEN mem[p].row[c] ELSE onboarding[call[p].rec][c]]

Write(p, columns) == written' = [written EXCEPT ![p] = @ \union columns]

At(p, s) == pc[p] = s
GoTo(p, s) == pc' = [pc EXCEPT ![p] = s]

-----------------------------------------------------------------------------
Begin(p, c) ==
    /\ At(p, "idle")
    /\ GoTo(p, "select")
    /\ call' = [call EXCEPT ![p] = c]
    /\ UNCHANGED <<db, lock, mem, written>>

NotReleased(p) == lock                          \* mutant: transaction left open
Released(p) == [r \in Record |-> IF lock[r] = p THEN NoProc ELSE lock[r]]

(* The end of a call, by return or by rollback: locks and memory go.       *)
Reset(p) ==
    /\ GoTo(p, "idle")
    /\ call' = [call EXCEPT ![p] = NoCall]
    /\ mem' = [mem EXCEPT ![p] = NoMem]
    /\ written' = [written EXCEPT ![p] = {}]
    /\ lock' = Released(p)

(* SELECT ... FOR UPDATE of the parent row: waits for the lock of a        *)
(* committed row; with no row, add_step goes on to insert one and the      *)
(* other helpers return None.                                              *)
SelectForUpdate(p) ==
    LET r == call[p].rec IN
    /\ At(p, "select")
    /\ call[p].op # "ensure"
    /\ \/ /\ Exists(r)
          /\ Free(r)
          /\ lock' = [lock EXCEPT ![r] = p]
          /\ mem' = [mem EXCEPT ![p].row = onboarding[r]]
          /\ GoTo(p, "get_step")
          /\ UNCHANGED <<call, written>>
       \/ /\ ~Exists(r)
          /\ call[p].op = "add"
          /\ GoTo(p, "insert")
          /\ UNCHANGED <<lock, call, mem, written>>
       \/ /\ ~Exists(r)
          /\ call[p].op # "add"
          /\ Reset(p)
    /\ UNCHANGED db

(* The SELECT of get_or_create_for_current_term takes no lock.             *)
Select(p) ==
    /\ At(p, "select")
    /\ call[p].op = "ensure"
    /\ IF Exists(call[p].rec)
       THEN Reset(p)
       ELSE /\ GoTo(p, "insert")
            /\ UNCHANGED <<lock, call, mem, written>>
    /\ UNCHANGED db

(* INSERT of the parent row, on the unique key (student, term): it waits   *)
(* for a transaction that inserted the same key; if a row is there by then *)
(* get_or_create swallows the IntegrityError and selects again.            *)
InsertForUpdate(p) ==
    LET r == call[p].rec IN
    /\ At(p, "insert")
    /\ call[p].op = "add"
    /\ Free(r)
    /\ IF Exists(r)
       THEN /\ GoTo(p, "select")
            /\ UNCHANGED <<lock, mem, written>>
       ELSE /\ lock' = [lock EXCEPT ![r] = p]
            /\ mem' = [mem EXCEPT ![p].row = NewOnboarding(now)]
            /\ Write(p, RowColumn)
            /\ GoTo(p, "get_step")
    /\ UNCHANGED <<db, call>>

(* get_or_create_for_current_term runs outside a transaction of its own:   *)
(* its INSERT is committed at once.                                        *)
Insert(p) ==
    LET r == call[p].rec IN
    /\ At(p, "insert")
    /\ call[p].op = "ensure"
    /\ Free(r)
    /\ IF Exists(r)
       THEN UNCHANGED onboarding
       ELSE onboarding' = [onboarding EXCEPT ![r] = NewOnboarding(now)]
    /\ Reset(p)
    /\ UNCHANGED <<steps, now>>

(* The step row is fetched.  add_step goes on only if there is none, the   *)
(* transitions only if there is one, reopen_step only if it is completed.  *)
Applies(c, step) ==
    CASE c.op = "add" -> step.status = "absent"
      [] c.op = "transition" -> step.status # "absent"
      [] c.op = "reopen" -> step.status = "completed"

GetStep(p) ==
    LET step == StepsSeen(p)[call[p].key] IN
    /\ At(p, "get_step")
    /\ mem' = [mem EXCEPT ![p].step = step]
    /\ GoTo(p, IF Applies(call[p], step) THEN "save_step" ELSE "commit")
    /\ UNCHANGED <<db, lock, call, written>>

(* The step row is inserted or saved.  A step born done has no time yet;   *)
(* a step that was done before needs no recount.                           *)
StepSaved(c) ==
    CASE c.op = "add" -> [status |-> c.status, completed_on |-> Null]
      [] c.op = "transition" -> [status |-> c.status, completed_on |-> now]
      [] c.op = "reopen" -> [status |-> "pending", completed_on |-> Null]

NeedsRecount(c, step) == c.op = "transition" => step.status \notin DoneStatus

SaveStep(p) ==
    /\ At(p, "save_step")
    /\ mem' = [mem EXCEPT ![p].step = StepSaved(call[p])]
    /\ Write(p, {"step"})
    /\ GoTo(p, IF NeedsRecount(call[p], mem[p].step) THEN "count" ELSE "commit")
    /\ UNCHANGED <<db, lock, call>>

(* The COUNT queries, into the instance in memory.                         *)
CountSteps(p) ==
    /\ At(p, "count")
    /\ mem' = [mem EXCEPT ![p].row =
           IF call[p].op = "add"
           THEN RecountAfterAdd(@, StepsSeen(p), call[p].status)
           ELSE RecountDone(@, StepsSeen(p))]
    /\ GoTo(p, "save_counters")
    /\ UNCHANGED <<db, lock, call, written>>

(* The counters are saved from memory: both by add_step, which also stamps *)
(* a step born done, and completed_steps alone by the others.              *)
BornCompleted(c) ==                             \* mutant: a waived step is not stamped
    c.op = "add" /\ c.status = "completed"
BornDone(c) == c.op = "add" /\ c.status \in DoneStatus
CompletedOnly(c) == {"completed_steps"}         \* mutant: short update_fields
CounterColumns(c) ==
    {"completed_steps"} \union IF c.op = "add" THEN {"total_steps"} ELSE {}

SaveCounters(p) ==
    LET c == call[p] IN
    /\ At(p, "save_counters")
    /\ mem' = IF BornDone(c) THEN [mem EXCEPT ![p].step.completed_on = now] ELSE mem
    /\ Write(p, CounterColumns(c))
    /\ GoTo(p, "recompute")
    /\ UNCHANGED <<db, lock, call>>

(* recompute_completion on the instance in memory.                         *)
Recompute(p) ==
    LET row == RecomputeCompletion(mem[p].row, now) IN
    /\ At(p, "recompute")
    /\ mem' = [mem EXCEPT ![p].row = row]
    /\ Write(p, IF row = mem[p].row THEN {} ELSE {"completed_on"})
    /\ GoTo(p, "commit")
    /\ UNCHANGED <<db, lock, call>>

Commit(p) ==
    LET r == call[p].rec IN
    /\ At(p, "commit")
    /\ onboarding' = [onboarding EXCEPT ![r] = RowSeen(p)]
    /\ steps' = [steps EXCEPT ![r] = StepsSeen(p)]
    /\ Reset(p)
    /\ UNCHANGED now

(* An exception, a lost connection or a killed process before the commit.  *)
Abort(p) ==
    /\ ~At(p, "idle")
    /\ Reset(p)
    /\ UNCHANGED db

Tick ==
    /\ now < MaxTime
    /\ now' = now + 1
    /\ UNCHANGED <<onboarding, steps, txs>>

(* The next statement of a call under way.                                 *)
Run(p) ==
    \/ SelectForUpdate(p)
    \/ Select(p)
    \/ InsertForUpdate(p)
    \/ Insert(p)
    \/ GetStep(p)
    \/ SaveStep(p)
    \/ CountSteps(p)
    \/ SaveCounters(p)
    \/ Recompute(p)
    \/ Commit(p)

Next ==
    \/ \E p \in Proc : Run(p) \/ Abort(p)
    \/ \E p \in Proc, c \in Call : Begin(p, c)
    \/ Tick

Spec == Init /\ [][Next]_vars

(* The database executes the statements it is given, and hands a released  *)
(* lock to every waiting transaction in turn.                              *)
Fairness ==
    \A p \in Proc :
        /\ WF_vars(Run(p))
        /\ SF_vars(SelectForUpdate(p))
        /\ SF_vars(InsertForUpdate(p) \/ Insert(p))

FairSpec == Spec /\ Fairness

-----------------------------------------------------------------------------
(* The committed rows are those of Checklist.                              *)
Abstract == INSTANCE Checklist WITH
    Record <- Record, Key <- Key, MaxTime <- MaxTime,
    onboarding <- onboarding, steps <- steps, now <- now

TypeOK ==
    /\ Abstract!TypeOK
    /\ lock \in [Record -> Proc \union {NoProc}]
    /\ pc \in [Proc -> Statement]
    /\ call \in [Proc -> Call \union {NoCall}]
    /\ mem \in [Proc -> [row : OnboardingRow, step : StepRow
           \union [status : DoneStatus, completed_on : {Null}]]]
    /\ written \in [Proc -> SUBSET Column]

(* Each call takes effect at once, between its begin and its commit, or    *)
(* not at all: the transactions implement the atomic helpers, so counters  *)
(* never part from the committed rows (api.py, module docstring) and an    *)
(* insert race has one winner.                                             *)
ImplementsChecklist == Abstract!Spec

(* "counter mutations ... don't corrupt total_steps / completed_steps"     *)
(* (api.py, module docstring): however calls overlap and wherever they     *)
(* die, the counters of a committed row are the numbers of its step rows   *)
(* and of its done step rows.                                              *)
CountersMatchSteps == Abstract!CountersMatchSteps

(* A committed record counts as complete exactly when it has steps and all *)
(* of them are done: the reminders and the reports select on completed_on. *)
CompletionMatchesSteps == Abstract!CompletionMatchesSteps

(* A committed step carries a time exactly when it is done, also one born  *)
(* done, which add_step saves twice: the timeline and the stalled-students *)
(* view read the time without the status.                                  *)
StepTimesMatchStatus == Abstract!StepTimesMatchStatus

(* Duplicate events and late not_applicable marks restamp steps; while the *)
(* record stays complete the time it was completed never moves.            *)
CompletionTimeStable == Abstract!CompletionTimeStable

(* The parent row a transaction writes back from is the committed one: no  *)
(* counter is computed from, or saved over, a row another caller changed.  *)
ReadRow(p) == pc[p] \in {"get_step", "save_step", "count"}
NoStaleRow ==
    \A p \in Proc :
        ReadRow(p) /\ Exists(call[p].rec) =>
            mem[p].row = onboarding[call[p].rec]

(* Every call ends, however many callers queue for the same record.        *)
CallsTerminate == \A p \in Proc : pc[p] # "idle" ~> pc[p] = "idle"
=============================================================================
