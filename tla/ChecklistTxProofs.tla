--------------------------- MODULE ChecklistTxProofs ---------------------------
(***************************************************************************)
(* Theorems about ChecklistTx: the transactions of the helpers implement   *)
(* the atomic helpers of Checklist, for every set of callers and records,  *)
(* every finite set of keys and every bound on the clock, whoever waits    *)
(* for whom and whoever dies.                                              *)
(***************************************************************************)
EXTENDS ChecklistTx, FiniteSetTheorems, TLAPS

(* The theorems about the atomic helpers.                                  *)
Atomic == INSTANCE ChecklistProofs

-----------------------------------------------------------------------------
(* The invariant: what a caller holds in memory, and what it has written,  *)
(* at each of its statements.                                              *)

(* From the lock on the record's row (or on its unique key) to the commit. *)
Holds(p) ==
    pc[p] \in {"get_step", "save_step", "count", "save_counters", "recompute", "commit"}
Rec(p) == call[p].rec
StepFound(p) == steps[Rec(p)][call[p].key]

(* The parent row a call begins with, and the times it may still read.     *)
FirstRow(p) ==
    IF Exists(Rec(p)) THEN onboarding[Rec(p)] ELSE NewOnboarding(mem[p].row.started_on)
Times(p) ==
    {t \in Abstract!Fresh(Rec(p)) : ~Exists(Rec(p)) => mem[p].row.started_on <= t}

(* The step row of the call, before and after a step born done is stamped. *)
StepWritten(p) ==
    \/ /\ call[p].op = "add"
       /\ mem[p].step = [status |-> call[p].status, completed_on |-> Null]
    \/ /\ call[p].op = "transition"
       /\ \E t \in Times(p) : mem[p].step = [status |-> call[p].status, completed_on |-> t]
    \/ /\ call[p].op = "reopen"
       /\ mem[p].step = [status |-> "pending", completed_on |-> Null]
StepStamped(p) ==
    IF call[p].op = "add"
    THEN \E t \in Times(p) :
            mem[p].step = [status |-> call[p].status,
                           completed_on |-> IF call[p].status \in DoneStatus THEN t ELSE Null]
    ELSE StepWritten(p)

Recounted(c, row, ss) ==
    IF c.op = "add" THEN RecountAfterAdd(row, ss, c.status) ELSE RecountDone(row, ss)

(* A call that is not under way has nothing in memory and nothing written. *)
CallInv(p) ==
    /\ pc[p] = "idle" => call[p] = NoCall
    /\ pc[p] # "idle" => call[p] \in Call
    /\ pc[p] \in {"idle", "select", "insert"} => mem[p] = NoMem /\ written[p] = {}
    /\ pc[p] = "insert" => call[p].op \in {"ensure", "add"}

(* The lock lies with the caller until its commit; a row of its own that   *)
(* it has inserted is the first of the record.                             *)
HoldInv(p) ==
    Holds(p) =>
        /\ call[p].op # "ensure"
        /\ lock[Rec(p)] = p
        /\ ~Exists(Rec(p)) => /\ call[p].op = "add"
                              /\ mem[p].row.started_on \in Abstract!Fresh(Rec(p))

(* A column that differs in memory is written, or is about to be: the      *)
(* update_fields of every save name what has changed.                      *)
SavedInv(p) ==
    Holds(p) =>
        \A c \in RowColumn :
            \/ c \in written[p]
            \/ mem[p].row[c] = onboarding[Rec(p)][c]
            \/ pc[p] = "save_counters" /\ c \in CounterColumns(call[p])

(* What a call is going to commit: nothing but perhaps a new row; a step   *)
(* that was done before, restamped; or a step and its counters.            *)
Unchanged(p) == "step" \notin written[p] /\ mem[p].row = FirstRow(p)
Restamped(p) ==
    /\ "step" \in written[p]
    /\ Applies(call[p], StepFound(p)) /\ ~NeedsRecount(call[p], StepFound(p))
    /\ StepWritten(p)
    /\ mem[p].row = FirstRow(p)
Updated(p) ==
    /\ "step" \in written[p]
    /\ Applies(call[p], StepFound(p)) /\ NeedsRecount(call[p], StepFound(p))
    /\ StepStamped(p)
    /\ \E t \in Times(p) :
          /\ mem[p].step.completed_on <= t
          /\ mem[p].row = RecomputeCompletion(
                              Recounted(call[p], FirstRow(p), StepsSeen(p)), t)

StageInv(p) ==
    /\ pc[p] \in {"get_step", "save_step", "count"} => mem[p].row = FirstRow(p)
    /\ pc[p] \in {"get_step", "save_step"} => "step" \notin written[p]
    /\ pc[p] = "save_step" => mem[p].step = StepFound(p)
    /\ pc[p] \in {"save_step", "count", "save_counters", "recompute"} =>
          Applies(call[p], StepFound(p))
    /\ pc[p] \in {"count", "save_counters", "recompute"} =>
          "step" \in written[p] /\ NeedsRecount(call[p], StepFound(p))
    /\ pc[p] \in {"count", "save_counters"} => StepWritten(p)
    /\ pc[p] = "recompute" => StepStamped(p)
    /\ pc[p] \in {"save_counters", "recompute"} =>
          mem[p].row = Recounted(call[p], FirstRow(p), StepsSeen(p))
    /\ pc[p] = "commit" => Unchanged(p) \/ Restamped(p) \/ Updated(p)

CallerInv(p) == CallInv(p) /\ HoldInv(p) /\ SavedInv(p) /\ StageInv(p)
TxInv == TypeOK /\ \A p \in Proc : CallerInv(p)

-----------------------------------------------------------------------------
(* The rows and computations of Checklist and of its theorems are those    *)
(* of ChecklistTx: INSTANCE only gives them other names.                   *)

LEMMA AtomicAssumptions == Atomic!IsFiniteSet(Key) /\ MaxTime \in Nat \ {0}
  BY KeyAssumption, MaxTimeAssumption DEF Atomic!IsFiniteSet, IsFiniteSet

LEMMA SameRows ==
    /\ Abstract!OnboardingRow = OnboardingRow
    /\ Abstract!StepRow = StepRow
    /\ Abstract!NoOnboarding = NoOnboarding
    /\ Abstract!NoStep = NoStep
    /\ \A t : Abstract!NewOnboarding(t) = NewOnboarding(t)
    /\ \A row, t : Abstract!RecomputeCompletion(row, t) = RecomputeCompletion(row, t)
    /\ \A row, ss, s : Abstract!RecountAfterAdd(row, ss, s) = RecountAfterAdd(row, ss, s)
    /\ \A row, ss : Abstract!RecountDone(row, ss) = RecountDone(row, ss)
  BY DEF Abstract!OnboardingRow, OnboardingRow, Abstract!StepRow, StepRow,
         Abstract!NoOnboarding, NoOnboarding, Abstract!NoStep, NoStep,
         Abstract!NewOnboarding, NewOnboarding, Abstract!Count, Count,
         Abstract!Timestamp, Timestamp, Abstract!Time, Time, Abstract!Null, Null,
         Abstract!Status, Status, Abstract!DoneStatus, DoneStatus,
         Abstract!AllStepsDone, AllStepsDone,
         Abstract!RecomputeCompletion, RecomputeCompletion,
         Abstract!RecountAfterAdd, RecountAfterAdd, Abstract!RecountDone, RecountDone,
         Abstract!CountTotal, CountTotal, Abstract!CountDone, CountDone,
         Abstract!Present, Present, Abstract!Done, Done,
         Abstract!Cardinality, Cardinality

LEMMA SameSpec ==
    /\ Abstract!TypeOK <=> Atomic!TypeOK
    /\ Abstract!TypeOK' <=> Atomic!TypeOK'
    /\ [Abstract!Next]_Abstract!vars <=> [Atomic!Next]_Atomic!vars
    /\ Abstract!Init <=> Atomic!Init
  BY DEF Abstract!TypeOK, Atomic!TypeOK,
         Abstract!OnboardingRow, Atomic!OnboardingRow, Abstract!StepRow, Atomic!StepRow,
         Abstract!Count, Atomic!Count, Abstract!Timestamp, Atomic!Timestamp,
         Abstract!Next, Atomic!Next, Abstract!vars, Atomic!vars, Abstract!Init, Atomic!Init,
         Abstract!GetOrCreate, Atomic!GetOrCreate, Abstract!AddStep, Atomic!AddStep,
         Abstract!TransitionStep, Atomic!TransitionStep,
         Abstract!CompleteStep, Atomic!CompleteStep,
         Abstract!MarkNotApplicable, Atomic!MarkNotApplicable,
         Abstract!ReopenStep, Atomic!ReopenStep, Abstract!Tick, Atomic!Tick,
         Abstract!Fresh, Atomic!Fresh, Abstract!Passed, Atomic!Passed,
         Abstract!Readings, Atomic!Readings, Abstract!Exists, Atomic!Exists,
         Abstract!StepBorn, Atomic!StepBorn, Abstract!CanReopen, Atomic!CanReopen,
         Abstract!Null, Atomic!Null, Abstract!Time, Atomic!Time,
         Abstract!DoneStatus, Atomic!DoneStatus, Abstract!Status, Atomic!Status,
         Abstract!NoStep, Atomic!NoStep, Abstract!NewOnboarding, Atomic!NewOnboarding,
         Abstract!NoOnboarding, Atomic!NoOnboarding, Abstract!Present, Atomic!Present,
         Abstract!Done, Atomic!Done, Abstract!CountTotal, Atomic!CountTotal,
         Abstract!CountDone, Atomic!CountDone,
         Abstract!AllStepsDone, Atomic!AllStepsDone,
         Abstract!RecomputeCompletion, Atomic!RecomputeCompletion,
         Abstract!RecountAfterAdd, Atomic!RecountAfterAdd,
         Abstract!RecountDone, Atomic!RecountDone,
         Abstract!Cardinality, Atomic!Cardinality

(* A step of the atomic helpers keeps the committed rows typed.            *)
LEMMA AtomicStepTyped ==
    Abstract!TypeOK /\ [Abstract!Next]_Abstract!vars => Abstract!TypeOK'
  BY AtomicAssumptions, Atomic!StepTyped, SameSpec

LEMMA AtomicInitTyped == Abstract!Init => Abstract!TypeOK
  BY AtomicAssumptions, Atomic!InitTyped, SameSpec

-----------------------------------------------------------------------------
(* Facts about rows in memory.                                             *)

LEMMA SameMemory ==
    /\ Atomic!OnboardingRow = OnboardingRow
    /\ Atomic!Time = Time /\ Atomic!Timestamp = Timestamp
    /\ \A t : Atomic!NewOnboarding(t) = NewOnboarding(t)
    /\ \A row, t : Atomic!RecomputeCompletion(row, t) = RecomputeCompletion(row, t)
    /\ \A row, ss, s : Atomic!RecountAfterAdd(row, ss, s) = RecountAfterAdd(row, ss, s)
    /\ \A row, ss : Atomic!RecountDone(row, ss) = RecountDone(row, ss)
  BY DEF Atomic!OnboardingRow, OnboardingRow, Atomic!NewOnboarding, NewOnboarding,
         Atomic!Count, Count, Atomic!Timestamp, Timestamp, Atomic!Time, Time,
         Atomic!Null, Null, Atomic!DoneStatus, DoneStatus,
         Atomic!AllStepsDone, AllStepsDone,
         Atomic!RecomputeCompletion, RecomputeCompletion,
         Atomic!RecountAfterAdd, RecountAfterAdd, Atomic!RecountDone, RecountDone,
         Atomic!CountTotal, CountTotal, Atomic!CountDone, CountDone,
         Atomic!Present, Present, Atomic!Done, Done,
         Atomic!Cardinality, Cardinality

(* The helpers keep a row in memory a row of the model.                    *)
LEMMA RowsTyped ==
    ASSUME NEW row \in OnboardingRow
    PROVE  /\ \A t \in Time : RecomputeCompletion(row, t) \in OnboardingRow
           /\ \A ss, s : RecountAfterAdd(row, ss, s) \in OnboardingRow
           /\ \A ss : RecountDone(row, ss) \in OnboardingRow
  BY AtomicAssumptions, Atomic!RecomputeTyped, Atomic!RecountsTyped, SameMemory

LEMMA NewRowTyped == \A t \in Timestamp : NewOnboarding(t) \in OnboardingRow
  BY AtomicAssumptions, Atomic!NewRowTyped, SameMemory

(* The recounts look at the status of the steps alone, so that stamping a  *)
(* step after it was counted changes nothing.                              *)
LEMMA RecountByStatus ==
    ASSUME NEW c, NEW row, NEW ss, NEW tt,
           \A k \in Key : ss[k].status = tt[k].status
    PROVE  Recounted(c, row, ss) = Recounted(c, row, tt)
  <1>1. Present(ss) = Present(tt) /\ Done(ss) = Done(tt)
    BY DEF Present, Done
  <1> QED
    BY <1>1 DEF Recounted, RecountAfterAdd, RecountDone, CountTotal, CountDone

LEMMA RecountedTyped ==
    ASSUME NEW c, NEW row \in OnboardingRow, NEW ss
    PROVE  /\ Recounted(c, row, ss) \in OnboardingRow
           /\ Recounted(c, row, ss).started_on = row.started_on
           /\ Recounted(c, row, ss).completed_on = row.completed_on
           /\ c.op # "add" => Recounted(c, row, ss).total_steps = row.total_steps
  BY RowsTyped DEF Recounted, RecountAfterAdd, RecountDone, OnboardingRow

LEMMA CallTyped ==
    ASSUME NEW c \in Call
    PROVE  /\ c.rec \in Record
           /\ c.op \in {"ensure", "add", "transition", "reopen"}
           /\ c.op # "ensure" => c.key \in Key
           /\ c.op = "add" => c.status \in Status
           /\ c.op = "transition" => c.status \in DoneStatus
  BY DEF Call

(* The clock shows a time that the record has not yet passed.              *)
LEMMA NowIsFresh ==
    ASSUME Abstract!TypeOK, NEW r \in Record
    PROVE  now \in Abstract!Fresh(r) /\ now \in Time
  <1>1. now \in Time /\ now <= now
    BY DEF Abstract!TypeOK, Abstract!Time, Time
  <1> QED
    BY <1>1 DEF Abstract!TypeOK, Abstract!Fresh, Abstract!Time, Time

-----------------------------------------------------------------------------
(* A step of caller q leaves the others alone, and the records they hold.  *)
Apart(q) ==
    /\ \A p \in Proc \ {q} :
          /\ pc'[p] = pc[p] /\ call'[p] = call[p]
          /\ mem'[p] = mem[p] /\ written'[p] = written[p]
    /\ \A r \in Record : lock[r] \notin {NoProc, q} =>
          /\ lock'[r] = lock[r]
          /\ onboarding'[r] = onboarding[r] /\ steps'[r] = steps[r]
    /\ now' \in Time /\ now <= now'

(* Time goes by: what could be read of the clock still can.                *)
LEMMA FreshStays ==
    ASSUME now \in Time, now' \in Time, now <= now', NEW r \in Record,
           onboarding'[r] = onboarding[r], steps'[r] = steps[r]
    PROVE  Abstract!Fresh(r) \subseteq Abstract!Fresh(r)'
  <1>1. Abstract!Passed(r)' = Abstract!Passed(r)
    BY DEF Abstract!Passed
  <1>2. \A t \in Time : t <= now => t <= now'
    BY MaxTimeAssumption DEF Time
  <1> QED
    BY <1>1, <1>2 DEF Abstract!Fresh, Abstract!Time, Time

LEMMA OthersKept ==
    ASSUME TxInv, NEW q, Apart(q), NEW p \in Proc \ {q}
    PROVE  CallerInv(p)'
  <1>1. /\ pc'[p] = pc[p] /\ call'[p] = call[p]
        /\ mem'[p] = mem[p] /\ written'[p] = written[p]
    BY DEF Apart
  <1>2. CallerInv(p)
    BY DEF TxInv
  <1>3. CallInv(p)'
    BY <1>1, <1>2 DEF CallerInv, CallInv
  <1>4. CASE ~Holds(p)
    BY <1>1, <1>3, <1>4 DEF CallerInv, HoldInv, SavedInv, StageInv, Holds
  <1>5. CASE Holds(p)
    <2> DEFINE r == call[p].rec
    <2>1. pc[p] # "idle" /\ r \in Record /\ lock[r] = p
      BY <1>2, <1>5, CallTyped DEF CallerInv, CallInv, HoldInv, Holds, Rec
    <2>2. /\ lock'[r] = lock[r]
          /\ onboarding'[r] = onboarding[r] /\ steps'[r] = steps[r]
      BY <2>1, NoProcAssumption DEF Apart
    <2>3. Abstract!Fresh(r) \subseteq Abstract!Fresh(r)'
      BY <2>1, <2>2, FreshStays DEF Apart, TxInv, TypeOK, Abstract!TypeOK, Abstract!Time, Time
    <2>4. /\ Rec(p)' = r /\ Rec(p) = r /\ Holds(p)'
          /\ Exists(r)' = Exists(r)
          /\ StepFound(p)' = StepFound(p)
          /\ StepsSeen(p)' = StepsSeen(p)
          /\ FirstRow(p)' = FirstRow(p)
      BY <1>1, <1>5, <2>2 DEF Rec, Holds, Exists, StepFound, StepsSeen, FirstRow
    <2>5. Times(p) \subseteq Times(p)'
      BY <1>1, <2>3, <2>4 DEF Times
    <2>6. HoldInv(p)'
      BY <1>1, <1>2, <1>5, <2>2, <2>3, <2>4 DEF CallerInv, HoldInv
    <2>7. SavedInv(p)'
      BY <1>1, <1>2, <1>5, <2>2, <2>4 DEF CallerInv, SavedInv
    <2>8. /\ StepWritten(p) => StepWritten(p)'
          /\ StepStamped(p) => StepStamped(p)'
      BY <1>1, <2>5 DEF StepWritten, StepStamped
    <2>9. /\ Unchanged(p) => Unchanged(p)'
          /\ Restamped(p) => Restamped(p)'
          /\ Updated(p) => Updated(p)'
      BY <1>1, <2>4, <2>5, <2>8 DEF Unchanged, Restamped, Updated
    <2>10. StageInv(p)'
      BY <1>1, <1>2, <2>4, <2>8, <2>9 DEF CallerInv, StageInv
    <2> QED
      BY <1>3, <2>6, <2>7, <2>10 DEF CallerInv
  <1> QED
    BY <1>4, <1>5

(* No statement of a caller touches what another holds.                    *)
CallerStep(q) == Run(q) \/ Abort(q) \/ \E c \in Call : Begin(q, c)

LEMMA StepsApart ==
    ASSUME TxInv, NEW q \in Proc, CallerStep(q)
    PROVE  Apart(q)
  <1>1. /\ pc \in [Proc -> Statement] /\ call \in [Proc -> Call \union {NoCall}]
        /\ lock \in [Record -> Proc \union {NoProc}]
        /\ mem = [p \in Proc |-> mem[p]] /\ written = [p \in Proc |-> written[p]]
        /\ onboarding = [r \in Record |-> onboarding[r]]
        /\ steps = [r \in Record |-> steps[r]]
        /\ now \in Time
    BY DEF TxInv, TypeOK, Abstract!TypeOK, Abstract!Time, Time
  <1>2. now <= now
    BY <1>1 DEF Time
  <1>3. Holds(q) => lock[Rec(q)] = q
    BY DEF TxInv, CallerInv, HoldInv
  <1> USE <1>1, <1>2 DEF Apart
  <1>4. ASSUME Reset(q), UNCHANGED db PROVE Apart(q)
    BY <1>4 DEF Reset, Released, GoTo, db
  <1>5. CASE SelectForUpdate(q)
    BY <1>4, <1>5 DEF SelectForUpdate, Free, GoTo, db
  <1>6. CASE Select(q)
    BY <1>4, <1>6 DEF Select, GoTo, db
  <1>7. CASE InsertForUpdate(q)
    BY <1>7 DEF InsertForUpdate, Free, GoTo, Write, db
  <1>8. CASE Insert(q)
    BY <1>8 DEF Insert, Free, Reset, Released, GoTo
  <1>9. CASE GetStep(q) \/ SaveStep(q) \/ CountSteps(q) \/ SaveCounters(q) \/ Recompute(q)
    BY <1>9 DEF GetStep, SaveStep, CountSteps, SaveCounters, Recompute, GoTo, Write, db
  <1>10. CASE Commit(q)
    BY <1>3, <1>10 DEF Commit, Reset, Released, GoTo, Holds, Rec, At
  <1>11. CASE Abort(q)
    BY <1>4, <1>11 DEF Abort
  <1>12. CASE \E c \in Call : Begin(q, c)
    BY <1>12 DEF Begin, GoTo, db
  <1> QED
    BY <1>5, <1>6, <1>7, <1>8, <1>9, <1>10, <1>11, <1>12 DEF Run, CallerStep

-----------------------------------------------------------------------------
(* Each statement of a caller keeps its own part of the invariant.         *)

LEMMA ResetKeeps ==
    ASSUME TxInv, NEW p \in Proc, Reset(p)
    PROVE  CallerInv(p)'
  <1>1. /\ pc'[p] = "idle" /\ call'[p] = NoCall
        /\ mem'[p] = NoMem /\ written'[p] = {}
    BY DEF Reset, GoTo, TxInv, TypeOK
  <1> QED
    BY <1>1 DEF CallerInv, CallInv, HoldInv, SavedInv, StageInv, Holds

LEMMA BeginKeeps ==
    ASSUME TxInv, NEW p \in Proc, NEW c \in Call, Begin(p, c)
    PROVE  CallerInv(p)'
  <1>1. /\ pc[p] = "idle" /\ pc'[p] = "select" /\ call'[p] = c
        /\ mem'[p] = mem[p] /\ written'[p] = written[p]
    BY DEF Begin, At, GoTo, TxInv, TypeOK
  <1>2. mem[p] = NoMem /\ written[p] = {}
    BY <1>1 DEF TxInv, CallerInv, CallInv
  <1> QED
    BY <1>1, <1>2 DEF CallerInv, CallInv, HoldInv, SavedInv, StageInv, Holds

(* What a call under way is about.                                         *)
LEMMA UnderWay ==
    ASSUME TxInv, NEW p \in Proc, pc[p] # "idle"
    PROVE  /\ call[p] \in Call /\ Rec(p) \in Record
           /\ call[p].op # "ensure" => call[p].key \in Key
           /\ onboarding[Rec(p)] \in OnboardingRow
           /\ steps[Rec(p)] \in [Key -> StepRow]
           /\ mem[p].row \in OnboardingRow
           /\ mem[p] = [row |-> mem[p].row, step |-> mem[p].step]
           /\ CallInv(p) /\ HoldInv(p) /\ SavedInv(p) /\ StageInv(p)
  <1>1. call[p] \in Call
    BY DEF TxInv, CallerInv, CallInv
  <1>2. /\ onboarding \in [Record -> OnboardingRow]
        /\ steps \in [Record -> [Key -> StepRow]]
    BY SameRows DEF TxInv, TypeOK, Abstract!TypeOK
  <1>3. /\ mem[p].row \in OnboardingRow
        /\ mem[p] = [row |-> mem[p].row, step |-> mem[p].step]
    BY DEF TxInv, TypeOK
  <1>4. CallerInv(p)
    BY DEF TxInv
  <1> QED
    BY <1>1, <1>2, <1>3, <1>4, CallTyped DEF Rec, CallerInv

LEMMA SelectKeeps ==
    ASSUME TxInv, NEW p \in Proc, SelectForUpdate(p) \/ Select(p)
    PROVE  CallerInv(p)'
  <1>1. pc[p] = "select" /\ mem[p] = NoMem /\ written[p] = {}
    BY DEF SelectForUpdate, Select, At, TxInv, CallerInv, CallInv
  <1>2. call[p] \in Call /\ Rec(p) \in Record /\ UNCHANGED db
    BY <1>1, UnderWay DEF SelectForUpdate, Select
  <1>3. CASE Reset(p)
    BY <1>3, ResetKeeps
  <1>4. CASE /\ GoTo(p, "insert") /\ UNCHANGED <<lock, call, mem, written>>
             /\ call[p].op \in {"add", "ensure"}
    <2>1. /\ pc'[p] = "insert" /\ call'[p] = call[p]
          /\ mem'[p] = NoMem /\ written'[p] = {}
      BY <1>1, <1>4 DEF GoTo, TxInv, TypeOK
    <2> QED
      BY <1>2, <1>4, <2>1 DEF CallerInv, CallInv, HoldInv, SavedInv, StageInv, Holds
  <1>5. CASE /\ Exists(Rec(p)) /\ call[p].op # "ensure"
             /\ lock' = [lock EXCEPT ![Rec(p)] = p]
             /\ mem' = [mem EXCEPT ![p].row = onboarding[Rec(p)]]
             /\ GoTo(p, "get_step") /\ UNCHANGED <<call, written>>
    <2>1. /\ pc'[p] = "get_step" /\ call'[p] = call[p] /\ lock'[Rec(p)] = p
          /\ mem'[p].row = onboarding[Rec(p)] /\ written'[p] = {}
      BY <1>1, <1>2, <1>5 DEF GoTo, TxInv, TypeOK
    <2>2. Rec(p)' = Rec(p) /\ Exists(Rec(p))' /\ onboarding' = onboarding
      BY <1>2, <1>5, <2>1 DEF Rec, Exists, db
    <2>3. CallInv(p)' /\ HoldInv(p)'
      BY <1>2, <1>5, <2>1, <2>2 DEF CallInv, HoldInv
    <2>4. SavedInv(p)'
      BY <2>1, <2>2 DEF SavedInv
    <2>5. StageInv(p)'
      BY <2>1, <2>2 DEF StageInv, FirstRow
    <2> QED
      BY <2>3, <2>4, <2>5 DEF CallerInv
  <1> QED
    BY <1>3, <1>4, <1>5 DEF SelectForUpdate, Select, Rec

LEMMA InsertForUpdateKeeps ==
    ASSUME TxInv, NEW p \in Proc, InsertForUpdate(p)
    PROVE  CallerInv(p)'
  <1>1. /\ pc[p] = "insert" /\ mem[p] = NoMem /\ written[p] = {}
        /\ call[p].op = "add" /\ UNCHANGED <<db, call>>
    BY DEF InsertForUpdate, At, TxInv, CallerInv, CallInv
  <1>2. call[p] \in Call /\ Rec(p) \in Record
    BY <1>1, UnderWay
  <1>3. CASE GoTo(p, "select") /\ UNCHANGED <<lock, mem, written>>
    <2>1. /\ pc'[p] = "select" /\ call'[p] = call[p]
          /\ mem'[p] = NoMem /\ written'[p] = {}
      BY <1>1, <1>3 DEF GoTo, TxInv, TypeOK
    <2> QED
      BY <1>2, <2>1 DEF CallerInv, CallInv, HoldInv, SavedInv, StageInv, Holds
  <1>4. CASE /\ ~Exists(Rec(p)) /\ lock' = [lock EXCEPT ![Rec(p)] = p]
             /\ mem' = [mem EXCEPT ![p].row = NewOnboarding(now)]
             /\ Write(p, RowColumn) /\ GoTo(p, "get_step")
    <2>1. /\ pc'[p] = "get_step" /\ call'[p] = call[p] /\ lock'[Rec(p)] = p
          /\ mem'[p].row = NewOnboarding(now) /\ written'[p] = RowColumn
      BY <1>1, <1>2, <1>4 DEF GoTo, Write, TxInv, TypeOK
    <2>2. /\ Rec(p)' = Rec(p) /\ ~Exists(Rec(p))'
          /\ Abstract!Fresh(Rec(p))' = Abstract!Fresh(Rec(p))
      BY <1>1, <1>4, <2>1 DEF Rec, Exists, db, Abstract!Fresh, Abstract!Passed
    <2>3. mem'[p].row.started_on = now /\ now \in Abstract!Fresh(Rec(p))
      BY <1>2, <2>1, NowIsFresh DEF NewOnboarding, TxInv, TypeOK
    <2>4. CallInv(p)' /\ HoldInv(p)'
      BY <1>1, <1>2, <2>1, <2>2, <2>3 DEF CallInv, HoldInv
    <2>5. SavedInv(p)'
      BY <2>1 DEF SavedInv
    <2>6. StageInv(p)'
      BY <2>1, <2>2, <2>3 DEF StageInv, FirstRow, RowColumn
    <2> QED
      BY <2>4, <2>5, <2>6 DEF CallerInv
  <1> QED
    BY <1>3, <1>4 DEF InsertForUpdate, Rec

(* The statements between lock and commit touch nothing but memory.        *)
Within(p) ==
    /\ Holds(p) /\ Holds(p)'
    /\ UNCHANGED <<onboarding, steps, now, lock, call>>
    /\ mem'[p].row.started_on = mem[p].row.started_on

LEMMA WithinKeeps ==
    ASSUME TxInv, NEW p \in Proc, Within(p)
    PROVE  /\ CallInv(p)' /\ HoldInv(p)'
           /\ Rec(p)' = Rec(p) /\ StepFound(p)' = StepFound(p)
           /\ FirstRow(p)' = FirstRow(p) /\ Times(p)' = Times(p)
           /\ onboarding[Rec(p)]' = onboarding[Rec(p)]
           /\ call'[p] = call[p]
           /\ FirstRow(p) \in OnboardingRow
           /\ now \in Times(p) /\ now \in Time
           /\ \A t \in Times(p) : t <= now /\ t \in Time
  <1>1. pc[p] # "idle" /\ pc'[p] \notin {"idle", "select", "insert"}
    BY DEF Within, Holds
  <1>2. call[p] \in Call /\ Rec(p) \in Record /\ HoldInv(p)
    BY <1>1, UnderWay
  <1>3. /\ Rec(p)' = Rec(p) /\ StepFound(p)' = StepFound(p)
        /\ FirstRow(p)' = FirstRow(p) /\ call'[p] = call[p]
        /\ onboarding[Rec(p)]' = onboarding[Rec(p)]
        /\ Exists(Rec(p))' = Exists(Rec(p))
        /\ Abstract!Fresh(Rec(p))' = Abstract!Fresh(Rec(p))
    BY DEF Within, Rec, StepFound, FirstRow, Exists, Abstract!Fresh, Abstract!Passed
  <1>4. Times(p)' = Times(p)
    BY <1>3 DEF Times, Within
  <1>5. CallInv(p)'
    BY <1>1, <1>2, <1>3 DEF CallInv
  <1>6. HoldInv(p)'
    BY <1>2, <1>3 DEF HoldInv, Within
  <1>7. now \in Abstract!Fresh(Rec(p)) /\ now \in Time
    BY <1>2, NowIsFresh DEF TxInv, TypeOK
  <1>8. \A t \in Abstract!Fresh(Rec(p)) : t <= now /\ t \in Time
    BY DEF Abstract!Fresh, Abstract!Time, Time
  <1>9. now \in Times(p) /\ \A t \in Times(p) : t <= now /\ t \in Time
    BY <1>2, <1>7, <1>8 DEF Times, HoldInv, Within
  <1>10. FirstRow(p) \in OnboardingRow
    BY <1>1, <1>2, <1>8, UnderWay, NewRowTyped DEF FirstRow, HoldInv, Within, Timestamp
  <1> QED
    BY <1>3, <1>4, <1>5, <1>6, <1>7, <1>9, <1>10

LEMMA GetStepKeeps ==
    ASSUME TxInv, NEW p \in Proc, GetStep(p)
    PROVE  CallerInv(p)'
  <1>1. /\ pc[p] = "get_step"
        /\ pc'[p] = IF Applies(call[p], StepsSeen(p)[call[p].key])
                    THEN "save_step" ELSE "commit"
        /\ mem'[p].row = mem[p].row /\ mem'[p].step = StepsSeen(p)[call[p].key]
        /\ written'[p] = written[p]
        /\ UNCHANGED <<onboarding, steps, now, lock, call>>
    BY DEF GetStep, At, GoTo, TxInv, TypeOK, db
  <1>2. Within(p)
    BY <1>1 DEF Within, Holds
  <1>3. /\ HoldInv(p) /\ SavedInv(p) /\ StageInv(p)
        /\ call[p].op # "ensure" /\ call[p].key \in Key
        /\ steps[Rec(p)] \in [Key -> StepRow]
    BY <1>1, UnderWay DEF HoldInv, Holds
  <1>4. "step" \notin written[p] /\ mem[p].row = FirstRow(p)
    BY <1>1, <1>3 DEF StageInv
  <1>5. StepsSeen(p)[call[p].key] = StepFound(p)
    BY <1>3, <1>4 DEF StepsSeen, StepFound, Rec
  <1>6. SavedInv(p)'
    BY <1>1, <1>2, <1>3, WithinKeeps DEF SavedInv, Holds
  <1>7. StageInv(p)'
    BY <1>1, <1>2, <1>4, <1>5, WithinKeeps DEF StageInv, Unchanged
  <1> QED
    BY <1>2, <1>6, <1>7, WithinKeeps DEF CallerInv

LEMMA SaveStepKeeps ==
    ASSUME TxInv, NEW p \in Proc, SaveStep(p)
    PROVE  CallerInv(p)'
  <1>1. /\ pc[p] = "save_step"
        /\ pc'[p] = IF NeedsRecount(call[p], mem[p].step) THEN "count" ELSE "commit"
        /\ mem'[p].row = mem[p].row /\ mem'[p].step = StepSaved(call[p])
        /\ written'[p] = written[p] \union {"step"}
        /\ UNCHANGED <<onboarding, steps, now, lock, call>>
    BY DEF SaveStep, Write, At, GoTo, TxInv, TypeOK, db
  <1>2. Within(p)
    BY <1>1 DEF Within, Holds
  <1>3. /\ SavedInv(p) /\ StageInv(p) /\ HoldInv(p)
        /\ call[p] \in Call /\ call[p].op # "ensure"
    BY <1>1, UnderWay DEF HoldInv, Holds
  <1>4. /\ mem[p].row = FirstRow(p) /\ mem[p].step = StepFound(p)
        /\ Applies(call[p], StepFound(p))
    BY <1>1, <1>3 DEF StageInv
  <1>5. StepWritten(p)'
    BY <1>1, <1>2, <1>3, CallTyped, WithinKeeps DEF StepWritten, StepSaved
  <1>6. SavedInv(p)'
    BY <1>1, <1>2, <1>3, WithinKeeps DEF SavedInv, Holds
  <1>7. StageInv(p)'
    BY <1>1, <1>2, <1>4, <1>5, WithinKeeps DEF StageInv, Restamped
  <1> QED
    BY <1>2, <1>6, <1>7, WithinKeeps DEF CallerInv

LEMMA CountKeeps ==
    ASSUME TxInv, NEW p \in Proc, CountSteps(p)
    PROVE  CallerInv(p)'
  <1>1. /\ pc[p] = "count" /\ pc'[p] = "save_counters"
        /\ mem'[p].row = Recounted(call[p], mem[p].row, StepsSeen(p))
        /\ mem'[p].step = mem[p].step /\ written'[p] = written[p]
        /\ UNCHANGED <<onboarding, steps, now, lock, call>>
    BY DEF CountSteps, Recounted, At, GoTo, TxInv, TypeOK, db
  <1>2. /\ SavedInv(p) /\ StageInv(p) /\ mem[p].row \in OnboardingRow
    BY <1>1, UnderWay
  <1>3. /\ mem'[p].row \in OnboardingRow
        /\ mem'[p].row.started_on = mem[p].row.started_on
        /\ mem'[p].row.completed_on = mem[p].row.completed_on
        /\ call[p].op # "add" => mem'[p].row.total_steps = mem[p].row.total_steps
    <2> DEFINE recounted == Recounted(call[p], mem[p].row, StepsSeen(p))
    <2>1. /\ recounted \in OnboardingRow
          /\ recounted.started_on = mem[p].row.started_on
          /\ recounted.completed_on = mem[p].row.completed_on
          /\ call[p].op # "add" => recounted.total_steps = mem[p].row.total_steps
      <3>1. \A ss : /\ Recounted(call[p], mem[p].row, ss) \in OnboardingRow
                    /\ Recounted(call[p], mem[p].row, ss).started_on = mem[p].row.started_on
                    /\ Recounted(call[p], mem[p].row, ss).completed_on
                           = mem[p].row.completed_on
                    /\ call[p].op # "add" =>
                           Recounted(call[p], mem[p].row, ss).total_steps
                               = mem[p].row.total_steps
        BY <1>2, RecountedTyped, Zenon
      <3> QED
        BY <3>1, Zenon
    <2> QED
      BY <1>1, <2>1
  <1>4. Within(p)
    BY <1>1, <1>3 DEF Within, Holds
  <1>5. /\ mem[p].row = FirstRow(p) /\ Applies(call[p], StepFound(p))
        /\ "step" \in written[p] /\ NeedsRecount(call[p], StepFound(p)) /\ StepWritten(p)
    BY <1>1, <1>2 DEF StageInv
  <1>6. StepsSeen(p)' = StepsSeen(p)
    BY <1>1 DEF StepsSeen
  <1>7. StepWritten(p)'
    BY <1>1, <1>4, <1>5, WithinKeeps DEF StepWritten
  <1>8. SavedInv(p)'
    <2> SUFFICES ASSUME NEW c \in RowColumn
                 PROVE  \/ c \in written'[p]
                        \/ mem'[p].row[c] = onboarding'[Rec(p)'][c]
                        \/ c \in CounterColumns(call'[p])
      BY <1>1 DEF SavedInv
    <2>1. c \in written[p] \/ mem[p].row[c] = onboarding[Rec(p)][c]
      BY <1>1, <1>2 DEF SavedInv, Holds
    <2>2. c \in CounterColumns(call[p]) \/ mem'[p].row[c] = mem[p].row[c]
      BY <1>3 DEF CounterColumns, RowColumn
    <2> QED
      BY <1>1, <1>4, <2>1, <2>2, WithinKeeps
  <1>9. StageInv(p)'
    BY <1>1, <1>4, <1>5, <1>6, <1>7, WithinKeeps DEF StageInv
  <1> QED
    BY <1>4, <1>8, <1>9, WithinKeeps DEF CallerInv

LEMMA SaveCountersKeeps ==
    ASSUME TxInv, NEW p \in Proc, SaveCounters(p)
    PROVE  CallerInv(p)'
  <1> DEFINE stamps == call[p].op = "add" /\ call[p].status \in DoneStatus
  <1>1. /\ pc[p] = "save_counters" /\ pc'[p] = "recompute"
        /\ mem'[p].row = mem[p].row
        /\ mem'[p].step = IF stamps THEN [mem[p].step EXCEPT !.completed_on = now]
                                    ELSE mem[p].step
        /\ written'[p] = written[p] \union CounterColumns(call[p])
        /\ UNCHANGED <<onboarding, steps, now, lock, call>>
    BY DEF SaveCounters, BornDone, Write, At, GoTo, TxInv, TypeOK, db
  <1>2. Within(p)
    BY <1>1 DEF Within, Holds
  <1>3. /\ SavedInv(p) /\ StageInv(p) /\ HoldInv(p)
        /\ call[p] \in Call /\ call[p].op # "ensure" /\ call[p].key \in Key
        /\ steps[Rec(p)] \in [Key -> StepRow]
    BY <1>1, UnderWay DEF HoldInv, Holds
  <1>4. /\ Applies(call[p], StepFound(p))
        /\ "step" \in written[p] /\ NeedsRecount(call[p], StepFound(p)) /\ StepWritten(p)
        /\ mem[p].row = Recounted(call[p], FirstRow(p), StepsSeen(p))
    BY <1>1, <1>3 DEF StageInv
  <1>5. StepStamped(p)' /\ mem'[p].step.status = mem[p].step.status
    <2>1. CASE call[p].op = "add"
      <3>1. mem[p].step = [status |-> call[p].status, completed_on |-> Null]
        BY <1>4, <2>1 DEF StepWritten
      <3>2. mem'[p].step = [status |-> call[p].status,
                completed_on |-> IF call[p].status \in DoneStatus THEN now ELSE Null]
        BY <1>1, <2>1, <3>1
      <3>3. call'[p] = call[p] /\ now \in Times(p)'
        BY <1>2, WithinKeeps
      <3> QED
        BY <2>1, <3>1, <3>2, <3>3 DEF StepStamped
    <2>2. CASE call[p].op # "add"
      BY <1>1, <1>2, <1>4, <2>2, WithinKeeps DEF StepStamped, StepWritten
    <2> QED
      BY <2>1, <2>2
  <1>6. \A k \in Key : StepsSeen(p)[k].status = StepsSeen(p)'[k].status
    <2>1. /\ StepsSeen(p) = [steps[Rec(p)] EXCEPT ![call[p].key] = mem[p].step]
          /\ StepsSeen(p)' = [steps[Rec(p)] EXCEPT ![call[p].key] = mem'[p].step]
      BY <1>1, <1>4 DEF StepsSeen, Rec
    <2> QED
      BY <1>3, <1>5, <2>1
  <1>7. mem'[p].row = Recounted(call[p], FirstRow(p), StepsSeen(p)')
    BY <1>1, <1>4, <1>6, RecountByStatus
  <1>8. SavedInv(p)'
    BY <1>1, <1>2, <1>3, WithinKeeps DEF SavedInv, Holds
  <1>9. StageInv(p)'
    BY <1>1, <1>2, <1>4, <1>5, <1>7, WithinKeeps DEF StageInv
  <1> QED
    BY <1>2, <1>8, <1>9, WithinKeeps DEF CallerInv

LEMMA RecomputeKeeps ==
    ASSUME TxInv, NEW p \in Proc, Recompute(p)
    PROVE  CallerInv(p)'
  <1> DEFINE row == RecomputeCompletion(mem[p].row, now)
  <1>1. /\ pc[p] = "recompute" /\ pc'[p] = "commit"
        /\ mem'[p].row = row /\ mem'[p].step = mem[p].step
        /\ written'[p] = written[p] \union IF row = mem[p].row THEN {} ELSE {"completed_on"}
        /\ UNCHANGED <<onboarding, steps, now, lock, call>>
    BY DEF Recompute, Write, At, GoTo, TxInv, TypeOK, db
  <1>2. /\ SavedInv(p) /\ StageInv(p) /\ mem[p].row \in OnboardingRow
    BY <1>1, UnderWay
  <1>3. \A c \in RowColumn \ {"completed_on"} : row[c] = mem[p].row[c]
    BY <1>2 DEF RecomputeCompletion, RowColumn, OnboardingRow
  <1>4. row.started_on = mem[p].row.started_on
    BY <1>2 DEF RecomputeCompletion, OnboardingRow
  <1>5. Within(p)
    BY <1>1, <1>4 DEF Within, Holds
  <1>6. /\ Applies(call[p], StepFound(p))
        /\ "step" \in written[p] /\ NeedsRecount(call[p], StepFound(p)) /\ StepStamped(p)
        /\ mem[p].row = Recounted(call[p], FirstRow(p), StepsSeen(p))
    BY <1>1, <1>2 DEF StageInv
  <1>7. StepStamped(p)'
    BY <1>1, <1>5, <1>6, WithinKeeps DEF StepStamped, StepWritten
  <1>8. mem'[p].step.completed_on <= now
    <2>1. mem[p].step.completed_on = Null \/ mem[p].step.completed_on \in Times(p)
      <3>1. CASE call[p].op = "add" /\ call[p].status \notin DoneStatus
        BY <1>6, <3>1 DEF StepStamped
      <3>2. CASE call[p].op = "add" /\ call[p].status \in DoneStatus
        <4>1. PICK t \in Times(p) :
                  mem[p].step = [status |-> call[p].status, completed_on |-> t]
          BY <1>6, <3>2 DEF StepStamped
        <4> QED
          BY <4>1
      <3>3. CASE call[p].op = "transition"
        <4>1. PICK t \in Times(p) :
                  mem[p].step = [status |-> call[p].status, completed_on |-> t]
          BY <1>6, <3>3 DEF StepStamped, StepWritten
        <4> QED
          BY <4>1
      <3>4. CASE call[p].op \notin {"add", "transition"}
        BY <1>6, <3>4 DEF StepStamped, StepWritten
      <3> QED
        BY <3>1, <3>2, <3>3, <3>4
    <2>2. Null <= now
      BY <1>5, WithinKeeps DEF Null, Time
    <2> QED
      BY <1>1, <1>5, <2>1, <2>2, WithinKeeps
  <1>9. SavedInv(p)'
    BY <1>1, <1>2, <1>3, <1>5, WithinKeeps DEF SavedInv, Holds
  <1>10. StepsSeen(p)' = StepsSeen(p)
    BY <1>1, <1>6 DEF StepsSeen
  <1>11. Updated(p)'
    <2>1. mem'[p].row = RecomputeCompletion(Recounted(call'[p], FirstRow(p)', StepsSeen(p)'), now)
      BY <1>1, <1>5, <1>6, <1>10, WithinKeeps
    <2>2. now \in Times(p)'
      BY <1>5, WithinKeeps
    <2> QED
      BY <1>1, <1>5, <1>6, <1>7, <1>8, <2>1, <2>2, WithinKeeps DEF Updated
  <1>12. StageInv(p)'
    BY <1>1, <1>11 DEF StageInv
  <1> QED
    BY <1>5, <1>9, <1>12, WithinKeeps DEF CallerInv

(* A step of a caller keeps its own part of the invariant and that of      *)
(* every other caller.                                                     *)
LEMMA CallersKept ==
    ASSUME TxInv, NEW q \in Proc, CallerStep(q)
    PROVE  \A p \in Proc : CallerInv(p)'
  <1>1. \A p \in Proc \ {q} : CallerInv(p)'
    BY StepsApart, OthersKept
  <1>2. CallerInv(q)'
    <2>1. CASE SelectForUpdate(q) \/ Select(q)
      BY <2>1, SelectKeeps
    <2>2. CASE InsertForUpdate(q)
      BY <2>2, InsertForUpdateKeeps
    <2>3. CASE GetStep(q) \/ SaveStep(q) \/ CountSteps(q) \/ SaveCounters(q) \/ Recompute(q)
      BY <2>3, GetStepKeeps, SaveStepKeeps, CountKeeps, SaveCountersKeeps, RecomputeKeeps
    <2>4. CASE Insert(q) \/ Commit(q) \/ Abort(q)
      <3>1. Reset(q)
        BY <2>4 DEF Insert, Commit, Abort
      <3> QED
        BY <3>1, ResetKeeps
    <2>5. CASE \E c \in Call : Begin(q, c)
      BY <2>5, BeginKeeps
    <2> QED
      BY <2>1, <2>2, <2>3, <2>4, <2>5 DEF CallerStep, Run
  <1> QED
    BY <1>1, <1>2

LEMMA TickKeepsCallers ==
    ASSUME TxInv, Tick
    PROVE  now' \in Time /\ \A p \in Proc : CallerInv(p)'
  <1>1. now \in Time
    BY DEF TxInv, TypeOK, Abstract!TypeOK, Abstract!Time, Time
  <1>2. now' \in Time /\ now <= now'
    BY <1>1, MaxTimeAssumption DEF Tick, Time
  <1>3. Apart(NoProc)
    BY <1>2 DEF Apart, Tick, txs
  <1> QED
    BY <1>2, <1>3, NoProcAssumption, OthersKept

-----------------------------------------------------------------------------
(* What is committed is a step of the atomic helpers.                      *)

LEMMA CreatedAtOnce ==
    ASSUME NEW r \in Record, NEW t \in Abstract!Fresh(r), ~Exists(r),
           onboarding' = [onboarding EXCEPT ![r] = NewOnboarding(t)],
           UNCHANGED <<steps, now>>
    PROVE  Abstract!Next
  <1>1. Abstract!GetOrCreate(r)
    BY SameRows DEF Abstract!GetOrCreate, Abstract!Exists, Exists, Abstract!Null, Null
  <1> QED
    BY <1>1 DEF Abstract!Next

(* What add_step leaves behind, with the clock readings it made.           *)
AddsAtOnce(r, k, s, row, ss, create, stamp, complete) ==
    /\ create <= stamp /\ stamp <= complete
    /\ row = IF Exists(r) THEN onboarding[r] ELSE NewOnboarding(create)
    /\ ss = [steps[r] EXCEPT ![k] =
                [status |-> s, completed_on |-> IF s \in DoneStatus THEN stamp ELSE Null]]
    /\ steps[r][k].status = "absent"
    /\ steps' = [steps EXCEPT ![r] = ss]
    /\ onboarding' = [onboarding EXCEPT ![r] =
            RecomputeCompletion(RecountAfterAdd(row, ss, s), complete)]
    /\ now' = now

LEMMA AddedAtOnce ==
    ASSUME NEW r \in Record, NEW k \in Key, NEW s \in Status, NEW row, NEW ss,
           NEW create \in Abstract!Fresh(r), NEW stamp \in Abstract!Fresh(r),
           NEW complete \in Abstract!Fresh(r),
           AddsAtOnce(r, k, s, row, ss, create, stamp, complete)
    PROVE  Abstract!Next
  <1> USE DEF AddsAtOnce
  <1> DEFINE a == [create |-> create, stamp |-> stamp, complete |-> complete]
  <1>1. a \in Abstract!Readings(r)
    BY DEF Abstract!Readings
  <1>2. Abstract!StepBorn(s, a.stamp) =
            [status |-> s, completed_on |-> IF s \in DoneStatus THEN stamp ELSE Null]
    BY DEF Abstract!StepBorn, Abstract!DoneStatus, DoneStatus, Abstract!Null, Null
  <1>3. row = IF Abstract!Exists(r) THEN onboarding[r] ELSE Abstract!NewOnboarding(a.create)
    BY SameRows DEF Abstract!Exists, Exists, Abstract!Null, Null
  <1>4. Abstract!AddStep(r, k, s)
    BY <1>1, <1>2, <1>3, SameRows DEF Abstract!AddStep
  <1> QED
    BY <1>4 DEF Abstract!Next, Abstract!Status, Status, Abstract!DoneStatus, DoneStatus

LEMMA TransitionedAtOnce ==
    ASSUME NEW r \in Record, NEW k \in Key, NEW s \in DoneStatus, NEW ss,
           NEW stamp \in Abstract!Fresh(r), NEW complete \in Abstract!Fresh(r),
           stamp <= complete, stamp <= stamp,
           Exists(r), steps[r][k].status # "absent",
           ss = [steps[r] EXCEPT ![k] = [status |-> s, completed_on |-> stamp]],
           steps' = [steps EXCEPT ![r] = ss],
           onboarding' = [onboarding EXCEPT ![r] =
               IF steps[r][k].status \in DoneStatus THEN onboarding[r]
               ELSE RecomputeCompletion(RecountDone(onboarding[r], ss), complete)],
           now' = now
    PROVE  Abstract!Next
  <1> DEFINE a == [create |-> stamp, stamp |-> stamp, complete |-> complete]
  <1>1. a \in Abstract!Readings(r)
    BY DEF Abstract!Readings
  <1>2. Abstract!TransitionStep(r, k, s)
    BY <1>1, SameRows
    DEF Abstract!TransitionStep, Abstract!Exists, Exists, Abstract!Null, Null,
        Abstract!DoneStatus, DoneStatus
  <1> QED
    BY <1>2 DEF Abstract!Next, Abstract!CompleteStep, Abstract!MarkNotApplicable, DoneStatus

LEMMA ReopenedAtOnce ==
    ASSUME NEW r \in Record, NEW k \in Key, NEW ss,
           NEW complete \in Abstract!Fresh(r), complete <= complete,
           Exists(r), steps[r][k].status = "completed",
           ss = [steps[r] EXCEPT ![k] = [status |-> "pending", completed_on |-> Null]],
           steps' = [steps EXCEPT ![r] = ss],
           onboarding' = [onboarding EXCEPT ![r] =
               RecomputeCompletion(RecountDone(onboarding[r], ss), complete)],
           now' = now
    PROVE  Abstract!Next
  <1> DEFINE a == [create |-> complete, stamp |-> complete, complete |-> complete]
  <1>1. a \in Abstract!Readings(r)
    BY DEF Abstract!Readings
  <1>2. Abstract!ReopenStep(r, k)
    BY <1>1, SameRows
    DEF Abstract!ReopenStep, Abstract!CanReopen, Abstract!Exists, Exists, Abstract!Null, Null
  <1> QED
    BY <1>2 DEF Abstract!Next

(* The row committed is the one in memory: every save named what changed.  *)
LEMMA RowSeenIsMemory ==
    ASSUME TxInv, NEW p \in Proc, pc[p] = "commit"
    PROVE  RowSeen(p) = mem[p].row
  <1>1. /\ SavedInv(p) /\ mem[p].row \in OnboardingRow
    BY UnderWay
  <1>2. \A c \in RowColumn : c \in written[p] \/ mem[p].row[c] = onboarding[call[p].rec][c]
    BY <1>1 DEF SavedInv, Holds, Rec
  <1>3. RowSeen(p) = [c \in RowColumn |-> mem[p].row[c]]
    BY <1>2 DEF RowSeen
  <1>4. mem[p].row = [c \in RowColumn |-> mem[p].row[c]]
    BY <1>1 DEF OnboardingRow, RowColumn
  <1> QED
    BY <1>3, <1>4

(* The rows committed are those of one atomic helper, or the ones there.   *)
LEMMA CommitImplements ==
    ASSUME TxInv, NEW p \in Proc, Commit(p)
    PROVE  Abstract!Next \/ UNCHANGED <<onboarding, steps, now>>
  <1> DEFINE r == Rec(p)
             k == call[p].key
             ss == StepsSeen(p)
  <1>1. pc[p] = "commit" /\ pc[p] # "idle" /\ Holds(p)
    BY DEF Commit, At, Holds
  <1>2. /\ call[p] \in Call /\ r \in Record /\ HoldInv(p) /\ StageInv(p)
        /\ onboarding[r] \in OnboardingRow /\ steps[r] \in [Key -> StepRow]
        /\ call[p].op # "ensure" /\ k \in Key
    BY <1>1, UnderWay DEF HoldInv
  <1>3. /\ onboarding' = [onboarding EXCEPT ![r] = mem[p].row]
        /\ steps' = [steps EXCEPT ![r] = ss]
        /\ now' = now
    BY <1>1, RowSeenIsMemory DEF Commit, Rec
  <1>4. /\ onboarding = [onboarding EXCEPT ![r] = onboarding[r]]
        /\ steps = [steps EXCEPT ![r] = steps[r]]
    BY DEF TxInv, TypeOK, Abstract!TypeOK
  <1>5. \A t \in Times(p) : /\ t \in Abstract!Fresh(r) /\ t \in Time /\ t <= t
                            /\ ~Exists(r) => mem[p].row.started_on <= t
    BY DEF Times, Abstract!Fresh, Abstract!Time, Time
  <1>6. ~Exists(r) => /\ call[p].op = "add" /\ FirstRow(p) = NewOnboarding(mem[p].row.started_on)
                      /\ mem[p].row.started_on \in Abstract!Fresh(r)
    BY <1>1, <1>2 DEF HoldInv, FirstRow
  <1>7. Exists(r) => FirstRow(p) = onboarding[r]
    BY DEF FirstRow
  <1>8. "step" \in written[p] => ss = [steps[r] EXCEPT ![k] = mem[p].step]
    BY DEF StepsSeen, Rec
  <1>9. CASE Unchanged(p)
    <2>1. ss = steps[r]
      BY <1>2, <1>9 DEF StepsSeen, Rec, Unchanged
    <2>2. steps' = steps /\ now' = now
      BY <1>3, <1>4, <2>1
    <2>3. CASE Exists(r)
      <3>1. mem[p].row = onboarding[r]
        BY <1>7, <1>9, <2>3 DEF Unchanged
      <3> QED
        BY <1>3, <1>4, <2>2, <3>1
    <2>4. CASE ~Exists(r)
      <3>1. onboarding' = [onboarding EXCEPT ![r] = NewOnboarding(mem[p].row.started_on)]
        BY <1>3, <1>6, <1>9, <2>4 DEF Unchanged
      <3> QED
        BY <1>2, <1>6, <2>2, <2>4, <3>1, CreatedAtOnce
    <2> QED
      BY <2>3, <2>4
  <1>10. CASE Restamped(p)
    <2>1. /\ call[p].op = "transition" /\ StepFound(p).status \in DoneStatus
          /\ call[p].status \in DoneStatus
      BY <1>2, <1>10, CallTyped DEF Restamped, NeedsRecount
    <2>2. Exists(r) /\ mem[p].row = onboarding[r]
      BY <1>6, <1>7, <1>10, <2>1 DEF Restamped
    <2>3. PICK t \in Times(p) : mem[p].step = [status |-> call[p].status, completed_on |-> t]
      BY <1>10, <2>1 DEF Restamped, StepWritten
    <2>4. /\ ss = [steps[r] EXCEPT ![k] = [status |-> call[p].status, completed_on |-> t]]
          /\ steps[r][k].status \in DoneStatus /\ steps[r][k].status # "absent"
      BY <1>8, <1>10, <2>1, <2>3 DEF Restamped, StepFound, DoneStatus
    <2>5. onboarding' = [onboarding EXCEPT ![r] =
              IF steps[r][k].status \in DoneStatus THEN onboarding[r]
              ELSE RecomputeCompletion(RecountDone(onboarding[r], ss), t)]
      BY <1>3, <2>2, <2>4
    <2>6. t \in Abstract!Fresh(r) /\ t <= t
      BY <1>5
    <2> HIDE DEF r, k, ss
    <2> QED
      BY <1>2, <1>3, <2>1, <2>2, <2>4, <2>5, <2>6, TransitionedAtOnce
  <1>11. CASE Updated(p)
    <2>1. PICK t \in Times(p) :
              /\ mem[p].step.completed_on <= t
              /\ mem[p].row = RecomputeCompletion(Recounted(call[p], FirstRow(p), ss), t)
      BY <1>11 DEF Updated
    <2>2. /\ Applies(call[p], steps[r][k]) /\ NeedsRecount(call[p], steps[r][k])
          /\ StepStamped(p) /\ ss = [steps[r] EXCEPT ![k] = mem[p].step]
      BY <1>8, <1>11 DEF Updated, StepFound
    <2>3. t \in Abstract!Fresh(r) /\ t <= t
      BY <1>5
    <2>4. CASE call[p].op = "add"
      <3> DEFINE s == call[p].status
      <3>1. PICK u \in Times(p) :
                mem[p].step = [status |-> s, completed_on |-> IF s \in DoneStatus THEN u ELSE Null]
        BY <2>2, <2>4 DEF StepStamped
      <3> DEFINE stamp == IF s \in DoneStatus THEN u ELSE t
                 create == IF Exists(r) THEN stamp ELSE mem[p].row.started_on
      <3>2. stamp \in Times(p) /\ stamp <= t
        BY <1>5, <2>1, <3>1
      <3>3. /\ stamp \in Abstract!Fresh(r)
            /\ create \in Abstract!Fresh(r) /\ create <= stamp
        BY <1>5, <1>6, <3>2
      <3>4. FirstRow(p) = IF Exists(r) THEN onboarding[r] ELSE NewOnboarding(create)
        BY <1>6, <1>7
      <3>5. ss = [steps[r] EXCEPT ![k] =
                     [status |-> s, completed_on |-> IF s \in DoneStatus THEN stamp ELSE Null]]
        BY <2>2, <3>1
      <3>6. onboarding' = [onboarding EXCEPT ![r] =
                RecomputeCompletion(RecountAfterAdd(FirstRow(p), ss, s), t)]
        BY <1>3, <2>1, <2>4 DEF Recounted
      <3>7. s \in Status /\ steps[r][k].status = "absent"
        BY <1>2, <2>2, <2>4, CallTyped DEF Applies
      <3>8. AddsAtOnce(r, k, s, FirstRow(p), ss, create, stamp, t)
        BY <1>3, <3>2, <3>3, <3>4, <3>5, <3>6, <3>7 DEF AddsAtOnce
      <3> HIDE DEF r, k, ss, s, stamp, create
      <3> QED
        BY <1>2, <2>3, <3>3, <3>7, <3>8, AddedAtOnce
    <2>5. CASE call[p].op = "transition"
      <3>1. /\ call[p].status \in DoneStatus
            /\ steps[r][k].status # "absent" /\ steps[r][k].status \notin DoneStatus
        BY <1>2, <2>2, <2>5, CallTyped DEF Applies, NeedsRecount
      <3>2. PICK u \in Times(p) : mem[p].step = [status |-> call[p].status, completed_on |-> u]
        BY <2>2, <2>5 DEF StepStamped, StepWritten
      <3>3. ss = [steps[r] EXCEPT ![k] = [status |-> call[p].status, completed_on |-> u]]
        BY <2>2, <3>2
      <3>4. u \in Abstract!Fresh(r) /\ u <= u /\ u <= t
        BY <1>5, <2>1, <3>2
      <3>5. Exists(r) /\ FirstRow(p) = onboarding[r]
        BY <1>6, <1>7, <2>5
      <3>6. onboarding' = [onboarding EXCEPT ![r] =
                IF steps[r][k].status \in DoneStatus THEN onboarding[r]
                ELSE RecomputeCompletion(RecountDone(onboarding[r], ss), t)]
        BY <1>3, <2>1, <2>5, <3>1, <3>5 DEF Recounted
      <3> HIDE DEF r, k, ss
      <3> QED
        BY <1>2, <1>3, <2>3, <3>1, <3>3, <3>4, <3>5, <3>6, TransitionedAtOnce
    <2>6. CASE call[p].op = "reopen"
      <3>1. steps[r][k].status = "completed"
        BY <2>2, <2>6 DEF Applies
      <3>2. ss = [steps[r] EXCEPT ![k] = [status |-> "pending", completed_on |-> Null]]
        BY <2>2, <2>6 DEF StepStamped, StepWritten
      <3>3. Exists(r) /\ FirstRow(p) = onboarding[r]
        BY <1>6, <1>7, <2>6
      <3>4. onboarding' = [onboarding EXCEPT ![r] =
                RecomputeCompletion(RecountDone(onboarding[r], ss), t)]
        BY <1>3, <2>1, <2>6, <3>3 DEF Recounted
      <3> HIDE DEF r, k, ss
      <3> QED
        BY <1>2, <1>3, <2>3, <3>1, <3>2, <3>3, <3>4, ReopenedAtOnce
    <2> QED
      BY <1>2, <2>4, <2>5, <2>6, CallTyped
  <1> QED
    BY <1>1, <1>2, <1>9, <1>10, <1>11 DEF StageInv

LEMMA InsertImplements ==
    ASSUME TxInv, NEW p \in Proc, Insert(p)
    PROVE  Abstract!Next \/ UNCHANGED <<onboarding, steps, now>>
  <1>1. Rec(p) \in Record /\ UNCHANGED <<steps, now>>
    BY UnderWay DEF Insert, At
  <1>2. CASE Exists(Rec(p))
    BY <1>1, <1>2 DEF Insert, Rec
  <1>3. CASE ~Exists(Rec(p))
    <2>1. onboarding' = [onboarding EXCEPT ![Rec(p)] = NewOnboarding(now)]
      BY <1>3 DEF Insert, Rec
    <2>2. now \in Abstract!Fresh(Rec(p))
      BY <1>1, NowIsFresh DEF TxInv, TypeOK
    <2> QED
      BY <1>1, <1>3, <2>1, <2>2, CreatedAtOnce
  <1> QED
    BY <1>2, <1>3

(* Every other statement leaves the committed rows alone.                  *)
LEMMA StepImplements ==
    ASSUME TxInv, Next \/ UNCHANGED vars
    PROVE  [Abstract!Next]_Abstract!vars
  <1>1. (Abstract!Next \/ UNCHANGED <<onboarding, steps, now>>)
            => [Abstract!Next]_Abstract!vars
    BY DEF Abstract!vars
  <1>2. ASSUME NEW p \in Proc, Commit(p) PROVE [Abstract!Next]_Abstract!vars
    BY <1>1, <1>2, CommitImplements
  <1>3. ASSUME NEW p \in Proc, Insert(p) PROVE [Abstract!Next]_Abstract!vars
    BY <1>1, <1>3, InsertImplements
  <1>4. ASSUME NEW p \in Proc,
               \/ SelectForUpdate(p) \/ Select(p) \/ InsertForUpdate(p)
               \/ GetStep(p) \/ SaveStep(p) \/ CountSteps(p)
               \/ SaveCounters(p) \/ Recompute(p) \/ Abort(p)
        PROVE  [Abstract!Next]_Abstract!vars
    BY <1>1, <1>4 DEF SelectForUpdate, Select, InsertForUpdate, GetStep, SaveStep,
        CountSteps, SaveCounters, Recompute, Abort, db
  <1>5. ASSUME NEW p \in Proc, NEW c \in Call, Begin(p, c)
        PROVE  [Abstract!Next]_Abstract!vars
    BY <1>1, <1>5 DEF Begin, db
  <1>6. Tick => [Abstract!Next]_Abstract!vars
    <2>1. Tick => Abstract!Tick
      BY DEF Tick, Abstract!Tick
    <2> QED
      BY <2>1 DEF Abstract!Next
  <1>7. UNCHANGED vars => [Abstract!Next]_Abstract!vars
    BY <1>1 DEF vars
  <1> QED
    BY <1>2, <1>3, <1>4, <1>5, <1>6, <1>7 DEF Next, Run

-----------------------------------------------------------------------------
(* The variables of the transactions keep their types.                     *)
MemRow == [row : OnboardingRow,
           step : StepRow \union [status : DoneStatus, completed_on : {Null}]]
TxTypes ==
    /\ lock \in [Record -> Proc \union {NoProc}]
    /\ pc \in [Proc -> Statement]
    /\ call \in [Proc -> Call \union {NoCall}]
    /\ mem \in [Proc -> MemRow]
    /\ written \in [Proc -> SUBSET Column]

LEMMA TypesSplit ==
    /\ TypeOK <=> Abstract!TypeOK /\ TxTypes
    /\ TypeOK' <=> Abstract!TypeOK' /\ TxTypes'
  BY DEF TypeOK, TxTypes, MemRow

LEMMA ResetTyped ==
    ASSUME TxTypes, NEW p \in Proc, Reset(p)
    PROVE  TxTypes'
  <1>1. NoMem \in MemRow
    BY NewRowTyped DEF NoMem, MemRow, NoOnboarding, StepRow, Timestamp
  <1> QED
    BY <1>1 DEF TxTypes, Reset, Released, GoTo, Statement

(* Of a step under way: its columns are written from typed rows.           *)
LEMMA MemoryTyped ==
    ASSUME TxInv, NEW p \in Proc, pc[p] # "idle",
           \/ GetStep(p) \/ SaveStep(p) \/ CountSteps(p)
           \/ SaveCounters(p) \/ Recompute(p)
    PROVE  mem' \in [Proc -> MemRow]
  <1>1. /\ call[p] \in Call /\ call[p].op # "ensure" /\ call[p].key \in Key
        /\ steps[Rec(p)] \in [Key -> StepRow] /\ mem[p].row \in OnboardingRow
        /\ StageInv(p)
    BY UnderWay
    DEF GetStep, SaveStep, CountSteps, SaveCounters, Recompute, At, HoldInv, Holds
  <1>2. mem \in [Proc -> MemRow] /\ now \in Time
    BY DEF TxInv, TypeOK, MemRow, Abstract!TypeOK, Abstract!Time, Time
  <1>3. mem[p].step \in StepRow \union [status : DoneStatus, completed_on : {Null}]
    BY <1>2 DEF MemRow
  <1>4. CASE GetStep(p)
    <2>1. StepsSeen(p)[call[p].key] \in
              StepRow \union [status : DoneStatus, completed_on : {Null}]
      BY <1>1, <1>3 DEF StepsSeen, Rec
    <2> QED
      BY <1>2, <1>4, <2>1 DEF GetStep, MemRow
  <1>5. CASE SaveStep(p)
    <2>1. StepSaved(call[p]) \in StepRow
      BY <1>1, <1>2, CallTyped DEF StepSaved, StepRow, Timestamp, Status
    <2> QED
      BY <1>2, <1>5, <2>1 DEF SaveStep, MemRow
  <1>6. CASE CountSteps(p)
    <2>1. mem' = [mem EXCEPT ![p].row = Recounted(call[p], mem[p].row, StepsSeen(p))]
      BY <1>6 DEF CountSteps, Recounted
    <2>2. Recounted(call[p], mem[p].row, StepsSeen(p)) \in OnboardingRow
      BY <1>1, RowsTyped DEF Recounted
    <2> QED
      BY <1>2, <2>1, <2>2 DEF MemRow
  <1>7. CASE SaveCounters(p)
    <2>1. CASE call[p].op = "add" /\ call[p].status \in DoneStatus
      <3>1. mem[p].step = [status |-> call[p].status, completed_on |-> Null]
        BY <1>1, <1>7, <2>1 DEF SaveCounters, At, StageInv, StepWritten
      <3>2. [mem[p].step EXCEPT !.completed_on = now] \in StepRow
        BY <1>2, <2>1, <3>1 DEF StepRow, Status, Timestamp
      <3>3. mem' = [mem EXCEPT ![p].step.completed_on = now]
        BY <1>7, <2>1 DEF SaveCounters, BornDone
      <3> QED
        BY <1>2, <3>2, <3>3 DEF MemRow
    <2>2. CASE ~(call[p].op = "add" /\ call[p].status \in DoneStatus)
      BY <1>2, <1>7, <2>2 DEF SaveCounters, BornDone
    <2> QED
      BY <2>1, <2>2
  <1>8. CASE Recompute(p)
    <2>1. RecomputeCompletion(mem[p].row, now) \in OnboardingRow
      BY <1>1, <1>2, RowsTyped
    <2> QED
      BY <1>2, <1>8, <2>1 DEF Recompute, MemRow
  <1> QED
    BY <1>4, <1>5, <1>6, <1>7, <1>8

LEMMA RunTyped ==
    ASSUME TxInv, NEW p \in Proc, CallerStep(p)
    PROVE  TxTypes'
  <1>1. TxTypes /\ Abstract!TypeOK
    BY TypesSplit DEF TxInv
  <1>2. Reset(p) => TxTypes'
    BY <1>1, ResetTyped
  <1>3. pc[p] # "idle" => Rec(p) \in Record /\ onboarding[Rec(p)] \in OnboardingRow
    BY UnderWay
  <1>4. CASE SelectForUpdate(p) \/ Select(p)
    <2>1. CASE Exists(Rec(p)) /\ Free(Rec(p)) /\ call[p].op # "ensure"
      <3>1. Rec(p) \in Record /\ onboarding[Rec(p)] \in OnboardingRow
        BY <1>3, <1>4 DEF SelectForUpdate, Select, At
      <3>2. /\ lock' = [lock EXCEPT ![Rec(p)] = p]
            /\ mem' = [mem EXCEPT ![p].row = onboarding[Rec(p)]]
            /\ GoTo(p, "get_step")
            /\ UNCHANGED <<call, written>>
        BY <1>4, <2>1 DEF SelectForUpdate, Select, Rec
      <3> QED
        BY <1>1, <3>1, <3>2 DEF TxTypes, MemRow, GoTo, Statement
    <2>2. CASE ~(Exists(Rec(p)) /\ Free(Rec(p)) /\ call[p].op # "ensure")
      <3>1. Reset(p) \/ (GoTo(p, "insert") /\ UNCHANGED <<lock, call, mem, written>>)
        BY <1>4, <2>2 DEF SelectForUpdate, Select, Rec
      <3> QED
        BY <1>1, <1>2, <3>1 DEF TxTypes, GoTo, Statement
    <2> QED
      BY <2>1, <2>2
  <1>5. CASE InsertForUpdate(p)
    <2>1. NewOnboarding(now) \in OnboardingRow
      BY <1>1, NewRowTyped DEF Abstract!TypeOK, Abstract!Time, Time, Timestamp
    <2>2. Rec(p) \in Record
      BY <1>3, <1>5 DEF InsertForUpdate, At
    <2>3. CASE Exists(Rec(p))
      BY <1>1, <1>5, <2>3 DEF InsertForUpdate, TxTypes, GoTo, Statement, Rec
    <2>4. CASE ~Exists(Rec(p))
      <3>1. /\ lock' = [lock EXCEPT ![Rec(p)] = p]
            /\ mem' = [mem EXCEPT ![p].row = NewOnboarding(now)]
            /\ written' = [written EXCEPT ![p] = @ \union RowColumn]
            /\ pc' = [pc EXCEPT ![p] = "get_step"]
            /\ call' = call
        BY <1>5, <2>4 DEF InsertForUpdate, Rec, Write, GoTo
      <3>2. mem' \in [Proc -> MemRow]
        BY <1>1, <2>1, <3>1 DEF TxTypes, MemRow
      <3> QED
        BY <1>1, <2>2, <3>1, <3>2 DEF TxTypes, Statement, Column
    <2> QED
      BY <2>3, <2>4
  <1>6. CASE \/ GetStep(p) \/ SaveStep(p) \/ CountSteps(p)
             \/ SaveCounters(p) \/ Recompute(p)
    <2>1. pc[p] # "idle"
      BY <1>6 DEF GetStep, SaveStep, CountSteps, SaveCounters, Recompute, At
    <2>2. mem' \in [Proc -> MemRow]
      BY <1>6, <2>1, MemoryTyped
    <2>3. pc' \in [Proc -> Statement]
      BY <1>1, <1>6
      DEF GetStep, SaveStep, CountSteps, SaveCounters, Recompute, GoTo, TxTypes, Statement
    <2>4. written' \in [Proc -> SUBSET Column]
      BY <1>1, <1>6
      DEF GetStep, SaveStep, CountSteps, SaveCounters, Recompute, Write, TxTypes,
          Column, RowColumn, CounterColumns
    <2>5. UNCHANGED <<lock, call>>
      BY <1>6 DEF GetStep, SaveStep, CountSteps, SaveCounters, Recompute
    <2> QED
      BY <1>1, <2>2, <2>3, <2>4, <2>5 DEF TxTypes
  <1>7. CASE Insert(p) \/ Commit(p) \/ Abort(p)
    BY <1>2, <1>7 DEF Insert, Commit, Abort
  <1>8. CASE \E c \in Call : Begin(p, c)
    BY <1>1, <1>8 DEF Begin, TxTypes, GoTo, Statement
  <1> QED
    BY <1>4, <1>5, <1>6, <1>7, <1>8 DEF CallerStep, Run

-----------------------------------------------------------------------------
(* The invariant holds at first and after every step.                      *)

LEMMA TxInitial == Init => TxInv
  <1> SUFFICES ASSUME Init PROVE TxInv
    OBVIOUS
  <1>1. Abstract!Init
    BY SameRows DEF Init, Abstract!Init
  <1>2. NoMem \in MemRow
    BY NewRowTyped DEF NoMem, MemRow, NoOnboarding, StepRow, Timestamp
  <1>3. TypeOK
    BY <1>1, <1>2, AtomicInitTyped, TypesSplit DEF Init, TxTypes, Statement
  <1>4. ASSUME NEW p \in Proc PROVE CallerInv(p)
    BY <1>4 DEF Init, CallerInv, CallInv, HoldInv, SavedInv, StageInv, Holds
  <1> QED
    BY <1>3, <1>4 DEF TxInv

LEMMA TxInductive == TxInv /\ [Next]_vars => TxInv'
  <1> SUFFICES ASSUME TxInv, Next \/ UNCHANGED vars PROVE TxInv'
    OBVIOUS
  <1>1. Abstract!TypeOK'
    BY StepImplements, AtomicStepTyped DEF TxInv, TypeOK
  <1>2. ASSUME NEW p \in Proc, CallerStep(p) PROVE TxInv'
    BY <1>1, <1>2, CallersKept, RunTyped, TypesSplit DEF TxInv
  <1>3. CASE Tick
    <2>1. TxTypes'
      BY <1>3, TypesSplit DEF TxInv, Tick, txs, TxTypes
    <2> QED
      BY <1>1, <1>3, <2>1, TickKeepsCallers, TypesSplit DEF TxInv
  <1>4. CASE UNCHANGED vars
    <2>1. TxTypes'
      BY <1>4, TypesSplit DEF TxInv, vars, TxTypes
    <2>2. now' \in Time /\ now <= now'
      BY <1>4 DEF vars, TxInv, TypeOK, Abstract!TypeOK, Abstract!Time, Time
    <2>3. Apart(NoProc)
      BY <1>4, <2>2 DEF Apart, vars
    <2> QED
      BY <1>1, <2>1, <2>3, NoProcAssumption, OthersKept, TypesSplit DEF TxInv
  <1> QED
    BY <1>2, <1>3, <1>4 DEF Next, CallerStep

THEOREM TxInvariant == Spec => []TxInv
  BY TxInitial, TxInductive, PTL DEF Spec

(* Type correctness of ChecklistTx, over the rows that api.py commits and  *)
(* the model instances its callers hold.                                   *)
THEOREM TxTypeCorrect == Spec => []TypeOK
  <1>1. TxInv => TypeOK
    BY DEF TxInv
  <1> QED
    BY <1>1, TxInvariant, PTL

(* Between select_for_update and the save of the counters no caller works  *)
(* on a parent row that another has changed since (api.py, add_step,       *)
(* complete_step, mark_not_applicable, reopen_step).                       *)
THEOREM RowsNeverStale == Spec => []NoStaleRow
  <1>1. TxInv => NoStaleRow
    <2> SUFFICES ASSUME TxInv, NEW p \in Proc, ReadRow(p), Exists(call[p].rec)
                 PROVE  mem[p].row = onboarding[call[p].rec]
      BY DEF NoStaleRow
    <2>1. StageInv(p)
      BY DEF TxInv, CallerInv
    <2> QED
      BY <2>1 DEF StageInv, ReadRow, FirstRow, Rec
  <1> QED
    BY <1>1, TxInvariant, PTL

(* The statements of the helpers, run by any number of callers that wait   *)
(* for each other and may die, are together one atomic helper of Checklist *)
(* at the commit and nothing before: locks and transactions keep the       *)
(* promise of the module docstring of api.py.                              *)
THEOREM TxImplementsChecklist == Spec => ImplementsChecklist
  <1>1. Init => Abstract!Init
    BY SameRows DEF Init, Abstract!Init
  <1>2. TxInv /\ [Next]_vars => [Abstract!Next]_Abstract!vars
    BY StepImplements
  <1> QED
    BY <1>1, <1>2, TxInvariant, PTL DEF Spec, ImplementsChecklist, Abstract!Spec

(* So what the atomic helpers guarantee holds of the committed rows,       *)
(* whatever callers are under way or die.                                  *)
LEMMA SpecIsAtomic == Spec => Atomic!Spec
  <1>1. (Init => Atomic!Init) /\ (TxInv /\ [Next]_vars => [Atomic!Next]_Atomic!vars)
    BY SameRows, SameSpec, StepImplements DEF Init, Abstract!Init
  <1> QED
    BY <1>1, TxInvariant, PTL DEF Spec, Atomic!Spec

LEMMA SameProperties ==
    /\ Atomic!CountersMatchSteps <=> CountersMatchSteps
    /\ Atomic!CompletionMatchesSteps <=> CompletionMatchesSteps
    /\ Atomic!StepTimesMatchStatus <=> StepTimesMatchStatus
    BY DEF CountersMatchSteps, CompletionMatchesSteps, StepTimesMatchStatus,
           Atomic!CountersMatchSteps, Abstract!CountersMatchSteps,
           Atomic!CompletionMatchesSteps, Abstract!CompletionMatchesSteps,
           Atomic!StepTimesMatchStatus, Abstract!StepTimesMatchStatus,
           Atomic!CountTotal, Abstract!CountTotal, Atomic!CountDone, Abstract!CountDone,
           Atomic!Present, Abstract!Present, Atomic!Done, Abstract!Done,
           Atomic!DoneStatus, Abstract!DoneStatus, Atomic!Null, Abstract!Null,
           Atomic!Cardinality, Abstract!Cardinality

(* The counters of a committed record are the numbers of its step rows and *)
(* of its done step rows, for any number of overlapping and dying callers. *)
THEOREM CommittedCountersRight == Spec => []CountersMatchSteps
  <1>1. Atomic!Spec => []Atomic!CountersMatchSteps
    BY AtomicAssumptions, Atomic!CountersCorrect
  <1> QED
    BY <1>1, SpecIsAtomic, SameProperties, PTL

(* A committed record has a completion time exactly when it has steps and  *)
(* all of them are done.                                                   *)
THEOREM CommittedCompletionRight == Spec => []CompletionMatchesSteps
  <1>1. Atomic!Spec => []Atomic!CompletionMatchesSteps
    BY AtomicAssumptions, Atomic!CompletionCorrect
  <1> QED
    BY <1>1, SpecIsAtomic, SameProperties, PTL

(* A committed step has a time exactly when it is done.                    *)
THEOREM CommittedTimesRight == Spec => []StepTimesMatchStatus
  <1>1. Atomic!Spec => []Atomic!StepTimesMatchStatus
    BY AtomicAssumptions, Atomic!StepTimesCorrect
  <1> QED
    BY <1>1, SpecIsAtomic, SameProperties, PTL

(* While a committed record stays complete no commit moves the time it was *)
(* completed.                                                              *)
THEOREM CommittedTimeNeverMoves == Spec => CompletionTimeStable
  <1>1. Atomic!Spec => Atomic!CompletionTimeStable
    BY AtomicAssumptions, Atomic!CompletionTimeNeverMoves
  <1>2. [\A r \in Record :
             onboarding[r].completed_on # Atomic!Null /\ onboarding'[r].completed_on # Atomic!Null
                 => onboarding'[r].completed_on = onboarding[r].completed_on]_Atomic!vars
        => [\A r \in Record :
             onboarding[r].completed_on # Abstract!Null /\ onboarding'[r].completed_on # Abstract!Null
                 => onboarding'[r].completed_on = onboarding[r].completed_on]_Abstract!vars
    BY DEF Atomic!vars, Abstract!vars, Atomic!Null, Abstract!Null
  <1> QED
    BY <1>1, <1>2, SpecIsAtomic, PTL
    DEF CompletionTimeStable, Atomic!CompletionTimeStable, Abstract!CompletionTimeStable
=============================================================================
