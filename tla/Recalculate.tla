------------------------------ MODULE Recalculate ------------------------------
(***************************************************************************)
(* api.recalculate: a run compares one student's checklist with the step   *)
(* predicates.  It reads the rows once, evaluates the predicates one after *)
(* the other and calls the helpers of api.py, each atomic by itself        *)
(* (ChecklistTx), with nothing held in between.  Runs overlap each other   *)
(* (the CE batch view, the student action, signal handlers), the handlers  *)
(* that complete steps, staff, and changes of the data the predicates read.*)
(* No decision of a run depends on a time, so the clock stands still here. *)
(***************************************************************************)
EXTENDS Checklist, Sequences

CONSTANTS
    Worker,         \* requests and handlers that run recalculate
    AllSteps,       \* step_registry.all_steps(): the registered keys, in order
    Predicated,     \* the registered keys with a complete_when
    Reopenable,     \* the registered keys declared reopenable
    MaxOutside      \* bound on the changes that do not come from a run

Registered == {AllSteps[i] : i \in 1 .. Len(AllSteps)}

ASSUME AllStepsAssumption == AllSteps \in Seq(Key)
ASSUME RegistryAssumption ==
    Predicated \subseteq Registered /\ Reopenable \subseteq Registered

VARIABLES
    isComplete,     \* what StepDefinition.is_complete returns now, by key
    shouldSeed,     \* whether should_seed holds now, by key
    pc,             \* where each worker is in its run
    run,            \* the locals of the run
    heard,          \* history: who has changed what the run is about since it began
    waived,         \* history: the waivers older than the run that still stand
    outside         \* the number of outside changes so far

checklist == <<onboarding, steps, now>>
facts == <<isComplete, shouldSeed>>
allVars ==
    <<onboarding, steps, now, isComplete, shouldSeed, pc, run, heard, waived, outside>>

(* is_complete returns None without a complete_when, and when it raises.   *)
Verdict == {"yes", "no", "none"}
Facts ==
    {f \in [Registered -> Verdict] : \A k \in Registered \ Predicated : f[k] = "none"}

(* A run of recalculate(student, term, create); rows is the status of each *)
(* registered key as far as the run knows, step the position in AllSteps.  *)
Phase ==
    {"idle", "ensure", "snapshot", "seed", "add", "sync", "still_due",
     "complete", "reopen"}
KnownStatus == Status \union {"absent"}
NoRun(r) ==
    [rec |-> r, create |-> FALSE, rows |-> [k \in Registered |-> "absent"], step |-> 1]

(* The checklists that calls of the helpers leave behind.                  *)
Settled(ss) ==
    LET row == [NewOnboarding(1) EXCEPT !.total_steps = CountTotal(ss)]
    IN  RecomputeCompletion(RecountDone(row, ss), 1)

Birth == {NoStep} \union {StepBorn(s, 1) : s \in Status}

RecalcInit ==
    /\ \/ Init
       \/ /\ steps \in [Record -> [Key -> Birth]]
          /\ onboarding = [r \in Record |-> Settled(steps[r])]
          /\ now = 1
    /\ isComplete \in Facts
    /\ shouldSeed \in [Registered -> BOOLEAN]
    /\ pc = [w \in Worker |-> "idle"]
    /\ \E r \in Record : run = [w \in Worker |-> NoRun(r)]
    /\ heard = [w \in Worker |-> {"outside"}]
    /\ waived = [w \in Worker |-> {}]
    /\ outside = 0

Position(w) == run[w].step
AtEnd(w) == Position(w) > Len(AllSteps)
CurrentKey(w) == AllSteps[Position(w)]
GoTo(w, phase) == pc' = [pc EXCEPT ![w] = phase]
Forget(w) == run' = [run EXCEPT ![w] = NoRun(@.rec)]
NextStep(w) == run' = [run EXCEPT ![w].step = @ + 1]

(* The second loop asks for each row once: a status it has compared is     *)
(* dropped from the model, as it is dead in the code.                      *)
Compared(w) ==
    run' = [run EXCEPT ![w].rows[CurrentKey(w)] = "absent", ![w].step = @ + 1]

(* History: the other runs on its record learn that w called a helper, and *)
(* whether the run of w is stale, that is began before the last outside    *)
(* change.                                                                 *)
Stale(w) == heard[w] = {"outside"}
Told(w) ==
    heard' = [v \in Worker |->
        IF v = w \/ run[v].rec # run[w].rec \/ heard[v] \in {{"outside"}, {"stale"}}
        THEN heard[v]
        ELSE IF Stale(w) THEN {"stale"} ELSE {"run"}]

(* History: which steps of its record were waived when a run began and     *)
(* have been ever since.                                                   *)
Waived(r) == {k \in Registered : steps[r][k].status = "not_applicable"}
Remember ==
    waived' = [w \in Worker |->
        IF pc'[w] = "idle" THEN {}
        ELSE IF pc[w] = "idle" THEN Waived(run[w].rec)'
        ELSE waived[w] \intersect Waived(run[w].rec)']

-----------------------------------------------------------------------------
Start(w, r, create) ==
    /\ pc[w] = "idle"
    /\ GoTo(w, "ensure")
    /\ run' = [run EXCEPT ![w] = [NoRun(r) EXCEPT !.create = create]]
    /\ heard' = [heard EXCEPT ![w] = {}]
    /\ UNCHANGED <<checklist, facts, outside>>

(* With create the record is made if it is missing; without, a student who *)
(* has no record is left alone.                                            *)
Ensure(w) ==
    LET r == run[w].rec IN
    /\ pc[w] = "ensure"
    /\ \/ /\ run[w].create
          /\ GetOrCreate(r)
          /\ GoTo(w, "snapshot")
          /\ Told(w)
          /\ Forget(w)
       \/ /\ Exists(r)
          /\ GoTo(w, "snapshot")
          /\ Forget(w)
          /\ UNCHANGED <<checklist, heard>>
       \/ /\ ~run[w].create
          /\ ~Exists(r)
          /\ GoTo(w, "idle")
          /\ UNCHANGED <<checklist, run, heard>>
    /\ UNCHANGED <<facts, outside>>

Snapshot(w) ==
    /\ pc[w] = "snapshot"
    /\ run' = [run EXCEPT ![w].rows =
                  [k \in Registered |-> steps[run[w].rec][k].status]]
    /\ GoTo(w, "seed")
    /\ UNCHANGED <<checklist, facts, heard, outside>>

(* First loop: a step that is due and not on the list is to be added.  A   *)
(* seeded_when that raises counts as not due.                              *)
Seed(w) ==
    /\ pc[w] = "seed"
    /\ IF AtEnd(w)
       THEN /\ GoTo(w, "sync")
            /\ run' = [run EXCEPT ![w].step = 1]
       ELSE IF run[w].rows[CurrentKey(w)] = "absent" /\ shouldSeed[CurrentKey(w)]
       THEN /\ GoTo(w, "add")
            /\ UNCHANGED run
       ELSE /\ NextStep(w)
            /\ UNCHANGED pc
    /\ UNCHANGED <<checklist, facts, heard, outside>>

NotRecorded == "absent"                 \* mutant: rows[step.key] is not set
StatusOnceAdded == "pending"

(* The run takes the row for pending from here on, also when add_step      *)
(* found one that somebody else has added and perhaps finished.            *)
Add(w) ==
    LET r == run[w].rec
        k == CurrentKey(w)
    IN  /\ pc[w] = "add"
        /\ \/ AddStep(r, k, "pending")
           \/ steps[r][k].status # "absent" /\ UNCHANGED checklist
        /\ run' = [run EXCEPT ![w].rows[k] = StatusOnceAdded,
                           ![w].step = @ + 1]
        /\ GoTo(w, "seed")
        /\ Told(w)
        /\ UNCHANGED <<facts, outside>>

(* Second loop: the predicate is evaluated and compared with the status    *)
(* the run knows.  Nothing looks at the row again before the call.         *)
NotCompletedYet(status) ==              \* mutant: a waived step is not passed over
    status \in {"pending", "not_applicable"}
MayComplete(status) == status = "pending"
MayReopen(k, status) == status = "completed" /\ k \in Reopenable

Sync(w) ==
    /\ pc[w] = "sync"
    /\ IF AtEnd(w)
       THEN GoTo(w, "idle") /\ Forget(w)
       ELSE LET k == CurrentKey(w)
                status == run[w].rows[k]
            IN  IF isComplete[k] = "yes" /\ MayComplete(status)
                THEN GoTo(w, "complete") /\ UNCHANGED run
                ELSE IF isComplete[k] = "no" /\ MayReopen(k, status)
                THEN GoTo(w, "still_due") /\ UNCHANGED run
                ELSE Compared(w) /\ UNCHANGED pc
    /\ UNCHANGED <<checklist, facts, heard, outside>>

(* _still_due, evaluated after complete_when.                              *)
DueAnyway(k) == TRUE                    \* mutant: should_seed is not tested
Due(k) == shouldSeed[k]

StillDue(w) ==
    /\ pc[w] = "still_due"
    /\ IF Due(CurrentKey(w))
       THEN GoTo(w, "reopen") /\ UNCHANGED run
       ELSE GoTo(w, "sync") /\ Compared(w)
    /\ UNCHANGED <<checklist, facts, heard, outside>>

Complete(w) ==
    /\ pc[w] = "complete"
    /\ CompleteStep(run[w].rec, CurrentKey(w))
    /\ Compared(w)
    /\ GoTo(w, "sync")
    /\ Told(w)
    /\ UNCHANGED <<facts, outside>>

Reopen(w) ==
    LET r == run[w].rec
        k == CurrentKey(w)
    IN  /\ pc[w] = "reopen"
        /\ \/ ReopenStep(r, k)
           \/ ~CanReopen(steps[r][k].status) /\ UNCHANGED checklist
        /\ Compared(w)
        /\ GoTo(w, "sync")
        /\ Told(w)
        /\ UNCHANGED <<facts, outside>>

RunStep(w) ==
    \/ Ensure(w)
    \/ Snapshot(w)
    \/ Seed(w)
    \/ Add(w)
    \/ Sync(w)
    \/ StillDue(w)
    \/ Complete(w)
    \/ Reopen(w)

-----------------------------------------------------------------------------
(* Changes that come from elsewhere.                                       *)
Outside ==
    /\ outside < MaxOutside
    /\ outside' = outside + 1
    /\ heard' = [w \in Worker |-> {"outside"}]
    /\ UNCHANGED <<pc, run>>

(* The data the predicates read: registrations, forms, consents.           *)
FactsChange(k) ==
    /\ \E v \in Verdict, s \in BOOLEAN :
        /\ isComplete' = [isComplete EXCEPT ![k] = v]
        /\ shouldSeed' = [shouldSeed EXCEPT ![k] = s]
    /\ isComplete' \in Facts
    /\ Outside
    /\ UNCHANGED checklist

(* A handler, a command or staff uses a helper on its own.                 *)
HandlerAdds(r, k, s) == AddStep(r, k, s) /\ Outside /\ UNCHANGED facts
HandlerCompletes(r, k) == CompleteStep(r, k) /\ Outside /\ UNCHANGED facts
StaffWaives(r, k) == MarkNotApplicable(r, k) /\ Outside /\ UNCHANGED facts

RecalcStep ==
    \/ \E w \in Worker : RunStep(w)
    \/ \E w \in Worker, r \in Record, create \in BOOLEAN : Start(w, r, create)
    \/ \E k \in Registered : FactsChange(k)
    \/ \E r \in Record, k \in Key, s \in Status : HandlerAdds(r, k, s)
    \/ \E r \in Record, k \in Key : HandlerCompletes(r, k)
    \/ \E r \in Record, k \in Key : StaffWaives(r, k)

RecalcNext == RecalcStep /\ Remember

RecalcSpec == RecalcInit /\ [][RecalcNext]_allVars

-----------------------------------------------------------------------------
RunTypeOK ==
    /\ TypeOK
    /\ isComplete \in Facts
    /\ shouldSeed \in [Registered -> BOOLEAN]
    /\ pc \in [Worker -> Phase]
    /\ run \in [Worker -> [rec : Record, create : BOOLEAN,
                           rows : [Registered -> KnownStatus], step : Nat]]
    /\ \A w \in Worker :
        /\ Position(w) \in 1 .. Len(AllSteps) + 1
        /\ pc[w] \in {"add", "still_due", "complete", "reopen"} => ~AtEnd(w)
    /\ heard \in [Worker -> {{}, {"run"}, {"stale"}, {"outside"}}]

RecalcTypeOK == RunTypeOK /\ waived \in [Worker -> SUBSET Registered]

(* In line with the predicates, as recalculate's docstring defines it: no  *)
(* due step is missing, no pending step's complete_when holds, and no      *)
(* completed step that may be reopened and is still due has lost its.      *)
InLine(r) ==
    \A k \in Registered :
        LET status == steps[r][k].status IN
        /\ status = "absent" => ~shouldSeed[k]
        /\ status = "pending" => isComplete[k] # "yes"
        /\ status = "completed" /\ k \in Reopenable /\ shouldSeed[k] =>
               isComplete[k] # "no"

Finished(w) == pc[w] = "idle"

(* A run that nothing disturbed brings the checklist in line ("Bring the   *)
(* student's checklist ... in line with the registered step predicates",   *)
(* api.py recalculate), unless create is off and there is no record.       *)
QuietRunBringsInLine ==
    \A w \in Worker :
        Finished(w) /\ heard[w] = {} =>
            IF Exists(run[w].rec) THEN InLine(run[w].rec) ELSE ~run[w].create

(* Recalculation is idempotent: an undisturbed run that meets a checklist  *)
(* in line calls no helper on it (tests.py, "second" recalculation).       *)
QuietRunKeepsLine ==
    [][\A w \in Worker :
          heard[w] = {} /\ pc[w] \in {"add", "complete", "reopen"} =>
              ~InLine(run[w].rec)]_allVars

(* "not_applicable steps ... are left alone" (api.py:187): a step that was *)
(* waived before the run began, and has stayed so, is not written by it,   *)
(* however old its snapshot is and whatever runs, handlers and staff do to *)
(* the other steps meanwhile.                                              *)
EarlierWaiversKept ==
    [][\A w \in Worker : pc'[w] # pc[w] =>
          \A k \in waived[w] :
              steps'[run[w].rec][k] = steps[run[w].rec][k]]_allVars

(* The same of every waived step, also one waived after the snapshot.      *)
WaivedLeftAlone ==
    [][\A w \in Worker, r \in Record, k \in Key :
          pc[w] = "complete" /\ pc'[w] = "sync"
          /\ steps[r][k].status = "not_applicable"
              => steps'[r][k].status = "not_applicable"]_allVars

(* "Bring the student's checklist ... in line with the registered step     *)
(* predicates" (api.py:180): once every run has ended, a record is in line *)
(* if a run on it began after the last outside change and since then only  *)
(* such runs have written, however they overlapped.                        *)
OverlappingRunsBringInLine ==
    (\A w \in Worker : Finished(w)) =>
        \A w \in Worker :
            heard[w] \subseteq {"run"} /\ Exists(run[w].rec) => InLine(run[w].rec)

(* The same if an older run has written since: it must not undo the newer. *)
LastRunBringsInLine ==
    (\A w \in Worker : Finished(w)) =>
        \A w \in Worker :
            "outside" \notin heard[w] /\ Exists(run[w].rec) => InLine(run[w].rec)
=============================================================================
