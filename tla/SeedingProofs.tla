----------------------------- MODULE SeedingProofs -----------------------------
(***************************************************************************)
(* Theorems about Seeding, for all students, terms, predicates and events  *)
(* beside the command, every finite set of keys and every bound on the     *)
(* clock.                                                                  *)
(***************************************************************************)
EXTENDS Seeding, ChecklistProofs

RunType ==
    [term : Term, registry : SUBSET Key, todo : SUBSET Student,
     current : SUBSET Student, keys : SUBSET Key, processed : SUBSET Student,
     full : BOOLEAN, split : BOOLEAN]

(* The types, with the command's locals: one student at a time, and none   *)
(* between two runs.                                                       *)
TypeInv ==
    /\ TypeOK
    /\ active \in Term
    /\ registered \subseteq Key /\ run.registry \subseteq registered
    /\ isComplete \in [Record -> SUBSET Predicated]
    /\ pc \in {"idle", "next", "dispatch", "premark", "finished"}
    /\ run \in RunType
    /\ IF pc \in {"dispatch", "premark"} THEN \E s \in Student : run.current = {s}
                                         ELSE run.current = {}
    /\ run.keys \subseteq run.registry
    /\ run.todo \intersect (run.current \union run.processed) = {}
    /\ pc = "idle" => run = NoRun(run.term)
    /\ existed \subseteq Started

(* While the active term stays it is the command's, and the students it    *)
(* has still to process had no record when it began.                       *)
TermInv ==
    ~run.split =>
        /\ pc # "idle" => run.term = active
        /\ \A s \in run.todo \union run.current : <<s, run.term>> \notin existed

(* A step that has been handled is there, in some term and, while the      *)
(* active term stays, in the command's; one found complete is done.        *)
Somewhere(s, k) == \E t \in Term : steps[<<s, t>>][k].status # "absent"
Seeded(s, k) == ~run.split => steps[<<s, run.term>>][k].status # "absent"
Marked(s, k) ==
    ~run.split /\ k \in isComplete[<<s, run.term>>] =>
        steps[<<s, run.term>>][k].status \in DoneStatus

CurrentInv ==
    \A s \in run.current, k \in run.registry :
        /\ pc = "premark" \/ k \notin run.keys => Somewhere(s, k) /\ Seeded(s, k)
        /\ pc = "premark" /\ k \notin run.keys => Marked(s, k)
ProcessedInv ==
    \A s \in run.processed, k \in run.registry :
        Somewhere(s, k) /\ Seeded(s, k) /\ Marked(s, k)

SeedInv == TypeInv /\ TermInv /\ CurrentInv /\ ProcessedInv

-----------------------------------------------------------------------------
(* What the command and its surroundings do to the checklists.             *)

LEMMA RecordOf == \A s \in Student, t \in Term : <<s, t>> \in Record
  BY RecordAssumption

(* No step is lost and none that is done is opened again: nobody here      *)
(* calls reopen_step.                                                      *)
Grown ==
    \A r \in Record, k \in Key :
        /\ steps[r][k].status # "absent" => steps'[r][k].status # "absent"
        /\ steps[r][k].status \in DoneStatus => steps'[r][k].status \in DoneStatus

HelperStep ==
    \/ \E r \in Record : GetOrCreate(r)
    \/ \E r \in Record, k \in Key : AddStep(r, k, "pending")
    \/ \E r \in Record, k \in Key, s \in DoneStatus : TransitionStep(r, k, s)
    \/ Tick
    \/ UNCHANGED checklist

LEMMA HelperStepIsNext == HelperStep => [Next]_vars
  BY DEF HelperStep, Next, checklist, vars, Status, DoneStatus, CompleteStep, MarkNotApplicable

LEMMA HelpersGrow ==
    ASSUME TypeOK, HelperStep
    PROVE  Grown
  <1>1. ASSUME NEW q \in Record, NEW j \in Key, WritesStep(q, j),
               steps'[q][j].status \in DoneStatus \/ steps[q][j].status = "absent",
               steps'[q][j].status # "absent"
        PROVE  Grown
    BY <1>1 DEF Grown, WritesStep, Leaves, DoneStatus
  <1>2. ASSUME NEW q \in Record, NEW j \in Key, AddStep(q, j, "pending") PROVE Grown
    BY <1>1, <1>2, AddEffect DEF Status
  <1>3. ASSUME NEW q \in Record, NEW j \in Key, NEW s \in DoneStatus, TransitionStep(q, j, s)
        PROVE  Grown
    BY <1>1, <1>3, TransitionEffect DEF DoneStatus
  <1>4. CASE steps' = steps
    BY <1>4 DEF Grown
  <1> QED
    BY <1>2, <1>3, <1>4 DEF HelperStep, GetOrCreate, Tick, checklist

LEMMA SeedNextHelps ==
    ASSUME TypeInv, SeedNext
    PROVE  HelperStep
  <1>1. active \in Term
    BY DEF TypeInv
  <1>2. ASSUME NEW s \in Student, NEW k \in Key, HandlerSeeds(s, k) PROVE HelperStep
    BY <1>1, <1>2, RecordOf DEF HandlerSeeds, HelperStep
  <1>3. ASSUME NEW s \in Student, NEW k \in Key, Premark(s, k) PROVE HelperStep
    BY <1>1, <1>3, RecordOf DEF Premark, HelperStep, CompleteStep, DoneStatus
  <1>4. ASSUME NEW s \in Student, Visit(s) PROVE HelperStep
    BY <1>1, <1>4, RecordOf DEF Visit, HelperStep
  <1>5. ASSUME NEW s \in Student, NEW k \in Key, EventSeeds(s, k) PROVE HelperStep
    BY <1>1, <1>5, RecordOf DEF EventSeeds, HelperStep
  <1>6. ASSUME NEW r \in Record, NEW k \in Key, StaffWaives(r, k) PROVE HelperStep
    BY <1>6 DEF StaffWaives, HelperStep, MarkNotApplicable, DoneStatus
  <1>7. ASSUME NEW s \in Student, NextStudent(s) PROVE HelperStep
    BY <1>7 DEF NextStudent, HelperStep
  <1>8. ASSUME NEW k \in Key, Deploy(k) PROVE HelperStep
    BY <1>8 DEF Deploy, HelperStep
  <1>9. CASE Start \/ Dispatched \/ StudentDone \/ Finish \/ Exit \/ Die \/ Rollover
    BY <1>9 DEF Start, Dispatched, StudentDone, Finish, Exit, Die, Rollover, HelperStep
  <1>10. CASE ClockTicks
    BY <1>10 DEF ClockTicks, HelperStep
  <1> QED
    BY <1>2, <1>3, <1>4, <1>5, <1>6, <1>7, <1>8, <1>9, <1>10 DEF SeedNext, Command

(* Typed rows stay typed, records and steps stay, finished work too.       *)
LEMMA ChecklistsGrow ==
    ASSUME TypeInv, SeedNext
    PROVE  TypeOK' /\ Grown /\ Started \subseteq Started'
  <1>1. TypeOK /\ HelperStep /\ [Next]_vars
    BY SeedNextHelps, HelperStepIsNext DEF TypeInv
  <1>2. Started \subseteq Started'
    BY <1>1, RowsStay DEF Started, Exists
  <1> QED
    BY <1>1, <1>2, StepTyped, HelpersGrow

(* What has been achieved for a student lasts as long as the run.          *)
LEMMA AchievementsLast ==
    ASSUME TypeInv, Grown, run'.term = run.term, isComplete' = isComplete,
           run.split => run'.split, NEW s \in Student, NEW k \in Key
    PROVE  /\ Somewhere(s, k) => Somewhere(s, k)'
           /\ Seeded(s, k) => Seeded(s, k)'
           /\ Marked(s, k) => Marked(s, k)'
  <1>1. run.term \in Term
    BY DEF TypeInv, RunType
  <1> QED
    BY <1>1, RecordOf DEF Grown, Somewhere, Seeded, Marked

-----------------------------------------------------------------------------
(* Each step of the command keeps the invariant.                           *)

LEMMA StartKeeps ==
    ASSUME SeedInv, Start
    PROVE  SeedInv'
  <1>1. TypeOK' /\ active \in Term /\ registered \subseteq Key
    BY ChecklistsGrow DEF SeedInv, TypeInv, SeedNext, Command
  <1>2. PICK chosen \in SUBSET Remaining(active) :
            run' = [NoRun(active) EXCEPT !.registry = registered, !.todo = chosen,
                                         !.full = (chosen = Remaining(active))]
    BY DEF Start
  <1>3. /\ pc' = "next" /\ existed' = Started
        /\ active' = active /\ registered' = registered /\ isComplete' = isComplete
        /\ Started' = Started
    BY DEF Start, world, checklist, Started, Exists
  <1>4. \A s \in chosen : s \in Student /\ <<s, active>> \notin Started
    BY <1>2 DEF Remaining, Started
  <1>5. run' = [term |-> active, registry |-> registered, todo |-> chosen,
                current |-> {}, keys |-> {}, processed |-> {},
                full |-> (chosen = Remaining(active)), split |-> FALSE]
    BY <1>2 DEF NoRun
  <1>6. TypeInv'
    BY <1>1, <1>3, <1>4, <1>5 DEF TypeInv, SeedInv, RunType
  <1>7. TermInv'
    BY <1>3, <1>4, <1>5 DEF TermInv
  <1>8. CurrentInv' /\ ProcessedInv'
    BY <1>5 DEF CurrentInv, ProcessedInv
  <1> QED
    BY <1>6, <1>7, <1>8 DEF SeedInv

(* The run is over, by exit or by death.                                   *)
LEMMA EndKeeps ==
    ASSUME SeedInv, Exit \/ Die
    PROVE  SeedInv'
  <1>1. TypeOK' /\ active \in Term /\ registered \subseteq Key
    BY ChecklistsGrow DEF SeedInv, TypeInv, SeedNext, Command
  <1>2. /\ pc' = "idle" /\ run' = NoRun(active) /\ existed' = existed
        /\ active' = active /\ registered' = registered /\ isComplete' = isComplete
        /\ Started' = Started
    BY DEF Exit, Die, world, checklist, Started, Exists
  <1>3. TypeInv'
    BY <1>1, <1>2 DEF TypeInv, SeedInv, RunType, NoRun
  <1>4. TermInv' /\ CurrentInv' /\ ProcessedInv'
    BY <1>2 DEF TermInv, CurrentInv, ProcessedInv, NoRun
  <1> QED
    BY <1>3, <1>4 DEF SeedInv

(* Nothing is lost of the students processed before.                       *)
LEMMA ProcessedKept ==
    ASSUME SeedInv, SeedNext, isComplete' = isComplete, run'.term = run.term,
           run'.registry = run.registry, run.split => run'.split
    PROVE  \A s \in run.processed, k \in run.registry :
               Somewhere(s, k)' /\ Seeded(s, k)' /\ Marked(s, k)'
  <1>1. Grown /\ TypeInv
    BY ChecklistsGrow DEF SeedInv
  <1>2. run.processed \subseteq Student /\ run.registry \subseteq Key
    BY <1>1 DEF TypeInv, RunType
  <1> QED
    BY <1>1, <1>2, AchievementsLast DEF SeedInv, ProcessedInv

LEMMA NextStudentKeeps ==
    ASSUME SeedInv, NEW s \in Student, NextStudent(s)
    PROVE  SeedInv'
  <1>1. /\ SeedNext /\ TypeOK' /\ Started \subseteq Started'
    BY ChecklistsGrow DEF SeedInv, SeedNext, Command
  <1>2. /\ run' = [run EXCEPT !.todo = run.todo \ {s}, !.current = {s}, !.keys = run.registry]
        /\ s \in run.todo /\ run \in RunType /\ pc = "next" /\ pc' = "dispatch"
        /\ active' = active /\ registered' = registered /\ isComplete' = isComplete
        /\ existed' = existed
    BY DEF NextStudent, StepsToSeed, world, SeedInv, TypeInv
  <1>3. /\ run'.term = run.term /\ run'.registry = run.registry
        /\ run'.split = run.split /\ run'.processed = run.processed
        /\ run'.todo = run.todo \ {s} /\ run'.current = {s} /\ run'.keys = run.registry
        /\ run' \in RunType
    BY <1>2 DEF RunType
  <1>4. TypeInv'
    BY <1>1, <1>2, <1>3 DEF TypeInv, SeedInv
  <1>5. TermInv'
    BY <1>2, <1>3 DEF TermInv, SeedInv
  <1>6. CurrentInv'
    BY <1>2, <1>3 DEF CurrentInv
  <1>7. ProcessedInv'
    BY <1>1, <1>2, <1>3, ProcessedKept DEF ProcessedInv
  <1> QED
    BY <1>4, <1>5, <1>6, <1>7 DEF SeedInv

LEMMA HandlerSeedsKeeps ==
    ASSUME SeedInv, NEW s \in Student, NEW k \in Key, HandlerSeeds(s, k)
    PROVE  SeedInv'
  <1>1. /\ SeedNext /\ TypeOK' /\ Grown /\ Started \subseteq Started' /\ TypeInv
    BY ChecklistsGrow DEF SeedInv, SeedNext, Command
  <1>2. /\ run' = [run EXCEPT !.keys = run.keys \ {k}]
        /\ s \in run.current /\ k \in run.keys /\ run \in RunType
        /\ pc = "dispatch" /\ pc' = "dispatch"
        /\ active' = active /\ registered' = registered /\ isComplete' = isComplete
        /\ existed' = existed
    BY DEF HandlerSeeds, world, SeedInv, TypeInv
  <1>3. /\ run'.term = run.term /\ run'.registry = run.registry
        /\ run'.split = run.split /\ run'.processed = run.processed
        /\ run'.todo = run.todo /\ run'.current = run.current /\ run'.keys = run.keys \ {k}
        /\ run' \in RunType
    BY <1>2 DEF RunType
  <1>4. TypeInv'
    BY <1>1, <1>2, <1>3 DEF TypeInv, SeedInv
  <1>5. TermInv'
    BY <1>2, <1>3 DEF TermInv, SeedInv
  <1>6. steps'[<<s, active>>][k].status # "absent"
    <2>1. <<s, active>> \in Record /\ TypeOK
      BY <1>1, RecordOf DEF TypeInv
    <2> QED
      BY <1>2, <2>1, AddEffect DEF HandlerSeeds, Status, checklist
  <1>7. Somewhere(s, k)' /\ Seeded(s, k)'
    BY <1>1, <1>2, <1>3, <1>6 DEF Somewhere, Seeded, SeedInv, TermInv, TypeInv
  <1>8. CurrentInv'
    <2> SUFFICES ASSUME NEW q \in run.current, NEW j \in run.registry, j \notin run'.keys
                 PROVE  Somewhere(q, j)' /\ Seeded(q, j)'
      BY <1>2, <1>3 DEF CurrentInv
    <2>1. q = s /\ q \in Student /\ j \in Key
      BY <1>1, <1>2 DEF TypeInv, RunType
    <2>2. CASE j = k
      BY <1>7, <2>1, <2>2
    <2>3. CASE j # k
      <3>1. Somewhere(q, j) /\ Seeded(q, j)
        BY <1>3, <2>3 DEF SeedInv, CurrentInv
      <3> QED
        BY <1>1, <1>2, <1>3, <2>1, <3>1, AchievementsLast
    <2> QED
      BY <2>2, <2>3
  <1>9. ProcessedInv'
    BY <1>1, <1>2, <1>3, ProcessedKept DEF ProcessedInv
  <1> QED
    BY <1>4, <1>5, <1>8, <1>9 DEF SeedInv

(* A key without a complete_when is never found complete.                  *)
LEMMA DispatchedKeeps ==
    ASSUME SeedInv, Dispatched
    PROVE  SeedInv'
  <1>1. /\ SeedNext /\ TypeOK' /\ Grown /\ Started \subseteq Started' /\ TypeInv
    BY ChecklistsGrow DEF SeedInv, SeedNext, Command
  <1>2. /\ run' = [run EXCEPT !.keys = run.registry \intersect Predicated]
        /\ run.keys = {} /\ run \in RunType
        /\ pc = "dispatch" /\ pc' = "premark"
        /\ active' = active /\ registered' = registered /\ isComplete' = isComplete
        /\ existed' = existed
    BY DEF Dispatched, world, SeedInv, TypeInv
  <1>3. /\ run'.term = run.term /\ run'.registry = run.registry
        /\ run'.split = run.split /\ run'.processed = run.processed
        /\ run'.todo = run.todo /\ run'.current = run.current
        /\ run'.keys = run.registry \intersect Predicated
        /\ run' \in RunType
    BY <1>2 DEF RunType
  <1>4. TypeInv'
    BY <1>1, <1>2, <1>3 DEF TypeInv, SeedInv
  <1>5. TermInv'
    BY <1>2, <1>3 DEF TermInv, SeedInv
  <1>6. CurrentInv'
    <2> SUFFICES ASSUME NEW q \in run.current, NEW j \in run.registry
                 PROVE  /\ Somewhere(q, j)' /\ Seeded(q, j)'
                        /\ j \notin Predicated => Marked(q, j)'
      BY <1>2, <1>3 DEF CurrentInv
    <2>1. q \in Student /\ j \in Key /\ run.term \in Term
      BY <1>1 DEF TypeInv, RunType
    <2>2. Somewhere(q, j) /\ Seeded(q, j)
      BY <1>2 DEF SeedInv, CurrentInv
    <2>3. j \notin Predicated => Marked(q, j)'
      BY <1>1, <1>2, <1>3, <2>1, RecordOf DEF Marked, TypeInv
    <2> QED
      BY <1>1, <1>2, <1>3, <2>1, <2>2, <2>3, AchievementsLast
  <1>7. ProcessedInv'
    BY <1>1, <1>2, <1>3, ProcessedKept DEF ProcessedInv
  <1> QED
    BY <1>4, <1>5, <1>6, <1>7 DEF SeedInv

LEMMA PremarkKeeps ==
    ASSUME SeedInv, NEW s \in Student, NEW k \in Key, Premark(s, k)
    PROVE  SeedInv'
  <1>1. /\ SeedNext /\ TypeOK' /\ Grown /\ Started \subseteq Started' /\ TypeInv
    BY ChecklistsGrow DEF SeedInv, SeedNext, Command
  <1>2. /\ run' = [run EXCEPT !.keys = run.keys \ {k}]
        /\ s \in run.current /\ k \in run.keys /\ run \in RunType
        /\ pc = "premark" /\ pc' = "premark"
        /\ active' = active /\ registered' = registered /\ isComplete' = isComplete
        /\ existed' = existed
    BY DEF Premark, world, SeedInv, TypeInv
  <1>3. /\ run'.term = run.term /\ run'.registry = run.registry
        /\ run'.split = run.split /\ run'.processed = run.processed
        /\ run'.todo = run.todo /\ run'.current = run.current /\ run'.keys = run.keys \ {k}
        /\ run' \in RunType
    BY <1>2 DEF RunType
  <1>4. TypeInv'
    BY <1>1, <1>2, <1>3 DEF TypeInv, SeedInv
  <1>5. TermInv'
    BY <1>2, <1>3 DEF TermInv, SeedInv
  <1>6. Marked(s, k)'
    <2> SUFFICES ASSUME ~run.split, k \in isComplete[<<s, run.term>>]
                 PROVE  steps'[<<s, run.term>>][k].status \in DoneStatus
      BY <1>2, <1>3 DEF Marked
    <2>1. run.term = active /\ <<s, active>> \in Record /\ TypeOK
      BY <1>1, <1>2, RecordOf DEF SeedInv, TermInv, TypeInv
    <2>2. k \in run.registry /\ steps[<<s, active>>][k].status # "absent"
      BY <1>1, <1>2, <2>1 DEF SeedInv, CurrentInv, Seeded, TypeInv
    <2>3. CompleteStep(<<s, active>>, k)
      BY <2>1, <2>2 DEF Premark, IsDone
    <2> QED
      BY <2>1, <2>3, TransitionEffect DEF CompleteStep, DoneStatus
  <1>7. CurrentInv'
    <2> SUFFICES ASSUME NEW q \in run.current, NEW j \in run.registry
                 PROVE  /\ Somewhere(q, j)' /\ Seeded(q, j)'
                        /\ j \notin run'.keys => Marked(q, j)'
      BY <1>2, <1>3 DEF CurrentInv
    <2>1. q = s /\ q \in Student /\ j \in Key
      BY <1>1, <1>2 DEF TypeInv, RunType
    <2>2. Somewhere(q, j) /\ Seeded(q, j) /\ (j \notin run.keys => Marked(q, j))
      BY <1>2 DEF SeedInv, CurrentInv
    <2>3. j \notin run'.keys => Marked(q, j)'
      <3>1. CASE j = k
        BY <1>6, <2>1, <3>1
      <3>2. CASE j # k
        BY <1>1, <1>2, <1>3, <2>1, <2>2, <3>2, AchievementsLast
      <3> QED
        BY <3>1, <3>2
    <2> QED
      BY <1>1, <1>2, <1>3, <2>1, <2>2, <2>3, AchievementsLast
  <1>8. ProcessedInv'
    BY <1>1, <1>2, <1>3, ProcessedKept DEF ProcessedInv
  <1> QED
    BY <1>4, <1>5, <1>7, <1>8 DEF SeedInv

LEMMA StudentDoneKeeps ==
    ASSUME SeedInv, StudentDone
    PROVE  SeedInv'
  <1>1. /\ SeedNext /\ TypeOK' /\ Grown /\ Started \subseteq Started' /\ TypeInv
    BY ChecklistsGrow DEF SeedInv, SeedNext, Command
  <1>2. /\ run' = [run EXCEPT !.current = {}, !.processed = run.processed \union run.current]
        /\ run.keys = {} /\ run \in RunType
        /\ pc = "premark" /\ pc' = "next"
        /\ active' = active /\ registered' = registered /\ isComplete' = isComplete
        /\ existed' = existed
    BY DEF StudentDone, world, SeedInv, TypeInv
  <1>3. /\ run'.term = run.term /\ run'.registry = run.registry
        /\ run'.split = run.split /\ run'.todo = run.todo
        /\ run'.processed = run.processed \union run.current
        /\ run'.current = {} /\ run'.keys = run.keys
        /\ run' \in RunType
    BY <1>2 DEF RunType
  <1>4. TypeInv'
    BY <1>1, <1>2, <1>3 DEF TypeInv, SeedInv
  <1>5. TermInv'
    BY <1>2, <1>3 DEF TermInv, SeedInv
  <1>6. CurrentInv'
    BY <1>3 DEF CurrentInv
  <1>7. \A q \in run.current, j \in run.registry :
            Somewhere(q, j)' /\ Seeded(q, j)' /\ Marked(q, j)'
    <2>1. run.current \subseteq Student /\ run.registry \subseteq Key
      BY <1>1 DEF TypeInv, RunType
    <2>2. \A q \in run.current, j \in run.registry :
              Somewhere(q, j) /\ Seeded(q, j) /\ Marked(q, j)
      BY <1>2 DEF SeedInv, CurrentInv
    <2> QED
      BY <1>1, <1>2, <1>3, <2>1, <2>2, AchievementsLast
  <1>8. ProcessedInv'
    BY <1>1, <1>2, <1>3, <1>7, ProcessedKept DEF ProcessedInv
  <1> QED
    BY <1>4, <1>5, <1>6, <1>8 DEF SeedInv

(* What goes on beside the command, and its finish.                        *)
LEMMA AroundKeeps ==
    ASSUME SeedInv, SeedNext, TypeOK', active' \in Term,
           pc' = pc \/ (pc = "next" /\ pc' = "finished"),
           registered \subseteq registered', registered' \subseteq Key,
           isComplete' = isComplete, existed' = existed,
           \/ run' = run /\ active' = active
           \/ run' = [run EXCEPT !.split = run.split \/ pc # "idle"]
    PROVE  SeedInv'
  <1>1. Grown /\ Started \subseteq Started' /\ TypeInv /\ run \in RunType
    BY ChecklistsGrow DEF SeedInv, TypeInv
  <1>2. /\ run'.term = run.term /\ run'.registry = run.registry
        /\ run'.todo = run.todo /\ run'.current = run.current
        /\ run'.keys = run.keys /\ run'.processed = run.processed
        /\ run' \in RunType
        /\ \/ run'.split = run.split /\ active' = active
           \/ run'.split = (run.split \/ pc # "idle")
    BY <1>1 DEF RunType
  <1>3. pc = "idle" => run' = NoRun(run'.term)
    BY <1>1, <1>2 DEF TypeInv, NoRun, RunType
  <1>4. TypeInv'
    BY <1>1, <1>2, <1>3 DEF TypeInv
  <1>5. run.split => run'.split
    BY <1>1, <1>2 DEF RunType
  <1>6. TermInv'
    BY <1>1, <1>2, <1>5 DEF SeedInv, TermInv, RunType, TypeInv
  <1>7. CurrentInv'
    <2> SUFFICES ASSUME NEW s \in run.current, NEW k \in run.registry
                 PROVE  /\ pc' = "premark" \/ k \notin run.keys
                               => Somewhere(s, k)' /\ Seeded(s, k)'
                        /\ pc' = "premark" /\ k \notin run.keys => Marked(s, k)'
      BY <1>2 DEF CurrentInv
    <2>1. s \in Student /\ k \in Key /\ pc' = pc
      BY <1>1 DEF TypeInv, RunType
    <2>2. /\ Somewhere(s, k) => Somewhere(s, k)'
          /\ Seeded(s, k) => Seeded(s, k)'
          /\ Marked(s, k) => Marked(s, k)'
      BY <1>1, <1>2, <1>5, <2>1, AchievementsLast
    <2> QED
      BY <2>1, <2>2 DEF SeedInv, CurrentInv
  <1>8. ProcessedInv'
    BY <1>2, <1>5, ProcessedKept DEF ProcessedInv
  <1> QED
    BY <1>4, <1>6, <1>7, <1>8 DEF SeedInv

LEMMA SeedInitial == SeedInit => SeedInv
  <1> SUFFICES ASSUME SeedInit PROVE SeedInv
    OBVIOUS
  <1>1. TypeOK
    BY InitTyped DEF SeedInit
  <1>2. TypeInv
    BY <1>1 DEF SeedInit, TypeInv, RunType, NoRun
  <1>3. TermInv /\ CurrentInv /\ ProcessedInv
    BY DEF SeedInit, NoRun, TermInv, CurrentInv, ProcessedInv
  <1> QED
    BY <1>2, <1>3 DEF SeedInv

LEMMA SeedInductive == SeedInv /\ [SeedNext]_allVars => SeedInv'
  <1> SUFFICES ASSUME SeedInv, SeedNext \/ UNCHANGED allVars PROVE SeedInv'
    OBVIOUS
  <1>1. /\ active \in Term /\ registered \subseteq Key
        /\ SeedNext => TypeOK'
    BY ChecklistsGrow DEF SeedInv, TypeInv
  <1>2. CASE Start
    BY <1>2, StartKeeps
  <1>3. CASE Exit \/ Die
    BY <1>3, EndKeeps
  <1>4. CASE Dispatched
    BY <1>4, DispatchedKeeps
  <1>5. CASE StudentDone
    BY <1>5, StudentDoneKeeps
  <1>6. ASSUME NEW s \in Student, NextStudent(s) PROVE SeedInv'
    BY <1>6, NextStudentKeeps
  <1>7. ASSUME NEW s \in Student, NEW k \in Key, HandlerSeeds(s, k) PROVE SeedInv'
    BY <1>7, HandlerSeedsKeeps
  <1>8. ASSUME NEW s \in Student, NEW k \in Key, Premark(s, k) PROVE SeedInv'
    BY <1>8, PremarkKeeps
  <1>9. CASE Finish
    BY <1>1, <1>9, AroundKeeps DEF Finish, world, SeedNext, Command
  <1>10. ASSUME NEW s \in Student, Visit(s) PROVE SeedInv'
    BY <1>1, <1>10, AroundKeeps DEF Visit, world, SeedNext
  <1>11. ASSUME NEW s \in Student, NEW k \in Key, EventSeeds(s, k) PROVE SeedInv'
    BY <1>1, <1>11, AroundKeeps DEF EventSeeds, world, SeedNext
  <1>12. ASSUME NEW r \in Record, NEW k \in Key, StaffWaives(r, k) PROVE SeedInv'
    BY <1>1, <1>12, AroundKeeps DEF StaffWaives, world, SeedNext
  <1>13. CASE Rollover
    BY <1>1, <1>13, AroundKeeps DEF Rollover, SeedNext
  <1>14. ASSUME NEW k \in Key, Deploy(k) PROVE SeedInv'
    BY <1>1, <1>14, AroundKeeps DEF Deploy, SeedNext
  <1>15. CASE ClockTicks
    BY <1>1, <1>15, AroundKeeps DEF ClockTicks, world, SeedNext
  <1>16. CASE UNCHANGED allVars
    BY <1>16 DEF allVars, SeedInv, TypeInv, TermInv, CurrentInv, ProcessedInv,
        Somewhere, Seeded, Marked, TypeOK, Passed, Started, Exists
  <1> QED
    BY <1>2, <1>3, <1>4, <1>5, <1>6, <1>7, <1>8, <1>9, <1>10, <1>11, <1>12,
       <1>13, <1>14, <1>15, <1>16 DEF SeedNext, Command

THEOREM SeedInvariant == SeedSpec => []SeedInv
  BY SeedInitial, SeedInductive, PTL DEF SeedSpec

-----------------------------------------------------------------------------
(* The command works on one student at a time, within the registry it      *)
(* started with, and the records that existed then still exist.            *)
THEOREM SeedTypeCorrect == SeedSpec => []SeedTypeOK
  <1>1. SeedInv => SeedTypeOK
    <2> SUFFICES ASSUME SeedInv PROVE SeedTypeOK
      OBVIOUS
    <2>1. Cardinality(run.current) = (IF pc \in {"dispatch", "premark"} THEN 1 ELSE 0)
      BY FS_EmptySet, FS_Singleton DEF SeedInv, TypeInv
    <2> QED
      BY <2>1 DEF SeedInv, TypeInv, SeedTypeOK, RunType
  <1> QED
    BY <1>1, SeedInvariant, PTL

(* A student the command has processed has every step the command knew,    *)
(* and those its predicates found complete are done, whatever happens      *)
(* beside it while the active term stays (seed_onboarding.py, handle).     *)
THEOREM ProcessedStaySeeded == SeedSpec => []ProcessedAreSeeded
  <1>1. SeedInv => ProcessedAreSeeded
    BY DEF SeedInv, ProcessedInv, Seeded, Marked, ProcessedAreSeeded
  <1> QED
    BY <1>1, SeedInvariant, PTL

(* Even if the active term changes between two calls of the command, no    *)
(* step of a processed student is lost: it is there in some term.          *)
THEOREM NoStepIsLost == SeedSpec => []NoStepLost
  <1>1. SeedInv => NoStepLost
    BY DEF SeedInv, ProcessedInv, Somewhere, NoStepLost
  <1> QED
    BY <1>1, SeedInvariant, PTL

(* "Safe to re-run" (README.md:362): the command changes no record that    *)
(* was there when its run began.                                           *)
THEOREM RerunIsSafe == SeedSpec => RerunLeavesRecordsAlone
  <1> DEFINE Alone == \A r \in existed :
                 CommandStep /\ ~run.split =>
                     onboarding'[r] = onboarding[r] /\ steps'[r] = steps[r]
  <1>1. SeedInv /\ SeedNext => Alone
    <2> SUFFICES ASSUME SeedInv, SeedNext, NEW r \in existed, CommandStep, ~run.split
                 PROVE  onboarding'[r] = onboarding[r] /\ steps'[r] = steps[r]
      OBVIOUS
    <2>1. TypeOK /\ active \in Term /\ r \in Record
      BY DEF SeedInv, TypeInv, Started
    <2>2. \A s \in run.current : <<s, active>> \notin existed
      BY DEF SeedInv, TermInv, CommandStep
    <2>3. ASSUME NEW s \in Student, NEW k \in Key, HandlerSeeds(s, k)
          PROVE  Leaves(r)
      <3>1. <<s, active>> \in Record \ {r}
        BY <2>1, <2>2, <2>3, RecordOf DEF HandlerSeeds
      <3> QED
        BY <2>1, <2>3, <3>1, AddEffect
        DEF HandlerSeeds, WritesStep, Leaves, Status, checklist
    <2>4. ASSUME NEW s \in Student, NEW k \in Key, Premark(s, k)
          PROVE  Leaves(r)
      <3>1. <<s, active>> \in Record \ {r}
        BY <2>1, <2>2, <2>4, RecordOf DEF Premark
      <3> QED
        BY <2>1, <2>4, <3>1, TransitionEffect
        DEF Premark, CompleteStep, WritesStep, Leaves, DoneStatus, checklist
    <2>5. (\E s \in Student : NextStudent(s)) \/ Start \/ Dispatched \/ StudentDone
              \/ Finish \/ Exit \/ Die \/ Rollover \/ (\E k \in Key : Deploy(k))
              => UNCHANGED checklist
      BY DEF NextStudent, Start, Dispatched, StudentDone, Finish, Exit, Die, Rollover, Deploy
    <2> QED
      BY <2>3, <2>4, <2>5
      DEF SeedNext, Command, CommandStep, Visit, EventSeeds, StaffWaives, ClockTicks,
          checklist, Leaves
  <1>2. SeedInv /\ UNCHANGED allVars => Alone
    BY DEF allVars
  <1>3. SeedInv /\ [SeedNext]_allVars => [Alone]_allVars
    BY <1>1, <1>2
  <1> QED
    BY <1>3, SeedInvariant, PTL DEF SeedSpec, RerunLeavesRecordsAlone
=============================================================================
