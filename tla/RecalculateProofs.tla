--------------------------- MODULE RecalculateProofs ---------------------------
(***************************************************************************)
(* Theorems about Recalculate, for every set of records, keys and workers, *)
(* every registry and every number of outside changes: what a run that no  *)
(* outside change disturbed does to its checklist, also when other such    *)
(* runs write to the same one, and what no run ever writes.                *)
(***************************************************************************)
EXTENDS Recalculate, ChecklistProofs, SequenceTheorems

-----------------------------------------------------------------------------
(* The inductive invariant.  A run speaks of the facts as they are now if  *)
(* no outside change came since it began; it can promise something of its  *)
(* checklist if all that wrote since then were such runs too.              *)
Current(w) == heard[w] # {"outside"}
Untold(w) == heard[w] \in {{}, {"run"}}

Active(w) == pc[w] \notin {"idle", "ensure"}
FirstLoop(w) == pc[w] \in {"seed", "add"}
SecondLoop(w) == pc[w] \in {"sync", "still_due", "complete", "reopen"}

(* The keys the loop the run is in has passed, those the first loop has    *)
(* passed, and those whose row the second loop has yet to compare.         *)
Behind(w) == {AllSteps[i] : i \in {j \in 1 .. Len(AllSteps) : j < Position(w)}}
Tried(w, k) == SecondLoop(w) \/ k \in Behind(w)
Ahead(w) == {k \in Registered : FirstLoop(w) \/ (SecondLoop(w) /\ k \notin Behind(w))}

KeyInLine(r, k) ==
    LET status == steps[r][k].status IN
    /\ status = "absent" => ~shouldSeed[k]
    /\ status = "pending" => isComplete[k] # "yes"
    /\ status = "completed" /\ k \in Reopenable /\ shouldSeed[k] =>
           isComplete[k] # "no"

(* How far the status the run knows of key k may differ from the row: not  *)
(* where the second loop would then leave the row out of line.             *)
KnowsEnough(w, k) ==
    LET status == steps[run[w].rec][k].status
        known  == run[w].rows[k]
    IN  /\ known # "absent" => status # "absent"
        /\ status = "absent" /\ Tried(w, k) => ~shouldSeed[k]
        /\ status = "pending" /\ isComplete[k] = "yes" =>
               \/ known = "pending"
               \/ known = "absent" /\ shouldSeed[k] /\ ~Tried(w, k)
        /\ status = "completed" /\ isComplete[k] = "no" /\ k \in Reopenable
               /\ shouldSeed[k] => known = "completed"

RunRight(w) ==
    /\ \A k \in Ahead(w) : KnowsEnough(w, k)
    /\ SecondLoop(w) => \A k \in Registered \cap Behind(w) : KeyInLine(run[w].rec, k)

(* What holds of every run, stale or not.                                  *)
PhaseInv(w) ==
    /\ Active(w) => Exists(run[w].rec)
    /\ pc[w] = "idle" => ~run[w].create
    /\ pc[w] = "snapshot" => Position(w) = 1
    /\ pc[w] = "add" => run[w].rows[CurrentKey(w)] = "absent"
    /\ pc[w] = "complete" => run[w].rows[CurrentKey(w)] = "pending"
    /\ pc[w] \in {"still_due", "reopen"} => run[w].rows[CurrentKey(w)] = "completed"
    /\ pc[w] \in {"complete", "still_due", "reopen"} => CurrentKey(w) \in Predicated
    /\ pc[w] \in {"still_due", "reopen"} => CurrentKey(w) \in Reopenable
    /\ SecondLoop(w) => \A k \in Registered \cap Behind(w) : run[w].rows[k] = "absent"

(* A decision a run has taken still agrees with the facts.                 *)
DecidedRight(w) ==
    /\ pc[w] \in {"add", "reopen"} => shouldSeed[CurrentKey(w)]
    /\ pc[w] = "complete" => isComplete[CurrentKey(w)] = "yes"
    /\ pc[w] \in {"still_due", "reopen"} => isComplete[CurrentKey(w)] = "no"

(* A run nobody disturbed knows the rows it has not compared.              *)
KnowsRows(w) ==
    \A k \in Ahead(w) : run[w].rows[k] = steps[run[w].rec][k].status

(* A run that met no record and ended leaves it to the one that creates it *)
(* to bring the checklist in line.                                         *)
TakenOver(r) ==
    \E v \in Worker : Active(v) /\ Current(v) /\ RunRight(v) /\ run[v].rec = r

RunInv(w) ==
    /\ PhaseInv(w)
    /\ Current(w) => DecidedRight(w)
    /\ Untold(w) =>
        /\ Active(w) => RunRight(w)
        /\ Finished(w) /\ Exists(run[w].rec) =>
               InLine(run[w].rec) \/ TakenOver(run[w].rec)
    /\ heard[w] = {} =>
        /\ KnowsRows(w)
        /\ Finished(w) /\ Exists(run[w].rec) => InLine(run[w].rec)

RecInv == RunTypeOK /\ \A w \in Worker : RunInv(w)

-----------------------------------------------------------------------------
(* Types.                                                                  *)
Locals == [rec : Record, create : BOOLEAN, rows : [Registered -> KnownStatus], step : Nat]
LocalsTyped(w) ==
    /\ run[w] \in Locals
    /\ Position(w) \in 1 .. Len(AllSteps) + 1
    /\ pc[w] \in Phase
    /\ pc[w] \in {"add", "still_due", "complete", "reopen"} => ~AtEnd(w)

(* The registered keys are keys, and the position of a run that has not    *)
(* ended its loop is that of one.                                          *)
LEMMA RegisteredKeys ==
    /\ Registered \subseteq Key /\ Len(AllSteps) \in Nat
    /\ \A i \in 1 .. Len(AllSteps) : AllSteps[i] \in Registered
  BY AllStepsAssumption DEF Registered

LEMMA TypedParts ==
    RunTypeOK <=>
        /\ TypeOK /\ isComplete \in Facts /\ shouldSeed \in [Registered -> BOOLEAN]
        /\ pc \in [Worker -> Phase] /\ run \in [Worker -> Locals]
        /\ heard \in [Worker -> {{}, {"run"}, {"stale"}, {"outside"}}]
        /\ \A w \in Worker : LocalsTyped(w)
  BY DEF RunTypeOK, LocalsTyped, Locals

LEMMA AtWork ==
    ASSUME NEW w \in Worker, LocalsTyped(w), ~AtEnd(w)
    PROVE  /\ CurrentKey(w) \in Registered /\ CurrentKey(w) \in Key
           /\ Position(w) \in 1 .. Len(AllSteps) /\ Position(w) + 1 \in 1 .. Len(AllSteps) + 1
  <1>1. Position(w) \in 1 .. Len(AllSteps)
    BY RegisteredKeys DEF LocalsTyped, AtEnd
  <1> QED
    BY <1>1, RegisteredKeys DEF CurrentKey

(* What the loops have behind them as a run moves on.                      *)
LEMMA BehindStart ==
    ASSUME NEW w \in Worker, Position(w) = 1
    PROVE  Behind(w) = {}
  BY RegisteredKeys DEF Behind

LEMMA BehindEnd ==
    ASSUME NEW w \in Worker, LocalsTyped(w), AtEnd(w)
    PROVE  Behind(w) = Registered
  BY RegisteredKeys DEF Behind, LocalsTyped, AtEnd, Registered

LEMMA BehindNext ==
    ASSUME NEW w \in Worker, LocalsTyped(w), ~AtEnd(w), Position(w)' = Position(w) + 1
    PROVE  Behind(w)' = Behind(w) \union {CurrentKey(w)}
  <1>1. Position(w) \in 1 .. Len(AllSteps)
    BY AtWork
  <1>2. \A j \in 1 .. Len(AllSteps) :
            j < Position(w) + 1 <=> j < Position(w) \/ j = Position(w)
    BY <1>1
  <1>3. Behind(w)' = {AllSteps[i] : i \in {j \in 1 .. Len(AllSteps) : j < Position(w) + 1}}
    BY DEF Behind
  <1> QED
    BY <1>1, <1>2, <1>3 DEF Behind, CurrentKey

-----------------------------------------------------------------------------
(* The locals of a run after each way of moving on.                        *)
Alone(w) == \A v \in Worker \ {w} : run'[v] = run[v]

LEMMA Forgets ==
    ASSUME RunTypeOK, NEW w \in Worker, Forget(w)
    PROVE  /\ run' \in [Worker -> Locals] /\ Alone(w)
           /\ run'[w].rec = run[w].rec /\ run'[w].create = FALSE /\ run'[w].step = 1
  <1>1. run \in [Worker -> Locals] /\ run[w].rec \in Record
    BY TypedParts DEF Locals
  <1>2. NoRun(run[w].rec) \in Locals
    BY <1>1 DEF NoRun, Locals, KnownStatus
  <1> QED
    BY <1>1, <1>2 DEF Forget, Alone, NoRun

LEMMA MovesOn ==
    ASSUME RunTypeOK, NEW w \in Worker, NextStep(w)
    PROVE  /\ run' \in [Worker -> Locals] /\ Alone(w)
           /\ run'[w] = [run[w] EXCEPT !.step = Position(w) + 1]
  <1>1. run \in [Worker -> Locals]
    BY TypedParts
  <1>2. run' = [run EXCEPT ![w] = [run[w] EXCEPT !.step = Position(w) + 1]]
    BY <1>1 DEF NextStep, Position
  <1>3. [run[w] EXCEPT !.step = Position(w) + 1] \in Locals
    BY <1>1 DEF Locals, Position
  <1> QED
    BY <1>1, <1>2, <1>3 DEF Alone

Notes(w, k, s) == run' = [run EXCEPT ![w].rows[k] = s, ![w].step = @ + 1]

LEMMA Records ==
    ASSUME RunTypeOK, NEW w \in Worker, NEW k \in Registered, NEW s \in KnownStatus,
           Notes(w, k, s)
    PROVE  /\ run' \in [Worker -> Locals] /\ Alone(w)
           /\ run'[w].rec = run[w].rec /\ run'[w].create = run[w].create
           /\ run'[w].step = Position(w) + 1
           /\ run'[w].rows = [run[w].rows EXCEPT ![k] = s]
  <1>1. run \in [Worker -> Locals] /\ run[w] \in Locals
    BY TypedParts
  <1> DEFINE After == [rec |-> run[w].rec, create |-> run[w].create,
                       rows |-> [run[w].rows EXCEPT ![k] = s], step |-> run[w].step + 1]
  <1>2. After \in Locals
    BY <1>1 DEF Locals
  <1>3. run' = [run EXCEPT ![w] = After]
    BY <1>1 DEF Locals, Notes
  <1> QED
    BY <1>1, <1>2, <1>3 DEF Alone, Position

-----------------------------------------------------------------------------
(* Who has heard what.                                                     *)
Heard == {{}, {"run"}, {"stale"}, {"outside"}}

LEMMA Marks ==
    /\ {"run"} # {} /\ {"stale"} # {} /\ {"outside"} # {}
    /\ {"run"} # {"stale"} /\ {"run"} # {"outside"} /\ {"stale"} # {"outside"}
  <1>1. "run" # "stale" /\ "run" # "outside" /\ "stale" # "outside"
    OBVIOUS
  <1>2. "run" \in {"run"} /\ "stale" \in {"stale"} /\ "outside" \in {"outside"}
    OBVIOUS
  <1>3. "run" \notin {} /\ "stale" \notin {} /\ "outside" \notin {}
        /\ "run" \notin {"stale"} /\ "run" \notin {"outside"} /\ "stale" \notin {"outside"}
    BY <1>1
  <1> QED
    BY <1>2, <1>3

LEMMA Telling ==
    ASSUME heard \in [Worker -> Heard], NEW w \in Worker, Told(w)
    PROVE  /\ heard' \in [Worker -> Heard] /\ heard'[w] = heard[w]
           /\ \A v \in Worker : Current(v)' <=> Current(v)
           /\ \A v \in Worker \ {w} :
                  \/ run[v].rec # run[w].rec /\ heard'[v] = heard[v]
                  \/ heard'[v] # {} /\ (Untold(v)' => Untold(v) /\ Current(w))
  BY Marks DEF Told, Stale, Heard, Current, Untold

-----------------------------------------------------------------------------
(* Every step is a step of one helper or leaves the checklists alone.      *)
RunWrites(w) ==
    LET r == run[w].rec
        k == CurrentKey(w)
    IN  \/ pc[w] = "ensure" /\ GetOrCreate(r)
        \/ pc[w] = "add" /\ AddStep(r, k, "pending")
        \/ pc[w] = "complete" /\ TransitionStep(r, k, "completed")
        \/ pc[w] = "reopen" /\ ReopenStep(r, k)

(* A step of a run changes its own locals, tells the others if it writes,  *)
(* and writes with one helper at most.                                     *)
LEMMA RunFrame ==
    ASSUME RunTypeOK, NEW w \in Worker, RunStep(w)
    PROVE  /\ UNCHANGED <<facts, outside>>
           /\ Alone(w) /\ \A v \in Worker \ {w} : pc'[v] = pc[v]
           /\ Told(w) \/ UNCHANGED <<checklist, heard>>
           /\ RunWrites(w) \/ UNCHANGED checklist
  <1>1. run \in [Worker -> Locals] /\ pc \in [Worker -> Phase] /\ LocalsTyped(w)
    BY TypedParts
  <1>2. CASE Ensure(w)
    BY <1>1, <1>2 DEF Ensure, GoTo, Forget, Alone, RunWrites, facts, checklist
  <1>3. CASE Snapshot(w)
    BY <1>1, <1>3 DEF Snapshot, GoTo, Alone, checklist, facts
  <1>4. CASE Seed(w)
    BY <1>1, <1>4 DEF Seed, GoTo, NextStep, Alone, checklist, facts
  <1>5. CASE Add(w)
    BY <1>1, <1>5 DEF Add, GoTo, Alone, RunWrites, checklist, facts
  <1>6. CASE Sync(w)
    BY <1>1, <1>6 DEF Sync, GoTo, Forget, Compared, Alone, checklist, facts
  <1>7. CASE StillDue(w)
    BY <1>1, <1>7 DEF StillDue, GoTo, Compared, Alone, checklist, facts
  <1>8. CASE Complete(w)
    BY <1>1, <1>8 DEF Complete, GoTo, Compared, Alone, RunWrites, CompleteStep, facts
  <1>9. CASE Reopen(w)
    BY <1>1, <1>9 DEF Reopen, GoTo, Compared, Alone, RunWrites, checklist, facts
  <1> QED
    BY <1>2, <1>3, <1>4, <1>5, <1>6, <1>7, <1>8, <1>9 DEF RunStep

LEMMA WritesAreHelpers ==
    ASSUME RunTypeOK, NEW w \in Worker, RunWrites(w)
    PROVE  Next
  <1>1. run[w].rec \in Record /\ LocalsTyped(w)
    BY TypedParts DEF Locals
  <1>2. pc[w] \in {"add", "complete", "reopen"} => CurrentKey(w) \in Key
    BY <1>1, AtWork DEF LocalsTyped
  <1> QED
    BY <1>1, <1>2 DEF RunWrites, Next, CompleteStep, Status

LEMMA StepsAreHelpers ==
    ASSUME RunTypeOK, RecalcStep
    PROVE  [Next]_vars
  <1>1. ASSUME NEW w \in Worker, RunStep(w) PROVE [Next]_vars
    BY <1>1, RunFrame, WritesAreHelpers DEF checklist, vars
  <1>2. ASSUME NEW w \in Worker, NEW r \in Record, NEW c \in BOOLEAN, Start(w, r, c)
        PROVE  [Next]_vars
    BY <1>2 DEF Start, checklist, vars
  <1>3. ASSUME NEW k \in Registered, FactsChange(k) PROVE [Next]_vars
    BY <1>3 DEF FactsChange, checklist, vars
  <1>4. ASSUME NEW r \in Record, NEW k \in Key, NEW s \in Status, HandlerAdds(r, k, s)
        PROVE  [Next]_vars
    BY <1>4 DEF HandlerAdds, Next
  <1>5. ASSUME NEW r \in Record, NEW k \in Key, HandlerCompletes(r, k) PROVE [Next]_vars
    BY <1>5 DEF HandlerCompletes, Next
  <1>6. ASSUME NEW r \in Record, NEW k \in Key, StaffWaives(r, k) PROVE [Next]_vars
    BY <1>6 DEF StaffWaives, Next
  <1> QED
    BY <1>1, <1>2, <1>3, <1>4, <1>5, <1>6 DEF RecalcStep

-----------------------------------------------------------------------------
(* Type correctness.                                                       *)
LEMMA SettledTyped ==
    ASSUME NEW ss \in [Key -> Birth]
    PROVE  /\ ss \in [Key -> StepRow] /\ Settled(ss) \in OnboardingRow
           /\ Settled(ss).started_on <= 1 /\ Settled(ss).completed_on <= 1
           /\ \A k \in Key : ss[k].completed_on <= 1
  <1>1. 1 \in Time
    BY MaxTimeAssumption DEF Time
  <1>2. Birth \subseteq StepRow /\ \A b \in Birth : b.completed_on \in {0, 1}
    BY <1>1, StepsTyped DEF Birth, StepRow, NoStep, StepBorn, Null
  <1> DEFINE Row == [NewOnboarding(1) EXCEPT !.total_steps = CountTotal(ss)]
  <1>3. Row \in OnboardingRow /\ Row.started_on = 1 /\ Row.completed_on = 0
    BY <1>1, NewRowTyped, CountsTyped DEF NewOnboarding, OnboardingRow, Timestamp, Null
  <1> HIDE DEF Row
  <1>4. RecountDone(Row, ss) \in OnboardingRow
        /\ RecountDone(Row, ss).started_on = 1 /\ RecountDone(Row, ss).completed_on = 0
    BY <1>3, RecountsTyped
  <1>5. LET all == RecomputeCompletion(RecountDone(Row, ss), 1)
        IN  /\ all \in OnboardingRow /\ all.started_on = 1
            /\ all.completed_on \in {0, 1}
    BY <1>1, <1>4, RecomputeTyped DEF Null
  <1>6. Settled(ss) = RecomputeCompletion(RecountDone(Row, ss), 1)
    BY DEF Settled, Row
  <1> QED
    BY <1>2, <1>5, <1>6

LEMMA RecalcInitTyped == RecalcInit => RunTypeOK
  <1> SUFFICES ASSUME RecalcInit PROVE RunTypeOK
    OBVIOUS
  <1>1. TypeOK
    <2>1. CASE Init
      BY <2>1, InitTyped
    <2>2. CASE /\ steps \in [Record -> [Key -> Birth]]
               /\ onboarding = [r \in Record |-> Settled(steps[r])]
               /\ now = 1
      <3>1. \A r \in Record :
                /\ steps[r] \in [Key -> StepRow] /\ onboarding[r] \in OnboardingRow
                /\ onboarding[r].started_on <= 1 /\ onboarding[r].completed_on <= 1
                /\ \A k \in Key : steps[r][k].completed_on <= 1
        BY <2>2, SettledTyped
      <3>2. now \in Time
        BY <2>2, MaxTimeAssumption DEF Time
      <3> QED
        BY <2>2, <3>1, <3>2 DEF TypeOK, Passed
    <2> QED
      BY <2>1, <2>2 DEF RecalcInit
  <1>2. PICK r \in Record : run = [w \in Worker |-> NoRun(r)]
    BY DEF RecalcInit
  <1>3. NoRun(r) \in Locals /\ NoRun(r).step = 1
    BY DEF NoRun, Locals, KnownStatus
  <1>4. \A w \in Worker : LocalsTyped(w)
    BY <1>2, <1>3, RegisteredKeys DEF LocalsTyped, Position, RecalcInit, Phase
  <1> QED
    BY <1>1, <1>2, <1>3, <1>4, TypedParts DEF RecalcInit, Phase

(* The locals of the run that steps stay typed.                            *)
LEMMA RunTyped ==
    ASSUME RunTypeOK, NEW w \in Worker, RunStep(w)
    PROVE  run' \in [Worker -> Locals] /\ LocalsTyped(w)' /\ pc' \in [Worker -> Phase]
  <1>1. /\ run \in [Worker -> Locals] /\ run[w] \in Locals
        /\ pc \in [Worker -> Phase] /\ LocalsTyped(w)
    BY TypedParts
  <1>2. Position(w) \in 1 .. Len(AllSteps) + 1 /\ 1 \in 1 .. Len(AllSteps) + 1
    BY <1>1, RegisteredKeys DEF LocalsTyped
  <1>3. ASSUME Forget(w), NEW phase \in {"idle", "snapshot"}, GoTo(w, phase)
        PROVE  run' \in [Worker -> Locals] /\ LocalsTyped(w)' /\ pc' \in [Worker -> Phase]
    BY <1>1, <1>2, <1>3, Forgets DEF LocalsTyped, GoTo, Position, Phase
  <1>4. ASSUME ~AtEnd(w), NEW s \in KnownStatus,
               Notes(w, CurrentKey(w), s),
               NEW phase \in {"seed", "sync"}, pc'[w] = phase, pc' \in [Worker -> Phase]
        PROVE  run' \in [Worker -> Locals] /\ LocalsTyped(w)' /\ pc' \in [Worker -> Phase]
    <2>1. CurrentKey(w) \in Registered /\ Position(w) + 1 \in 1 .. Len(AllSteps) + 1
      BY <1>1, <1>4, AtWork
    <2>2. run' \in [Worker -> Locals] /\ run'[w].step = Position(w) + 1
      BY <1>4, <2>1, Records
    <2> QED
      BY <1>4, <2>1, <2>2 DEF LocalsTyped, Position, Phase
  <1>5. ASSUME UNCHANGED run, NEW phase \in Phase, GoTo(w, phase),
               phase \in {"add", "still_due", "complete", "reopen"} => ~AtEnd(w)
        PROVE  run' \in [Worker -> Locals] /\ LocalsTyped(w)' /\ pc' \in [Worker -> Phase]
    BY <1>1, <1>2, <1>5 DEF LocalsTyped, Position, AtEnd, GoTo
  <1>6. CASE Ensure(w)
    BY <1>1, <1>3, <1>5, <1>6 DEF Ensure, Phase
  <1>7. CASE Snapshot(w)
    <2>1. run[w].rec \in Record
      BY <1>1 DEF Locals
    <2> DEFINE Known == [k \in Registered |-> steps[run[w].rec][k].status]
               After == [rec |-> run[w].rec, create |-> run[w].create,
                         rows |-> Known, step |-> run[w].step]
    <2>2. Known \in [Registered -> KnownStatus]
      BY <2>1, RegisteredKeys, TypedParts DEF TypeOK, StepRow, NoStep, KnownStatus
    <2>3. run' = [run EXCEPT ![w].rows = Known]
      BY <1>7 DEF Snapshot
    <2> HIDE DEF Known
    <2>4. [run[w] EXCEPT !.rows = Known] = After
      BY <1>1 DEF Locals
    <2>5. After \in Locals /\ After.step = Position(w)
      BY <1>1, <2>2 DEF Locals, Position
    <2>6. run' = [run EXCEPT ![w] = After]
      BY <1>1, <2>3, <2>4
    <2> HIDE DEF After
    <2>7. run' \in [Worker -> Locals] /\ run'[w].step = Position(w)
      BY <1>1, <2>5, <2>6
    <2> QED
      BY <1>1, <1>2, <1>7, <2>7 DEF Snapshot, GoTo, LocalsTyped, Position, Phase
  <1>8. CASE Seed(w)
    <2>1. CASE AtEnd(w)
      <3>1. run' = [run EXCEPT ![w].step = 1] /\ GoTo(w, "sync")
        BY <1>8, <2>1 DEF Seed
      <3>2. run' \in [Worker -> Locals] /\ run'[w].step = 1
        BY <1>1, <3>1 DEF Locals
      <3> QED
        BY <1>1, <1>2, <3>1, <3>2 DEF GoTo, LocalsTyped, Position, Phase
    <2>2. CASE ~AtEnd(w) /\ GoTo(w, "add") /\ UNCHANGED run
      BY <1>5, <2>2 DEF Phase
    <2>3. CASE ~AtEnd(w) /\ NextStep(w) /\ UNCHANGED pc
      <3>1. run' \in [Worker -> Locals] /\ run'[w].step = Position(w) + 1
        BY <2>3, <1>1, MovesOn DEF Locals
      <3> QED
        BY <1>1, <1>8, <2>3, <3>1, AtWork DEF Seed, LocalsTyped, Position
    <2> QED
      BY <1>8, <2>1, <2>2, <2>3 DEF Seed
  <1>9. CASE Add(w)
    <2>1. ~AtEnd(w) /\ "pending" \in KnownStatus
      BY <1>1, <1>9 DEF Add, LocalsTyped, KnownStatus, Status
    <2> QED
      BY <1>1, <1>4, <1>9, <2>1 DEF Add, GoTo, Notes, StatusOnceAdded, Phase
  <1>10. ASSUME Compared(w), ~AtEnd(w), pc'[w] = "sync", pc' \in [Worker -> Phase]
         PROVE  run' \in [Worker -> Locals] /\ LocalsTyped(w)' /\ pc' \in [Worker -> Phase]
    BY <1>4, <1>10 DEF Compared, Notes, KnownStatus
  <1>11. CASE Sync(w)
    <2>1. CASE AtEnd(w)
      BY <1>3, <1>11, <2>1 DEF Sync
    <2>2. CASE ~AtEnd(w) /\ Compared(w) /\ UNCHANGED pc
      BY <1>1, <1>10, <1>11, <2>2 DEF Sync
    <2>3. CASE ~AtEnd(w) /\ UNCHANGED run /\ (GoTo(w, "complete") \/ GoTo(w, "still_due"))
      BY <1>5, <2>3 DEF Phase
    <2> QED
      BY <1>11, <2>1, <2>2, <2>3 DEF Sync
  <1>12. CASE StillDue(w)
    <2>1. ~AtEnd(w)
      BY <1>1, <1>12 DEF StillDue, LocalsTyped
    <2> QED
      BY <1>1, <1>5, <1>10, <1>12, <2>1 DEF StillDue, GoTo, Phase
  <1>13. CASE Complete(w) \/ Reopen(w)
    <2>1. ~AtEnd(w)
      BY <1>1, <1>13 DEF Complete, Reopen, LocalsTyped
    <2> QED
      BY <1>1, <1>10, <1>13, <2>1 DEF Complete, Reopen, GoTo, Phase
  <1> QED
    BY <1>6, <1>7, <1>8, <1>9, <1>11, <1>12, <1>13 DEF RunStep

LEMMA RecalcStepTyped ==
    ASSUME RunTypeOK, [RecalcStep]_allVars
    PROVE  RunTypeOK'
  <1>1. TypeOK' /\ \A v \in Worker : LocalsTyped(v)
    <2>1. [Next]_vars
      BY StepsAreHelpers DEF allVars, vars
    <2> QED
      BY <2>1, StepTyped, TypedParts
  <1> USE <1>1
  <1>2. ASSUME NEW w \in Worker, RunStep(w) PROVE RunTypeOK'
    <2>1. run' \in [Worker -> Locals] /\ LocalsTyped(w)' /\ pc' \in [Worker -> Phase]
      BY <1>2, RunTyped
    <2>2. UNCHANGED facts /\ \A v \in Worker \ {w} : run'[v] = run[v] /\ pc'[v] = pc[v]
      BY <1>2, RunFrame DEF Alone
    <2>3. \A v \in Worker \ {w} : LocalsTyped(v)'
      BY <2>2 DEF LocalsTyped, Position, AtEnd
    <2>4. heard' \in [Worker -> Heard]
      BY <1>2, RunFrame, Telling, TypedParts DEF Heard
    <2>5. \A v \in Worker : LocalsTyped(v)'
      BY <2>1, <2>3
    <2> QED
      BY <2>1, <2>2, <2>4, <2>5, TypedParts DEF facts, Heard, RunTypeOK, LocalsTyped, Locals
  <1>3. ASSUME NEW w \in Worker, NEW r \in Record, NEW c \in BOOLEAN, Start(w, r, c)
        PROVE  RunTypeOK'
    <2> DEFINE After == [NoRun(r) EXCEPT !.create = c]
    <2>1. After \in Locals /\ After.step = 1
      BY DEF NoRun, Locals, KnownStatus
    <2>2. run' = [run EXCEPT ![w] = After]
      BY <1>3 DEF Start
    <2> HIDE DEF After
    <2>3. run' \in [Worker -> Locals] /\ pc' \in [Worker -> Phase]
          /\ heard' \in [Worker -> {{}, {"run"}, {"stale"}, {"outside"}}]
      BY <1>3, <2>1, <2>2, TypedParts DEF Start, GoTo, Phase
    <2>4. \A v \in Worker : LocalsTyped(v)'
      <3>1. LocalsTyped(w)'
        <4>1. run'[w] = After /\ pc'[w] = "ensure"
          BY <1>3, <2>2, TypedParts DEF Start, GoTo
        <4>2. 1 \in 1 .. Len(AllSteps) + 1
          BY RegisteredKeys
        <4> QED
          BY <2>1, <4>1, <4>2 DEF LocalsTyped, Position, Phase
      <3>2. \A v \in Worker \ {w} : run'[v] = run[v] /\ pc'[v] = pc[v]
        BY <1>3, <2>2, TypedParts DEF Start, GoTo
      <3> QED
        BY <3>1, <3>2 DEF LocalsTyped, Position, AtEnd
    <2> QED
      BY <1>3, <2>3, <2>4, TypedParts DEF Start, facts, RunTypeOK, LocalsTyped, Locals
  <1>4. ASSUME UNCHANGED <<pc, run>>, heard' \in [Worker -> Heard],
               isComplete' \in Facts, shouldSeed' \in [Registered -> BOOLEAN]
        PROVE  RunTypeOK'
    <2>1. \A v \in Worker : LocalsTyped(v)'
      BY <1>4 DEF LocalsTyped, Position, AtEnd
    <2> QED
      BY <1>4, <2>1, TypedParts DEF Heard, RunTypeOK, LocalsTyped, Locals
  <1>5. ASSUME Outside PROVE UNCHANGED <<pc, run>> /\ heard' \in [Worker -> Heard]
    BY <1>5 DEF Outside, Heard
  <1>6. ASSUME NEW k \in Registered, FactsChange(k) PROVE RunTypeOK'
    BY <1>4, <1>5, <1>6, TypedParts DEF FactsChange
  <1>7. ASSUME Outside, UNCHANGED facts PROVE RunTypeOK'
    BY <1>4, <1>5, <1>7, TypedParts DEF facts
  <1>8. CASE UNCHANGED allVars
    BY <1>4, <1>8, TypedParts DEF allVars, Heard
  <1> QED
    BY <1>2, <1>3, <1>6, <1>7, <1>8
       DEF RecalcStep, HandlerAdds, HandlerCompletes, StaffWaives

(* Remembering the waivers is no part of what a step does.                 *)
LEMMA NextIsStep == [RecalcNext]_allVars => [RecalcStep]_allVars
  BY DEF RecalcNext

LEMMA RunsTyped == RecalcSpec => []RunTypeOK
  BY RecalcInitTyped, RecalcStepTyped, NextIsStep, PTL DEF RecalcSpec

-----------------------------------------------------------------------------
(* What holds of every run: the phases agree with the locals.              *)

(* The second loop drops the row it has compared.                          *)
LEMMA ComparedOnce ==
    ASSUME RunTypeOK, NEW w \in Worker, ~AtEnd(w), Compared(w), SecondLoop(w),
           \A k \in Registered \cap Behind(w) : run[w].rows[k] = "absent"
    PROVE  /\ run'[w].rec = run[w].rec /\ run'[w].create = run[w].create
           /\ Behind(w)' = Behind(w) \union {CurrentKey(w)}
           /\ \A k \in Registered \ {CurrentKey(w)} : run'[w].rows[k] = run[w].rows[k]
           /\ \A k \in Registered \cap Behind(w)' : run'[w].rows[k] = "absent"
  <1>1. LocalsTyped(w) /\ run[w].rows \in [Registered -> KnownStatus]
    BY TypedParts DEF Locals
  <1>2. CurrentKey(w) \in Registered
    BY <1>1, AtWork
  <1>3. /\ run'[w].rec = run[w].rec /\ run'[w].create = run[w].create
        /\ run'[w].step = Position(w) + 1
        /\ run'[w].rows = [run[w].rows EXCEPT ![CurrentKey(w)] = "absent"]
    <2>1. "absent" \in KnownStatus /\ Notes(w, CurrentKey(w), "absent")
      BY DEF KnownStatus, Notes, Compared
    <2> QED
      BY <1>2, <2>1, Records
  <1>4. Behind(w)' = Behind(w) \union {CurrentKey(w)}
    BY <1>1, <1>3, BehindNext DEF Position
  <1> QED
    BY <1>1, <1>2, <1>3, <1>4

LEMMA OwnPhase ==
    ASSUME RunTypeOK, NEW w \in Worker, RunStep(w), PhaseInv(w)
    PROVE  PhaseInv(w)' /\ (DecidedRight(w) => DecidedRight(w)')
  <1>1. /\ run \in [Worker -> Locals] /\ run[w] \in Locals /\ run[w].rec \in Record
        /\ pc \in [Worker -> Phase] /\ LocalsTyped(w) /\ isComplete \in Facts
    BY TypedParts DEF Locals
  <1>2. /\ TypeOK /\ [Next]_vars /\ UNCHANGED facts
    BY RunFrame, WritesAreHelpers, TypedParts DEF checklist, vars
  <1>3. Exists(run[w].rec) => onboarding'[run[w].rec].started_on # Null
    BY <1>1, <1>2, RowsStay
  <1> USE <1>1 DEF PhaseInv, DecidedRight, Active, SecondLoop
  <1>4. CASE Ensure(w)
    <2>1. CASE Forget(w) /\ GoTo(w, "snapshot")
                   /\ onboarding'[run[w].rec].started_on # Null
      <3>1. run'[w].rec = run[w].rec /\ run'[w].step = 1 /\ pc'[w] = "snapshot"
        BY <2>1, Forgets DEF GoTo
      <3> QED
        BY <2>1, <3>1 DEF Position, Exists
    <2>2. CASE UNCHANGED run /\ GoTo(w, "idle") /\ ~run[w].create
      <3>1. pc'[w] = "idle" /\ run' = run
        BY <2>2 DEF GoTo
      <3> QED
        BY <2>2, <3>1
    <2>3. GetOrCreate(run[w].rec) => onboarding'[run[w].rec].started_on # Null
      BY <1>2, CreateEffect
    <2> QED
      BY <1>3, <1>4, <2>1, <2>2, <2>3 DEF Ensure, checklist, Exists
  <1>5. CASE Snapshot(w)
    <2>1. run'[w].rec = run[w].rec /\ pc'[w] = "seed"
      BY <1>5 DEF Snapshot, GoTo, Locals
    <2> QED
      BY <1>3, <1>5, <2>1 DEF Snapshot, Exists
  <1>6. CASE Seed(w)
    <2>1. CASE AtEnd(w)
      <3>1. pc'[w] = "sync" /\ run'[w].step = 1 /\ run'[w].rec = run[w].rec
        BY <1>6, <2>1 DEF Seed, GoTo, Locals
      <3>2. Behind(w)' = {}
        BY <3>1, RegisteredKeys DEF Behind, Position
      <3> QED
        BY <1>3, <1>6, <3>1, <3>2 DEF Seed, Exists
    <2>2. CASE ~AtEnd(w) /\ GoTo(w, "add") /\ UNCHANGED run
      <3>1. pc'[w] = "add" /\ run' = run /\ CurrentKey(w)' = CurrentKey(w)
        BY <2>2 DEF GoTo, CurrentKey, Position
      <3>2. run[w].rows[CurrentKey(w)] = "absent" /\ shouldSeed[CurrentKey(w)]
        BY <1>6, <2>2 DEF Seed, GoTo
      <3> QED
        BY <1>2, <1>3, <1>6, <3>1, <3>2 DEF Seed, Exists, facts
    <2>3. CASE ~AtEnd(w) /\ NextStep(w) /\ UNCHANGED pc
      <3>1. pc'[w] = "seed" /\ run'[w].rec = run[w].rec
        BY <1>6, <2>3 DEF Seed, NextStep, Locals
      <3> QED
        BY <1>3, <1>6, <3>1 DEF Seed, Exists
    <2> QED
      BY <1>6, <2>1, <2>2, <2>3 DEF Seed
  <1>7. CASE Add(w)
    <2>1. ~AtEnd(w) /\ CurrentKey(w) \in Registered
      BY <1>7, AtWork DEF Add, LocalsTyped
    <2>2. run'[w].rec = run[w].rec /\ pc'[w] = "seed"
      BY <1>7, <2>1, Records DEF Add, GoTo, Notes, StatusOnceAdded, KnownStatus, Status
    <2> QED
      BY <1>3, <1>7, <2>2 DEF Add, Exists
  <1>8. ASSUME ~AtEnd(w), Compared(w), SecondLoop(w), pc'[w] = "sync" PROVE
               PhaseInv(w)' /\ DecidedRight(w)'
    <2>1. /\ run'[w].rec = run[w].rec
          /\ \A k \in Registered \cap Behind(w)' : run'[w].rows[k] = "absent"
      BY <1>8, ComparedOnce
    <2> QED
      BY <1>3, <1>8, <2>1 DEF Exists
  <1>9. CASE Sync(w)
    <2>1. CASE AtEnd(w)
      <3>1. run'[w].create = FALSE /\ pc'[w] = "idle"
        BY <1>9, <2>1, Forgets DEF Sync, GoTo
      <3> QED
        BY <3>1
    <2>2. CASE ~AtEnd(w) /\ Compared(w) /\ UNCHANGED pc
      BY <1>8, <1>9, <2>2 DEF Sync
    <2>3. CASE ~AtEnd(w) /\ UNCHANGED run /\ pc'[w] \in {"complete", "still_due"}
      <3>1. /\ run' = run /\ CurrentKey(w)' = CurrentKey(w) /\ Behind(w)' = Behind(w)
            /\ CurrentKey(w) \in Registered
        BY <2>3, AtWork DEF CurrentKey, Behind, Position
      <3>2. \/ /\ pc'[w] = "complete" /\ isComplete[CurrentKey(w)] = "yes"
               /\ run[w].rows[CurrentKey(w)] = "pending"
            \/ /\ pc'[w] = "still_due" /\ isComplete[CurrentKey(w)] = "no"
               /\ run[w].rows[CurrentKey(w)] = "completed" /\ CurrentKey(w) \in Reopenable
        BY <1>9, <2>3 DEF Sync, MayComplete, MayReopen, GoTo
      <3>3. CurrentKey(w) \in Predicated
        BY <3>1, <3>2 DEF Facts
      <3> QED
        BY <1>2, <1>3, <1>9, <3>1, <3>2, <3>3 DEF Sync, Exists, facts
    <2> QED
      BY <1>9, <2>1, <2>2, <2>3 DEF Sync, GoTo
  <1>10. CASE StillDue(w)
    <2>1. ~AtEnd(w)
      BY <1>10 DEF StillDue, LocalsTyped
    <2>2. CASE pc'[w] = "sync" /\ Compared(w)
      BY <1>8, <1>10, <2>1, <2>2 DEF StillDue
    <2>3. CASE Due(CurrentKey(w)) /\ pc'[w] = "reopen" /\ UNCHANGED run
      <3>1. run' = run /\ CurrentKey(w)' = CurrentKey(w) /\ Behind(w)' = Behind(w)
        BY <2>3 DEF CurrentKey, Behind, Position
      <3> QED
        BY <1>2, <1>3, <1>10, <2>3, <3>1 DEF StillDue, Exists, facts, Due
    <2> QED
      BY <1>10, <2>2, <2>3 DEF StillDue, GoTo
  <1>11. CASE Complete(w) \/ Reopen(w)
    <2>1. ~AtEnd(w) /\ Compared(w) /\ pc'[w] = "sync"
      BY <1>11 DEF Complete, Reopen, LocalsTyped, GoTo
    <2> QED
      BY <1>8, <1>11, <2>1 DEF Complete, Reopen
  <1> QED
    BY <1>4, <1>5, <1>6, <1>7, <1>9, <1>10, <1>11 DEF RunStep

(* Somebody else's step leaves a run where it is and its record in place.  *)
Still(w) == run'[w] = run[w] /\ pc'[w] = pc[w]

LEMMA StillPhase ==
    ASSUME RunTypeOK, [RecalcStep]_allVars, NEW w \in Worker, Still(w), PhaseInv(w)
    PROVE  PhaseInv(w)'
  <1>1. run[w].rec \in Record /\ TypeOK /\ [Next]_vars
    BY StepsAreHelpers, TypedParts DEF Locals, allVars, vars
  <1>2. Exists(run[w].rec) => onboarding'[run[w].rec].started_on # Null
    BY <1>1, RowsStay
  <1>3. CurrentKey(w)' = CurrentKey(w) /\ Behind(w)' = Behind(w)
        /\ Position(w)' = Position(w)
    BY DEF Still, CurrentKey, Behind, Position
  <1> QED
    BY <1>2, <1>3 DEF Still, PhaseInv, Active, SecondLoop, Exists

LEMMA PhasesKept ==
    ASSUME RunTypeOK, [RecalcStep]_allVars, \A w \in Worker : PhaseInv(w)
    PROVE  \A w \in Worker : PhaseInv(w)'
  <1>1. ASSUME NEW u \in Worker, RunStep(u), NEW w \in Worker PROVE PhaseInv(w)'
    <2>1. CASE w = u
      BY <1>1, <2>1, OwnPhase
    <2>2. CASE w # u
      BY <1>1, <2>2, RunFrame, StillPhase DEF Still, Alone
    <2> QED
      BY <2>1, <2>2
  <1>2. ASSUME NEW u \in Worker, NEW r \in Record, NEW c \in BOOLEAN, Start(u, r, c),
               NEW w \in Worker
        PROVE  PhaseInv(w)'
    <2>1. CASE w = u
      <3>1. pc'[w] = "ensure"
        BY <1>2, <2>1, TypedParts DEF Start, GoTo
      <3> QED
        BY <3>1 DEF PhaseInv, Active, SecondLoop
    <2>2. CASE w # u
      BY <1>2, <2>2, StillPhase, TypedParts DEF Still, Start, GoTo
    <2> QED
      BY <2>1, <2>2
  <1>3. ASSUME UNCHANGED <<pc, run>>, NEW w \in Worker PROVE PhaseInv(w)'
    BY <1>3, StillPhase DEF Still
  <1> QED
    BY <1>1, <1>2, <1>3
       DEF RecalcStep, allVars, FactsChange, HandlerAdds, HandlerCompletes, StaffWaives, Outside

-----------------------------------------------------------------------------
(* What a run writes.                                                      *)
PhasesInv == RunTypeOK /\ \A w \in Worker : PhaseInv(w)

LEMMA PhasesInductive == RecalcSpec => []PhasesInv
  <1>1. RecalcInit => PhasesInv
    <2> SUFFICES ASSUME RecalcInit PROVE PhasesInv
      OBVIOUS
    <2>1. \A w \in Worker : pc[w] = "idle" /\ ~run[w].create
      BY DEF RecalcInit, NoRun
    <2> QED
      BY <2>1, RecalcInitTyped DEF PhasesInv, PhaseInv, Active, SecondLoop
  <1>2. PhasesInv /\ [RecalcStep]_allVars => PhasesInv'
    BY RecalcStepTyped, PhasesKept DEF PhasesInv
  <1> QED
    BY <1>1, <1>2, NextIsStep, PTL DEF RecalcSpec

(* What a run knows of a step that was waived before it began: its row is  *)
(* waived still, and so is its status in the snapshot until the second     *)
(* loop has compared it.                                                   *)
WaivedInv(w) ==
    /\ pc[w] = "idle" => waived[w] = {}
    /\ \A k \in waived[w] :
        /\ k \in Registered /\ steps[run[w].rec][k].status = "not_applicable"
        /\ FirstLoop(w) => run[w].rows[k] = "not_applicable"
        /\ SecondLoop(w) => run[w].rows[k] \in {"not_applicable", "absent"}

WaiversInv == PhasesInv /\ \A w \in Worker : WaivedInv(w)

(* A run that adds, completes or reopens a step takes another one.         *)
LEMMA OthersTaken ==
    ASSUME NEW w \in Worker, PhaseInv(w), WaivedInv(w), NEW k \in waived[w],
           pc[w] \in {"add", "complete", "still_due", "reopen"}
    PROVE  k # CurrentKey(w)
  BY DEF PhaseInv, WaivedInv, FirstLoop, SecondLoop

(* In its loops a run keeps what it knows of a waived step, or drops it.   *)
LEMMA OwnRows ==
    ASSUME RunTypeOK, NEW w \in Worker, RunStep(w), PhaseInv(w), WaivedInv(w),
           NEW k \in waived[w]
    PROVE  /\ FirstLoop(w)' => run'[w].rows[k] = "not_applicable"
           /\ SecondLoop(w)' => run'[w].rows[k] \in {"not_applicable", "absent"}
  <1>1. /\ run \in [Worker -> Locals] /\ run[w] \in Locals
        /\ pc \in [Worker -> Phase] /\ LocalsTyped(w) /\ k \in Registered
        /\ run[w].rows \in [Registered -> KnownStatus]
    BY TypedParts DEF Locals, WaivedInv
  <1> USE <1>1 DEF FirstLoop, SecondLoop
  <1>2. CASE Ensure(w)
    BY <1>2 DEF Ensure, GoTo
  <1>3. CASE Snapshot(w)
    <2>1. /\ pc'[w] = "seed"
          /\ run'[w].rows = [j \in Registered |-> steps[run[w].rec][j].status]
      BY <1>3 DEF Snapshot, GoTo, Locals
    <2> QED
      BY <2>1 DEF WaivedInv
  <1>4. CASE Seed(w)
    <2>1. run'[w].rows = run[w].rows
      BY <1>4 DEF Seed, NextStep, Locals
    <2>2. pc[w] = "seed"
      BY <1>4 DEF Seed
    <2> QED
      BY <2>1, <2>2 DEF WaivedInv
  <1>5. CASE Add(w)
    <2>1. pc[w] = "add" /\ pc'[w] = "seed" /\ k # CurrentKey(w)
      BY <1>5, OthersTaken DEF Add, GoTo
    <2>2. ~AtEnd(w) /\ CurrentKey(w) \in Registered
      BY <2>1, AtWork DEF LocalsTyped
    <2>3. run'[w].rows = [run[w].rows EXCEPT ![CurrentKey(w)] = StatusOnceAdded]
      <3>1. StatusOnceAdded \in KnownStatus /\ Notes(w, CurrentKey(w), StatusOnceAdded)
        BY <1>5 DEF Add, Notes, StatusOnceAdded, KnownStatus, Status
      <3> QED
        BY <2>2, <3>1, Records
    <2> QED
      BY <2>1, <2>3 DEF WaivedInv
  <1>6. ASSUME pc[w] \in {"sync", "still_due", "complete", "reopen"}, ~FirstLoop(w)',
               run'[w] = run[w] \/ (~AtEnd(w) /\ Compared(w))
        PROVE  /\ ~FirstLoop(w)' /\ run'[w].rows[k] \in {"not_applicable", "absent"}
    <2>1. CASE run'[w] = run[w]
      BY <1>6, <2>1 DEF WaivedInv
    <2>2. CASE ~AtEnd(w) /\ Compared(w)
      <3>1. run'[w].rows = [run[w].rows EXCEPT ![CurrentKey(w)] = "absent"]
        <4>1. "absent" \in KnownStatus /\ Notes(w, CurrentKey(w), "absent")
          BY <2>2 DEF KnownStatus, Notes, Compared
        <4>2. CurrentKey(w) \in Registered
          BY <2>2, AtWork
        <4> QED
          BY <4>1, <4>2, Records
      <3> QED
        BY <1>6, <3>1 DEF WaivedInv
    <2> QED
      BY <1>6, <2>1, <2>2
  <1>7. CASE Sync(w)
    <2>1. pc[w] = "sync" /\ pc'[w] \in {"idle", "sync", "complete", "still_due"}
      BY <1>7 DEF Sync, GoTo
    <2>2. CASE AtEnd(w)
      BY <1>7, <2>2 DEF Sync, GoTo
    <2>3. CASE ~AtEnd(w)
      <3>1. run'[w] = run[w] \/ Compared(w)
        BY <1>7, <2>3 DEF Sync
      <3> QED
        BY <1>6, <2>1, <2>3, <3>1
    <2> QED
      BY <2>2, <2>3
  <1>8. CASE StillDue(w)
    <2>1. pc[w] = "still_due" /\ pc'[w] \in {"reopen", "sync"} /\ ~AtEnd(w)
          /\ (run'[w] = run[w] \/ Compared(w))
      BY <1>8 DEF StillDue, GoTo, LocalsTyped
    <2> QED
      BY <1>6, <2>1
  <1>9. CASE Complete(w) \/ Reopen(w)
    <2>1. pc[w] \in {"complete", "reopen"} /\ pc'[w] = "sync" /\ ~AtEnd(w) /\ Compared(w)
      BY <1>9 DEF Complete, Reopen, GoTo, LocalsTyped
    <2> QED
      BY <1>6, <2>1
  <1> QED
    BY <1>2, <1>3, <1>4, <1>5, <1>7, <1>8, <1>9 DEF RunStep

LEMMA WaiversKept == WaiversInv /\ [RecalcNext]_allVars => WaiversInv'
  <1> SUFFICES ASSUME WaiversInv, [RecalcNext]_allVars PROVE WaiversInv'
    OBVIOUS
  <1>1. PhasesInv' /\ RunTypeOK /\ pc \in [Worker -> Phase] /\ run \in [Worker -> Locals]
    BY NextIsStep, RecalcStepTyped, PhasesKept, TypedParts DEF WaiversInv, PhasesInv
  <1> SUFFICES ASSUME NEW w \in Worker PROVE WaivedInv(w)'
    BY <1>1 DEF WaiversInv
  <1>2. PhaseInv(w) /\ WaivedInv(w)
    BY DEF WaiversInv, PhasesInv
  <1>3. CASE UNCHANGED allVars
    BY <1>2, <1>3 DEF allVars, WaivedInv, FirstLoop, SecondLoop
  <1>4. CASE RecalcNext
    <2>1. /\ pc'[w] = "idle" => waived'[w] = {}
          /\ pc[w] = "idle" => waived'[w] \subseteq Waived(run[w].rec)'
          /\ pc[w] # "idle" =>
                 waived'[w] \subseteq waived[w] \intersect Waived(run[w].rec)'
      BY <1>4 DEF RecalcNext, Remember
    <2>2. \A k \in waived'[w] :
              k \in Registered /\ steps'[run'[w].rec][k].status = "not_applicable"
      BY <2>1 DEF Waived
    <2>3. \A k \in waived'[w] :
              /\ FirstLoop(w)' => run'[w].rows[k] = "not_applicable"
              /\ SecondLoop(w)' => run'[w].rows[k] \in {"not_applicable", "absent"}
      <3>1. CASE RunStep(w)
        <4>1. pc[w] # "idle"
          BY <3>1 DEF RunStep, Ensure, Snapshot, Seed, Add, Sync, StillDue, Complete, Reopen
        <4> QED
          BY <1>1, <1>2, <2>1, <3>1, <4>1, OwnRows
      <3>2. CASE Still(w)
        <4>1. pc[w] # "idle" => waived'[w] \subseteq waived[w]
          BY <2>1
        <4> QED
          BY <1>2, <3>2, <4>1 DEF Still, WaivedInv, FirstLoop, SecondLoop
      <3>3. ASSUME NEW u \in Worker, NEW r \in Record, NEW c \in BOOLEAN, Start(u, r, c),
                   ~Still(w)
            PROVE  ~FirstLoop(w)' /\ ~SecondLoop(w)'
        BY <1>1, <3>3 DEF Start, GoTo, Still, FirstLoop, SecondLoop
      <3>4. ASSUME NEW u \in Worker, RunStep(u), u # w PROVE Still(w)
        BY <1>1, <3>4, RunFrame DEF Still, Alone
      <3>5. ASSUME UNCHANGED <<pc, run>> PROVE Still(w)
        BY <3>5 DEF Still
      <3> QED
        BY <1>4, <3>1, <3>2, <3>3, <3>4, <3>5
           DEF RecalcNext, RecalcStep, FactsChange, HandlerAdds, HandlerCompletes,
               StaffWaives, Outside
    <2> QED
      BY <2>1, <2>2, <2>3 DEF WaivedInv
  <1> QED
    BY <1>3, <1>4

LEMMA WaiversInvariant == RecalcSpec => []WaiversInv
  <1>1. RecalcInit => \A w \in Worker : WaivedInv(w)
    BY DEF RecalcInit, WaivedInv
  <1> QED
    BY <1>1, WaiversKept, PhasesInductive, PTL DEF RecalcSpec, WaiversInv

(* The phases, the locals and the rows of every reachable state are typed. *)
THEOREM RecalcTypeCorrect == RecalcSpec => []RecalcTypeOK
  <1>1. RecalcInit => waived \in [Worker -> SUBSET Registered]
    BY DEF RecalcInit
  <1>2. waived \in [Worker -> SUBSET Registered] /\ [RecalcNext]_allVars
            => (waived \in [Worker -> SUBSET Registered])'
    BY DEF RecalcNext, Remember, Waived, allVars
  <1> QED
    BY <1>1, <1>2, RunsTyped, PTL DEF RecalcSpec, RecalcTypeOK

EarlierKept ==
    \A w \in Worker : pc'[w] # pc[w] =>
        \A k \in waived[w] : steps'[run[w].rec][k] = steps[run[w].rec][k]

(* A step that was waived before a run began, and has been since, is left  *)
(* alone by the run (api.py:187), for any number of overlapping runs and   *)
(* of outside changes, and however old the snapshot is.                    *)
THEOREM WaiversLeftAlone == RecalcSpec => EarlierWaiversKept
  <1>1. ASSUME WaiversInv, [RecalcNext]_allVars PROVE EarlierKept
    <2> SUFFICES ASSUME NEW w \in Worker, pc'[w] # pc[w], NEW k \in waived[w]
                 PROVE  steps'[run[w].rec][k] = steps[run[w].rec][k]
      BY DEF EarlierKept
    <2>1. /\ RunTypeOK /\ TypeOK /\ PhaseInv(w) /\ WaivedInv(w) /\ k \in Key
          /\ pc \in [Worker -> Phase] /\ run[w].rec \in Record /\ LocalsTyped(w)
      BY <1>1, RegisteredKeys, TypedParts DEF WaiversInv, PhasesInv, WaivedInv, Locals
    <2>2. RunStep(w) \/ steps' = steps
      <3>1. ASSUME NEW u \in Worker, RunStep(u) PROVE u = w
        BY <2>1, <3>1, RunFrame
      <3>2. ASSUME NEW u \in Worker, NEW r \in Record, NEW c \in BOOLEAN, Start(u, r, c)
            PROVE  steps' = steps
        BY <3>2 DEF Start, checklist
      <3> QED
        BY <1>1, <3>1, <3>2
           DEF RecalcNext, RecalcStep, allVars, FactsChange, HandlerAdds, HandlerCompletes,
               StaffWaives, Outside
    <2>3. CASE steps' = steps
      BY <2>3
    <2>4. CASE RunStep(w) /\ RunWrites(w)
      <3> DEFINE q == run[w].rec
                 j == CurrentKey(w)
      <3>1. pc[w] \in {"add", "complete", "reopen"} => j \in Key /\ k # j
        BY <2>1, AtWork, OthersTaken DEF LocalsTyped
      <3> HIDE DEF q, j
      <3>2. CASE pc[w] = "ensure" /\ GetOrCreate(q)
        BY <3>2 DEF GetOrCreate
      <3>3. CASE pc[w] = "add" /\ AddStep(q, j, "pending")
        BY <2>1, <3>1, <3>3, AddEffect DEF WritesStep, Leaves, q, Status
      <3>4. CASE pc[w] = "complete" /\ TransitionStep(q, j, "completed")
        BY <2>1, <3>1, <3>4, TransitionEffect DEF WritesStep, Leaves, q, DoneStatus
      <3>5. CASE pc[w] = "reopen" /\ ReopenStep(q, j)
        BY <2>1, <3>1, <3>5, ReopenEffect DEF WritesStep, Leaves, q
      <3> QED
        BY <2>4, <3>2, <3>3, <3>4, <3>5 DEF RunWrites, q, j
    <2> QED
      BY <2>1, <2>2, <2>3, <2>4, RunFrame DEF checklist
  <1>2. WaiversInv /\ [RecalcNext]_allVars => [EarlierKept]_allVars
    BY <1>1
  <1>3. EarlierWaiversKept <=> [][EarlierKept]_allVars
    BY PTL DEF EarlierWaiversKept, EarlierKept
  <1> QED
    BY <1>2, <1>3, WaiversInvariant, PTL DEF RecalcSpec

-----------------------------------------------------------------------------
(* A write by a run that began after the last outside change: whatever the *)
(* run knows of the rows, it agrees with the facts.                        *)
SoundWrite(r, k) ==
    LET old == steps[r][k].status
        new == steps'[r][k].status
    IN  \/ new = old
        \/ old = "absent" /\ new = "pending" /\ shouldSeed[k]
        \/ old # "absent" /\ new = "completed" /\ isComplete[k] = "yes"
        \/ old = "completed" /\ new = "pending" /\ isComplete[k] = "no"

LEMMA CurrentRunsWriteSoundly ==
    ASSUME RunTypeOK, NEW u \in Worker, RunStep(u), DecidedRight(u)
    PROVE  \A r \in Record, k \in Registered : SoundWrite(r, k)
  <1>1. RunWrites(u) \/ steps' = steps
    BY RunFrame DEF checklist
  <1>2. TypeOK /\ run[u].rec \in Record /\ LocalsTyped(u)
    BY TypedParts DEF Locals
  <1>3. pc[u] \in {"add", "complete", "reopen"} => CurrentKey(u) \in Key
    BY <1>2, AtWork DEF LocalsTyped
  <1> DEFINE q == run[u].rec
             j == CurrentKey(u)
  <1> SUFFICES ASSUME NEW r \in Record, NEW k \in Key PROVE SoundWrite(r, k)
    BY RegisteredKeys
  <1>4. CASE (pc[u] = "ensure" /\ GetOrCreate(q)) \/ steps' = steps
    BY <1>4 DEF GetOrCreate, SoundWrite
  <1>5. CASE pc[u] = "add" /\ AddStep(q, j, "pending")
    <2>1. shouldSeed[j] /\ j \in Key
      BY <1>3, <1>5 DEF DecidedRight
    <2> HIDE DEF q, j
    <2> QED
      BY <1>2, <1>5, <2>1, AddEffect DEF SoundWrite, WritesStep, Leaves, Status, q
  <1>6. CASE pc[u] = "complete" /\ TransitionStep(q, j, "completed")
    <2>1. isComplete[j] = "yes" /\ j \in Key
      BY <1>3, <1>6 DEF DecidedRight
    <2> HIDE DEF q, j
    <2> QED
      BY <1>2, <1>6, <2>1, TransitionEffect DEF SoundWrite, WritesStep, Leaves, DoneStatus, q
  <1>7. CASE pc[u] = "reopen" /\ ReopenStep(q, j)
    <2>1. isComplete[j] = "no" /\ j \in Key
      BY <1>3, <1>7 DEF DecidedRight
    <2> HIDE DEF q, j
    <2> QED
      BY <1>2, <1>7, <2>1, ReopenEffect DEF SoundWrite, WritesStep, Leaves, q
  <1> QED
    BY <1>1, <1>4, <1>5, <1>6, <1>7 DEF RunWrites

(* A run leaves every other record alone, stale or not.                    *)
LEMMA OtherRecordsKept ==
    ASSUME RunTypeOK, NEW u \in Worker, RunStep(u),
           NEW r \in Record, r # run[u].rec
    PROVE  onboarding'[r] = onboarding[r] /\ steps'[r] = steps[r]
  <1>1. RunWrites(u) \/ UNCHANGED checklist
    BY RunFrame
  <1>2. TypeOK /\ run[u].rec \in Record /\ LocalsTyped(u)
    BY TypedParts DEF Locals
  <1> DEFINE q == run[u].rec
             j == CurrentKey(u)
  <1>3. pc[u] \in {"add", "complete", "reopen"} => j \in Key
    BY <1>2, AtWork DEF LocalsTyped
  <1> HIDE DEF q, j
  <1>4. CASE GetOrCreate(q)
    BY <1>2, <1>4, CreateEffect DEF Leaves, q
  <1>5. CASE /\ j \in Key
             /\ \/ AddStep(q, j, "pending")
                \/ TransitionStep(q, j, "completed")
                \/ ReopenStep(q, j)
    BY <1>2, <1>5, AddEffect, TransitionEffect, ReopenEffect
       DEF WritesStep, Leaves, Status, DoneStatus, q
  <1> QED
    BY <1>1, <1>3, <1>4, <1>5 DEF RunWrites, checklist, q, j

(* Such a write takes no key out of line.                                  *)
LEMMA LinesKept ==
    ASSUME NEW r, NEW k, SoundWrite(r, k), UNCHANGED facts, KeyInLine(r, k)
    PROVE  KeyInLine(r, k)'
  BY DEF SoundWrite, facts, KeyInLine

LEMMA InLineByKeys ==
    ASSUME NEW r
    PROVE  /\ InLine(r) <=> \A k \in Registered : KeyInLine(r, k)
           /\ InLine(r)' <=> \A k \in Registered : KeyInLine(r, k)'
  BY DEF InLine, KeyInLine

(* Nor does it mislead another run: where that one's knowledge and the row *)
(* still part, its second loop has nothing to correct.                     *)
LEMMA KnowledgeKept ==
    ASSUME NEW w, NEW k, SoundWrite(run[w].rec, k), UNCHANGED facts,
           run'[w].rec = run[w].rec, run'[w].rows[k] = run[w].rows[k],
           Tried(w, k)' = Tried(w, k),
           KnowsEnough(w, k), run[w].rows[k] \in KnownStatus
    PROVE  KnowsEnough(w, k)'
  BY DEF SoundWrite, facts, KnowsEnough

LEMMA OthersRight ==
    ASSUME RunTypeOK, NEW w \in Worker, Still(w), UNCHANGED facts, RunRight(w),
           \A k \in Registered : SoundWrite(run[w].rec, k)
    PROVE  RunRight(w)'
  <1>1. run[w].rec \in Record /\ run[w].rows \in [Registered -> KnownStatus]
    BY TypedParts DEF Locals
  <1>2. Ahead(w)' = Ahead(w) /\ Behind(w)' = Behind(w) /\ SecondLoop(w)' = SecondLoop(w)
    BY DEF Ahead, Behind, FirstLoop, SecondLoop, Position, Still
  <1>3. ASSUME NEW k \in Ahead(w) PROVE KnowsEnough(w, k)'
    <2>1. Tried(w, k)' = Tried(w, k)
      BY <1>2 DEF Tried
    <2> QED
      BY <1>1, <1>3, <2>1, KnowledgeKept DEF RunRight, Ahead, Still
  <1>4. ASSUME SecondLoop(w), NEW k \in Registered \cap Behind(w)
        PROVE  KeyInLine(run[w].rec, k)'
    <2> SUFFICES ASSUME NEW r \in Record, r = run[w].rec PROVE KeyInLine(r, k)'
      BY <1>1 DEF KeyInLine, Still
    <2>1. KeyInLine(r, k)
      BY <1>4 DEF RunRight
    <2> QED
      BY <1>4, <2>1, LinesKept
  <1> QED
    BY <1>2, <1>3, <1>4 DEF RunRight

(* The second loop moves on from a key that is in line.                    *)
LEMMA ComparedRight ==
    ASSUME RunTypeOK, NEW w \in Worker, PhaseInv(w), RunRight(w),
           SecondLoop(w), ~AtEnd(w), Compared(w), pc'[w] = "sync", UNCHANGED facts,
           \A r \in Record, k \in Registered : SoundWrite(r, k),
           NEW q \in Record, q = run[w].rec,
           NEW j \in Registered, j = CurrentKey(w), KeyInLine(q, j)'
    PROVE  run'[w].rec = run[w].rec /\ RunRight(w)'
  <1>1. run[w].rec \in Record /\ run[w].rows \in [Registered -> KnownStatus]
    BY TypedParts DEF Locals
  <1>2. /\ run'[w].rec = q
        /\ Behind(w)' = Behind(w) \union {j}
        /\ \A k \in Registered \ {j} : run'[w].rows[k] = run[w].rows[k]
    BY ComparedOnce DEF PhaseInv
  <1>3. SecondLoop(w)' /\ ~FirstLoop(w)' /\ ~FirstLoop(w)
    BY DEF SecondLoop, FirstLoop
  <1>4. ASSUME NEW k \in Ahead(w)' PROVE KnowsEnough(w, k)'
    <2>1. k \in Ahead(w) /\ k # j /\ k \in Registered
      BY <1>2, <1>3, <1>4 DEF Ahead
    <2>2. Tried(w, k)' = Tried(w, k)
      BY <1>3 DEF Tried
    <2> QED
      BY <1>1, <1>2, <2>1, <2>2, KnowledgeKept DEF RunRight
  <1>5. ASSUME NEW k \in Registered \cap Behind(w)' PROVE KeyInLine(q, k)'
    <2>1. CASE k = j
      BY <2>1
    <2>2. CASE k # j
      <3>1. KeyInLine(q, k)
        BY <1>2, <1>5, <2>2 DEF RunRight
      <3> QED
        BY <3>1, <1>5, LinesKept
    <2> QED
      BY <2>1, <2>2
  <1>6. \A k \in Registered \cap Behind(w)' : KeyInLine(run[w].rec, k)'
    BY <1>2, <1>5 DEF KeyInLine
  <1> QED
    BY <1>2, <1>3, <1>4, <1>6 DEF RunRight

(* A step of a run that began after the last outside change keeps what the *)
(* run can promise, and makes it good when the run ends.                   *)
LEMMA OwnRight ==
    ASSUME RunTypeOK, NEW w \in Worker, RunStep(w), PhaseInv(w), DecidedRight(w),
           Active(w), RunRight(w)
    PROVE  /\ run'[w].rec = run[w].rec
           /\ \/ Active(w)' /\ RunRight(w)'
              \/ pc'[w] = "idle" /\ UNCHANGED checklist /\ InLine(run[w].rec)
  <1>1. /\ run \in [Worker -> Locals] /\ run[w] \in Locals /\ run[w].rec \in Record
        /\ run[w].rows \in [Registered -> KnownStatus]
        /\ pc \in [Worker -> Phase] /\ LocalsTyped(w) /\ TypeOK
    BY TypedParts DEF Locals
  <1>2. /\ UNCHANGED facts
        /\ \A r \in Record, k \in Registered : SoundWrite(r, k)
    BY RunFrame, CurrentRunsWriteSoundly
  <1> DEFINE q == run[w].rec
             j == CurrentKey(w)
  <1>3. CASE Snapshot(w)
    <2>1. /\ run'[w].rec = q /\ run'[w].step = run[w].step /\ pc'[w] = "seed"
          /\ \A k \in Registered : run'[w].rows[k] = steps[q][k].status
          /\ steps' = steps
      BY <1>1, <1>3 DEF Snapshot, GoTo, Locals, checklist
    <2>2. Behind(w)' = {}
      BY <1>3, <2>1, RegisteredKeys DEF Snapshot, Behind, Position, PhaseInv
    <2>3. ASSUME NEW k \in Registered PROVE KnowsEnough(w, k)'
      BY <2>1, <2>2, <2>3 DEF KnowsEnough, Tried, SecondLoop
    <2> QED
      BY <2>1, <2>3 DEF RunRight, Ahead, SecondLoop, Active
  <1>4. CASE Seed(w)
    <2>1. steps' = steps
      BY <1>4 DEF Seed, checklist
    <2>2. CASE AtEnd(w)
      <3>1. /\ run'[w].rec = q /\ run'[w].rows = run[w].rows /\ run'[w].step = 1
            /\ pc'[w] = "sync"
        BY <1>1, <1>4, <2>2 DEF Seed, GoTo, Locals
      <3>2. Behind(w) = Registered /\ Behind(w)' = {}
        BY <1>1, <2>2, <3>1, BehindEnd, RegisteredKeys DEF Behind, Position
      <3>3. ASSUME NEW k \in Registered PROVE KnowsEnough(w, k)'
        <4>1. Tried(w, k)' = Tried(w, k)
          BY <3>1, <3>2 DEF Tried, SecondLoop
        <4>2. KnowsEnough(w, k)
          BY <1>4 DEF Seed, RunRight, Ahead, FirstLoop
        <4> QED
          BY <1>1, <1>2, <3>1, <4>1, <4>2, KnowledgeKept
      <3> QED
        BY <3>1, <3>2, <3>3 DEF RunRight, Ahead, SecondLoop, Active
    <2>3. CASE ~AtEnd(w) /\ GoTo(w, "add") /\ UNCHANGED run
      <3>1. pc'[w] = "add" /\ run' = run /\ pc[w] = "seed"
        BY <1>1, <1>4, <2>3 DEF GoTo, Seed
      <3>2. Behind(w)' = Behind(w) /\ ~SecondLoop(w) /\ ~SecondLoop(w)'
            /\ FirstLoop(w) /\ FirstLoop(w)'
        BY <3>1 DEF Behind, Position, SecondLoop, FirstLoop
      <3>3. ASSUME NEW k \in Registered PROVE KnowsEnough(w, k)'
        <4>1. Tried(w, k)' = Tried(w, k)
          BY <3>2 DEF Tried
        <4> QED
          BY <1>1, <1>2, <3>1, <3>2, <4>1, KnowledgeKept DEF RunRight, Ahead
      <3> QED
        BY <3>1, <3>2, <3>3 DEF RunRight, Ahead, Active
    <2>4. CASE ~AtEnd(w) /\ NextStep(w) /\ UNCHANGED pc
      <3>1. /\ run'[w].rec = q /\ run'[w].rows = run[w].rows
            /\ run'[w].step = Position(w) + 1 /\ pc'[w] = "seed" /\ pc[w] = "seed"
        <4>1. run'[w] = [run[w] EXCEPT !.step = Position(w) + 1]
          BY <2>4, MovesOn
        <4>2. pc'[w] = "seed" /\ pc[w] = "seed"
          BY <1>4, <2>4 DEF Seed
        <4> QED
          BY <1>1, <4>1, <4>2 DEF Locals
      <3>2. Behind(w)' = Behind(w) \union {j} /\ ~SecondLoop(w) /\ ~SecondLoop(w)'
            /\ FirstLoop(w)
        BY <1>1, <2>4, <3>1, BehindNext DEF Position, SecondLoop, FirstLoop
      <3>3. ASSUME NEW k \in Registered PROVE KnowsEnough(w, k)'
        <4>1. KnowsEnough(w, k)
          BY <3>2 DEF RunRight, Ahead
        <4>2. CASE k # j
          <5>1. Tried(w, k)' = Tried(w, k)
            BY <3>2, <4>2 DEF Tried
          <5> QED
            BY <1>1, <1>2, <3>1, <4>1, <5>1, KnowledgeKept
        <4>3. CASE k = j
          <5>1. run[w].rows[k] # "absent" \/ ~shouldSeed[k]
            BY <1>1, <1>4, <2>4, <4>3 DEF Seed, GoTo
          <5> QED
            BY <1>2, <2>1, <3>1, <4>1, <5>1 DEF KnowsEnough, facts
        <4> QED
          BY <4>2, <4>3
      <3> QED
        BY <3>1, <3>2, <3>3 DEF RunRight, Ahead, Active
    <2> QED
      BY <1>4, <2>2, <2>3, <2>4 DEF Seed
  <1>5. CASE Add(w)
    <2>1. /\ ~AtEnd(w) /\ j \in Registered /\ j \in Key /\ pc[w] = "add"
          /\ run[w].rows[j] = "absent"
      BY <1>1, <1>5, AtWork DEF Add, LocalsTyped, PhaseInv
    <2>2. Notes(w, j, "pending") /\ "pending" \in KnownStatus
      BY <1>5 DEF Add, Notes, StatusOnceAdded, KnownStatus, Status
    <2>3. /\ run'[w].rec = q /\ run'[w].rows = [run[w].rows EXCEPT ![j] = "pending"]
          /\ run'[w].step = Position(w) + 1 /\ pc'[w] = "seed"
      <3>1. pc'[w] = "seed"
        BY <1>1, <1>5 DEF Add, GoTo
      <3>2. ASSUME NEW k \in Registered, Notes(w, k, "pending")
            PROVE  /\ run'[w].rec = q /\ run'[w].rows = [run[w].rows EXCEPT ![k] = "pending"]
                   /\ run'[w].step = Position(w) + 1
        BY <2>2, <3>2, Records
      <3> QED
        BY <2>1, <2>2, <3>1, <3>2
    <2>4. Behind(w)' = Behind(w) \union {j} /\ ~SecondLoop(w) /\ ~SecondLoop(w)'
          /\ FirstLoop(w)
      BY <1>1, <2>1, <2>3, BehindNext DEF Position, SecondLoop, FirstLoop
    <2>5. \/ steps[q][j].status = "absent" /\ steps'[q][j].status = "pending"
          \/ steps[q][j].status # "absent" /\ steps' = steps
      <3>1. AddStep(q, j, "pending") \/ (steps[q][j].status # "absent" /\ steps' = steps)
        BY <1>5 DEF Add, checklist
      <3> HIDE DEF q, j
      <3> QED
        BY <1>1, <2>1, <3>1, AddEffect DEF Status, q
    <2>6. ASSUME NEW k \in Registered PROVE KnowsEnough(w, k)'
      <3>1. KnowsEnough(w, k)
        BY <2>4 DEF RunRight, Ahead
      <3>2. CASE k # j
        <4>1. Tried(w, k)' = Tried(w, k)
          BY <2>4, <3>2 DEF Tried
        <4>2. run'[w].rows[k] = run[w].rows[k]
          BY <1>1, <2>3, <3>2
        <4> QED
          BY <1>1, <1>2, <2>3, <3>1, <4>1, <4>2, KnowledgeKept
      <3>3. CASE k = j
        <4>1. run'[w].rows[k] = "pending"
          BY <1>1, <2>1, <2>3, <3>3
        <4>2. steps'[q][k].status # "absent"
          BY <2>5, <3>3
        <4>3. ~(steps'[q][k].status = "completed" /\ isComplete'[k] = "no"
                /\ k \in Reopenable /\ shouldSeed'[k])
          BY <1>2, <2>1, <2>5, <3>1, <3>3 DEF KnowsEnough, facts
        <4> QED
          BY <2>3, <4>1, <4>2, <4>3 DEF KnowsEnough
      <3> QED
        BY <3>2, <3>3
    <2> QED
      BY <2>3, <2>4, <2>6 DEF RunRight, Ahead, Active
  <1>6. ASSUME SecondLoop(w), ~AtEnd(w), Compared(w), pc'[w] = "sync",
               NEW k \in Registered, k = j, NEW r \in Record, r = q, KeyInLine(r, k)'
        PROVE  run'[w].rec = run[w].rec /\ Active(w)' /\ RunRight(w)'
    BY <1>2, <1>6, ComparedRight DEF Active
  <1>7. ASSUME ~AtEnd(w), SecondLoop(w)
        PROVE  j \in Registered /\ j \in Key /\ (KnowsEnough(w, j) \/ KeyInLine(q, j))
    BY <1>1, <1>7, AtWork DEF RunRight, Ahead
  <1>8. CASE Sync(w)
    <2>1. pc[w] = "sync" /\ SecondLoop(w) /\ UNCHANGED checklist /\ steps' = steps
      BY <1>8 DEF Sync, SecondLoop, checklist
    <2>2. CASE AtEnd(w)
      <3>1. Behind(w) = Registered
        BY <1>1, <2>2, BehindEnd
      <3>2. \A k \in Registered : KeyInLine(q, k)
        BY <2>1, <3>1 DEF RunRight
      <3>3. run'[w].rec = q /\ pc'[w] = "idle"
        BY <1>1, <1>8, <2>2, Forgets DEF Sync, GoTo
      <3> QED
        BY <2>1, <3>2, <3>3, InLineByKeys
    <2>3. CASE ~AtEnd(w) /\ UNCHANGED run /\ pc'[w] \in {"complete", "still_due"}
      <3>1. /\ run' = run /\ Behind(w)' = Behind(w) /\ SecondLoop(w)'
            /\ ~FirstLoop(w) /\ ~FirstLoop(w)'
        BY <2>1, <2>3 DEF Behind, Position, SecondLoop, FirstLoop
      <3>2. ASSUME NEW k \in Ahead(w)' PROVE KnowsEnough(w, k)'
        <4>1. k \in Ahead(w) /\ Tried(w, k)' = Tried(w, k) /\ k \in Registered
          BY <2>1, <3>1, <3>2 DEF Tried, Ahead
        <4> QED
          BY <1>1, <1>2, <3>1, <4>1, KnowledgeKept DEF RunRight
      <3>3. ASSUME NEW k \in Registered \cap Behind(w)' PROVE KeyInLine(run[w].rec, k)'
        BY <1>2, <2>1, <3>1, <3>3 DEF RunRight, KeyInLine, facts
      <3> QED
        BY <2>3, <3>1, <3>2, <3>3 DEF RunRight, Active
    <2>4. CASE ~AtEnd(w) /\ Compared(w) /\ UNCHANGED pc
      <3>1. ~(isComplete[j] = "yes" /\ run[w].rows[j] = "pending")
            /\ ~(isComplete[j] = "no" /\ run[w].rows[j] = "completed" /\ j \in Reopenable)
        BY <1>1, <1>8, <2>4 DEF Sync, MayComplete, MayReopen, GoTo
      <3>2. KeyInLine(q, j)
        BY <1>7, <2>1, <2>4, <3>1 DEF KnowsEnough, KeyInLine, Tried
      <3>3. ASSUME NEW k, k = j, NEW r, r = q PROVE KeyInLine(r, k)'
        BY <1>2, <2>1, <3>2, <3>3 DEF KeyInLine, facts
      <3>4. j \in Registered
        BY <1>7, <2>1, <2>4
      <3> QED
        BY <1>1, <1>6, <2>1, <2>4, <3>3, <3>4
    <2> QED
      BY <1>1, <1>8, <2>2, <2>3, <2>4 DEF Sync, GoTo
  <1>9. CASE StillDue(w)
    <2>1. /\ ~AtEnd(w) /\ SecondLoop(w) /\ steps' = steps /\ isComplete[j] = "no"
      BY <1>1, <1>9 DEF StillDue, LocalsTyped, SecondLoop, checklist, DecidedRight
    <2>2. CASE ~shouldSeed[j] /\ Compared(w) /\ pc'[w] = "sync"
      <3>1. KeyInLine(q, j)
        BY <1>7, <2>1, <2>2 DEF KnowsEnough, KeyInLine, Tried
      <3>2. ASSUME NEW k, k = j, NEW r, r = q PROVE KeyInLine(r, k)'
        BY <1>2, <2>1, <3>1, <3>2 DEF KeyInLine, facts
      <3>3. j \in Registered
        BY <1>7, <2>1
      <3> QED
        BY <1>1, <1>6, <2>1, <2>2, <3>2, <3>3
    <2>3. CASE pc'[w] = "reopen" /\ UNCHANGED run
      <3>1. /\ run' = run /\ Behind(w)' = Behind(w) /\ SecondLoop(w)'
            /\ ~FirstLoop(w) /\ ~FirstLoop(w)'
        BY <2>1, <2>3 DEF Behind, Position, SecondLoop, FirstLoop
      <3>2. ASSUME NEW k \in Ahead(w)' PROVE KnowsEnough(w, k)'
        <4>1. k \in Ahead(w) /\ Tried(w, k)' = Tried(w, k) /\ k \in Registered
          BY <2>1, <3>1, <3>2 DEF Tried, Ahead
        <4> QED
          BY <1>1, <1>2, <3>1, <4>1, KnowledgeKept DEF RunRight
      <3>3. ASSUME NEW k \in Registered \cap Behind(w)' PROVE KeyInLine(run[w].rec, k)'
        BY <1>2, <2>1, <3>1, <3>3 DEF RunRight, KeyInLine, facts
      <3> QED
        BY <2>3, <3>1, <3>2, <3>3 DEF RunRight, Active
    <2> QED
      BY <1>1, <1>9, <2>2, <2>3 DEF StillDue, GoTo, Due
  <1>10. CASE Complete(w)
    <2>1. /\ ~AtEnd(w) /\ SecondLoop(w) /\ Compared(w) /\ pc'[w] = "sync"
          /\ isComplete[j] = "yes" /\ TransitionStep(q, j, "completed")
      BY <1>1, <1>10 DEF Complete, LocalsTyped, SecondLoop, DecidedRight, GoTo, CompleteStep
    <2>2. j \in Registered /\ j \in Key
      BY <1>7, <2>1
    <2>3. steps'[q][j].status = "completed"
      <3> HIDE DEF q, j
      <3> QED
        BY <1>1, <2>1, <2>2, TransitionEffect DEF q, DoneStatus
    <2>4. ASSUME NEW k, k = j, NEW r, r = q PROVE KeyInLine(r, k)'
      BY <1>2, <2>1, <2>3, <2>4 DEF KeyInLine, facts
    <2> QED
      BY <1>1, <1>6, <2>1, <2>2, <2>4
  <1>11. CASE Reopen(w)
    <2>1. /\ ~AtEnd(w) /\ SecondLoop(w) /\ Compared(w) /\ pc'[w] = "sync"
          /\ isComplete[j] = "no"
          /\ ReopenStep(q, j) \/ (steps[q][j].status # "completed" /\ steps' = steps)
      BY <1>1, <1>11 DEF Reopen, LocalsTyped, SecondLoop, DecidedRight, GoTo, CanReopen, checklist
    <2>2. j \in Registered /\ j \in Key /\ (KnowsEnough(w, j) \/ KeyInLine(q, j))
      BY <1>7, <2>1
    <2>3. \/ steps'[q][j].status = "pending"
          \/ steps[q][j].status # "completed" /\ steps' = steps
      <3> HIDE DEF q, j
      <3> QED
        BY <1>1, <2>1, <2>2, ReopenEffect DEF q
    <2>4. ASSUME NEW k, k = j, NEW r, r = q PROVE KeyInLine(r, k)'
      BY <1>2, <2>1, <2>2, <2>3, <2>4 DEF KeyInLine, facts, KnowsEnough, Tried
    <2> QED
      BY <1>1, <1>6, <2>1, <2>2, <2>4
  <1>12. CASE Ensure(w)
    BY <1>12 DEF Ensure, Active
  <1> QED
    BY <1>3, <1>4, <1>5, <1>8, <1>9, <1>10, <1>11, <1>12 DEF RunStep

-----------------------------------------------------------------------------
(* Undisturbed runs.                                                       *)
LEMMA OwnKnows ==
    ASSUME RunTypeOK, NEW w \in Worker, RunStep(w), PhaseInv(w), KnowsRows(w)
    PROVE  KnowsRows(w)'
  <1>1. /\ run \in [Worker -> Locals] /\ run[w] \in Locals /\ run[w].rec \in Record
        /\ run[w].rows \in [Registered -> KnownStatus]
        /\ pc \in [Worker -> Phase] /\ LocalsTyped(w) /\ TypeOK
    BY TypedParts DEF Locals
  <1> DEFINE q == run[w].rec
             j == CurrentKey(w)
  <1>2. ASSUME pc'[w] \in {"idle", "snapshot"} PROVE KnowsRows(w)'
    BY <1>2 DEF KnowsRows, Ahead, FirstLoop, SecondLoop
  <1>3. ASSUME run'[w].rec = q, run'[w].rows = run[w].rows, steps' = steps,
               Ahead(w)' \subseteq Ahead(w)
        PROVE  KnowsRows(w)'
    BY <1>3 DEF KnowsRows
  <1>4. ASSUME ~AtEnd(w), SecondLoop(w), Compared(w), pc'[w] = "sync",
               \A k \in Key \ {j} : steps'[q][k] = steps[q][k]
        PROVE  KnowsRows(w)'
    <2>1. /\ run'[w].rec = q /\ Behind(w)' = Behind(w) \union {j}
          /\ \A k \in Registered \ {j} : run'[w].rows[k] = run[w].rows[k]
      BY <1>4, ComparedOnce DEF PhaseInv
    <2>2. Ahead(w)' \subseteq Ahead(w) \ {j} /\ Ahead(w) \subseteq Registered
      BY <1>4, <2>1 DEF Ahead, FirstLoop, SecondLoop
    <2> QED
      BY <1>4, <2>1, <2>2, RegisteredKeys DEF KnowsRows
  <1>5. CASE Ensure(w)
    BY <1>1, <1>2, <1>5 DEF Ensure, GoTo
  <1>6. CASE Snapshot(w)
    <2>1. /\ run'[w].rec = q /\ steps' = steps
          /\ \A k \in Registered : run'[w].rows[k] = steps[q][k].status
      BY <1>1, <1>6 DEF Snapshot, Locals, checklist
    <2> QED
      BY <2>1 DEF KnowsRows, Ahead
  <1>7. CASE Seed(w)
    <2>1. run'[w].rec = q /\ run'[w].rows = run[w].rows /\ steps' = steps
      BY <1>1, <1>7 DEF Seed, NextStep, Locals, checklist
    <2>2. Ahead(w)' \subseteq Ahead(w)
      BY <1>7 DEF Seed, Ahead, FirstLoop
    <2> QED
      BY <1>3, <2>1, <2>2
  <1>8. CASE Add(w)
    <2>1. /\ ~AtEnd(w) /\ j \in Registered /\ j \in Key /\ FirstLoop(w)
          /\ run[w].rows[j] = "absent"
      BY <1>1, <1>8, AtWork DEF Add, LocalsTyped, PhaseInv, FirstLoop
    <2>2. steps[q][j].status = "absent"
      BY <2>1 DEF KnowsRows, Ahead
    <2>3. /\ steps'[q][j].status = "pending"
          /\ \A k \in Key \ {j} : steps'[q][k] = steps[q][k]
      <3>1. AddStep(q, j, "pending")
        BY <1>8, <2>2 DEF Add
      <3> HIDE DEF q, j
      <3> QED
        BY <1>1, <2>1, <3>1, AddEffect DEF Status, WritesStep, q
    <2>4. Notes(w, j, "pending") /\ "pending" \in KnownStatus
      BY <1>8 DEF Add, Notes, StatusOnceAdded, KnownStatus, Status
    <2>5. ASSUME NEW k \in Registered, Notes(w, k, "pending")
          PROVE  run'[w].rec = q /\ run'[w].rows = [run[w].rows EXCEPT ![k] = "pending"]
      BY <2>4, <2>5, Records
    <2>6. run'[w].rec = q /\ run'[w].rows = [run[w].rows EXCEPT ![j] = "pending"]
      BY <2>1, <2>4, <2>5
    <2>7. ASSUME NEW k \in Registered PROVE run'[w].rows[k] = steps'[q][k].status
      <3>1. run[w].rows[k] = steps[q][k].status
        BY <2>1 DEF KnowsRows, Ahead
      <3> QED
        BY <1>1, <2>3, <2>6, <3>1, RegisteredKeys
    <2> QED
      BY <2>6, <2>7 DEF KnowsRows, Ahead
  <1>9. CASE Sync(w)
    <2>1. SecondLoop(w) /\ steps' = steps
      BY <1>9 DEF Sync, SecondLoop, checklist
    <2>2. CASE AtEnd(w)
      BY <1>1, <1>2, <1>9, <2>2 DEF Sync, GoTo
    <2>3. CASE ~AtEnd(w) /\ UNCHANGED run /\ pc'[w] \in {"complete", "still_due"}
      <3>1. Ahead(w)' \subseteq Ahead(w)
        BY <2>1, <2>3 DEF Ahead, FirstLoop, SecondLoop, Behind, Position
      <3> QED
        BY <1>3, <2>1, <2>3, <3>1
    <2>4. CASE ~AtEnd(w) /\ Compared(w) /\ UNCHANGED pc
      BY <1>4, <1>9, <2>1, <2>4 DEF Sync
    <2> QED
      BY <1>1, <1>9, <2>2, <2>3, <2>4 DEF Sync, GoTo
  <1>10. CASE StillDue(w)
    <2>1. ~AtEnd(w) /\ SecondLoop(w) /\ steps' = steps
      BY <1>1, <1>10 DEF StillDue, LocalsTyped, SecondLoop, checklist
    <2>2. CASE pc'[w] = "reopen" /\ UNCHANGED run
      <3>1. Ahead(w)' \subseteq Ahead(w)
        BY <2>1, <2>2 DEF Ahead, FirstLoop, SecondLoop, Behind, Position
      <3> QED
        BY <1>3, <2>1, <2>2, <3>1
    <2>3. CASE Compared(w) /\ pc'[w] = "sync"
      BY <1>4, <2>1, <2>3
    <2> QED
      BY <1>1, <1>10, <2>2, <2>3 DEF StillDue, GoTo
  <1>11. CASE Complete(w) \/ Reopen(w)
    <2>1. /\ ~AtEnd(w) /\ SecondLoop(w) /\ Compared(w) /\ pc'[w] = "sync"
          /\ \/ TransitionStep(q, j, "completed")
             \/ ReopenStep(q, j)
             \/ steps' = steps
      BY <1>1, <1>11
         DEF Complete, Reopen, LocalsTyped, SecondLoop, GoTo, CompleteStep, checklist
    <2>2. j \in Key
      BY <1>1, <2>1, AtWork
    <2>3. \A k \in Key \ {j} : steps'[q][k] = steps[q][k]
      <3> HIDE DEF q, j
      <3> QED
        BY <1>1, <2>1, <2>2, TransitionEffect, ReopenEffect DEF q, WritesStep, DoneStatus
    <2> QED
      BY <1>4, <2>1, <2>3
  <1> QED
    BY <1>5, <1>6, <1>7, <1>8, <1>9, <1>10, <1>11 DEF RunStep

(* An undisturbed run that is about to write knows why.                    *)
LEMMA QuietRunsHaveCause ==
    ASSUME RunTypeOK, NEW w \in Worker, PhaseInv(w), DecidedRight(w), KnowsRows(w),
           pc[w] \in {"add", "complete", "reopen"}
    PROVE  ~InLine(run[w].rec)
  <1> DEFINE j == CurrentKey(w)
             status == steps[run[w].rec][j].status
  <1>1. j \in Registered
    BY TypedParts, AtWork DEF LocalsTyped
  <1>2. j \in Ahead(w) /\ status = run[w].rows[j]
    BY <1>1 DEF PhaseInv, Ahead, FirstLoop, SecondLoop, KnowsRows
  <1>3. \/ status = "absent" /\ shouldSeed[j]
        \/ status = "pending" /\ isComplete[j] = "yes"
        \/ status = "completed" /\ isComplete[j] = "no" /\ j \in Reopenable /\ shouldSeed[j]
    BY <1>2 DEF PhaseInv, DecidedRight
  <1> QED
    BY <1>1, <1>3 DEF InLine

-----------------------------------------------------------------------------
(* The invariant is inductive.                                             *)

(* A write of a current run takes no checklist out of line.                *)
LEMMA ChecklistsStayInLine ==
    ASSUME UNCHANGED facts, NEW r \in Record, InLine(r),
           \A k \in Registered : SoundWrite(r, k)
    PROVE  InLine(r)'
  BY LinesKept, InLineByKeys

(* The run that is to bring a record in line keeps at it until it has.     *)
LEMMA TakenOverKept ==
    ASSUME RecInv, NEW u \in Worker, RunStep(u), NEW r \in Record, TakenOver(r),
           \A k \in Registered : SoundWrite(r, k)
    PROVE  TakenOver(r)' \/ InLine(r)'
  <1>1. PICK v \in Worker : Active(v) /\ Current(v) /\ RunRight(v) /\ run[v].rec = r
    BY DEF TakenOver
  <1>2. RunTypeOK /\ UNCHANGED facts /\ heard \in [Worker -> Heard]
        /\ PhaseInv(v) /\ DecidedRight(v)
    BY <1>1, RunFrame, TypedParts DEF RecInv, RunInv, Heard
  <1>3. Current(v)'
    BY <1>1, <1>2, RunFrame, Telling DEF Current
  <1>4. CASE v # u
    <2>1. Still(v)
      BY <1>2, <1>4, RunFrame DEF Still, Alone
    <2>2. RunRight(v)' /\ Active(v)' /\ run'[v].rec = r
      BY <1>1, <1>2, <2>1, OthersRight DEF Still, Active
    <2> QED
      BY <1>3, <2>2 DEF TakenOver
  <1>5. CASE v = u
    <2>1. /\ run'[v].rec = r
          /\ \/ Active(v)' /\ RunRight(v)'
             \/ InLine(r)
      BY <1>1, <1>2, <1>5, OwnRight
    <2>2. CASE Active(v)' /\ RunRight(v)'
      BY <1>3, <2>1, <2>2 DEF TakenOver
    <2>3. CASE InLine(r)
      BY <1>2, <2>3, ChecklistsStayInLine
    <2> QED
      BY <2>1, <2>2, <2>3
  <1> QED
    BY <1>4, <1>5

(* A record that a run creates is taken over by it.                        *)
LEMMA CreatorTakesOver ==
    ASSUME RecInv, NEW u \in Worker, RunStep(u), Current(u),
           NEW r \in Record, ~Exists(r), onboarding'[r].started_on # Null
    PROVE  TakenOver(r)'
  <1>1. /\ RunTypeOK /\ TypeOK /\ PhaseInv(u) /\ LocalsTyped(u)
        /\ run[u].rec \in Record /\ pc \in [Worker -> Phase] /\ heard \in [Worker -> Heard]
    BY TypedParts DEF RecInv, RunInv, Locals, Heard
  <1>2. RunWrites(u)
    BY <1>1, RunFrame DEF checklist, Exists
  <1> DEFINE q == run[u].rec
             j == CurrentKey(u)
  <1>3. pc[u] \in {"add", "complete", "reopen"} => j \in Key /\ Exists(q)
    BY <1>1, AtWork DEF LocalsTyped, PhaseInv, Active
  <1>4. ASSUME WritesStep(q, j) PROVE r = q
    BY <1>1, <1>4 DEF WritesStep, Leaves, Exists
  <1>5. pc[u] = "ensure" /\ r = q
    <2>1. CASE pc[u] = "ensure" /\ GetOrCreate(q)
      BY <1>1, <2>1, CreateEffect DEF Leaves, Exists
    <2>2. CASE \/ pc[u] = "add" /\ AddStep(q, j, "pending")
               \/ pc[u] = "complete" /\ TransitionStep(q, j, "completed")
               \/ pc[u] = "reopen" /\ ReopenStep(q, j)
      <3>1. j \in Key /\ Exists(q)
        BY <1>3, <2>2
      <3> HIDE DEF q, j
      <3>2. WritesStep(q, j)
        BY <1>1, <2>2, <3>1, AddEffect, TransitionEffect, ReopenEffect
           DEF q, Status, DoneStatus
      <3> QED
        BY <1>4, <3>1, <3>2
    <2> QED
      BY <1>2, <2>1, <2>2 DEF RunWrites
  <1>6. Forget(u) /\ pc'[u] = "snapshot"
    BY <1>1, <1>5 DEF RunStep, Ensure, Snapshot, Seed, Add, Sync, StillDue, Complete,
                       Reopen, GoTo, checklist, Exists
  <1>7. run'[u].rec = r
    BY <1>1, <1>5, <1>6, Forgets
  <1>8. Current(u)'
    BY <1>1, RunFrame, Telling DEF Current
  <1> QED
    BY <1>6, <1>7, <1>8
       DEF TakenOver, RunRight, Active, Ahead, FirstLoop, SecondLoop

(* The step of a run, seen from every run.                                 *)
LEMMA RunStepKeeps ==
    ASSUME RecInv, NEW u \in Worker, RunStep(u), NEW w \in Worker
    PROVE  RunInv(w)'
  <1>1. /\ RunTypeOK /\ TypeOK /\ RunInv(w) /\ RunInv(u)
        /\ run[w].rec \in Record /\ pc \in [Worker -> Phase] /\ heard \in [Worker -> Heard]
    BY TypedParts DEF RecInv, Locals, Heard
  <1>2. PhaseInv(w)'
    <2>1. [RecalcStep]_allVars
      BY DEF RecalcStep
    <2> QED
      BY <2>1, PhasesKept DEF RecInv, RunInv
  <1>3. /\ UNCHANGED facts /\ (w # u => Still(w))
        /\ Told(u) \/ UNCHANGED <<checklist, heard>>
    BY <1>1, RunFrame DEF Still, Alone
  <1>4. /\ Current(w)' <=> Current(w)
        /\ w # u /\ heard'[w] = {} =>
               UNCHANGED checklist \/ run[w].rec # run[u].rec
        /\ Untold(w)' =>
               /\ Untold(w)
               /\ Current(u) \/ UNCHANGED checklist \/ run[w].rec # run[u].rec
        /\ heard'[w] = {} => heard[w] = {}
    BY <1>1, <1>3, Telling, Marks DEF Current, Untold
  <1>5. Current(w)' => DecidedRight(w)'
    <2>1. CASE w = u
      BY <1>1, <1>4, <2>1, OwnPhase DEF RunInv
    <2>2. CASE w # u
      BY <1>1, <1>3, <1>4, <2>2 DEF RunInv, DecidedRight, Still, facts, CurrentKey, Position
    <2> QED
      BY <2>1, <2>2
  <1>6. ASSUME Untold(w)'
        PROVE  /\ Untold(w) /\ Current(w)
               /\ \A k \in Registered : SoundWrite(run[w].rec, k)
    <2>1. CASE Current(u)
      BY <1>1, <1>4, <1>6, <2>1, CurrentRunsWriteSoundly, Marks
         DEF RunInv, Untold, Current
    <2>2. CASE UNCHANGED checklist
      BY <1>4, <1>6, <2>2, Marks DEF checklist, SoundWrite, Untold, Current
    <2>3. CASE run[w].rec # run[u].rec
      BY <1>1, <1>4, <1>6, <2>3, OtherRecordsKept, Marks DEF SoundWrite, Untold, Current
    <2> QED
      BY <1>4, <1>6, <2>1, <2>2, <2>3
  <1>7. ASSUME Untold(w)', Active(w)' PROVE RunRight(w)'
    <2>1. CASE w # u
      <3>1. Active(w)
        BY <1>3, <1>7, <2>1 DEF Still, Active
      <3> QED
        BY <1>1, <1>3, <1>6, <1>7, <2>1, <3>1, OthersRight DEF RunInv
    <2>2. CASE w = u /\ Active(w)
      BY <1>1, <1>6, <1>7, <2>2, OwnRight DEF RunInv, Active
    <2>3. CASE w = u /\ ~Active(w)
      <3>1. pc'[w] = "snapshot"
        BY <1>1, <1>7, <2>3 DEF RunStep, Ensure, Snapshot, Seed, Add, Sync, StillDue,
                                Complete, Reopen, GoTo, Active
      <3> QED
        BY <3>1 DEF RunRight, Ahead, FirstLoop, SecondLoop
    <2> QED
      BY <2>1, <2>2, <2>3
  <1>8. ASSUME Untold(w)', Finished(w)', w = u, NEW r \in Record, r = run[w].rec
        PROVE  run'[w].rec = r /\ (onboarding'[r].started_on # Null => InLine(r)')
    <2>1. CASE Active(w)
      <3>1. run'[w].rec = r /\ InLine(r)
        BY <1>1, <1>6, <1>8, <2>1, OwnRight DEF RunInv, Active, Finished
      <3> QED
        BY <1>3, <1>6, <1>8, <3>1, ChecklistsStayInLine
    <2>2. CASE ~Active(w)
      <3>1. Ensure(w) /\ pc'[w] = "idle"
        BY <1>8, <2>2 DEF RunStep, Ensure, Snapshot, Seed, Add, Sync, StillDue,
                          Complete, Reopen, Active, Finished
      <3>2. run' = run /\ UNCHANGED checklist /\ ~Exists(r)
        BY <1>1, <1>8, <3>1 DEF Ensure, GoTo
      <3> QED
        BY <1>8, <3>2 DEF checklist, Exists
    <2> QED
      BY <2>1, <2>2
  <1>9. ASSUME Untold(w)', Finished(w)', NEW r \in Record, r = run'[w].rec,
               onboarding'[r].started_on # Null
        PROVE  InLine(r)' \/ TakenOver(r)'
    <2>1. CASE w = u
      BY <1>1, <1>8, <1>9, <2>1
    <2>2. CASE w # u
      <3>1. Finished(w) /\ r = run[w].rec
        BY <1>3, <1>9, <2>2 DEF Still, Finished
      <3>2. CASE Exists(r)
        <4>1. InLine(r) \/ TakenOver(r)
          BY <1>1, <1>6, <1>9, <3>1, <3>2 DEF RunInv
        <4>2. \A k \in Registered : SoundWrite(r, k)
          BY <1>6, <1>9, <3>1 DEF SoundWrite
        <4> QED
          BY <1>3, <4>1, <4>2, ChecklistsStayInLine, TakenOverKept
      <3>3. CASE ~Exists(r)
        <4>1. Current(u)
          BY <1>1, <1>4, <1>9, <3>1, <3>3, OtherRecordsKept DEF checklist, Exists
        <4> QED
          BY <1>9, <3>3, <4>1, CreatorTakesOver
      <3> QED
        BY <3>2, <3>3
    <2> QED
      BY <2>1, <2>2
  <1>10. ASSUME heard'[w] = {}
         PROVE  /\ KnowsRows(w)'
                /\ \A r \in Record : r = run'[w].rec /\ Finished(w)'
                       /\ onboarding'[r].started_on # Null => InLine(r)'
    <2>1. heard[w] = {} /\ Untold(w)' /\ KnowsRows(w)
      BY <1>1, <1>4, <1>10 DEF Untold, RunInv
    <2>2. CASE w = u
      <3>1. KnowsRows(w)'
        BY <1>1, <2>1, <2>2, OwnKnows DEF RunInv
      <3> QED
        BY <1>1, <1>8, <2>1, <2>2, <3>1
    <2>3. CASE w # u
      <3>1. /\ Still(w)
            /\ onboarding'[run[w].rec] = onboarding[run[w].rec]
            /\ steps'[run[w].rec] = steps[run[w].rec]
        BY <1>1, <1>3, <1>4, <1>10, <2>3, OtherRecordsKept DEF checklist
      <3>2. KnowsRows(w)'
        BY <2>1, <3>1 DEF KnowsRows, Still, Ahead, Behind, FirstLoop,
                          SecondLoop, Position
      <3>3. \A r \in Record : r = run'[w].rec /\ Finished(w)'
                /\ onboarding'[r].started_on # Null => InLine(r)
        BY <1>1, <2>1, <3>1 DEF RunInv, Finished, Still, Exists
      <3>4. ASSUME NEW r \in Record, r = run'[w].rec, InLine(r) PROVE InLine(r)'
        <4>1. \A k \in Registered : SoundWrite(r, k)
          BY <1>6, <2>1, <3>1, <3>4 DEF SoundWrite, Still
        <4> QED
          BY <1>3, <3>4, <4>1, ChecklistsStayInLine
      <3> QED
        BY <3>2, <3>3, <3>4
    <2> QED
      BY <2>2, <2>3
  <1>11. run'[w].rec \in Record
    BY <1>1, RunTyped, RunFrame, TypedParts DEF Alone, Locals
  <1>12. /\ Untold(w)' /\ Finished(w)' /\ Exists(run[w].rec)' =>
                (InLine(run[w].rec) \/ TakenOver(run[w].rec))'
         /\ heard'[w] = {} /\ Finished(w)' /\ Exists(run[w].rec)' => InLine(run[w].rec)'
    BY <1>9, <1>10, <1>11 DEF Exists, InLine, TakenOver
  <1> QED
    BY <1>2, <1>5, <1>7, <1>10, <1>12 DEF RunInv

(* A step that is not one of a run.                                        *)
LEMMA StillKeeps ==
    ASSUME RecInv, UNCHANGED <<checklist, facts>>, NEW w \in Worker, Still(w),
           heard'[w] = heard[w], PhaseInv(w)',
           \A v \in Worker : Active(v) => Still(v) /\ heard'[v] = heard[v]
    PROVE  RunInv(w)'
  <1>1. RunInv(w)
    BY DEF RecInv
  <1>2. ASSUME NEW v \in Worker, Still(v), RunRight(v) PROVE RunRight(v)'
    BY <1>2 DEF RunRight, Still, Ahead, Behind, FirstLoop, SecondLoop, Position,
                KnowsEnough, KeyInLine, Tried, checklist, facts
  <1>3. ASSUME NEW r, TakenOver(r) PROVE TakenOver(r)'
    <2>1. PICK v \in Worker : Active(v) /\ Current(v) /\ RunRight(v) /\ run[v].rec = r
      BY <1>3 DEF TakenOver
    <2>2. Active(v)' /\ Current(v)' /\ RunRight(v)' /\ run'[v].rec = r
      BY <1>2, <2>1 DEF Active, Current, Still
    <2> QED
      BY <2>2 DEF TakenOver
  <1>4. Current(w) /\ DecidedRight(w) => DecidedRight(w)'
    BY DEF DecidedRight, CurrentKey, Position, Still, facts
  <1>5. KnowsRows(w) => KnowsRows(w)'
    BY DEF KnowsRows, Still, checklist, Ahead, Behind, FirstLoop, SecondLoop, Position
  <1>6. \A r : InLine(r) => InLine(r)'
    BY DEF InLine, checklist, facts
  <1>7. /\ Current(w)' <=> Current(w)
        /\ Untold(w)' <=> Untold(w)
        /\ Active(w)' <=> Active(w)
        /\ Finished(w)' <=> Finished(w)
        /\ Exists(run[w].rec)' <=> Exists(run[w].rec)
    BY DEF Current, Untold, Active, Finished, Exists, Still, checklist
  <1>8. ASSUME NEW r, r = run[w].rec
        PROVE  /\ InLine(r) => InLine(run[w].rec)'
               /\ TakenOver(r) => TakenOver(run[w].rec)'
    <2>1. InLine(r)' => InLine(run[w].rec)'
      BY <1>8 DEF InLine, Still
    <2>2. TakenOver(r)' => TakenOver(run[w].rec)'
      BY <1>8 DEF TakenOver, Still
    <2> QED
      BY <1>3, <1>6, <2>1, <2>2
  <1> QED
    BY <1>1, <1>2, <1>4, <1>5, <1>7, <1>8 DEF RunInv

LEMMA RecInit == RecalcInit => RecInv
  <1> SUFFICES ASSUME RecalcInit PROVE RecInv
    OBVIOUS
  <1>1. \A w \in Worker : pc[w] = "idle" /\ ~run[w].create /\ heard[w] = {"outside"}
    BY DEF RecalcInit, NoRun
  <1> QED
    BY <1>1, RecalcInitTyped, Marks
       DEF RecInv, RunInv, PhaseInv, Active, SecondLoop, Current, Untold

LEMMA RecStep == RecInv /\ [RecalcStep]_allVars => RecInv'
  <1> SUFFICES ASSUME RecInv, [RecalcStep]_allVars PROVE RecInv'
    OBVIOUS
  <1>1. RunTypeOK' /\ \A w \in Worker : PhaseInv(w)'
    BY RecalcStepTyped, PhasesKept DEF RecInv, RunInv
  <1> SUFFICES ASSUME NEW w \in Worker PROVE RunInv(w)'
    BY <1>1 DEF RecInv
  <1>2. ASSUME NEW u \in Worker, RunStep(u) PROVE RunInv(w)'
    BY <1>2, RunStepKeeps
  <1>3. ASSUME NEW u \in Worker, NEW r \in Record, NEW c \in BOOLEAN, Start(u, r, c)
        PROVE  RunInv(w)'
    <2>1. /\ pc \in [Worker -> Phase] /\ run \in [Worker -> Locals]
          /\ heard \in [Worker -> Heard]
      BY TypedParts DEF RecInv, Heard
    <2>2. \A v \in Worker \ {u} : Still(v) /\ heard'[v] = heard[v]
      BY <1>3, <2>1 DEF Start, GoTo, Still
    <2>3. CASE w = u
      <3>1. pc'[w] = "ensure"
        BY <1>3, <2>1, <2>3 DEF Start, GoTo
      <3> QED
        BY <1>1, <3>1 DEF RunInv, DecidedRight, Active, Finished, KnowsRows, Ahead,
                          FirstLoop, SecondLoop
    <2>4. CASE w # u
      <3>1. ~Active(u) /\ UNCHANGED <<checklist, facts>>
        BY <1>3 DEF Start, Active
      <3> QED
        BY <1>1, <2>2, <2>4, <3>1, StillKeeps
    <2> QED
      BY <2>3, <2>4
  <1>4. ASSUME Outside PROVE RunInv(w)'
    <2>1. heard'[w] = {"outside"}
      BY <1>4 DEF Outside
    <2> QED
      BY <1>1, <2>1, Marks DEF RunInv, Current, Untold
  <1>5. CASE UNCHANGED allVars
    BY <1>1, <1>5, StillKeeps DEF allVars, Still, checklist, facts
  <1> QED
    BY <1>2, <1>3, <1>4, <1>5
       DEF RecalcStep, FactsChange, HandlerAdds, HandlerCompletes, StaffWaives

(* RecInv holds of every reachable state, for every set of records, keys   *)
(* and workers, every registry and every number of outside changes.        *)
THEOREM RecalcInvariant == RecalcSpec => []RecInv
  BY RecInit, RecStep, NextIsStep, PTL DEF RecalcSpec

-----------------------------------------------------------------------------
(* Theorems on the runs.                                                   *)

(* A run of api.recalculate that nothing disturbed leaves the checklist in *)
(* line with the step predicates; where it leaves no record at all it was  *)
(* not asked to create one.                                                *)
THEOREM QuietRunsBringInLine == RecalcSpec => []QuietRunBringsInLine
  <1>1. RecInv => QuietRunBringsInLine
    BY DEF RecInv, RunInv, PhaseInv, Finished, QuietRunBringsInLine
  <1> QED
    BY <1>1, RecalcInvariant, PTL

(* However runs that all began after the last outside change overlap, the  *)
(* record of each is in line once all have ended (api.py:179-250).         *)
THEOREM OverlappingRunsConverge == RecalcSpec => []OverlappingRunsBringInLine
  <1>1. RecInv => OverlappingRunsBringInLine
    <2> SUFFICES ASSUME RecInv, \A v \in Worker : Finished(v), NEW w \in Worker,
                        heard[w] \subseteq {"run"}, Exists(run[w].rec)
                 PROVE  InLine(run[w].rec)
      BY DEF OverlappingRunsBringInLine
    <2>1. heard[w] \in Heard /\ RunInv(w)
      BY TypedParts DEF RecInv, Heard
    <2>2. Untold(w)
      <3>1. "stale" \notin heard[w] /\ "outside" \notin heard[w]
        OBVIOUS
      <3> QED
        BY <2>1, <3>1 DEF Heard, Untold
    <2>3. ~TakenOver(run[w].rec)
      BY DEF TakenOver, Active, Finished
    <2> QED
      BY <2>1, <2>2, <2>3 DEF RunInv
  <1> QED
    BY <1>1, RecalcInvariant, PTL

CauseToWrite ==
    \A w \in Worker :
        heard[w] = {} /\ pc[w] \in {"add", "complete", "reopen"} => ~InLine(run[w].rec)

(* Idempotence: an undisturbed run that meets a checklist in line calls no *)
(* helper that writes a step.                                              *)
THEOREM QuietRunsAreIdempotent == RecalcSpec => QuietRunKeepsLine
  <1>1. RecInv => CauseToWrite
    <2> SUFFICES ASSUME RecInv, NEW w \in Worker, heard[w] = {},
                        pc[w] \in {"add", "complete", "reopen"}
                 PROVE  ~InLine(run[w].rec)
      BY DEF CauseToWrite
    <2>1. RunTypeOK /\ RunInv(w) /\ Current(w)
      BY Marks DEF RecInv, Current
    <2> QED
      BY <2>1, QuietRunsHaveCause DEF RunInv
  <1>2. QuietRunKeepsLine <=> [][CauseToWrite]_allVars
    BY PTL DEF QuietRunKeepsLine, CauseToWrite
  <1> QED
    BY <1>1, <1>2, RecalcInvariant, PTL

=============================================================================
