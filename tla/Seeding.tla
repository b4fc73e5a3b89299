-------------------------------- MODULE Seeding --------------------------------
(***************************************************************************)
(* management/commands/seed_onboarding.py: the backfill of checklists for  *)
(* students who have none for the active term.  For each of them it sends  *)
(* the event APPLICATION_STARTED, which the bridge of apps.py and the      *)
(* registry of handlers.py carry to the host's handler; that handler adds  *)
(* the registered steps.  Then the command completes the steps whose       *)
(* complete_when holds.  Every helper call is a transaction of its own,    *)
(* and meanwhile students visit, other events seed, staff waive steps, the *)
(* active term changes and new code registers new steps.                   *)
(*                                                                         *)
(* seeded_when is left out: every registered step is due.                  *)
(***************************************************************************)
EXTENDS Checklist

CONSTANTS
    Student,
    Term,
    Predicated,     \* the keys whose step has a complete_when
    Events          \* what may happen beside the command

ASSUME RecordAssumption == Record = Student \X Term
ASSUME EventsAssumption ==
    /\ Predicated \subseteq Key
    /\ Events \subseteq {"visit", "event", "waive", "rollover", "deploy", "die"}

VARIABLES
    active,         \* the active term
    registered,     \* the steps that the code now deployed registers
    isComplete,     \* the keys whose complete_when holds, for each record
    pc,             \* what the command does next
    run,            \* its locals
    existed         \* history: the records that existed when the run began

checklist == <<onboarding, steps, now>>
world == <<active, registered, isComplete>>
allVars == <<onboarding, steps, now, active, registered, isComplete, pc, run, existed>>

(* The command's term and registry, the students still to process, the     *)
(* current one with the keys still to handle, and those it is done with;   *)
(* history: whether the active term has changed since it began.            *)
NoRun(t) ==
    [term |-> t, registry |-> {}, todo |-> {}, current |-> {}, keys |-> {},
     processed |-> {}, full |-> FALSE, split |-> FALSE]

SeedInit ==
    /\ Init
    /\ active \in Term
    /\ registered \in SUBSET Key
    /\ isComplete \in [Record -> SUBSET Predicated]
    /\ pc = "idle"
    /\ run = NoRun(active)
    /\ existed = {}

Started == {r \in Record : Exists(r)}

-----------------------------------------------------------------------------
(* Students with a record for the term are skipped; --limit, --student and *)
(* the application status narrow down the rest.                            *)
Everyone(t) == Student                  \* mutant: qs.exclude(...) is missing
Remaining(t) == {s \in Student : ~Exists(<<s, t>>)}

Start ==
    /\ pc = "idle"
    /\ \E chosen \in SUBSET Remaining(active) :
          run' = [NoRun(active) EXCEPT !.registry = registered, !.todo = chosen,
                                       !.full = (chosen = Remaining(active))]
    /\ pc' = "next"
    /\ existed' = Started
    /\ UNCHANGED <<checklist, world>>

PredicatedOnly(registry) == registry \intersect Predicated  \* mutant: wrong list
StepsToSeed(registry) == registry

NextStudent(s) ==
    /\ pc = "next"
    /\ s \in run.todo
    /\ run' = [run EXCEPT !.todo = @ \ {s}, !.current = {s}, !.keys = StepsToSeed(run.registry)]
    /\ pc' = "dispatch"
    /\ UNCHANGED <<checklist, world, existed>>

(* The host's handler: add_step for each step, without a term.             *)
HandlerSeeds(s, k) ==
    LET r == <<s, active>> IN
    /\ pc = "dispatch"
    /\ s \in run.current /\ k \in run.keys
    /\ \/ AddStep(r, k, "pending")
       \/ steps[r][k].status # "absent" /\ UNCHANGED checklist
    /\ run' = [run EXCEPT !.keys = @ \ {k}]
    /\ UNCHANGED <<world, pc, existed>>

(* The handler has returned; the steps with a complete_when are next.      *)
Dispatched ==
    /\ pc = "dispatch"
    /\ run.keys = {}
    /\ run' = [run EXCEPT !.keys = run.registry \intersect Predicated]
    /\ pc' = "premark"
    /\ UNCHANGED <<checklist, world, existed>>

(* complete_when is asked about the command's term; complete_step resolves *)
(* the active term anew, and does nothing if there is no such step.        *)
IsDone(s, k) == k \in isComplete[<<s, run.term>>]

Premark(s, k) ==
    LET r == <<s, active>> IN
    /\ pc = "premark"
    /\ s \in run.current /\ k \in run.keys
    /\ \/ IsDone(s, k) /\ CompleteStep(r, k)
       \/ IsDone(s, k) /\ steps[r][k].status = "absent" /\ UNCHANGED checklist
       \/ ~IsDone(s, k) /\ UNCHANGED checklist
    /\ run' = [run EXCEPT !.keys = @ \ {k}]
    /\ UNCHANGED <<world, pc, existed>>

StudentDone ==
    /\ pc = "premark"
    /\ run.keys = {}
    /\ run' = [run EXCEPT !.current = {}, !.processed = @ \union run.current]
    /\ pc' = "next"
    /\ UNCHANGED <<checklist, world, existed>>

Finish ==
    /\ pc = "next"
    /\ run.todo = {}
    /\ pc' = "finished"
    /\ UNCHANGED <<checklist, world, run, existed>>

(* The next run may begin once this one's outcome has been looked at.      *)
Exit ==
    /\ pc = "finished"
    /\ pc' = "idle"
    /\ run' = NoRun(active)
    /\ UNCHANGED <<checklist, world, existed>>

(* The command is killed, or a handler raises: signals are sent with send, *)
(* so the exception ends the command.                                      *)
Die ==
    /\ "die" \in Events
    /\ pc \in {"next", "dispatch", "premark"}
    /\ pc' = "idle"
    /\ run' = NoRun(active)
    /\ UNCHANGED <<checklist, world, existed>>

Command ==
    \/ Start
    \/ \E s \in Student : NextStudent(s)
    \/ \E s \in Student, k \in Key : HandlerSeeds(s, k)
    \/ Dispatched
    \/ \E s \in Student, k \in Key : Premark(s, k)
    \/ StudentDone
    \/ Finish
    \/ Exit
    \/ Die

-----------------------------------------------------------------------------
(* Any page a student opens runs the context processor.                    *)
Visit(s) ==
    /\ "visit" \in Events
    /\ GetOrCreate(<<s, active>>)
    /\ UNCHANGED <<world, pc, run, existed>>

(* The same handler, for an application that starts meanwhile.             *)
EventSeeds(s, k) ==
    /\ "event" \in Events
    /\ k \in registered
    /\ AddStep(<<s, active>>, k, "pending")
    /\ UNCHANGED <<world, pc, run, existed>>

StaffWaives(r, k) ==
    /\ "waive" \in Events
    /\ MarkNotApplicable(r, k)
    /\ UNCHANGED <<world, pc, run, existed>>

Rollover ==
    /\ "rollover" \in Events
    /\ \E t \in Term \ {active} : active' = t
    /\ run' = [run EXCEPT !.split = @ \/ pc # "idle"]
    /\ UNCHANGED <<checklist, registered, isComplete, pc, existed>>

(* New code registers another step; a run under way keeps its registry.    *)
Deploy(k) ==
    /\ "deploy" \in Events
    /\ registered' = registered \union {k}
    /\ UNCHANGED <<checklist, active, isComplete, pc, run, existed>>

ClockTicks ==
    /\ Tick
    /\ UNCHANGED <<world, pc, run, existed>>

SeedNext ==
    \/ Command
    \/ \E s \in Student : Visit(s)
    \/ \E s \in Student, k \in Key : EventSeeds(s, k)
    \/ \E r \in Record, k \in Key : StaffWaives(r, k)
    \/ Rollover
    \/ \E k \in Key : Deploy(k)
    \/ ClockTicks

SeedSpec == SeedInit /\ [][SeedNext]_allVars

-----------------------------------------------------------------------------
(* The command works on one student at a time, within its own registry.    *)
SeedTypeOK ==
    /\ TypeOK
    /\ active \in Term /\ run.term \in Term
    /\ registered \subseteq Key /\ run.registry \subseteq registered
    /\ isComplete \in [Record -> SUBSET Predicated]
    /\ pc \in {"idle", "next", "dispatch", "premark", "finished"}
    /\ Cardinality(run.current) = (IF pc \in {"dispatch", "premark"} THEN 1 ELSE 0)
    /\ run.keys \subseteq run.registry
    /\ run.todo \intersect (run.current \union run.processed) = {}
    /\ existed \subseteq Started

(* A student the command has processed has every step that it knows, and   *)
(* those it found complete are done - whoever else seeds, visits or waives *)
(* at the same time, as long as the active term stays.                     *)
ProcessedAreSeeded ==
    ~run.split =>
        \A s \in run.processed, k \in run.registry :
            LET status == steps[<<s, run.term>>][k].status IN
            /\ status # "absent"
            /\ k \in isComplete[<<s, run.term>>] => status \in DoneStatus

(* If the term changes between two calls, a checklist ends up split        *)
(* between terms; still no step of a processed student is lost.            *)
NoStepLost ==
    \A s \in run.processed, k \in run.registry :
        \E t \in Term : steps[<<s, t>>][k].status # "absent"

CommandStep == pc \notin {"idle", "finished"} /\ run' # run

(* "Safe to re-run" (README.md:362): as long as the active term stays, no  *)
(* record that was there when a run began is changed by it, be it complete *)
(* or not.                                                                 *)
RerunLeavesRecordsAlone ==
    [][\A r \in existed :
          CommandStep /\ ~run.split =>
              onboarding'[r] = onboarding[r] /\ steps'[r] = steps[r]]_allVars

(* complete_when is "used by the backfill command to decide whether an     *)
(* existing student should have this step pre-marked complete"             *)
(* (step_registry.py:60): a step is completed only if its own predicate    *)
(* holds.  It does not hold once the term has changed (README.md).         *)
PremarkedByOwnTerm ==
    [][\A r \in Record, k \in Key :
          /\ CommandStep
          /\ steps'[r][k] # steps[r][k] /\ steps'[r][k].status = "completed"
          => k \in isComplete[r]]_allVars

(* "Backfill ... so existing data matches the new step" (README.md:530;    *)
(* also README.md:374, "each active-term student has an onboarding row"):  *)
(* when a full run has finished, everybody has every registered step.      *)
FullRunReachesEveryone ==
    pc = "finished" /\ run.full =>
        \A s \in Student, k \in run.registry :
            steps[<<s, run.term>>][k].status # "absent"
=============================================================================
