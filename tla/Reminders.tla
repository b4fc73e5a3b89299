------------------------------- MODULE Reminders -------------------------------
(***************************************************************************)
(* services.py: the reminder e-mails for students whose onboarding of the  *)
(* active term is incomplete.  A run builds a plan (build_plan) and then   *)
(* mails its rows one by one (send_notifications).  The scheduled job, a   *)
(* command run by hand and the staff's Send Now button are all senders;    *)
(* nothing keeps them apart.  Checklist.CompletionMatchesSteps says which  *)
(* records are open; the helpers of api.py change the steps under a plan.  *)
(*                                                                         *)
(* Times are ages, counted in parts of a day and capped where the rate     *)
(* limit stops caring, so the clock need not be bounded.                   *)
(***************************************************************************)
EXTENDS Naturals, FiniteSets

CONSTANTS
    Student,        \* the students with a record for the term
    Key,            \* step keys
    Offered,        \* the keys whose step has a notify_label
    Reachable,      \* the students with a valid e-mail address
    Cron,           \* processes that run the scheduled command
    ByHand,         \* processes that run the same command by hand
    Staff,          \* processes that serve Send Now
    Edited,         \* the students whose record form somebody opens
    Modes,          \* the values of is_active that staff use
    Freqs,          \* the values of freq that staff use, in days
    MaxFreq,        \* bound on them
    DayLength,      \* the parts of a day
    MaxCrashes      \* bound on the runs that die

ASSUME FreqAssumption ==
    /\ MaxFreq \in Nat \ {0} /\ DayLength \in Nat \ {0}
    /\ Freqs \subseteq 1 .. MaxFreq
ASSUME CrashesAssumption == MaxCrashes \in Nat
ASSUME SubsetAssumption ==
    /\ Offered \subseteq Key
    /\ Reachable \subseteq Student /\ Edited \subseteq Student
    /\ Modes \subseteq {"Yes", "No", "Debug"}

Job == Cron \union ByHand
Sender == Job \union Staff

VARIABLES
    steps,          \* the status of each student's steps
    age,            \* the age of last_notified_on
    config,         \* the saved setting
    phase,          \* the part of the day
    pc,             \* what each sender is doing
    plan,           \* the plan each sender works on
    form,           \* the change form of the record admin that somebody has open
    mailAge,        \* history: the age of the last e-mail to the student
    unstamped,      \* history: students whose last e-mail was not recorded
    unmailed,       \* history: students whose stamp is of a debug run
    unseen,         \* history: students mailed past each run of the command
    crashes

vars == <<steps, age, config, phase, pc, plan, form, mailAge, unstamped,
          unmailed, unseen, crashes>>
history == <<mailAge, unstamped, unmailed, unseen>>
world == <<steps, config, phase, form>>

Window == MaxFreq * DayLength
Age == 0 .. Window      \* Window: older than any freq, or never
Aged(a) == IF a = Window THEN Window ELSE a + 1
Older(f) == [s \in Student |-> Aged(f[s])]

StepStatus == {"absent", "pending", "done"}
Config == [is_active : Modes, missing_items : SUBSET Key, freq : Freqs]

(* A plan: the records still to classify, those the rate limit of freq     *)
(* days holds back, and the steps each e-mail will name.                   *)
NoPlan ==
    [job |-> FALSE, debug |-> FALSE, items |-> {}, freq |-> 0, rows |-> {},
     limited |-> {}, named |-> [s \in Student |-> {}], current |-> {}]

NoForm == [rec |-> {}, age |-> Window, unmailed |-> {}]

Init ==
    /\ steps \in [Student -> [Key -> StepStatus]]
    /\ age = [s \in Student |-> Window]
    /\ config \in Config
    /\ phase = 0
    /\ pc = [c \in Sender |-> "idle"]
    /\ plan = [c \in Sender |-> NoPlan]
    /\ form = NoForm
    /\ mailAge = [s \in Student |-> Window]
    /\ unstamped = {}
    /\ unmailed = {}
    /\ unseen = [c \in Job |-> {}]
    /\ crashes = 0

PendingSteps(s) == {k \in Key : steps[s][k] = "pending"}

(* completed_on is NULL: no steps yet, or one of them pending.             *)
Open(s) == PendingSteps(s) # {} \/ \A k \in Key : steps[s][k] = "absent"

(* An empty missing_items selects every step.                              *)
Selected(keys, items) == IF items = {} THEN keys ELSE keys \intersect items

GoTo(c, p) == pc' = [pc EXCEPT ![c] = p]

-----------------------------------------------------------------------------
(* last_notified_on lies after now - freq days.                            *)
LimitedAlways(s) ==                         \* mutant: a boundary off by one
    age[s] <= config.freq * DayLength
RateLimited(s) == age[s] < config.freq * DayLength

(* History: a run of the command does not see the e-mails that are yet to  *)
(* be stamped when it reads the records, nor those sent from then on.      *)
InFlight == UNION {plan[d].current : d \in {e \in Sender : ~plan[e].debug}}
Past(c, s) ==
    unseen' = [d \in Job |->
        IF d = c \/ pc[d] = "idle" \/ plan[c].debug THEN unseen[d]
        ELSE unseen[d] \union {s}]

(* build_plan for the whole term: is_active = No ends it at once.  The     *)
(* setting is read first; the open records and their last_notified_on are  *)
(* read by one query.  Cron starts the command once a day, at the same     *)
(* hour, and somebody may start it at any other.                           *)
BuildPlan(c) ==
    /\ pc[c] = "idle"
    /\ config.is_active # "No"
    /\ plan' = [plan EXCEPT ![c] =
           [NoPlan EXCEPT !.job = TRUE,
                          !.debug = (config.is_active = "Debug"),
                          !.items = config.missing_items,
                          !.freq = config.freq,
                          !.rows = {s \in Student : Open(s)},
                          !.limited = {s \in Student : Open(s) /\ RateLimited(s)}]]
    /\ unseen' = [unseen EXCEPT ![c] = InFlight \union unstamped]
    /\ GoTo(c, "classify")
    /\ UNCHANGED <<world, age, mailAge, unstamped, unmailed, crashes>>

StartScheduled(c) == phase = 0 /\ BuildPlan(c)
StartByHand(c) == BuildPlan(c)

(* Send Now: one student, with force and ignore_rate_limit.                *)
StartSendNow(c, s) ==
    /\ pc[c] = "idle"
    /\ Open(s)
    /\ plan' = [plan EXCEPT ![c] =
           [NoPlan EXCEPT !.debug = (config.is_active = "Debug"),
                          !.items = config.missing_items,
                          !.rows = {s}]]
    /\ GoTo(c, "classify")
    /\ UNCHANGED <<world, age, history, crashes>>

(* One row of the plan, whose steps are read now.  The decisions that skip *)
(* it: all done, no step selected, rate limited, no address.               *)
NotHeldBack(p, s) ==                        \* mutant: the rate limit is not tested
    Selected(PendingSteps(s), p.items) = {} \/ (~p.debug /\ s \notin Reachable)
Skipped(p, s) ==
    \/ Selected(PendingSteps(s), p.items) = {}
    \/ s \in p.limited
    \/ ~p.debug /\ s \notin Reachable

Classify(c, s) ==
    /\ pc[c] = "classify"
    /\ s \in plan[c].rows
    /\ plan' = [plan EXCEPT
           ![c].rows = @ \ {s},
           ![c].named[s] = IF Skipped(plan[c], s) THEN {}
                           ELSE Selected(PendingSteps(s), plan[c].items)]
    /\ UNCHANGED <<world, age, pc, history, crashes>>

(* The plan is complete: what it was made from is not looked at again.     *)
StartSending(c) ==
    /\ pc[c] = "classify"
    /\ plan[c].rows = {}
    /\ plan' = [plan EXCEPT ![c].items = {}, ![c].limited = {}]
    /\ GoTo(c, "send")
    /\ UNCHANGED <<world, age, history, crashes>>

(* send_html_mail; in debug mode the staff's address gets the e-mail.      *)
Send(c, s) ==
    /\ pc[c] = "send"
    /\ plan[c].named[s] # {}
    /\ plan' = [plan EXCEPT ![c].current = {s}]
    /\ GoTo(c, "stamp")
    /\ mailAge' = IF plan[c].debug THEN mailAge ELSE [mailAge EXCEPT ![s] = 0]
    /\ Past(c, s)
    /\ UNCHANGED <<world, age, unstamped, unmailed, crashes>>

(* last_notified_on is saved, the row is done.                             *)
NotStamped(s) == age                        \* mutant: the save is missing
Stamped(s) == [age EXCEPT ![s] = 0]

Stamp(c) ==
    \E s \in plan[c].current :
        /\ pc[c] = "stamp"
        /\ age' = Stamped(s)
        /\ unstamped' = unstamped \ {s}
        /\ unmailed' = IF plan[c].debug THEN unmailed \union {s} ELSE unmailed \ {s}
        /\ plan' = [plan EXCEPT ![c].named[s] = {}, ![c].current = {}]
        /\ GoTo(c, "send")
        /\ UNCHANGED <<world, mailAge, unseen, crashes>>

Finish(c) ==
    /\ pc[c] = "send"
    /\ \A s \in Student : plan[c].named[s] = {}
    /\ plan' = [plan EXCEPT ![c] = NoPlan]
    /\ unseen' = [d \in Job |-> IF d = c THEN {} ELSE unseen[d]]
    /\ GoTo(c, "idle")
    /\ UNCHANGED <<world, age, mailAge, unstamped, unmailed, crashes>>

(* The process dies, or sending or saving one row raises: the rows after   *)
(* it are dropped with the plan.                                           *)
Crash(c) ==
    /\ pc[c] # "idle"
    /\ crashes < MaxCrashes
    /\ crashes' = crashes + 1
    /\ unstamped' = unstamped \union (IF plan[c].debug THEN {} ELSE plan[c].current)
    /\ plan' = [plan EXCEPT ![c] = NoPlan]
    /\ unseen' = [d \in Job |-> IF d = c THEN {} ELSE unseen[d]]
    /\ GoTo(c, "idle")
    /\ UNCHANGED <<world, age, mailAge, unmailed>>

(* The helpers of api.py: add_step, the transitions, reopen_step.          *)
ChecklistChanges(s, k) ==
    /\ \E v \in StepStatus \ {"absent", steps[s][k]} :
          steps' = [steps EXCEPT ![s][k] = v]
    /\ UNCHANGED <<age, config, phase, pc, plan, form, history, crashes>>

(* The settings form: it offers the steps that have a notify_label.        *)
SaveSettings ==
    /\ \E m \in Modes, items \in SUBSET Offered, n \in Freqs :
          config' = [is_active |-> m, missing_items |-> items, freq |-> n]
    /\ UNCHANGED <<steps, age, phase, pc, plan, form, history, crashes>>

(* The record form of the admin shows last_notified_on and posts it back   *)
(* with the other columns, so it undoes the stamps made while it was open. *)
OpenRecord(s) ==
    /\ form = NoForm
    /\ form' = [rec |-> {s}, age |-> age[s], unmailed |-> unmailed \intersect {s}]
    /\ UNCHANGED <<steps, config, phase, age, pc, plan, history, crashes>>

SaveRecord ==
    \E s \in form.rec :
        /\ age' = [age EXCEPT ![s] = form.age]
        /\ unstamped' = IF form.age # age[s] THEN unstamped \union {s} ELSE unstamped
        /\ unmailed' = (unmailed \ {s}) \union form.unmailed
        /\ form' = NoForm
        /\ UNCHANGED <<steps, config, phase, pc, plan, mailAge, unseen, crashes>>

CloseRecord ==
    /\ form # NoForm
    /\ form' = NoForm
    /\ UNCHANGED <<steps, config, phase, age, pc, plan, history, crashes>>

(* A part of a day is long against the time between an e-mail and the save *)
(* that follows it; a run as a whole may last for days.                    *)
Tick ==
    /\ \A c \in Sender : pc[c] # "stamp"
    /\ phase' = (phase + 1) % DayLength
    /\ age' = Older(age)
    /\ mailAge' = Older(mailAge)
    /\ form' = [form EXCEPT !.age = Aged(@)]
    /\ UNCHANGED <<steps, config, pc, plan, unstamped, unmailed, unseen, crashes>>

RunOn(c) ==
    \/ \E s \in Student : Classify(c, s) \/ Send(c, s)
    \/ StartSending(c)
    \/ Stamp(c)
    \/ Finish(c)

Next ==
    \/ \E c \in Sender : RunOn(c) \/ Crash(c)
    \/ \E c \in Cron : StartScheduled(c)
    \/ \E c \in ByHand : StartByHand(c)
    \/ \E c \in Staff, s \in Student : StartSendNow(c, s)
    \/ \E s \in Student, k \in Key : ChecklistChanges(s, k)
    \/ SaveSettings
    \/ \E s \in Edited : OpenRecord(s)
    \/ SaveRecord
    \/ CloseRecord
    \/ Tick

Spec == Init /\ [][Next]_vars

(* Days pass, a run goes on, and cron starts the job again and again.      *)
Fairness ==
    /\ WF_vars(Tick)
    /\ \A c \in Sender : WF_vars(RunOn(c))
    /\ \A c \in Cron : SF_vars(StartScheduled(c))

FairSpec == Spec /\ Fairness

-----------------------------------------------------------------------------
TypeOK ==
    /\ steps \in [Student -> [Key -> StepStatus]]
    /\ age \in [Student -> Age] /\ mailAge \in [Student -> Age]
    /\ config \in Config
    /\ phase \in 0 .. DayLength - 1
    /\ pc \in [Sender -> {"idle", "classify", "send", "stamp"}]
    /\ \A c \in Sender :
        /\ plan[c].rows \subseteq Student /\ plan[c].limited \subseteq Student
        /\ plan[c].named \in [Student -> SUBSET Key]
        /\ \A s \in plan[c].limited : plan[c].named[s] = {}
        /\ Cardinality(plan[c].current) = IF pc[c] = "stamp" THEN 1 ELSE 0
    /\ form.rec \subseteq Edited /\ form.age \in Age
    /\ \A s \in form.rec : age[s] <= form.age
    /\ unstamped \subseteq Student /\ unmailed \subseteq Student
    /\ unseen \in [Job -> SUBSET Student]
    /\ crashes \in 0 .. MaxCrashes

(* Sender c mails student s in this step.                                  *)
Mails(c, s) == pc[c] = "send" /\ pc'[c] = "stamp" /\ s \in plan'[c].current
Reminds(c, s) == Mails(c, s) /\ plan[c].job /\ ~plan[c].debug

(* "rate-limits via last_notified_on + the configured freq days"           *)
(* (README.md:363): the command mails no student twice within freq days.   *)
RateLimitKept ==
    [][\A c \in Sender, s \in Student :
          Reminds(c, s) => mailAge[s] >= plan[c].freq * DayLength]_vars

(* What is left of it when senders overlap and die and a record form is    *)
(* saved late: a student is mailed too early only if the run could not     *)
(* know of the last e-mail, because whoever sent it had not stamped it     *)
(* when the run read the record, or sent it later, or because the form had *)
(* put the stamp before it back.                                           *)
EarlyOnlyIfUnrecorded ==
    [][\A c \in Sender, s \in Student :
          Reminds(c, s) =>
              mailAge[s] >= plan[c].freq * DayLength \/ s \in unseen[c]]_vars

(* "Skipped - notified too recently" (services.py:66): a student the rate  *)
(* limit holds back has been mailed within freq days, though staff change  *)
(* freq and a record form puts old stamps back, unless a run in debug      *)
(* mode, which mails the staff, has stamped the student.                   *)
RateLimitedWasNotified ==
    [][\A c \in Sender :
          pc[c] = "idle" /\ pc'[c] = "classify" =>
              \A s \in plan'[c].limited \ unmailed :
                  mailAge[s] < config.freq * DayLength]_vars

(* "Send every # Days" (the label of freq in the settings form): the       *)
(* scheduled job does not hold a student back on a day that lies freq or   *)
(* more days after the day of the last reminder.                           *)
DaysSince(s) == (age[s] + DayLength - 1) \div DayLength     \* at phase 0
EveryFreqDays ==
    [][\A c \in Sender :
          pc[c] = "idle" /\ pc'[c] = "classify" =>
              \A s \in plan'[c].limited : DaysSince(s) < config.freq]_vars

(* "Opt out: set notify_label=''. ... any previously-saved value for that  *)
(* key in the missing_items list is silently ignored" (README.md:587).     *)
OptedOutIgnored ==
    [][\A c \in Sender, s \in Student :
          Classify(c, s) /\ plan[c].items # {} => plan'[c].named[s] \subseteq Offered]_vars

(* While the job is on and one of their selected steps stays pending, a    *)
(* student with an address is reminded again and again, whatever happens   *)
(* to their other steps and to the other students: a run may die at any    *)
(* row and drop the rows after it, but only finitely many do.              *)
WantsReminder(s, k) ==
    /\ config.is_active = "Yes"
    /\ k \in Selected(PendingSteps(s), config.missing_items)
RemindedForever ==
    \A s \in Reachable, k \in Key :
        <>[]WantsReminder(s, k) => []<>(\E c \in Sender : plan[c].current = {s})
=============================================================================
