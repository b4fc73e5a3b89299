---------------------------- MODULE RemindersProofs ----------------------------
(***************************************************************************)
(* Theorems about Reminders, for every set of students, steps, runs of the *)
(* command and staff, every setting, any use of the record form and every  *)
(* number of crashes.                                                      *)
(***************************************************************************)
EXTENDS Reminders, FiniteSetTheorems, TLAPS

-----------------------------------------------------------------------------
(* The inductive invariant.                                                *)
Plan ==
    [job : BOOLEAN, debug : BOOLEAN, items : SUBSET Key, freq : {0} \union Freqs,
     rows : SUBSET Student, limited : SUBSET Student, named : [Student -> SUBSET Key],
     current : {{}} \union {{s} : s \in Student}]

Form == [rec : {{}} \union {{s} : s \in Edited}, age : Age, unmailed : SUBSET Student]

TypeInv ==
    /\ steps \in [Student -> [Key -> StepStatus]]
    /\ age \in [Student -> Age] /\ mailAge \in [Student -> Age]
    /\ config \in Config
    /\ phase \in 0 .. DayLength - 1
    /\ pc \in [Sender -> {"idle", "classify", "send", "stamp"}]
    /\ plan \in [Sender -> Plan]
    /\ unstamped \subseteq Student /\ unmailed \subseteq Student
    /\ form \in Form
    /\ unseen \in [Job -> SUBSET Student]
    /\ crashes \in 0 .. MaxCrashes

(* How far a sender is: it holds a student between the e-mail and the      *)
(* stamp, names nobody the rate limit holds back, and has no plan when     *)
(* idle.                                                                   *)
SenderInv(c) ==
    /\ pc[c] = "stamp" <=> plan[c].current # {}
    /\ \A s \in plan[c].limited : plan[c].named[s] = {}
    /\ pc[c] = "idle" => plan[c] = NoPlan
    /\ pc[c] \in {"send", "stamp"} => plan[c].rows = {}
    /\ plan[c].job => c \in Job

(* The part of a day between an e-mail and its stamp has not passed.       *)
JustMailed(c) ==
    ~plan[c].debug => \A s \in plan[c].current : mailAge[s] = 0

(* An e-mail is in last_notified_on, unless the sender has yet to save it  *)
(* or died before; and what is in last_notified_on was an e-mail, unless a *)
(* run in debug mode wrote it.                                             *)
MailRecorded(s) ==
    \/ mailAge[s] = Window
    \/ s \in unstamped \union InFlight
    \/ age[s] <= mailAge[s]
StampMeansMail(s) ==
    age[s] < Window /\ s \notin unmailed => mailAge[s] <= age[s]

(* The students a scheduled run may yet mail: no e-mail of the last freq   *)
(* days that it could know of.                                             *)
MayMail(c) ==
    {s \in Student :
        \/ s \in plan[c].rows \ plan[c].limited
        \/ plan[c].named[s] # {} /\ s \notin plan[c].current}
Limit(c) == plan[c].freq * DayLength
KnowsMails(c) ==
    plan[c].job /\ ~plan[c].debug =>
        \A s \in MayMail(c) : mailAge[s] >= Limit(c) \/ s \in unseen[c]

(* The record form holds a stamp no younger than the row's, and that stamp *)
(* was an e-mail unless a run in debug mode wrote it.                      *)
FormInv ==
    \A s \in form.rec :
        /\ age[s] <= form.age
        /\ form.age < Window /\ s \notin form.unmailed => mailAge[s] <= form.age

RemindInv ==
    /\ TypeInv
    /\ FormInv
    /\ \A c \in Sender : SenderInv(c) /\ JustMailed(c) /\ KnowsMails(c)
    /\ \A s \in Student : MailRecorded(s) /\ StampMeansMail(s)

-----------------------------------------------------------------------------
(* The ages.                                                               *)
LEMMA WindowTyped == Window \in Nat /\ Window > 0 /\ 0 \in Age /\ Window \in Age
  <1>1. Window \in Nat /\ Window > 0
    BY FreqAssumption DEF Window
  <1> QED
    BY <1>1 DEF Age

(* A part of a day later an age is one more, and never beyond the window.  *)
LEMMA Ageing ==
    ASSUME NEW f \in [Student -> Age]
    PROVE  /\ Older(f) \in [Student -> Age]
           /\ \A s \in Student : Older(f)[s] = Aged(f[s])
  BY WindowTyped DEF Older, Aged, Age

LEMMA AgesStayInOrder ==
    ASSUME NEW a \in Age, NEW b \in Age
    PROVE  /\ Aged(a) \in Age /\ a <= Aged(a)
           /\ a <= b => Aged(a) <= Aged(b)
           /\ Aged(a) < Window => a < Window
           /\ a = Window => Aged(a) = Window
  BY WindowTyped DEF Aged, Age

(* No freq looks further back than the window.                             *)
LEMMA WithinWindow ==
    ASSUME NEW n \in {0} \union Freqs
    PROVE  n * DayLength \in Nat /\ n * DayLength <= Window
  <1>1. n \in Nat /\ n <= MaxFreq /\ MaxFreq \in Nat /\ DayLength \in Nat
    BY FreqAssumption
  <1>2. n * DayLength \in Nat /\ MaxFreq * DayLength \in Nat
    BY <1>1
  <1>3. (MaxFreq - n) * DayLength \in Nat
    BY <1>1
  <1>4. MaxFreq * DayLength = n * DayLength + (MaxFreq - n) * DayLength
    BY <1>1
  <1> QED
    BY <1>2, <1>3, <1>4 DEF Window

-----------------------------------------------------------------------------
(* What each action does to the plan of its sender.                        *)
Sets(c, p) ==
    /\ p \in Plan
    /\ plan' = [plan EXCEPT ![c] = p]

LEMMA NoPlanTyped == NoPlan \in Plan
  BY DEF NoPlan, Plan

LEMMA SetsPlan ==
    ASSUME TypeInv, NEW c \in Sender, NEW p, Sets(c, p)
    PROVE  /\ plan' \in [Sender -> Plan] /\ plan'[c] = p
           /\ \A d \in Sender \ {c} : plan'[d] = plan[d]
  BY DEF TypeInv, Sets

LEMMA GoesTo ==
    ASSUME TypeInv, NEW c \in Sender,
           NEW p \in {"idle", "classify", "send", "stamp"}, GoTo(c, p)
    PROVE  /\ pc' \in [Sender -> {"idle", "classify", "send", "stamp"}] /\ pc'[c] = p
           /\ \A d \in Sender \ {c} : pc'[d] = pc[d]
  BY DEF TypeInv, GoTo

ScheduledPlan ==
    [NoPlan EXCEPT !.job = TRUE,
                   !.debug = (config.is_active = "Debug"),
                   !.items = config.missing_items,
                   !.freq = config.freq,
                   !.rows = {s \in Student : Open(s)},
                   !.limited = {s \in Student : Open(s) /\ RateLimited(s)}]
SendNowPlan(s) ==
    [NoPlan EXCEPT !.debug = (config.is_active = "Debug"),
                   !.items = config.missing_items,
                   !.rows = {s}]
Names(c, s) ==
    IF Skipped(plan[c], s) THEN {} ELSE Selected(PendingSteps(s), plan[c].items)
ClassifiedPlan(c, s) ==
    [plan[c] EXCEPT !.rows = @ \ {s}, !.named[s] = Names(c, s)]
SendingPlan(c) == [plan[c] EXCEPT !.items = {}, !.limited = {}]
MailedPlan(c, s) == [plan[c] EXCEPT !.current = {s}]
StampedPlan(c, s) == [plan[c] EXCEPT !.named[s] = {}, !.current = {}]

LEMMA PlanFields ==
    ASSUME TypeInv, NEW c \in Sender
    PROVE  /\ plan[c] \in Plan /\ plan[c].job \in BOOLEAN /\ plan[c].debug \in BOOLEAN
           /\ plan[c].freq \in {0} \union Freqs
           /\ plan[c].items \subseteq Key
           /\ plan[c].rows \subseteq Student /\ plan[c].limited \subseteq Student
           /\ plan[c].named \in [Student -> SUBSET Key]
           /\ plan[c].current \in {{}} \union {{s} : s \in Student}
  BY DEF TypeInv, Plan

LEMMA ScheduledSets ==
    ASSUME TypeInv, NEW c \in Sender, BuildPlan(c)
    PROVE  /\ Sets(c, ScheduledPlan)
           /\ ScheduledPlan.job = TRUE /\ ScheduledPlan.freq = config.freq
           /\ ScheduledPlan.debug = (config.is_active = "Debug")
           /\ ScheduledPlan.rows = {s \in Student : Open(s)}
           /\ ScheduledPlan.limited = {s \in Student : Open(s) /\ RateLimited(s)}
           /\ ScheduledPlan.named = [s \in Student |-> {}] /\ ScheduledPlan.current = {}
  <1>1. ScheduledPlan \in Plan
    BY DEF TypeInv, Config, ScheduledPlan, Plan, NoPlan
  <1>2. plan' = [plan EXCEPT ![c] = ScheduledPlan]
    BY DEF BuildPlan, ScheduledPlan
  <1> QED
    BY <1>1, <1>2 DEF Sets, ScheduledPlan, NoPlan

LEMMA SendNowSets ==
    ASSUME TypeInv, NEW c \in Sender, NEW s \in Student, StartSendNow(c, s)
    PROVE  /\ Sets(c, SendNowPlan(s))
           /\ SendNowPlan(s).job = FALSE
           /\ SendNowPlan(s).limited = {} /\ SendNowPlan(s).current = {}
  <1>1. SendNowPlan(s) \in Plan
    BY DEF TypeInv, Config, SendNowPlan, Plan, NoPlan
  <1>2. plan' = [plan EXCEPT ![c] = SendNowPlan(s)]
    BY DEF StartSendNow, SendNowPlan
  <1> QED
    BY <1>1, <1>2 DEF Sets, SendNowPlan, NoPlan

LEMMA ClassifySets ==
    ASSUME TypeInv, NEW c \in Sender, NEW s \in Student, Classify(c, s)
    PROVE  LET p == ClassifiedPlan(c, s) IN
           /\ Sets(c, p)
           /\ p.job = plan[c].job /\ p.freq = plan[c].freq
           /\ p.debug = plan[c].debug
           /\ p.rows = plan[c].rows \ {s} /\ p.limited = plan[c].limited
           /\ p.named = [plan[c].named EXCEPT ![s] = Names(c, s)]
           /\ p.current = plan[c].current
  <1>1. Names(c, s) \subseteq Key
    BY DEF Names, Selected, PendingSteps
  <1>2. plan' = [plan EXCEPT ![c].rows = @ \ {s}, ![c].named[s] = Names(c, s)]
    BY DEF Classify, Names
  <1> HIDE DEF Names
  <1>3. /\ ClassifiedPlan(c, s).rows = plan[c].rows \ {s}
        /\ ClassifiedPlan(c, s).named = [plan[c].named EXCEPT ![s] = Names(c, s)]
    BY PlanFields DEF ClassifiedPlan, Plan
  <1>4. /\ ClassifiedPlan(c, s).job = plan[c].job
        /\ ClassifiedPlan(c, s).freq = plan[c].freq
        /\ ClassifiedPlan(c, s).debug = plan[c].debug
        /\ ClassifiedPlan(c, s).items = plan[c].items
        /\ ClassifiedPlan(c, s).limited = plan[c].limited
        /\ ClassifiedPlan(c, s).current = plan[c].current
    BY PlanFields DEF ClassifiedPlan, Plan
  <1>5. ClassifiedPlan(c, s) \in Plan
    BY <1>1, PlanFields DEF ClassifiedPlan, Plan
  <1>6. plan' = [plan EXCEPT ![c] = ClassifiedPlan(c, s)]
    BY <1>2 DEF TypeInv, ClassifiedPlan
  <1> QED
    BY <1>3, <1>4, <1>5, <1>6 DEF Sets

LEMMA StartSendingSets ==
    ASSUME TypeInv, NEW c \in Sender, StartSending(c)
    PROVE  LET p == SendingPlan(c) IN
           /\ Sets(c, p)
           /\ p.job = plan[c].job /\ p.freq = plan[c].freq
           /\ p.debug = plan[c].debug
           /\ p.rows = plan[c].rows /\ p.limited = {}
           /\ p.named = plan[c].named /\ p.current = plan[c].current
  <1>1. SendingPlan(c) \in Plan
    BY PlanFields DEF SendingPlan, Plan
  <1>2. plan' = [plan EXCEPT ![c] = SendingPlan(c)]
    BY DEF TypeInv, StartSending, SendingPlan
  <1> QED
    BY <1>1, <1>2, PlanFields DEF Sets, SendingPlan, Plan

LEMMA SendSets ==
    ASSUME TypeInv, NEW c \in Sender, NEW s \in Student, Send(c, s)
    PROVE  LET p == MailedPlan(c, s) IN
           /\ Sets(c, p)
           /\ p.job = plan[c].job /\ p.freq = plan[c].freq
           /\ p.debug = plan[c].debug
           /\ p.rows = plan[c].rows /\ p.limited = plan[c].limited
           /\ p.named = plan[c].named /\ p.current = {s}
  <1>1. MailedPlan(c, s) \in Plan
    BY PlanFields DEF MailedPlan, Plan
  <1>2. plan' = [plan EXCEPT ![c] = MailedPlan(c, s)]
    BY DEF TypeInv, Send, MailedPlan
  <1> QED
    BY <1>1, <1>2, PlanFields DEF Sets, MailedPlan, Plan

StampsStudent(c, s) ==
    /\ plan[c].current = {s}
    /\ age' = [age EXCEPT ![s] = 0]
    /\ unstamped' = unstamped \ {s}
    /\ unmailed' = IF plan[c].debug THEN unmailed \union {s} ELSE unmailed \ {s}

LEMMA StampSets ==
    ASSUME TypeInv, NEW c \in Sender, Stamp(c)
    PROVE  \E s \in Student :
               LET p == StampedPlan(c, s) IN
               /\ StampsStudent(c, s) /\ Sets(c, p)
               /\ p.job = plan[c].job /\ p.freq = plan[c].freq
               /\ p.debug = plan[c].debug
               /\ p.rows = plan[c].rows /\ p.limited = plan[c].limited
               /\ p.named = [plan[c].named EXCEPT ![s] = {}] /\ p.current = {}
  <1>1. PICK s \in plan[c].current :
            /\ age' = Stamped(s)
            /\ unstamped' = unstamped \ {s}
            /\ unmailed' = IF plan[c].debug THEN unmailed \union {s} ELSE unmailed \ {s}
            /\ plan' = [plan EXCEPT ![c].named[s] = {}, ![c].current = {}]
    BY DEF Stamp
  <1>2. s \in Student /\ plan[c].current = {s}
    BY PlanFields
  <1>3. StampedPlan(c, s) \in Plan
    BY <1>2, PlanFields DEF StampedPlan, Plan
  <1>4. plan' = [plan EXCEPT ![c] = StampedPlan(c, s)]
    BY <1>1 DEF TypeInv, StampedPlan
  <1>5. /\ StampedPlan(c, s).job = plan[c].job
        /\ StampedPlan(c, s).freq = plan[c].freq
        /\ StampedPlan(c, s).debug = plan[c].debug
        /\ StampedPlan(c, s).rows = plan[c].rows
        /\ StampedPlan(c, s).limited = plan[c].limited
        /\ StampedPlan(c, s).named = [plan[c].named EXCEPT ![s] = {}]
        /\ StampedPlan(c, s).current = {}
    BY PlanFields DEF StampedPlan, Plan
  <1>6. StampsStudent(c, s)
    BY <1>1, <1>2 DEF StampsStudent, Stamped
  <1> QED
    BY <1>2, <1>3, <1>4, <1>5, <1>6 DEF Sets

LEMMA EndSets ==
    ASSUME TypeInv, NEW c \in Sender, Finish(c) \/ Crash(c)
    PROVE  Sets(c, NoPlan)
  BY NoPlanTyped DEF Finish, Crash, Sets

-----------------------------------------------------------------------------
(* Type correctness.                                                       *)
LEMMA SendersPlan ==
    ASSUME TypeInv, NEW c \in Sender,
           \/ RunOn(c) \/ Crash(c) \/ BuildPlan(c)
           \/ \E s \in Student : StartSendNow(c, s)
    PROVE  /\ plan' \in [Sender -> Plan]
           /\ \A d \in Sender \ {c} : plan'[d] = plan[d]
           /\ pc' \in [Sender -> {"idle", "classify", "send", "stamp"}]
           /\ \A d \in Sender \ {c} : pc'[d] = pc[d]
  <1>1. \E p : Sets(c, p)
    BY ScheduledSets, SendNowSets, ClassifySets, StartSendingSets, SendSets, StampSets,
       EndSets DEF RunOn
  <1>2. \/ \E p \in {"idle", "classify", "send", "stamp"} : GoTo(c, p)
        \/ pc' = pc
    BY DEF RunOn, BuildPlan, StartSendNow, Classify, StartSending, Send, Stamp,
           Finish, Crash
  <1>3. /\ pc' \in [Sender -> {"idle", "classify", "send", "stamp"}]
        /\ \A d \in Sender \ {c} : pc'[d] = pc[d]
    BY <1>2, GoesTo DEF TypeInv
  <1> QED
    BY <1>1, <1>3, SetsPlan

LEMMA InitTyped == Init => TypeInv
  <1> SUFFICES ASSUME Init PROVE TypeInv
    OBVIOUS
  <1>1. phase \in 0 .. DayLength - 1 /\ crashes \in 0 .. MaxCrashes
    BY FreqAssumption, CrashesAssumption DEF Init
  <1> QED
    BY <1>1, WindowTyped, NoPlanTyped DEF Init, TypeInv, NoForm, Form

LEMMA StepTyped == TypeInv /\ [Next]_vars => TypeInv'
  <1> SUFFICES ASSUME TypeInv, [Next]_vars PROVE TypeInv'
    OBVIOUS
  <1>1. ASSUME NEW c \in Sender, RunOn(c) \/ Crash(c) PROVE TypeInv'
    <2>1. /\ plan' \in [Sender -> Plan]
          /\ pc' \in [Sender -> {"idle", "classify", "send", "stamp"}]
      BY <1>1, SendersPlan
    <2>2. CASE (\E s \in Student : Classify(c, s)) \/ StartSending(c)
      BY <2>1, <2>2 DEF TypeInv, Classify, StartSending, world, history
    <2>3. ASSUME NEW s \in Student, Send(c, s) PROVE TypeInv'
      <3>1. unseen' \in [Job -> SUBSET Student]
        BY <2>3 DEF TypeInv, Send, Past
      <3>2. mailAge' \in [Student -> Age]
        BY <2>3, WindowTyped DEF TypeInv, Send
      <3> QED
        BY <2>1, <2>3, <3>1, <3>2 DEF TypeInv, Send, world
    <2>4. CASE Stamp(c)
      <3>1. PICK s \in Student :
                /\ age' = [age EXCEPT ![s] = 0]
                /\ unstamped' = unstamped \ {s}
                /\ unmailed' \subseteq unmailed \union {s}
        BY <2>4, StampSets DEF StampsStudent
      <3>2. age' \in [Student -> Age]
        BY <3>1, WindowTyped DEF TypeInv
      <3> QED
        BY <2>1, <2>4, <3>1, <3>2 DEF TypeInv, Stamp, world
    <2>5. CASE Finish(c)
      <3>1. unseen' \in [Job -> SUBSET Student]
        BY <2>5 DEF TypeInv, Finish
      <3> QED
        BY <2>1, <2>5, <3>1 DEF TypeInv, Finish, world
    <2>6. CASE Crash(c)
      <3>1. unseen' \in [Job -> SUBSET Student]
        BY <2>6 DEF TypeInv, Crash
      <3>2. unstamped' \subseteq Student
        BY <2>6, PlanFields DEF TypeInv, Crash
      <3>3. crashes' \in 0 .. MaxCrashes
        BY <2>6, CrashesAssumption DEF TypeInv, Crash
      <3> QED
        BY <2>1, <2>6, <3>1, <3>2, <3>3 DEF TypeInv, Crash, world
    <2> QED
      BY <1>1, <2>2, <2>3, <2>4, <2>5, <2>6 DEF RunOn
  <1>2. ASSUME NEW c \in Job, BuildPlan(c) PROVE TypeInv'
    <2>1. /\ plan' \in [Sender -> Plan]
          /\ pc' \in [Sender -> {"idle", "classify", "send", "stamp"}]
      BY <1>2, SendersPlan DEF Sender
    <2>2. InFlight \subseteq Student
      BY PlanFields DEF InFlight
    <2>3. unseen' \in [Job -> SUBSET Student]
      BY <1>2, <2>2 DEF TypeInv, BuildPlan
    <2> QED
      BY <1>2, <2>1, <2>3 DEF TypeInv, BuildPlan, world
  <1>3. ASSUME NEW c \in Staff, NEW s \in Student, StartSendNow(c, s) PROVE TypeInv'
    <2>1. /\ plan' \in [Sender -> Plan]
          /\ pc' \in [Sender -> {"idle", "classify", "send", "stamp"}]
      BY <1>3, SendersPlan DEF Sender
    <2> QED
      BY <1>3, <2>1 DEF TypeInv, StartSendNow, world, history
  <1>4. ASSUME NEW s \in Student, NEW k \in Key, ChecklistChanges(s, k) PROVE TypeInv'
    BY <1>4 DEF TypeInv, ChecklistChanges, history
  <1>5. CASE SaveSettings
    <2>1. config' \in Config
      BY <1>5, SubsetAssumption DEF SaveSettings, Config
    <2> QED
      BY <1>5, <2>1 DEF TypeInv, SaveSettings, history
  <1>8. ASSUME NEW s \in Edited, OpenRecord(s) PROVE TypeInv'
    <2>1. age[s] \in Age
      BY SubsetAssumption DEF TypeInv
    <2>2. form' \in Form
      BY <1>8, <2>1, SubsetAssumption DEF OpenRecord, Form
    <2> QED
      BY <1>8, <2>2 DEF TypeInv, OpenRecord, history
  <1>9. CASE SaveRecord \/ CloseRecord
    <2>1. form' \in Form
      <3>1. NoForm \in Form
        BY WindowTyped DEF NoForm, Form
      <3>2. form' = NoForm
        BY <1>9 DEF SaveRecord, CloseRecord
      <3> QED
        BY <3>1, <3>2
    <2>2. CASE CloseRecord
      BY <2>1, <2>2 DEF TypeInv, CloseRecord, history
    <2>3. CASE SaveRecord
      <3>1. PICK s \in form.rec :
                /\ age' = [age EXCEPT ![s] = form.age]
                /\ unstamped' = IF form.age # age[s] THEN unstamped \union {s}
                                ELSE unstamped
                /\ unmailed' = (unmailed \ {s}) \union form.unmailed
                /\ UNCHANGED <<steps, config, phase, pc, plan, mailAge, unseen, crashes>>
        BY <2>3 DEF SaveRecord
      <3>2. s \in Student /\ form.age \in Age
        BY SubsetAssumption DEF TypeInv, Form
      <3>3. age' \in [Student -> Age]
        BY <3>1, <3>2 DEF TypeInv
      <3>4. unstamped' \subseteq Student /\ unmailed' \subseteq Student
        BY <3>1, <3>2 DEF TypeInv, Form
      <3> QED
        BY <2>1, <3>1, <3>3, <3>4 DEF TypeInv
    <2> QED
      BY <1>9, <2>2, <2>3
  <1>6. CASE Tick
    <2>1. phase' \in 0 .. DayLength - 1
      BY <1>6, FreqAssumption DEF TypeInv, Tick
    <2>2. age' \in [Student -> Age] /\ mailAge' \in [Student -> Age]
      BY <1>6, Ageing DEF TypeInv, Tick
    <2>3. form' \in Form
      BY <1>6, AgesStayInOrder DEF TypeInv, Tick, Form
    <2> QED
      BY <1>6, <2>1, <2>2, <2>3 DEF TypeInv, Tick
  <1>7. CASE UNCHANGED vars
    BY <1>7 DEF TypeInv, vars
  <1> QED
    BY <1>1, <1>2, <1>3, <1>4, <1>5, <1>6, <1>7, <1>8, <1>9
       DEF Next, StartScheduled, StartByHand, Job

(* Each variable of each reachable state is in its range, and a sender     *)
(* holds one student exactly between an e-mail and its stamp.              *)
LEMMA TypeInvGivesTypeOK ==
    ASSUME TypeInv, FormInv, \A c \in Sender : SenderInv(c)
    PROVE  TypeOK
  <1>1. \A c \in Sender :
            /\ plan[c].rows \subseteq Student /\ plan[c].limited \subseteq Student
            /\ plan[c].named \in [Student -> SUBSET Key]
            /\ plan[c].current \in {{}} \union {{s} : s \in Student}
    BY PlanFields
  <1>2. ASSUME NEW c \in Sender
        PROVE  Cardinality(plan[c].current) = IF pc[c] = "stamp" THEN 1 ELSE 0
    <2>1. CASE plan[c].current = {}
      BY <2>1, FS_EmptySet DEF SenderInv
    <2>2. CASE plan[c].current # {}
      <3>1. PICK s \in Student : plan[c].current = {s}
        BY <1>1, <2>2
      <3>2. Cardinality({s}) = 1
        BY FS_Singleton
      <3> QED
        BY <2>2, <3>1, <3>2 DEF SenderInv
    <2> QED
      BY <2>1, <2>2
  <1>3. form.rec \subseteq Edited /\ form.age \in Age
    BY DEF TypeInv, Form
  <1> QED
    BY <1>1, <1>2, <1>3 DEF TypeInv, TypeOK, SenderInv, FormInv

-----------------------------------------------------------------------------
(* What a step leaves as it was.                                           *)
InFlightNow(s) == \E d \in Sender : ~plan[d].debug /\ s \in plan[d].current

LEMMA InFlightMembers == \A s : s \in InFlight <=> InFlightNow(s)
  BY DEF InFlight, InFlightNow

Unmoved(d) == plan'[d] = plan[d] /\ pc'[d] = pc[d]

LEMMA UnmovedSender ==
    ASSUME NEW d \in Sender, Unmoved(d), SenderInv(d)
    PROVE  SenderInv(d)'
  BY DEF Unmoved, SenderInv

LEMMA LimitTyped ==
    ASSUME TypeInv, NEW d \in Sender
    PROVE  Limit(d) \in Nat /\ Limit(d) <= Window
  BY PlanFields, WithinWindow DEF Limit

(* A sender that did not move still knows of the e-mails it knew of, or    *)
(* they have been sent past it.                                            *)
LEMMA UnmovedKnows ==
    ASSUME NEW d \in Sender, Unmoved(d), KnowsMails(d), SenderInv(d),
           d \in Job => unseen[d] \subseteq unseen'[d], TypeInv,
           \A s \in Student : \/ mailAge'[s] \in Age /\ mailAge[s] <= mailAge'[s]
                              \/ plan[d].job /\ ~plan[d].debug => s \in unseen'[d]
    PROVE  KnowsMails(d)'
  <1> SUFFICES ASSUME plan[d].job, ~plan[d].debug, NEW s \in MayMail(d)
               PROVE  mailAge'[s] >= Limit(d) \/ s \in unseen'[d]
    BY DEF Unmoved, KnowsMails, MayMail, Limit
  <1>1. s \in Student /\ d \in Job /\ (mailAge[s] >= Limit(d) \/ s \in unseen[d])
    BY DEF KnowsMails, MayMail, SenderInv
  <1>2. mailAge[s] \in Age /\ Limit(d) \in Nat
    BY <1>1, LimitTyped DEF TypeInv
  <1> QED
    BY <1>1, <1>2, WindowTyped DEF Age

(* A step that writes neither age leaves the ages' invariants alone, if    *)
(* nobody in flight gets lost.                                             *)
LEMMA AgesUnmoved ==
    ASSUME UNCHANGED <<age, mailAge, unmailed>>, NEW s \in Student,
           s \in unstamped \union InFlight => s \in unstamped' \union InFlight',
           MailRecorded(s), StampMeansMail(s)
    PROVE  MailRecorded(s)' /\ StampMeansMail(s)'
  BY DEF MailRecorded, StampMeansMail

(* An open form keeps its relation to a row that gets older by no step.     *)
LEMMA FormUnmoved ==
    ASSUME TypeInv, FormInv, form' = form,
           \A s \in Student : age'[s] = age[s] \/ age'[s] = 0,
           \A s \in Student : mailAge'[s] = mailAge[s] \/ mailAge'[s] = 0
    PROVE  FormInv'
  <1>1. form.rec \subseteq Student /\ form.age \in Age
    BY SubsetAssumption DEF TypeInv, Form
  <1> QED
    BY <1>1, WindowTyped DEF FormInv, Age

Kept ==
    /\ FormInv'
    /\ \A c \in Sender : SenderInv(c)' /\ JustMailed(c)' /\ KnowsMails(c)'
    /\ \A s \in Student : MailRecorded(s)' /\ StampMeansMail(s)'

(* A step of sender c that writes neither age nor has an e-mail on the way *)
(* before or after it: what is left to show is about c alone.              *)
LEMMA QuietStep ==
    ASSUME RemindInv, NEW c \in Sender,
           UNCHANGED <<age, mailAge, unmailed, unstamped, form>>,
           plan[c].current = {}, plan'[c].current = {},
           \A d \in Sender \ {c} : Unmoved(d),
           \A d \in Job \ {c} : unseen'[d] = unseen[d],
           SenderInv(c)', KnowsMails(c)'
    PROVE  Kept
  <1>1. ASSUME NEW d \in Sender
        PROVE  SenderInv(d)' /\ JustMailed(d)' /\ KnowsMails(d)'
    <2>1. CASE d = c
      BY <2>1 DEF JustMailed
    <2>2. CASE d # c
      <3>1. \A s \in Student : mailAge'[s] \in Age /\ mailAge[s] <= mailAge'[s]
        BY WindowTyped DEF RemindInv, TypeInv, Age
      <3> QED
        BY <2>2, <3>1, UnmovedSender, UnmovedKnows DEF RemindInv, JustMailed, Unmoved
    <2> QED
      BY <2>1, <2>2
  <1>2. ASSUME NEW s \in Student PROVE MailRecorded(s)' /\ StampMeansMail(s)'
    <2>1. InFlightNow(s) => InFlightNow(s)'
      BY DEF InFlightNow, Unmoved
    <2>2. s \in InFlight => s \in InFlight'
      BY <2>1, InFlightMembers DEF InFlight, InFlightNow
    <2> QED
      BY <2>2, AgesUnmoved DEF RemindInv
  <1>3. FormInv'
    BY FormUnmoved DEF RemindInv
  <1> QED
    BY <1>1, <1>2, <1>3 DEF Kept

-----------------------------------------------------------------------------
(* The invariant is inductive: one lemma per action of a sender.           *)
LEMMA SendersMove ==
    ASSUME TypeInv, NEW c \in Sender,
           \/ RunOn(c) \/ Crash(c) \/ BuildPlan(c)
           \/ \E s \in Student : StartSendNow(c, s)
    PROVE  \A d \in Sender \ {c} : Unmoved(d)
  BY SendersPlan DEF Unmoved

LEMMA ScheduledKeeps ==
    ASSUME RemindInv, NEW c \in Job, BuildPlan(c)
    PROVE  Kept
  <1>1. TypeInv /\ c \in Sender /\ SenderInv(c)
    BY DEF RemindInv, Sender
  <1>2. /\ plan'[c] = ScheduledPlan /\ pc'[c] = "classify"
        /\ \A d \in Sender \ {c} : Unmoved(d)
    BY <1>1, ScheduledSets, SetsPlan, GoesTo, SendersMove DEF BuildPlan
  <1>3. /\ plan[c].current = {} /\ plan'[c].current = {}
        /\ plan'[c].named = [s \in Student |-> {}]
        /\ plan'[c].rows = {s \in Student : Open(s)}
        /\ plan'[c].limited = {s \in Student : Open(s) /\ RateLimited(s)}
        /\ plan'[c].freq = config.freq
    BY <1>1, <1>2, ScheduledSets DEF BuildPlan, SenderInv
  <1>4. SenderInv(c)'
    BY <1>2, <1>3 DEF SenderInv
  <1>5. unseen'[c] = InFlight \union unstamped
        /\ \A d \in Job \ {c} : unseen'[d] = unseen[d]
    BY <1>1 DEF BuildPlan, TypeInv
  <1>6. ASSUME NEW s \in MayMail(c)' PROVE mailAge'[s] >= Limit(c)' \/ s \in unseen'[c]
    <2>1. s \in Student /\ ~RateLimited(s)
      BY <1>3, <1>6 DEF MayMail
    <2> DEFINE L == config.freq * DayLength
    <2>2. L \in Nat /\ L <= Window /\ Limit(c)' = L
      BY <1>1, <1>3, WithinWindow DEF TypeInv, Config, Limit
    <2>3. age[s] \in Age /\ mailAge[s] \in Age /\ mailAge' = mailAge
      BY <1>1, <2>1 DEF TypeInv, BuildPlan
    <2>4. ~(age[s] < L) /\ MailRecorded(s)
      BY <2>1 DEF RateLimited, RemindInv
    <2> HIDE DEF L
    <2>5. mailAge[s] >= L \/ s \in unstamped \union InFlight
      BY <2>2, <2>3, <2>4, WindowTyped DEF MailRecorded, Age
    <2> QED
      BY <1>5, <2>2, <2>3, <2>5
  <1>7. KnowsMails(c)'
    BY <1>6 DEF KnowsMails
  <1> QED
    BY <1>1, <1>2, <1>3, <1>4, <1>5, <1>7, QuietStep DEF BuildPlan, world

LEMMA SendNowKeeps ==
    ASSUME RemindInv, NEW c \in Staff, NEW s \in Student, StartSendNow(c, s)
    PROVE  Kept
  <1>1. TypeInv /\ c \in Sender /\ SenderInv(c)
    BY DEF RemindInv, Sender
  <1>2. /\ plan'[c] = SendNowPlan(s) /\ pc'[c] = "classify"
        /\ \A d \in Sender \ {c} : Unmoved(d)
    BY <1>1, SendNowSets, SetsPlan, GoesTo, SendersMove DEF StartSendNow
  <1>3. /\ plan[c].current = {} /\ plan'[c].current = {}
        /\ plan'[c].limited = {} /\ plan'[c].job = FALSE
    BY <1>1, <1>2, SendNowSets DEF StartSendNow, SenderInv
  <1>4. SenderInv(c)' /\ KnowsMails(c)'
    BY <1>2, <1>3 DEF SenderInv, KnowsMails
  <1> QED
    BY <1>1, <1>2, <1>3, <1>4, QuietStep DEF StartSendNow, history, world

LEMMA ClassifyKeeps ==
    ASSUME RemindInv, NEW c \in Sender, NEW s \in Student, Classify(c, s)
    PROVE  Kept
  <1>1. TypeInv /\ SenderInv(c) /\ KnowsMails(c)
    BY DEF RemindInv
  <1>2. /\ plan'[c] = ClassifiedPlan(c, s) /\ pc' = pc /\ pc[c] = "classify"
        /\ \A d \in Sender \ {c} : Unmoved(d)
    BY <1>1, ClassifySets, SetsPlan, SendersMove DEF Classify, RunOn
  <1>3. /\ plan[c].current = {} /\ plan'[c].current = {}
        /\ plan'[c].job = plan[c].job /\ plan'[c].freq = plan[c].freq
        /\ plan'[c].debug = plan[c].debug
        /\ plan'[c].rows = plan[c].rows \ {s} /\ plan'[c].limited = plan[c].limited
        /\ plan'[c].named = [plan[c].named EXCEPT ![s] = Names(c, s)]
        /\ plan[c].named \in [Student -> SUBSET Key]
        /\ plan[c].limited \subseteq Student /\ s \in plan[c].rows
    <2>1. /\ ClassifiedPlan(c, s).job = plan[c].job
          /\ ClassifiedPlan(c, s).freq = plan[c].freq
          /\ ClassifiedPlan(c, s).debug = plan[c].debug
          /\ ClassifiedPlan(c, s).rows = plan[c].rows \ {s}
          /\ ClassifiedPlan(c, s).limited = plan[c].limited
          /\ ClassifiedPlan(c, s).named = [plan[c].named EXCEPT ![s] = Names(c, s)]
          /\ ClassifiedPlan(c, s).current = plan[c].current
      BY <1>1, ClassifySets
    <2>2. plan[c].current = {} /\ s \in plan[c].rows
      BY <1>1, <1>2 DEF Classify, SenderInv
    <2> QED
      BY <1>1, <1>2, <2>1, <2>2, PlanFields
  <1>4. s \in plan[c].limited => Names(c, s) = {}
    BY DEF Names, Skipped
  <1>5. SenderInv(c)'
    BY <1>1, <1>2, <1>3, <1>4 DEF SenderInv
  <1>6. MayMail(c)' \subseteq MayMail(c)
    BY <1>3, <1>4 DEF MayMail
  <1>7. KnowsMails(c)'
    BY <1>1, <1>3, <1>6 DEF KnowsMails, Limit, Classify, history
  <1> QED
    BY <1>2, <1>3, <1>5, <1>7, QuietStep DEF Classify, history, world

LEMMA StartSendingKeeps ==
    ASSUME RemindInv, NEW c \in Sender, StartSending(c)
    PROVE  Kept
  <1>1. TypeInv /\ SenderInv(c) /\ KnowsMails(c)
    BY DEF RemindInv
  <1>2. /\ plan'[c] = SendingPlan(c) /\ pc'[c] = "send" /\ pc[c] = "classify"
        /\ \A d \in Sender \ {c} : Unmoved(d)
    BY <1>1, StartSendingSets, SetsPlan, GoesTo, SendersMove DEF StartSending, RunOn
  <1>3. /\ plan[c].current = {} /\ plan'[c].current = {}
        /\ plan'[c].job = plan[c].job /\ plan'[c].freq = plan[c].freq
        /\ plan'[c].debug = plan[c].debug
        /\ plan[c].rows = {} /\ plan'[c].rows = {} /\ plan'[c].limited = {}
        /\ plan'[c].named = plan[c].named
    BY <1>1, <1>2, StartSendingSets DEF StartSending, SenderInv
  <1>4. SenderInv(c)'
    BY <1>1, <1>2, <1>3 DEF SenderInv
  <1>5. MayMail(c)' = MayMail(c)
    BY <1>3 DEF MayMail
  <1>6. KnowsMails(c)'
    BY <1>1, <1>3, <1>5 DEF KnowsMails, Limit, StartSending, history
  <1> QED
    BY <1>2, <1>3, <1>4, <1>6, QuietStep DEF StartSending, history, world

LEMMA SendKeeps ==
    ASSUME RemindInv, NEW c \in Sender, NEW s \in Student, Send(c, s)
    PROVE  Kept
  <1>1. TypeInv /\ SenderInv(c) /\ KnowsMails(c)
    BY DEF RemindInv
  <1>2. /\ plan'[c] = MailedPlan(c, s) /\ pc'[c] = "stamp" /\ pc[c] = "send"
        /\ \A d \in Sender \ {c} : Unmoved(d)
    BY <1>1, SendSets, SetsPlan, GoesTo, SendersMove DEF Send, RunOn
  <1>3. /\ plan'[c].job = plan[c].job /\ plan'[c].freq = plan[c].freq
        /\ plan'[c].debug = plan[c].debug
        /\ plan'[c].rows = plan[c].rows /\ plan'[c].limited = plan[c].limited
        /\ plan'[c].named = plan[c].named /\ plan'[c].current = {s}
    <2>1. /\ MailedPlan(c, s).job = plan[c].job
          /\ MailedPlan(c, s).freq = plan[c].freq
          /\ MailedPlan(c, s).debug = plan[c].debug
          /\ MailedPlan(c, s).rows = plan[c].rows
          /\ MailedPlan(c, s).limited = plan[c].limited
          /\ MailedPlan(c, s).named = plan[c].named /\ MailedPlan(c, s).current = {s}
      BY <1>1, SendSets
    <2> QED
      BY <1>2, <2>1
  <1>4. plan[c].current = {} /\ plan[c].rows = {} /\ plan[c].named[s] # {}
    BY <1>1, <1>2 DEF Send, SenderInv
  <1>5. /\ age' = age /\ unstamped' = unstamped /\ unmailed' = unmailed /\ form' = form
        /\ mailAge' = IF plan[c].debug THEN mailAge ELSE [mailAge EXCEPT ![s] = 0]
        /\ \A d \in Job :
               unseen'[d] = IF d = c \/ pc[d] = "idle" \/ plan[c].debug THEN unseen[d]
                            ELSE unseen[d] \union {s}
    BY DEF Send, Past, world
  <1>6. /\ ~plan[c].debug => mailAge'[s] = 0
        /\ \A t \in Student \ {s} : mailAge'[t] = mailAge[t]
        /\ plan[c].debug => mailAge' = mailAge
        /\ mailAge'[s] = mailAge[s] \/ mailAge'[s] = 0
    BY <1>1, <1>5 DEF TypeInv
  <1>7. ASSUME NEW d \in Sender
        PROVE  SenderInv(d)' /\ JustMailed(d)' /\ KnowsMails(d)'
    <2>1. CASE d = c
      <3>1. SenderInv(d)'
        BY <1>1, <1>2, <1>3, <1>4, <2>1 DEF SenderInv
      <3>2. JustMailed(d)'
        BY <1>3, <1>6, <2>1 DEF JustMailed
      <3>3. MayMail(d)' \subseteq MayMail(d) \ {s}
        BY <1>3, <1>4, <2>1 DEF MayMail
      <3>4. d \in Job => unseen'[d] = unseen[d]
        BY <1>5, <2>1
      <3>5. KnowsMails(d)'
        BY <1>1, <1>3, <1>6, <2>1, <3>3, <3>4 DEF KnowsMails, Limit, SenderInv, MayMail
      <3> QED
        BY <3>1, <3>2, <3>5
    <2>2. CASE d # c
      <3>1. SenderInv(d) /\ JustMailed(d) /\ KnowsMails(d) /\ Unmoved(d)
        BY <1>2, <2>2 DEF RemindInv
      <3>2. JustMailed(d)'
        <4>1. plan[d].current \subseteq Student
          BY <1>1, PlanFields
        <4> QED
          BY <1>6, <3>1, <4>1 DEF JustMailed, Unmoved
      <3>3. d \in Job => unseen[d] \subseteq unseen'[d]
        BY <1>5
      <3>4. \A t \in Student : \/ mailAge'[t] \in Age /\ mailAge[t] <= mailAge'[t]
                               \/ plan[d].job /\ ~plan[d].debug => t \in unseen'[d]
        <4>1. plan[d].job => d \in Job /\ pc[d] # "idle"
          BY <3>1 DEF SenderInv, NoPlan
        <4>2. \A t \in Student : mailAge[t] \in Age /\ mailAge[t] <= mailAge[t]
          BY <1>1, WindowTyped DEF TypeInv, Age
        <4> QED
          BY <1>5, <1>6, <2>2, <4>1, <4>2
      <3> QED
        BY <1>1, <3>1, <3>2, <3>3, <3>4, UnmovedSender, UnmovedKnows
    <2> QED
      BY <2>1, <2>2
  <1>8. ASSUME NEW t \in Student PROVE MailRecorded(t)' /\ StampMeansMail(t)'
    <2>1. MailRecorded(t) /\ StampMeansMail(t) /\ age[t] \in Age /\ mailAge[t] \in Age
      BY <1>1 DEF RemindInv, TypeInv
    <2>2. InFlightNow(t) => InFlightNow(t)'
      BY <1>2, <1>4 DEF InFlightNow, Unmoved
    <2>3. t = s /\ ~plan[c].debug => InFlightNow(t)'
      BY <1>3 DEF InFlightNow
    <2>4. /\ t \in InFlight => t \in InFlight'
          /\ t = s /\ ~plan[c].debug => t \in InFlight'
      BY <2>2, <2>3, InFlightMembers DEF InFlight, InFlightNow
    <2>5. mailAge'[t] = mailAge[t] \/ (t = s /\ ~plan[c].debug /\ mailAge'[t] = 0)
      BY <1>6
    <2>6. MailRecorded(t)'
      BY <1>5, <2>1, <2>4, <2>5 DEF MailRecorded
    <2>7. StampMeansMail(t)'
      BY <1>5, <2>1, <2>5, WindowTyped DEF StampMeansMail, Age
    <2> QED
      BY <2>6, <2>7
  <1>9. FormInv'
    BY <1>1, <1>5, <1>6, FormUnmoved DEF RemindInv
  <1> QED
    BY <1>7, <1>8, <1>9 DEF Kept

LEMMA StampKeeps ==
    ASSUME RemindInv, NEW c \in Sender, Stamp(c)
    PROVE  Kept
  <1>1. TypeInv /\ SenderInv(c) /\ KnowsMails(c) /\ JustMailed(c)
    BY DEF RemindInv
  <1>2. PICK s \in Student :
            /\ StampsStudent(c, s) /\ Sets(c, StampedPlan(c, s))
            /\ StampedPlan(c, s).job = plan[c].job
            /\ StampedPlan(c, s).freq = plan[c].freq
            /\ StampedPlan(c, s).debug = plan[c].debug
            /\ StampedPlan(c, s).rows = plan[c].rows
            /\ StampedPlan(c, s).limited = plan[c].limited
            /\ StampedPlan(c, s).named = [plan[c].named EXCEPT ![s] = {}]
            /\ StampedPlan(c, s).current = {}
    BY <1>1, StampSets
  <1>3. /\ plan'[c] = StampedPlan(c, s) /\ pc'[c] = "send" /\ pc[c] = "stamp"
        /\ \A d \in Sender \ {c} : Unmoved(d)
    BY <1>1, <1>2, SetsPlan, GoesTo, SendersMove DEF Stamp, RunOn
  <1>4. /\ plan'[c].job = plan[c].job /\ plan'[c].freq = plan[c].freq
        /\ plan'[c].debug = plan[c].debug
        /\ plan'[c].rows = plan[c].rows /\ plan'[c].limited = plan[c].limited
        /\ plan'[c].named = [plan[c].named EXCEPT ![s] = {}] /\ plan'[c].current = {}
        /\ plan[c].named \in [Student -> SUBSET Key] /\ plan[c].limited \subseteq Student
    BY <1>1, <1>2, <1>3, PlanFields
  <1>5. /\ plan[c].current = {s} /\ unstamped' = unstamped \ {s}
        /\ age'[s] = 0 /\ \A t \in Student \ {s} : age'[t] = age[t]
        /\ unmailed' = IF plan[c].debug THEN unmailed \union {s} ELSE unmailed \ {s}
        /\ mailAge' = mailAge /\ unseen' = unseen /\ form' = form
    BY <1>1, <1>2 DEF StampsStudent, Stamp, TypeInv, world
  <1>6. ASSUME NEW d \in Sender
        PROVE  SenderInv(d)' /\ JustMailed(d)' /\ KnowsMails(d)'
    <2>1. CASE d = c
      <3>1. SenderInv(d)'
        BY <1>1, <1>3, <1>4, <2>1 DEF SenderInv
      <3>2. MayMail(d)' \subseteq MayMail(d)
        BY <1>4, <1>5, <2>1 DEF MayMail
      <3> QED
        BY <1>1, <1>4, <1>5, <2>1, <3>1, <3>2 DEF KnowsMails, Limit, JustMailed
    <2>2. CASE d # c
      <3>1. SenderInv(d) /\ JustMailed(d) /\ KnowsMails(d) /\ Unmoved(d)
        BY <1>3, <2>2 DEF RemindInv
      <3>2. \A t \in Student : mailAge[t] \in Age /\ mailAge[t] <= mailAge[t]
        BY <1>1, WindowTyped DEF TypeInv, Age
      <3> QED
        BY <1>1, <1>5, <3>1, <3>2, UnmovedSender, UnmovedKnows DEF JustMailed, Unmoved
    <2> QED
      BY <2>1, <2>2
  <1>7. ASSUME NEW t \in Student PROVE MailRecorded(t)' /\ StampMeansMail(t)'
    <2>1. MailRecorded(t) /\ StampMeansMail(t) /\ mailAge[t] \in Age
      BY <1>1 DEF RemindInv, TypeInv
    <2>2. CASE t = s
      <3>1. MailRecorded(t)'
        BY <1>5, <2>1, <2>2, WindowTyped DEF MailRecorded, Age
      <3>2. ~plan[c].debug => mailAge[s] = 0
        BY <1>1, <1>5 DEF JustMailed
      <3>3. StampMeansMail(t)'
        BY <1>5, <2>2, <3>2 DEF StampMeansMail
      <3> QED
        BY <3>1, <3>3
    <2>3. CASE t # s
      <3>1. InFlightNow(t) => InFlightNow(t)'
        BY <1>3, <1>5, <2>3 DEF InFlightNow, Unmoved
      <3>2. t \in InFlight => t \in InFlight'
        BY <3>1, InFlightMembers DEF InFlight, InFlightNow
      <3> QED
        BY <1>5, <2>1, <2>3, <3>2 DEF MailRecorded, StampMeansMail
    <2> QED
      BY <2>2, <2>3
  <1>8. FormInv'
    BY <1>1, <1>5, FormUnmoved DEF RemindInv
  <1> QED
    BY <1>6, <1>7, <1>8 DEF Kept

(* A run that ends has stamped what it sent; one that dies leaves the      *)
(* e-mail it had just sent unrecorded.                                     *)
LEMMA EndKeeps ==
    ASSUME RemindInv, NEW c \in Sender, Finish(c) \/ Crash(c)
    PROVE  Kept
  <1>1. TypeInv /\ SenderInv(c)
    BY DEF RemindInv
  <1>2. /\ plan'[c] = NoPlan /\ pc'[c] = "idle"
        /\ \A d \in Sender \ {c} : Unmoved(d)
    BY <1>1, EndSets, SetsPlan, GoesTo, SendersMove DEF Finish, Crash, RunOn
  <1>3. /\ UNCHANGED <<age, mailAge, unmailed, form>>
        /\ \A d \in Job \ {c} : unseen'[d] = unseen[d]
        /\ unstamped \subseteq unstamped'
        /\ ~plan[c].debug => plan[c].current \subseteq unstamped'
    BY <1>1 DEF Finish, Crash, SenderInv, world
  <1>4. SenderInv(c)' /\ JustMailed(c)' /\ KnowsMails(c)'
    BY <1>2 DEF NoPlan, SenderInv, JustMailed, KnowsMails
  <1>5. ASSUME NEW d \in Sender \ {c}
        PROVE  SenderInv(d)' /\ JustMailed(d)' /\ KnowsMails(d)'
    <2>1. SenderInv(d) /\ JustMailed(d) /\ KnowsMails(d) /\ Unmoved(d)
      BY <1>2 DEF RemindInv
    <2>2. \A t \in Student : mailAge[t] \in Age /\ mailAge[t] <= mailAge[t]
      BY <1>1, WindowTyped DEF TypeInv, Age
    <2> QED
      BY <1>1, <1>3, <2>1, <2>2, UnmovedSender, UnmovedKnows DEF JustMailed, Unmoved
  <1>6. ASSUME NEW t \in Student PROVE MailRecorded(t)' /\ StampMeansMail(t)'
    <2>1. InFlightNow(t) => InFlightNow(t)' \/ t \in unstamped'
      BY <1>2, <1>3 DEF InFlightNow, Unmoved
    <2>2. InFlightNow(t)' => t \in InFlight'
      BY DEF InFlight, InFlightNow
    <2>3. t \in unstamped \union InFlight => t \in unstamped' \union InFlight'
      BY <1>3, <2>1, <2>2, InFlightMembers
    <2> QED
      BY <1>3, <2>3, AgesUnmoved DEF RemindInv
  <1>7. FormInv'
    BY <1>1, <1>3, FormUnmoved DEF RemindInv
  <1> QED
    BY <1>4, <1>5, <1>6, <1>7 DEF Kept

LEMMA TickKeeps ==
    ASSUME RemindInv, Tick
    PROVE  Kept
  <1>1. TypeInv
    BY DEF RemindInv
  <1>2. /\ age' = Older(age) /\ mailAge' = Older(mailAge)
        /\ UNCHANGED <<plan, pc, unstamped, unmailed, unseen>>
        /\ \A c \in Sender : pc[c] # "stamp"
    BY DEF Tick
  <1>3. ASSUME NEW d \in Sender
        PROVE  SenderInv(d)' /\ JustMailed(d)' /\ KnowsMails(d)'
    <2>1. SenderInv(d) /\ KnowsMails(d) /\ Unmoved(d)
      BY <1>2 DEF RemindInv, Unmoved
    <2>2. plan[d].current = {}
      BY <1>2, <2>1 DEF SenderInv
    <2>3. \A s \in Student : mailAge'[s] \in Age /\ mailAge[s] <= mailAge'[s]
      BY <1>1, <1>2, Ageing, AgesStayInOrder DEF TypeInv
    <2> QED
      BY <1>1, <1>2, <2>1, <2>2, <2>3, UnmovedSender, UnmovedKnows DEF JustMailed
  <1>4. ASSUME NEW t \in Student PROVE MailRecorded(t)' /\ StampMeansMail(t)'
    <2>1. MailRecorded(t) /\ StampMeansMail(t)
      BY DEF RemindInv
    <2>2. /\ mailAge[t] = Window => mailAge'[t] = Window
          /\ age[t] <= mailAge[t] => age'[t] <= mailAge'[t]
          /\ mailAge[t] <= age[t] => mailAge'[t] <= age'[t]
          /\ age'[t] < Window => age[t] < Window
      BY <1>1, <1>2, Ageing, AgesStayInOrder DEF TypeInv
    <2>3. InFlight' = InFlight
      BY <1>2 DEF InFlight
    <2> QED
      BY <1>2, <2>1, <2>2, <2>3 DEF MailRecorded, StampMeansMail
  <1>5. FormInv'
    <2>1. /\ form'.rec = form.rec /\ form'.unmailed = form.unmailed
          /\ form'.age = Aged(form.age)
          /\ form.rec \subseteq Student /\ form.age \in Age
      BY <1>1, SubsetAssumption DEF Tick, TypeInv, Form
    <2> SUFFICES ASSUME NEW s \in form.rec
                 PROVE  /\ age'[s] <= Aged(form.age)
                        /\ Aged(form.age) < Window /\ s \notin form.unmailed =>
                               mailAge'[s] <= Aged(form.age)
      BY <2>1 DEF FormInv
    <2>2. /\ age[s] <= form.age
          /\ form.age < Window /\ s \notin form.unmailed => mailAge[s] <= form.age
      BY DEF RemindInv, FormInv
    <2>3. age[s] \in Age /\ mailAge[s] \in Age
      BY <1>1, <2>1 DEF TypeInv
    <2>4. age'[s] = Aged(age[s]) /\ mailAge'[s] = Aged(mailAge[s])
      BY <1>1, <1>2, <2>1, Ageing DEF TypeInv
    <2> QED
      BY <2>1, <2>2, <2>3, <2>4, AgesStayInOrder
  <1> QED
    BY <1>3, <1>4, <1>5 DEF Kept

LEMMA RestKeeps ==
    ASSUME RemindInv, UNCHANGED <<age, pc, plan, history>>, FormInv'
    PROVE  Kept
  <1>1. InFlight' = InFlight
    BY DEF InFlight, history
  <1> QED
    BY <1>1 DEF RemindInv, Kept, history, SenderInv, JustMailed, KnowsMails, MayMail,
                Limit, MailRecorded, StampMeansMail

(* Opening the form reads the stamp of the row; closing it forgets it.     *)
LEMMA FormOpens ==
    ASSUME RemindInv, (\E s \in Edited : OpenRecord(s)) \/ CloseRecord
    PROVE  Kept
  <1>1. UNCHANGED <<age, pc, plan, history>>
    BY DEF OpenRecord, CloseRecord
  <1>2. ASSUME NEW s \in Edited, OpenRecord(s) PROVE FormInv'
    <2>1. form' = [rec |-> {s}, age |-> age[s], unmailed |-> unmailed \intersect {s}]
      BY <1>2 DEF OpenRecord
    <2>2. s \in Student /\ StampMeansMail(s) /\ age[s] \in Age
      BY SubsetAssumption DEF RemindInv, TypeInv
    <2> QED
      BY <1>1, <2>1, <2>2, WindowTyped DEF FormInv, StampMeansMail, Age, history
  <1>3. ASSUME CloseRecord PROVE FormInv'
    BY <1>3 DEF CloseRecord, NoForm, FormInv
  <1>4. FormInv'
    BY <1>2, <1>3
  <1> QED
    BY <1>1, <1>4, RestKeeps

(* Saving it puts an older stamp back: the e-mails since are then out of   *)
(* the record, and the stamp is as true as it was.                         *)
LEMMA SaveKeeps ==
    ASSUME RemindInv, SaveRecord
    PROVE  Kept
  <1>1. TypeInv /\ FormInv
    BY DEF RemindInv
  <1>2. PICK s \in form.rec :
            /\ age' = [age EXCEPT ![s] = form.age]
            /\ unstamped' = IF form.age # age[s] THEN unstamped \union {s} ELSE unstamped
            /\ unmailed' = (unmailed \ {s}) \union form.unmailed
            /\ form' = NoForm
            /\ UNCHANGED <<pc, plan, mailAge, unseen>>
    BY DEF SaveRecord
  <1>3. /\ s \in Student
        /\ age'[s] = form.age /\ \A t \in Student \ {s} : age'[t] = age[t]
    BY <1>1, <1>2, SubsetAssumption DEF TypeInv, Form
  <1>4. ASSUME NEW d \in Sender
        PROVE  SenderInv(d)' /\ JustMailed(d)' /\ KnowsMails(d)'
    BY <1>2 DEF RemindInv, SenderInv, JustMailed, KnowsMails, MayMail, Limit
  <1>5. ASSUME NEW t \in Student PROVE MailRecorded(t)' /\ StampMeansMail(t)'
    <2>1. MailRecorded(t) /\ StampMeansMail(t) /\ InFlight' = InFlight
      BY <1>2 DEF RemindInv, InFlight
    <2>2. CASE t # s
      BY <1>2, <1>3, <2>1, <2>2 DEF MailRecorded, StampMeansMail
    <2>3. CASE t = s
      <3>1. MailRecorded(t)'
        BY <1>2, <1>3, <2>1, <2>3 DEF MailRecorded
      <3>2. form.age < Window /\ s \notin form.unmailed => mailAge[s] <= form.age
        BY <1>1 DEF FormInv
      <3>3. StampMeansMail(t)'
        BY <1>2, <1>3, <2>3, <3>2 DEF StampMeansMail
      <3> QED
        BY <3>1, <3>3
    <2> QED
      BY <2>2, <2>3
  <1>6. FormInv'
    BY <1>2 DEF FormInv, NoForm
  <1> QED
    BY <1>4, <1>5, <1>6 DEF Kept

LEMMA RemindInit == Init => RemindInv
  <1> SUFFICES ASSUME Init PROVE RemindInv
    OBVIOUS
  <1>1. TypeInv
    BY InitTyped
  <1>2. ASSUME NEW c \in Sender PROVE SenderInv(c) /\ JustMailed(c) /\ KnowsMails(c)
    BY DEF Init, NoPlan, SenderInv, JustMailed, KnowsMails
  <1>3. ASSUME NEW s \in Student PROVE MailRecorded(s) /\ StampMeansMail(s)
    BY WindowTyped DEF Init, MailRecorded, StampMeansMail
  <1>4. FormInv
    BY DEF Init, NoForm, FormInv
  <1> QED
    BY <1>1, <1>2, <1>3, <1>4 DEF RemindInv

LEMMA RemindStep == RemindInv /\ [Next]_vars => RemindInv'
  <1> SUFFICES ASSUME RemindInv, [Next]_vars PROVE RemindInv'
    OBVIOUS
  <1>1. ASSUME NEW c \in Sender, RunOn(c) \/ Crash(c) PROVE Kept
    BY <1>1, ClassifyKeeps, SendKeeps, StartSendingKeeps, StampKeeps, EndKeeps DEF RunOn
  <1>2. ASSUME NEW c \in Job, BuildPlan(c) PROVE Kept
    BY <1>2, ScheduledKeeps
  <1>3. ASSUME NEW c \in Staff, NEW s \in Student, StartSendNow(c, s) PROVE Kept
    BY <1>3, SendNowKeeps
  <1>4. ASSUME NEW s \in Student, NEW k \in Key, ChecklistChanges(s, k) PROVE Kept
    BY <1>4, RestKeeps DEF ChecklistChanges, RemindInv, FormInv, history
  <1>5. ASSUME SaveSettings PROVE Kept
    <2>1. UNCHANGED <<age, pc, plan, form, history>>
      BY <1>5, Zenon DEF SaveSettings, history
    <2> QED
      BY <2>1, RestKeeps DEF RemindInv, FormInv, history
  <1>6. ASSUME UNCHANGED vars PROVE Kept
    <2>1. UNCHANGED <<age, pc, plan, form, history>>
      BY <1>6 DEF vars, history
    <2> QED
      BY <2>1, RestKeeps DEF RemindInv, FormInv, history
  <1>7. TypeInv'
    BY StepTyped DEF RemindInv
  <1> QED
    BY <1>1, <1>2, <1>3, <1>4, <1>5, <1>6, <1>7, TickKeeps, FormOpens, SaveKeeps
       DEF Next, StartScheduled, StartByHand, Job, Kept, RemindInv

(* RemindInv holds of every reachable state, for every set of students and *)
(* senders, every setting, every length of a day, any use of the record    *)
(* form and every number of crashes.                                       *)
THEOREM RemindInvariant == Spec => []RemindInv
  BY RemindInit, RemindStep, PTL DEF Spec

-----------------------------------------------------------------------------
(* Theorems on the reminders.                                              *)

(* Every variable of the job stays in its range, and a plan names no step  *)
(* of a student the rate limit holds back.                                 *)
THEOREM RemindTypeCorrect == Spec => []TypeOK
  <1>1. RemindInv => TypeOK
    BY TypeInvGivesTypeOK DEF RemindInv
  <1> QED
    BY <1>1, RemindInvariant, PTL

(* No action but those of a sender moves one.                              *)
LEMMA OthersStandStill ==
    ASSUME [Next]_vars, pc' # pc
    PROVE  \/ \E c \in Sender : RunOn(c) \/ Crash(c)
           \/ \E c \in Job : BuildPlan(c)
           \/ \E c \in Staff, s \in Student : StartSendNow(c, s)
  <1>1. ~(\E s \in Student, k \in Key : ChecklistChanges(s, k)) /\ ~SaveSettings /\ ~Tick
    BY DEF ChecklistChanges, SaveSettings, Tick
  <1>2. ~(\E s \in Edited : OpenRecord(s)) /\ ~SaveRecord /\ ~CloseRecord
    BY DEF OpenRecord, SaveRecord, CloseRecord
  <1>3. ~UNCHANGED vars
    BY DEF vars
  <1> QED
    BY <1>1, <1>2, <1>3 DEF Next, StartScheduled, StartByHand, Job

RemindsFairly ==
    \A c \in Sender, s \in Student :
        Reminds(c, s) => mailAge[s] >= plan[c].freq * DayLength \/ s \in unseen[c]

(* However senders overlap and die, staff change freq and record forms are *)
(* saved late: the command mails a student within freq days of the last    *)
(* e-mail only if that e-mail was not in the record when the run read it,  *)
(* or was sent after that.                                                 *)
THEOREM EarlyMeansUnrecorded == Spec => EarlyOnlyIfUnrecorded
  <1>1. ASSUME RemindInv, [Next]_vars PROVE RemindsFairly
    <2> SUFFICES ASSUME NEW c \in Sender, NEW s \in Student, Reminds(c, s)
                 PROVE  mailAge[s] >= plan[c].freq * DayLength \/ s \in unseen[c]
      BY DEF RemindsFairly
    <2>1. /\ TypeInv /\ SenderInv(c) /\ KnowsMails(c)
          /\ pc[c] = "send" /\ pc'[c] = "stamp" /\ s \in plan'[c].current
          /\ plan[c].job /\ ~plan[c].debug
      BY <1>1 DEF Reminds, Mails, RemindInv
    <2>2. \E t \in Student : Send(c, t)
      <3>1. ASSUME NEW d \in Sender,
                   \/ RunOn(d) \/ Crash(d) \/ BuildPlan(d)
                   \/ \E t \in Student : StartSendNow(d, t)
            PROVE  d = c
        BY <2>1, <3>1, SendersMove DEF Unmoved
      <3>2. pc' # pc
        BY <2>1
      <3>3. \/ RunOn(c) \/ Crash(c) \/ BuildPlan(c)
            \/ \E t \in Student : StartSendNow(c, t)
        BY <1>1, <3>1, <3>2, OthersStandStill DEF Sender
      <3>4. /\ ~GoTo(c, "idle") /\ ~GoTo(c, "send")
            /\ ~GoTo(c, "classify")
        BY <2>1, GoesTo
      <3> QED
        BY <2>1, <3>3, <3>4 DEF RunOn, Crash, BuildPlan, StartSendNow, Classify,
                                StartSending, Stamp, Finish
    <2>3. PICK t \in Student : Send(c, t)
      BY <2>2
    <2>4. plan'[c].current = {t}
      BY <2>1, <2>3, SendSets, SetsPlan
    <2>5. plan[c].current = {} /\ plan[c].named[t] # {} /\ s = t
      BY <2>1, <2>3, <2>4 DEF SenderInv, Send
    <2>6. s \in MayMail(c)
      BY <2>5 DEF MayMail
    <2> QED
      BY <2>1, <2>6 DEF KnowsMails, Limit
  <1>2. EarlyOnlyIfUnrecorded <=> [][RemindsFairly]_vars
    BY PTL DEF EarlyOnlyIfUnrecorded, RemindsFairly
  <1>3. RemindInv /\ [Next]_vars => [RemindsFairly]_vars
    BY <1>1
  <1> QED
    BY <1>2, <1>3, RemindInvariant, PTL DEF Spec

HeldBackFairly ==
    \A c \in Sender :
        pc[c] = "idle" /\ pc'[c] = "classify" =>
            \A s \in plan'[c].limited \ unmailed :
                mailAge[s] < config.freq * DayLength

(* A student the rate limit holds back has been mailed within freq days,   *)
(* or a run in debug mode has stamped the student, whatever staff do to    *)
(* freq and to the record.                                                 *)
THEOREM HeldBackWasMailed == Spec => RateLimitedWasNotified
  <1>1. ASSUME RemindInv, [Next]_vars PROVE HeldBackFairly
    <2> SUFFICES ASSUME NEW c \in Sender, pc[c] = "idle", pc'[c] = "classify",
                        NEW s \in plan'[c].limited, s \notin unmailed
                 PROVE  mailAge[s] < config.freq * DayLength
      BY DEF HeldBackFairly
    <2>1. TypeInv
      BY <1>1 DEF RemindInv
    <2>2. (c \in Job /\ BuildPlan(c))
          \/ (c \in Staff /\ \E t \in Student : StartSendNow(c, t))
      <3>1. ASSUME NEW d \in Sender,
                   \/ RunOn(d) \/ Crash(d) \/ BuildPlan(d)
                   \/ \E t \in Student : StartSendNow(d, t)
            PROVE  d = c
        BY <2>1, <3>1, SendersMove DEF Unmoved
      <3>2. pc' # pc
        OBVIOUS
      <3>3. ~RunOn(c) /\ ~Crash(c)
        BY DEF RunOn, Crash, Classify, StartSending, Send, Stamp, Finish
      <3> QED
        BY <1>1, <3>1, <3>2, <3>3, OthersStandStill DEF Sender
    <2>3. CASE BuildPlan(c)
      <3>1. plan'[c] = ScheduledPlan
        BY <2>1, <2>3, ScheduledSets, SetsPlan
      <3>2. s \in Student /\ RateLimited(s)
        BY <2>1, <2>3, <3>1, ScheduledSets
      <3>3. StampMeansMail(s) /\ age[s] \in Age /\ mailAge[s] \in Age
        BY <1>1, <2>1, <3>2 DEF RemindInv, TypeInv
      <3> DEFINE L == config.freq * DayLength
      <3>4. L \in Nat /\ L <= Window /\ age[s] < L
        BY <2>1, <3>2, WithinWindow DEF RateLimited, TypeInv, Config
      <3> HIDE DEF L
      <3>5. mailAge[s] < L
        BY <3>3, <3>4, WindowTyped DEF StampMeansMail, Age
      <3> QED
        BY <3>5 DEF L
    <2>4. ASSUME NEW t \in Student, StartSendNow(c, t) PROVE FALSE
      BY <2>1, <2>4, SendNowSets, SetsPlan
    <2> QED
      BY <2>2, <2>3, <2>4
  <1>2. RateLimitedWasNotified <=> [][HeldBackFairly]_vars
    BY PTL DEF RateLimitedWasNotified, HeldBackFairly
  <1>3. RemindInv /\ [Next]_vars => [HeldBackFairly]_vars
    BY <1>1
  <1> QED
    BY <1>2, <1>3, RemindInvariant, PTL DEF Spec

=============================================================================
