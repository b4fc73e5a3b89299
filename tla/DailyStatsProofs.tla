---------------------------- MODULE DailyStatsProofs ----------------------------
(***************************************************************************)
(* Theorems about the daily rollup.  A run carries figures that it has     *)
(* read earlier: the invariant says for how long they are still those of   *)
(* the checklists, and what of them is already in the rows.                *)
(***************************************************************************)
EXTENDS DailyStats, ChecklistProofs, SequenceTheorems

Runs ==
    [date : Time, last : Time, began : Time, total : Counter,
     todo : SUBSET UpsertType, insert : SUBSET UpsertType]

StatsTyped ==
    /\ TypeOK
    /\ schoolOf \in [Record -> School \union {NoSchool}]
    /\ stats \in [StatsKey -> Seq(FiguresType)]
    /\ pc \in [Worker -> {"idle", "total", "completed", "schools", "steps", "next"}]
    /\ run \in [Worker -> Runs]
    /\ quiet \in [Worker -> BOOLEAN]
    /\ settled \in SUBSET Time

(* A run works on the days it was given, up to the one it runs on; what it *)
(* has to write is about one day, and what it inserts it has to write.     *)
RunRight(w) ==
    /\ run[w].date <= run[w].last /\ run[w].last <= now /\ run[w].began <= now
    /\ run[w].insert \subseteq run[w].todo
    /\ \A u, v \in run[w].insert : u = v
    /\ \A u \in run[w].todo : u.key[1] = run[w].date
    /\ pc[w] \in {"idle", "total", "completed"} => run[w].todo = {}
    /\ quiet[w] => pc[w] # "idle"

(* What the queries find at this moment for day d.                         *)
SchoolRow(d, h) ==
    Upsert(<<d, h, AnyStep>>, Figures(Total(d, Pupils(h)), Completed(d, Pupils(h)), 0))
All(d) == AllRow(d, Total(d, Record))
Steps(d) == StepRows(d, Total(d, Record))
Current(d) == {All(d)} \union SchoolRows(d) \union Steps(d)
AskedAt(query, d) ==
    CASE query = "schools" -> {All(d)}
      [] query = "steps"   -> {All(d)} \union SchoolRows(d)
      [] query = "next"    -> Current(d)
      [] OTHER             -> {}
Asked(w) == AskedAt(pc[w], Date(w))

(* The figures of a run are those of the checklists at this moment.        *)
UpToDate(w) ==
    /\ pc[w] \notin {"idle", "total"} => run[w].total = Total(Date(w), Record)
    /\ run[w].todo \subseteq Asked(w)

(* As long as a day is settled or a run is quiet, nothing has changed      *)
(* since any of the runs under way began.                                  *)
Undisturbed == settled # {} \/ \E w \in Worker : quiet[w]

(* What a quiet run has asked for it has written or is going to write, and *)
(* nobody inserts a row before it.                                         *)
QuietRight(w) ==
    quiet[w] =>
        /\ \A u \in Asked(w) : u \in run[w].todo \/ Recorded(u.key[1], u)
        /\ \A u \in run[w].insert : stats[u.key] = <<>>

(* A day that was over before the run began: its total stays what it was,  *)
(* and no figure exceeds it.                                               *)
PastRight(w) ==
    Date(w) < run[w].began =>
        /\ pc[w] \notin {"idle", "total"} => run[w].total = Total(Date(w), Record)
        /\ \A u \in run[w].todo :
              /\ u.figures.completed_count <= u.figures.total_onboardings
              /\ u.figures.step_completed_count <= u.figures.total_onboardings

StatsInv ==
    /\ StatsTyped
    /\ \A w \in Worker : RunRight(w) /\ QuietRight(w) /\ PastRight(w)
    /\ \A r \in Record : StartedFirst(r)
    /\ Undisturbed => \A w \in Worker : UpToDate(w)
    /\ \A d \in settled : \A u \in Current(d) : Recorded(d, u)

(* A single aggregator, which inserts only what is not there.              *)
InsertsNew(w) == \A u \in run[w].insert : stats[u.key] = <<>>
OnceInv == OneRowPerKey /\ \A w \in Worker : InsertsNew(w)

-----------------------------------------------------------------------------
(* The figures.                                                            *)
LEMMA CounterTyped ==
    ASSUME NEW S \in SUBSET Record
    PROVE  IsFiniteSet(S) /\ Cardinality(S) \in Counter
  <1>1. IsFiniteSet(S) /\ Cardinality(S) <= Cardinality(Record)
    BY RecordAssumption, FS_Subset
  <1>2. Cardinality(S) \in Nat /\ Cardinality(Record) \in Nat
    BY <1>1, RecordAssumption, FS_CardinalityType
  <1> QED
    BY <1>1, <1>2 DEF Counter

LEMMA FewerRecords ==
    ASSUME NEW S \in SUBSET Record, NEW T \in SUBSET S
    PROVE  Cardinality(T) <= Cardinality(S)
  BY CounterTyped, FS_Subset

LEMMA FiguresTyped ==
    ASSUME NEW d
    PROVE  /\ \A rs \in SUBSET Record : Total(d, rs) \in Counter /\ Completed(d, rs) \in Counter
           /\ \A k : StepCompleted(d, k) \in Counter
           /\ \A rs \in SUBSET Record : Completed(d, rs) <= Total(d, rs)
  <1>1. ASSUME NEW rs \in SUBSET Record
        PROVE  /\ Total(d, rs) \in Counter /\ Completed(d, rs) \in Counter
               /\ Completed(d, rs) <= Total(d, rs)
    <2> DEFINE S == {r \in rs : StartedBy(r, d)}
               T == {r \in rs : CompletedBy(r, d)}
    <2>1. S \in SUBSET Record /\ T \in SUBSET S
      BY DEF CompletedBy
    <2> HIDE DEF S, T
    <2>2. Cardinality(S) \in Counter /\ Cardinality(T) \in Counter
      BY <2>1, CounterTyped
    <2>3. Cardinality(T) <= Cardinality(S)
      BY <2>1, FewerRecords
    <2> QED
      BY <2>2, <2>3 DEF Total, Completed, S, T
  <1>2. ASSUME NEW k PROVE StepCompleted(d, k) \in Counter
    BY CounterTyped DEF StepCompleted
  <1> QED
    BY <1>1, <1>2

LEMMA FiguresFields ==
    ASSUME NEW a \in Counter, NEW b \in Counter, NEW c \in Counter
    PROVE  /\ Figures(a, b, c) \in FiguresType
           /\ Figures(a, b, c).total_onboardings = a
           /\ Figures(a, b, c).completed_count = b
           /\ Figures(a, b, c).step_completed_count = c
  BY DEF Figures, FiguresType

LEMMA KeyTyped ==
    ASSUME NEW d \in Time
    PROVE  /\ <<d, NoSchool, AnyStep>> \in StatsKey
           /\ \A h \in School : <<d, h, AnyStep>> \in StatsKey
           /\ \A k \in Key : <<d, NoSchool, k>> \in StatsKey
  BY DEF StatsKey

LEMMA UpsertTyped ==
    ASSUME NEW key \in StatsKey, NEW figures \in FiguresType
    PROVE  /\ Upsert(key, figures) \in UpsertType
           /\ Upsert(key, figures).key = key /\ Upsert(key, figures).figures = figures
  BY DEF Upsert, UpsertType

(* What each query hands over for day d.                                   *)
Consistent(u) ==
    /\ u.figures.completed_count <= u.figures.total_onboardings
    /\ u.figures.step_completed_count <= u.figures.total_onboardings
About(d, us) == \A u \in us : u \in UpsertType /\ u.key[1] = d

LEMMA ZeroCounter == 0 \in Counter /\ Counter \subseteq Nat
  BY CounterTyped, RecordAssumption, FS_CardinalityType DEF Counter

LEMMA AllRowTyped ==
    ASSUME NEW d \in Time, NEW n \in Counter
    PROVE  /\ About(d, {AllRow(d, n)}) /\ AllRow(d, n).key = <<d, NoSchool, AnyStep>>
           /\ n = Total(d, Record) => Consistent(AllRow(d, n))
  <1>1. /\ Completed(d, Record) \in Counter /\ 0 \in Counter /\ n \in Nat
        /\ Completed(d, Record) <= Total(d, Record)
    BY FiguresTyped, ZeroCounter
  <1>2. <<d, NoSchool, AnyStep>> \in StatsKey
    BY KeyTyped
  <1> DEFINE f == Figures(n, Completed(d, Record), 0)
  <1>3. /\ f \in FiguresType /\ f.total_onboardings = n
        /\ f.completed_count = Completed(d, Record) /\ f.step_completed_count = 0
    <2>1. \A b, c \in Counter :
              /\ Figures(n, b, c) \in FiguresType /\ Figures(n, b, c).total_onboardings = n
              /\ Figures(n, b, c).completed_count = b
              /\ Figures(n, b, c).step_completed_count = c
      BY FiguresFields
    <2> QED
      BY <1>1, <2>1
  <1> HIDE DEF f
  <1>4. /\ AllRow(d, n) \in UpsertType /\ AllRow(d, n).figures = f
        /\ AllRow(d, n).key = <<d, NoSchool, AnyStep>>
    BY <1>2, <1>3, UpsertTyped DEF AllRow, f
  <1>5. About(d, {AllRow(d, n)})
    BY <1>4 DEF About
  <1>6. n = Total(d, Record) => Consistent(AllRow(d, n))
    BY <1>1, <1>3, <1>4 DEF Consistent
  <1> QED
    BY <1>4, <1>5, <1>6

LEMMA SchoolRowTyped ==
    ASSUME NEW d \in Time, NEW h \in School
    PROVE  /\ SchoolRow(d, h) \in UpsertType /\ SchoolRow(d, h).key = <<d, h, AnyStep>>
           /\ Consistent(SchoolRow(d, h))
  <1> DEFINE rs == Pupils(h)
             f == Figures(Total(d, rs), Completed(d, rs), 0)
  <1>1. rs \in SUBSET Record
    BY DEF Pupils
  <1> HIDE DEF rs
  <1>2. /\ Total(d, rs) \in Counter /\ Completed(d, rs) \in Counter
        /\ Completed(d, rs) <= Total(d, rs) /\ 0 \in Counter /\ Total(d, rs) \in Nat
    BY <1>1, FiguresTyped, ZeroCounter
  <1>3. /\ f \in FiguresType /\ f.total_onboardings = Total(d, rs)
        /\ f.completed_count = Completed(d, rs) /\ f.step_completed_count = 0
    BY <1>2, FiguresFields
  <1>4. <<d, h, AnyStep>> \in StatsKey
    BY KeyTyped
  <1> HIDE DEF f
  <1>5. SchoolRow(d, h) = Upsert(<<d, h, AnyStep>>, f)
    BY DEF SchoolRow, f, rs
  <1> QED
    BY <1>2, <1>3, <1>4, <1>5, UpsertTyped DEF Consistent

LEMMA SchoolRowsTyped ==
    ASSUME NEW d \in Time
    PROVE  /\ \A u \in SchoolRows(d) :
                  \E h \in School : Total(d, Pupils(h)) > 0 /\ u = SchoolRow(d, h)
           /\ \A h \in School : Total(d, Pupils(h)) > 0 => SchoolRow(d, h) \in SchoolRows(d)
           /\ About(d, SchoolRows(d))
           /\ \A u \in SchoolRows(d) : Consistent(u)
  <1>1. SchoolRows(d) =
            {SchoolRow(d, h) :
                h \in {g \in School \union {NoSchool} : Grouped(g) /\ Total(d, Pupils(g)) > 0}}
    BY DEF SchoolRows, SchoolRow
  <1>2. \A u \in SchoolRows(d) :
            \E h \in School : Total(d, Pupils(h)) > 0 /\ u = SchoolRow(d, h)
    BY <1>1 DEF Grouped
  <1>3. \A h \in School : Total(d, Pupils(h)) > 0 => SchoolRow(d, h) \in SchoolRows(d)
    BY <1>1, NullAssumption DEF Grouped
  <1>4. ASSUME NEW u \in SchoolRows(d)
        PROVE  u \in UpsertType /\ u.key[1] = d /\ Consistent(u)
    BY <1>2, SchoolRowTyped
  <1> QED
    BY <1>2, <1>3, <1>4 DEF About

(* A step is done on a record that has been started: there are not more    *)
(* completions of it than records.                                         *)
LEMMA StepRowsTyped ==
    ASSUME NEW d \in Time, NEW n \in Counter
    PROVE  /\ About(d, StepRows(d, n))
           /\ \A u \in StepRows(d, n) : \E k \in Key : u.key = <<d, NoSchool, k>>
           /\ \A u, v \in StepRows(d, n) : u.key = v.key => u = v
           /\ StatsTyped /\ n = Total(d, Record) /\ (\A r \in Record : StartedFirst(r)) =>
                  \A u \in StepRows(d, n) : Consistent(u)
  <1> DEFINE Row(k) == Upsert(<<d, NoSchool, k>>, Figures(n, 0, StepCompleted(d, k)))
  <1>1. ASSUME NEW k \in Key
        PROVE  /\ Row(k) \in UpsertType /\ Row(k).key = <<d, NoSchool, k>>
               /\ Row(k).figures.total_onboardings = n
               /\ Row(k).figures.completed_count = 0
               /\ Row(k).figures.step_completed_count = StepCompleted(d, k)
    <2> DEFINE f == Figures(n, 0, StepCompleted(d, k))
    <2>1. StepCompleted(d, k) \in Counter /\ 0 \in Counter
      BY FiguresTyped, ZeroCounter
    <2>2. /\ f \in FiguresType /\ f.total_onboardings = n
          /\ f.completed_count = 0 /\ f.step_completed_count = StepCompleted(d, k)
      BY <2>1, FiguresFields
    <2>3. <<d, NoSchool, k>> \in StatsKey
      BY KeyTyped
    <2> HIDE DEF f
    <2>4. Row(k) = Upsert(<<d, NoSchool, k>>, f)
      BY DEF f
    <2> QED
      BY <2>2, <2>3, <2>4, UpsertTyped
  <1>2. \A u \in StepRows(d, n) : \E k \in Key : u = Row(k)
    BY DEF StepRows
  <1>3. ASSUME StatsTyped, n = Total(d, Record), \A r \in Record : StartedFirst(r),
               NEW k \in Key
        PROVE  StepCompleted(d, k) <= n
    <2> DEFINE S == {r \in Record : StartedBy(r, d)}
               T == {r \in Record : steps[r][k].completed_on \in 1 .. d}
    <2>1. ASSUME NEW r \in Record, steps[r][k].completed_on \in 1 .. d
          PROVE  StartedBy(r, d)
      <3>1. Exists(r) /\ onboarding[r].started_on <= steps[r][k].completed_on
        BY <1>3, <2>1 DEF StartedFirst, Null
      <3>2. onboarding[r].started_on \in Nat
        BY <1>3 DEF StatsTyped, TypeOK, OnboardingRow, Timestamp, Time, Null
      <3> QED
        BY <2>1, <3>1, <3>2 DEF StartedBy, Exists, Null, Time
    <2>2. S \in SUBSET Record /\ T \in SUBSET S
      BY <2>1
    <2> HIDE DEF S, T
    <2>3. Cardinality(T) <= Cardinality(S)
      BY <2>2, FewerRecords
    <2> QED
      BY <1>3, <2>3 DEF StepCompleted, Total, S, T
  <1> HIDE DEF Row
  <1>4. About(d, StepRows(d, n))
    BY <1>1, <1>2 DEF About
  <1>5. \A u \in StepRows(d, n) : \E k \in Key : u.key = <<d, NoSchool, k>>
    BY <1>1, <1>2
  <1>6. ASSUME NEW u \in StepRows(d, n), NEW v \in StepRows(d, n), u.key = v.key
        PROVE  u = v
    BY <1>1, <1>2, <1>6
  <1>7. ASSUME StatsTyped, n = Total(d, Record), \A r \in Record : StartedFirst(r),
               NEW u \in StepRows(d, n)
        PROVE  Consistent(u)
    <2>1. PICK k \in Key : u = Row(k)
      BY <1>2
    <2>2. n \in Nat /\ 0 <= n
      BY ZeroCounter
    <2> QED
      BY <1>1, <1>3, <1>7, <2>1, <2>2 DEF Consistent
  <1> QED
    BY <1>4, <1>5, <1>6, <1>7

-----------------------------------------------------------------------------
(* A change of a checklist leaves its times in order.                      *)
LEMMA ChangeOnTime ==
    ASSUME TypeOK, NEW r \in Record, ChecklistChanges(r)
    PROVE  OnTime(r) /\ TypeOK' /\ now' = now
  <1>1. \/ GetOrCreate(r)
        \/ \E k \in Key, s \in Status : AddStep(r, k, s)
        \/ \E k \in Key : CompleteStep(r, k) \/ MarkNotApplicable(r, k)
        \/ \E k \in Key : ReopenStep(r, k)
    BY DEF ChecklistChanges
  <1>2. "completed" \in DoneStatus /\ "not_applicable" \in DoneStatus
    BY DEF DoneStatus
  <1>3. OnTime(r)
    BY <1>1, <1>2, CreateOnTime, AddOnTime, TransitionOnTime, ReopenOnTime
       DEF CompleteStep, MarkNotApplicable
  <1>4. [Next]_vars
    BY <1>1 DEF Next
  <1>5. now' = now
    BY <1>1 DEF GetOrCreate, AddStep, CompleteStep, MarkNotApplicable, TransitionStep,
                ReopenStep
  <1> QED
    BY <1>3, <1>4, <1>5, StepTyped

(* What happens on a day does not change which records had been started by *)
(* an earlier one.                                                         *)
LEMMA PastTotals ==
    ASSUME StatsTyped, \A q \in Record : StartedFirst(q),
           NEW r \in Record, ChecklistChanges(r), NEW d \in Time, d < now
    PROVE  Total(d, Record)' = Total(d, Record)
  <1>1. OnTime(r) /\ Passed(r)' \subseteq Passed(r) \union {Null, now} /\ TypeOK
    BY ChangeOnTime DEF ChecklistChanges, StatsTyped
  <1>2. ASSUME NEW q \in Record PROVE StartedBy(q, d)' <=> StartedBy(q, d)
    <2>1. CASE q # r
      BY <1>1, <2>1 DEF OnTime, Leaves, StartedBy
    <2>2. CASE q = r /\ Exists(r)
      BY <1>1, <2>2 DEF OnTime, StartedBy
    <2>3. CASE q = r /\ ~Exists(r)
      <3>1. onboarding'[r].started_on \in Passed(r)'
        BY DEF Passed
      <3>2. Passed(r) \subseteq {Null}
        <4>1. \A k \in Key : steps[r][k].completed_on = Null
          BY <2>3 DEF StartedFirst
        <4>2. onboarding[r].completed_on = Null /\ onboarding[r].started_on = Null
          BY <2>3 DEF StartedFirst, Exists
        <4> QED
          BY <4>1, <4>2 DEF Passed
      <3>3. onboarding'[r].started_on = now
        BY <1>1, <3>1, <3>2 DEF OnTime
      <3>4. now \in Nat /\ d \in Nat
        BY <1>1 DEF TypeOK, Time
      <3>5. ~(now \in 1 .. d) /\ ~(Null \in 1 .. d)
        BY <3>4 DEF Null
      <3> QED
        BY <2>3, <3>3, <3>5 DEF StartedBy, Exists
    <2> QED
      BY <2>1, <2>2, <2>3
  <1>3. {q \in Record : StartedBy(q, d)}' = {q \in Record : StartedBy(q, d)}
    BY <1>2
  <1> QED
    BY <1>3 DEF Total

(* What the queries find depends on the checklists and the schools alone.  *)
SameChecklists == UNCHANGED <<onboarding, steps, schoolOf>>

LEMMA CurrentStays ==
    ASSUME SameChecklists
    PROVE  /\ \A d : /\ Total(d, Record)' = Total(d, Record)
                     /\ All(d)' = All(d) /\ SchoolRows(d)' = SchoolRows(d)
                     /\ Steps(d)' = Steps(d) /\ Current(d)' = Current(d)
           /\ \A r \in Record : StartedFirst(r)' <=> StartedFirst(r)
  BY DEF SameChecklists, Total, All, AllRow, Completed, SchoolRows, Steps, StepRows,
         StepCompleted, Current, StartedBy, CompletedBy, Pupils, StartedFirst, Exists,
         Upsert, Figures, Grouped

-----------------------------------------------------------------------------
(* The rows of a day have keys of their own.                               *)
LEMMA CurrentTyped ==
    ASSUME NEW d \in Time
    PROVE  About(d, Current(d))
  <1>1. Total(d, Record) \in Counter
    BY FiguresTyped
  <1>2. About(d, {All(d)}) /\ About(d, SchoolRows(d)) /\ About(d, Steps(d))
    BY <1>1, AllRowTyped, SchoolRowsTyped, StepRowsTyped DEF All, Steps
  <1> QED
    BY <1>2 DEF About, Current

LEMMA KeysApart ==
    ASSUME NEW d \in Time, NEW u \in Current(d), NEW v \in Current(d), u.key = v.key
    PROVE  u = v
  <1>1. Total(d, Record) \in Counter
    BY FiguresTyped
  <1>2. All(d).key = <<d, NoSchool, AnyStep>>
    BY <1>1, AllRowTyped DEF All
  <1>3. \A x \in SchoolRows(d) :
            \E h \in School : x = SchoolRow(d, h) /\ x.key = <<d, h, AnyStep>>
    BY SchoolRowsTyped, SchoolRowTyped
  <1>4. /\ \A x \in Steps(d) : \E k \in Key : x.key = <<d, NoSchool, k>>
        /\ \A x, y \in Steps(d) : x.key = y.key => x = y
    BY <1>1, StepRowsTyped DEF Steps
  <1>5. /\ \A x \in SchoolRows(d) : x.key[2] \in School /\ x = SchoolRow(d, x.key[2])
        /\ \A x \in Steps(d) : x.key[2] = NoSchool /\ x.key[3] \in Key
        /\ All(d).key[2] = NoSchool /\ All(d).key[3] = AnyStep
    BY <1>2, <1>3, <1>4
  <1>6. CASE u \in SchoolRows(d) \/ v \in SchoolRows(d)
    BY <1>5, <1>6, NullAssumption DEF Current
  <1>7. CASE u \in Steps(d) /\ v \in Steps(d)
    BY <1>4, <1>7
  <1>8. CASE u \notin SchoolRows(d) /\ v \notin SchoolRows(d)
                 /\ ~(u \in Steps(d) /\ v \in Steps(d))
    BY <1>5, <1>8, NullAssumption DEF Current
  <1> QED
    BY <1>6, <1>7, <1>8

LEMMA AskedCurrent ==
    ASSUME NEW w \in Worker
    PROVE  Asked(w) \subseteq Current(Date(w))
  BY DEF Asked, AskedAt, Current

-----------------------------------------------------------------------------
(* Steps of a run that write no row.                                       *)
Sets(w, x, p, q) ==
    /\ x \in Runs
    /\ run' = [run EXCEPT ![w] = x]
    /\ pc' = [pc EXCEPT ![w] = p]
    /\ quiet' = [quiet EXCEPT ![w] = q]

LEMMA AskedStays ==
    ASSUME SameChecklists
    PROVE  \A query, d : AskedAt(query, d)' = AskedAt(query, d)
  <1> SUFFICES ASSUME NEW query, NEW d PROVE AskedAt(query, d)' = AskedAt(query, d)
    OBVIOUS
  <1>1. /\ All(d)' = All(d) /\ SchoolRows(d)' = SchoolRows(d)
        /\ Current(d)' = Current(d)
    BY CurrentStays
  <1> QED
    BY <1>1 DEF AskedAt

LEMMA OwnState ==
    ASSUME StatsInv, SameChecklists, NEW w \in Worker, NEW x, NEW p, NEW q, Sets(w, x, p, q)
    PROVE  /\ run'[w] = x /\ pc'[w] = p /\ quiet'[w] = q
           /\ Date(w)' = x.date /\ Asked(w)' = AskedAt(p, x.date)
           /\ Total(Date(w), Record)' = Total(x.date, Record)
  <1>1. run'[w] = x /\ pc'[w] = p /\ quiet'[w] = q /\ Date(w)' = x.date
    BY DEF Sets, StatsInv, StatsTyped, Date
  <1>2. Asked(w)' = AskedAt(p, x.date)
    BY <1>1, AskedStays DEF Asked
  <1>3. Total(Date(w), Record)' = Total(x.date, Record)
    BY <1>1 DEF Total, StartedBy, SameChecklists
  <1> QED
    BY <1>1, <1>2, <1>3

LEMMA OthersStay ==
    ASSUME StatsInv, SameChecklists, stats' = stats, now' = now,
           NEW w \in Worker, NEW x, NEW p, NEW q, Sets(w, x, p, q),
           NEW v \in Worker \ {w}
    PROVE  RunRight(v)' /\ QuietRight(v)' /\ PastRight(v)' /\ (UpToDate(v) => UpToDate(v)')
  <1>1. run'[v] = run[v] /\ pc'[v] = pc[v] /\ quiet'[v] = quiet[v]
    BY DEF Sets, StatsInv, StatsTyped
  <1>2. RunRight(v) /\ QuietRight(v) /\ PastRight(v)
    BY DEF StatsInv
  <1>3. Date(v)' = Date(v) /\ Total(Date(v), Record)' = Total(Date(v), Record)
    <2>1. \A d : Total(d, Record)' = Total(d, Record)
      BY CurrentStays
    <2> QED
      BY <1>1, <2>1 DEF Date, Total, StartedBy, SameChecklists
  <1>4. Asked(v)' = Asked(v)
    BY <1>1, <1>3, AskedStays DEF Asked
  <1>5. RunRight(v)'
    BY <1>1, <1>2 DEF RunRight
  <1>6. QuietRight(v)'
    BY <1>1, <1>2, <1>4 DEF QuietRight, Recorded
  <1>7. PastRight(v)'
    BY <1>1, <1>2, <1>3 DEF PastRight
  <1>8. UpToDate(v) => UpToDate(v)'
    BY <1>1, <1>3, <1>4 DEF UpToDate
  <1> QED
    BY <1>5, <1>6, <1>7, <1>8

LEMMA RunStep ==
    ASSUME StatsInv, UNCHANGED <<checklist, stats>>,
           NEW w \in Worker, NEW x, NEW p, NEW q, Sets(w, x, p, q),
           p \in {"idle", "total", "completed", "schools", "steps", "next"},
           q \in BOOLEAN, settled' \in SUBSET Time,
           RunRight(w)', QuietRight(w)', PastRight(w)', Undisturbed' => UpToDate(w)',
           Undisturbed' => Undisturbed \/ \A v \in Worker : pc[v] = "idle",
           \A d \in settled' \ settled : \A u \in Current(d) : Recorded(d, u)
    PROVE  StatsInv'
  <1>1. SameChecklists /\ now' = now /\ stats' = stats /\ UNCHANGED vars
    BY DEF SameChecklists, checklist, vars
  <1>2. StatsTyped'
    <2>1. TypeOK'
      BY <1>1, StepTyped DEF StatsInv, StatsTyped
    <2> QED
      BY <1>1, <2>1 DEF StatsInv, StatsTyped, Sets, SameChecklists
  <1>3. ASSUME NEW v \in Worker PROVE RunRight(v)' /\ QuietRight(v)' /\ PastRight(v)'
    BY <1>1, OthersStay
  <1>4. \A r \in Record : StartedFirst(r)'
    BY <1>1, CurrentStays DEF StatsInv
  <1>5. ASSUME Undisturbed', NEW v \in Worker PROVE UpToDate(v)'
    <2>1. CASE v = w
      BY <1>5, <2>1
    <2>2. CASE v # w
      <3>1. UpToDate(v)
        <4>1. CASE Undisturbed
          BY <4>1 DEF StatsInv
        <4>2. CASE pc[v] = "idle"
          <5>1. run[v].todo = {}
            BY <4>2 DEF StatsInv, RunRight
          <5> QED
            BY <4>2, <5>1 DEF UpToDate
        <4> QED
          BY <1>5, <4>1, <4>2
      <3> QED
        BY <1>1, <2>2, <3>1, OthersStay
    <2> QED
      BY <2>1, <2>2
  <1>6. ASSUME NEW d \in settled', NEW u \in Current(d)' PROVE Recorded(d, u)'
    <2>1. u \in Current(d)
      <3>1. Current(d)' = Current(d)
        BY <1>1 DEF SameChecklists, Total, All, AllRow, Completed, SchoolRows, Steps,
               StepRows, StepCompleted, Current, StartedBy, CompletedBy, Pupils,
               Upsert, Figures, Grouped
      <3> QED
        BY <3>1
    <2>2. Recorded(d, u)
      BY <2>1 DEF StatsInv
    <2> QED
      BY <1>1, <2>2 DEF Recorded
  <1> QED
    BY <1>2, <1>3, <1>4, <1>5, <1>6 DEF StatsInv

LEMMA NoRunTyped ==
    ASSUME StatsTyped
    PROVE  /\ NoRun \in Runs /\ NoRun.todo = {} /\ NoRun.insert = {} /\ NoRun.began = 1
           /\ NoRun.date = 1 /\ NoRun.last = 1 /\ 1 <= now
  <1>1. 1 \in Time /\ 1 <= now
    BY MaxTimeAssumption DEF StatsTyped, TypeOK, Time
  <1> QED
    BY <1>1, ZeroCounter DEF NoRun, Runs

LEMMA StartKeeps ==
    ASSUME StatsInv, NEW w \in Worker, NEW first \in Time, NEW last \in Time,
           Start(w, first, last)
    PROVE  StatsInv'
  <1> DEFINE x == [NoRun EXCEPT !.date = first, !.last = last, !.began = now]
             q == \A v \in Worker : pc[v] = "idle"
  <1>1. /\ first <= last /\ last <= now /\ pc[w] = "idle"
        /\ UNCHANGED <<checklist, stats>> /\ settled' = settled
        /\ now \in Time /\ NoRun \in Runs /\ NoRun.todo = {} /\ NoRun.insert = {}
    BY NoRunTyped DEF Start, StatsInv, StatsTyped, TypeOK
  <1>2. /\ x \in Runs /\ x.date = first /\ x.last = last /\ x.began = now
        /\ x.todo = {} /\ x.insert = {}
    BY <1>1 DEF Runs
  <1>3. Sets(w, x, "total", q)
    BY <1>2 DEF Sets, Start, GoTo
  <1> HIDE DEF x, q
  <1>4. SameChecklists /\ now' = now /\ now <= now
    BY <1>1 DEF checklist, SameChecklists, Time
  <1>5. /\ run'[w] = x /\ pc'[w] = "total" /\ quiet'[w] = q
        /\ Date(w)' = first /\ Asked(w)' = AskedAt("total", first)
    BY <1>2, <1>3, <1>4, OwnState
  <1>6. Asked(w)' = {}
    BY <1>5 DEF AskedAt
  <1>7. RunRight(w)' /\ QuietRight(w)' /\ PastRight(w)' /\ UpToDate(w)'
    BY <1>1, <1>2, <1>4, <1>5, <1>6 DEF RunRight, QuietRight, PastRight, UpToDate
  <1>8. Undisturbed' => Undisturbed \/ \A v \in Worker : pc[v] = "idle"
    <2> SUFFICES ASSUME Undisturbed', ~q PROVE Undisturbed
      BY DEF q
    <2>1. \A v \in Worker : quiet'[v] => quiet[v]
      BY <1>3 DEF Sets, StatsInv, StatsTyped
    <2> QED
      BY <1>1, <2>1 DEF Undisturbed
  <1>9. q \in BOOLEAN /\ settled' \in SUBSET Time
    BY <1>1 DEF q, StatsInv, StatsTyped
  <1> QED
    BY <1>1, <1>3, <1>7, <1>8, <1>9, RunStep

LEMMA CountKeeps ==
    ASSUME StatsInv, NEW w \in Worker, CountStarted(w)
    PROVE  StatsInv'
  <1> DEFINE d == Date(w)
             x == [run[w] EXCEPT !.total = Total(d, Record)]
  <1>1. /\ pc[w] = "total" /\ UNCHANGED <<checklist, stats>> /\ settled' = settled
        /\ run[w] \in Runs /\ run[w].date = d /\ Total(d, Record) \in Counter
        /\ RunRight(w) /\ PastRight(w) /\ quiet[w] \in BOOLEAN
    BY FiguresTyped DEF CountStarted, StatsInv, StatsTyped, histories, Date
  <1>2. /\ x \in Runs /\ x.date = d /\ x.last = run[w].last /\ x.began = run[w].began
        /\ x.todo = run[w].todo /\ x.insert = run[w].insert /\ x.total = Total(d, Record)
    BY <1>1 DEF Runs
  <1>3. Sets(w, x, "completed", quiet[w])
    <2>1. run' = [run EXCEPT ![w] = x]
      BY DEF CountStarted, StatsInv, StatsTyped
    <2>2. pc' = [pc EXCEPT ![w] = "completed"] /\ quiet' = [quiet EXCEPT ![w] = quiet[w]]
      BY DEF CountStarted, GoTo, histories, StatsInv, StatsTyped
    <2> QED
      BY <1>2, <2>1, <2>2 DEF Sets
  <1> HIDE DEF x, d
  <1>4. SameChecklists /\ now' = now
    BY <1>1 DEF checklist, SameChecklists
  <1>5. /\ run'[w] = x /\ pc'[w] = "completed" /\ quiet'[w] = quiet[w]
        /\ Date(w)' = d /\ Asked(w)' = AskedAt("completed", d)
        /\ Total(Date(w), Record)' = Total(d, Record)
    BY <1>2, <1>3, <1>4, OwnState
  <1>6. Asked(w)' = {} /\ x.todo = {} /\ x.insert = {}
    BY <1>1, <1>2, <1>5 DEF AskedAt, RunRight
  <1>7. RunRight(w)' /\ QuietRight(w)' /\ PastRight(w)' /\ UpToDate(w)'
    BY <1>1, <1>2, <1>4, <1>5, <1>6 DEF RunRight, QuietRight, PastRight, UpToDate
  <1>8. Undisturbed' => Undisturbed
    BY <1>1 DEF Undisturbed, CountStarted, histories
  <1>9. settled' \in SUBSET Time
    BY <1>1 DEF StatsInv, StatsTyped
  <1> QED
    BY <1>1, <1>3, <1>7, <1>8, <1>9, RunStep

(* A query that finds upserts: they are rows of its day, the ones of this  *)
(* moment if the run is up to date, and no figure of a past day exceeds    *)
(* the total.                                                              *)
LEMMA QueryKeeps ==
    ASSUME StatsInv, NEW w \in Worker, NEW query, NEW upserts, NEW next,
           Query(w, query, upserts, next),
           query \in {"completed", "schools", "steps"},
           next \in {"schools", "steps", "next"},
           About(Date(w), upserts),
           run[w].total = Total(Date(w), Record) =>
               AskedAt(next, Date(w)) = AskedAt(query, Date(w)) \union upserts,
           run[w].total = Total(Date(w), Record) => \A u \in upserts : Consistent(u)
    PROVE  StatsInv'
  <1> DEFINE d == Date(w)
             x == [run[w] EXCEPT !.todo = upserts]
  <1>1. /\ pc[w] = query /\ UNCHANGED <<checklist, stats>> /\ settled' = settled
        /\ run[w] \in Runs /\ run[w].date = d /\ run[w].todo = {} /\ run[w].insert = {}
        /\ RunRight(w) /\ PastRight(w) /\ QuietRight(w) /\ quiet[w] \in BOOLEAN
    BY DEF Query, StatsInv, StatsTyped, histories, Date
  <1>2. /\ x \in Runs /\ x.date = d /\ x.last = run[w].last /\ x.began = run[w].began
        /\ x.todo = upserts /\ x.insert = {} /\ x.total = run[w].total
    <2>1. upserts \in SUBSET UpsertType
      BY DEF About
    <2> QED
      BY <1>1, <2>1 DEF Runs
  <1>3. Sets(w, x, next, quiet[w])
    <2>1. run' = [run EXCEPT ![w] = x]
      BY DEF Query, StatsInv, StatsTyped
    <2>2. pc' = [pc EXCEPT ![w] = next] /\ quiet' = [quiet EXCEPT ![w] = quiet[w]]
      BY DEF Query, GoTo, histories, StatsInv, StatsTyped
    <2> QED
      BY <1>2, <2>1, <2>2 DEF Sets
  <1> HIDE DEF x, d
  <1>4. SameChecklists /\ now' = now
    BY <1>1 DEF checklist, SameChecklists
  <1>5. /\ run'[w] = x /\ pc'[w] = next /\ quiet'[w] = quiet[w]
        /\ Date(w)' = d /\ Asked(w)' = AskedAt(next, d)
        /\ Total(Date(w), Record)' = Total(d, Record)
    BY <1>2, <1>3, <1>4, OwnState
  <1>6. Undisturbed => /\ run[w].total = Total(d, Record)
                       /\ Asked(w)' = Asked(w) \union upserts
    <2> SUFFICES ASSUME Undisturbed PROVE /\ run[w].total = Total(d, Record)
                                          /\ Asked(w)' = Asked(w) \union upserts
      OBVIOUS
    <2>1. run[w].total = Total(d, Record)
      BY <1>1 DEF StatsInv, UpToDate, d
    <2> QED
      BY <1>1, <1>5, <2>1 DEF d, Asked
  <1>7. Undisturbed' => Undisturbed
    BY <1>1 DEF Undisturbed, Query, histories
  <1>8. Undisturbed' => UpToDate(w)'
    BY <1>2, <1>5, <1>6, <1>7 DEF UpToDate
  <1>9. RunRight(w)'
    BY <1>1, <1>2, <1>4, <1>5 DEF RunRight, About, d
  <1>10. QuietRight(w)'
    <2> SUFFICES ASSUME quiet[w], NEW u \in Asked(w)'
                 PROVE  u \in upserts \/ Recorded(u.key[1], u)'
      BY <1>2, <1>5 DEF QuietRight
    <2>1. u \in Asked(w) \/ u \in upserts
      BY <1>6 DEF Undisturbed
    <2>2. u \in Asked(w) => Recorded(u.key[1], u)
      BY <1>1 DEF QuietRight
    <2> QED
      BY <1>1, <2>1, <2>2 DEF Recorded
  <1>11. PastRight(w)'
    <2> SUFFICES ASSUME d < run[w].began
                 PROVE  run[w].total = Total(d, Record) /\ \A u \in upserts : Consistent(u)
      BY <1>2, <1>5 DEF PastRight, Consistent
    <2>1. run[w].total = Total(d, Record)
      BY <1>1 DEF PastRight, d
    <2> QED
      BY <2>1 DEF d
  <1>12. settled' \in SUBSET Time
    BY <1>1 DEF StatsInv, StatsTyped
  <1> QED
    BY <1>1, <1>3, <1>7, <1>8, <1>9, <1>10, <1>11, <1>12, RunStep

LEMMA QueriesKeep ==
    ASSUME StatsInv, NEW w \in Worker,
           CountCompleted(w) \/ QuerySchools(w) \/ QuerySteps(w)
    PROVE  StatsInv'
  <1> DEFINE d == Date(w)
             n == run[w].total
  <1>1. d \in Time /\ n \in Counter
    BY DEF StatsInv, StatsTyped, Runs, Date
  <1>2. About(d, {AllRow(d, n)}) /\ (n = Total(d, Record) => Consistent(AllRow(d, n)))
    BY <1>1, AllRowTyped
  <1>3. About(d, SchoolRows(d)) /\ \A u \in SchoolRows(d) : Consistent(u)
    BY <1>1, SchoolRowsTyped
  <1>4. /\ About(d, StepRows(d, n))
        /\ n = Total(d, Record) => \A u \in StepRows(d, n) : Consistent(u)
    BY <1>1, StepRowsTyped DEF StatsInv
  <1>5. /\ AskedAt("completed", d) = {} /\ AskedAt("schools", d) = {All(d)}
        /\ AskedAt("steps", d) = {All(d)} \union SchoolRows(d)
        /\ AskedAt("next", d) = {All(d)} \union SchoolRows(d) \union Steps(d)
    BY DEF AskedAt, Current
  <1>6. n = Total(d, Record) => AllRow(d, n) = All(d) /\ StepRows(d, n) = Steps(d)
    BY DEF All, Steps
  <1> HIDE DEF d, n
  <1>7. CASE CountCompleted(w)
    <2>1. Query(w, "completed", {AllRow(d, n)}, "schools")
      BY <1>7 DEF CountCompleted, d, n
    <2> QED
      BY <1>2, <1>5, <1>6, <2>1, QueryKeeps DEF d, n
  <1>8. CASE QuerySchools(w)
    <2>1. Query(w, "schools", SchoolRows(d), "steps")
      BY <1>8 DEF QuerySchools, d, n
    <2> QED
      BY <1>3, <1>5, <2>1, QueryKeeps DEF d, n
  <1>9. CASE QuerySteps(w)
    <2>1. Query(w, "steps", StepRows(d, n), "next")
      BY <1>9 DEF QuerySteps, d, n
    <2> QED
      BY <1>4, <1>5, <1>6, <2>1, QueryKeeps DEF d, n
  <1> QED
    BY <1>7, <1>8, <1>9


(* A run that ends, or passes on to its next day.                          *)
LEMMA EndKeeps ==
    ASSUME StatsInv, NEW w \in Worker, UNCHANGED <<checklist, stats>>,
           run' = [run EXCEPT ![w] = NoRun], GoTo(w, "idle"),
           quiet' = [quiet EXCEPT ![w] = FALSE], settled' \in SUBSET Time,
           settled' # {} => Undisturbed,
           \A d \in settled' \ settled : \A u \in Current(d) : Recorded(d, u)
    PROVE  StatsInv'
  <1>1. /\ NoRun \in Runs /\ NoRun.todo = {} /\ NoRun.insert = {} /\ NoRun.began = 1
        /\ NoRun.date = 1 /\ NoRun.last = 1 /\ 1 <= now
    BY NoRunTyped DEF StatsInv
  <1>2. Sets(w, NoRun, "idle", FALSE)
    BY <1>1 DEF Sets, GoTo
  <1>3. SameChecklists /\ now' = now
    BY DEF checklist, SameChecklists
  <1>4. /\ run'[w] = NoRun /\ pc'[w] = "idle" /\ quiet'[w] = FALSE
        /\ Date(w)' = NoRun.date /\ Asked(w)' = AskedAt("idle", NoRun.date)
    BY <1>2, <1>3, OwnState
  <1>5. RunRight(w)' /\ QuietRight(w)' /\ PastRight(w)' /\ UpToDate(w)'
    BY <1>1, <1>3, <1>4 DEF RunRight, QuietRight, PastRight, UpToDate
  <1>6. Undisturbed' => Undisturbed
    <2>1. \A v \in Worker : quiet'[v] => quiet[v]
      BY DEF StatsInv, StatsTyped
    <2> QED
      BY <2>1 DEF Undisturbed
  <1> QED
    BY <1>2, <1>5, <1>6, RunStep

LEMMA NextDateKeeps ==
    ASSUME StatsInv, NEW w \in Worker, NextDate(w)
    PROVE  StatsInv'
  <1> DEFINE d == Date(w)
             x == [run[w] EXCEPT !.date = @ + 1]
  <1>1. /\ pc[w] = "next" /\ run[w].todo = {} /\ run[w].insert = {}
        /\ settled' = IF quiet[w] THEN settled \union {d} ELSE settled \ {d}
        /\ UNCHANGED <<checklist, stats>>
        /\ run[w] \in Runs /\ run[w].date = d /\ d \in Time
        /\ RunRight(w) /\ PastRight(w) /\ QuietRight(w) /\ quiet[w] \in BOOLEAN
    BY DEF NextDate, StatsInv, StatsTyped, Runs, Date
  <1>2. settled' \in SUBSET Time /\ (settled' # {} => Undisturbed)
    BY <1>1 DEF StatsInv, StatsTyped, Undisturbed
  <1>3. \A e \in settled' \ settled : \A u \in Current(e) : Recorded(e, u)
    <2> SUFFICES ASSUME quiet[w], NEW u \in Current(d) PROVE Recorded(d, u)
      BY <1>1
    <2>1. u \in Asked(w)
      BY <1>1 DEF Asked, AskedAt
    <2> QED
      BY <1>1, <2>1 DEF QuietRight, Recorded
  <1>4. CASE d < run[w].last
    <2>1. x \in Runs
      <3>1. d + 1 \in Time
        BY <1>1, <1>4, MaxTimeAssumption DEF Runs, Time
      <3> QED
        BY <1>1, <3>1 DEF Runs
    <2>2. /\ x.date = d + 1 /\ x.last = run[w].last /\ x.began = run[w].began
          /\ x.todo = {} /\ x.insert = {}
      BY <1>1 DEF Runs
    <2>3. x.date <= x.last
      BY <1>1, <1>4, <2>2 DEF Runs, Time
    <2>4. Sets(w, x, "total", quiet[w])
      <3>1. run' = [run EXCEPT ![w] = x]
        BY <1>4 DEF NextDate, StatsInv, StatsTyped, d
      <3>2. pc' = [pc EXCEPT ![w] = "total"] /\ quiet' = [quiet EXCEPT ![w] = quiet[w]]
        BY <1>4 DEF NextDate, GoTo, StatsInv, StatsTyped, d
      <3> QED
        BY <2>1, <3>1, <3>2 DEF Sets
    <2> HIDE DEF x, d
    <2>5. SameChecklists /\ now' = now
      BY <1>1 DEF checklist, SameChecklists
    <2>6. /\ run'[w] = x /\ pc'[w] = "total" /\ quiet'[w] = quiet[w]
          /\ Date(w)' = x.date /\ Asked(w)' = AskedAt("total", x.date)
      BY <2>4, <2>5, OwnState
    <2>7. RunRight(w)' /\ QuietRight(w)' /\ PastRight(w)' /\ UpToDate(w)'
      <3>1. Asked(w)' = {}
        BY <2>6 DEF AskedAt
      <3> QED
        BY <1>1, <2>2, <2>3, <2>5, <2>6, <3>1
           DEF RunRight, QuietRight, PastRight, UpToDate
    <2>8. Undisturbed' => Undisturbed
      <3>1. \A v \in Worker : quiet'[v] => quiet[v]
        BY <2>4 DEF Sets, StatsInv, StatsTyped
      <3> QED
        BY <1>2, <3>1 DEF Undisturbed
    <2> QED
      BY <1>1, <1>2, <1>3, <2>4, <2>7, <2>8, RunStep
  <1>5. CASE ~(d < run[w].last)
    <2>1. /\ run' = [run EXCEPT ![w] = NoRun] /\ GoTo(w, "idle")
          /\ quiet' = [quiet EXCEPT ![w] = FALSE]
      BY <1>5 DEF NextDate
    <2> QED
      BY <1>1, <1>2, <1>3, <2>1, EndKeeps
  <1> QED
    BY <1>4, <1>5

LEMMA DieKeeps ==
    ASSUME StatsInv, NEW w \in Worker, UNCHANGED <<checklist, stats>>, settled' = settled,
           run' = [run EXCEPT ![w] = NoRun], GoTo(w, "idle"),
           quiet' = [quiet EXCEPT ![w] = FALSE]
    PROVE  StatsInv'
  <1>1. settled' \in SUBSET Time /\ (settled' # {} => Undisturbed)
    BY DEF StatsInv, StatsTyped, Undisturbed
  <1> QED
    BY <1>1, EndKeeps

-----------------------------------------------------------------------------
(* The upsert: a row not found is remembered; the write follows.           *)
LEMMA MissingKeeps ==
    ASSUME StatsInv, NEW w \in Worker, NEW u \in run[w].todo, run[w].insert = {},
           stats[u.key] = <<>>, run' = [run EXCEPT ![w].insert = {u}],
           UNCHANGED <<checklist, stats, pc, histories>>
    PROVE  StatsInv'
  <1> DEFINE x == [run[w] EXCEPT !.insert = {u}]
  <1>1. /\ run[w] \in Runs /\ RunRight(w) /\ PastRight(w) /\ QuietRight(w)
        /\ pc[w] \in {"idle", "total", "completed", "schools", "steps", "next"}
        /\ quiet[w] \in BOOLEAN
    BY DEF StatsInv, StatsTyped
  <1>2. x \in Runs
    BY <1>1 DEF Runs
  <1>3. /\ x.date = run[w].date /\ x.last = run[w].last /\ x.began = run[w].began
        /\ x.todo = run[w].todo /\ x.insert = {u} /\ x.total = run[w].total
    BY <1>1 DEF Runs
  <1>4. Sets(w, x, pc[w], quiet[w])
    <2>1. run' = [run EXCEPT ![w] = x]
      BY DEF StatsInv, StatsTyped
    <2>2. pc' = [pc EXCEPT ![w] = pc[w]] /\ quiet' = [quiet EXCEPT ![w] = quiet[w]]
      BY DEF histories, StatsInv, StatsTyped
    <2> QED
      BY <1>2, <2>1, <2>2 DEF Sets
  <1> HIDE DEF x
  <1>5. SameChecklists /\ now' = now
    BY DEF checklist, SameChecklists
  <1>6. /\ run'[w] = x /\ pc'[w] = pc[w] /\ quiet'[w] = quiet[w]
        /\ Date(w)' = x.date /\ Asked(w)' = AskedAt(pc[w], x.date)
        /\ Total(Date(w), Record)' = Total(x.date, Record)
    BY <1>4, <1>5, OwnState
  <1>7. Asked(w)' = Asked(w) /\ Date(w)' = Date(w)
        /\ Total(Date(w), Record)' = Total(Date(w), Record)
    BY <1>3, <1>6 DEF Asked, Date
  <1>8. RunRight(w)'
    BY <1>1, <1>3, <1>5, <1>6 DEF RunRight
  <1>9. QuietRight(w)'
    BY <1>1, <1>3, <1>6, <1>7 DEF QuietRight, Recorded
  <1>10. PastRight(w)'
    BY <1>1, <1>3, <1>6, <1>7 DEF PastRight
  <1>11. Undisturbed' => Undisturbed
    BY DEF Undisturbed, histories
  <1>12. Undisturbed' => UpToDate(w)'
    <2>1. Undisturbed => UpToDate(w)
      BY DEF StatsInv
    <2> QED
      BY <1>3, <1>6, <1>7, <1>11, <2>1 DEF UpToDate
  <1>13. settled' = settled /\ settled' \in SUBSET Time
    BY DEF histories, StatsInv, StatsTyped
  <1> QED
    BY <1>1, <1>4, <1>8, <1>9, <1>10, <1>11, <1>12, <1>13, RunStep

(* The row of one upsert is written: nobody else is quiet any more.        *)
Writes(w, u, x, rows) ==
    /\ stats' = [stats EXCEPT ![u.key] = rows]
    /\ run' = [run EXCEPT ![w] = x]
    /\ x.date = run[w].date /\ x.last = run[w].last /\ x.began = run[w].began
    /\ x.total = run[w].total
    /\ x.todo = run[w].todo \ {u} /\ x.insert = {}

LEMMA WriteKeeps ==
    ASSUME StatsInv, NEW w \in Worker, NEW u \in run[w].todo, NEW x \in Runs,
           NEW rows \in Seq(FiguresType), Writes(w, u, x, rows), Disturb(w),
           UNCHANGED <<checklist, pc>>,
           settled' \subseteq settled, u.key[1] \in settled' => rows = <<u.figures>>,
           quiet[w] => rows = <<u.figures>>
    PROVE  StatsInv'
  <1>1. SameChecklists /\ now' = now /\ pc' = pc /\ UNCHANGED vars
    BY DEF SameChecklists, checklist, vars
  <1>2. /\ run'[w] = x /\ \A v \in Worker \ {w} : run'[v] = run[v]
        /\ \A v \in Worker : Date(v)' = Date(v)
        /\ run' \in [Worker -> Runs]
    BY DEF Writes, StatsInv, StatsTyped, Date
  <1>3. quiet'[w] = quiet[w] /\ \A v \in Worker \ {w} : ~quiet'[v]
    BY DEF Disturb, StatsInv, StatsTyped
  <1>4. \A v \in Worker : /\ Asked(v)' = Asked(v)
                          /\ Total(Date(v), Record)' = Total(Date(v), Record)
    <2> SUFFICES ASSUME NEW v \in Worker
                 PROVE  /\ Asked(v)' = Asked(v)
                        /\ Total(Date(v), Record)' = Total(Date(v), Record)
      OBVIOUS
    <2>1. Date(v)' = Date(v) /\ pc'[v] = pc[v]
      BY <1>1, <1>2
    <2>2. Asked(v)' = Asked(v)
      BY <1>1, <2>1, AskedStays DEF Asked
    <2>3. Total(Date(v), Record)' = Total(Date(v), Record)
      BY <1>1, <2>1 DEF Total, StartedBy, SameChecklists
    <2> QED
      BY <2>2, <2>3
  <1>5. u \in UpsertType /\ u.key \in StatsKey /\ u.key[1] = Date(w) /\ Date(w) \in Time
    BY DEF StatsInv, StatsTyped, Runs, RunRight, UpsertType, Date
  <1>6. StatsTyped'
    <2>1. TypeOK'
      BY <1>1, StepTyped DEF StatsInv, StatsTyped
    <2>2. stats' \in [StatsKey -> Seq(FiguresType)]
      BY <1>5 DEF Writes, StatsInv, StatsTyped
    <2>3. quiet' \in [Worker -> BOOLEAN]
      BY DEF Disturb, StatsInv, StatsTyped
    <2>4. schoolOf' = schoolOf /\ settled' \in SUBSET Time
      BY <1>1 DEF SameChecklists, StatsInv, StatsTyped
    <2> QED
      BY <1>1, <1>2, <2>1, <2>2, <2>3, <2>4 DEF StatsInv, StatsTyped
  <1>7. ASSUME NEW v \in Worker
        PROVE  /\ run'[v].date = run[v].date /\ run'[v].last = run[v].last
               /\ run'[v].began = run[v].began /\ run'[v].total = run[v].total
               /\ run'[v].todo \subseteq run[v].todo
               /\ run'[v].insert \subseteq run[v].insert
               /\ run'[v].insert \subseteq run'[v].todo
               /\ quiet'[v] => quiet[v]
    BY <1>2, <1>3 DEF Writes, StatsInv, RunRight
  <1>8. ASSUME NEW v \in Worker PROVE RunRight(v)'
    <2>1. RunRight(v)
      BY DEF StatsInv
    <2> QED
      BY <1>1, <1>7, <2>1 DEF RunRight
  <1>9. ASSUME NEW v \in Worker PROVE PastRight(v)'
    <2>1. PastRight(v)
      BY DEF StatsInv
    <2> QED
      BY <1>1, <1>2, <1>4, <1>7, <2>1 DEF PastRight
  <1>10. Undisturbed' => Undisturbed
    BY <1>7 DEF Undisturbed
  <1>11. ASSUME Undisturbed', NEW v \in Worker PROVE UpToDate(v)'
    <2>1. UpToDate(v)
      BY <1>10, <1>11 DEF StatsInv
    <2> QED
      BY <1>1, <1>4, <1>7, <2>1 DEF UpToDate
  <1>12. \A k \in StatsKey : stats'[k] = IF k = u.key THEN rows ELSE stats[k]
    BY <1>5 DEF Writes, StatsInv, StatsTyped
  (* The other rows of the day have other keys.                            *)
  <1>13. ASSUME Undisturbed, NEW v \in Current(Date(w)), v # u
         PROVE  stats'[v.key] = stats[v.key]
    <2>1. u \in Current(Date(w))
      BY <1>13, AskedCurrent DEF StatsInv, UpToDate
    <2>2. v.key # u.key
      BY <1>5, <1>13, <2>1, KeysApart
    <2>3. v.key \in StatsKey
      BY <1>5, CurrentTyped DEF About, UpsertType
    <2> QED
      BY <1>12, <2>2, <2>3
  <1>14. ASSUME NEW v \in Worker PROVE QuietRight(v)'
    <2> SUFFICES ASSUME quiet'[v] PROVE QuietRight(v)'
      BY DEF QuietRight
    <2>1. v = w /\ quiet[w] /\ Undisturbed /\ QuietRight(w) /\ rows = <<u.figures>>
      BY <1>3 DEF Undisturbed, StatsInv
    <2>2. run'[w].insert = {} /\ run'[w].todo = run[w].todo \ {u}
      BY <1>2 DEF Writes
    <2>3. ASSUME NEW y \in Asked(w) PROVE y \in run'[w].todo \/ Recorded(y.key[1], y)'
      <3>1. CASE y = u
        <4>1. stats'[u.key] = <<u.figures>>
          BY <1>5, <1>12, <2>1
        <4> QED
          BY <3>1, <4>1 DEF Recorded
      <3>2. CASE y # u
        <4>1. stats'[y.key] = stats[y.key]
          BY <1>13, <2>1, <3>2, AskedCurrent
        <4>2. y \in run[w].todo \/ Recorded(y.key[1], y)
          BY <2>1 DEF QuietRight
        <4> QED
          BY <2>2, <3>2, <4>1, <4>2 DEF Recorded
      <3> QED
        BY <3>1, <3>2
    <2> QED
      BY <1>4, <2>1, <2>2, <2>3 DEF QuietRight
  <1>15. \A r \in Record : StartedFirst(r)'
    BY <1>1, CurrentStays DEF StatsInv
  <1>16. ASSUME NEW d \in settled', NEW y \in Current(d)' PROVE Recorded(d, y)'
    <2>1. y \in Current(d) /\ d \in settled /\ d \in Time /\ Undisturbed
      <3>1. Current(d)' = Current(d)
        BY <1>1 DEF SameChecklists, Total, All, AllRow, Completed, SchoolRows, Steps,
               StepRows, StepCompleted, Current, StartedBy, CompletedBy, Pupils,
               Upsert, Figures, Grouped
      <3>2. d \in settled /\ d \in Time
        BY DEF StatsInv, StatsTyped
      <3> QED
        BY <3>1, <3>2 DEF Undisturbed
    <2>2. Recorded(d, y)
      BY <2>1 DEF StatsInv
    <2>3. y.key \in StatsKey /\ y.key[1] = d
      BY <2>1, CurrentTyped DEF About, UpsertType
    <2>4. CASE d # Date(w)
      <3>1. y.key # u.key
        BY <1>5, <2>3, <2>4
      <3> QED
        BY <1>12, <2>2, <2>3, <3>1 DEF Recorded
    <2>5. CASE d = Date(w) /\ y # u
      BY <1>13, <2>1, <2>2, <2>5 DEF Recorded
    <2>6. CASE d = Date(w) /\ y = u
      <3>1. rows = <<u.figures>>
        BY <1>5, <2>6
      <3> QED
        BY <1>12, <2>3, <2>6, <3>1 DEF Recorded
    <2> QED
      BY <2>4, <2>5, <2>6
  <1> QED
    BY <1>6, <1>8, <1>9, <1>11, <1>14, <1>15, <1>16 DEF StatsInv

LEMMA UpdateOrCreateKeeps ==
    ASSUME StatsInv, NEW w \in Worker, UpdateOrCreate(w)
    PROVE  StatsInv'
  <1>1. PICK u \in run[w].todo :
            /\ run[w].insert = {} /\ UNCHANGED <<checklist, changes>>
            /\ \/ /\ Len(stats[u.key]) = 0
                  /\ run' = [run EXCEPT ![w].insert = {u}]
                  /\ UNCHANGED <<stats, pc, histories>>
               \/ /\ Len(stats[u.key]) = 1
                  /\ stats' = [stats EXCEPT ![u.key] =
                                   <<Updated(stats[u.key][1], u.figures)>>]
                  /\ run' = [run EXCEPT ![w].todo = @ \ {u}]
                  /\ Disturb(w)
                  /\ UNCHANGED <<pc, settled>>
               \/ /\ Len(stats[u.key]) > 1
                  /\ run' = [run EXCEPT ![w] = NoRun]
                  /\ GoTo(w, "idle")
                  /\ quiet' = [quiet EXCEPT ![w] = FALSE]
                  /\ UNCHANGED <<stats, settled>>
    BY DEF UpdateOrCreate, Found
  <1>2. /\ run[w] \in Runs /\ u \in UpsertType /\ u.key \in StatsKey
        /\ u.figures \in FiguresType /\ stats[u.key] \in Seq(FiguresType)
    <2>1. run[w] \in Runs
      BY DEF StatsInv, StatsTyped
    <2>2. u \in UpsertType
      BY <2>1 DEF Runs
    <2>3. u.key \in StatsKey /\ u.figures \in FiguresType
      BY <2>2 DEF UpsertType
    <2> QED
      BY <2>1, <2>2, <2>3 DEF StatsInv, StatsTyped
  <1>3. CASE /\ Len(stats[u.key]) = 0
             /\ run' = [run EXCEPT ![w].insert = {u}]
             /\ UNCHANGED <<stats, pc, histories>>
    <2>1. stats[u.key] = <<>>
      BY <1>2, <1>3, EmptySeq
    <2> QED
      BY <1>1, <1>3, <2>1, MissingKeeps
  <1>4. CASE /\ Len(stats[u.key]) = 1
             /\ stats' = [stats EXCEPT ![u.key] =
                              <<Updated(stats[u.key][1], u.figures)>>]
             /\ run' = [run EXCEPT ![w].todo = @ \ {u}]
             /\ Disturb(w)
             /\ UNCHANGED <<pc, settled>>
    <2> DEFINE x == [run[w] EXCEPT !.todo = @ \ {u}]
    <2>1. x \in Runs
      BY <1>2 DEF Runs
    <2>2. /\ x.date = run[w].date /\ x.last = run[w].last /\ x.began = run[w].began
          /\ x.total = run[w].total /\ x.todo = run[w].todo \ {u} /\ x.insert = {}
      BY <1>1, <1>2 DEF Runs
    <2>3. run' = [run EXCEPT ![w] = x]
      BY <1>4 DEF StatsInv, StatsTyped
    <2>4. stats' = [stats EXCEPT ![u.key] = <<u.figures>>]
      BY <1>4 DEF Updated
    <2>5. <<u.figures>> \in Seq(FiguresType)
      BY <1>2
    <2> HIDE DEF x
    <2>6. Writes(w, u, x, <<u.figures>>)
      BY <2>2, <2>3, <2>4 DEF Writes
    <2> QED
      BY <1>1, <1>4, <2>1, <2>5, <2>6, WriteKeeps
  <1>5. CASE /\ Len(stats[u.key]) > 1
             /\ run' = [run EXCEPT ![w] = NoRun]
             /\ GoTo(w, "idle")
             /\ quiet' = [quiet EXCEPT ![w] = FALSE]
             /\ UNCHANGED <<stats, settled>>
    BY <1>1, <1>5, DieKeeps
  <1> QED
    BY <1>1, <1>3, <1>4, <1>5

LEMMA InsertKeeps ==
    ASSUME StatsInv, NEW w \in Worker, Insert(w)
    PROVE  StatsInv'
  <1>1. PICK u \in run[w].insert :
            /\ stats' = [stats EXCEPT ![u.key] =
                   IF Unique(u.key) /\ stats[u.key] # <<>>
                   THEN <<Updated(stats[u.key][1], u.figures)>>
                   ELSE Append(stats[u.key], u.figures)]
            /\ run' = [run EXCEPT ![w].todo = @ \ {u}, ![w].insert = {}]
            /\ Disturb(w)
            /\ settled' = settled \ {u.key[1]}
            /\ UNCHANGED <<checklist, pc, changes>>
    BY DEF Insert
  <1>2. /\ run[w] \in Runs /\ u \in run[w].todo /\ u.key \in StatsKey
        /\ u.figures \in FiguresType /\ stats[u.key] \in Seq(FiguresType)
    <2>1. run[w] \in Runs /\ u \in run[w].todo
      BY DEF StatsInv, StatsTyped, RunRight
    <2>2. u \in UpsertType
      BY <2>1 DEF Runs
    <2>3. u.key \in StatsKey /\ u.figures \in FiguresType
      BY <2>2 DEF UpsertType
    <2> QED
      BY <2>1, <2>2, <2>3 DEF StatsInv, StatsTyped
  <1> DEFINE x == [run[w] EXCEPT !.todo = @ \ {u}, !.insert = {}]
             rows == IF Unique(u.key) /\ stats[u.key] # <<>> THEN <<u.figures>>
                     ELSE Append(stats[u.key], u.figures)
  <1>3. x \in Runs
    BY <1>2 DEF Runs
  <1>4. /\ x.date = run[w].date /\ x.last = run[w].last /\ x.began = run[w].began
        /\ x.total = run[w].total /\ x.todo = run[w].todo \ {u} /\ x.insert = {}
    BY <1>2 DEF Runs
  <1>5. run' = [run EXCEPT ![w] = x]
    BY <1>1 DEF StatsInv, StatsTyped
  <1>6. rows \in Seq(FiguresType) /\ stats' = [stats EXCEPT ![u.key] = rows]
    BY <1>1, <1>2 DEF Updated
  <1>7. quiet[w] => rows = <<u.figures>>
    <2> SUFFICES ASSUME quiet[w] PROVE rows = <<u.figures>>
      OBVIOUS
    <2>1. stats[u.key] = <<>>
      BY DEF StatsInv, QuietRight
    <2>2. Append(<<>>, u.figures) = <<u.figures>>
      OBVIOUS
    <2> QED
      BY <2>1, <2>2
  <1> HIDE DEF x, rows
  <1>8. Writes(w, u, x, rows)
    BY <1>4, <1>5, <1>6 DEF Writes
  <1>9. settled' \subseteq settled /\ u.key[1] \notin settled'
    BY <1>1
  <1> QED
    BY <1>1, <1>2, <1>3, <1>6, <1>7, <1>8, <1>9, WriteKeeps

-----------------------------------------------------------------------------
(* Steps of the others: the locals of the runs stay, and the totals of the *)
(* days before with them.                                                  *)
LEMMA RunsStay ==
    ASSUME StatsInv, TypeOK', UNCHANGED <<pc, run>>, now <= now',
           \A v \in Worker : quiet'[v] => quiet[v],
           \A d \in Time : d < now => Total(d, Record)' = Total(d, Record)
    PROVE  \A v \in Worker : RunRight(v)' /\ PastRight(v)'
  <1> SUFFICES ASSUME NEW v \in Worker PROVE RunRight(v)' /\ PastRight(v)'
    OBVIOUS
  <1>1. /\ RunRight(v) /\ PastRight(v) /\ run'[v] = run[v] /\ pc'[v] = pc[v]
        /\ Date(v)' = Date(v)
        /\ run[v].last \in Nat /\ run[v].began \in Nat /\ run[v].date \in Time
        /\ now \in Nat /\ now' \in Nat
    BY DEF StatsInv, StatsTyped, Runs, Date, TypeOK, Time
  <1>2. RunRight(v)'
    BY <1>1 DEF RunRight
  <1>3. PastRight(v)'
    <2> SUFFICES ASSUME Date(v) < run[v].began PROVE PastRight(v)'
      BY <1>1 DEF PastRight
    <2>1. PICK d \in Time : d = Date(v)
      BY <1>1 DEF Date
    <2>2. d < now
      BY <1>1, <2>1 DEF RunRight, Time
    <2>3. Total(d, Record)' = Total(d, Record)
      BY <2>2
    <2>4. Total(Date(v), Record)' = Total(Date(v), Record)
      BY <1>1, <2>1, <2>3 DEF Total, StartedBy
    <2> QED
      BY <1>1, <2>4 DEF PastRight
  <1> QED
    BY <1>2, <1>3

LEMMA ChangedKeeps ==
    ASSUME StatsInv, Changed, TypeOK', now' = now,
           schoolOf' \in [Record -> School \union {NoSchool}],
           \A r \in Record : StartedFirst(r)',
           \A d \in Time : d < now => Total(d, Record)' = Total(d, Record)
    PROVE  StatsInv'
  <1>1. /\ UNCHANGED <<stats, pc, run>> /\ settled' = {}
        /\ quiet' = [w \in Worker |-> FALSE]
    BY DEF Changed
  <1>2. StatsTyped'
    BY <1>1 DEF StatsInv, StatsTyped
  <1>3. ~Undisturbed'
    BY <1>1 DEF Undisturbed
  <1>4. now <= now'
    BY DEF StatsInv, StatsTyped, TypeOK, Time
  <1>5. \A v \in Worker : RunRight(v)' /\ PastRight(v)'
    BY <1>1, <1>4, RunsStay
  <1>6. \A v \in Worker : QuietRight(v)'
    BY <1>1 DEF QuietRight
  <1> QED
    BY <1>1, <1>2, <1>3, <1>5, <1>6 DEF StatsInv

LEMMA ChecklistChangeKeeps ==
    ASSUME StatsInv, NEW r \in Record, ChecklistChanges(r)
    PROVE  StatsInv'
  <1>1. StatsTyped /\ TypeOK /\ \A q \in Record : StartedFirst(q)
    BY DEF StatsInv, StatsTyped
  <1>2. OnTime(r) /\ TypeOK' /\ now' = now
    BY <1>1, ChangeOnTime
  <1>3. \A q \in Record : StartedFirst(q)'
    BY <1>1, <1>2, OrderKept
  <1>4. \A d \in Time : d < now => Total(d, Record)' = Total(d, Record)
    BY <1>1, PastTotals
  <1>5. Changed /\ schoolOf' \in [Record -> School \union {NoSchool}]
    BY <1>1 DEF ChecklistChanges, StatsTyped
  <1> QED
    BY <1>2, <1>3, <1>4, <1>5, ChangedKeeps

LEMMA SchoolChangeKeeps ==
    ASSUME StatsInv, NEW r \in Record, SchoolChanges(r)
    PROVE  StatsInv'
  <1>1. UNCHANGED <<onboarding, steps, now>> /\ Changed /\ UNCHANGED vars
    BY DEF SchoolChanges, vars
  <1>2. schoolOf' \in [Record -> School \union {NoSchool}]
    BY DEF SchoolChanges, StatsInv, StatsTyped
  <1>3. TypeOK'
    BY <1>1, StepTyped DEF StatsInv, StatsTyped
  <1>4. \A q \in Record : StartedFirst(q)'
    BY <1>1 DEF StatsInv, StartedFirst, Exists
  <1>5. \A d \in Time : d < now => Total(d, Record)' = Total(d, Record)
    BY <1>1 DEF Total, StartedBy
  <1> QED
    BY <1>1, <1>2, <1>3, <1>4, <1>5, ChangedKeeps

LEMMA DayKeeps ==
    ASSUME StatsInv, DayPasses \/ UNCHANGED allVars
    PROVE  StatsInv'
  <1>1. /\ UNCHANGED <<onboarding, steps, schoolOf, stats, pc, run, quiet, settled>>
        /\ SameChecklists /\ [Next]_vars
    BY DEF DayPasses, Tick, allVars, histories, SameChecklists, Next, vars
  <1>2. TypeOK' /\ now <= now'
    <2>1. TypeOK /\ TypeOK'
      BY <1>1, StepTyped DEF StatsInv, StatsTyped
    <2>2. now \in Nat
      BY <2>1 DEF TypeOK, Time
    <2> QED
      BY <2>1, <2>2 DEF DayPasses, Tick, allVars
  <1>3. StatsTyped'
    BY <1>1, <1>2 DEF StatsInv, StatsTyped
  <1>4. \A d : /\ Total(d, Record)' = Total(d, Record) /\ Current(d)' = Current(d)
    BY <1>1, CurrentStays
  <1>5. \A v \in Worker : RunRight(v)' /\ PastRight(v)'
    <2>1. \A v \in Worker : quiet'[v] => quiet[v]
      BY <1>1
    <2>2. \A d \in Time : d < now => Total(d, Record)' = Total(d, Record)
      BY <1>4
    <2> QED
      BY <1>1, <1>2, <2>1, <2>2, RunsStay
  <1>6. ASSUME NEW v \in Worker PROVE QuietRight(v)' /\ (UpToDate(v) => UpToDate(v)')
    <2>1. Asked(v)' = Asked(v)
      <3>1. Date(v)' = Date(v)
        BY <1>1 DEF Date
      <3> QED
        BY <1>1, <3>1, AskedStays DEF Asked
    <2>2. Total(Date(v), Record)' = Total(Date(v), Record)
      BY <1>1 DEF Total, StartedBy, Date
    <2>3. QuietRight(v)
      BY DEF StatsInv
    <2> QED
      BY <1>1, <2>1, <2>2, <2>3 DEF QuietRight, UpToDate, Recorded
  <1>7. \A q \in Record : StartedFirst(q)'
    BY <1>1, CurrentStays DEF StatsInv
  <1>8. Undisturbed' => \A v \in Worker : UpToDate(v)'
    <2>1. Undisturbed' => Undisturbed
      BY <1>1 DEF Undisturbed
    <2> QED
      BY <1>6, <2>1 DEF StatsInv
  <1>9. ASSUME NEW d \in settled', NEW u \in Current(d)' PROVE Recorded(d, u)'
    <2>1. u \in Current(d)
      <3>1. Current(d)' = Current(d)
        BY <1>1 DEF Total, All, AllRow, Completed, SchoolRows, Steps,
               StepRows, StepCompleted, Current, StartedBy, CompletedBy, Pupils,
               Upsert, Figures, Grouped
      <3> QED
        BY <3>1
    <2>2. Recorded(d, u)
      BY <1>1, <2>1 DEF StatsInv
    <2> QED
      BY <1>1, <2>2 DEF Recorded
  <1> QED
    BY <1>3, <1>5, <1>6, <1>7, <1>8, <1>9 DEF StatsInv

-----------------------------------------------------------------------------
(* The checklists of the first day are in order.                           *)
LEMMA SettledTyped ==
    ASSUME NEW ss
    PROVE  /\ Settled(ss) \in OnboardingRow
           /\ Settled(ss).started_on = 1
           /\ Settled(ss).completed_on \in {Null, 1}
  <1> DEFINE row == [NewOnboarding(1) EXCEPT !.total_steps = CountTotal(ss)]
             done == RecountDone(row, ss)
  <1>1. 1 \in Time /\ 1 \in Timestamp
    BY MaxTimeAssumption DEF Time, Timestamp
  <1>2. NewOnboarding(1) \in OnboardingRow
    BY <1>1, NewRowTyped
  <1>3. /\ row \in OnboardingRow /\ row.started_on = 1 /\ row.completed_on = Null
    BY <1>2, CountsTyped DEF NewOnboarding, OnboardingRow
  <1> HIDE DEF row
  <1>4. /\ done \in OnboardingRow /\ done.started_on = 1 /\ done.completed_on = Null
    <2>1. \A rw \in OnboardingRow : \A s : 
              /\ RecountDone(rw, s) \in OnboardingRow
              /\ RecountDone(rw, s).started_on = rw.started_on
              /\ RecountDone(rw, s).completed_on = rw.completed_on
      BY CountsTyped DEF RecountDone, OnboardingRow
    <2> QED
      BY <1>3, <2>1
  <1> HIDE DEF done
  <1>5. Settled(ss) = RecomputeCompletion(done, 1)
    BY DEF Settled, done, row
  <1> QED
    BY <1>1, <1>4, <1>5, RecomputeTyped

LEMMA FirstDay ==
    ASSUME StatsInit
    PROVE  TypeOK /\ now = 1 /\ \A r \in Record : StartedFirst(r)
  <1>1. CASE Init
    <2>1. TypeOK /\ now = 1
      BY <1>1, InitTyped DEF Init
    <2>2. ASSUME NEW r \in Record PROVE StartedFirst(r)
      BY <1>1 DEF Init, StartedFirst, NoStep, NoOnboarding, NewOnboarding
    <2> QED
      BY <2>1, <2>2
  <1>2. CASE /\ steps \in [Record -> [Key -> {StepBorn(s, 1) : s \in Status} \union {NoStep}]]
             /\ onboarding = [r \in Record |-> Settled(steps[r])]
             /\ now = 1
    <2>1. 1 \in Time
      BY MaxTimeAssumption DEF Time
    <2>2. \A x \in {StepBorn(s, 1) : s \in Status} \union {NoStep} :
              x \in StepRow /\ x.completed_on \in {Null, 1}
      BY <2>1, StepsTyped DEF StepBorn, StepRow, NoStep, Null
    <2>3. /\ steps \in [Record -> [Key -> StepRow]]
          /\ \A r \in Record, k \in Key : steps[r][k].completed_on \in {Null, 1}
      BY <1>2, <2>2
    <2>4. \A r \in Record : /\ onboarding[r] \in OnboardingRow
                            /\ onboarding[r].started_on = 1
                            /\ onboarding[r].completed_on \in {Null, 1}
      BY <1>2, SettledTyped
    <2>5. onboarding \in [Record -> OnboardingRow]
      <3>1. \A r \in Record : Settled(steps[r]) \in OnboardingRow
        BY SettledTyped
      <3> QED
        BY <1>2, <3>1
    <2>6. \A r \in Record : \A t \in Passed(r) : t <= now
      BY <1>2, <2>3, <2>4 DEF Passed, Null
    <2>7. ASSUME NEW r \in Record PROVE StartedFirst(r)
      BY <2>3, <2>4 DEF StartedFirst, Exists, Null
    <2> QED
      BY <1>2, <2>1, <2>3, <2>5, <2>6, <2>7 DEF TypeOK
  <1> QED
    BY <1>1, <1>2 DEF StatsInit

LEMMA StatsInitInv == StatsInit => StatsInv
  <1> SUFFICES ASSUME StatsInit PROVE StatsInv
    OBVIOUS
  <1>1. TypeOK /\ now = 1 /\ \A r \in Record : StartedFirst(r)
    BY FirstDay
  <1>2. /\ NoRun \in Runs /\ NoRun.todo = {} /\ NoRun.insert = {} /\ NoRun.began = 1
        /\ NoRun.date = 1 /\ NoRun.last = 1
    <2>1. 1 \in Time
      BY MaxTimeAssumption DEF Time
    <2> QED
      BY <2>1, ZeroCounter DEF NoRun, Runs
  <1>3. /\ schoolOf \in [Record -> School \union {NoSchool}]
        /\ stats = [k \in StatsKey |-> <<>>] /\ pc = [w \in Worker |-> "idle"]
        /\ run = [w \in Worker |-> NoRun] /\ quiet = [w \in Worker |-> FALSE]
        /\ settled = {}
    BY DEF StatsInit
  <1>4. StatsTyped
    BY <1>1, <1>2, <1>3 DEF StatsTyped
  <1>5. \A w \in Worker : RunRight(w) /\ QuietRight(w) /\ PastRight(w)
    BY <1>1, <1>2, <1>3 DEF RunRight, QuietRight, PastRight
  <1>6. ~Undisturbed
    BY <1>3 DEF Undisturbed
  <1> QED
    BY <1>1, <1>3, <1>4, <1>5, <1>6 DEF StatsInv

LEMMA StatsStep == StatsInv /\ [StatsNext]_allVars => StatsInv'
  <1> SUFFICES ASSUME StatsInv, [StatsNext]_allVars PROVE StatsInv'
    OBVIOUS
  <1>1. ASSUME NEW w \in Worker, NEW first \in Time, NEW last \in Time,
               Start(w, first, last)
        PROVE  StatsInv'
    BY <1>1, StartKeeps
  <1>2. ASSUME NEW w \in Worker, CountStarted(w) PROVE StatsInv'
    BY <1>2, CountKeeps
  <1>3. ASSUME NEW w \in Worker, CountCompleted(w) \/ QuerySchools(w) \/ QuerySteps(w)
        PROVE  StatsInv'
    BY <1>3, QueriesKeep
  <1>4. ASSUME NEW w \in Worker, UpdateOrCreate(w) PROVE StatsInv'
    BY <1>4, UpdateOrCreateKeeps
  <1>5. ASSUME NEW w \in Worker, Insert(w) PROVE StatsInv'
    BY <1>5, InsertKeeps
  <1>6. ASSUME NEW w \in Worker, NextDate(w) PROVE StatsInv'
    BY <1>6, NextDateKeeps
  <1>7. ASSUME NEW w \in Worker, Die(w) PROVE StatsInv'
    BY <1>7, DieKeeps DEF Die
  <1>8. ASSUME NEW r \in Record, ChecklistChanges(r) PROVE StatsInv'
    BY <1>8, ChecklistChangeKeeps
  <1>9. ASSUME NEW r \in Record, SchoolChanges(r) PROVE StatsInv'
    BY <1>9, SchoolChangeKeeps
  <1>10. ASSUME DayPasses \/ UNCHANGED allVars PROVE StatsInv'
    BY <1>10, DayKeeps
  <1> QED
    BY <1>1, <1>2, <1>3, <1>4, <1>5, <1>6, <1>7, <1>8, <1>9, <1>10
       DEF StatsNext, Aggregate

(* The inductive invariant.                                                *)
THEOREM StatsInvariant == StatsSpec => []StatsInv
  BY StatsInitInv, StatsStep, PTL DEF StatsSpec

(* The counters of every row stay within the number of records and a run   *)
(* within its days, whatever the aggregators and the helpers do.           *)
THEOREM StatsTypeCorrect == StatsSpec => []StatsTypeOK
  <1>1. StatsInv => StatsTypeOK
    <2> SUFFICES ASSUME StatsInv PROVE StatsTypeOK
      OBVIOUS
    <2>1. StatsTyped
      BY DEF StatsInv
    <2>2. ASSUME NEW k \in StatsKey, NEW i \in DOMAIN stats[k]
          PROVE  stats[k][i] \in FiguresType
      <3>1. stats[k] \in Seq(FiguresType)
        BY <2>1 DEF StatsTyped
      <3> QED
        BY <3>1, ElementOfSeq
    <2>3. ASSUME NEW w \in Worker
          PROVE  /\ run[w].total \in Counter
                 /\ run[w].date \in 1 .. run[w].last
                 /\ run[w].last <= now /\ run[w].began <= now
                 /\ run[w].insert \subseteq run[w].todo /\ run[w].todo \subseteq UpsertType
      <3>1. run[w] \in Runs /\ RunRight(w)
        BY <2>1 DEF StatsInv, StatsTyped
      <3> QED
        BY <3>1 DEF Runs, RunRight, Time
    <2> QED
      BY <2>1, <2>2, <2>3 DEF StatsTyped, StatsTypeOK
  <1> QED
    BY <1>1, StatsInvariant, PTL

(* A day rolled up by a run that nobody disturbed has, in one row each,    *)
(* the figures of all schools, of every school and of every step that the  *)
(* checklists have: _aggregate_for reads them one after the other.         *)
THEOREM QuietRunsRecord == StatsSpec => []QuietRunRecordsGroups
  <1>1. StatsInv => QuietRunRecordsGroups
    <2> SUFFICES ASSUME StatsInv, NEW d \in settled
                 PROVE  /\ Recorded(d, AllRow(d, Total(d, Record)))
                        /\ \A u \in StepRows(d, Total(d, Record)) : Recorded(d, u)
                        /\ \A h \in School :
                              Total(d, Pupils(h)) > 0 => Recorded(d, SchoolRow(d, h))
      BY DEF QuietRunRecordsGroups, SchoolRow
    <2>1. d \in Time /\ \A u \in Current(d) : Recorded(d, u)
      BY DEF StatsInv, StatsTyped
    <2>2. \A h \in School : Total(d, Pupils(h)) > 0 => SchoolRow(d, h) \in SchoolRows(d)
      BY <2>1, SchoolRowsTyped
    <2> QED
      BY <2>1, <2>2 DEF Current, All, Steps
  <1> QED
    BY <1>1, StatsInvariant, PTL

(* A run for a day that was over when it began never carries a row with    *)
(* more completions than records, though the helpers go on between its     *)
(* queries.                                                                *)
THEOREM PastDaysConsistent == StatsSpec => []PastDayConsistent
  <1>1. StatsInv => PastDayConsistent
    BY DEF StatsInv, PastRight, PastDayConsistent
  <1> QED
    BY <1>1, StatsInvariant, PTL

(* The rollup is idempotent: a quiet run that does a settled day again     *)
(* changes no row.  What it writes is there already, and it inserts        *)
(* nothing.                                                                *)
LEMMA RerunStep ==
    ASSUME StatsInv, [StatsNext]_allVars, NEW w \in Worker,
           quiet[w], quiet'[w], Date(w) \in settled
    PROVE  stats' = stats
  <1>1. /\ run[w].todo \subseteq Current(Date(w)) /\ QuietRight(w)
        /\ RunRight(w) /\ \A u \in Current(Date(w)) : Recorded(Date(w), u)
    BY AskedCurrent DEF StatsInv, UpToDate, Undisturbed
  <1>2. \A u \in run[w].todo : stats[u.key] = <<u.figures>>
    BY <1>1 DEF Recorded
  <1>3. ASSUME NEW v \in Worker, Disturb(v) PROVE v = w
    BY <1>3 DEF Disturb
  <1>4. ASSUME NEW v \in Worker, UpdateOrCreate(v), stats' # stats PROVE FALSE
    <2>1. PICK u \in run[v].todo :
              /\ stats' = [stats EXCEPT ![u.key] =
                               <<Updated(stats[u.key][1], u.figures)>>]
              /\ Disturb(v)
      BY <1>4 DEF UpdateOrCreate, Found
    <2>2. v = w /\ stats[u.key] = <<u.figures>>
      BY <1>2, <1>3, <2>1
    <2>3. stats' = [stats EXCEPT ![u.key] = stats[u.key]]
      BY <2>1, <2>2 DEF Updated
    <2> QED
      BY <1>4, <2>3 DEF StatsInv, StatsTyped
  <1>5. ASSUME NEW v \in Worker, Insert(v) PROVE FALSE
    <2>1. PICK u \in run[v].insert : Disturb(v)
      BY <1>5 DEF Insert
    <2>2. v = w /\ u \in run[w].todo
      BY <1>1, <1>3, <2>1 DEF RunRight
    <2>3. Len(stats[u.key]) = 1
      <3>1. stats[u.key] = <<u.figures>>
        BY <1>2, <2>2
      <3> QED
        BY <3>1
    <2>4. Len(stats[u.key]) = 0
      <3>1. stats[u.key] = <<>>
        BY <1>1, <2>1, <2>2 DEF QuietRight
      <3> QED
        BY <3>1
    <2>5. 1 = 0
      BY <2>3, <2>4
    <2> QED
      BY <2>5
  <1>6. ASSUME NEW v \in Worker, Aggregate(v), ~UpdateOrCreate(v), ~Insert(v)
        PROVE  stats' = stats
    BY <1>6 DEF Aggregate, CountStarted, CountCompleted, QuerySchools, QuerySteps, Query,
           NextDate, Die
  <1>7. ASSUME NEW v \in Worker, NEW first \in Time, NEW last \in Time, Start(v, first, last)
        PROVE  stats' = stats
    BY <1>7 DEF Start
  <1>8. ASSUME NEW r \in Record, ChecklistChanges(r) \/ SchoolChanges(r)
        PROVE  stats' = stats
    BY <1>8 DEF ChecklistChanges, SchoolChanges, Changed
  <1>9. ASSUME DayPasses \/ UNCHANGED allVars PROVE stats' = stats
    BY <1>9 DEF DayPasses, allVars
  <1> QED
    BY <1>4, <1>5, <1>6, <1>7, <1>8, <1>9 DEF StatsNext

THEOREM RerunsChangeNothing == StatsSpec => RerunKeepsStats
  <1>1. StatsInv /\ [StatsNext]_allVars =>
            [\A w \in Worker :
                quiet[w] /\ quiet'[w] /\ run[w].todo # {} /\ Date(w) \in settled
                    => stats' = stats]_allVars
    BY RerunStep
  <1> QED
    BY <1>1, StatsInvariant, PTL DEF StatsSpec, RerunKeepsStats

-----------------------------------------------------------------------------
(* With the nightly job alone a key has one row.                           *)
LEMMA SingleStep ==
    ASSUME \A v, w \in Worker : v = w, StatsInv, OnceInv, [StatsNext]_allVars
    PROVE  OnceInv'
  <1>1. ASSUME NEW w \in Worker, stats' = stats, run'[w].insert \subseteq run[w].insert
        PROVE  OnceInv'
    <2>1. \A v \in Worker : run'[v].insert \subseteq run[v].insert
      BY <1>1
    <2> QED
      BY <1>1, <2>1 DEF OnceInv, OneRowPerKey, InsertsNew
  <1>2. ASSUME NEW w \in Worker, Aggregate(w), ~UpdateOrCreate(w), ~Insert(w)
        PROVE  stats' = stats /\ run'[w].insert \subseteq run[w].insert
    <2>1. run \in [Worker -> Runs] /\ run[w] \in Runs /\ NoRun.insert = {}
      BY NoRunTyped DEF StatsInv, StatsTyped
    <2>2. CASE CountStarted(w)
      BY <2>1, <2>2 DEF CountStarted, Runs
    <2>3. CASE CountCompleted(w) \/ QuerySchools(w) \/ QuerySteps(w)
      BY <2>1, <2>3 DEF CountCompleted, QuerySchools, QuerySteps, Query, Runs
    <2>4. CASE NextDate(w)
      BY <2>1, <2>4 DEF NextDate, Runs
    <2>5. CASE Die(w)
      BY <2>1, <2>5 DEF Die
    <2> QED
      BY <1>2, <2>2, <2>3, <2>4, <2>5 DEF Aggregate
  <1>3. ASSUME NEW w \in Worker, NEW first \in Time, NEW last \in Time, Start(w, first, last)
        PROVE  stats' = stats /\ run'[w].insert \subseteq run[w].insert
    <2>1. run \in [Worker -> Runs] /\ NoRun \in Runs /\ NoRun.insert = {}
      BY NoRunTyped DEF StatsInv, StatsTyped
    <2> QED
      BY <1>3, <2>1 DEF Start, Runs
  <1>4. ASSUME UNCHANGED <<stats, run>> PROVE OnceInv'
    BY <1>4 DEF OnceInv, OneRowPerKey, InsertsNew
  <1>5. ASSUME NEW w \in Worker, NEW key \in StatsKey, NEW figures \in FiguresType,
               stats' = [stats EXCEPT ![key] = <<figures>>], run'[w].insert = {}
        PROVE  OnceInv'
    <2>1. ASSUME NEW k \in StatsKey PROVE Len(stats'[k]) <= 1
      <3>1. stats'[k] = IF k = key THEN <<figures>> ELSE stats[k]
        BY <1>5 DEF StatsInv, StatsTyped
      <3>2. CASE k = key
        <4>1. stats'[k] = <<figures>>
          BY <3>1, <3>2
        <4> QED
          BY <4>1
      <3>3. CASE k # key
        BY <3>1, <3>3 DEF OnceInv, OneRowPerKey
      <3> QED
        BY <3>2, <3>3
    <2>2. \A v \in Worker : run'[v].insert = {}
      BY <1>5
    <2> QED
      BY <2>1, <2>2 DEF OnceInv, OneRowPerKey, InsertsNew
  <1>6. ASSUME NEW w \in Worker, NEW u \in run[w].todo
        PROVE  /\ u.key \in StatsKey /\ u.figures \in FiguresType
               /\ stats[u.key] \in Seq(FiguresType) /\ Len(stats[u.key]) <= 1
    <2>1. u \in UpsertType
      BY DEF StatsInv, StatsTyped, Runs
    <2>2. u.key \in StatsKey /\ u.figures \in FiguresType
      BY <2>1 DEF UpsertType
    <2> QED
      BY <2>2 DEF StatsInv, StatsTyped, OnceInv, OneRowPerKey
  <1>7. ASSUME NEW w \in Worker, UpdateOrCreate(w) PROVE OnceInv'
    <2>1. PICK u \in run[w].todo :
              /\ run[w].insert = {}
              /\ \/ /\ Len(stats[u.key]) = 0
                    /\ run' = [run EXCEPT ![w].insert = {u}]
                    /\ UNCHANGED stats
                 \/ /\ Len(stats[u.key]) = 1
                    /\ stats' = [stats EXCEPT ![u.key] =
                                     <<Updated(stats[u.key][1], u.figures)>>]
                    /\ run' = [run EXCEPT ![w].todo = @ \ {u}]
                 \/ /\ Len(stats[u.key]) > 1
                    /\ run' = [run EXCEPT ![w] = NoRun]
                    /\ UNCHANGED stats
      BY <1>7 DEF UpdateOrCreate, Found
    <2>2. run \in [Worker -> Runs] /\ run[w] \in Runs /\ NoRun.insert = {}
      BY NoRunTyped DEF StatsInv, StatsTyped
    <2>3. CASE /\ Len(stats[u.key]) = 0
               /\ run' = [run EXCEPT ![w].insert = {u}]
               /\ UNCHANGED stats
      <3>1. stats[u.key] = <<>>
        BY <1>6, <2>3, EmptySeq
      <3>2. run'[w].insert = {u}
        BY <2>2, <2>3 DEF Runs
      <3>3. \A v \in Worker : run'[v].insert = {u}
        BY <3>2
      <3> QED
        BY <2>3, <3>1, <3>3 DEF OnceInv, OneRowPerKey, InsertsNew
    <2>4. CASE /\ Len(stats[u.key]) = 1
               /\ stats' = [stats EXCEPT ![u.key] =
                                <<Updated(stats[u.key][1], u.figures)>>]
               /\ run' = [run EXCEPT ![w].todo = @ \ {u}]
      <3>1. run'[w].insert = {}
        BY <2>1, <2>2, <2>4 DEF Runs
      <3>2. stats' = [stats EXCEPT ![u.key] = <<u.figures>>]
        BY <2>4 DEF Updated
      <3> QED
        BY <1>5, <1>6, <3>1, <3>2
    <2>5. CASE /\ Len(stats[u.key]) > 1
               /\ run' = [run EXCEPT ![w] = NoRun]
               /\ UNCHANGED stats
      <3>1. run'[w].insert = {}
        BY <2>2, <2>5
      <3> QED
        BY <1>1, <2>5, <3>1
    <2> QED
      BY <2>1, <2>3, <2>4, <2>5
  <1>8. ASSUME NEW w \in Worker, Insert(w) PROVE OnceInv'
    <2>1. PICK u \in run[w].insert :
              /\ stats' = [stats EXCEPT ![u.key] =
                     IF Unique(u.key) /\ stats[u.key] # <<>>
                     THEN <<Updated(stats[u.key][1], u.figures)>>
                     ELSE Append(stats[u.key], u.figures)]
              /\ run' = [run EXCEPT ![w].todo = @ \ {u}, ![w].insert = {}]
      BY <1>8 DEF Insert
    <2>2. stats[u.key] = <<>> /\ u \in run[w].todo
      BY DEF OnceInv, InsertsNew, StatsInv, RunRight
    <2>3. Append(<<>>, u.figures) = <<u.figures>>
      OBVIOUS
    <2>4. stats' = [stats EXCEPT ![u.key] = <<u.figures>>]
      BY <2>1, <2>2, <2>3
    <2>5. run \in [Worker -> Runs] /\ run[w] \in Runs
      BY DEF StatsInv, StatsTyped
    <2>6. run'[w].insert = {}
      BY <2>1, <2>5 DEF Runs
    <2> QED
      BY <1>5, <1>6, <2>2, <2>4, <2>6
  <1>9. ASSUME NEW r \in Record, ChecklistChanges(r) \/ SchoolChanges(r)
        PROVE  UNCHANGED <<stats, run>>
    BY <1>9 DEF ChecklistChanges, SchoolChanges, Changed
  <1>10. ASSUME DayPasses \/ UNCHANGED allVars PROVE UNCHANGED <<stats, run>>
    BY <1>10 DEF DayPasses, allVars
  <1> QED
    BY <1>1, <1>2, <1>3, <1>4, <1>7, <1>8, <1>9, <1>10 DEF StatsNext

(* "one row per (date, term, highschool, step_key)" (README.md:466), as    *)
(* long as there is but one aggregator: the key of the table does not bind *)
(* the rows without a school, so two would each insert one.                *)
THEOREM OneAggregatorOneRow ==
    ASSUME \A v, w \in Worker : v = w
    PROVE  StatsSpec => []OneRowPerKey
  <1>1. StatsInit => OnceInv
    <2> SUFFICES ASSUME StatsInit PROVE OnceInv
      OBVIOUS
    <2>1. stats = [k \in StatsKey |-> <<>>] /\ run = [w \in Worker |-> NoRun]
      BY DEF StatsInit
    <2> QED
      BY <2>1 DEF OnceInv, OneRowPerKey, InsertsNew, NoRun
  <1>2. StatsInv /\ OnceInv /\ [StatsNext]_allVars => OnceInv'
    BY SingleStep
  <1>3. OnceInv => OneRowPerKey
    BY DEF OnceInv
  <1> QED
    BY <1>1, <1>2, <1>3, StatsInvariant, PTL DEF StatsSpec
=============================================================================
