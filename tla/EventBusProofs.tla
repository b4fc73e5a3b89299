----------------------------- MODULE EventBusProofs -----------------------------
(***************************************************************************)
(* Theorems about the event bus.  The invariant follows the two loops: the *)
(* one of a dispatch over the list of handlers, and the one of the command *)
(* over its students.                                                      *)
(***************************************************************************)
EXTENDS EventBus, ChecklistProofs, SequenceTheorems

Signals ==
    [pc : {"idle", "pick", "work", "served", "raised"}, event : Event,
     rec : Record, left : Nat, at : Nat \ {0}, fn : SUBSET Handler,
     todo : Seq(Call), served : Seq(Handler), quiet : BOOLEAN]
Commands ==
    [pc : {"idle", "run", "reported", "error"}, event : Event,
     todo : SUBSET Record, targets : SUBSET Record, sent : Nat,
     quiet : BOOLEAN, owed : SUBSET (Record \X Key)]

BusTyped ==
    /\ TypeOK
    /\ listeners \in [Event -> Seq(Handler)]
    /\ receivers = 1
    /\ dispatch \in [Thread -> Signals]
    /\ command \in Commands
    /\ vouched \in SUBSET Event

ListsRight ==
    /\ \A e \in Event : Once(listeners[e])
    /\ \A e \in vouched : listeners[e] # <<>>

(* The handlers before position n of fns have been served.                 *)
ServedUpTo(served, fns, n) ==
    /\ n <= Len(fns)
    /\ Len(served) = n
    /\ \A i \in 1 .. n : served[i] = fns[i]

(* A thread has a handler exactly while it works.                          *)
HandlerRight(d) ==
    /\ d.pc = "work" => \E h \in Handler : d.fn = {h}
    /\ d.pc # "work" => d.fn = {}

(* As long as nobody changes the registry, what has been served is what    *)
(* stands before the position of the loop.                                 *)
LoopRight(d, fns) ==
    d.quiet =>
        /\ d.pc \in {"pick", "work"} /\ d.left > 0 =>
               d.left = 1 /\ ServedUpTo(d.served, fns, d.at - 1)
        /\ d.pc = "work" =>
               d.left > 0 /\ d.at <= Len(fns) /\ d.fn = {fns[d.at]}
        /\ d.pc = "served" \/ (d.pc = "pick" /\ d.left = 0) =>
               ServedUpTo(d.served, fns, Len(fns))

InOrder(t) == HandlerRight(dispatch[t]) /\ LoopRight(dispatch[t], Fns(t))

(* The count of the command: the students sent to, without the one whose   *)
(* signal is still on its way.                                             *)
Busy == dispatch[Command].pc # "idle"
OnTheWay == IF Busy THEN 1 ELSE 0
Taken == command.targets \ command.todo
CountRight ==
    /\ command.todo \subseteq command.targets
    /\ command.sent <= Cardinality(Taken)
    /\ command.pc \in {"run", "reported"} =>
           command.sent + OnTheWay = Cardinality(Taken)
    /\ command.pc = "reported" => command.todo = {}
    /\ Busy => /\ command.pc = "run"
               /\ dispatch[Command].event = command.event
               /\ dispatch[Command].rec \in Taken
               /\ command.quiet => dispatch[Command].quiet

(* The dispatch d still comes to a helper call that completes step k.      *)
Completing(calls, k) ==
    \E i \in DOMAIN calls : calls[i].op = "complete" /\ calls[i].key = k
Ahead(d, fns, k) ==
    \/ d.pc = "raised"
    \/ d.pc = "work" /\ Completing(d.todo, k)
    \/ /\ d.pc \in {"pick", "work"} /\ d.left > 0
       /\ \E j \in DOMAIN fns :
             /\ d.at <= j /\ (d.pc = "work" => d.at < j)
             /\ Completing(Work[fns[j]], k)

Kept(r, k) ==
    \/ steps[r][k].status = "completed"
    \/ Busy /\ dispatch[Command].rec = r /\ Ahead(dispatch[Command], Fns(Command), k)

(* What the command owes is done, or its current signal is about to do it. *)
OwedRight ==
    command.quiet /\ command.pc \in {"run", "reported"} =>
        /\ listeners[command.event] # <<>>
        /\ \A x \in command.owed :
              steps[x[1]][x[2]].status # "absent" /\ Kept(x[1], x[2])

BusInv ==
    /\ BusTyped
    /\ ListsRight
    /\ \A t \in Thread : InOrder(t)
    /\ CountRight
    /\ OwedRight

-----------------------------------------------------------------------------
(* The lists of handlers.                                                  *)
LEMMA AddedRight ==
    ASSUME NEW fns \in Seq(Handler), Once(fns), NEW h \in Handler
    PROVE  Added(h, fns) \in Seq(Handler) /\ Once(Added(h, fns))
  <1>1. CASE Listed(h, fns)
    BY <1>1 DEF Added
  <1>2. CASE ~Listed(h, fns)
    BY <1>2 DEF Added, Once, Listed
  <1> QED
    BY <1>1, <1>2

(* A list without repetition has one place for a handler it lists.         *)
LEMMA FirstRight ==
    ASSUME NEW fns \in Seq(Handler), Once(fns), NEW h, Listed(h, fns)
    PROVE  First(h, fns) \in 1 .. Len(fns) /\ fns[First(h, fns)] = h
  <1>1. PICK i \in DOMAIN fns : fns[i] = h
    BY DEF Listed
  <1>2. \A j \in DOMAIN fns : fns[j] = h => i <= j
    BY <1>1 DEF Once
  <1>3. First(h, fns) \in DOMAIN fns /\ fns[First(h, fns)] = h
    BY <1>1, <1>2 DEF First
  <1> QED
    BY <1>3

LEMMA RemovedRight ==
    ASSUME NEW fns \in Seq(Handler), Once(fns), NEW h
    PROVE  /\ Removed(h, fns) \in Seq(Handler) /\ Once(Removed(h, fns))
           /\ ~Listed(h, Removed(h, fns))
  <1>1. CASE ~Listed(h, fns)
    BY <1>1 DEF Removed
  <1>2. CASE Listed(h, fns)
    <2> DEFINE i == First(h, fns)
    <2>1. i \in 1 .. Len(fns) /\ fns[i] = h
      BY <1>2, FirstRight
    <2>2. Removed(h, fns) = SubSeq(fns, 1, i - 1) \o SubSeq(fns, i + 1, Len(fns))
      BY <1>2 DEF Removed
    <2> HIDE DEF i
    <2>3. PICK before \in Seq(Handler) :
              /\ before = SubSeq(fns, 1, i - 1) /\ Len(before) = i - 1
              /\ \A j \in 1 .. i - 1 : before[j] = fns[j]
      <3>1. /\ SubSeq(fns, 1, i - 1) \in Seq(Handler)
            /\ Len(SubSeq(fns, 1, i - 1)) = IF 1 <= i - 1 THEN i - 1 - 1 + 1 ELSE 0
            /\ \A j \in 1 .. i - 1 - 1 + 1 : SubSeq(fns, 1, i - 1)[j] = fns[1 + j - 1]
        <4>1. 1 \in Int /\ i - 1 \in Int /\ \A j \in 1 .. i - 1 : fns[j] \in Handler
          BY <2>1
        <4> QED
          BY <4>1, SubSeqProperties
      <3>2. /\ \A j \in 1 .. i - 1 : j \in 1 .. i - 1 - 1 + 1 /\ 1 + j - 1 = j
            /\ (IF 1 <= i - 1 THEN i - 1 - 1 + 1 ELSE 0) = i - 1
        BY <2>1
      <3> QED
        BY <3>1, <3>2, Zenon
    <2>4. PICK after \in Seq(Handler) :
              /\ after = SubSeq(fns, i + 1, Len(fns)) /\ Len(after) = Len(fns) - i
              /\ \A j \in 1 .. Len(fns) - i : after[j] = fns[i + j]
      <3> DEFINE n == Len(fns)
      <3>1. /\ SubSeq(fns, i + 1, n) \in Seq(Handler)
            /\ Len(SubSeq(fns, i + 1, n)) = IF i + 1 <= n THEN n - (i + 1) + 1 ELSE 0
            /\ \A j \in 1 .. n - (i + 1) + 1 : SubSeq(fns, i + 1, n)[j] = fns[i + 1 + j - 1]
        <4>1. n \in Int /\ i + 1 \in Int /\ \A j \in i + 1 .. n : fns[j] \in Handler
          BY <2>1
        <4> QED
          BY <4>1, SubSeqProperties
      <3>2. /\ \A j \in 1 .. n - i : j \in 1 .. n - (i + 1) + 1 /\ i + 1 + j - 1 = i + j
            /\ (IF i + 1 <= n THEN n - (i + 1) + 1 ELSE 0) = n - i
        BY <2>1
      <3> QED
        BY <3>1, <3>2, Zenon
    <2>5. PICK rest \in Seq(Handler) :
              /\ rest = Removed(h, fns) /\ Len(rest) = Len(fns) - 1
              /\ \A j \in 1 .. i - 1 : rest[j] = fns[j]
              /\ \A j \in i .. Len(fns) - 1 : rest[j] = fns[j + 1]
      <3>1. before \o after = Removed(h, fns)
        BY <2>2, <2>3, <2>4
      <3>5. /\ before \o after \in Seq(Handler)
            /\ Len(before \o after) = Len(before) + Len(after)
            /\ \A j \in 1 .. Len(before) + Len(after) :
                  (before \o after)[j] =
                      IF j <= Len(before) THEN before[j] ELSE after[j - Len(before)]
        BY ConcatProperties, Zenon
      <3>6. /\ Len(before) = i - 1 /\ Len(after) = Len(fns) - i
            /\ Len(fns) \in Nat /\ i \in 1 .. Len(fns)
        BY <2>1, <2>3, <2>4, LenProperties
      <3>2. before \o after \in Seq(Handler) /\ Len(before \o after) = Len(fns) - 1
        BY <3>5, <3>6
      <3>3. \A j \in 1 .. i - 1 : (before \o after)[j] = fns[j]
        <4> SUFFICES ASSUME NEW j \in 1 .. i - 1 PROVE (before \o after)[j] = fns[j]
          OBVIOUS
        <4>1. j \in 1 .. Len(before) + Len(after) /\ j <= Len(before)
          BY <3>6
        <4> QED
          BY <2>3, <3>5, <4>1
      <3>4. ASSUME NEW j \in i .. Len(fns) - 1
            PROVE  (before \o after)[j] = fns[j + 1]
        <4>1. (before \o after)[j] = after[j - (i - 1)]
          <5>1. j \in 1 .. Len(before) + Len(after) /\ ~(j <= Len(before))
            BY <3>6
          <5> QED
            BY <3>5, <3>6, <5>1
        <4>2. j - (i - 1) \in 1 .. Len(fns) - i /\ i + (j - (i - 1)) = j + 1
          BY <2>1
        <4> QED
          BY <2>4, <4>1, <4>2
      <3> QED
        BY <3>1, <3>2, <3>3, <3>4
    <2>6. ASSUME NEW j \in 1 .. Len(fns) - 1
          PROVE  /\ rest[j] = fns[IF j < i THEN j ELSE j + 1]
                 /\ (IF j < i THEN j ELSE j + 1) \in 1 .. Len(fns)
                 /\ (IF j < i THEN j ELSE j + 1) # i
      BY <2>1, <2>5
    <2>7. Once(rest)
      <3> SUFFICES ASSUME NEW j \in 1 .. Len(fns) - 1, NEW l \in 1 .. Len(fns) - 1,
                          rest[j] = rest[l]
                   PROVE  j = l
        BY <2>5 DEF Once
      <3>1. (IF j < i THEN j ELSE j + 1) = (IF l < i THEN l ELSE l + 1)
        BY <2>6 DEF Once
      <3> QED
        BY <2>1, <3>1
    <2>8. ~Listed(h, rest)
      <3> SUFFICES ASSUME NEW j \in 1 .. Len(fns) - 1, rest[j] = h PROVE FALSE
        BY <2>5 DEF Listed
      <3>1. fns[i] = fns[IF j < i THEN j ELSE j + 1]
        BY <2>1, <2>6
      <3> QED
        BY <2>1, <2>6, <3>1 DEF Once
    <2> QED
      BY <2>5, <2>7, <2>8
  <1> QED
    BY <1>1, <1>2

LEMMA StartRight ==
    ASSUME NEW e \in Event, NEW fns \in AtStartup(e)
    PROVE  fns \in Seq(Handler) /\ Once(fns)
  <1>1. Host[e] \in Seq(Handler) /\ Once(Host[e])
    BY HostAssumption
  <1>2. ASSUME NEW h \in Movable
        PROVE  /\ <<h>> \o Removed(h, Host[e]) \in Seq(Handler)
               /\ Once(<<h>> \o Removed(h, Host[e]))
    <2> DEFINE rest == Removed(h, Host[e])
    <2>1. rest \in Seq(Handler) /\ Once(rest) /\ ~Listed(h, rest)
      BY <1>1, RemovedRight
    <2>2. h \in Handler
      BY WorkAssumption
    <2> HIDE DEF rest
    <2>3. /\ <<h>> \o rest \in Seq(Handler) /\ Len(<<h>> \o rest) = Len(rest) + 1
          /\ (<<h>> \o rest)[1] = h
          /\ \A j \in 2 .. Len(rest) + 1 : (<<h>> \o rest)[j] = rest[j - 1]
      BY <2>1, <2>2
    <2>4. Once(<<h>> \o rest)
      BY <2>1, <2>3 DEF Once, Listed
    <2> QED
      BY <2>3, <2>4 DEF rest
  <1>3. ASSUME NEW h \in Movable
        PROVE  Added(h, Host[e]) \in Seq(Handler) /\ Once(Added(h, Host[e]))
    BY <1>1, AddedRight, WorkAssumption
  <1> QED
    BY <1>1, <1>2, <1>3 DEF AtStartup

(* Served up to the end is served as listed.                               *)
LEMMA ServedAll ==
    ASSUME NEW served \in Seq(Handler), NEW fns \in Seq(Handler),
           ServedUpTo(served, fns, Len(fns))
    PROVE  served = fns
  BY SeqEqual DEF ServedUpTo

LEMMA ServedOneMore ==
    ASSUME NEW served \in Seq(Handler), NEW fns \in Seq(Handler), NEW n \in Nat,
           n < Len(fns), ServedUpTo(served, fns, n)
    PROVE  ServedUpTo(Append(served, fns[n + 1]), fns, n + 1)
  BY DEF ServedUpTo

LEMMA ServedNone ==
    ASSUME NEW fns \in Seq(Handler)
    PROVE  ServedUpTo(<<>>, fns, 0)
  BY DEF ServedUpTo

-----------------------------------------------------------------------------
(* What each action does to the signal of a thread.                        *)
Sets(t, d) ==
    /\ d \in Signals
    /\ dispatch' = [dispatch EXCEPT ![t] = d]

LEMMA SetsOne ==
    ASSUME BusTyped, NEW t \in Thread, NEW d, Sets(t, d)
    PROVE  /\ dispatch' \in [Thread -> Signals] /\ dispatch'[t] = d
           /\ \A u \in Thread \ {t} : dispatch'[u] = dispatch[u]
  BY DEF Sets, BusTyped

LEMMA FnsTyped ==
    ASSUME BusTyped, NEW t \in Thread
    PROVE  Fns(t) \in Seq(Handler) /\ Len(Fns(t)) \in Nat
  BY DEF BusTyped, Fns, Signals

LEMMA FreshSignal ==
    ASSUME NEW e \in Event, NEW r \in Record
    PROVE  /\ NoDispatch(e, r) \in Signals
           /\ [NoDispatch(e, r) EXCEPT !.pc = "raised"] \in Signals
           /\ \A n \in Nat : [NoDispatch(e, r) EXCEPT !.pc = "pick", !.left = n] \in Signals
  <1>1. NoDispatch(e, r) \in Signals
    BY DEF NoDispatch, Signals
  <1>2. ASSUME NEW n \in Nat
        PROVE  [NoDispatch(e, r) EXCEPT !.pc = "pick", !.left = n] \in Signals
    BY <1>1 DEF Signals
  <1>3. [NoDispatch(e, r) EXCEPT !.pc = "raised"] \in Signals
    BY <1>1 DEF Signals
  <1> QED
    BY <1>1, <1>2, <1>3

LEMMA PickSets ==
    ASSUME BusTyped, NEW t \in Thread, Pick(t)
    PROVE  LET h == Fns(t)[dispatch[t].at] IN
           /\ dispatch[t].at \in 1 .. Len(Fns(t)) /\ h \in Handler
           /\ dispatch[t].pc = "pick" /\ dispatch[t].left > 0
           /\ Sets(t, [dispatch[t] EXCEPT !.pc = "work", !.fn = {h}, !.todo = Work[h]])
  <1> DEFINE h == Fns(t)[dispatch[t].at]
  <1>1. Fns(t) \in Seq(Handler) /\ Len(Fns(t)) \in Nat /\ dispatch[t] \in Signals
    BY FnsTyped DEF BusTyped
  <1>2. dispatch[t].at \in 1 .. Len(Fns(t)) /\ dispatch[t].pc = "pick" /\ dispatch[t].left > 0
    BY <1>1 DEF Pick, At, AtEnd, Signals
  <1>3. h \in Handler
    BY <1>1, <1>2
  <1>4. Work[h] \in Seq(Call)
    BY <1>3, WorkAssumption
  <1>5. dispatch' = [dispatch EXCEPT ![t].pc = "work", ![t].fn = {h}, ![t].todo = Work[h]]
    BY DEF Pick
  <1> HIDE DEF h
  <1>6. [dispatch[t] EXCEPT !.pc = "work", !.fn = {h}, !.todo = Work[h]] \in Signals
    BY <1>1, <1>3, <1>4 DEF Signals
  <1>7. dispatch' = [dispatch EXCEPT ![t] =
                        [dispatch[t] EXCEPT !.pc = "work", !.fn = {h}, !.todo = Work[h]]]
    BY <1>5 DEF BusTyped
  <1> QED
    BY <1>2, <1>3, <1>6, <1>7 DEF Sets, h

LEMMA ReturnSets ==
    ASSUME BusTyped, NEW t \in Thread, HandlerReturns(t), HandlerRight(dispatch[t])
    PROVE  \E h \in Handler :
               /\ dispatch[t].fn = {h} /\ dispatch[t].pc = "work" /\ dispatch[t].todo = <<>>
               /\ Sets(t, [dispatch[t] EXCEPT !.pc = "pick", !.at = @ + 1, !.fn = {},
                                              !.served = Append(@, h)])
  <1>1. dispatch[t] \in Signals
    BY DEF BusTyped
  <1>2. PICK h \in Handler : dispatch[t].fn = {h} /\ dispatch[t].pc = "work"
    BY DEF HandlerReturns, At, HandlerRight
  <1>3. dispatch' = [dispatch EXCEPT ![t].pc = "pick", ![t].at = @ + 1, ![t].fn = {},
                                     ![t].served = Append(@, h)]
    BY <1>2 DEF HandlerReturns
  <1>4. [dispatch[t] EXCEPT !.pc = "pick", !.at = @ + 1, !.fn = {},
                            !.served = Append(@, h)] \in Signals
    <2>1. /\ dispatch[t].at + 1 \in Nat \ {0}
          /\ Append(dispatch[t].served, h) \in Seq(Handler)
      BY <1>1 DEF Signals
    <2> QED
      BY <1>1, <2>1 DEF Signals
  <1>5. dispatch' = [dispatch EXCEPT ![t] =
            [dispatch[t] EXCEPT !.pc = "pick", !.at = @ + 1, !.fn = {}, !.served = Append(@, h)]]
    BY <1>3 DEF BusTyped
  <1> QED
    BY <1>2, <1>4, <1>5 DEF Sets, HandlerReturns

LEMMA NextSets ==
    ASSUME BusTyped, NEW t \in Thread, NextReceiver(t)
    PROVE  /\ dispatch[t].pc = "pick" /\ dispatch[t].left > 0
           /\ dispatch[t].at > Len(Fns(t))
           /\ Sets(t, [dispatch[t] EXCEPT !.left = @ - 1, !.at = 1])
  <1>1. dispatch[t] \in Signals
    BY DEF BusTyped
  <1>2. dispatch[t].left > 0
    BY DEF NextReceiver
  <1>3. [dispatch[t] EXCEPT !.left = @ - 1, !.at = 1] \in Signals
    <2>1. dispatch[t].left - 1 \in Nat /\ 1 \in Nat \ {0}
      BY <1>1, <1>2 DEF Signals
    <2> QED
      BY <1>1, <2>1 DEF Signals
  <1>4. dispatch' = [dispatch EXCEPT ![t] = [dispatch[t] EXCEPT !.left = @ - 1, !.at = 1]]
    BY DEF BusTyped, NextReceiver
  <1> QED
    BY <1>2, <1>3, <1>4 DEF Sets, NextReceiver, At, AtEnd

LEMMA SentSets ==
    ASSUME BusTyped, NEW t \in Thread, Sent(t)
    PROVE  /\ dispatch[t].pc = "pick" /\ dispatch[t].left = 0
           /\ Sets(t, [dispatch[t] EXCEPT !.pc = "served"])
  <1>1. dispatch[t] \in Signals
    BY DEF BusTyped
  <1>2. [dispatch[t] EXCEPT !.pc = "served"] \in Signals
    BY <1>1 DEF Signals
  <1>3. dispatch' = [dispatch EXCEPT ![t] = [dispatch[t] EXCEPT !.pc = "served"]]
    BY DEF BusTyped, Sent
  <1> QED
    BY <1>2, <1>3 DEF Sets, Sent, At

LEMMA RaiseSets ==
    ASSUME BusTyped, NEW t \in Thread, HandlerRaises(t)
    PROVE  /\ dispatch[t].pc = "work"
           /\ Sets(t, [NoDispatch(dispatch[t].event, dispatch[t].rec) EXCEPT !.pc = "raised"])
  <1>1. dispatch[t].event \in Event /\ dispatch[t].rec \in Record
    BY DEF BusTyped, Signals
  <1>2. dispatch' = [dispatch EXCEPT ![t] =
            [NoDispatch(dispatch[t].event, dispatch[t].rec) EXCEPT !.pc = "raised"]]
    BY DEF HandlerRaises, BusTyped
  <1> QED
    BY <1>1, <1>2, FreshSignal DEF Sets, HandlerRaises, At

LEMMA SendSets ==
    ASSUME BusTyped, NEW t \in Thread, NEW e \in Event, NEW r \in Record, Sends(t, e, r)
    PROVE  Sets(t, [NoDispatch(e, r) EXCEPT !.pc = "pick", !.left = 1])
  <1>1. dispatch' = [dispatch EXCEPT ![t] =
                        [NoDispatch(e, r) EXCEPT !.pc = "pick", !.left = 1]]
    BY DEF Sends, BusTyped
  <1> QED
    BY <1>1, FreshSignal DEF Sets

LEMMA CallSets ==
    ASSUME BusTyped, NEW t \in Thread, HandlerCalls(t)
    PROVE  /\ dispatch[t].pc = "work" /\ dispatch[t].todo # <<>>
           /\ Head(dispatch[t].todo) \in Call
           /\ Sets(t, [dispatch[t] EXCEPT !.todo = Tail(@)])
  <1>1. dispatch[t] \in Signals /\ dispatch[t].todo # <<>> /\ dispatch[t].todo \in Seq(Call)
    BY DEF BusTyped, HandlerCalls, Signals
  <1>2. Tail(dispatch[t].todo) \in Seq(Call) /\ Head(dispatch[t].todo) \in Call
    BY <1>1, HeadTailProperties
  <1>3. [dispatch[t] EXCEPT !.todo = Tail(@)] \in Signals
    BY <1>1, <1>2 DEF Signals
  <1>4. dispatch' = [dispatch EXCEPT ![t] = [dispatch[t] EXCEPT !.todo = Tail(@)]]
    BY DEF BusTyped, HandlerCalls
  <1> QED
    BY <1>1, <1>2, <1>3, <1>4 DEF Sets, HandlerCalls, At

-----------------------------------------------------------------------------
(* What the handlers do to the steps: none goes, and none is taken back.   *)
Progress ==
    \A r \in Record, k \in Key :
        /\ steps[r][k].status # "absent" => steps'[r][k].status # "absent"
        /\ steps[r][k].status = "completed" => steps'[r][k].status = "completed"

LEMMA CallEffect ==
    ASSUME BusTyped, NEW t \in Thread, HandlerCalls(t)
    PROVE  LET call == Head(dispatch[t].todo)
               r == dispatch[t].rec
           IN  /\ TypeOK' /\ Progress
               /\ call.op = "complete" /\ steps[r][call.key].status # "absent" =>
                      steps'[r][call.key].status = "completed"
  <1> DEFINE call == Head(dispatch[t].todo)
             r == dispatch[t].rec
             k == call.key
             Result == /\ TypeOK' /\ Progress
                       /\ call.op = "complete" /\ steps[r][k].status # "absent" =>
                              steps'[r][k].status = "completed"
  <1>1. call \in Call /\ r \in Record /\ k \in Key /\ TypeOK
    <2>1. call \in Call
      BY CallSets
    <2> QED
      BY <2>1 DEF BusTyped, Signals, Call
  <1>2. \/ call.op = "add" /\ AddStep(r, k, "pending")
        \/ call.op = "complete" /\ CompleteStep(r, k)
        \/ (call.op = "add") # (steps[r][k].status = "absent") /\ UNCHANGED vars
    BY DEF HandlerCalls
  <1> HIDE DEF call, r
  <1>3. ASSUME call.op = "add", AddStep(r, k, "pending") PROVE Result
    <2>1. "pending" \in Status /\ "add" # "complete"
      BY DEF Status
    <2>2. [Next]_vars
      BY <1>1, <1>3, <2>1 DEF Next
    <2>3. TypeOK'
      BY <1>1, <2>2, StepTyped
    <2>4. /\ WritesStep(r, k)
          /\ steps[r][k].status = "absent" /\ steps'[r][k].status = "pending"
      BY <1>1, <1>3, <2>1, AddEffect
    <2>5. Progress
      BY <2>4 DEF Progress, WritesStep, Leaves
    <2> QED
      BY <1>3, <2>1, <2>3, <2>5
  <1>4. ASSUME call.op = "complete", CompleteStep(r, k) PROVE Result
    <2>1. "completed" \in DoneStatus
      BY DEF DoneStatus
    <2>2. [Next]_vars
      BY <1>1, <1>4 DEF Next
    <2>3. TypeOK'
      BY <1>1, <2>2, StepTyped
    <2>4. /\ WritesStep(r, k)
          /\ steps[r][k].status # "absent" /\ steps'[r][k].status = "completed"
      BY <1>1, <1>4, <2>1, TransitionEffect DEF CompleteStep
    <2>5. Progress
      BY <2>4 DEF Progress, WritesStep, Leaves
    <2> QED
      BY <2>3, <2>4, <2>5
  <1>5. ASSUME (call.op = "add") # (steps[r][k].status = "absent"), UNCHANGED vars
        PROVE  Result
    <2>1. TypeOK'
      BY <1>1, <1>5, StepTyped
    <2>2. Progress
      BY <1>5 DEF Progress, vars
    <2>3. "add" # "complete"
      OBVIOUS
    <2>4. ~(call.op = "complete" /\ steps[r][k].status # "absent")
      BY <1>5, <2>3
    <2> QED
      BY <2>1, <2>2, <2>4
  <1> QED
    BY <1>2, <1>3, <1>4, <1>5 DEF call, r

LEMMA StepsStay ==
    ASSUME BusTyped, UNCHANGED vars
    PROVE  TypeOK' /\ Progress
  BY StepTyped DEF BusTyped, vars, Progress

-----------------------------------------------------------------------------
(* The parts of the invariant that a thread's own steps can disturb.       *)
SignalsKept == BusTyped' /\ ListsRight' /\ \A t \in Thread : InOrder(t)'

LEMMA ThreadKeeps ==
    ASSUME BusInv, NEW t \in Thread, NEW d, Sets(t, d), TypeOK',
           UNCHANGED bus, command' \in Commands,
           HandlerRight(d), LoopRight(d, listeners[d.event])
    PROVE  SignalsKept
  <1>1. /\ dispatch' \in [Thread -> Signals] /\ dispatch'[t] = d
        /\ \A u \in Thread \ {t} : dispatch'[u] = dispatch[u]
    BY SetsOne DEF BusInv
  <1>2. listeners' = listeners /\ receivers' = receivers /\ vouched' = vouched
    BY DEF bus
  <1>3. BusTyped'
    BY <1>1, <1>2 DEF BusTyped, BusInv
  <1>4. ListsRight'
    BY <1>2 DEF ListsRight, BusInv
  <1>5. ASSUME NEW u \in Thread PROVE InOrder(u)'
    <2>1. CASE u = t
      BY <2>1, <1>1, <1>2 DEF InOrder, Fns
    <2>2. CASE u # t
      <3>1. InOrder(u) /\ dispatch'[u] = dispatch[u]
        BY <2>2, <1>1 DEF BusInv
      <3> QED
        BY <3>1, <1>2 DEF InOrder, Fns
    <2> QED
      BY <2>1, <2>2
  <1> QED
    BY <1>3, <1>4, <1>5 DEF SignalsKept

(* A step of any thread in the middle of a signal leaves the command's     *)
(* account right, if what was ahead is still ahead or has been done.       *)
SameSignal(d, c) ==
    /\ (c.pc = "idle") = (d.pc = "idle")
    /\ d.pc # "idle" => c.event = d.event /\ c.rec = d.rec /\ (d.quiet => c.quiet)

LEMMA CountStays ==
    ASSUME CountRight, command' = command,
           SameSignal(dispatch[Command], dispatch'[Command])
    PROVE  CountRight'
  <1>1. Busy' = Busy /\ OnTheWay' = OnTheWay /\ Taken' = Taken
    BY DEF Busy, OnTheWay, Taken, SameSignal
  <1>2. Busy => /\ dispatch'[Command].event = dispatch[Command].event
                /\ dispatch'[Command].rec = dispatch[Command].rec
                /\ dispatch[Command].quiet => dispatch'[Command].quiet
    BY DEF Busy, SameSignal
  <1> QED
    BY <1>1, <1>2 DEF CountRight

LEMMA OwedStays ==
    ASSUME BusInv, command' = command, listeners' = listeners, Progress,
           SameSignal(dispatch[Command], dispatch'[Command]),
           \A k \in Key :
               /\ Busy /\ dispatch[Command].quiet
               /\ steps[dispatch[Command].rec][k].status # "absent"
               /\ Ahead(dispatch[Command], Fns(Command), k)
               => \/ steps'[dispatch[Command].rec][k].status = "completed"
                  \/ Ahead(dispatch'[Command], Fns(Command), k)
    PROVE  OwedRight'
  <1> DEFINE d == dispatch[Command]
             c == dispatch'[Command]
  <1>1. /\ (c.pc # "idle") = Busy
        /\ Busy => c.event = d.event /\ c.rec = d.rec /\ Fns(Command)' = Fns(Command)
    BY DEF SameSignal, Busy, Fns
  <1> SUFFICES ASSUME command.quiet, command.pc \in {"run", "reported"}
               PROVE  /\ listeners[command.event] # <<>>
                      /\ \A x \in command.owed :
                            steps'[x[1]][x[2]].status # "absent" /\ Kept(x[1], x[2])'
    BY DEF OwedRight
  <1>2. OwedRight /\ CountRight
    BY DEF BusInv
  <1>3. ASSUME NEW x \in command.owed
        PROVE  steps'[x[1]][x[2]].status # "absent" /\ Kept(x[1], x[2])'
    <2>1. x[1] \in Record /\ x[2] \in Key
      BY DEF BusInv, BusTyped, Commands
    <2>2. steps[x[1]][x[2]].status # "absent" /\ Kept(x[1], x[2])
      BY <1>2 DEF OwedRight
    <2>3. steps'[x[1]][x[2]].status # "absent"
      BY <2>1, <2>2 DEF Progress
    <2>4. CASE steps[x[1]][x[2]].status = "completed"
      BY <2>1, <2>3, <2>4 DEF Progress, Kept
    <2>5. CASE Busy /\ d.rec = x[1] /\ Ahead(d, Fns(Command), x[2])
      <3>1. d.quiet
        BY <1>2, <2>5 DEF CountRight
      <3>2. steps'[x[1]][x[2]].status = "completed" \/ Ahead(c, Fns(Command), x[2])
        BY <2>1, <2>2, <2>5, <3>1
      <3> QED
        BY <1>1, <2>3, <2>5, <3>2 DEF Kept, Busy
    <2> QED
      BY <2>2, <2>4, <2>5 DEF Kept
  <1> QED
    BY <1>2, <1>3 DEF OwedRight

(* The other thread does not touch the command's signal.                   *)
LEMMA OthersStay ==
    ASSUME BusInv, command' = command, listeners' = listeners, Progress,
           dispatch'[Command] = dispatch[Command]
    PROVE  CountRight' /\ OwedRight'
  <1>1. SameSignal(dispatch[Command], dispatch'[Command])
    BY DEF SameSignal
  <1>2. CountRight'
    BY <1>1, CountStays DEF BusInv
  <1>3. OwedRight'
    BY <1>1, OwedStays
  <1> QED
    BY <1>2, <1>3

(* A step of thread t that keeps its loop right and its signal on its way. *)
LEMMA StepKeeps ==
    ASSUME BusInv, NEW t \in Thread, NEW d, Sets(t, d), TypeOK', Progress,
           UNCHANGED <<bus, command>>,
           HandlerRight(d), LoopRight(d, listeners[d.event]),
           SameSignal(dispatch[t], d),
           \A k \in Key :
               /\ dispatch[t].pc # "idle" /\ dispatch[t].quiet
               /\ steps[dispatch[t].rec][k].status # "absent"
               /\ Ahead(dispatch[t], Fns(t), k)
               => steps'[dispatch[t].rec][k].status = "completed" \/ Ahead(d, Fns(t), k)
    PROVE  BusInv'
  <1>1. /\ dispatch'[t] = d
        /\ \A u \in Thread \ {t} : dispatch'[u] = dispatch[u]
    BY SetsOne DEF BusInv
  <1>2. listeners' = listeners /\ command' = command /\ command' \in Commands
    BY DEF bus, BusInv, BusTyped
  <1>3. SignalsKept
    BY <1>2, ThreadKeeps
  <1>4. CountRight' /\ OwedRight'
    <2>1. CASE t = Command
      <3>1. SameSignal(dispatch[Command], dispatch'[Command])
        BY <1>1, <2>1
      <3>2. CountRight'
        BY <1>2, <3>1, CountStays DEF BusInv
      <3>3. OwedRight'
        BY <1>1, <1>2, <2>1, <3>1, OwedStays DEF Busy
      <3> QED
        BY <3>2, <3>3
    <2>2. CASE t # Command
      BY <1>1, <1>2, <2>2, OthersStay DEF Thread
    <2> QED
      BY <2>1, <2>2
  <1> QED
    BY <1>3, <1>4 DEF BusInv, SignalsKept

-----------------------------------------------------------------------------
(* The steps of a signal.                                                  *)
LEMMA PickKeeps ==
    ASSUME BusInv, NEW t \in Thread, Pick(t)
    PROVE  BusInv'
  <1> DEFINE fns == Fns(t)
             h == fns[dispatch[t].at]
             d == [dispatch[t] EXCEPT !.pc = "work", !.fn = {h}, !.todo = Work[h]]
  <1>1. /\ dispatch[t].at \in 1 .. Len(fns) /\ h \in Handler
        /\ dispatch[t].pc = "pick" /\ dispatch[t].left > 0 /\ Sets(t, d)
    BY PickSets DEF BusInv
  <1>2. /\ dispatch[t] \in Signals /\ fns \in Seq(Handler)
        /\ HandlerRight(dispatch[t]) /\ LoopRight(dispatch[t], fns)
    BY FnsTyped DEF BusInv, BusTyped, InOrder
  <1>3. /\ d.pc = "work" /\ d.fn = {h} /\ d.todo = Work[h]
        /\ d.event = dispatch[t].event /\ d.rec = dispatch[t].rec
        /\ d.left = dispatch[t].left /\ d.at = dispatch[t].at
        /\ d.served = dispatch[t].served /\ d.quiet = dispatch[t].quiet
    BY <1>2 DEF Signals
  <1>4. listeners[d.event] = fns
    BY <1>3 DEF Fns
  <1> HIDE DEF d, h
  <1>5. HandlerRight(d)
    BY <1>1, <1>3 DEF HandlerRight
  <1>6. LoopRight(d, fns)
    BY <1>1, <1>2, <1>3 DEF LoopRight, h
  <1>7. SameSignal(dispatch[t], d)
    BY <1>1, <1>3 DEF SameSignal
  <1>8. ASSUME NEW k \in Key, Ahead(dispatch[t], fns, k) PROVE Ahead(d, fns, k)
    <2>1. PICK j \in DOMAIN fns : dispatch[t].at <= j /\ Completing(Work[fns[j]], k)
      BY <1>1, <1>8 DEF Ahead
    <2>2. CASE j = dispatch[t].at
      BY <1>3, <2>1, <2>2 DEF Ahead, h
    <2>3. CASE j # dispatch[t].at
      <3>1. d.at < j /\ d.at <= j
        BY <1>1, <1>3, <2>1, <2>3
      <3> QED
        BY <1>1, <1>3, <2>1, <3>1 DEF Ahead
    <2> QED
      BY <2>2, <2>3
  <1>9. TypeOK' /\ Progress /\ UNCHANGED <<bus, command>>
    BY StepsStay DEF Pick, BusInv
  <1> QED
    BY <1>1, <1>4, <1>5, <1>6, <1>7, <1>8, <1>9, StepKeeps

LEMMA CallKeeps ==
    ASSUME BusInv, NEW t \in Thread, HandlerCalls(t)
    PROVE  BusInv'
  <1> DEFINE fns == Fns(t)
             calls == dispatch[t].todo
             d == [dispatch[t] EXCEPT !.todo = Tail(@)]
  <1>1. dispatch[t].pc = "work" /\ calls # <<>> /\ Sets(t, d)
    BY CallSets DEF BusInv
  <1>2. /\ dispatch[t] \in Signals /\ fns \in Seq(Handler) /\ calls \in Seq(Call)
        /\ HandlerRight(dispatch[t]) /\ LoopRight(dispatch[t], fns)
    BY FnsTyped DEF BusInv, BusTyped, InOrder, Signals
  <1>3. /\ d.pc = "work" /\ d.fn = dispatch[t].fn /\ d.todo = Tail(calls)
        /\ d.event = dispatch[t].event /\ d.rec = dispatch[t].rec
        /\ d.left = dispatch[t].left /\ d.at = dispatch[t].at
        /\ d.served = dispatch[t].served /\ d.quiet = dispatch[t].quiet
    BY <1>1, <1>2 DEF Signals
  <1>4. listeners[d.event] = fns
    BY <1>3 DEF Fns
  <1> HIDE DEF d
  <1>5. HandlerRight(d)
    BY <1>1, <1>2, <1>3 DEF HandlerRight
  <1>6. LoopRight(d, fns)
    BY <1>1, <1>2, <1>3 DEF LoopRight
  <1>7. SameSignal(dispatch[t], d)
    BY <1>1, <1>3 DEF SameSignal
  <1>8. ASSUME NEW k \in Key, Ahead(dispatch[t], fns, k),
               steps[dispatch[t].rec][k].status # "absent"
        PROVE  steps'[dispatch[t].rec][k].status = "completed" \/ Ahead(d, fns, k)
    <2>1. CASE Completing(calls, k)
      <3>1. PICK i \in DOMAIN calls : calls[i].op = "complete" /\ calls[i].key = k
        BY <2>1 DEF Completing
      <3>2. CASE i = 1
        <4>1. Head(calls) = calls[1]
          BY <1>1, <1>2
        <4> QED
          BY <1>8, <3>1, <3>2, <4>1, CallEffect DEF BusInv
      <3>3. CASE i # 1
        <4>1. /\ i \in 1 .. Len(calls) /\ Len(calls) \in Nat
              /\ DOMAIN Tail(calls) = 1 .. Len(calls) - 1
              /\ \A j \in 1 .. Len(calls) - 1 : Tail(calls)[j] = calls[j + 1]
          BY <1>1, <1>2, <3>1, HeadTailProperties, LenProperties
        <4>2. i - 1 \in 1 .. Len(calls) - 1 /\ i - 1 + 1 = i
          BY <3>3, <4>1
        <4>3. Completing(d.todo, k)
          BY <1>3, <3>1, <4>1, <4>2 DEF Completing
        <4> QED
          BY <1>3, <4>3 DEF Ahead
      <3> QED
        BY <3>2, <3>3
    <2>2. CASE ~Completing(calls, k)
      BY <1>1, <1>3, <1>8, <2>2 DEF Ahead
    <2> QED
      BY <2>1, <2>2
  <1>9. TypeOK' /\ Progress /\ UNCHANGED <<bus, command>>
    BY CallEffect DEF HandlerCalls, BusInv
  <1> QED
    BY <1>1, <1>4, <1>5, <1>6, <1>7, <1>8, <1>9, StepKeeps

LEMMA ReturnKeeps ==
    ASSUME BusInv, NEW t \in Thread, HandlerReturns(t)
    PROVE  BusInv'
  <1> DEFINE fns == Fns(t)
             D(h) == [dispatch[t] EXCEPT !.pc = "pick", !.at = @ + 1, !.fn = {},
                                         !.served = Append(@, h)]
  <1>1. PICK h \in Handler :
            /\ dispatch[t].fn = {h} /\ dispatch[t].pc = "work"
            /\ dispatch[t].todo = <<>> /\ Sets(t, D(h))
    BY ReturnSets DEF BusInv, InOrder
  <1> DEFINE d == D(h)
  <1>2. /\ dispatch[t] \in Signals /\ fns \in Seq(Handler) /\ Len(fns) \in Nat
        /\ dispatch[t].served \in Seq(Handler) /\ dispatch[t].at \in Nat \ {0}
        /\ LoopRight(dispatch[t], fns)
    BY FnsTyped DEF BusInv, BusTyped, InOrder, Signals
  <1>3. /\ d.pc = "pick" /\ d.fn = {} /\ d.served = Append(dispatch[t].served, h)
        /\ d.event = dispatch[t].event /\ d.rec = dispatch[t].rec
        /\ d.left = dispatch[t].left /\ d.at = dispatch[t].at + 1
        /\ d.quiet = dispatch[t].quiet
    BY <1>2 DEF Signals
  <1>4. listeners[d.event] = fns
    BY <1>3 DEF Fns
  <1>5. Sets(t, d)
    BY <1>1
  <1> HIDE DEF d
  <1>6. HandlerRight(d)
    BY <1>3 DEF HandlerRight
  <1>7. LoopRight(d, fns)
    <2> SUFFICES ASSUME d.quiet
                 PROVE  d.left = 1 /\ d.left # 0 /\ ServedUpTo(d.served, fns, d.at - 1)
      BY <1>3 DEF LoopRight
    <2>1. /\ dispatch[t].left = 1 /\ dispatch[t].at <= Len(fns)
          /\ h = fns[dispatch[t].at]
          /\ ServedUpTo(dispatch[t].served, fns, dispatch[t].at - 1)
      BY <1>1, <1>2, <1>3 DEF LoopRight
    <2>2. /\ dispatch[t].at - 1 \in Nat /\ dispatch[t].at - 1 < Len(fns)
          /\ dispatch[t].at - 1 + 1 = dispatch[t].at /\ d.at - 1 = dispatch[t].at
      BY <1>2, <1>3, <2>1
    <2>3. ServedUpTo(Append(dispatch[t].served, fns[dispatch[t].at]), fns, dispatch[t].at)
      BY <1>2, <2>1, <2>2, ServedOneMore
    <2> QED
      BY <1>3, <2>1, <2>2, <2>3
  <1>8. SameSignal(dispatch[t], d)
    BY <1>1, <1>3 DEF SameSignal
  <1>9. ASSUME NEW k \in Key, Ahead(dispatch[t], fns, k) PROVE Ahead(d, fns, k)
    <2>1. ~Completing(dispatch[t].todo, k)
      BY <1>1 DEF Completing
    <2>2. PICK j \in DOMAIN fns : dispatch[t].at < j /\ Completing(Work[fns[j]], k)
      BY <1>1, <1>9, <2>1 DEF Ahead
    <2>3. d.at <= j
      BY <1>2, <1>3, <2>2
    <2>4. d.left > 0
      BY <1>1, <1>3, <1>9, <2>1 DEF Ahead
    <2> QED
      BY <1>3, <2>2, <2>3, <2>4 DEF Ahead
  <1>10. TypeOK' /\ Progress /\ UNCHANGED <<bus, command>>
    BY StepsStay DEF HandlerReturns, BusInv
  <1> QED
    BY <1>4, <1>5, <1>6, <1>7, <1>8, <1>9, <1>10, StepKeeps

LEMMA RaiseKeeps ==
    ASSUME BusInv, NEW t \in Thread, HandlerRaises(t)
    PROVE  BusInv'
  <1> DEFINE d == [NoDispatch(dispatch[t].event, dispatch[t].rec) EXCEPT !.pc = "raised"]
  <1>1. dispatch[t].pc = "work" /\ Sets(t, d)
    BY RaiseSets DEF BusInv
  <1>2. /\ d.pc = "raised" /\ d.fn = {} /\ d.quiet
        /\ d.event = dispatch[t].event /\ d.rec = dispatch[t].rec
    BY DEF NoDispatch
  <1> HIDE DEF d
  <1>3. HandlerRight(d) /\ LoopRight(d, listeners[d.event])
    BY <1>2 DEF HandlerRight, LoopRight
  <1>4. SameSignal(dispatch[t], d)
    BY <1>1, <1>2 DEF SameSignal
  <1>5. \A k \in Key : Ahead(d, Fns(t), k)
    BY <1>2 DEF Ahead
  <1>6. TypeOK' /\ Progress /\ UNCHANGED <<bus, command>>
    BY StepsStay DEF HandlerRaises, BusInv
  <1> QED
    BY <1>1, <1>3, <1>4, <1>5, <1>6, StepKeeps

LEMMA NextKeeps ==
    ASSUME BusInv, NEW t \in Thread, NextReceiver(t)
    PROVE  BusInv'
  <1> DEFINE fns == Fns(t)
             d == [dispatch[t] EXCEPT !.left = @ - 1, !.at = 1]
  <1>1. /\ dispatch[t].pc = "pick" /\ dispatch[t].left > 0
        /\ dispatch[t].at > Len(fns) /\ Sets(t, d)
    BY NextSets DEF BusInv
  <1>2. /\ dispatch[t] \in Signals /\ fns \in Seq(Handler) /\ Len(fns) \in Nat
        /\ dispatch[t].at \in Nat /\ dispatch[t].left \in Nat
        /\ HandlerRight(dispatch[t]) /\ LoopRight(dispatch[t], fns)
    BY FnsTyped DEF BusInv, BusTyped, InOrder, Signals
  <1>3. /\ d.pc = "pick" /\ d.fn = dispatch[t].fn /\ d.served = dispatch[t].served
        /\ d.event = dispatch[t].event /\ d.rec = dispatch[t].rec
        /\ d.left = dispatch[t].left - 1 /\ d.quiet = dispatch[t].quiet
    BY <1>1, <1>2 DEF Signals
  <1>4. listeners[d.event] = fns
    BY <1>3 DEF Fns
  <1> HIDE DEF d
  <1>5. HandlerRight(d)
    BY <1>1, <1>2, <1>3 DEF HandlerRight
  <1>6. LoopRight(d, fns)
    <2> SUFFICES ASSUME d.quiet
                 PROVE  d.left = 0 /\ ServedUpTo(d.served, fns, Len(fns))
      BY <1>3 DEF LoopRight
    <2>1. dispatch[t].left = 1 /\ ServedUpTo(dispatch[t].served, fns, dispatch[t].at - 1)
      BY <1>1, <1>2, <1>3 DEF LoopRight
    <2>2. dispatch[t].at - 1 = Len(fns)
      BY <1>1, <1>2, <2>1 DEF ServedUpTo
    <2> QED
      BY <1>3, <2>1, <2>2
  <1>7. SameSignal(dispatch[t], d)
    BY <1>1, <1>3 DEF SameSignal
  <1>8. ASSUME NEW k \in Key PROVE ~Ahead(dispatch[t], fns, k)
    BY <1>1, <1>2 DEF Ahead
  <1>9. TypeOK' /\ Progress /\ UNCHANGED <<bus, command>>
    BY StepsStay DEF NextReceiver, BusInv
  <1> QED
    BY <1>1, <1>4, <1>5, <1>6, <1>7, <1>8, <1>9, StepKeeps

LEMMA SentKeeps ==
    ASSUME BusInv, NEW t \in Thread, Sent(t)
    PROVE  BusInv'
  <1> DEFINE fns == Fns(t)
             d == [dispatch[t] EXCEPT !.pc = "served"]
  <1>1. dispatch[t].pc = "pick" /\ dispatch[t].left = 0 /\ Sets(t, d)
    BY SentSets DEF BusInv
  <1>2. /\ dispatch[t] \in Signals
        /\ HandlerRight(dispatch[t]) /\ LoopRight(dispatch[t], fns)
    BY DEF BusInv, BusTyped, InOrder
  <1>3. /\ d.pc = "served" /\ d.fn = dispatch[t].fn /\ d.served = dispatch[t].served
        /\ d.event = dispatch[t].event /\ d.rec = dispatch[t].rec
        /\ d.quiet = dispatch[t].quiet
    BY <1>2 DEF Signals
  <1>4. listeners[d.event] = fns
    BY <1>3 DEF Fns
  <1> HIDE DEF d
  <1>5. HandlerRight(d)
    BY <1>1, <1>2, <1>3 DEF HandlerRight
  <1>6. LoopRight(d, fns)
    BY <1>1, <1>2, <1>3 DEF LoopRight
  <1>7. SameSignal(dispatch[t], d)
    BY <1>1, <1>3 DEF SameSignal
  <1>8. ASSUME NEW k \in Key PROVE ~Ahead(dispatch[t], fns, k)
    BY <1>1 DEF Ahead
  <1>9. TypeOK' /\ Progress /\ UNCHANGED <<bus, command>>
    BY StepsStay DEF Sent, BusInv
  <1> QED
    BY <1>1, <1>4, <1>5, <1>6, <1>7, <1>8, <1>9, StepKeeps

(* A signal that sets out has served nobody yet.                           *)
Departs(d, e, r) == d = [NoDispatch(e, r) EXCEPT !.pc = "pick", !.left = 1]

LEMMA SetsOut ==
    ASSUME BusTyped, NEW e \in Event, NEW r \in Record, NEW d, Departs(d, e, r)
    PROVE  /\ d.pc = "pick" /\ d.event = e /\ d.rec = r /\ d.quiet
           /\ d.left = 1 /\ d.at = 1
           /\ HandlerRight(d) /\ LoopRight(d, listeners[d.event])
  <1>1. /\ d.pc = "pick" /\ d.event = e /\ d.rec = r /\ d.quiet
        /\ d.left = 1 /\ d.at = 1 /\ d.fn = {} /\ d.served = <<>>
    BY DEF NoDispatch, Departs
  <1>2. HandlerRight(d)
    BY <1>1 DEF HandlerRight
  <1>3. ServedUpTo(<<>>, listeners[e], 0)
    BY ServedNone DEF BusTyped
  <1>4. LoopRight(d, listeners[d.event])
    <2>1. d.at - 1 = 0 /\ d.left # 0
      BY <1>1
    <2> QED
      BY <1>1, <1>3, <2>1 DEF LoopRight
  <1> QED
    BY <1>1, <1>2, <1>4

LEMMA WebSendsKeeps ==
    ASSUME BusInv, NEW e \in Event, NEW r \in Record, WebSends(e, r)
    PROVE  BusInv'
  <1>0. PICK d : Departs(d, e, r)
    BY DEF Departs
  <1>1. Web \in Thread /\ Command \in Thread \ {Web}
    BY ThreadAssumption DEF Thread
  <1>2. Sets(Web, d)
    BY <1>0, <1>1, SendSets DEF WebSends, BusInv, Departs
  <1>3. HandlerRight(d) /\ LoopRight(d, listeners[d.event])
    <2>1. BusTyped
      BY DEF BusInv
    <2> QED
      BY <1>0, <2>1, SetsOut, Zenon
  <1>4. dispatch'[Command] = dispatch[Command]
    BY <1>1, <1>2, SetsOne DEF BusInv
  <1>5. TypeOK' /\ Progress /\ UNCHANGED bus /\ command' = command /\ listeners' = listeners
    BY StepsStay DEF WebSends, BusInv, bus
  <1>6. command' \in Commands
    BY <1>5 DEF BusInv, BusTyped
  <1>7. SignalsKept
    BY <1>1, <1>2, <1>3, <1>5, <1>6, ThreadKeeps
  <1>8. CountRight' /\ OwedRight'
    BY <1>4, <1>5, OthersStay
  <1> QED
    BY <1>7, <1>8 DEF BusInv, SignalsKept

-----------------------------------------------------------------------------
(* The steps of the command.                                               *)
LEMMA TakenFinite ==
    ASSUME BusTyped
    PROVE  IsFiniteSet(Taken) /\ Cardinality(Taken) \in Nat
  <1>1. Taken \subseteq Record
    BY DEF Taken, BusTyped, Commands
  <1> QED
    BY <1>1, RecordAssumption, FS_Subset, FS_CardinalityType

LEMMA CommandSendsKeeps ==
    ASSUME BusInv, NEW r \in Record, CommandSends(r)
    PROVE  BusInv'
  <1> DEFINE e == command.event
  <1>0. PICK d : Departs(d, e, r)
    BY DEF Departs
  <1> DEFINE c == [command EXCEPT !.todo = @ \ {r}, !.owed = @ \union Owed(e, r)]
  <1>1. /\ command \in Commands /\ e \in Event /\ Command \in Thread
        /\ command.pc = "run" /\ ~Busy /\ r \in command.todo /\ command.sent \in Nat
        /\ command.owed \subseteq Record \X Key
    BY DEF BusInv, BusTyped, Commands, CommandSends, Thread, Busy, At
  <1>2. Sets(Command, d)
    BY <1>0, <1>1, SendSets DEF CommandSends, BusInv, Departs
  <1>3. /\ d.pc = "pick" /\ d.event = e /\ d.rec = r /\ d.quiet /\ d.left = 1 /\ d.at = 1
        /\ HandlerRight(d) /\ LoopRight(d, listeners[d.event])
    <2>1. BusTyped
      BY DEF BusInv
    <2> QED
      BY <1>0, <1>1, <2>1, SetsOut
  <1>4. dispatch'[Command] = d
    BY <1>1, <1>2, SetsOne DEF BusInv
  <1>5. /\ TypeOK' /\ Progress /\ UNCHANGED bus /\ listeners' = listeners
        /\ steps' = steps /\ command' = c
    BY StepsStay DEF CommandSends, BusInv, bus, vars
  <1>6. Owed(e, r) \subseteq Record \X Key
    <2>1. Completed(e) \subseteq Key
      BY DEF Completed
    <2> QED
      BY <2>1 DEF Owed
  <1>7. /\ c.pc = "run" /\ c.event = e /\ c.todo = command.todo \ {r}
        /\ c.targets = command.targets /\ c.sent = command.sent
        /\ c.quiet = command.quiet /\ c.owed = command.owed \union Owed(e, r)
        /\ c \in Commands
    BY <1>1, <1>6 DEF Commands
  <1> HIDE DEF c
  <1>8. SignalsKept
    BY <1>1, <1>2, <1>3, <1>5, <1>7, ThreadKeeps
  <1>9. CountRight'
    <2>1. CountRight /\ IsFiniteSet(Taken) /\ Cardinality(Taken) \in Nat
      BY TakenFinite DEF BusInv
    <2>2. Taken' = Taken \union {r} /\ r \notin Taken
      BY <1>1, <1>5, <1>7, <2>1 DEF Taken, CountRight
    <2>3. Cardinality(Taken') = Cardinality(Taken) + 1
      BY <2>1, <2>2, FS_AddElement
    <2>4. Busy' /\ OnTheWay' = 1 /\ OnTheWay = 0
      BY <1>1, <1>3, <1>4 DEF Busy, OnTheWay
    <2>5. command.sent + 0 = Cardinality(Taken)
      BY <1>1, <2>1, <2>4 DEF CountRight
    <2>6. command'.sent + OnTheWay' = Cardinality(Taken') /\ command'.sent <= Cardinality(Taken')
      BY <1>1, <1>5, <1>7, <2>1, <2>3, <2>4, <2>5
    <2>7. command'.todo \subseteq command'.targets /\ command'.pc # "reported"
      BY <1>5, <1>7, <2>1 DEF CountRight
    <2>8. /\ dispatch'[Command].event = command'.event /\ command'.pc = "run"
          /\ dispatch'[Command].rec \in Taken' /\ dispatch'[Command].quiet
      BY <1>3, <1>4, <1>5, <1>7, <2>2
    <2> QED
      BY <2>6, <2>7, <2>8 DEF CountRight
  <1>10. OwedRight'
    <2> SUFFICES ASSUME command.quiet
                 PROVE  /\ listeners[e] # <<>>
                        /\ \A x \in c.owed :
                              steps[x[1]][x[2]].status # "absent" /\ Kept(x[1], x[2])'
      BY <1>5, <1>7 DEF OwedRight
    <2>1. OwedRight
      BY DEF BusInv
    <2>2. ASSUME NEW x \in command.owed
          PROVE  steps[x[1]][x[2]].status # "absent" /\ Kept(x[1], x[2])'
      BY <1>1, <1>5, <2>1 DEF OwedRight, Kept
    <2>3. ASSUME NEW x \in Owed(e, r)
          PROVE  steps[x[1]][x[2]].status # "absent" /\ Kept(x[1], x[2])'
      <3>1. x[1] = r /\ x[2] \in Completed(e) /\ steps[r][x[2]].status # "absent"
        BY DEF Owed
      <3>2. PICK h \in {listeners[e][i] : i \in DOMAIN listeners[e]} :
                x[2] \in {q.key : q \in {Work[h][i] : i \in DOMAIN Work[h]}
                              \intersect [op : {"complete"}, key : Key]}
        BY <3>1 DEF Completed
      <3>3. PICK j \in DOMAIN listeners[e] : h = listeners[e][j]
        BY <3>2
      <3>4. PICK i \in DOMAIN Work[h] : Work[h][i].op = "complete" /\ Work[h][i].key = x[2]
        BY <3>2
      <3>5. Completing(Work[listeners[e][j]], x[2])
        BY <3>3, <3>4 DEF Completing
      <3>6. 1 <= j
        BY <1>1, <3>3 DEF BusInv, BusTyped
      <3>7. Ahead(d, listeners[e], x[2])
        BY <1>3, <3>3, <3>5, <3>6 DEF Ahead
      <3>8. Fns(Command)' = listeners[e] /\ Busy'
        BY <1>3, <1>4, <1>5 DEF Fns, Busy
      <3>9. Kept(r, x[2])'
        BY <1>3, <1>4, <3>7, <3>8 DEF Kept
      <3> QED
        BY <3>1, <3>9
    <2> QED
      BY <1>1, <1>7, <2>1, <2>2, <2>3 DEF OwedRight
  <1> QED
    BY <1>8, <1>9, <1>10 DEF BusInv, SignalsKept

LEMMA CommandGoesOnKeeps ==
    ASSUME BusInv, CommandGoesOn
    PROVE  BusInv'
  <1> DEFINE d == dispatch[Command]
             n == NoDispatch(d.event, d.rec)
  <1>1. /\ command \in Commands /\ d \in Signals /\ Command \in Thread
        /\ d.pc \in {"served", "raised"} /\ Busy /\ command.sent \in Nat
    BY DEF BusInv, BusTyped, Commands, CommandGoesOn, Thread, Busy
  <1>2. /\ n.pc = "idle" /\ n.fn = {} /\ n \in Signals
    BY <1>1, FreshSignal DEF NoDispatch, Signals
  <1>3. Sets(Command, n)
    <2>1. dispatch' = [dispatch EXCEPT ![Command] = n]
      BY <1>1 DEF CommandGoesOn, BusInv, BusTyped
    <2> QED
      BY <1>2, <2>1 DEF Sets
  <1>4. HandlerRight(n) /\ LoopRight(n, listeners[n.event])
    BY <1>2 DEF HandlerRight, LoopRight
  <1>5. /\ CountRight /\ OwedRight /\ command.pc = "run"
        /\ command.sent + 1 = Cardinality(Taken)
    BY <1>1 DEF BusInv, CountRight, OnTheWay
  <1>6. TypeOK' /\ Progress /\ UNCHANGED bus /\ steps' = steps /\ listeners' = listeners
    BY StepsStay DEF CommandGoesOn, BusInv, vars, bus
  <1>7. /\ command' \in Commands /\ command'.event = command.event
        /\ command'.todo = command.todo /\ command'.targets = command.targets
        /\ command'.quiet = command.quiet /\ command'.owed = command.owed
        /\ \/ d.pc = "raised" /\ command'.pc = "error" /\ command'.sent = command.sent
           \/ d.pc = "served" /\ command'.pc = "run" /\ command'.sent = command.sent + 1
    <2>1. CASE d.pc = "raised"
      <3>1. command' = [command EXCEPT !.pc = "error"]
        BY <2>1 DEF CommandGoesOn, Ends
      <3> QED
        BY <1>1, <2>1, <3>1 DEF Commands
    <2>2. CASE d.pc = "served"
      <3>1. command' = [command EXCEPT !.sent = command.sent + 1] /\ command.sent + 1 \in Nat
        BY <1>1, <2>2 DEF CommandGoesOn, Ends
      <3> QED
        BY <1>1, <1>5, <2>2, <3>1 DEF Commands
    <2> QED
      BY <1>1, <2>1, <2>2
  <1> HIDE DEF n
  <1>8. SignalsKept
    BY <1>1, <1>3, <1>4, <1>6, <1>7, ThreadKeeps
  <1>9. ~Busy' /\ OnTheWay' = 0 /\ Taken' = Taken
    BY <1>1, <1>2, <1>3, <1>7, SetsOne DEF BusInv, Busy, OnTheWay, Taken
  <1>10. CountRight'
    <2>1. Cardinality(Taken) \in Nat
      BY TakenFinite DEF BusInv
    <2>2. /\ command'.sent <= Cardinality(Taken)
          /\ command'.pc = "run" => command'.sent + 0 = Cardinality(Taken)
          /\ command'.pc # "reported"
      BY <1>1, <1>5, <1>7, <2>1
    <2>3. command'.todo \subseteq command'.targets
      BY <1>5, <1>7 DEF CountRight
    <2> QED
      BY <1>7, <1>9, <2>2, <2>3 DEF CountRight
  <1>11. OwedRight'
    <2> SUFFICES ASSUME command.quiet, d.pc = "served"
                 PROVE  /\ listeners[command.event] # <<>>
                        /\ \A x \in command.owed :
                              steps[x[1]][x[2]].status # "absent" /\ Kept(x[1], x[2])'
      BY <1>6, <1>7 DEF OwedRight
    <2>1. \A k \in Key : ~Ahead(d, Fns(Command), k)
      BY DEF Ahead
    <2>2. ASSUME NEW x \in command.owed
          PROVE  steps[x[1]][x[2]].status # "absent" /\ Kept(x[1], x[2])'
      <3>1. x[2] \in Key /\ steps[x[1]][x[2]].status # "absent" /\ Kept(x[1], x[2])
        BY <1>1, <1>5 DEF OwedRight, Commands
      <3> QED
        BY <1>6, <2>1, <3>1 DEF Kept
    <2> QED
      BY <1>5, <2>2 DEF OwedRight
  <1> QED
    BY <1>8, <1>10, <1>11 DEF BusInv, SignalsKept

(* Steps of the command alone: what is to show is its own account.         *)
LEMMA CommandAlone ==
    ASSUME BusInv, UNCHANGED <<vars, listeners, receivers, dispatch>>,
           command' \in Commands, vouched' \in SUBSET Event,
           \A e \in vouched' : listeners[e] # <<>>,
           CountRight', OwedRight'
    PROVE  BusInv'
  <1>1. TypeOK'
    BY StepsStay DEF BusInv
  <1>2. BusTyped' /\ ListsRight'
    BY <1>1 DEF BusInv, BusTyped, ListsRight
  <1>3. \A t \in Thread : InOrder(t)'
    BY DEF BusInv, InOrder, Fns
  <1> QED
    BY <1>2, <1>3 DEF BusInv

LEMMA NoTask ==
    ASSUME NEW e \in Event
    PROVE  /\ NoCommand(e) \in Commands
           /\ \A rs \in SUBSET Record :
                 [NoCommand(e) EXCEPT !.pc = "run", !.todo = rs, !.targets = rs] \in Commands
  <1>1. NoCommand(e) \in Commands
    BY DEF NoCommand, Commands
  <1>2. ASSUME NEW rs \in SUBSET Record
        PROVE  [NoCommand(e) EXCEPT !.pc = "run", !.todo = rs, !.targets = rs] \in Commands
    BY <1>1 DEF Commands
  <1> QED
    BY <1>1, <1>2

LEMMA CommandStartsKeeps ==
    ASSUME BusInv, NEW e \in Event, NEW rs \in SUBSET Record, CommandStarts(e, rs)
    PROVE  BusInv'
  <1>1. /\ command.pc = "idle" /\ listeners[e] # <<>>
        /\ command' = [NoCommand(e) EXCEPT !.pc = "run", !.todo = rs, !.targets = rs]
        /\ UNCHANGED <<vars, bus, dispatch>>
    BY DEF CommandStarts, Known
  <1>2. /\ command'.pc = "run" /\ command'.event = e /\ command'.todo = rs
        /\ command'.targets = rs /\ command'.sent = 0 /\ command'.owed = {}
        /\ command' \in Commands
    BY <1>1, NoTask DEF NoCommand
  <1>3. ~Busy' /\ OnTheWay' = 0
    <2>1. ~Busy
      BY <1>1 DEF BusInv, CountRight
    <2> QED
      BY <1>1, <2>1 DEF Busy, OnTheWay
  <1>4. CountRight'
    <2>1. Taken' = {}
      BY <1>2 DEF Taken
    <2>2. Cardinality(Taken') = 0
      BY <2>1, FS_EmptySet
    <2> QED
      BY <1>2, <1>3, <2>2 DEF CountRight
  <1>5. OwedRight'
    BY <1>1, <1>2 DEF OwedRight, bus
  <1>6. vouched' \in SUBSET Event /\ \A x \in vouched' : listeners[x] # <<>>
    BY <1>1 DEF bus, BusInv, BusTyped, ListsRight
  <1> QED
    BY <1>1, <1>2, <1>4, <1>5, <1>6, CommandAlone DEF bus

LEMMA CommandReportsKeeps ==
    ASSUME BusInv, CommandReports
    PROVE  BusInv'
  <1>1. /\ command.pc = "run" /\ command.todo = {} /\ ~Busy
        /\ command' = [command EXCEPT !.pc = "reported"]
        /\ UNCHANGED <<vars, bus, dispatch>>
    BY DEF CommandReports, Busy, At
  <1>2. command \in Commands /\ CountRight /\ OwedRight
    BY DEF BusInv, BusTyped
  <1>3. /\ command'.pc = "reported" /\ command'.event = command.event
        /\ command'.todo = command.todo /\ command'.targets = command.targets
        /\ command'.sent = command.sent /\ command'.quiet = command.quiet
        /\ command'.owed = command.owed /\ command' \in Commands
    BY <1>1, <1>2 DEF Commands
  <1>4. /\ ~Busy' /\ OnTheWay' = OnTheWay /\ Taken' = Taken
    BY <1>1, <1>3 DEF Busy, OnTheWay, Taken
  <1>5. CountRight'
    BY <1>1, <1>2, <1>3, <1>4 DEF CountRight
  <1>6. OwedRight'
    BY <1>1, <1>2, <1>3, <1>4 DEF OwedRight, Kept, bus, vars
  <1>7. vouched' \in SUBSET Event /\ \A x \in vouched' : listeners[x] # <<>>
    BY <1>1 DEF bus, BusInv, BusTyped, ListsRight
  <1> QED
    BY <1>1, <1>3, <1>5, <1>6, <1>7, CommandAlone DEF bus

LEMMA CommandExitsKeeps ==
    ASSUME BusInv, CommandExits
    PROVE  BusInv'
  <1>1. /\ command.pc \in {"reported", "error"}
        /\ command' = NoCommand(command.event)
        /\ UNCHANGED <<vars, bus, dispatch>>
    BY DEF CommandExits
  <1>2. command.event \in Event
    BY DEF BusInv, BusTyped, Commands
  <1>3. /\ command'.pc = "idle" /\ command'.todo = {} /\ command'.targets = {}
        /\ command'.sent = 0 /\ command' \in Commands
    BY <1>1, <1>2, NoTask DEF NoCommand
  <1>4. ~Busy'
    <2>1. ~Busy
      BY <1>1 DEF BusInv, CountRight
    <2> QED
      BY <1>1, <2>1 DEF Busy
  <1>5. CountRight'
    <2>1. Taken' = {}
      BY <1>3 DEF Taken
    <2>2. Cardinality(Taken') = 0
      BY <2>1, FS_EmptySet
    <2> QED
      BY <1>3, <1>4, <2>2 DEF CountRight
  <1>6. OwedRight'
    BY <1>3 DEF OwedRight
  <1>7. vouched' \in SUBSET Event /\ \A x \in vouched' : listeners[x] # <<>>
    BY <1>1 DEF bus, BusInv, BusTyped, ListsRight
  <1> QED
    BY <1>1, <1>3, <1>5, <1>6, <1>7, CommandAlone DEF bus

LEMMA DoctorKeeps ==
    ASSUME BusInv, NEW expected \in SUBSET Event, Doctor(expected)
    PROVE  BusInv'
  <1>1. /\ UNCHANGED <<vars, listeners, receivers, dispatch, command>>
        /\ vouched' = expected /\ \A e \in expected : Len(listeners[e]) > 0
    BY DEF Doctor, DoctorPasses
  <1>2. \A e \in vouched' : listeners[e] # <<>>
    BY <1>1 DEF BusInv, BusTyped
  <1>3. CountRight'
    BY <1>1 DEF BusInv, CountRight, Busy, OnTheWay, Taken
  <1>4. OwedRight'
    BY <1>1 DEF BusInv, OwedRight, Kept, Busy, Fns, vars
  <1>5. command' \in Commands
    BY <1>1 DEF BusInv, BusTyped
  <1> QED
    BY <1>1, <1>2, <1>3, <1>4, <1>5, CommandAlone

-----------------------------------------------------------------------------
(* Changes of the registry: nobody who is under way counts on it then.     *)
LEMMA ChangeKeeps ==
    ASSUME BusInv, NEW fns \in [Event -> Seq(Handler)], \A e \in Event : Once(fns[e]),
           Change(fns, 1)
    PROVE  BusInv'
  <1> DEFINE D(t) == [dispatch[t] EXCEPT !.quiet = FALSE]
             c == [command EXCEPT !.quiet = FALSE]
  <1>1. /\ listeners' = fns /\ receivers' = 1 /\ vouched' = {} /\ UNCHANGED vars
        /\ dispatch' = [t \in Thread |-> D(t)] /\ command' = c
    BY DEF Change
  <1>2. command \in Commands /\ dispatch \in [Thread -> Signals]
    BY DEF BusInv, BusTyped
  <1>3. ASSUME NEW t \in Thread
        PROVE  /\ D(t) \in Signals /\ D(t).pc = dispatch[t].pc /\ D(t).fn = dispatch[t].fn
               /\ D(t).event = dispatch[t].event /\ D(t).rec = dispatch[t].rec
               /\ ~D(t).quiet
    BY <1>2 DEF Signals
  <1>4. /\ c \in Commands /\ c.pc = command.pc /\ c.event = command.event
        /\ c.todo = command.todo /\ c.targets = command.targets
        /\ c.sent = command.sent /\ ~c.quiet
    BY <1>2 DEF Commands
  <1> HIDE DEF D, c
  <1>5. BusTyped' /\ ListsRight'
    <2>1. TypeOK'
      BY <1>1, StepsStay DEF BusInv
    <2>2. dispatch' \in [Thread -> Signals]
      BY <1>1, <1>3
    <2> QED
      BY <1>1, <1>4, <2>1, <2>2 DEF BusTyped, ListsRight
  <1>6. ASSUME NEW t \in Thread PROVE InOrder(t)'
    <2>1. HandlerRight(dispatch[t])
      BY DEF BusInv, InOrder
    <2>2. HandlerRight(D(t)) /\ LoopRight(D(t), Fns(t)')
      BY <1>3, <2>1 DEF HandlerRight, LoopRight
    <2> QED
      BY <1>1, <2>2 DEF InOrder
  <1>7. CountRight'
    <2>1. Command \in Thread
      BY DEF Thread
    <2>2. Busy' = Busy /\ OnTheWay' = OnTheWay /\ Taken' = Taken
      BY <1>1, <1>3, <1>4, <2>1 DEF Busy, OnTheWay, Taken
    <2>3. /\ dispatch'[Command].event = dispatch[Command].event
          /\ dispatch'[Command].rec = dispatch[Command].rec
      BY <1>1, <1>3, <2>1
    <2> QED
      BY <1>1, <1>4, <2>2, <2>3 DEF CountRight, BusInv
  <1>8. OwedRight'
    BY <1>1, <1>4 DEF OwedRight
  <1> QED
    BY <1>5, <1>6, <1>7, <1>8 DEF BusInv

LEMMA ReadyKeeps ==
    ASSUME BusInv, Ready
    PROVE  BusInv'
  BY ChangeKeeps DEF Ready, Connected, BusInv, BusTyped, ListsRight

LEMMA RegisterKeeps ==
    ASSUME BusInv, NEW e \in Event, NEW h \in Handler, Register(e, h)
    PROVE  BusInv'
  <1> DEFINE fns == [listeners EXCEPT ![e] = Added(h, @)]
  <1>1. /\ listeners \in [Event -> Seq(Handler)] /\ \A x \in Event : Once(listeners[x])
        /\ receivers = 1
    BY DEF BusInv, BusTyped, ListsRight
  <1>2. Added(h, listeners[e]) \in Seq(Handler) /\ Once(Added(h, listeners[e]))
    BY <1>1, AddedRight
  <1>3. fns \in [Event -> Seq(Handler)] /\ \A x \in Event : Once(fns[x])
    BY <1>1, <1>2
  <1>4. Change(fns, 1)
    BY <1>1 DEF Register
  <1> QED
    BY <1>3, <1>4, ChangeKeeps

LEMMA UnregisterKeeps ==
    ASSUME BusInv, NEW e \in Event, NEW h \in Handler, Unregister(e, h)
    PROVE  BusInv'
  <1> DEFINE fns == [listeners EXCEPT ![e] = Removed(h, @)]
  <1>1. /\ listeners \in [Event -> Seq(Handler)] /\ \A x \in Event : Once(listeners[x])
        /\ receivers = 1
    BY DEF BusInv, BusTyped, ListsRight
  <1>2. Removed(h, listeners[e]) \in Seq(Handler) /\ Once(Removed(h, listeners[e]))
    BY <1>1, RemovedRight
  <1>3. fns \in [Event -> Seq(Handler)] /\ \A x \in Event : Once(fns[x])
    BY <1>1, <1>2
  <1>4. Change(fns, 1)
    BY <1>1 DEF Unregister
  <1> QED
    BY <1>3, <1>4, ChangeKeeps

-----------------------------------------------------------------------------
LEMMA BusStarts == BusInit => BusInv
  <1> SUFFICES ASSUME BusInit PROVE BusInv
    OBVIOUS
  <1>1. PICK e \in Event, r \in Record :
            dispatch = [t \in Thread |-> NoDispatch(e, r)] /\ command = NoCommand(e)
    BY DEF BusInit
  <1>2. \A x \in Event : listeners[x] \in Seq(Handler) /\ Once(listeners[x])
    BY StartRight DEF BusInit
  <1>3. listeners \in [Event -> Seq(Handler)]
    BY <1>2 DEF BusInit
  <1>4. TypeOK
    BY InitTyped DEF BusInit
  <1>5. BusTyped /\ ListsRight
    BY <1>1, <1>2, <1>3, <1>4, FreshSignal, NoTask DEF BusTyped, ListsRight, BusInit
  <1>6. \A t \in Thread : dispatch[t] = NoDispatch(e, r)
    BY <1>1
  <1>7. NoDispatch(e, r).pc = "idle" /\ NoDispatch(e, r).fn = {}
    BY DEF NoDispatch
  <1>8. \A t \in Thread : InOrder(t)
    BY <1>6, <1>7 DEF InOrder, HandlerRight, LoopRight
  <1>9. ~Busy
    BY <1>6, <1>7 DEF Busy, Thread
  <1>10. CountRight
    <2>1. Taken = {} /\ Cardinality(Taken) = 0
      BY <1>1, FS_EmptySet DEF Taken, NoCommand
    <2> QED
      BY <1>1, <1>9, <2>1 DEF CountRight, NoCommand
  <1>11. OwedRight
    BY <1>1 DEF OwedRight, NoCommand
  <1> QED
    BY <1>5, <1>8, <1>10, <1>11 DEF BusInv

LEMMA BusStep == BusInv /\ [BusNext]_busVars => BusInv'
  <1> SUFFICES ASSUME BusInv, [BusNext]_busVars PROVE BusInv'
    OBVIOUS
  <1>1. CASE Ready
    BY <1>1, ReadyKeeps
  <1>2. ASSUME NEW e \in Event, NEW h \in Handler, Register(e, h) PROVE BusInv'
    BY <1>2, RegisterKeeps
  <1>3. ASSUME NEW e \in Event, NEW h \in Movable, Unregister(e, h) PROVE BusInv'
    BY <1>3, UnregisterKeeps, WorkAssumption
  <1>4. ASSUME NEW t \in Thread,
               \/ Pick(t) \/ HandlerCalls(t) \/ HandlerReturns(t)
               \/ HandlerRaises(t) \/ NextReceiver(t) \/ Sent(t)
        PROVE  BusInv'
    BY <1>4, PickKeeps, CallKeeps, ReturnKeeps, RaiseKeeps, NextKeeps, SentKeeps
  <1>5. ASSUME NEW e \in Event, NEW r \in Record, WebSends(e, r) PROVE BusInv'
    BY <1>5, WebSendsKeeps
  <1>6. ASSUME NEW e \in Event, NEW rs \in SUBSET Record, CommandStarts(e, rs)
        PROVE  BusInv'
    BY <1>6, CommandStartsKeeps
  <1>7. ASSUME NEW r \in Record, CommandSends(r) PROVE BusInv'
    BY <1>7, CommandSendsKeeps
  <1>8. CASE CommandGoesOn \/ CommandReports \/ CommandExits
    BY <1>8, CommandGoesOnKeeps, CommandReportsKeeps, CommandExitsKeeps
  <1>9. ASSUME NEW expected \in {{e} : e \in Event}, Doctor(expected) PROVE BusInv'
    BY <1>9, DoctorKeeps
  <1>10. ASSUME UNCHANGED busVars PROVE BusInv'
    <2>1. UNCHANGED <<vars, listeners, receivers, dispatch, command, vouched>>
      BY <1>10 DEF busVars, vars
    <2>2. CountRight'
      BY <2>1 DEF BusInv, CountRight, Busy, OnTheWay, Taken
    <2>3. OwedRight'
      BY <2>1 DEF BusInv, OwedRight, Kept, Busy, Fns, vars
    <2>4. command' \in Commands /\ vouched' \in SUBSET Event
          /\ \A e \in vouched' : listeners[e] # <<>>
      BY <2>1 DEF BusInv, BusTyped, ListsRight
    <2> QED
      BY <2>1, <2>2, <2>3, <2>4, CommandAlone
  <1> QED
    BY <1>1, <1>2, <1>3, <1>4, <1>5, <1>6, <1>7, <1>8, <1>9, <1>10 DEF BusNext

(* BusInv holds of every reachable state, for all lists of handlers with   *)
(* all they may call, any set of events and any number of students.        *)
THEOREM BusInvariant == BusSpec => []BusInv
  BY BusStarts, BusStep, PTL DEF BusSpec

-----------------------------------------------------------------------------
(* Theorems on the bus.                                                    *)

(* The registry holds lists of handlers, the bridge is connected once, a   *)
(* thread has a handler exactly while it works, and the command never      *)
(* counts more students than it has taken.                                 *)
THEOREM BusTypeCorrect == BusSpec => []BusTypeOK
  <1>1. BusInv => BusTypeOK
    <2> SUFFICES ASSUME BusInv PROVE BusTypeOK
      OBVIOUS
    <2>1. ASSUME NEW t \in Thread
          PROVE  Cardinality(dispatch[t].fn) = (IF At(t, "work") THEN 1 ELSE 0)
      <3>1. HandlerRight(dispatch[t])
        BY DEF BusInv, InOrder
      <3> QED
        BY <3>1, FS_Singleton, FS_EmptySet DEF HandlerRight, At
    <2> QED
      BY <2>1 DEF BusInv, BusTyped, CountRight, Taken, BusTypeOK
  <1> QED
    BY <1>1, BusInvariant, PTL

(* Unless the registry changes under it, a signal that comes back has      *)
(* called every listed handler once and in the order of registration, and  *)
(* somebody at all if the doctor has vouched for the event: whatever other *)
(* threads send meanwhile.                                                 *)
THEOREM QuietDispatchCorrect == BusSpec => []QuietDispatchServesAll
  <1>1. BusInv => QuietDispatchServesAll
    <2> SUFFICES ASSUME BusInv, NEW t \in Thread,
                        At(t, "served"), dispatch[t].quiet
                 PROVE  LET d == dispatch[t] IN
                        /\ d.served = listeners[d.event]
                        /\ Once(d.served)
                        /\ d.event \in vouched => d.served # <<>>
      BY DEF QuietDispatchServesAll
    <2>1. /\ LoopRight(dispatch[t], Fns(t)) /\ dispatch[t].pc = "served"
          /\ dispatch[t].served \in Seq(Handler) /\ dispatch[t].event \in Event
      BY DEF BusInv, InOrder, At, BusTyped, Signals
    <2>2. ServedUpTo(dispatch[t].served, Fns(t), Len(Fns(t)))
      BY <2>1 DEF LoopRight
    <2>3. dispatch[t].served = Fns(t)
      BY <2>1, <2>2, ServedAll, FnsTyped DEF BusInv
    <2> QED
      BY <2>1, <2>3 DEF Fns, BusInv, ListsRight
  <1> QED
    BY <1>1, BusInvariant, PTL

(* When onboarding_dispatch reports, and nobody has changed the registry,  *)
(* it has sent the event to every student it was given, and each step that *)
(* a handler completes and the student had is done.                        *)
THEOREM ReportedIsServed == BusSpec => []SentMeansServed
  <1>1. BusInv => SentMeansServed
    <2> SUFFICES ASSUME BusInv, command.pc = "reported", command.quiet
                 PROVE  /\ command.sent = Cardinality(command.targets)
                        /\ listeners[command.event] # <<>>
                        /\ \A x \in command.owed : steps[x[1]][x[2]].status = "completed"
      BY DEF SentMeansServed
    <2>1. ~Busy /\ Taken = command.targets /\ CountRight /\ OwedRight
      BY DEF BusInv, CountRight, Taken
    <2>2. command.sent + 0 = Cardinality(command.targets) /\ command.sent \in Nat
      BY <2>1 DEF CountRight, OnTheWay, BusInv, BusTyped, Commands
    <2> QED
      BY <2>1, <2>2, TakenFinite DEF OwedRight, Kept, BusInv
  <1> QED
    BY <1>1, BusInvariant, PTL
=============================================================================
