-------------------------------- MODULE EventBus --------------------------------
(***************************************************************************)
(* The event bus: the onboarding_event signal, the bridge that apps.py     *)
(* connects to it and the registry of handlers.py behind the bridge, with  *)
(* the handlers of the host calling the helpers of api.py, each a          *)
(* transaction of its own (Checklist).  The registry is plain memory of    *)
(* one process, shared by its threads; one of them runs the command        *)
(* onboarding_dispatch, which sends one event for many students.           *)
(***************************************************************************)
EXTENDS Checklist, Sequences

CONSTANTS
    Event, Handler,
    Host,           \* the handlers the host's ready() registers, by event
    Work,           \* the helper calls of each handler, in order
    MayRaise,       \* the handlers that may raise
    Movable,        \* the handlers registered and unregistered after startup
    Web,            \* the thread of a request that sends events
    Command,        \* the thread of the command
    MaxChanges      \* bound on the changes of the registry after startup

Call == [op : {"add", "complete"}, key : Key]
Listed(h, fns) == \E i \in DOMAIN fns : fns[i] = h
Once(fns) == \A i, j \in DOMAIN fns : fns[i] = fns[j] => i = j
ASSUME HostAssumption ==
    /\ Host \in [Event -> Seq(Handler)]
    /\ \A e \in Event : Once(Host[e])
ASSUME WorkAssumption ==
    /\ Work \in [Handler -> Seq(Call)]
    /\ MayRaise \subseteq Handler /\ Movable \subseteq Handler
ASSUME ThreadAssumption == Web # Command
ASSUME RecordAssumption == IsFiniteSet(Record)

Thread == {Web, Command}

VARIABLES
    listeners,  \* handlers._handlers
    receivers,  \* how often the bridge is connected to the signal
    dispatch,   \* the signal each thread is sending
    command,    \* the locals of onboarding_dispatch
    vouched,    \* history: the events the doctor found served, nothing changed since
    changes     \* the number of changes of the registry

bus == <<listeners, receivers, vouched, changes>>
busVars == <<onboarding, steps, now, listeners, receivers, dispatch, command,
             vouched, changes>>

(* left is the number of receivers still to call, at the position in the   *)
(* live list, fn the handler called and todo the rest of its work.         *)
(* History: the handlers that returned, and whether the registry has       *)
(* stayed as it was since the signal was sent.                             *)
NoDispatch(e, r) ==
    [pc |-> "idle", event |-> e, rec |-> r, left |-> 0, at |-> 1, fn |-> {},
     todo |-> <<>>, served |-> <<>>, quiet |-> TRUE]
NoCommand(e) ==
    [pc |-> "idle", event |-> e, todo |-> {}, targets |-> {}, sent |-> 0,
     quiet |-> TRUE, owed |-> {}]

-----------------------------------------------------------------------------
(* handlers.register and unregister, whose list.remove takes out the first.*)
AlwaysAppended(h, fns) == Append(fns, h)        \* mutant: `not in` is missing
Added(h, fns) == IF Listed(h, fns) THEN fns ELSE Append(fns, h)
First(h, fns) ==
    CHOOSE i \in DOMAIN fns : fns[i] = h /\ \A j \in DOMAIN fns : fns[j] = h => i <= j
Removed(h, fns) ==
    IF ~Listed(h, fns) THEN fns
    ELSE SubSeq(fns, 1, First(h, fns) - 1) \o SubSeq(fns, First(h, fns) + 1, Len(fns))

(* Startup has registered the handlers of the host and, after or before    *)
(* them, perhaps one of another app.                                       *)
AtStartup(e) ==
    {Host[e]} \union {Added(h, Host[e]) : h \in Movable}
              \union {<<h>> \o Removed(h, Host[e]) : h \in Movable}

BusInit ==
    /\ Init
    /\ listeners \in [Event -> UNION {AtStartup(e) : e \in Event}]
    /\ \A e \in Event : listeners[e] \in AtStartup(e)
    /\ receivers = 1
    /\ \E e \in Event, r \in Record :
          /\ dispatch = [t \in Thread |-> NoDispatch(e, r)]
          /\ command = NoCommand(e)
    /\ vouched = {}
    /\ changes = 0

(* Everybody under way hears that the registry has changed.                *)
Change(fns, n) ==
    /\ changes < MaxChanges
    /\ changes' = changes + 1
    /\ listeners' = fns
    /\ receivers' = n
    /\ vouched' = {}
    /\ dispatch' = [t \in Thread |-> [dispatch[t] EXCEPT !.quiet = FALSE]]
    /\ command' = [command EXCEPT !.quiet = FALSE]
    /\ UNCHANGED vars

(* AppConfig.ready of this app may run again, in tests and where both app  *)
(* configs are installed: the receiver has a dispatch_uid.                 *)
OneMore(n) == n + 1                             \* mutant: no dispatch_uid
Connected(n) == 1
Ready == Change(listeners, Connected(receivers))

(* ready() of the host, run again, registers its handlers one by one; an   *)
(* app may register one of its own late.                                   *)
Register(e, h) ==
    /\ h \in Movable \/ Listed(h, Host[e])
    /\ Change([listeners EXCEPT ![e] = Added(h, @)], receivers)
Unregister(e, h) ==
    Change([listeners EXCEPT ![e] = Removed(h, @)], receivers)

-----------------------------------------------------------------------------
(* onboarding_event.send: every receiver of the signal in turn.  Nothing   *)
(* is caught, so what a handler raises reaches the sender.                 *)
At(t, pc) == dispatch[t].pc = pc
Sends(t, e, r) ==
    dispatch' = [dispatch EXCEPT ![t] =
        [NoDispatch(e, r) EXCEPT !.pc = "pick", !.left = receivers]]

(* The loop of handlers.dispatch goes by position over the list itself, so *)
(* what unregister takes out before the position shifts the rest.          *)
Fns(t) == listeners[dispatch[t].event]
AtEnd(t) == dispatch[t].at > Len(Fns(t))

Pick(t) ==
    LET fn == Fns(t)[dispatch[t].at] IN
    /\ At(t, "pick")
    /\ dispatch[t].left > 0 /\ ~AtEnd(t)
    /\ dispatch' = [dispatch EXCEPT ![t].pc = "work", ![t].fn = {fn},
                                    ![t].todo = Work[fn]]
    /\ UNCHANGED <<vars, bus, command>>

(* One helper call of the handler: a step that is there is not added, one  *)
(* that is missing not completed.                                          *)
HandlerCalls(t) ==
    LET call == Head(dispatch[t].todo)
        r == dispatch[t].rec
        missing == steps[r][call.key].status = "absent" IN
    /\ At(t, "work")
    /\ dispatch[t].todo # <<>>
    /\ \/ call.op = "add" /\ AddStep(r, call.key, "pending")
       \/ call.op = "complete" /\ CompleteStep(r, call.key)
       \/ (call.op = "add") # missing /\ UNCHANGED vars
    /\ dispatch' = [dispatch EXCEPT ![t].todo = Tail(@)]
    /\ UNCHANGED <<bus, command>>

HandlerReturns(t) ==
    /\ At(t, "work")
    /\ dispatch[t].todo = <<>>
    /\ \E fn \in dispatch[t].fn :
          dispatch' = [dispatch EXCEPT ![t].pc = "pick", ![t].at = @ + 1,
                           ![t].fn = {}, ![t].served = Append(@, fn)]
    /\ UNCHANGED <<vars, bus, command>>

HandlerRaises(t) ==
    /\ At(t, "work")
    /\ dispatch[t].fn \subseteq MayRaise
    /\ dispatch' = [dispatch EXCEPT ![t] =
           [NoDispatch(@.event, @.rec) EXCEPT !.pc = "raised"]]
    /\ UNCHANGED <<vars, bus, command>>

NextReceiver(t) ==
    /\ At(t, "pick")
    /\ dispatch[t].left > 0 /\ AtEnd(t)
    /\ dispatch' = [dispatch EXCEPT ![t].left = @ - 1, ![t].at = 1]
    /\ UNCHANGED <<vars, bus, command>>

Sent(t) ==
    /\ At(t, "pick")
    /\ dispatch[t].left = 0
    /\ dispatch' = [dispatch EXCEPT ![t].pc = "served"]
    /\ UNCHANGED <<vars, bus, command>>

WebSends(e, r) ==
    /\ dispatch[Web].pc \in {"idle", "served", "raised"}
    /\ Sends(Web, e, r)
    /\ UNCHANGED <<vars, bus, command>>

-----------------------------------------------------------------------------
(* onboarding_dispatch: an event without a handler is refused, then the    *)
(* students are sent it one by one; what a handler raises ends it.  A dry  *)
(* run, which only counts, is left out.                                    *)
Known == {e \in Event : listeners[e] # <<>>}   \* handlers.registered_events()
CommandStarts(e, rs) ==
    /\ command.pc = "idle"
    /\ e \in Known
    /\ rs # {}
    /\ command' = [NoCommand(e) EXCEPT !.pc = "run", !.todo = rs, !.targets = rs]
    /\ UNCHANGED <<vars, bus, dispatch>>

(* The steps that the listed handlers complete and the record has.         *)
Completed(e) ==
    UNION {{c.key : c \in {Work[h][i] : i \in DOMAIN Work[h]}
               \intersect [op : {"complete"}, key : Key]} :
           h \in {listeners[e][i] : i \in DOMAIN listeners[e]}}
Owed(e, r) == {r} \X {k \in Completed(e) : steps[r][k].status # "absent"}

CommandSends(r) ==
    /\ command.pc = "run"
    /\ At(Command, "idle")
    /\ r \in command.todo
    /\ Sends(Command, command.event, r)
    /\ command' = [command EXCEPT !.todo = @ \ {r},
                                  !.owed = @ \union Owed(command.event, r)]
    /\ UNCHANGED <<vars, bus>>

Robust(pc) == FALSE                             \* mutant: send_robust
Ends(pc) == pc = "raised"

CommandGoesOn ==
    /\ dispatch[Command].pc \in {"served", "raised"}
    /\ command' = IF Ends(dispatch[Command].pc) THEN [command EXCEPT !.pc = "error"]
                  ELSE [command EXCEPT !.sent = @ + 1]
    /\ dispatch' = [dispatch EXCEPT ![Command] = NoDispatch(@.event, @.rec)]
    /\ UNCHANGED <<vars, bus>>

CommandReports ==
    /\ command.pc = "run"
    /\ command.todo = {} /\ At(Command, "idle")
    /\ command' = [command EXCEPT !.pc = "reported"]
    /\ UNCHANGED <<vars, bus, dispatch>>

CommandExits ==
    /\ command.pc \in {"reported", "error"}
    /\ command' = NoCommand(command.event)
    /\ UNCHANGED <<vars, bus, dispatch>>

(* onboarding_doctor --expect-event: a receiver is connected, handlers are *)
(* registered, and the expected events have some.  It passes or exits 1.   *)
DoctorPasses(expected) ==
    /\ receivers > 0
    /\ Known # {}
    /\ \A e \in expected : Len(listeners[e]) > 0

Doctor(expected) ==
    /\ DoctorPasses(expected)
    /\ vouched' = expected
    /\ UNCHANGED <<vars, listeners, receivers, dispatch, command, changes>>

BusNext ==
    \/ Ready
    \/ \E e \in Event, h \in Handler : Register(e, h)
    \/ \E e \in Event, h \in Movable : Unregister(e, h)
    \/ \E t \in Thread :
          \/ Pick(t)
          \/ HandlerCalls(t)
          \/ HandlerReturns(t)
          \/ HandlerRaises(t)
          \/ NextReceiver(t)
          \/ Sent(t)
    \/ \E e \in Event, r \in Record : WebSends(e, r)
    \/ \E e \in Event, rs \in SUBSET Record : CommandStarts(e, rs)
    \/ \E r \in Record : CommandSends(r)
    \/ CommandGoesOn
    \/ CommandReports
    \/ CommandExits
    \/ \E expected \in {{e} : e \in Event} : Doctor(expected)

BusSpec == BusInit /\ [][BusNext]_busVars

-----------------------------------------------------------------------------
(* A thread has a handler exactly while it works, and a command counts     *)
(* only students it was given.                                             *)
BusTypeOK ==
    /\ TypeOK
    /\ listeners \in [Event -> Seq(Handler)]
    /\ receivers \in {0, 1}
    /\ \A t \in Thread :
          Cardinality(dispatch[t].fn) = (IF At(t, "work") THEN 1 ELSE 0)
    /\ command.todo \subseteq command.targets
    /\ command.sent <= Cardinality(command.targets \ command.todo)
    /\ vouched \subseteq Event

(* "Invoke every handler registered for event", "they run in registration  *)
(* order" (handlers.py): unless the registry changes under it, a signal    *)
(* that comes back has called each listed handler once and in order, and   *)
(* an event the doctor has vouched for is served by somebody.              *)
QuietDispatchServesAll ==
    \A t \in Thread :
        LET d == dispatch[t] IN
        At(t, "served") /\ d.quiet =>
            /\ d.served = listeners[d.event]
            /\ Once(d.served)
            /\ d.event \in vouched => d.served # <<>>

(* "Dispatched E to N student(s)" (onboarding_dispatch): unless the        *)
(* registry changed meanwhile, N is the number of students asked for, the  *)
(* event has a handler, and each step that a handler of it completes is    *)
(* done on each of these students who had it when the event was sent -     *)
(* whatever other events seed or complete at the same time.                *)
SentMeansServed ==
    command.pc = "reported" /\ command.quiet =>
        /\ command.sent = Cardinality(command.targets)
        /\ listeners[command.event] # <<>>
        /\ \A x \in command.owed : steps[x[1]][x[2]].status = "completed"
=================================================================================
