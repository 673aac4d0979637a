------------------------------- MODULE Portal -------------------------------
(***************************************************************************)
(* The portal component (src/portal.c): every dialog is one request to     *)
(* org.freedesktop.portal.Desktop over the single DBusConnection the       *)
(* process keeps in the static variable dbusConnection.  A call            *)
(*                                                                         *)
(*   1. runs dbus_init, zeroes a filterContext in its own stack frame and  *)
(*      registers a filter whose user_data is the address of that context; *)
(*   2. sends the request and blocks for the method reply;                 *)
(*   3. pumps the connection until a Response signal has been stored in    *)
(*      the context by its filter, unregisters the filter and returns.     *)
(*                                                                         *)
(* The filters look at the interface and the member of a signal only,      *)
(* never at the request it belongs to, and a call that fails in step 2     *)
(* returns without unregistering its filter.  Which answer reaches which   *)
(* call is therefore a property of whole histories, and that is what this  *)
(* module is about.                                                        *)
(*                                                                         *)
(* External parts, modelled by what portal.c relies on: libdbus (an        *)
(* incoming queue, an ordered filter list, one dispatcher at a time, which *)
(* walks a copy of that list with the connection unlocked) and the desktop *)
(* portal with its user (a request is accepted or refused, and an accepted *)
(* one is answered once).  libdbus ends the process when the Disconnected  *)
(* signal of a bus connection is dispatched unless told not to; portal.c   *)
(* handles the other outcome, so the model keeps running, and the process  *)
(* ending there is a behaviour that stops.                                 *)
(***************************************************************************)
EXTENDS Naturals, Sequences, FiniteSets, SequencesExt, Selection

CONSTANTS
  Threads,     \* threads of the process that call the library
  MaxCalls,    \* how many calls they make
  Frames,      \* places of a thread's stack where a filterContext can lie
  Ops,         \* the entry points the caller uses
  Faults,      \* what may go wrong: "refuse", "timeout", "disconnect"
  Selections,  \* the lists of URIs the user can select
  PathOf,      \* path_URI_to_Unix: the path of a URI, or NULL
  NULL         \* no call, no frame, no path

(* Calls are numbered in the order they begin.                             *)
Calls == 1 .. MaxCalls

AllOps ==
  {"open_file", "save_file", "choose_directory", "open_files", "open_native"}

ASSUME CallsAssumption  == MaxCalls \in Nat
ASSUME OpsAssumption    == Ops \subseteq AllOps
ASSUME FaultsAssumption == Faults \subseteq {"refuse", "timeout", "disconnect"}
ASSUME SelectionsAssumption == Selections \subseteq Seq(DOMAIN PathOf)
ASSUME NullAssumption   == NULL \notin Calls /\ NULL \notin Frames /\ NULL \notin AllOps

VARIABLES
  dbusConnection,  \* the static connection has been opened
  link,            \* "up", "down" (closed), "gone" (and Disconnected dispatched)
  filters,         \* the connection's filters, in registration order
  inbox,           \* signals delivered and not handled yet, the oldest first
  walk,            \* the dispatcher's copy of the filters it has not called yet
  callback,        \* the filter that has taken a Response, NULL if none has
  pc,              \* where each thread is
  cur,             \* the call each thread is in
  frame,           \* the stack frame that holds its filterContext
  filterContext,   \* the contents of each stack location
  op,              \* the entry point of each call
  request,         \* the portal's view of each call's request
  answer,          \* history: the user's answer to each request
  outcome,         \* what each call returned
  dropped,         \* history: requests whose Response no filter took
  strayWrite       \* history: a filter wrote to what is not its live context

connVars   == <<dbusConnection, link, filters, inbox, walk, callback>>
threadVars == <<pc, cur, frame, filterContext>>
callVars   == <<op, request, answer, outcome>>
history    == <<dropped, strayWrite>>
vars       == <<connVars, threadVars, callVars, history>>

-----------------------------------------------------------------------------
(* What the entry points ask of the portal, and the filter that waits.     *)

portal_open_file_dialog  == [func |-> "filter_func",       multiple |-> FALSE]
portal_save_file_dialog  == [func |-> "filter_func",       multiple |-> FALSE]
portal_choose_directory  == [func |-> "filter_func",       multiple |-> FALSE]
portal_open_files_dialog == [func |-> "filter_func_multi", multiple |-> TRUE]
portal_open_native_for   == [func |-> "none",              multiple |-> FALSE]

EntryPoint ==
  [open_file        |-> portal_open_file_dialog,
   save_file        |-> portal_save_file_dialog,
   choose_directory |-> portal_choose_directory,
   open_files       |-> portal_open_files_dialog,
   open_native      |-> portal_open_native_for]

Dialogs == AllOps \ {"open_native"}

(* The answers a user can give.  A cancelled request selects nothing; only *)
(* a request made with "multiple" set may select several files, and an     *)
(* OpenURI request selects none.                                           *)
Answers == {a \in [code : {0, 1}, uris : Selections] :
              a.code # 0 => a.uris = <<>>}

AnswersTo(o) ==
  {a \in Answers : /\ ~EntryPoint[o].multiple => Len(a.uris) <= 1
                   /\ o = "open_native" => a.uris = <<>>}

(* What a filter extracts from a Response: filter_func stops at the first  *)
(* URI that converts, filter_func_multi collects them all.                 *)
FirstPath(uris) ==
  LET k == SelectInSeq(uris, LAMBDA u : PathOf[u] # NULL)
  IN  IF k = 0 THEN <<>> ELSE <<PathOf[uris[k]]>>

AllPathsStopping(uris) == FirstPath(uris)   \* mutant: breaks at the first path

AllPaths(uris) ==
  ElementsAt([k \in DOMAIN uris |-> PathOf[uris[k]]], {k \in DOMAIN uris : PathOf[uris[k]] # NULL})

Picked(func, a) ==
  IF      a.code # 0           THEN <<>>
  ELSE IF func = "filter_func" THEN FirstPath(a.uris)
  ELSE                              AllPaths(a.uris)

PublishesFlagFirst(func) == <<"completed", "value">>   \* mutant: flag, then path
PublishesNoFlag(func)    == <<"value">>                \* mutant: flag forgotten

(* The order in which a filter publishes its result to the context.        *)
Publishes(func) ==
  IF func = "filter_func" THEN <<"value", "completed">>
                          ELSE <<"completed", "value">>

-----------------------------------------------------------------------------
Slots        == Threads \X Frames
Nothing      == [from |-> NULL, files |-> <<>>]
EmptyContext == [completed |-> FALSE, value |-> Nothing]
NotReturned  == [status |-> "none", value |-> Nothing]

Signal(name)   == [type |-> name, req |-> NULL, answer |-> NULL]
Response(c, a) == [type |-> "Response", req |-> c, answer |-> a]

Func(c)      == EntryPoint[op[c]].func
SlotOf(t)    == <<t, frame[t]>>
FilterOf(t)  == [func |-> Func(cur[t]), slot |-> SlotOf(t), call |-> cur[t]]

(* A context is alive while the call that owns its frame has not returned. *)
Alive(s) == frame[s[1]] = s[2]

(* The context a filter points to, read through its user_data.             *)
Completed(f) == filterContext[f.slot].completed

(* A filter lets a Response through if it finds its context completed.     *)
(* What it reads in a frame that is dead may make it do so too.            *)
Passes(f) == Alive(f.slot) => Completed(f)

TakesAlways(f) == TRUE   \* mutant: completed is not tested

Takes(f)  == Alive(f.slot) => ~Completed(f)

(* The memory f points to is a context of the layout f expects.            *)
Fits(f) == Alive(f.slot) /\ Func(cur[f.slot[1]]) = f.func

(* dbus_connection_remove_filter clears the function of the filter, which  *)
(* the dispatcher tests before it calls a filter of its copy.              *)
Removed(f) == f \notin Range(filters)

(* Calls that returned and left their filter on the connection.            *)
Abandoned == {c \in Calls : /\ outcome[c].status = "error"
                            /\ request[c] # "none"}

(* Thread t is free to make call c, the next one.                          *)
Calling(t, c) ==
  /\ pc[t] = "idle"
  /\ op[c] = NULL
  /\ \A d \in 1 .. (c - 1) : op[d] # NULL

(* A thread that dispatches a Response calls the filters one by one.       *)
Dispatcher(t) == pc[t] \in {"walk", "filter", "callback"}

(* libdbus runs the filters of one signal at a time.                       *)
DispatcherFree == \A t \in Threads : ~Dispatcher(t)

(* The signal being dispatched has left libdbus's queue.  It stays at the  *)
(* head of inbox until a filter has taken it or it is dropped.             *)
InHand == \E t \in Threads : pc[t] \in {"walk", "filter"}
Queue  == IF InHand THEN Tail(inbox) ELSE inbox

Running(c)  == \E t \in Threads : cur[t] = c
InDialog(t) == frame[t] # NULL

Init ==
  /\ dbusConnection = FALSE
  /\ link           = "up"
  /\ filters        = <<>>
  /\ inbox          = <<>>
  /\ walk           = <<>>
  /\ callback       = NULL
  /\ pc             = [t \in Threads |-> "idle"]
  /\ cur            = [t \in Threads |-> NULL]
  /\ frame          = [t \in Threads |-> NULL]
  /\ filterContext  = [s \in Slots |-> EmptyContext]
  /\ op             = [c \in Calls |-> NULL]
  /\ request        = [c \in Calls |-> "none"]
  /\ answer         = [c \in Calls |-> NULL]
  /\ outcome        = [c \in Calls |-> NotReturned]
  /\ dropped        = {}
  /\ strayWrite     = FALSE

KeepContext(s) == UNCHANGED filterContext   \* mutant: = {0} forgotten
UndefinedContext(s) ==   \* mutant: = {0} forgotten, completed is undefined
  filterContext' = [filterContext EXCEPT ![s] = [EmptyContext EXCEPT !.completed = NULL]]

(* struct FilterFuncContext filterContext = {0};                           *)
ZeroContext(s) == filterContext' = [filterContext EXCEPT ![s] = EmptyContext]

Goto(t, l) == pc' = [pc EXCEPT ![t] = l]

(* The call of thread t returns; its stack frame dies with it.             *)
Return(t, status, value) ==
  /\ Goto(t, "idle")
  /\ cur'     = [cur EXCEPT ![t] = NULL]
  /\ frame'   = [frame EXCEPT ![t] = NULL]
  /\ outcome' = [outcome EXCEPT ![cur[t]] = [status |-> status, value |-> value]]

-----------------------------------------------------------------------------
(* Calls up to the request.                                                *)

(* dbus_init succeeds: the connection is open already, or dbus_bus_get     *)
(* opens it and the bus greets it with a NameAcquired signal.              *)
dbus_init ==
  /\ dbusConnection' = TRUE
  /\ inbox' = IF dbusConnection THEN inbox ELSE Append(inbox, Signal("NameAcquired"))

(* A dialog begins: dbus_init, the zeroed context, the filter, the request *)
(* message.                                                                *)
BeginDialog(t, c, o, f) ==
  /\ Calling(t, c)
  /\ o # "open_native"
  /\ dbus_init
  /\ filters' = Append(filters, [func |-> EntryPoint[o].func, slot |-> <<t, f>>, call |-> c])
  /\ ZeroContext(<<t, f>>)
  /\ Goto(t, "send")
  /\ cur'     = [cur EXCEPT ![t] = c]
  /\ frame'   = [frame EXCEPT ![t] = f]
  /\ op'      = [op EXCEPT ![c] = o]
  /\ request' = [request EXCEPT ![c] = "made"]
  /\ UNCHANGED <<link, walk, callback, answer, outcome, history>>

(* portal_open_native_for converts and opens the path, and registers no    *)
(* filter.                                                                 *)
BeginNative(t, c) ==
  /\ Calling(t, c)
  /\ dbus_init
  /\ Goto(t, "send")
  /\ cur'     = [cur EXCEPT ![t] = c]
  /\ op'      = [op EXCEPT ![c] = "open_native"]
  /\ request' = [request EXCEPT ![c] = "made"]
  /\ UNCHANGED <<link, filters, walk, callback, frame, filterContext, answer,
                 outcome, history>>

(* The early returns of -1: no connection could be opened, or the path of  *)
(* portal_open_native_for does not convert or open.                        *)
BeginFails(t, c, o) ==
  /\ Calling(t, c)
  /\ \/ ~dbusConnection /\ UNCHANGED connVars
     \/ o = "open_native" /\ dbus_init /\ UNCHANGED <<link, filters, walk, callback>>
  /\ op'      = [op EXCEPT ![c] = o]
  /\ outcome' = [outcome EXCEPT ![c] = [status |-> "error", value |-> Nothing]]
  /\ UNCHANGED <<threadVars, request, answer, history>>

(* dbus_connection_send_with_reply_and_block hands the request to the bus. *)
Send(t) ==
  /\ pc[t] = "send"
  /\ link = "up"
  /\ Goto(t, "reply")
  /\ request' = [request EXCEPT ![cur[t]] = "sent"]
  /\ UNCHANGED <<connVars, cur, frame, filterContext, op, answer, outcome, history>>

(* ... and returns the method reply: a dialog goes on to wait for its      *)
(* Response, portal_open_native_for is done.                               *)
Reply(t) ==
  /\ pc[t] = "reply"
  /\ request[cur[t]] \in {"open", "answered"}
  /\ IF InDialog(t) THEN Goto(t, "wait") /\ UNCHANGED <<cur, frame, outcome>>
                    ELSE Return(t, "ok", Nothing)
  /\ UNCHANGED <<connVars, filterContext, op, request, answer, history>>

(* ... or returns no reply: an error reply, a closed connection, or the    *)
(* library's timeout, after which the portal may still act on the request. *)
(* A dialog returns -1 with its filter registered, portal_open_native_for  *)
(* returns 0.                                                              *)
SendFails(t) ==
  /\ \/ pc[t] = "send"  /\ link # "up"
     \/ pc[t] = "reply" /\ link # "up"
     \/ pc[t] = "reply" /\ request[cur[t]] = "refused"
     \/ pc[t] = "reply" /\ "timeout" \in Faults
  /\ Return(t, IF InDialog(t) THEN "error" ELSE "ok", Nothing)
  /\ UNCHANGED <<connVars, filterContext, op, request, answer, history>>

-----------------------------------------------------------------------------
(* The wait loop:                                                          *)
(*   while (!completed && dbus_connection_read_write_dispatch(conn, -1)).  *)

(* The loop calls read_write_dispatch: it dispatches if a signal is queued *)
(* and otherwise reads, blocking without a timeout.                        *)
EnterReadWriteDispatch(t) ==
  /\ pc[t] = "wait"
  /\ ~filterContext[SlotOf(t)].completed
  /\ \/ Queue # <<>> /\ Goto(t, "dispatch")
     \/ Queue = <<>> /\ link # "gone" /\ Goto(t, "poll")
  /\ UNCHANGED <<connVars, cur, frame, filterContext, callVars, history>>

PollReturns(t) ==
  /\ pc[t] = "poll"
  /\ Queue # <<>> \/ link = "gone"
  /\ Goto(t, "wait")
  /\ UNCHANGED <<connVars, cur, frame, filterContext, callVars, history>>

(* Another thread dispatched the last queued signal first.                 *)
DispatchNothing(t) ==
  /\ pc[t] = "dispatch"
  /\ DispatcherFree
  /\ inbox = <<>>
  /\ Goto(t, "wait")
  /\ UNCHANGED <<connVars, cur, frame, filterContext, callVars, history>>

(* One thread dispatches at a time, the oldest signal first.               *)
Dispatching(t) ==
  /\ pc[t] = "dispatch"
  /\ DispatcherFree
  /\ inbox # <<>>

(* Every filter returns NOT_YET_HANDLED for a signal that is no Response,  *)
(* before it looks at its context.                                         *)
DispatchOther(t) ==
  /\ Dispatching(t)
  /\ Head(inbox).type # "Response"
  /\ inbox' = Tail(inbox)
  /\ link' = IF Head(inbox).type = "Disconnected" THEN "gone" ELSE link
  /\ Goto(t, "wait")
  /\ UNCHANGED <<dbusConnection, filters, walk, callback, cur, frame,
                 filterContext, callVars, history>>

(* For a Response the dispatcher copies the filter list and unlocks the    *)
(* connection before it calls the first filter.                            *)
DispatchResponse(t) ==
  /\ Dispatching(t)
  /\ Head(inbox).type = "Response"
  /\ walk' = filters
  /\ Goto(t, "walk")
  /\ UNCHANGED <<dbusConnection, link, filters, inbox, callback, cur, frame,
                 filterContext, callVars, history>>

(* A filter removed since the copy was made is not called ...              *)
SkipRemoved(t) ==
  /\ pc[t] = "walk"
  /\ walk # <<>>
  /\ Removed(Head(walk))
  /\ walk' = Tail(walk)
  /\ UNCHANGED <<dbusConnection, link, filters, inbox, callback, threadVars,
                 callVars, history>>

(* ... but between the test and what the filter does its owner may remove  *)
(* it and return.                                                          *)
CallFilter(t) ==
  /\ pc[t] = "walk"
  /\ walk # <<>>
  /\ ~Removed(Head(walk))
  /\ Goto(t, "filter")
  /\ UNCHANGED <<connVars, cur, frame, filterContext, callVars, history>>

(* The filter finds its context completed: NOT_YET_HANDLED.                *)
FilterPasses(t) ==
  /\ pc[t] = "filter"
  /\ Passes(Head(walk))
  /\ walk' = Tail(walk)
  /\ Goto(t, "walk")
  /\ UNCHANGED <<dbusConnection, link, filters, inbox, callback, cur, frame,
                 filterContext, callVars, history>>

(* The filter takes the Response.  It now writes to its context, whatever  *)
(* the memory it points to has become in the meantime.                     *)
InvokeFilter(t) ==
  LET f   == Head(walk)
      msg == Head(inbox)
  IN
  /\ pc[t] = "filter"
  /\ Takes(f)
  /\ inbox'      = Tail(inbox)
  /\ walk'       = <<>>
  /\ callback'   = [slot   |-> f.slot,
                    func   |-> f.func,
                    call   |-> cur[f.slot[1]],
                    value  |-> [from  |-> msg.req,
                                files |-> Picked(f.func, msg.answer)],
                    todo   |-> Publishes(f.func)]
  /\ strayWrite' = (strayWrite \/ ~Fits(f))
  /\ Goto(t, "callback")
  /\ UNCHANGED <<dbusConnection, link, filters, cur, frame, filterContext,
                 callVars, dropped>>

(* No filter takes the Response: libdbus drops it.                         *)
DropResponse(t) ==
  /\ pc[t] = "walk"
  /\ walk = <<>>
  /\ inbox'   = Tail(inbox)
  /\ dropped' = dropped \cup {Head(inbox).req}
  /\ Goto(t, "wait")
  /\ UNCHANGED <<dbusConnection, link, filters, walk, callback, cur, frame,
                 filterContext, callVars, strayWrite>>

(* The filter stores one field of its result.  Where the context is gone,  *)
(* or has the other filter's layout, that hits memory which is not the     *)
(* field it means.                                                         *)
WriteContext(t) ==
  LET s      == callback.slot
      field  == Head(callback.todo)
      stored == IF Fits(callback) THEN callback.value
                                  ELSE [callback.value EXCEPT !.files = <<NULL>>]
  IN
  /\ pc[t] = "callback"
  /\ filterContext' =
       [filterContext EXCEPT ![s] =
          IF field = "completed" THEN [@ EXCEPT !.completed = TRUE]
                                 ELSE [@ EXCEPT !.value = stored]]
  /\ strayWrite' = (strayWrite \/ ~Fits(callback) \/ cur[s[1]] # callback.call)
  /\ IF Len(callback.todo) > 1
     THEN /\ callback' = [callback EXCEPT !.todo = Tail(@)]
          /\ UNCHANGED pc
     ELSE /\ callback' = NULL
          /\ Goto(t, "wait")
  /\ UNCHANGED <<dbusConnection, link, filters, inbox, walk, cur, frame, callVars,
                 dropped>>

LoopEndsEarly(t) == Queue = <<>>   \* mutant: an empty queue ends the loop

(* The loop ends: the context is completed, or read_write_dispatch found   *)
(* the connection disconnected and drained.                                *)
LoopEnds(t) ==
  \/ filterContext[SlotOf(t)].completed
  \/ link = "gone" /\ Queue = <<>>

(* A registration of the function and the context that thread t names.     *)
Matches(f, t) == f.func = Func(cur[t]) /\ f.slot = SlotOf(t)

UnregisterNone(t, k)  == UNCHANGED filters   \* mutant: remove_filter forgotten
UnregisterLast(t, k)  ==   \* mutant: whichever context was registered last
  k = Len(filters) /\ filters' = Front(filters)
UnregisterAll(t, k)   ==   \* mutant: every registration of the context
  k = 1 /\ filters' = SelectSeq(filters, LAMBDA f : ~Matches(f, t))

(* dbus_connection_remove_filter removes the last registration of this     *)
(* function and context.                                                   *)
Unregister(t, k) ==
  /\ Matches(filters[k], t)
  /\ \A j \in (k + 1) .. Len(filters) : ~Matches(filters[j], t)
  /\ filters' = RemoveAt(filters, k)

FinishDialog(t, k) ==
  /\ pc[t] = "wait"
  /\ LoopEnds(t)
  /\ Unregister(t, k)
  /\ Return(t, "ok", filterContext[SlotOf(t)].value)
  /\ UNCHANGED <<dbusConnection, link, inbox, walk, callback, filterContext, op,
                 request, answer, history>>

-----------------------------------------------------------------------------
(* The desktop portal, its user and the bus.  What the portal does after   *)
(* the connection is lost does not reach the process.                      *)

PortalAccepts(c) ==
  /\ link = "up"
  /\ request[c] = "sent"
  /\ request' = [request EXCEPT ![c] = "open"]
  /\ UNCHANGED <<connVars, threadVars, op, answer, outcome, history>>

PortalRefuses(c) ==
  /\ "refuse" \in Faults
  /\ link = "up"
  /\ request[c] = "sent"
  /\ request' = [request EXCEPT ![c] = "refused"]
  /\ UNCHANGED <<connVars, threadVars, op, answer, outcome, history>>

UserAnswers(c, a) ==
  /\ link = "up"
  /\ request[c] = "open"
  /\ a \in AnswersTo(op[c])
  /\ request' = [request EXCEPT ![c] = "answered"]
  /\ answer'  = [answer EXCEPT ![c] = a]
  /\ inbox'   = Append(inbox, Response(c, a))
  /\ UNCHANGED <<dbusConnection, link, filters, walk, callback, threadVars, op,
                 outcome, history>>

Disconnect ==
  /\ "disconnect" \in Faults
  /\ dbusConnection
  /\ link = "up"
  /\ link'  = "down"
  /\ inbox' = Append(inbox, Signal("Disconnected"))
  /\ UNCHANGED <<dbusConnection, filters, walk, callback, threadVars, callVars,
                 history>>

-----------------------------------------------------------------------------
(* A step of a thread that is inside a call.  A reply that never comes     *)
(* times out, so timeouts are steps of the thread like any other.          *)
ThreadStep(t) ==
  \/ Send(t)
  \/ Reply(t)
  \/ SendFails(t)
  \/ EnterReadWriteDispatch(t)
  \/ PollReturns(t)
  \/ DispatchNothing(t)
  \/ DispatchOther(t)
  \/ DispatchResponse(t)
  \/ SkipRemoved(t)
  \/ CallFilter(t)
  \/ FilterPasses(t)
  \/ InvokeFilter(t)
  \/ DropResponse(t)
  \/ WriteContext(t)
  \/ \E k \in DOMAIN filters : FinishDialog(t, k)

Caller(t) ==
  \E c \in Calls :
    \/ \E o \in Ops \cap Dialogs, f \in Frames : BeginDialog(t, c, o, f)
    \/ "open_native" \in Ops /\ BeginNative(t, c)
    \/ \E o \in Ops : BeginFails(t, c, o)

Environment ==
  \/ \E c \in Calls : PortalAccepts(c)
  \/ \E c \in Calls : PortalRefuses(c)
  \/ \E c \in Calls, a \in Answers : UserAnswers(c, a)
  \/ Disconnect

Next ==
  \/ \E t \in Threads : Caller(t)
  \/ \E t \in Threads : ThreadStep(t)
  \/ Environment

Spec == Init /\ [][Next]_vars

(* A thread inside a call is scheduled again: its steps are weakly fair.   *)
(* Nothing obliges the caller to call, the portal to accept or the user to *)
(* answer.                                                                 *)
FairSpec == Spec /\ \A t \in Threads : WF_vars(ThreadStep(t))

-----------------------------------------------------------------------------
(* Types.                                                                  *)

Filters   == [func : {"filter_func", "filter_func_multi"}, slot : Slots, call : Calls]
Results   == {<<>>, <<NULL>>} \cup
             {Picked(f, a) : f \in {"filter_func", "filter_func_multi"}, a \in Answers}
Values    == [from : Calls \cup {NULL}, files : Results]
Contexts  == [completed : BOOLEAN, value : Values]
Signals   == {Signal("NameAcquired"), Signal("Disconnected")} \cup
             {Response(c, a) : c \in Calls, a \in Answers}
Callbacks == [slot : Slots, func : {"filter_func", "filter_func_multi"},
              call : Calls \cup {NULL}, value : Values, todo : Seq({"value", "completed"})]

(* Every variable has its type, a thread is in a call exactly when it is   *)
(* not idle, has a context only in a call, and one thread at a time runs a *)
(* filter.                                                                 *)
TypeOK ==
  /\ dbusConnection \in BOOLEAN
  /\ link \in {"up", "down", "gone"}
  /\ filters \in Seq(Filters)
  /\ inbox \in Seq(Signals)
  /\ walk \in Seq(Filters)
  /\ pc \in [Threads -> {"idle", "send", "reply", "wait", "poll", "dispatch", "walk",
                         "filter", "callback"}]
  /\ cur \in [Threads -> Calls \cup {NULL}]
  /\ frame \in [Threads -> Frames \cup {NULL}]
  /\ filterContext \in [Slots -> Contexts]
  /\ op \in [Calls -> Ops \cup {NULL}]
  /\ request \in [Calls -> {"none", "made", "sent", "open", "refused", "answered"}]
  /\ answer \in [Calls -> Answers \cup {NULL}]
  /\ outcome \in [Calls -> [status : {"none", "ok", "error"}, value : Values]]
  /\ dropped \subseteq Calls
  /\ strayWrite \in BOOLEAN
  /\ \A t \in Threads : /\ pc[t] = "idle" <=> cur[t] = NULL
                        /\ InDialog(t) => cur[t] # NULL
                        /\ pc[t] = "callback" => callback \in Callbacks
                        /\ pc[t] \in {"walk", "filter"} =>
                             inbox # <<>> /\ Head(inbox).type = "Response"
                        /\ pc[t] = "filter" => walk # <<>>
  /\ \A t, u \in Threads : Dispatcher(t) /\ Dispatcher(u) => t = u

-----------------------------------------------------------------------------
(* One thread, no failures.                                                *)

(* A dialog that returns 0 returns the files of the Response to its own    *)
(* request, although filter_func and filter_func_multi never look at the   *)
(* request a Response belongs to (portal.c:132, 572).                      *)
ReturnsOwnAnswer ==
  \A c \in Calls :
    outcome[c].status = "ok" =>
      /\ request[c] = "answered"
      /\ outcome[c].value = [from |-> c, files |-> Picked(Func(c), answer[c])]

(* Every file the user selected and whose URI converts is returned, though *)
(* filter_func keeps one path only: a request that did not ask for         *)
(* "multiple" gets one URI at most.                                        *)
NothingSelectedIsLost ==
  \A c \in Calls :
    outcome[c].status = "ok" =>
      Range(outcome[c].value.files) =
        {PathOf[u] : u \in Range(answer[c].uris)} \ {NULL}

(* The dialog a caller sees: shown, answered in that dialog, returned.     *)
PhaseOf(c) ==
  IF      outcome[c].status = "error" THEN "failed"
  ELSE IF outcome[c].status = "ok"    THEN "returned"
  ELSE IF request[c] = "answered"     THEN "chosen"
  ELSE IF op[c] # NULL                THEN "open"
  ELSE                                     "idle"

ChoiceOf(c) ==
  IF request[c] = "answered" THEN Picked(EntryPoint[op[c]].func, answer[c]) ELSE NULL

ResultOf(c) ==
  IF outcome[c].status = "ok" THEN outcome[c].value.files ELSE NULL

Dlg == INSTANCE Dialog
         WITH Selected <- Results,
              phase   <- [c \in Calls |-> PhaseOf(c)],
              choice  <- [c \in Calls |-> ChoiceOf(c)],
              result  <- [c \in Calls |-> ResultOf(c)]

(* The filters, the connection and the wait loop together implement the    *)
(* dialog of module Dialog.                                                *)
ImplementsDialog == Dlg!Spec

(* Once the user has answered, the blocked call returns: the Response in   *)
(* the queue is dispatched before the loop blocks in a read again.         *)
AnsweredReturns ==
  \A c \in Calls :
    request[c] = "answered" /\ Running(c) ~> outcome[c].status # "none"

-----------------------------------------------------------------------------
(* Several threads, no failures.                                           *)

(* Where the Response to an answered request can be.                       *)
Arrived(c) ==
  \/ \E i \in 1 .. Len(inbox) : inbox[i].req = c
  \/ \E t \in Threads : pc[t] = "callback" /\ callback.value.from = c
  \/ \E s \in Slots : Alive(s) /\ filterContext[s].value.from = c
  \/ \E d \in Calls : outcome[d].value.from = c

Lost == {c \in Calls : request[c] = "answered" /\ ~Arrived(c)}

(* As long as no filter has written to a context that is not its own, no   *)
(* Response gets lost that a dialog could have returned: whichever thread  *)
(* dispatches it, and in whichever order, the Responses that are neither   *)
(* queued nor handled nor returned are at most as many as there were       *)
(* OpenURI requests, whose Responses no call waits for.                    *)
OnlySurplusLost ==
  ~strayWrite => Cardinality(Lost) <= Cardinality({c \in Calls : op[c] = "open_native"})

(* The filters on the connection point to frames that are alive, one per   *)
(* dialog.                                                                 *)
FiltersAlive ==
  /\ \A k \in DOMAIN filters : Alive(filters[k].slot)
  /\ \A j, k \in DOMAIN filters : filters[j].slot = filters[k].slot => j = k

(* A filter that the dispatcher's copy of the list still holds although it *)
(* was removed is another thread's, and its call has returned an answer.   *)
RemovedAreAnswered ==
  \A t \in Threads, k \in DOMAIN walk :
    pc[t] \in {"walk", "filter"} /\ Removed(walk[k]) =>
      walk[k].slot[1] # t /\ outcome[walk[k].call].status = "ok"

(* libdbus calls filter_func with a pointer into a dead stack frame only   *)
(* from a copy of the filters made before the owner, a thread other than   *)
(* the dispatcher, removed the filter and returned its answer: a dialog    *)
(* that has no answer yet always has a filter that points to its context.  *)
NoDanglingFilter == FiltersAlive /\ RemovedAreAnswered

(* Two dialogs never return the same Response.                             *)
OneReturnPerResponse ==
  \A c, d \in Calls :
    outcome[c].value.from = outcome[d].value.from =>
      c = d \/ outcome[c].value.from = NULL

(* A dialog that waits in filter_func returns only after path is stored:   *)
(* filter_func sets completed last (portal.c:187-188), which matters when  *)
(* another thread runs the filter.  A filter called for a call that is     *)
(* gone may break this: it sets completed in the frame's next context.     *)
PathStoredBeforeReturn ==
  ~strayWrite =>
    \A c \in Calls :
      outcome[c].status = "ok" /\ Func(c) = "filter_func" =>
        outcome[c].value.from # NULL

(* A result is stored once: while a call runs, the value of its completed  *)
(* filter_func context does not change, whatever else arrives, unless a    *)
(* filter writes to a context that is not its own.                         *)
StoredOnce ==
  [][\A t \in Threads :
       /\ ~strayWrite'
       /\ InDialog(t) /\ cur'[t] = cur[t]
       /\ filterContext[SlotOf(t)].completed
       /\ Func(cur[t]) = "filter_func"
       => filterContext'[SlotOf(t)] = filterContext[SlotOf(t)]]_vars

-----------------------------------------------------------------------------
(* Failures.                                                               *)

(* The connection holds the filters of the running dialogs and of the      *)
(* calls that failed after registering theirs, and no other.               *)
FilterAccounting ==
  Len(filters) = Cardinality({t \in Threads : InDialog(t)}) + Cardinality(Abandoned)

(* A dialog returns the answer to another request only after something     *)
(* went wrong: an OpenURI request, whose Response no filter expects, or a  *)
(* call that failed.  The cause may lie several calls back, because each   *)
(* dialog that takes an older Response leaves its own in the queue.        *)
MisdeliveryHasCause ==
  \A c \in Calls :
    outcome[c].value.from \notin {c, NULL} =>
      \E d \in 1 .. (c - 1) : op[d] = "open_native" \/ d \in Abandoned

(* A filter writes to dead memory, or to a context of the other layout,    *)
(* only when an earlier call failed and left its filter registered.        *)
StrayWriteNeedsFailure == strayWrite => Abandoned # {}

(* A dialog that returns 0 without any Response has lost its connection.   *)
SilentReturnIsDisconnect ==
  \A c \in Calls :
    /\ outcome[c].status = "ok"
    /\ outcome[c].value.from = NULL
    /\ Func(c) # "none"
    => link = "gone"

(* Even with failures an answered call returns, unless a filter left by a  *)
(* failed call swallowed its Response.                                     *)
AnsweredReturnsOrStray ==
  \A c \in Calls :
    request[c] = "answered" /\ Running(c) ~> outcome[c].status # "none" \/ strayWrite

(* "File selection completed" (portal.c:322, 457, 559, 780): a dialog that *)
(* returns 0 does so after its own request was answered.                   *)
SelectionCompleted ==
  \A c \in Calls :
    outcome[c].status = "ok" /\ Func(c) # "none" => request[c] = "answered"

=============================================================================
