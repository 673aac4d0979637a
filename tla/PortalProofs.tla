---------------------------- MODULE PortalProofs ----------------------------
EXTENDS Portal, SelectionProofs, SequenceTheorems, TLAPS

(* RemoveAt leaves a shorter sequence of the same elements.                *)
LEMMA RemoveAtProperties ==
  ASSUME NEW S, NEW s \in Seq(S), NEW k \in 1 .. Len(s)
  PROVE  /\ RemoveAt(s, k) \in Seq(S)
         /\ Len(RemoveAt(s, k)) = Len(s) - 1
         /\ \A i \in 1 .. (Len(s) - 1) :
              RemoveAt(s, k)[i] = IF i < k THEN s[i] ELSE s[i + 1]
<1> DEFINE a == SubSeq(s, 1, k - 1)
           b == SubSeq(s, k + 1, Len(s))
           r == a \o b
<1>0. Len(s) \in Nat /\ k \in Nat
  BY LenProperties
<1>1. RemoveAt(s, k) = r
  BY DEF RemoveAt
<1>2. a \in Seq(S) /\ Len(a) = k - 1 /\ \A i \in 1 .. (k - 1) : a[i] = s[i]
  BY SMT
<1>3. b \in Seq(S) /\ Len(b) = Len(s) - k /\ \A i \in 1 .. (Len(s) - k) : b[i] = s[i + k]
  BY SMT
<1> HIDE DEF a, b
<1>4. r \in Seq(S) /\ Len(r) = Len(a) + Len(b)
  BY <1>2, <1>3, ConcatProperties
<1>5. \A i \in 1 .. (Len(a) + Len(b)) : r[i] = IF i <= Len(a) THEN a[i] ELSE b[i - Len(a)]
  BY <1>2, <1>3, ConcatProperties
<1> HIDE DEF r
<1>6. Len(a) + Len(b) = Len(s) - 1
  BY <1>0, <1>2, <1>3
<1>7. ASSUME NEW i \in 1 .. (Len(s) - 1), i < k
      PROVE  r[i] = s[i]
  BY <1>0, <1>2, <1>5, <1>6, <1>7
<1>8. ASSUME NEW i \in 1 .. (Len(s) - 1), ~(i < k)
      PROVE  r[i] = s[i + 1]
  <2>1. r[i] = b[i - Len(a)]
    BY <1>0, <1>2, <1>5, <1>6, <1>8
  <2>2. i - Len(a) \in 1 .. (Len(s) - k) /\ (i - Len(a)) + k = i + 1
    BY <1>0, <1>2, <1>8
  <2>3. QED
    BY <2>1, <2>2, <1>3
<1>9. QED
  BY <1>0, <1>1, <1>4, <1>6, <1>7, <1>8

(* Taking the oldest signal from the queue shifts the others.              *)
LEMMA TailProperties ==
  ASSUME NEW S, NEW s \in Seq(S), s # <<>>
  PROVE  /\ Len(s) \in Nat \ {0}
         /\ Head(s) = s[1]
         /\ Tail(s) \in Seq(S)
         /\ Len(Tail(s)) = Len(s) - 1
         /\ \A i \in 1 .. Len(Tail(s)) : i + 1 \in 1 .. Len(s) /\ Tail(s)[i] = s[i + 1]
BY HeadTailProperties

LEMMA AppendShape ==
  ASSUME NEW S, NEW s \in Seq(S), NEW e \in S
  PROVE  /\ Append(s, e) \in Seq(S)
         /\ Len(s) \in Nat
         /\ Len(Append(s, e)) = Len(s) + 1
         /\ Append(s, e)[Len(s) + 1] = e
         /\ \A i \in 1 .. Len(s) : Append(s, e)[i] = s[i]
BY AppendProperties

(* What a queue consists of after a signal has arrived.                    *)
LEMMA AppendCases ==
  ASSUME NEW S, NEW s \in Seq(S), NEW e \in S
  PROVE  \A i \in 1 .. Len(Append(s, e)) :
           \/ i \in 1 .. Len(s) /\ Append(s, e)[i] = s[i]
           \/ i = Len(s) + 1 /\ Append(s, e)[i] = e
BY AppendShape

-----------------------------------------------------------------------------
(* Type correctness.                                                       *)

USE CallsAssumption, OpsAssumption, FaultsAssumption, NullAssumption

LEMMA EntryPointType ==
  /\ \A o \in AllOps \ {"open_native"} :
       EntryPoint[o].func \in {"filter_func", "filter_func_multi"}
  /\ EntryPoint["open_native"].func = "none"
BY DEF AllOps, EntryPoint, portal_open_file_dialog, portal_save_file_dialog,
       portal_choose_directory, portal_open_files_dialog, portal_open_native_for

LEMMA InitType == Init => TypeOK
<1> SUFFICES ASSUME Init PROVE TypeOK
  OBVIOUS
<1>1. Nothing \in Values
  BY DEF Nothing, Values, Results
<1>2. EmptyContext \in Contexts
  BY <1>1 DEF EmptyContext, Contexts
<1>3. NotReturned \in [status : {"none", "ok", "error"}, value : Values]
  BY <1>1 DEF NotReturned
<1>4. filters \in Seq(Filters) /\ inbox \in Seq(Signals) /\ walk \in Seq(Filters)
  BY DEF Init
<1>5. \A t \in Threads : pc[t] = "idle" /\ cur[t] = NULL /\ ~InDialog(t) /\ ~Dispatcher(t)
  BY DEF Init, InDialog, Dispatcher
<1>6. QED
  BY <1>2, <1>3, <1>4, <1>5 DEF Init, TypeOK

(* A signal that arrives leaves the oldest one where it is.                *)
HeadStays == inbox # <<>> => inbox' # <<>> /\ Head(inbox') = Head(inbox)

LEMMA HeadOfAppend ==
  ASSUME NEW e \in Signals, inbox \in Seq(Signals), inbox' = Append(inbox, e)
  PROVE  inbox' \in Seq(Signals) /\ HeadStays
<1>1. /\ inbox' \in Seq(Signals) /\ Len(inbox') = Len(inbox) + 1
      /\ \A i \in 1 .. Len(inbox) : inbox'[i] = inbox[i]
  BY AppendShape
<1>2. inbox # <<>> => 1 \in 1 .. Len(inbox)
  OBVIOUS
<1>3. QED
  BY <1>1, <1>2 DEF HeadStays

LEMMA dbus_initType ==
  ASSUME TypeOK, dbus_init
  PROVE  dbusConnection' \in BOOLEAN /\ inbox' \in Seq(Signals) /\ HeadStays
<1>1. Signal("NameAcquired") \in Signals
  BY DEF Signals
<1>2. QED
  BY <1>1, HeadOfAppend DEF TypeOK, dbus_init, HeadStays

LEMMA BeginDialogType ==
  ASSUME TypeOK, NEW t \in Threads, NEW c \in Calls, NEW o \in Ops \cap Dialogs,
         NEW f \in Frames, BeginDialog(t, c, o, f)
  PROVE  TypeOK'
<1>1. [func |-> EntryPoint[o].func, slot |-> <<t, f>>, call |-> c] \in Filters
  BY EntryPointType DEF Filters, Slots, Dialogs
<1>2. filters' \in Seq(Filters)
  BY <1>1 DEF TypeOK, BeginDialog
<1>3. EmptyContext \in Contexts
  BY DEF EmptyContext, Contexts, Nothing, Values, Results
<1>4. filterContext' \in [Slots -> Contexts]
  BY <1>3 DEF TypeOK, BeginDialog, ZeroContext, Slots
<1>5. dbusConnection' \in BOOLEAN /\ inbox' \in Seq(Signals) /\ HeadStays
  BY dbus_initType DEF BeginDialog
<1>6. op' \in [Calls -> Ops \cup {NULL}]
  BY DEF TypeOK, BeginDialog
<1>7. QED
  BY <1>2, <1>4, <1>5, <1>6
     DEF TypeOK, BeginDialog, Goto, InDialog, history, Dispatcher, HeadStays

LEMMA BeginNativeType ==
  ASSUME TypeOK, NEW t \in Threads, NEW c \in Calls, "open_native" \in Ops,
         BeginNative(t, c)
  PROVE  TypeOK'
<1>1. dbusConnection' \in BOOLEAN /\ inbox' \in Seq(Signals) /\ HeadStays
  BY dbus_initType DEF BeginNative
<1>2. QED
  BY <1>1 DEF TypeOK, BeginNative, Goto, InDialog, history, Dispatcher, HeadStays

LEMMA BeginFailsType ==
  ASSUME TypeOK, NEW t \in Threads, NEW c \in Calls, NEW o \in Ops, BeginFails(t, c, o)
  PROVE  TypeOK'
<1>1. /\ dbusConnection' \in BOOLEAN /\ inbox' \in Seq(Signals) /\ HeadStays
      /\ UNCHANGED <<link, filters, walk, callback>>
  BY dbus_initType DEF BeginFails, connVars, TypeOK, HeadStays
<1>2. Nothing \in Values
  BY DEF Nothing, Values, Results
<1>3. outcome' \in [Calls -> [status : {"none", "ok", "error"}, value : Values]]
  BY <1>2 DEF TypeOK, BeginFails
<1>4. QED
  BY <1>1, <1>3 DEF TypeOK, BeginFails, InDialog, threadVars, history, Dispatcher, HeadStays

(* A call that returns leaves its thread idle and its outcome typed.       *)
LeftTyped(t) ==
  /\ pc' = [pc EXCEPT ![t] = "idle"]
  /\ cur' \in [Threads -> Calls \cup {NULL}]
  /\ frame' \in [Threads -> Frames \cup {NULL}]
  /\ outcome' \in [Calls -> [status : {"none", "ok", "error"}, value : Values]]
  /\ \A u \in Threads : /\ pc'[u] = "idle" <=> cur'[u] = NULL
                        /\ InDialog(u)' => cur'[u] # NULL

LEMMA ReturnType ==
  ASSUME TypeOK, NEW t \in Threads, cur[t] \in Calls,
         NEW status \in {"ok", "error"}, NEW value \in Values,
         Return(t, status, value)
  PROVE  LeftTyped(t)
<1>1. outcome' \in [Calls -> [status : {"none", "ok", "error"}, value : Values]]
  BY DEF TypeOK, Return
<1>2. QED
  BY <1>1 DEF TypeOK, Return, Goto, InDialog, LeftTyped

(* A thread that only moves on inside its call.                            *)
LEMMA GotoType ==
  ASSUME TypeOK, NEW t \in Threads, pc[t] # "idle",
         NEW l \in {"send", "reply", "wait", "poll", "dispatch"},
         pc' = [pc EXCEPT ![t] = l],
         UNCHANGED <<connVars, cur, frame, filterContext, callVars, history>>
  PROVE  TypeOK'
BY DEF TypeOK, InDialog, connVars, callVars, history, Dispatcher

LEMMA SendType ==
  ASSUME TypeOK, NEW t \in Threads, Send(t)
  PROVE  TypeOK'
<1>1. /\ pc' = [pc EXCEPT ![t] = "reply"] /\ pc[t] = "send"
      /\ request' = [request EXCEPT ![cur[t]] = "sent"]
      /\ UNCHANGED <<connVars, cur, frame, filterContext, op, answer, outcome, history>>
  BY DEF Send, Goto
<1>2. QED
  BY <1>1 DEF TypeOK, InDialog, connVars, history, Dispatcher

LEMMA NothingType == Nothing \in Values
BY DEF Nothing, Values, Results

LEMMA ReplyType ==
  ASSUME TypeOK, NEW t \in Threads, Reply(t)
  PROVE  TypeOK'
<1>1. cur[t] \in Calls
  BY DEF TypeOK, Reply
<1>2. CASE InDialog(t)
  <2>1. /\ pc' = [pc EXCEPT ![t] = "wait"] /\ pc[t] # "idle"
        /\ UNCHANGED <<connVars, cur, frame, filterContext, callVars, history>>
    BY <1>2 DEF Reply, Goto, callVars
  <2>2. QED
    BY <2>1, GotoType
<1>3. CASE ~InDialog(t)
  <2>1. Return(t, "ok", Nothing)
    BY <1>3 DEF Reply
  <2>2. LeftTyped(t)
    BY <1>1, <2>1, ReturnType, NothingType
  <2>3. QED
    BY <2>2 DEF TypeOK, LeftTyped, Reply, connVars, history, Dispatcher
<1>4. QED
  BY <1>2, <1>3

LEMMA SendFailsType ==
  ASSUME TypeOK, NEW t \in Threads, SendFails(t)
  PROVE  TypeOK'
<1>1. cur[t] \in Calls
  BY DEF TypeOK, SendFails
<1>2. PICK status \in {"ok", "error"} : Return(t, status, Nothing)
  BY DEF SendFails
<1>3. LeftTyped(t)
  BY <1>1, <1>2, ReturnType, NothingType
<1>4. QED
  BY <1>3 DEF TypeOK, LeftTyped, SendFails, connVars, history, Dispatcher

LEMMA LoopType ==
  ASSUME TypeOK, NEW t \in Threads,
         EnterReadWriteDispatch(t) \/ PollReturns(t) \/ DispatchNothing(t)
  PROVE  TypeOK'
<1>1. /\ UNCHANGED <<connVars, cur, frame, filterContext, callVars, history>>
      /\ pc[t] # "idle"
      /\ \E l \in {"wait", "poll", "dispatch"} : pc' = [pc EXCEPT ![t] = l]
  BY DEF EnterReadWriteDispatch, PollReturns, DispatchNothing, Goto
<1>2. QED
  BY <1>1, GotoType

(* The queue without its oldest signal.                                    *)
LEMMA TakeSignal ==
  ASSUME TypeOK, inbox # <<>>, inbox' = Tail(inbox)
  PROVE  /\ Len(inbox) \in Nat \ {0} /\ Head(inbox) = inbox[1]
         /\ Head(inbox) \in Signals /\ inbox' \in Seq(Signals)
         /\ Len(inbox') = Len(inbox) - 1
         /\ \A i \in 1 .. Len(inbox') : i + 1 \in 1 .. Len(inbox) /\ inbox'[i] = inbox[i + 1]
<1>1. inbox \in Seq(Signals)
  BY DEF TypeOK
<1>2. QED
  BY <1>1, TailProperties

LEMMA DispatchOtherType ==
  ASSUME TypeOK, NEW t \in Threads, DispatchOther(t)
  PROVE  TypeOK'
<1>1. inbox' \in Seq(Signals)
  BY TakeSignal DEF DispatchOther, Dispatching
<1>2. \A u \in Threads : ~Dispatcher(u) /\ ~Dispatcher(u)'
  BY DEF TypeOK, DispatchOther, Dispatching, DispatcherFree, Dispatcher, Goto
<1>3. QED
  BY <1>1, <1>2 DEF TypeOK, DispatchOther, Dispatching, Goto, InDialog, callVars, history,
                    Dispatcher

(* The dispatcher has a Response in hand.                                  *)
LEMMA HeadResponse ==
  ASSUME TypeOK, NEW t \in Threads, pc[t] \in {"walk", "filter"}
  PROVE  /\ inbox # <<>>
         /\ Head(inbox).req \in Calls
         /\ Head(inbox).answer \in Answers
         /\ Head(inbox) = Response(Head(inbox).req, Head(inbox).answer)
         /\ \A u \in Threads : Dispatcher(u) => u = t
<1>1. inbox # <<>> /\ Head(inbox).type = "Response"
  BY DEF TypeOK
<1>2. Head(inbox) \in Signals
  BY <1>1 DEF TypeOK
<1>3. PICK c \in Calls, a \in Answers : Head(inbox) = Response(c, a)
  BY <1>1, <1>2 DEF Signals, Signal
<1>4. \A u \in Threads : Dispatcher(u) => u = t
  BY DEF TypeOK, Dispatcher
<1>5. QED
  BY <1>1, <1>3, <1>4 DEF Response

LEMMA DispatchResponseType ==
  ASSUME TypeOK, NEW t \in Threads, DispatchResponse(t)
  PROVE  TypeOK'
<1>1. /\ pc' = [pc EXCEPT ![t] = "walk"] /\ pc[t] = "dispatch" /\ walk' = filters
      /\ inbox # <<>> /\ Head(inbox).type = "Response"
      /\ \A u \in Threads : ~Dispatcher(u)
      /\ UNCHANGED <<dbusConnection, link, filters, inbox, callback, cur, frame,
                     filterContext, callVars, history>>
  BY DEF DispatchResponse, Dispatching, DispatcherFree, Goto
<1>2. QED
  BY <1>1 DEF TypeOK, InDialog, callVars, history, Dispatcher

(* A dispatcher that goes on with its walk.                                *)
LEMMA WalkType ==
  ASSUME TypeOK, NEW t \in Threads, SkipRemoved(t) \/ CallFilter(t) \/ FilterPasses(t)
  PROVE  TypeOK'
<1>1. /\ pc[t] \in {"walk", "filter"} /\ walk # <<>>
      /\ walk' \in {walk, Tail(walk)}
      /\ \E l \in {"walk", "filter"} : /\ pc' = [pc EXCEPT ![t] = l]
                                       /\ l = "filter" => walk' = walk
      /\ UNCHANGED <<dbusConnection, link, filters, inbox, callback, cur, frame,
                     filterContext, callVars, history>>
  BY DEF SkipRemoved, CallFilter, FilterPasses, TypeOK, connVars, threadVars, Goto
<1>2. walk' \in Seq(Filters)
  <2>1. walk \in Seq(Filters)
    BY DEF TypeOK
  <2>2. Tail(walk) \in Seq(Filters)
    BY <1>1, <2>1, TailProperties
  <2>3. QED
    BY <1>1, <2>1, <2>2
<1>3. QED
  BY <1>1, <1>2 DEF TypeOK, InDialog, callVars, history, Dispatcher

(* What the filter that is called is.                                      *)
LEMMA HeadFilter ==
  ASSUME TypeOK, NEW t \in Threads, pc[t] = "filter"
  PROVE  Head(walk) \in Filters
BY DEF TypeOK

LEMMA InvokeFilterType ==
  ASSUME TypeOK, NEW t \in Threads, InvokeFilter(t)
  PROVE  TypeOK'
<1> DEFINE f == Head(walk)
           v == [from |-> Head(inbox).req, files |-> Picked(f.func, Head(inbox).answer)]
<1>1. pc[t] = "filter" /\ f \in Filters
  BY HeadFilter DEF InvokeFilter
<1>2. f.slot \in Slots /\ f.slot[1] \in Threads
  BY <1>1 DEF Filters, Slots
<1>3. cur[f.slot[1]] \in Calls \cup {NULL}
  BY <1>2 DEF TypeOK
<1>4. Picked(f.func, Head(inbox).answer) \in Results
  BY <1>1, HeadResponse DEF Filters, Results
<1>5. Publishes(f.func) \in Seq({"value", "completed"})
  <2>1. /\ <<"value", "completed">> \in Seq({"value", "completed"})
        /\ <<"completed", "value">> \in Seq({"value", "completed"})
    OBVIOUS
  <2>2. QED
    BY <2>1, Zenon DEF Publishes
<1>6. callback' \in Callbacks
  <2>1. v \in Values
    BY <1>1, <1>4, HeadResponse DEF Values
  <2>2. callback' = [slot |-> f.slot, func |-> f.func, call |-> cur[f.slot[1]],
                     value |-> v, todo |-> Publishes(f.func)]
    BY DEF InvokeFilter
  <2>3. f.func \in {"filter_func", "filter_func_multi"}
    BY <1>1 DEF Filters
  <2> HIDE DEF v, f
  <2>4. QED
    BY <1>2, <1>3, <1>5, <2>1, <2>2, <2>3 DEF Callbacks
<1>7. inbox' \in Seq(Signals)
  BY <1>1, HeadResponse, TakeSignal DEF InvokeFilter
<1>8. /\ pc' = [pc EXCEPT ![t] = "callback"]
      /\ walk' \in Seq(Filters)
      /\ UNCHANGED <<dbusConnection, link, filters, cur, frame, filterContext,
                     callVars, dropped>>
      /\ strayWrite' \in BOOLEAN
  BY DEF InvokeFilter, Goto, TypeOK
<1>9. \A u \in Threads : Dispatcher(u) => u = t
  BY <1>1, HeadResponse
<1>10. QED
  BY <1>1, <1>6, <1>7, <1>8, <1>9 DEF TypeOK, InDialog, callVars, Dispatcher

LEMMA DropResponseType ==
  ASSUME TypeOK, NEW t \in Threads, DropResponse(t)
  PROVE  TypeOK'
<1>1. /\ inbox' \in Seq(Signals) /\ Head(inbox).req \in Calls
      /\ \A u \in Threads : Dispatcher(u) => u = t
  BY HeadResponse, TakeSignal DEF DropResponse
<1>2. QED
  BY <1>1 DEF TypeOK, DropResponse, Goto, InDialog, callVars, Dispatcher

LEMMA WriteContextType ==
  ASSUME TypeOK, NEW t \in Threads, WriteContext(t)
  PROVE  TypeOK'
<1> DEFINE s      == callback.slot
           stored == IF Fits(callback) THEN callback.value
                                       ELSE [callback.value EXCEPT !.files = <<NULL>>]
<1>1. callback \in Callbacks
  BY DEF TypeOK, WriteContext
<1>2. s \in Slots /\ callback.value \in Values
  BY <1>1 DEF Callbacks
<1>3. stored \in Values
  BY <1>2 DEF Values, Results
<1>4. /\ [filterContext[s] EXCEPT !.completed = TRUE] \in Contexts
      /\ \A v \in Values : [filterContext[s] EXCEPT !.value = v] \in Contexts
  <2>1. filterContext[s] \in Contexts
    BY <1>2 DEF TypeOK
  <2>2. QED
    BY <2>1 DEF Contexts
<1>5. filterContext' \in [Slots -> Contexts]
  <2>1. \/ filterContext' = [filterContext EXCEPT ![s] = [filterContext[s] EXCEPT !.completed = TRUE]]
        \/ filterContext' = [filterContext EXCEPT ![s] = [filterContext[s] EXCEPT !.value = stored]]
    BY DEF WriteContext
  <2>2. \E x \in Contexts : filterContext' = [filterContext EXCEPT ![s] = x]
    BY <1>3, <1>4, <2>1
  <2>3. QED
    BY <1>2, <2>2 DEF TypeOK
<1>6. pc'[t] = "callback" => callback' \in Callbacks
  <2>1. CASE Len(callback.todo) > 1
    <3>1. Tail(callback.todo) \in Seq({"value", "completed"})
      BY <1>1, <2>1 DEF Callbacks
    <3>2. QED
      BY <1>1, <2>1, <3>1 DEF WriteContext, Callbacks
  <2>2. CASE ~(Len(callback.todo) > 1)
    BY <2>2 DEF WriteContext, Goto, TypeOK
  <2>3. QED
    BY <2>1, <2>2
<1>7. pc' = pc \/ pc' = [pc EXCEPT ![t] = "wait"]
  BY DEF WriteContext, Goto
<1>8. strayWrite' \in BOOLEAN
  BY DEF WriteContext, TypeOK
<1>9. UNCHANGED <<dbusConnection, link, filters, inbox, walk, cur, frame, callVars, dropped>>
  BY DEF WriteContext
<1>10. pc[t] = "callback" /\ \A u \in Threads : Dispatcher(u) => u = t
  BY DEF WriteContext, TypeOK, Dispatcher
<1>11. /\ pc' \in [Threads -> {"idle", "send", "reply", "wait", "poll", "dispatch",
                                "walk", "filter", "callback"}]
       /\ \A u \in Threads : /\ pc'[u] = "idle" <=> pc[u] = "idle"
                             /\ u # t => pc'[u] = pc[u]
       /\ pc'[t] \in {"callback", "wait"}
  BY <1>7, <1>10 DEF TypeOK
<1>12. \A u \in Threads : /\ Dispatcher(u)' => u = t
                          /\ pc'[u] \notin {"walk", "filter"}
                          /\ pc'[u] = "callback" => u = t
  BY <1>10, <1>11 DEF Dispatcher
<1>13. QED
  BY <1>5, <1>6, <1>8, <1>9, <1>11, <1>12 DEF TypeOK, InDialog, callVars

LEMMA FinishDialogType ==
  ASSUME TypeOK, NEW t \in Threads, NEW k \in DOMAIN filters, FinishDialog(t, k)
  PROVE  TypeOK'
<1>1. cur[t] \in Calls
  BY DEF TypeOK, FinishDialog
<1>2. SlotOf(t) \in Slots
  <2>1. filters[k] \in Filters /\ filters[k].slot = SlotOf(t)
    BY DEF TypeOK, FinishDialog, Unregister, Matches
  <2>2. QED
    BY <2>1 DEF Filters
<1>3. LeftTyped(t)
  <2>1. filterContext[SlotOf(t)].value \in Values
    BY <1>2 DEF TypeOK, Contexts
  <2>2. QED
    BY <1>1, <2>1, ReturnType DEF FinishDialog
<1>4. filters' \in Seq(Filters)
  BY RemoveAtProperties DEF TypeOK, FinishDialog, Unregister
<1>5. QED
  BY <1>3, <1>4 DEF TypeOK, LeftTyped, FinishDialog, history, Dispatcher

LEMMA EnvironmentType ==
  ASSUME TypeOK, Environment
  PROVE  TypeOK'
<1>1. ASSUME NEW c \in Calls, PortalAccepts(c) \/ PortalRefuses(c)
      PROVE  TypeOK'
  <2>1. \E r \in {"open", "refused"} : request' = [request EXCEPT ![c] = r]
    BY <1>1 DEF PortalAccepts, PortalRefuses
  <2>2. UNCHANGED <<connVars, threadVars, op, answer, outcome, history>>
    BY <1>1 DEF PortalAccepts, PortalRefuses
  <2>3. QED
    BY <2>1, <2>2 DEF TypeOK, InDialog, connVars, threadVars, history, Dispatcher
<1>2. ASSUME NEW c \in Calls, NEW a \in Answers, UserAnswers(c, a)
      PROVE  TypeOK'
  <2>1. Response(c, a) \in Signals
    BY DEF Signals
  <2>2. QED
    BY <1>2, <2>1, HeadOfAppend
       DEF TypeOK, UserAnswers, InDialog, threadVars, history, Dispatcher, HeadStays
<1>3. CASE Disconnect
  <2>1. Signal("Disconnected") \in Signals
    BY DEF Signals
  <2>2. QED
    BY <1>3, <2>1, HeadOfAppend
       DEF TypeOK, Disconnect, InDialog, threadVars, callVars, history, Dispatcher, HeadStays
<1>4. QED
  BY <1>1, <1>2, <1>3 DEF Environment

LEMMA NextType == TypeOK /\ [Next]_vars => TypeOK'
<1> SUFFICES ASSUME TypeOK, [Next]_vars PROVE TypeOK'
  OBVIOUS
<1>1. ASSUME NEW t \in Threads, Caller(t) PROVE TypeOK'
  BY <1>1, BeginDialogType, BeginNativeType, BeginFailsType DEF Caller
<1>2. ASSUME NEW t \in Threads, ThreadStep(t) PROVE TypeOK'
  BY <1>2, SendType, ReplyType, SendFailsType, LoopType, DispatchOtherType,
     DispatchResponseType, WalkType, InvokeFilterType, DropResponseType,
     WriteContextType, FinishDialogType
     DEF ThreadStep
<1>3. CASE UNCHANGED vars
  BY <1>3 DEF TypeOK, InDialog, vars, connVars, threadVars, callVars, history, Dispatcher
<1>4. QED
  BY <1>1, <1>2, <1>3, EnvironmentType DEF Next

(* Every variable keeps its type, for any number of threads and calls and  *)
(* whatever fails: in particular a callback always runs for a call that    *)
(* was in progress when its filter was found.                              *)
THEOREM TypeCorrect == Spec => []TypeOK
<1>1. Init => TypeOK
  BY InitType
<1>2. TypeOK /\ [Next]_vars => TypeOK'
  BY NextType
<1>3. QED
  BY <1>1, <1>2, PTL DEF Spec

-----------------------------------------------------------------------------
(* No failures: filters never dangle, for any number of threads.           *)

(* Without failures the connection stays up and no request is refused, so  *)
(* that no call returns before its dialog is answered.                     *)
NoFailure ==
  /\ link = "up"
  /\ \A c \in Calls : request[c] # "refused"
  /\ \A i \in 1 .. Len(inbox) : inbox[i].type # "Disconnected"

LEMMA NoFailureCaller ==
  ASSUME TypeOK, NoFailure, NEW t \in Threads, Caller(t)
  PROVE  NoFailure'
<1>1. UNCHANGED link
  BY DEF Caller, BeginDialog, BeginNative, BeginFails, connVars
<1>2. \A c \in Calls : request'[c] # "refused"
  <2>1. UNCHANGED request \/ \E c \in Calls : request' = [request EXCEPT ![c] = "made"]
    BY DEF Caller, BeginDialog, BeginNative, BeginFails
  <2>2. QED
    BY <2>1 DEF TypeOK, NoFailure
<1>3. UNCHANGED inbox \/ inbox' = Append(inbox, Signal("NameAcquired"))
  BY DEF Caller, BeginDialog, BeginNative, BeginFails, dbus_init, connVars
<1>4. \A i \in 1 .. Len(inbox') : inbox'[i].type # "Disconnected"
  <2>1. Signal("NameAcquired") \in Signals /\ Signal("NameAcquired").type # "Disconnected"
    BY DEF Signals, Signal
  <2>2. CASE inbox' = Append(inbox, Signal("NameAcquired"))
    <3>1. \A i \in 1 .. Len(inbox') :
            \/ i \in 1 .. Len(inbox) /\ inbox'[i] = inbox[i]
            \/ inbox'[i] = Signal("NameAcquired")
      BY <2>1, <2>2, AppendCases DEF TypeOK
    <3>2. QED
      BY <2>1, <3>1 DEF NoFailure
  <2>3. QED
    BY <1>3, <2>2 DEF NoFailure
<1>5. QED
  BY <1>1, <1>2, <1>4 DEF NoFailure

LEMMA NoFailureThreadStep ==
  ASSUME TypeOK, NoFailure, NEW t \in Threads, ThreadStep(t)
  PROVE  NoFailure'
<1>1. \A c \in Calls : request'[c] # "refused"
  <2>1. UNCHANGED request \/ request' = [request EXCEPT ![cur[t]] = "sent"]
    BY DEF ThreadStep, Send, Reply, SendFails, EnterReadWriteDispatch, PollReturns,
           DispatchNothing, DispatchOther, DispatchResponse, SkipRemoved, CallFilter,
           FilterPasses, InvokeFilter, DropResponse, WriteContext, FinishDialog, callVars
  <2>2. QED
    BY <2>1 DEF TypeOK, NoFailure
<1>2. UNCHANGED inbox \/ (inbox # <<>> /\ inbox' = Tail(inbox))
  BY HeadResponse
     DEF ThreadStep, Send, Reply, SendFails, EnterReadWriteDispatch, PollReturns,
         DispatchNothing, DispatchOther, DispatchResponse, SkipRemoved, CallFilter,
         FilterPasses, InvokeFilter, DropResponse, Dispatching, WriteContext, FinishDialog,
         connVars
<1>3. \A i \in 1 .. Len(inbox') : inbox'[i].type # "Disconnected"
  <2>1. CASE UNCHANGED inbox
    BY <2>1 DEF NoFailure
  <2>2. CASE inbox # <<>> /\ inbox' = Tail(inbox)
    <3>1. \A i \in 1 .. Len(Tail(inbox)) :
            i + 1 \in 1 .. Len(inbox) /\ Tail(inbox)[i] = inbox[i + 1]
      BY <2>2, TailProperties DEF TypeOK
    <3>2. QED
      BY <2>2, <3>1 DEF NoFailure
  <2>3. QED
    BY <1>2, <2>1, <2>2
<1>4. UNCHANGED link \/ (link' = "gone" /\ inbox # <<>> /\ Head(inbox).type = "Disconnected")
  BY DEF ThreadStep, Send, Reply, SendFails, EnterReadWriteDispatch, PollReturns,
         DispatchNothing, DispatchOther, DispatchResponse, SkipRemoved, CallFilter,
         FilterPasses, InvokeFilter, DropResponse, Dispatching, WriteContext, FinishDialog,
         connVars
<1>5. UNCHANGED link
  BY <1>4 DEF TypeOK, NoFailure
<1>6. QED
  BY <1>1, <1>3, <1>5 DEF NoFailure

LEMMA NoFailureEnvironment ==
  ASSUME Faults = {}, TypeOK, NoFailure, Environment
  PROVE  NoFailure'
<1>1. CASE \E c \in Calls : PortalAccepts(c)
  BY <1>1 DEF PortalAccepts, TypeOK, NoFailure, connVars
<1>2. ASSUME NEW c \in Calls, NEW a \in Answers, UserAnswers(c, a)
      PROVE  NoFailure'
  <2>1. Response(c, a) \in Signals /\ Response(c, a).type # "Disconnected"
    BY DEF Signals, Response
  <2>2. QED
    BY <1>2, <2>1 DEF UserAnswers, TypeOK, NoFailure
<1>3. QED
  BY <1>1, <1>2 DEF Environment, PortalRefuses, Disconnect

LEMMA NoFailureInvariant ==
  ASSUME Faults = {}
  PROVE  Spec => []NoFailure
<1>1. Init => NoFailure
  BY DEF Init, NoFailure
<1>2. TypeOK /\ NoFailure /\ [Next]_vars => NoFailure'
  <2>1. CASE UNCHANGED vars
    BY <2>1 DEF NoFailure, vars, connVars, callVars
  <2>2. QED
    BY <2>1, NoFailureCaller, NoFailureThreadStep, NoFailureEnvironment DEF Next
<1>3. QED
  BY <1>1, <1>2, TypeCorrect, PTL DEF Spec

(* Without failures a call returns only through the end of its wait loop.  *)
LEMMA SendFailsNever ==
  ASSUME Faults = {}, TypeOK, NoFailure, NEW t \in Threads
  PROVE  ~SendFails(t)
BY DEF SendFails, TypeOK, NoFailure

(* Every filter on the connection belongs to a running dialog of its own.  *)
LEMMA DanglingCaller ==
  ASSUME TypeOK, FiltersAlive, NEW t \in Threads, Caller(t)
  PROVE  FiltersAlive'
<1>1. CASE UNCHANGED <<filters, frame>>
  BY <1>1 DEF FiltersAlive, Alive
<1>2. ASSUME NEW c \in Calls, NEW o \in Ops \cap Dialogs, NEW f \in Frames,
             BeginDialog(t, c, o, f)
      PROVE  FiltersAlive'
  <2> DEFINE e == [func |-> EntryPoint[o].func, slot |-> <<t, f>>, call |-> c]
             n == Len(filters)
  <2>1. e \in Filters
    BY EntryPointType DEF Filters, Slots, Dialogs
  <2>2. filters' = Append(filters, e) /\ filters \in Seq(Filters)
    BY <1>2 DEF BeginDialog, TypeOK
  <2>3. /\ n \in Nat
        /\ DOMAIN filters = 1 .. n /\ DOMAIN filters' = 1 .. (n + 1)
        /\ filters'[n + 1] = e
        /\ \A k \in 1 .. n : filters'[k] = filters[k]
    BY <2>1, <2>2, AppendShape
  <2>4. frame[t] = NULL /\ frame' = [frame EXCEPT ![t] = f] /\ f # NULL
    BY <1>2 DEF BeginDialog, Calling, TypeOK, InDialog
  <2>5. \A k \in 1 .. n : /\ filters[k].slot \in Slots
                          /\ filters[k].slot[1] # t
                          /\ frame[filters[k].slot[1]] = filters[k].slot[2]
    <3>1. ASSUME NEW k \in 1 .. n
          PROVE  /\ filters[k].slot \in Slots
                 /\ frame[filters[k].slot[1]] = filters[k].slot[2]
      <4>1. filters[k] \in Filters /\ Alive(filters[k].slot)
        BY <2>2, <2>3 DEF FiltersAlive
      <4>2. QED
        BY <4>1 DEF Filters, Alive
    <3>2. ASSUME NEW k \in 1 .. n
          PROVE  filters[k].slot[1] # t
      BY <3>1, <2>4 DEF Slots
    <3>3. QED
      BY <3>1, <3>2
  <2>6. e.slot[1] = t /\ e.slot[2] = f
    OBVIOUS
  <2> HIDE DEF e, n
  <2>7. \A k \in 1 .. (n + 1) : frame'[filters'[k].slot[1]] = filters'[k].slot[2]
    <3>1. ASSUME NEW k \in 1 .. n
          PROVE  frame'[filters'[k].slot[1]] = filters'[k].slot[2]
      <4>1. filters[k].slot[1] \in Threads
        BY <2>5 DEF Slots
      <4>2. QED
        BY <2>3, <2>4, <2>5, <4>1 DEF TypeOK
    <3>2. frame'[filters'[n + 1].slot[1]] = filters'[n + 1].slot[2]
      BY <2>3, <2>4, <2>6 DEF TypeOK
    <3>3. QED
      BY <2>3, <3>1, <3>2
  <2>8. \A j, k \in 1 .. (n + 1) : filters'[j].slot = filters'[k].slot => j = k
    BY <2>3, <2>5, <2>6 DEF FiltersAlive
  <2>9. QED
    BY <2>3, <2>7, <2>8 DEF FiltersAlive, Alive
<1>3. QED
  BY <1>1, <1>2 DEF Caller, BeginNative, BeginFails, connVars, threadVars

LEMMA DanglingFinish ==
  ASSUME TypeOK, FiltersAlive, NEW t \in Threads, NEW k \in DOMAIN filters,
         FinishDialog(t, k)
  PROVE  FiltersAlive'
<1> DEFINE n == Len(filters)
           g(i) == IF i < k THEN i ELSE i + 1
<1>1. n \in Nat /\ DOMAIN filters = 1 .. n /\ filters \in Seq(Filters)
  BY DEF TypeOK
<1>2. /\ DOMAIN filters' = 1 .. (n - 1)
      /\ \A i \in 1 .. (n - 1) : filters'[i] = filters[g(i)]
  <2>1. filters' = RemoveAt(filters, k)
    BY DEF FinishDialog, Unregister
  <2>2. /\ filters' \in Seq(Filters) /\ Len(filters') = n - 1
        /\ \A i \in 1 .. (n - 1) : filters'[i] = IF i < k THEN filters[i] ELSE filters[i + 1]
    BY <1>1, <2>1, RemoveAtProperties
  <2>3. QED
    BY <1>1, <2>2
<1>3. \A i \in 1 .. (n - 1) : g(i) \in 1 .. n /\ g(i) # k
  BY <1>1
<1>4. \A i, j \in 1 .. (n - 1) : g(i) = g(j) => i = j
  BY <1>1
<1>5. filters[k].slot = SlotOf(t) /\ frame' = [frame EXCEPT ![t] = NULL]
  BY DEF FinishDialog, Unregister, Matches, Return
<1> HIDE DEF g, n
<1>6. \A i \in 1 .. (n - 1) : filters[g(i)].slot # SlotOf(t)
  BY <1>1, <1>3, <1>5 DEF FiltersAlive
<1>7. \A i \in 1 .. (n - 1) : frame'[filters'[i].slot[1]] = filters'[i].slot[2]
  <2> TAKE i \in 1 .. (n - 1)
  <2>1. PICK u \in Threads, f \in Frames : filters[g(i)].slot = <<u, f>>
    <3>1. filters[g(i)] \in Filters
      BY <1>1, <1>3
    <3>2. QED
      BY <3>1 DEF Filters, Slots
  <2>2. frame[u] = f
    BY <1>1, <1>3, <2>1 DEF FiltersAlive, Alive
  <2>3. u # t
    BY <1>6, <2>1, <2>2 DEF SlotOf
  <2>4. QED
    BY <1>2, <1>5, <2>1, <2>2, <2>3 DEF TypeOK
<1>8. \A i, j \in 1 .. (n - 1) : filters'[i].slot = filters'[j].slot => i = j
  BY <1>1, <1>2, <1>3, <1>4 DEF FiltersAlive
<1>9. QED
  BY <1>2, <1>7, <1>8 DEF FiltersAlive, Alive

LEMMA DanglingNext ==
  ASSUME Faults = {}, TypeOK, NoFailure, FiltersAlive, [Next]_vars
  PROVE  FiltersAlive'
<1>1. ASSUME UNCHANGED <<filters, frame>>
      PROVE  FiltersAlive'
  BY <1>1 DEF FiltersAlive, Alive
<1>2. ASSUME NEW t \in Threads, ThreadStep(t)
      PROVE  FiltersAlive'
  <2>1. CASE Reply(t)
    <3>1. CASE InDialog(t)
      BY <1>1, <2>1, <3>1 DEF Reply, connVars
    <3>2. CASE ~InDialog(t)
      <4>1. filters' = filters /\ frame' = [frame EXCEPT ![t] = NULL] /\ frame[t] = NULL
        BY <2>1, <3>2 DEF Reply, Return, InDialog, connVars
      <4>2. frame' = frame
        BY <4>1 DEF TypeOK
      <4>3. QED
        BY <1>1, <4>1, <4>2
    <3>3. QED
      BY <3>1, <3>2
  <2>2. CASE \E k \in DOMAIN filters : FinishDialog(t, k)
    BY <2>2, DanglingFinish
  <2>3. ~SendFails(t)
    BY SendFailsNever
  <2>4. QED
    BY <1>1, <1>2, <2>1, <2>2, <2>3
       DEF ThreadStep, Send, EnterReadWriteDispatch, PollReturns, DispatchNothing,
           DispatchOther, DispatchResponse, SkipRemoved, CallFilter, FilterPasses,
           InvokeFilter, DropResponse, WriteContext, connVars, threadVars
<1>3. CASE Environment
  BY <1>1, <1>3 DEF Environment, PortalAccepts, PortalRefuses, UserAnswers, Disconnect,
                    connVars, threadVars
<1>4. CASE UNCHANGED vars
  BY <1>1, <1>4 DEF vars, connVars, threadVars
<1>5. QED
  BY <1>2, <1>3, <1>4, DanglingCaller DEF Next

LEMMA FiltersStayAlive ==
  ASSUME Faults = {}
  PROVE  Spec => []FiltersAlive
<1>1. Init => FiltersAlive
  BY DEF Init, FiltersAlive
<1>2. TypeOK /\ NoFailure /\ FiltersAlive /\ [Next]_vars => FiltersAlive'
  BY DanglingNext
<1>3. QED
  BY <1>1, <1>2, TypeCorrect, NoFailureInvariant, PTL DEF Spec

-----------------------------------------------------------------------------
(* One thread, no failures, dialogs only: the inductive invariant.         *)

OneThread == \A t, u \in Threads : t = u
Serial    == OneThread /\ Ops \subseteq Dialogs /\ Faults = {}

(* What call c is to return.                                               *)
Own(c) == [from |-> c, files |-> Picked(Func(c), answer[c])]

(* A call has not begun, could not begin, has returned its own answer, or  *)
(* is running.                                                             *)
CallState(c) ==
  \/ op[c] = NULL /\ request[c] = "none" /\ outcome[c].status = "none"
  \/ op[c] \in Dialogs /\ request[c] = "none" /\ outcome[c].status = "error"
  \/ /\ op[c] \in Dialogs /\ request[c] = "answered"
     /\ outcome[c].status = "ok" /\ outcome[c].value = Own(c)
  \/ op[c] \in Dialogs /\ outcome[c].status = "none" /\ Running(c)

(* The filter runs for the thread's own dialog, and its value is in the    *)
(* context before only the flag is left to store.                          *)
Storing(t) ==
  /\ callback.slot = SlotOf(t) /\ callback.func = Func(cur[t])
  /\ callback.call = cur[t] /\ callback.value = Own(cur[t])
  /\ request[cur[t]] = "answered"
  /\ Len(callback.todo) \in {1, 2}
  /\ Len(callback.todo) = 2 => callback.todo[1] # callback.todo[2]
  /\ Len(callback.todo) = 1 /\ callback.todo[1] = "completed" =>
       filterContext[SlotOf(t)].value = Own(cur[t])

(* A running dialog has the only filter, and what its completed context    *)
(* holds is the answer to its own request.                                 *)
Serving(t) ==
  /\ op[cur[t]] \in Dialogs /\ outcome[cur[t]].status = "none"
  /\ frame[t] # NULL
  /\ filters = <<FilterOf(t)>>
  /\ pc[t] = "send"  => request[cur[t]] = "made"
  /\ pc[t] = "reply" => request[cur[t]] \in {"sent", "open", "answered"}
  /\ pc[t] \in {"wait", "poll", "dispatch", "walk", "filter", "callback"} =>
       request[cur[t]] \in {"open", "answered"}
  /\ pc[t] \in {"walk", "filter"} => walk = <<FilterOf(t)>>
  /\ pc[t] = "callback" => Storing(t)
  /\ pc[t] # "callback" /\ filterContext[SlotOf(t)].completed =>
       /\ request[cur[t]] = "answered"
       /\ filterContext[SlotOf(t)].value = Own(cur[t])

Resting(t) == frame[t] = NULL /\ filters = <<>>

(* A queued Response is the only one, answers the request of the running   *)
(* dialog, and has not been stored.                                        *)
Expected(t, msg) ==
  /\ cur[t] # NULL
  /\ msg = Response(cur[t], answer[cur[t]])
  /\ request[cur[t]] = "answered"
  /\ pc[t] # "callback"
  /\ ~filterContext[SlotOf(t)].completed

Queued ==
  /\ \A i \in 1 .. Len(inbox) :
       inbox[i].type = "Response" => \A t \in Threads : Expected(t, inbox[i])
  /\ \A i, j \in 1 .. Len(inbox) :
       inbox[i].type = "Response" /\ inbox[j].type = "Response" => i = j

SerialInv ==
  /\ \A c \in Calls : CallState(c)
  /\ \A t \in Threads : IF cur[t] = NULL THEN Resting(t) ELSE Serving(t)
  /\ Queued

-----------------------------------------------------------------------------
(* One thread, no failures, dialogs only: every step preserves SerialInv.  *)

LEMMA DialogFacts ==
  /\ NULL \notin Dialogs
  /\ \A o \in Dialogs : EntryPoint[o].func # "none"
<1>1. Dialogs \subseteq AllOps
  BY DEF Dialogs
<1>2. \A o \in Dialogs : EntryPoint[o].func \in {"filter_func", "filter_func_multi"}
  BY EntryPointType DEF Dialogs
<1>3. QED
  BY <1>1, <1>2

(* A call none of whose records changes stays in its state, if the threads *)
(* stay in their calls.                                                    *)
LEMMA SameCallState ==
  ASSUME NEW c \in Calls, CallState(c), Running(c) => Running(c)',
         op'[c] = op[c], request'[c] = request[c], answer'[c] = answer[c],
         outcome'[c] = outcome[c]
  PROVE  CallState(c)'
BY DEF CallState, Own, Func

LEMMA InitSerial == Init => SerialInv
BY DEF Init, SerialInv, CallState, Resting, Queued, NotReturned

LEMMA SerialBeginDialog ==
  ASSUME Serial, TypeOK, SerialInv, NEW t \in Threads, NEW c \in Calls,
         NEW o \in Ops \cap Dialogs, NEW f \in Frames, BeginDialog(t, c, o, f)
  PROVE  SerialInv'
<1>1. /\ cur[t] = NULL /\ frame[t] = NULL /\ filters = <<>>
      /\ op[c] = NULL /\ \A u \in Threads : u = t
  BY DEF BeginDialog, Calling, TypeOK, SerialInv, Resting, Serial, OneThread
<1>2. outcome[c].status = "none"
  BY <1>1, DialogFacts DEF SerialInv, CallState
<1>3. \A d \in Calls : ~Running(d)
  BY <1>1 DEF Running
<1>4. op' = [op EXCEPT ![c] = o] /\ op'[c] = o /\ request'[c] = "made" /\ cur'[t] = c
      /\ frame'[t] = f /\ pc'[t] = "send"
  BY DEF BeginDialog, TypeOK, Goto
<1>5. ASSUME NEW d \in Calls PROVE CallState(d)'
  <2>1. CASE d = c
    BY <1>2, <1>4, <2>1 DEF CallState, Running, BeginDialog
  <2>2. CASE d # c
    <3>1. op'[d] = op[d] /\ request'[d] = request[d] /\ answer'[d] = answer[d]
          /\ outcome'[d] = outcome[d]
      BY <2>2 DEF BeginDialog, TypeOK
    <3>2. QED
      BY <1>3, <3>1, SameCallState DEF SerialInv
  <2>3. QED
    BY <2>1, <2>2
<1>6. Serving(t)'
  <2>1. filters' = <<[func |-> EntryPoint[o].func, slot |-> <<t, f>>, call |-> c]>>
    BY <1>1 DEF BeginDialog
  <2>2. filters' = <<FilterOf(t)'>>
    BY <1>4, <2>1 DEF FilterOf, Func, SlotOf
  <2>3. ~filterContext'[<<t, f>>].completed
    BY DEF BeginDialog, ZeroContext, EmptyContext, Slots, TypeOK
  <2>4. outcome'[c].status = "none" /\ f # NULL
    BY <1>1, <1>2 DEF BeginDialog
  <2>5. QED
    BY <1>4, <2>2, <2>3, <2>4 DEF Serving, SlotOf
<1>7. Queued'
  <2>1. \A i \in 1 .. Len(inbox) : inbox[i].type # "Response"
    BY <1>1 DEF SerialInv, Queued, Expected
  <2>2. inbox' = inbox \/ inbox' = Append(inbox, Signal("NameAcquired"))
    BY DEF BeginDialog, dbus_init
  <2>3. \A i \in 1 .. Len(inbox') : inbox'[i].type # "Response"
    <3>1. Signal("NameAcquired") \in Signals /\ Signal("NameAcquired").type # "Response"
      BY DEF Signals, Signal
    <3>2. CASE inbox' = Append(inbox, Signal("NameAcquired"))
      <4>1. \A i \in 1 .. Len(inbox') :
              \/ i \in 1 .. Len(inbox) /\ inbox'[i] = inbox[i]
              \/ inbox'[i] = Signal("NameAcquired")
        BY <3>1, <3>2, AppendCases DEF TypeOK
      <4>2. QED
        BY <2>1, <3>1, <4>1
    <3>3. QED
      BY <2>1, <2>2, <3>2
  <2>4. QED
    BY <2>3 DEF Queued
<1>8. QED
  BY <1>1, <1>4, <1>5, <1>6, <1>7 DEF SerialInv

LEMMA SerialBeginFails ==
  ASSUME Serial, TypeOK, SerialInv, NEW t \in Threads, NEW c \in Calls, NEW o \in Ops,
         BeginFails(t, c, o)
  PROVE  SerialInv'
<1>1. /\ cur[t] = NULL /\ op[c] = NULL /\ \A u \in Threads : u = t
      /\ o \in Dialogs
  BY DEF BeginFails, Calling, TypeOK, Serial, OneThread
<1>2. request[c] = "none"
  BY <1>1, DialogFacts DEF SerialInv, CallState
<1>3. UNCHANGED <<connVars, threadVars, request, answer>>
  BY <1>1 DEF BeginFails, Dialogs
<1>4. op'[c] = o /\ outcome'[c].status = "error"
  BY DEF BeginFails, TypeOK
<1>5. ASSUME NEW d \in Calls PROVE CallState(d)'
  <2>1. CASE d = c
    BY <1>1, <1>2, <1>3, <1>4, <2>1 DEF CallState
  <2>2. CASE d # c
    <3>1. op'[d] = op[d] /\ request'[d] = request[d] /\ answer'[d] = answer[d]
          /\ outcome'[d] = outcome[d] /\ Running(d)' = Running(d)
      BY <1>3, <2>2 DEF BeginFails, TypeOK, threadVars, Running
    <3>2. QED
      BY <3>1, SameCallState DEF SerialInv
  <2>3. QED
    BY <2>1, <2>2
<1>6. Queued'
  BY <1>1, <1>3 DEF SerialInv, Queued, Expected, connVars
<1>7. QED
  BY <1>1, <1>3, <1>5, <1>6 DEF SerialInv, Resting, connVars, threadVars

(* A thread inside a call serves it.                                       *)
LEMMA InsideCall ==
  ASSUME Serial, TypeOK, SerialInv, NEW t \in Threads, pc[t] # "idle"
  PROVE  /\ \A u \in Threads : u = t
         /\ cur[t] \in Calls
         /\ Serving(t)
         /\ CallState(cur[t])
         /\ \A d \in Calls : d # cur[t] => ~Running(d)
BY DEF Serial, OneThread, TypeOK, SerialInv, Running

LEMMA SerialSend ==
  ASSUME Serial, TypeOK, SerialInv, NEW t \in Threads, Send(t)
  PROVE  SerialInv'
<1>1. /\ pc[t] = "send" /\ pc' = [pc EXCEPT ![t] = "reply"]
      /\ request' = [request EXCEPT ![cur[t]] = "sent"]
      /\ UNCHANGED <<connVars, cur, frame, filterContext, op, answer, outcome>>
  BY DEF Send, Goto
<1>2. /\ \A u \in Threads : u = t
      /\ cur[t] \in Calls /\ Serving(t) /\ CallState(cur[t])
  BY <1>1, InsideCall
<1>3. request[cur[t]] = "made" /\ request'[cur[t]] = "sent" /\ pc'[t] = "reply"
  BY <1>1, <1>2 DEF Serving, TypeOK
<1>4. ASSUME NEW d \in Calls PROVE CallState(d)'
  <2>1. CASE d = cur[t]
    BY <1>1, <1>2, <2>1 DEF CallState, Serving, Running
  <2>2. CASE d # cur[t]
    <3>1. request'[d] = request[d] /\ Running(d)' = Running(d)
      BY <1>1, <1>2, <2>2 DEF TypeOK, Running
    <3>2. QED
      BY <1>1, <3>1, SameCallState DEF SerialInv
  <2>3. QED
    BY <2>1, <2>2
<1>5. Serving(t)'
  <2>1. ~filterContext[SlotOf(t)].completed
    BY <1>1, <1>3, <1>2 DEF Serving
  <2>2. QED
    BY <1>1, <1>2, <1>3, <2>1 DEF Serving, SlotOf, FilterOf, Func, connVars
<1>6. Queued'
  <2>1. \A i \in 1 .. Len(inbox) : inbox[i].type # "Response"
    BY <1>3 DEF SerialInv, Queued, Expected
  <2>2. QED
    BY <1>1, <2>1 DEF Queued, connVars
<1>7. QED
  BY <1>1, <1>2, <1>4, <1>5, <1>6 DEF SerialInv

(* The thread moves on without touching any record.                        *)
LEMMA SerialGoto ==
  ASSUME Serial, TypeOK, SerialInv, NEW t \in Threads,
         pc[t] \in {"reply", "wait", "poll", "dispatch", "walk"},
         pc[t] = "reply" => request[cur[t]] \in {"open", "answered"},
         NEW l \in {"wait", "poll", "dispatch", "walk", "filter"},
         pc' = [pc EXCEPT ![t] = l],
         l \in {"walk", "filter"} => walk' = filters,
         UNCHANGED <<filters, inbox, callback, cur, frame, filterContext, callVars>>
  PROVE  SerialInv'
<1>1. /\ \A u \in Threads : u = t
      /\ cur[t] \in Calls /\ Serving(t)
      /\ pc'[t] = l
  BY InsideCall DEF TypeOK
<1>2. ASSUME NEW d \in Calls PROVE CallState(d)'
  <2>1. Running(d)' = Running(d)
    BY DEF Running
  <2>2. QED
    BY <2>1, SameCallState DEF SerialInv, callVars
<1>3. Serving(t)'
  BY <1>1 DEF Serving, SlotOf, FilterOf, Func, Own, callVars
<1>4. Queued'
  BY <1>1 DEF SerialInv, Queued, Expected, SlotOf, callVars
<1>5. QED
  BY <1>1, <1>2, <1>3, <1>4 DEF SerialInv

LEMMA SerialReply ==
  ASSUME Serial, TypeOK, SerialInv, NEW t \in Threads, Reply(t)
  PROVE  SerialInv'
<1>1. pc[t] = "reply" /\ request[cur[t]] \in {"open", "answered"}
  BY DEF Reply
<1>2. InDialog(t)
  BY <1>1, InsideCall DEF Serving, InDialog
<1>3. /\ pc' = [pc EXCEPT ![t] = "wait"]
      /\ UNCHANGED <<filters, inbox, callback, cur, frame, filterContext, callVars>>
  BY <1>2 DEF Reply, Goto, callVars, connVars
<1>4. QED
  BY <1>1, <1>3, SerialGoto

LEMMA SerialLoop ==
  ASSUME Serial, TypeOK, SerialInv, NEW t \in Threads,
         \/ EnterReadWriteDispatch(t) \/ PollReturns(t) \/ DispatchNothing(t)
         \/ DispatchResponse(t) \/ CallFilter(t)
  PROVE  SerialInv'
<1>1. /\ pc[t] \in {"wait", "poll", "dispatch", "walk"}
      /\ \E l \in {"wait", "poll", "dispatch", "walk", "filter"} :
           /\ pc' = [pc EXCEPT ![t] = l]
           /\ l \in {"walk", "filter"} => walk' = filters
      /\ UNCHANGED <<filters, inbox, callback, cur, frame, filterContext, callVars>>
  BY InsideCall
     DEF EnterReadWriteDispatch, PollReturns, DispatchNothing, DispatchResponse, CallFilter,
         Dispatching, Serving, connVars, Goto
<1>2. QED
  BY <1>1, SerialGoto

LEMMA SerialDispatchOther ==
  ASSUME Serial, TypeOK, SerialInv, NEW t \in Threads, DispatchOther(t)
  PROVE  SerialInv'
<1>1. /\ pc[t] = "dispatch" /\ pc' = [pc EXCEPT ![t] = "wait"]
      /\ UNCHANGED <<filters, callback, cur, frame, filterContext, callVars>>
      /\ inbox # <<>> /\ inbox' = Tail(inbox)
  BY DEF DispatchOther, Dispatching, Goto
<1>2. /\ \A u \in Threads : u = t
      /\ cur[t] \in Calls /\ Serving(t) /\ pc'[t] = "wait"
  BY <1>1, InsideCall DEF TypeOK
<1>3. ASSUME NEW d \in Calls PROVE CallState(d)'
  <2>1. Running(d)' = Running(d)
    BY <1>1 DEF Running
  <2>2. QED
    BY <1>1, <2>1, SameCallState DEF SerialInv, callVars
<1>4. Serving(t)'
  BY <1>1, <1>2 DEF Serving, SlotOf, FilterOf, Func, Own, callVars
<1>5. Queued'
  <2>1. ASSUME NEW i \in 1 .. Len(inbox'), inbox'[i].type = "Response"
        PROVE  /\ cur'[t] # NULL /\ inbox'[i] = Response(cur'[t], answer'[cur'[t]])
               /\ request'[cur'[t]] = "answered" /\ pc'[t] # "callback"
               /\ ~filterContext'[<<t, frame'[t]>>].completed
    <3>1. i + 1 \in 1 .. Len(inbox) /\ inbox'[i] = inbox[i + 1]
      BY <1>1, TakeSignal
    <3>2. Expected(t, inbox[i + 1])
      BY <2>1, <3>1 DEF SerialInv, Queued
    <3>3. QED
      BY <1>1, <1>2, <3>1, <3>2 DEF Expected, SlotOf, callVars
  <2>2. ASSUME NEW i \in 1 .. Len(inbox'), NEW j \in 1 .. Len(inbox'),
               inbox'[i].type = "Response", inbox'[j].type = "Response"
        PROVE  i = j
    <3>1. /\ i + 1 \in 1 .. Len(inbox) /\ inbox[i + 1].type = "Response"
          /\ j + 1 \in 1 .. Len(inbox) /\ inbox[j + 1].type = "Response"
      BY <1>1, <2>2, TakeSignal
    <3>2. i + 1 = j + 1
      BY <3>1 DEF SerialInv, Queued
    <3>3. QED
      BY <3>2, <1>1, TakeSignal
  <2>3. QED
    BY <1>2, <2>1, <2>2 DEF Queued, Expected, SlotOf
<1>6. QED
  BY <1>1, <1>2, <1>3, <1>4, <1>5 DEF SerialInv

(* The Response that is dispatched is the answer to the running dialog, it *)
(* is the only one, and the dialog's own filter, the only one, takes it.   *)
LEMMA DispatchedResponse ==
  ASSUME Serial, TypeOK, SerialInv, NEW t \in Threads, pc[t] \in {"walk", "filter"}
  PROVE  /\ \A u \in Threads : u = t
         /\ cur[t] \in Calls /\ Serving(t)
         /\ Expected(t, Head(inbox))
         /\ inbox' = Tail(inbox) => \A i \in 1 .. Len(inbox') : inbox'[i].type # "Response"
         /\ filters = <<FilterOf(t)>> /\ walk = filters
         /\ ~Passes(Head(walk)) /\ ~Removed(Head(walk))
<1>1. inbox # <<>> /\ Head(inbox).type = "Response"
  BY HeadResponse DEF TypeOK
<1>2. /\ \A u \in Threads : u = t
      /\ cur[t] \in Calls /\ Serving(t)
  BY InsideCall
<1>3. Len(inbox) \in Nat \ {0} /\ Head(inbox) = inbox[1]
  BY <1>1, TailProperties DEF TypeOK
<1>4. Expected(t, Head(inbox))
  BY <1>1, <1>3 DEF SerialInv, Queued
<1>5. ASSUME inbox' = Tail(inbox), NEW i \in 1 .. Len(inbox'), inbox'[i].type = "Response"
      PROVE  FALSE
  <2>1. i + 1 \in 1 .. Len(inbox) /\ inbox[i + 1].type = "Response"
    BY <1>1, <1>5, TakeSignal
  <2>2. i + 1 = 1
    BY <1>1, <1>3, <2>1 DEF SerialInv, Queued
  <2>3. QED
    BY <2>2
<1>6. filters = <<FilterOf(t)>> /\ walk = filters /\ Head(walk) = FilterOf(t)
  BY <1>2 DEF Serving
<1>7. ~Passes(Head(walk))
  BY <1>4, <1>6 DEF Passes, Completed, Alive, Expected, FilterOf, SlotOf
<1>8. ~Removed(Head(walk))
  <2>1. 1 \in DOMAIN filters /\ filters[1] = Head(walk)
    BY <1>6
  <2>2. QED
    BY <2>1 DEF Removed, Range
<1>9. QED
  BY <1>2, <1>4, <1>5, <1>6, <1>7, <1>8

LEMMA SerialInvokeFilter ==
  ASSUME Serial, TypeOK, SerialInv, NEW t \in Threads, InvokeFilter(t)
  PROVE  SerialInv'
<1>1. /\ \A u \in Threads : u = t
      /\ pc[t] = "filter" /\ pc' = [pc EXCEPT ![t] = "callback"]
      /\ cur[t] \in Calls /\ Serving(t)
      /\ Expected(t, Head(inbox))
      /\ \A i \in 1 .. Len(inbox') : inbox'[i].type # "Response"
      /\ filters = <<FilterOf(t)>> /\ walk = filters
      /\ UNCHANGED <<filters, cur, frame, filterContext, callVars>>
  BY DispatchedResponse DEF InvokeFilter, Goto
<1>2. Head(walk) = FilterOf(t) /\ pc'[t] = "callback"
  BY <1>1 DEF TypeOK
<1>3. /\ callback'.slot = SlotOf(t) /\ callback'.func = Func(cur[t])
      /\ callback'.call = cur[t]
      /\ callback'.value = Own(cur[t])
      /\ callback'.todo = Publishes(Func(cur[t]))
  BY <1>1, <1>2 DEF InvokeFilter, FilterOf, SlotOf, Expected, Response, Own
<1>5. Len(callback'.todo) = 2 /\ callback'.todo[1] # callback'.todo[2]
  <2>1. \/ callback'.todo = <<"value", "completed">>
        \/ callback'.todo = <<"completed", "value">>
    BY <1>3 DEF Publishes
  <2>2. QED
    BY <2>1
<1>6. ASSUME NEW d \in Calls PROVE CallState(d)'
  <2>1. Running(d)' = Running(d)
    BY <1>1 DEF Running
  <2>2. QED
    BY <1>1, <2>1, SameCallState DEF SerialInv, callVars
<1>7. Storing(t)'
  BY <1>1, <1>3, <1>5 DEF Storing, Expected, SlotOf, Func, Own, callVars
<1>8. Serving(t)'
  BY <1>1, <1>2, <1>7 DEF Serving, Expected, SlotOf, FilterOf, Func, callVars
<1>9. Queued'
  BY <1>1 DEF Queued
<1>10. QED
  BY <1>1, <1>6, <1>8, <1>9 DEF SerialInv

(* The dialog's filter is there, finds the context not completed and takes *)
(* the Response.                                                           *)
LEMMA SerialNoStray ==
  ASSUME Serial, TypeOK, SerialInv, NEW t \in Threads
  PROVE  ~SkipRemoved(t) /\ ~FilterPasses(t) /\ ~DropResponse(t)
<1>1. pc[t] \in {"walk", "filter"} =>
        walk # <<>> /\ ~Passes(Head(walk)) /\ ~Removed(Head(walk))
  BY DispatchedResponse
<1>2. QED
  BY <1>1 DEF SkipRemoved, FilterPasses, DropResponse

(* One field is stored.  The value comes before the flag, or the flag is   *)
(* not the last field the filter stores.                                   *)
LEMMA SerialWriteContext ==
  ASSUME Serial, TypeOK, SerialInv, NEW t \in Threads, WriteContext(t)
  PROVE  SerialInv'
<1> DEFINE s   == <<t, frame[t]>>
           own == Own(cur[t])
           ctx == filterContext[s]
<1>1. /\ pc[t] = "callback"
      /\ UNCHANGED <<filters, inbox, cur, frame, callVars>>
  BY DEF WriteContext
<1>2. /\ \A u \in Threads : u = t
      /\ cur[t] \in Calls /\ Serving(t) /\ Storing(t) /\ s \in Slots
  BY <1>1, InsideCall DEF Serving, TypeOK, Slots
<1>3. /\ callback.slot = s /\ callback.func = Func(cur[t]) /\ callback.call = cur[t]
      /\ callback.value = own /\ callback.todo \in Seq({"value", "completed"})
      /\ Len(callback.todo) \in {1, 2}
  BY <1>1, <1>2 DEF Storing, SlotOf, TypeOK, Callbacks
<1>4. Fits(callback)
  BY <1>3 DEF Fits, Alive
<1>5. /\ Head(callback.todo) = callback.todo[1]
      /\ callback.todo[1] \in {"value", "completed"}
      /\ Len(callback.todo) = 2 => callback.todo[2] \in {"value", "completed"}
  BY <1>3
<1>6. \/ /\ callback.todo[1] = "completed"
         /\ filterContext' = [filterContext EXCEPT ![s] = [ctx EXCEPT !.completed = TRUE]]
      \/ /\ callback.todo[1] = "value"
         /\ filterContext' = [filterContext EXCEPT ![s] = [ctx EXCEPT !.value = own]]
  BY <1>3, <1>4, <1>5 DEF WriteContext
<1>7. ctx \in Contexts
  BY <1>2 DEF TypeOK
<1>8. \/ callback.todo[1] = "completed" /\ filterContext'[s].value = ctx.value
      \/ callback.todo[1] = "value" /\ filterContext'[s].value = own
  <2>1. \/ /\ callback.todo[1] = "completed"
           /\ filterContext'[s] = [ctx EXCEPT !.completed = TRUE]
        \/ /\ callback.todo[1] = "value"
           /\ filterContext'[s] = [ctx EXCEPT !.value = own]
    BY <1>2, <1>6 DEF TypeOK
  <2>2. QED
    BY <1>7, <2>1 DEF Contexts
<1>9. Own(cur[t])' = own /\ Func(cur[t])' = Func(cur[t]) /\ SlotOf(t)' = s /\ SlotOf(t) = s
  BY <1>1 DEF Own, Func, SlotOf, callVars
<1> HIDE DEF own, ctx
<1>10. ASSUME Serving(t)' PROVE SerialInv'
  <2>1. ASSUME NEW d \in Calls PROVE CallState(d)'
    <3>1. Running(d)' = Running(d)
      BY <1>1 DEF Running
    <3>2. QED
      BY <1>1, <3>1, SameCallState DEF SerialInv, callVars
  <2>2. \A i \in 1 .. Len(inbox) : inbox[i].type # "Response"
    BY <1>1 DEF SerialInv, Queued, Expected
  <2>3. QED
    BY <1>1, <1>2, <1>10, <2>1, <2>2 DEF SerialInv, Queued
<1>11. CASE Len(callback.todo) = 2
  <2>1. callback' = [callback EXCEPT !.todo = Tail(callback.todo)] /\ pc' = pc
    BY <1>11 DEF WriteContext
  <2>2. /\ callback'.slot = s /\ callback'.func = Func(cur[t]) /\ callback'.call = cur[t]
        /\ callback'.value = own /\ callback'.todo = Tail(callback.todo)
    BY <1>1, <1>3, <2>1 DEF Callbacks, TypeOK
  <2>3. Len(callback'.todo) = 1 /\ callback'.todo[1] = callback.todo[2]
    BY <1>3, <1>11, <2>2
  <2>4. callback.todo[1] # callback.todo[2]
    BY <1>2, <1>11 DEF Storing
  <2>5. callback.todo[2] = "completed" => filterContext'[s].value = own
    BY <1>8, <2>4
  <2>6. request'[cur'[t]] = "answered" /\ cur' = cur
    BY <1>1, <1>2 DEF Storing, callVars
  <2>7. Storing(t)'
    BY <1>9, <2>2, <2>3, <2>5, <2>6 DEF Storing, own
  <2>8. Serving(t)'
    BY <1>1, <1>2, <2>1, <2>7 DEF Serving, SlotOf, FilterOf, Func, callVars
  <2>9. QED
    BY <1>10, <2>8
<1>12. CASE Len(callback.todo) = 1
  <2>1. pc' = [pc EXCEPT ![t] = "wait"] /\ pc'[t] = "wait"
    BY <1>12 DEF WriteContext, Goto, TypeOK
  <2>2. filterContext'[s].value = own
    BY <1>2, <1>5, <1>8, <1>9, <1>12 DEF Storing, own, ctx
  <2>3. request[cur[t]] = "answered"
    BY <1>2 DEF Storing
  <2>4. Serving(t)'
    BY <1>1, <1>2, <1>9, <2>1, <2>2, <2>3 DEF Serving, SlotOf, FilterOf, Func, callVars, own
  <2>5. QED
    BY <1>10, <2>4
<1>13. QED
  BY <1>3, <1>11, <1>12

LEMMA SerialFinishDialog ==
  ASSUME Serial, TypeOK, NoFailure, SerialInv, NEW t \in Threads, NEW k \in DOMAIN filters,
         FinishDialog(t, k)
  PROVE  SerialInv'
<1> DEFINE c == cur[t]
<1>1. /\ pc[t] = "wait" /\ LoopEnds(t) /\ filters' = RemoveAt(filters, k)
      /\ Return(t, "ok", filterContext[SlotOf(t)].value)
      /\ UNCHANGED <<inbox, filterContext, op, request, answer>>
  BY DEF FinishDialog, Unregister
<1>2. /\ \A u \in Threads : u = t
      /\ c \in Calls /\ Serving(t)
      /\ \A d \in Calls : d # c => ~Running(d)
  BY <1>1, InsideCall
<1>3. filterContext[SlotOf(t)].completed
  BY <1>1 DEF LoopEnds, NoFailure
<1>4. /\ op[c] \in Dialogs /\ request[c] = "answered"
      /\ filterContext[SlotOf(t)].value = Own(c)
  BY <1>1, <1>2, <1>3 DEF Serving
<1>5. /\ cur'[t] = NULL /\ frame'[t] = NULL
      /\ outcome' = [outcome EXCEPT ![c] = [status |-> "ok", value |-> Own(c)]]
  BY <1>1, <1>4 DEF Return, TypeOK
<1>6. filters' = <<>>
  <2>1. Len(filters) = 1 /\ filters \in Seq(Filters)
    BY <1>2 DEF Serving, TypeOK
  <2>2. filters' \in Seq(Filters) /\ Len(filters') = 0
    BY <1>1, <2>1, RemoveAtProperties
  <2>3. QED
    BY <2>2
<1>7. ASSUME NEW d \in Calls PROVE CallState(d)'
  <2>1. CASE d = c
    <3>1. outcome'[c] = [status |-> "ok", value |-> Own(c)]
      BY <1>2, <1>5 DEF TypeOK
    <3>2. Own(c) = [from |-> c, files |-> Picked(EntryPoint[op'[c]].func, answer'[c])]
      BY <1>1 DEF Own, Func
    <3> HIDE DEF c
    <3>3. op'[d] \in Dialogs /\ request'[d] = "answered" /\ outcome'[d].status = "ok"
          /\ outcome'[d].value = [from |-> d, files |-> Picked(EntryPoint[op'[d]].func, answer'[d])]
      BY <1>1, <1>4, <2>1, <3>1, <3>2
    <3>4. QED
      BY <3>3 DEF CallState, Own, Func
  <2>2. CASE d # c
    <3>1. outcome'[d] = outcome[d] /\ ~Running(d)
      BY <1>2, <1>5, <2>2 DEF TypeOK
    <3>2. QED
      BY <1>1, <3>1, SameCallState DEF SerialInv
  <2>3. QED
    BY <2>1, <2>2
<1>8. \A i \in 1 .. Len(inbox) : inbox[i].type # "Response"
  BY <1>3 DEF SerialInv, Queued, Expected
<1>9. QED
  BY <1>1, <1>2, <1>5, <1>6, <1>7, <1>8 DEF SerialInv, Resting, Queued

LEMMA SerialPortalAccepts ==
  ASSUME Serial, TypeOK, SerialInv, NEW c \in Calls, PortalAccepts(c)
  PROVE  SerialInv'
<1>1. /\ request[c] = "sent" /\ request' = [request EXCEPT ![c] = "open"]
      /\ UNCHANGED <<connVars, threadVars, op, answer, outcome>>
  BY DEF PortalAccepts
<1>2. PICK t \in Threads : cur[t] = c
  BY <1>1 DEF SerialInv, CallState, Running
<1>3. cur[t] # NULL /\ Serving(t) /\ \A u \in Threads : u = t
  BY <1>2 DEF SerialInv, Serial, OneThread
<1>4. request'[c] = "open" /\ cur'[t] = c
  BY <1>1, <1>2 DEF TypeOK, threadVars
<1>5. pc[t] = "reply"
  BY <1>1, <1>2, <1>3 DEF Serving, Storing, TypeOK
<1>6. ASSUME NEW d \in Calls PROVE CallState(d)'
  <2>1. CASE d = c
    BY <1>1, <1>2, <1>3, <1>4, <2>1 DEF CallState, Serving, Running
  <2>2. CASE d # c
    <3>1. request'[d] = request[d] /\ Running(d)' = Running(d)
      BY <1>1, <2>2 DEF TypeOK, Running, threadVars
    <3>2. QED
      BY <1>1, <3>1, SameCallState DEF SerialInv
  <2>3. QED
    BY <2>1, <2>2
<1>7. Serving(t)'
  <2>1. ~filterContext[SlotOf(t)].completed
    BY <1>1, <1>2, <1>3, <1>5 DEF Serving
  <2>2. QED
    BY <1>1, <1>2, <1>3, <1>4, <1>5, <2>1
       DEF Serving, SlotOf, FilterOf, Func, connVars, threadVars
<1>8. \A i \in 1 .. Len(inbox) : inbox[i].type # "Response"
  BY <1>1, <1>2 DEF SerialInv, Queued, Expected
<1>9. QED
  BY <1>1, <1>2, <1>3, <1>4, <1>6, <1>7, <1>8 DEF SerialInv, Queued, connVars, threadVars

LEMMA SerialUserAnswers ==
  ASSUME Serial, TypeOK, SerialInv, NEW c \in Calls, NEW a \in Answers, UserAnswers(c, a)
  PROVE  SerialInv'
<1>1. /\ request[c] = "open" /\ request' = [request EXCEPT ![c] = "answered"]
      /\ answer' = [answer EXCEPT ![c] = a] /\ inbox' = Append(inbox, Response(c, a))
      /\ UNCHANGED <<filters, walk, callback, threadVars, op, outcome>>
  BY DEF UserAnswers
<1>2. PICK t \in Threads : cur[t] = c
  BY <1>1 DEF SerialInv, CallState, Running
<1>3. cur[t] # NULL /\ Serving(t) /\ \A u \in Threads : u = t
  BY <1>2 DEF SerialInv, Serial, OneThread
<1>4. request'[c] = "answered" /\ answer'[c] = a /\ cur'[t] = c
  BY <1>1, <1>2 DEF TypeOK, threadVars
<1>5. pc[t] \in {"reply", "wait", "poll", "dispatch", "walk", "filter"}
  BY <1>1, <1>2, <1>3 DEF Serving, Storing, TypeOK
<1>6. ~filterContext[SlotOf(t)].completed
  BY <1>1, <1>2, <1>3, <1>5 DEF Serving
<1>7. ASSUME NEW d \in Calls PROVE CallState(d)'
  <2>1. CASE d = c
    BY <1>1, <1>2, <1>3, <1>4, <2>1 DEF CallState, Serving, Running
  <2>2. CASE d # c
    <3>1. request'[d] = request[d] /\ answer'[d] = answer[d] /\ Running(d)' = Running(d)
      BY <1>1, <2>2 DEF TypeOK, Running, threadVars
    <3>2. QED
      BY <1>1, <3>1, SameCallState DEF SerialInv
  <2>3. QED
    BY <2>1, <2>2
<1>8. Serving(t)'
  BY <1>1, <1>2, <1>3, <1>4, <1>5, <1>6 DEF Serving, SlotOf, FilterOf, Func, threadVars
<1>9. \A i \in 1 .. Len(inbox) : inbox[i].type # "Response"
  BY <1>1, <1>2 DEF SerialInv, Queued, Expected
<1>10. Queued'
  <2>1. Response(c, a) \in Signals
    BY DEF Signals
  <2>2. /\ Len(inbox) \in Nat /\ Len(inbox') = Len(inbox) + 1
        /\ inbox'[Len(inbox) + 1] = Response(c, a)
        /\ \A i \in 1 .. Len(inbox) : inbox'[i] = inbox[i]
    BY <1>1, <2>1, AppendShape DEF TypeOK
  <2>3. \A i \in 1 .. Len(inbox') : inbox'[i].type = "Response" =>
           i = Len(inbox) + 1 /\ inbox'[i] = Response(c, a)
    BY <1>9, <2>2
  <2>4. \A u \in Threads : Expected(u, Response(c, a))'
    BY <1>1, <1>2, <1>3, <1>4, <1>5, <1>6 DEF Expected, SlotOf, Response, threadVars
  <2>5. QED
    BY <1>1, <1>2, <1>3, <1>4, <1>5, <1>6, <2>3 DEF Queued, Expected, SlotOf, threadVars
<1>11. QED
  BY <1>1, <1>2, <1>3, <1>4, <1>7, <1>8, <1>10 DEF SerialInv, threadVars

LEMMA SerialNext ==
  ASSUME Serial, TypeOK, NoFailure, SerialInv, [Next]_vars
  PROVE  SerialInv'
<1>1. ASSUME NEW t \in Threads, Caller(t) PROVE SerialInv'
  <2>1. "open_native" \notin Ops
    BY DEF Serial, Dialogs
  <2>2. QED
    BY <1>1, <2>1, SerialBeginDialog, SerialBeginFails DEF Caller
<1>2. ASSUME NEW t \in Threads, ThreadStep(t) PROVE SerialInv'
  <2>1. ~SendFails(t)
    BY SendFailsNever DEF Serial
  <2>2. QED
    BY <1>2, <2>1, SerialSend, SerialReply, SerialLoop, SerialDispatchOther,
       SerialInvokeFilter, SerialNoStray, SerialWriteContext, SerialFinishDialog
       DEF ThreadStep
<1>3. CASE Environment
  BY <1>3, SerialPortalAccepts, SerialUserAnswers
     DEF Environment, PortalRefuses, Disconnect, Serial
<1>4. CASE UNCHANGED vars
  <2>1. ASSUME NEW d \in Calls PROVE CallState(d)'
    BY <1>4, SameCallState DEF SerialInv, Running, vars, threadVars, callVars
  <2>2. ASSUME NEW t \in Threads, Serving(t) PROVE Serving(t)'
    BY <1>4, <2>2 DEF Serving, Storing, SlotOf, FilterOf, Func, Own,
                      vars, connVars, threadVars, callVars
  <2>3. Queued'
    BY <1>4 DEF SerialInv, Queued, Expected, SlotOf, vars, connVars, threadVars, callVars
  <2>4. QED
    BY <1>4, <2>1, <2>2, <2>3 DEF SerialInv, Resting, vars, connVars, threadVars
<1>5. QED
  BY <1>1, <1>2, <1>3, <1>4 DEF Next

(***************************************************************************)
(* With one caller, no disconnect and no failing library call, the type    *)
(* invariant, the absence of failure states and the serial invariant (the  *)
(* one open dialog owns its slot, its filter and every queued answer) hold *)
(* together in every reachable state: the inductive invariant of the calls *)
(* that portal_open_file and portal_save_file make one after the other.    *)
(***************************************************************************)
THEOREM SerialInvariant ==
  ASSUME Serial
  PROVE  Spec => [](TypeOK /\ NoFailure /\ SerialInv)
<1>1. Init => SerialInv
  BY InitSerial
<1>2. TypeOK /\ NoFailure /\ SerialInv /\ [Next]_vars => SerialInv'
  BY SerialNext
<1>3. Faults = {}
  BY DEF Serial
<1>4. Spec => []NoFailure
  BY <1>3, NoFailureInvariant
<1>5. QED
  BY <1>1, <1>2, <1>4, TypeCorrect, PTL DEF Spec

(* One thread that opens dialogs, and nothing fails: however many calls it *)
(* makes, whatever the user answers and whichever entry points it mixes,   *)
(* every call that returns 0 returns the answer to its own request.        *)
THEOREM OwnAnswer ==
  ASSUME Serial
  PROVE  Spec => []ReturnsOwnAnswer
<1>1. SerialInv => ReturnsOwnAnswer
  BY DEF SerialInv, CallState, ReturnsOwnAnswer, Own
<1>2. QED
  BY <1>1, SerialInvariant, PTL

-----------------------------------------------------------------------------
(* What a filter extracts.                                                 *)
Paths(uris) == {PathOf[u] : u \in Range(uris)} \ {NULL}

LEMMA AllPathsAre ==
  ASSUME NEW uris \in Selections
  PROVE  Range(AllPaths(uris)) = Paths(uris)
<1> DEFINE U == {PathOf[u] : u \in DOMAIN PathOf}
           p == [k \in DOMAIN uris |-> PathOf[uris[k]]]
           I == {k \in DOMAIN uris : PathOf[uris[k]] # NULL}
<1>1. uris \in Seq(DOMAIN PathOf) /\ DOMAIN uris = 1 .. Len(uris) /\ Len(uris) \in Nat
  BY SelectionsAssumption
<1>2. p \in Seq(U) /\ Len(p) = Len(uris)
  BY <1>1
<1>3. AllPaths(uris) = ElementsAt(p, I)
  BY DEF AllPaths
<1>4. Placed(p, I, Len(p)) = Paths(uris)
  <2>1. Placed(p, I, Len(p)) = {PathOf[uris[k]] : k \in I}
    BY <1>1, <1>2 DEF Placed
  <2>2. Paths(uris) = {PathOf[uris[k]] : k \in I}
    BY DEF Paths, Range
  <2>3. QED
    BY <2>1, <2>2
<1> HIDE DEF p, I, U
<1>5. Members(ElementsAt(p, I)) = Placed(p, I, Len(p))
  BY <1>2, ElementsAtAre
<1>6. QED
  BY <1>3, <1>4, <1>5 DEF Members, Range

LEMMA FirstPathIs ==
  ASSUME NEW uris \in Selections, Len(uris) <= 1
  PROVE  Range(FirstPath(uris)) = Paths(uris)
<1> DEFINE I == {k \in 1 .. Len(uris) : PathOf[uris[k]] # NULL}
           k == IF I # {} THEN Min(I) ELSE 0
<1>1. uris \in Seq(DOMAIN PathOf) /\ DOMAIN uris = 1 .. Len(uris) /\ Len(uris) \in {0, 1}
  <2>1. uris \in Seq(DOMAIN PathOf)
    BY SelectionsAssumption
  <2>2. DOMAIN uris = 1 .. Len(uris) /\ Len(uris) \in Nat
    BY <2>1
  <2>3. QED
    BY <2>1, <2>2
<1>2. FirstPath(uris) = IF k = 0 THEN <<>> ELSE <<PathOf[uris[k]]>>
  BY DEF FirstPath, SelectInSeq
<1>3. CASE I = {}
  <2>1. Paths(uris) = {}
    BY <1>1, <1>3 DEF Paths, Range
  <2>2. FirstPath(uris) = <<>>
    BY <1>2, <1>3
  <2>3. QED
    BY <2>1, <2>2 DEF Range
<1>4. CASE I # {}
  <2>1. Len(uris) = 1 /\ I = {1}
    BY <1>1, <1>4
  <2>2. k = 1
    BY <2>1 DEF Min
  <2>3. FirstPath(uris) = <<PathOf[uris[1]]>> /\ PathOf[uris[1]] # NULL
    <3>1. PathOf[uris[1]] # NULL
      BY <2>1
    <3> HIDE DEF k
    <3>2. QED
      BY <1>2, <2>2, <3>1
  <2>4. Range(uris) = {uris[1]}
    BY <1>1, <2>1 DEF Range
  <2>5. Range(FirstPath(uris)) = {PathOf[uris[1]]}
    BY <2>3 DEF Range
  <2>6. QED
    BY <2>3, <2>4, <2>5 DEF Paths
<1>5. QED
  BY <1>3, <1>4

(* The portal answers a request as it was made.                            *)
AnswersFit ==
  \A c \in Calls : request[c] = "answered" => answer[c] \in AnswersTo(op[c])

LEMMA AnswersFitStep ==
  ASSUME Serial, TypeOK, NoFailure, SerialInv, AnswersFit, [Next]_vars
  PROVE  AnswersFit'
<1> SUFFICES ASSUME NEW c \in Calls, request'[c] = "answered"
             PROVE  answer'[c] \in AnswersTo(op'[c])
  BY DEF AnswersFit, AnswersTo
<1>1. ASSUME op'[c] = op[c], answer'[c] = answer[c], request[c] = "answered"
      PROVE  answer'[c] \in AnswersTo(op'[c])
  BY <1>1 DEF AnswersFit
<1>2. ASSUME NEW t \in Threads, NEW d \in Calls, NEW o \in Ops, BeginFails(t, d, o)
      PROVE  answer'[c] \in AnswersTo(op'[c])
  <2>1. request[c] = "answered" /\ answer'[c] = answer[c] /\ op[d] = NULL
        /\ op' = [op EXCEPT ![d] = o]
    BY <1>2 DEF BeginFails, Calling
  <2>2. c # d
    BY <2>1, DialogFacts DEF SerialInv, CallState, BeginFails, Calling, TypeOK, Running
  <2>3. QED
    BY <1>1, <2>1, <2>2 DEF TypeOK
<1>3. ASSUME NEW t \in Threads, NEW d \in Calls, NEW o \in Ops \cap Dialogs, NEW f \in Frames,
             BeginDialog(t, d, o, f)
      PROVE  answer'[c] \in AnswersTo(op'[c])
  <2>1. answer' = answer /\ op' = [op EXCEPT ![d] = o] /\ request' = [request EXCEPT ![d] = "made"]
    BY <1>3 DEF BeginDialog
  <2>2. c # d
    BY <2>1 DEF TypeOK
  <2>3. QED
    BY <1>1, <2>1, <2>2 DEF TypeOK
<1>4. ASSUME NEW d \in Calls, NEW a \in Answers, UserAnswers(d, a)
      PROVE  answer'[c] \in AnswersTo(op'[c])
  <2>1. op' = op /\ answer' = [answer EXCEPT ![d] = a] /\ request' = [request EXCEPT ![d] = "answered"]
        /\ a \in AnswersTo(op[d])
    BY <1>4 DEF UserAnswers
  <2>2. CASE c = d
    BY <2>1, <2>2 DEF TypeOK
  <2>3. CASE c # d
    BY <1>1, <2>1, <2>3 DEF TypeOK
  <2>4. QED
    BY <2>2, <2>3
<1>5. ASSUME UNCHANGED <<op, answer>>, NEW d, NEW v \in {"sent", "open"},
             request' = request \/ request' = [request EXCEPT ![d] = v]
      PROVE  answer'[c] \in AnswersTo(op'[c])
  BY <1>1, <1>5 DEF TypeOK
<1>6. ASSUME NEW t \in Threads, Caller(t) PROVE answer'[c] \in AnswersTo(op'[c])
  <2>1. "open_native" \notin Ops
    BY DEF Serial, Dialogs
  <2>2. QED
    BY <1>2, <1>3, <1>6, <2>1 DEF Caller
<1>7. ASSUME NEW t \in Threads, ThreadStep(t) PROVE answer'[c] \in AnswersTo(op'[c])
  <2>1. UNCHANGED <<op, answer>> /\
        (request' = request \/ request' = [request EXCEPT ![cur[t]] = "sent"])
    BY <1>7 DEF ThreadStep, Send, Reply, SendFails, EnterReadWriteDispatch, PollReturns,
           DispatchNothing, DispatchOther, DispatchResponse, SkipRemoved, CallFilter,
           FilterPasses, InvokeFilter, DropResponse, WriteContext, FinishDialog, callVars
  <2>2. QED
    BY <1>5, <2>1
<1>8. CASE Environment
  BY <1>4, <1>5, <1>8 DEF Environment, PortalAccepts, PortalRefuses, Disconnect, Serial, callVars
<1>9. CASE UNCHANGED vars
  BY <1>5, <1>9 DEF vars, callVars
<1>10. QED
  BY <1>6, <1>7, <1>8, <1>9 DEF Next

(* One thread that opens dialogs, and nothing fails: what a call returns   *)
(* are the paths of all the files chosen in it that have one, although     *)
(* filter_func keeps a single path (src/portal.c 167-188, 607-634).        *)
THEOREM EverythingSelected ==
  ASSUME Serial
  PROVE  Spec => []NothingSelectedIsLost
<1>1. Init => AnswersFit
  BY DEF Init, AnswersFit
<1>2. SerialInv /\ AnswersFit => NothingSelectedIsLost
  <2> SUFFICES ASSUME SerialInv, AnswersFit, NEW c \in Calls, outcome[c].status = "ok"
               PROVE  Range(outcome[c].value.files) = Paths(answer[c].uris)
    BY DEF NothingSelectedIsLost, Paths
  <2>1. /\ op[c] \in Dialogs /\ request[c] = "answered"
        /\ outcome[c].value.files = Picked(EntryPoint[op[c]].func, answer[c])
    <3>1. op[c] \in Dialogs /\ request[c] = "answered" /\ outcome[c].value = Own(c)
      BY DEF SerialInv, CallState
    <3>2. QED
      BY <3>1 DEF Own, Func
  <2>2. /\ answer[c] \in Answers
        /\ ~EntryPoint[op[c]].multiple => Len(answer[c].uris) <= 1
    BY <2>1 DEF AnswersFit, AnswersTo
  <2>3. answer[c].uris \in Selections /\ (answer[c].code # 0 => answer[c].uris = <<>>)
    BY <2>2 DEF Answers
  <2>4. QED
    <3>1. CASE answer[c].code # 0
      <4>1. outcome[c].value.files = <<>> /\ answer[c].uris = <<>>
        BY <2>1, <2>3, <3>1 DEF Picked
      <4>2. Range(<<>>) = {}
        BY DEF Range
      <4>3. QED
        BY <4>1, <4>2 DEF Paths
    <3>2. CASE answer[c].code = 0 /\ EntryPoint[op[c]].func = "filter_func"
      <4>1. ~EntryPoint[op[c]].multiple
        BY <2>1, <3>2 DEF Dialogs, AllOps, EntryPoint, portal_open_file_dialog,
           portal_save_file_dialog, portal_choose_directory, portal_open_files_dialog
      <4>2. QED
        BY <2>1, <2>2, <2>3, <3>2, <4>1, FirstPathIs DEF Picked
    <3>3. CASE answer[c].code = 0 /\ EntryPoint[op[c]].func # "filter_func"
      BY <2>1, <2>3, <3>3, AllPathsAre DEF Picked
    <3>4. QED
      BY <3>1, <3>2, <3>3
<1>3. QED
  BY <1>1, <1>2, AnswersFitStep, SerialInvariant, PTL DEF Spec

-----------------------------------------------------------------------------
(* One thread, no failures, dialogs only: Portal implements Dialog.        *)

(* What a caller sees of call c does not change.                           *)
SeenSame(c) ==
  /\ PhaseOf(c)' = PhaseOf(c)
  /\ ChoiceOf(c)' = ChoiceOf(c)
  /\ ResultOf(c)' = ResultOf(c)

LEMMA SameSeen ==
  ASSUME NEW c \in Calls,
         op'[c] = op[c], answer'[c] = answer[c], outcome'[c] = outcome[c],
         request'[c] = request[c] \/ (request[c] # "answered" /\ request'[c] # "answered")
  PROVE  SeenSame(c)
BY DEF SeenSame, PhaseOf, ChoiceOf, ResultOf, Func

LEMMA AllSame ==
  ASSUME \A c \in Calls : SeenSame(c)
  PROVE  UNCHANGED Dlg!vars
BY DEF Dlg!vars, SeenSame

(* One call changes in one of the ways Dialog allows; the others do not.   *)
LEMMA OneChange ==
  ASSUME NEW c \in Calls, NEW files, \A d \in Calls : d # c => SeenSame(d)
  PROVE  /\ /\ PhaseOf(c) = "idle" /\ PhaseOf(c)' = "open"
            /\ ChoiceOf(c)' = ChoiceOf(c) /\ ResultOf(c)' = ResultOf(c)
            => Dlg!Open(c)
         /\ /\ PhaseOf(c) = "idle" /\ PhaseOf(c)' = "failed"
            /\ ChoiceOf(c)' = ChoiceOf(c) /\ ResultOf(c)' = ResultOf(c)
            => Dlg!Fail(c)
         /\ /\ PhaseOf(c) = "open" /\ PhaseOf(c)' = "chosen"
            /\ ChoiceOf(c)' = files /\ ResultOf(c)' = ResultOf(c)
            => Dlg!Choose(c, files)
         /\ /\ PhaseOf(c) = "chosen" /\ PhaseOf(c)' = "returned"
            /\ ChoiceOf(c)' = ChoiceOf(c) /\ ResultOf(c)' = ChoiceOf(c)
            => Dlg!Return(c)
BY DEF Dlg!Open, Dlg!Fail, Dlg!Choose, Dlg!Return, SeenSame

LEMMA InitRefines == Init => Dlg!Init
BY DEF Init, Dlg!Init, PhaseOf, ChoiceOf, ResultOf, NotReturned

LEMMA BeginDialogRefines ==
  ASSUME Serial, TypeOK, SerialInv, NEW t \in Threads, NEW c \in Calls,
         NEW o \in Ops \cap Dialogs, NEW f \in Frames, BeginDialog(t, c, o, f)
  PROVE  Dlg!Open(c)
<1>1. op[c] = NULL /\ op'[c] = o /\ request'[c] = "made"
      /\ UNCHANGED <<answer, outcome>>
  BY DEF BeginDialog, Calling, TypeOK
<1>2. request[c] = "none" /\ outcome[c].status = "none" /\ o # NULL
  BY <1>1, DialogFacts DEF SerialInv, CallState, BeginDialog, Calling, TypeOK, Running
<1>3. \A d \in Calls : d # c => SeenSame(d)
  BY SameSeen DEF BeginDialog, TypeOK
<1>4. /\ PhaseOf(c) = "idle" /\ PhaseOf(c)' = "open"
      /\ ChoiceOf(c)' = ChoiceOf(c) /\ ResultOf(c)' = ResultOf(c)
  BY <1>1, <1>2 DEF PhaseOf, ChoiceOf, ResultOf
<1>5. QED
  BY <1>3, <1>4, OneChange

LEMMA BeginFailsRefines ==
  ASSUME Serial, TypeOK, SerialInv, NEW t \in Threads, NEW c \in Calls, NEW o \in Ops,
         BeginFails(t, c, o)
  PROVE  Dlg!Fail(c)
<1>1. op[c] = NULL /\ op'[c] = o /\ outcome'[c].status = "error"
      /\ UNCHANGED <<request, answer>>
  BY DEF BeginFails, Calling, TypeOK
<1>2. request[c] = "none" /\ outcome[c].status = "none"
  BY <1>1, DialogFacts DEF SerialInv, CallState, BeginFails, Calling, TypeOK, Running
<1>3. \A d \in Calls : d # c => SeenSame(d)
  BY SameSeen DEF BeginFails, TypeOK
<1>4. /\ PhaseOf(c) = "idle" /\ PhaseOf(c)' = "failed"
      /\ ChoiceOf(c)' = ChoiceOf(c) /\ ResultOf(c)' = ResultOf(c)
  BY <1>1, <1>2 DEF PhaseOf, ChoiceOf, ResultOf
<1>5. QED
  BY <1>3, <1>4, OneChange

LEMMA UserAnswersRefines ==
  ASSUME Serial, TypeOK, SerialInv, NEW c \in Calls, NEW a \in Answers, UserAnswers(c, a)
  PROVE  \E files \in Results : Dlg!Choose(c, files)
<1>1. /\ request[c] = "open" /\ request'[c] = "answered" /\ answer'[c] = a
      /\ UNCHANGED <<op, outcome>>
  BY DEF UserAnswers, TypeOK
<1>2. op[c] \in Dialogs /\ outcome[c].status = "none"
  BY <1>1 DEF SerialInv, CallState
<1>3. op[c] # NULL /\ Func(c) \in {"filter_func", "filter_func_multi"}
  BY <1>2, DialogFacts, EntryPointType DEF Dialogs, Func
<1>4. \A d \in Calls : d # c => SeenSame(d)
  BY SameSeen DEF UserAnswers, TypeOK
<1>5. /\ PhaseOf(c) = "open" /\ PhaseOf(c)' = "chosen" /\ ResultOf(c)' = ResultOf(c)
  BY <1>1, <1>2, <1>3 DEF PhaseOf, ResultOf
<1>6. PICK files \in Results : files = Picked(Func(c), a)
  BY <1>3 DEF Results
<1>7. ChoiceOf(c)' = files
  BY <1>1, <1>6 DEF ChoiceOf, Func
<1>8. Dlg!Choose(c, files)
  BY <1>4, <1>5, <1>7, OneChange
<1>9. QED
  BY <1>8

LEMMA FinishDialogRefines ==
  ASSUME Serial, TypeOK, NoFailure, SerialInv, NEW t \in Threads, NEW k \in DOMAIN filters,
         FinishDialog(t, k)
  PROVE  cur[t] \in Calls /\ Dlg!Return(cur[t])
<1>1. /\ pc[t] = "wait" /\ LoopEnds(t)
      /\ Return(t, "ok", filterContext[SlotOf(t)].value)
      /\ UNCHANGED <<op, request, answer>>
  BY DEF FinishDialog
<1>2. cur[t] \in Calls /\ Serving(t)
  BY <1>1, InsideCall
<1>3. /\ op[cur[t]] \in Dialogs /\ request[cur[t]] = "answered"
      /\ outcome[cur[t]].status = "none"
      /\ filterContext[SlotOf(t)].value = Own(cur[t])
  BY <1>1, <1>2 DEF Serving, LoopEnds, NoFailure
<1>4. outcome'[cur[t]] = [status |-> "ok", value |-> Own(cur[t])]
  BY <1>1, <1>2, <1>3 DEF Return, TypeOK
<1>5. \A d \in Calls : d # cur[t] => SeenSame(d)
  BY <1>1, SameSeen DEF Return, TypeOK
<1>6. ASSUME NEW c \in Calls, c = cur[t]
      PROVE  /\ PhaseOf(c) = "chosen" /\ PhaseOf(c)' = "returned"
             /\ ChoiceOf(c)' = ChoiceOf(c) /\ ResultOf(c)' = ChoiceOf(c)
  BY <1>1, <1>3, <1>4, <1>6 DEF PhaseOf, ChoiceOf, ResultOf, Own, Func
<1>7. ASSUME NEW c \in Calls, c = cur[t]
      PROVE  Dlg!Return(c)
  BY <1>5, <1>6, <1>7, OneChange
<1>8. QED
  BY <1>2, <1>7

LEMMA OtherStepRefines ==
  ASSUME TypeOK, NEW t \in Threads, SerialInv, Serial,
         \/ Send(t) \/ Reply(t) \/ EnterReadWriteDispatch(t) \/ PollReturns(t)
         \/ DispatchNothing(t) \/ DispatchOther(t) \/ WriteContext(t)
         \/ DispatchResponse(t) \/ CallFilter(t) \/ InvokeFilter(t)
  PROVE  UNCHANGED Dlg!vars
<1>1. CASE Send(t)
  <2>1. /\ pc[t] = "send" /\ request' = [request EXCEPT ![cur[t]] = "sent"]
        /\ UNCHANGED <<op, answer, outcome>>
    BY <1>1 DEF Send
  <2>2. request[cur[t]] = "made"
    BY <2>1, InsideCall DEF Serving
  <2>3. \A c \in Calls : SeenSame(c)
    BY <2>1, <2>2, SameSeen DEF TypeOK
  <2>4. QED
    BY <2>3, AllSame
<1>2. CASE ~Send(t)
  <2>1. Reply(t) => InDialog(t)
    BY InsideCall DEF Reply, Serving, InDialog
  <2>2. UNCHANGED callVars
    BY <1>2, <2>1 DEF Reply, EnterReadWriteDispatch, PollReturns, DispatchNothing,
                      DispatchOther, WriteContext, DispatchResponse, CallFilter,
                      InvokeFilter, callVars
  <2>3. \A c \in Calls : SeenSame(c)
    BY <2>2, SameSeen DEF callVars
  <2>4. QED
    BY <2>3, AllSame
<1>3. QED
  BY <1>1, <1>2

LEMMA NextRefines ==
  ASSUME Serial, TypeOK, NoFailure, SerialInv, [Next]_vars
  PROVE  [Dlg!Next]_(Dlg!vars)
<1>1. ASSUME NEW t \in Threads, Caller(t) PROVE Dlg!Next
  <2>1. "open_native" \notin Ops
    BY DEF Serial, Dialogs
  <2>2. QED
    BY <1>1, <2>1, BeginDialogRefines, BeginFailsRefines DEF Caller, Dlg!Next
<1>2. ASSUME NEW t \in Threads, ThreadStep(t) PROVE Dlg!Next \/ UNCHANGED Dlg!vars
  <2>1. ~SendFails(t)
    BY SendFailsNever DEF Serial
  <2>2. ASSUME NEW k \in DOMAIN filters, FinishDialog(t, k)
        PROVE  Dlg!Next
    BY <2>2, FinishDialogRefines DEF Dlg!Next
  <2>3. QED
    BY <1>2, <2>1, <2>2, SerialNoStray, OtherStepRefines DEF ThreadStep
<1>3. CASE Environment
  <2>1. ASSUME NEW c \in Calls, PortalAccepts(c) PROVE UNCHANGED Dlg!vars
    <3>1. \A d \in Calls : SeenSame(d)
      BY <2>1, SameSeen DEF PortalAccepts, TypeOK
    <3>2. QED
      BY <3>1, AllSame
  <2>2. ASSUME NEW c \in Calls, NEW a \in Answers, UserAnswers(c, a) PROVE Dlg!Next
    BY <2>2, UserAnswersRefines DEF Dlg!Next
  <2>3. QED
    BY <1>3, <2>1, <2>2 DEF Environment, PortalRefuses, Disconnect, Serial
<1>4. CASE UNCHANGED vars
  <2>1. \A c \in Calls : SeenSame(c)
    BY <1>4, SameSeen DEF vars, callVars
  <2>2. QED
    BY <2>1, AllSame
<1>5. QED
  BY <1>1, <1>2, <1>3, <1>4 DEF Next

(* One thread, no failures, dialogs only: the filters, the one connection  *)
(* and the wait loop together are a dialog that shows itself, waits for    *)
(* its user and returns what was chosen in it.                             *)
THEOREM PortalImplementsDialog ==
  ASSUME Serial
  PROVE  Spec => ImplementsDialog
<1>1. Init => Dlg!Init
  BY InitRefines
<1>2. TypeOK /\ NoFailure /\ SerialInv /\ [Next]_vars => [Dlg!Next]_(Dlg!vars)
  BY NextRefines
<1>3. QED
  BY <1>1, <1>2, SerialInvariant, PTL DEF Spec, ImplementsDialog, Dlg!Spec

=============================================================================
