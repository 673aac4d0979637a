----------------------- MODULE PortalDeliveryProofs -------------------------
(***************************************************************************)
(* What becomes of a Response.  For any number of threads and whatever     *)
(* fails, two calls never return the same one.  For any number of threads  *)
(* without failures, a path is stored before the call that waits for it    *)
(* returns and once only unless a filter wrote astray, and only a filter   *)
(* whose call has returned its answer is called late.  In one thread,      *)
(* whatever fails: a filter writes outside a live context, a dialog        *)
(* returns 0 without any answer, or returns the answer to another request, *)
(* only after a cause that the theorems name.                              *)
(***************************************************************************)
EXTENDS PortalProofs, FiniteSetTheorems

USE CallsAssumption, OpsAssumption, FaultsAssumption, NullAssumption

-----------------------------------------------------------------------------
(* The steps of a dispatcher from filter to filter change its place only.  *)

Walks(t) == DispatchResponse(t) \/ SkipRemoved(t) \/ CallFilter(t) \/ FilterPasses(t)

LEMMA WalkGoesOn ==
  ASSUME TypeOK, NEW t \in Threads, Walks(t)
  PROVE  /\ pc[t] \in {"dispatch", "walk", "filter"}
         /\ \E l \in {"walk", "filter"} : pc' = [pc EXCEPT ![t] = l]
         /\ UNCHANGED <<dbusConnection, link, filters, inbox, callback, cur, frame,
                        filterContext, callVars, history>>
<1>1. CASE DispatchResponse(t)
  BY <1>1 DEF DispatchResponse, Dispatching, Goto
<1>2. CASE SkipRemoved(t)
  <2>1. pc[t] = "walk" /\ pc' = [pc EXCEPT ![t] = "walk"]
    BY <1>2 DEF SkipRemoved, threadVars, TypeOK
  <2>2. QED
    BY <1>2, <2>1 DEF SkipRemoved, threadVars
<1>3. CASE CallFilter(t) \/ FilterPasses(t)
  BY <1>3 DEF CallFilter, FilterPasses, connVars, Goto
<1>4. QED
  BY <1>1, <1>2, <1>3 DEF Walks

-----------------------------------------------------------------------------
(* Calls begin once, and a request leaves "answered" no more.              *)

BegunInv ==
  /\ \A c \in Calls : op[c] = NULL => request[c] = "none" /\ outcome[c].status = "none"
  /\ \A t \in Threads : cur[t] # NULL => op[cur[t]] # NULL
  /\ \A t, u \in Threads : cur[t] # NULL /\ cur[t] = cur[u] => t = u
  /\ \A t \in Threads : pc[t] = "send" => request[cur[t]] = "made"

LEMMA BegunCaller ==
  ASSUME TypeOK, BegunInv, NEW t \in Threads, Caller(t)
  PROVE  BegunInv'
<1>1. PICK c \in Calls :
        \/ \E o \in Ops \cap Dialogs, f \in Frames : BeginDialog(t, c, o, f)
        \/ "open_native" \in Ops /\ BeginNative(t, c)
        \/ \E o \in Ops : BeginFails(t, c, o)
  BY DEF Caller
<1>2. op[c] = NULL /\ pc[t] = "idle" /\ cur[t] = NULL
  BY <1>1 DEF BeginDialog, BeginNative, BeginFails, Calling, TypeOK
<1>3. \A u \in Threads : cur[u] # c
  BY <1>2 DEF BegunInv
<1>4. CASE \/ \E o \in Ops \cap Dialogs, f \in Frames : BeginDialog(t, c, o, f)
           \/ "open_native" \in Ops /\ BeginNative(t, c)
  <2>1. PICK o \in Ops : op' = [op EXCEPT ![c] = o]
    BY <1>4 DEF BeginDialog, BeginNative
  <2>2. /\ pc' = [pc EXCEPT ![t] = "send"] /\ cur' = [cur EXCEPT ![t] = c]
        /\ request' = [request EXCEPT ![c] = "made"] /\ UNCHANGED outcome
    BY <1>4 DEF BeginDialog, BeginNative, Goto
  <2>3. NULL \notin Ops
    OBVIOUS
  <2>4. QED
    BY <1>2, <1>3, <2>1, <2>2, <2>3 DEF BegunInv, TypeOK
<1>5. CASE \E o \in Ops : BeginFails(t, c, o)
  <2>1. PICK o \in Ops : op' = [op EXCEPT ![c] = o]
    BY <1>5 DEF BeginFails
  <2>2. /\ UNCHANGED <<pc, cur, request>>
        /\ \A d \in Calls : d # c => outcome'[d] = outcome[d]
    BY <1>5 DEF BeginFails, threadVars, TypeOK
  <2>3. NULL \notin Ops
    OBVIOUS
  <2>4. QED
    BY <1>2, <1>3, <2>1, <2>2, <2>3 DEF BegunInv, TypeOK
<1>6. QED
  BY <1>1, <1>4, <1>5

LEMMA BegunThreadStep ==
  ASSUME TypeOK, BegunInv, NEW t \in Threads, ThreadStep(t)
  PROVE  BegunInv'
<1>1. CASE Send(t)
  <2>1. cur[t] \in Calls /\ op[cur[t]] # NULL
    BY <1>1 DEF Send, TypeOK, BegunInv
  <2>2. QED
    BY <1>1, <2>1 DEF Send, Goto, TypeOK, BegunInv
<1>2. CASE \E status \in {"ok", "error"}, value \in Values :
             Return(t, status, value) /\ UNCHANGED <<op, request>>
  <2>1. PICK status \in {"ok", "error"}, value \in Values :
          Return(t, status, value)
    BY <1>2
  <2>2. /\ pc' = [pc EXCEPT ![t] = "idle"] /\ cur' = [cur EXCEPT ![t] = NULL]
        /\ \A c \in Calls : outcome'[c] = outcome[c] \/ c = cur[t]
    BY <2>1 DEF Return, Goto, TypeOK
  <2>3. /\ \A c \in Calls : op[c] = NULL => c # cur[t]
        /\ \A u \in Threads : cur'[u] # NULL => cur'[u] = cur[u]
        /\ \A u \in Threads : pc'[u] = "send" => pc[u] = "send"
    BY <2>2 DEF TypeOK, BegunInv
  <2>4. QED
    BY <1>2, <2>2, <2>3 DEF TypeOK, BegunInv
<1>3. CASE /\ UNCHANGED <<op, request, cur, outcome>>
           /\ \A u \in Threads : pc'[u] = "send" => pc[u] = "send"
  BY <1>3 DEF BegunInv, TypeOK
<1>4. CASE Reply(t)
  <2>1. Nothing \in Values
    BY NothingType
  <2>2. QED
    BY <1>2, <1>3, <1>4, <2>1 DEF Reply, Goto, TypeOK
<1>5. CASE SendFails(t)
  <2>1. Nothing \in Values
    BY NothingType
  <2>2. QED
    BY <1>2, <1>5, <2>1 DEF SendFails
<1>6. CASE EnterReadWriteDispatch(t) \/ PollReturns(t) \/ DispatchNothing(t)
  BY <1>3, <1>6 DEF EnterReadWriteDispatch, PollReturns, DispatchNothing, Goto,
                    callVars, TypeOK
<1>7. CASE DispatchOther(t) \/ DropResponse(t)
  BY <1>3, <1>7 DEF DispatchOther, DropResponse, Goto, callVars, TypeOK
<1>8. CASE Walks(t) \/ InvokeFilter(t)
  <2>1. CASE Walks(t)
    BY <1>3, <2>1, WalkGoesOn DEF callVars, TypeOK
  <2>2. CASE InvokeFilter(t)
    BY <1>3, <2>2 DEF InvokeFilter, Goto, callVars, TypeOK
  <2>3. QED
    BY <1>8, <2>1, <2>2
<1>9. CASE WriteContext(t)
  BY <1>3, <1>9 DEF WriteContext, Goto, callVars, TypeOK
<1>10. ASSUME NEW k \in DOMAIN filters, FinishDialog(t, k)
       PROVE  BegunInv'
  <2>1. filters[k] \in Filters /\ filters[k].slot = SlotOf(t)
    BY <1>10 DEF TypeOK, FinishDialog, Unregister, Matches
  <2>2. SlotOf(t) \in Slots
    BY <2>1 DEF Filters
  <2>3. filterContext[SlotOf(t)].value \in Values
    BY <2>2 DEF TypeOK, Contexts
  <2>4. QED
    BY <1>2, <1>10, <2>3 DEF FinishDialog
<1>11. QED
  BY <1>1, <1>4, <1>5, <1>6, <1>7, <1>8, <1>9, <1>10 DEF ThreadStep, Walks

LEMMA BegunNext == TypeOK /\ BegunInv /\ [Next]_vars => BegunInv'
<1> SUFFICES ASSUME TypeOK, BegunInv, [Next]_vars PROVE BegunInv'
  OBVIOUS
<1>1. ASSUME NEW c \in Calls,
             \/ PortalAccepts(c) \/ PortalRefuses(c)
             \/ \E a \in Answers : UserAnswers(c, a)
      PROVE  BegunInv'
  <2>1. /\ request[c] \in {"sent", "open"} /\ UNCHANGED <<op, outcome, pc, cur>>
        /\ \A d \in Calls : d # c => request'[d] = request[d]
    BY <1>1 DEF PortalAccepts, PortalRefuses, UserAnswers, threadVars, TypeOK
  <2>2. \A u \in Threads : pc[u] = "send" => cur[u] \in Calls \ {c}
    BY <2>1 DEF BegunInv, TypeOK
  <2>3. QED
    BY <2>1, <2>2 DEF BegunInv
<1>2. CASE Disconnect \/ UNCHANGED vars
  BY <1>2 DEF Disconnect, BegunInv, vars, threadVars, callVars
<1>3. QED
  BY <1>1, <1>2, BegunCaller, BegunThreadStep DEF Next, Environment

LEMMA BegunInvariant == Spec => []BegunInv
<1>1. Init => BegunInv
  BY DEF Init, BegunInv, NotReturned
<1>2. QED
  BY <1>1, BegunNext, TypeCorrect, PTL DEF Spec

(* The answer to a request is final.                                       *)
LEMMA AnswerFinal ==
  ASSUME TypeOK, BegunInv, Next, NEW c \in Calls, request[c] = "answered"
  PROVE  request'[c] = "answered"
<1>1. ASSUME NEW t \in Threads, Caller(t) PROVE request'[c] = "answered"
  <2>1. op[c] # NULL
    BY DEF BegunInv
  <2>2. UNCHANGED request \/ \E d \in Calls : op[d] = NULL /\ request' = [request EXCEPT ![d] = "made"]
    BY <1>1 DEF Caller, BeginDialog, BeginNative, BeginFails, Calling
  <2>3. QED
    BY <2>1, <2>2 DEF TypeOK
<1>2. ASSUME NEW t \in Threads, ThreadStep(t) PROVE request'[c] = "answered"
  <2>1. \/ UNCHANGED request
        \/ pc[t] = "send" /\ request' = [request EXCEPT ![cur[t]] = "sent"]
    BY <1>2, WalkGoesOn
       DEF ThreadStep, Walks, Send, Reply, SendFails, EnterReadWriteDispatch, PollReturns,
           DispatchNothing, DispatchOther, InvokeFilter, DropResponse, WriteContext,
           FinishDialog, callVars
  <2>2. QED
    BY <2>1 DEF BegunInv, TypeOK
<1>3. CASE Environment
  BY <1>3 DEF Environment, PortalAccepts, PortalRefuses, UserAnswers, Disconnect,
              callVars, TypeOK
<1>4. QED
  BY <1>1, <1>2, <1>3 DEF Next

-----------------------------------------------------------------------------
(* A Response is in one place, whoever dispatches it.                      *)

(* What a filter has left to store, in the order of its source.            *)
Todos ==
  {<<"value", "completed">>, <<"completed", "value">>, <<"value">>, <<"completed">>}

InCallback == \E t \in Threads : pc[t] = "callback"

(* Where the Response to call c can be: in the queue, with a filter that   *)
(* has not stored it, in the context of a call, in a result.               *)
Queuing(c)     == \E i \in 1 .. Len(inbox) : inbox[i].req = c
Carried(c)     == InCallback /\ callback.todo # <<"completed">> /\ callback.value.from = c
StoredAt(c, s) == Alive(s) /\ filterContext[s].value.from = c
Stored(c)      == \E s \in Slots : StoredAt(c, s)
ResultIn(c, d) == outcome[d].value.from = c
Returned(c)    == \E d \in Calls : ResultIn(c, d)

QueuedOnce(c) ==
  \A i, j \in 1 .. Len(inbox) : inbox[i].req = c /\ inbox[j].req = c => i = j

OnePlace(c) ==
  /\ QueuedOnce(c)
  /\ \A s, u \in Slots : StoredAt(c, s) /\ StoredAt(c, u) => s = u
  /\ \A d, e \in Calls : ResultIn(c, d) /\ ResultIn(c, e) => d = e
  /\ Queuing(c) => ~Carried(c) /\ ~Stored(c) /\ ~Returned(c)
  /\ Carried(c) => ~Stored(c) /\ ~Returned(c)
  /\ Stored(c)  => ~Returned(c)
  /\ Queuing(c) \/ Carried(c) \/ Stored(c) \/ Returned(c) => request[c] = "answered"

OnceInv ==
  /\ InCallback => callback.todo \in Todos
  /\ \A c \in Calls : OnePlace(c)

(* The queue loses its oldest signal or gets one that is no Response.      *)
QueueQuiet ==
  \/ UNCHANGED inbox
  \/ inbox # <<>> /\ inbox' = Tail(inbox)
  \/ \E name \in {"NameAcquired", "Disconnected"} : inbox' = Append(inbox, Signal(name))

LEMMA QueueKept ==
  ASSUME TypeOK, QueueQuiet, NEW c \in Calls, QueuedOnce(c)
  PROVE  QueuedOnce(c)' /\ (Queuing(c)' => Queuing(c))
<1>0. inbox \in Seq(Signals)
  BY DEF TypeOK
<1>1. CASE UNCHANGED inbox
  BY <1>1 DEF QueuedOnce, Queuing
<1>2. CASE inbox # <<>> /\ inbox' = Tail(inbox)
  <2>1. \A i \in 1 .. Len(inbox') : i + 1 \in 1 .. Len(inbox) /\ inbox'[i] = inbox[i + 1]
    BY <1>0, <1>2, TailProperties
  <2>2. Queuing(c)' => Queuing(c)
    BY <2>1 DEF Queuing
  <2>3. ASSUME NEW i \in 1 .. Len(inbox'), NEW j \in 1 .. Len(inbox'),
               inbox'[i].req = c, inbox'[j].req = c
        PROVE  i = j
    <3>1. i + 1 = j + 1
      BY <2>1, <2>3 DEF QueuedOnce
    <3>2. QED
      BY <3>1
  <2>4. QED
    BY <2>2, <2>3 DEF QueuedOnce
<1>3. ASSUME NEW name \in {"NameAcquired", "Disconnected"},
             inbox' = Append(inbox, Signal(name))
      PROVE  QueuedOnce(c)' /\ (Queuing(c)' => Queuing(c))
  <2>1. Signal(name) \in Signals /\ Signal(name).req # c
    BY DEF Signals, Signal
  <2>2. /\ Len(inbox) \in Nat /\ Len(inbox') = Len(inbox) + 1
        /\ inbox'[Len(inbox) + 1] = Signal(name)
        /\ \A i \in 1 .. Len(inbox) : inbox'[i] = inbox[i]
    BY <1>0, <1>3, <2>1, AppendShape
  <2>3. \A i \in 1 .. Len(inbox') : inbox'[i].req = c => i \in 1 .. Len(inbox) /\ inbox[i].req = c
    BY <2>1, <2>2
  <2>4. QED
    BY <2>3 DEF QueuedOnce, Queuing
<1>4. QED
  BY <1>1, <1>2, <1>3 DEF QueueQuiet

(* The signal dispatched leaves the queue for good.                        *)
LEMMA HeadLeaves ==
  ASSUME TypeOK, inbox # <<>>, inbox' = Tail(inbox), NEW r \in Calls, r = Head(inbox).req, OnePlace(r)
  PROVE  Queuing(r) /\ ~Queuing(r)'
<1>1. /\ Len(inbox) \in Nat \ {0} /\ Head(inbox) = inbox[1]
      /\ \A i \in 1 .. Len(inbox') : i + 1 \in 1 .. Len(inbox) /\ inbox'[i] = inbox[i + 1]
  BY TakeSignal
<1>2. 1 \in 1 .. Len(inbox) /\ inbox[1].req = r
  BY <1>1
<1>3. ASSUME NEW i \in 1 .. Len(inbox'), inbox'[i].req = r
      PROVE  FALSE
  <2>1. i + 1 \in 1 .. Len(inbox) /\ inbox[i + 1].req = r
    BY <1>1, <1>3
  <2>2. i + 1 = 1
    BY <1>2, <2>1 DEF OnePlace, QueuedOnce
  <2>3. QED
    BY <2>2
<1>4. QED
  BY <1>2, <1>3 DEF Queuing

(* A step that puts nothing anywhere: contexts die, results are empty.     *)
LEMMA NothingMoves ==
  ASSUME TypeOK, BegunInv, OnceInv, Next, QueueQuiet,
         UNCHANGED <<filterContext, callback>>, InCallback' => InCallback,
         \A s \in Slots : Alive(s)' => Alive(s),
         \A d \in Calls : outcome'[d].value.from \in {outcome[d].value.from, NULL}
  PROVE  OnceInv'
<1>1. ASSUME NEW c \in Calls PROVE OnePlace(c)'
  <2>1. OnePlace(c)
    BY DEF OnceInv
  <2>2. QueuedOnce(c)' /\ (Queuing(c)' => Queuing(c))
    BY <2>1, QueueKept DEF OnePlace
  <2>3. Carried(c)' => Carried(c)
    BY DEF Carried
  <2>4. \A s \in Slots : StoredAt(c, s)' => StoredAt(c, s)
    BY DEF StoredAt
  <2>5. \A d \in Calls : ResultIn(c, d)' => ResultIn(c, d)
    BY DEF ResultIn
  <2>6. request[c] = "answered" => request'[c] = "answered"
    BY AnswerFinal
  <2>7. (Stored(c)' => Stored(c)) /\ (Returned(c)' => Returned(c))
    BY <2>4, <2>5 DEF Stored, Returned
  <2>8. QED
    BY <2>1, <2>2, <2>3, <2>4, <2>5, <2>6, <2>7 DEF OnePlace
<1>2. QED
  BY <1>1 DEF OnceInv

LEMMA OnceCaller ==
  ASSUME TypeOK, BegunInv, OnceInv, Next, NEW t \in Threads, Caller(t)
  PROVE  OnceInv'
<1>1. QueueQuiet
  BY DEF Caller, BeginDialog, BeginNative, BeginFails, dbus_init, connVars, QueueQuiet
<1>2. ASSUME NEW c \in Calls, BeginNative(t, c)
      PROVE  OnceInv'
  <2>1. InCallback' => InCallback
    BY <1>2 DEF BeginNative, Goto, InCallback, TypeOK
  <2>2. UNCHANGED <<filterContext, callback, frame, outcome>>
    BY <1>2 DEF BeginNative
  <2>3. QED
    BY <1>1, <2>1, <2>2, NothingMoves DEF Alive
<1>3. ASSUME NEW c \in Calls, NEW o \in Ops, BeginFails(t, c, o)
      PROVE  OnceInv'
  <2>1. UNCHANGED <<filterContext, callback, frame, pc>>
    BY <1>3 DEF BeginFails, threadVars, connVars
  <2>2. \A d \in Calls : outcome'[d].value.from \in {outcome[d].value.from, NULL}
    BY <1>3 DEF BeginFails, TypeOK, Nothing
  <2>3. QED
    BY <1>1, <2>1, <2>2, NothingMoves DEF Alive, InCallback
<1>4. ASSUME NEW c \in Calls, NEW o \in Ops \cap Dialogs, NEW f \in Frames,
             BeginDialog(t, c, o, f)
      PROVE  OnceInv'
  <2>1. InCallback' => InCallback
    BY <1>4 DEF BeginDialog, Goto, InCallback, TypeOK
  <2>2. /\ UNCHANGED <<callback, outcome>> /\ frame' = [frame EXCEPT ![t] = f]
        /\ filterContext' = [filterContext EXCEPT ![<<t, f>>] = EmptyContext]
    BY <1>4 DEF BeginDialog, ZeroContext
  <2>3. <<t, f>> \in Slots
    BY DEF Slots
  <2>4. filterContext'[<<t, f>>].value.from = NULL
    BY <2>2, <2>3 DEF EmptyContext, Nothing, TypeOK
  <2>5. ASSUME NEW s \in Slots, s # <<t, f>>, Alive(s)'
        PROVE  Alive(s) /\ filterContext'[s] = filterContext[s]
    <3>1. PICK u \in Threads, g \in Frames : s = <<u, g>>
      BY DEF Slots
    <3>2. u # t
      BY <2>2, <2>5, <3>1 DEF Alive, TypeOK
    <3>3. QED
      BY <2>2, <2>5, <3>1, <3>2 DEF Alive, TypeOK
  <2>6. ASSUME NEW d \in Calls PROVE OnePlace(d)'
    <3>1. OnePlace(d)
      BY DEF OnceInv
    <3>2. QueuedOnce(d)' /\ (Queuing(d)' => Queuing(d))
      BY <1>1, <3>1, QueueKept DEF OnePlace
    <3>3. Carried(d)' => Carried(d)
      BY <2>1, <2>2 DEF Carried
    <3>4. \A s \in Slots : StoredAt(d, s)' => StoredAt(d, s)
      BY <2>4, <2>5 DEF StoredAt
    <3>5. \A e \in Calls : ResultIn(d, e)' => ResultIn(d, e)
      BY <2>2 DEF ResultIn
    <3>6. request[d] = "answered" => request'[d] = "answered"
      BY AnswerFinal
    <3>7. (Stored(d)' => Stored(d)) /\ (Returned(d)' => Returned(d))
      BY <3>4, <3>5 DEF Stored, Returned
    <3>8. QED
      BY <3>1, <3>2, <3>3, <3>4, <3>5, <3>6, <3>7 DEF OnePlace
  <2>7. QED
    BY <2>1, <2>2, <2>6 DEF OnceInv
<1>5. QED
  BY <1>2, <1>3, <1>4 DEF Caller

(* A call that returns without a result only ends the life of a context.   *)
LEMMA ReturnsNothing ==
  ASSUME TypeOK, NEW t \in Threads, pc[t] # "idle",
         NEW status, Return(t, status, Nothing)
  PROVE  /\ InCallback' => InCallback
         /\ \A s \in Slots : Alive(s)' => Alive(s)
         /\ \A d \in Calls : outcome'[d].value.from \in {outcome[d].value.from, NULL}
<1>1. InCallback' => InCallback
  BY DEF Return, Goto, InCallback, TypeOK
<1>2. ASSUME NEW s \in Slots, Alive(s)' PROVE Alive(s)
  <2>1. PICK u \in Threads, g \in Frames : s = <<u, g>>
    BY DEF Slots
  <2>2. QED
    BY <1>2, <2>1 DEF Alive, Return, TypeOK
<1>3. ASSUME NEW d \in Calls
      PROVE  outcome'[d].value.from \in {outcome[d].value.from, NULL}
  BY DEF Return, Nothing, TypeOK
<1>4. QED
  BY <1>1, <1>2, <1>3

(* A Response goes from the queue to the filter that takes it.             *)
LEMMA OnceInvokeFilter ==
  ASSUME TypeOK, BegunInv, OnceInv, Next, NEW t \in Threads, InvokeFilter(t)
  PROVE  OnceInv'
<1>1. /\ pc[t] = "filter" /\ inbox # <<>> /\ inbox' = Tail(inbox)
      /\ UNCHANGED <<frame, filterContext, outcome>>
  BY HeadResponse DEF InvokeFilter, callVars
<1>2. PICK r \in Calls : r = Head(inbox).req /\ OnePlace(r)
  BY <1>1, HeadResponse DEF OnceInv
<1>3. Queuing(r) /\ ~Queuing(r)'
  BY <1>1, <1>2, HeadLeaves
<1>4. QueueQuiet
  BY <1>1 DEF QueueQuiet
<1>5. callback'.value.from = r /\ callback'.todo \in Todos
  BY <1>2 DEF InvokeFilter, Publishes, Todos
<1>6. ~InCallback
  BY <1>1, HeadResponse DEF Dispatcher, InCallback
<1>7. ASSUME NEW c \in Calls PROVE OnePlace(c)'
  <2>1. OnePlace(c)
    BY DEF OnceInv
  <2>2. QueuedOnce(c)' /\ (Queuing(c)' => Queuing(c))
    BY <1>4, <2>1, QueueKept DEF OnePlace
  <2>3. Carried(c)' => c = r
    BY <1>5 DEF Carried
  <2>4. \A s \in Slots : StoredAt(c, s)' => StoredAt(c, s)
    BY <1>1 DEF StoredAt, Alive
  <2>5. \A d \in Calls : ResultIn(c, d)' => ResultIn(c, d)
    BY <1>1 DEF ResultIn
  <2>6. request[c] = "answered" => request'[c] = "answered"
    BY AnswerFinal
  <2>7. (Stored(c)' => Stored(c)) /\ (Returned(c)' => Returned(c))
    BY <2>4, <2>5 DEF Stored, Returned
  <2>8. CASE c = r
    BY <1>3, <2>1, <2>2, <2>4, <2>5, <2>6, <2>7, <2>8 DEF OnePlace
  <2>9. CASE c # r
    BY <2>1, <2>2, <2>3, <2>4, <2>5, <2>6, <2>7, <2>9 DEF OnePlace
  <2>10. QED
    BY <2>8, <2>9
<1>8. QED
  BY <1>5, <1>7 DEF OnceInv

LEMMA TodoShape ==
  ASSUME NEW todo \in Todos
  PROVE  /\ Head(todo) \in {"completed", "value"}
         /\ Head(todo) = "completed" /\ Len(todo) > 1 =>
              Tail(todo) = <<"value">> /\ todo # <<"completed">>
         /\ Head(todo) = "value" => todo # <<"completed">>
         /\ Head(todo) = "value" /\ Len(todo) > 1 => Tail(todo) = <<"completed">>
<1>1. /\ Tail(<<"value", "completed">>) = <<"completed">>
      /\ Tail(<<"completed", "value">>) = <<"value">>
  OBVIOUS
<1>2. CASE todo = <<"value", "completed">>
  BY <1>1, <1>2
<1>3. CASE todo = <<"completed", "value">>
  BY <1>1, <1>3
<1>4. CASE todo = <<"value">>
  BY <1>4
<1>5. CASE todo = <<"completed">>
  BY <1>5
<1>6. QED
  BY <1>2, <1>3, <1>4, <1>5 DEF Todos

(* A filter puts its Response into the context it points to, and sets      *)
(* completed in a step of its own.                                         *)
LEMMA OnceWriteContext ==
  ASSUME TypeOK, BegunInv, OnceInv, Next, NEW t \in Threads, WriteContext(t)
  PROVE  OnceInv'
<1> DEFINE w == callback.slot
<1>1. /\ pc[t] = "callback" /\ callback \in Callbacks /\ callback.todo \in Todos
      /\ UNCHANGED <<inbox, frame, outcome>>
  BY DEF WriteContext, TypeOK, OnceInv, InCallback, callVars
<1>2. w \in Slots /\ \A u \in Threads : pc[u] = "callback" => u = t
  BY <1>1 DEF Callbacks, Dispatcher, TypeOK
<1>3. QueueQuiet
  BY <1>1 DEF QueueQuiet
<1>4. \A s \in Slots : s # w => filterContext'[s] = filterContext[s]
  BY <1>2 DEF WriteContext, TypeOK
<1>5. filterContext[w] \in Contexts
  BY <1>2 DEF TypeOK
<1>6. ASSUME \A c \in Calls : Carried(c)' => Carried(c),
             filterContext'[w].value.from = filterContext[w].value.from,
             InCallback' => callback'.todo \in Todos
      PROVE  OnceInv'
  <2>1. ASSUME NEW c \in Calls PROVE OnePlace(c)'
    <3>1. OnePlace(c)
      BY DEF OnceInv
    <3>2. QueuedOnce(c)' /\ (Queuing(c)' => Queuing(c))
      BY <1>3, <3>1, QueueKept DEF OnePlace
    <3>3. \A s \in Slots : StoredAt(c, s)' => StoredAt(c, s)
      BY <1>1, <1>4, <1>6 DEF StoredAt, Alive
    <3>4. \A d \in Calls : ResultIn(c, d)' => ResultIn(c, d)
      BY <1>1 DEF ResultIn
    <3>5. request[c] = "answered" => request'[c] = "answered"
      BY AnswerFinal
    <3>6. (Stored(c)' => Stored(c)) /\ (Returned(c)' => Returned(c))
      BY <3>3, <3>4 DEF Stored, Returned
    <3>7. Carried(c)' => Carried(c)
      BY <1>6
    <3>8. QED
      BY <3>1, <3>2, <3>3, <3>4, <3>5, <3>6, <3>7 DEF OnePlace
  <2>2. QED
    BY <1>6, <2>1 DEF OnceInv
<1>7. ASSUME callback.todo # <<"completed">>,
             filterContext'[w].value.from = callback.value.from,
             InCallback' => callback'.todo = <<"completed">>
      PROVE  OnceInv'
  <2>1. ASSUME NEW c \in Calls PROVE OnePlace(c)'
    <3>1. OnePlace(c)
      BY DEF OnceInv
    <3>2. QueuedOnce(c)' /\ (Queuing(c)' => Queuing(c))
      BY <1>3, <3>1, QueueKept DEF OnePlace
    <3>3. ~Carried(c)'
      BY <1>7 DEF Carried
    <3>4. \A d \in Calls : ResultIn(c, d)' => ResultIn(c, d)
      BY <1>1 DEF ResultIn
    <3>5. request[c] = "answered" => request'[c] = "answered"
      BY AnswerFinal
    <3>6. Returned(c)' => Returned(c)
      BY <3>4 DEF Returned
    <3>7. CASE callback.value.from = c
      <4>1. Carried(c)
        BY <1>1, <1>7, <3>7 DEF Carried, InCallback
      <4>2. \A s \in Slots : StoredAt(c, s)' => s = w
        <5>1. \A s \in Slots : s # w => ~StoredAt(c, s)'
          BY <1>1, <1>4, <3>1, <4>1 DEF OnePlace, Stored, StoredAt, Alive
        <5>2. QED
          BY <5>1
      <4> HIDE DEF w
      <4>3. QED
        BY <3>1, <3>2, <3>3, <3>4, <3>5, <3>6, <4>1, <4>2 DEF OnePlace
    <3>8. CASE callback.value.from # c
      <4>1. \A s \in Slots : StoredAt(c, s)' => StoredAt(c, s)
        BY <1>1, <1>4, <1>7, <3>8 DEF StoredAt, Alive
      <4>2. Stored(c)' => Stored(c)
        BY <4>1 DEF Stored
      <4>3. QED
        BY <3>1, <3>2, <3>3, <3>4, <3>5, <3>6, <4>1, <4>2 DEF OnePlace
    <3>9. QED
      BY <3>7, <3>8
  <2>2. QED
    BY <1>7, <2>1 DEF OnceInv, Todos
<1>8. InCallback' =>
         /\ Len(callback.todo) > 1
         /\ callback'.todo = Tail(callback.todo) /\ callback'.value = callback.value
  <2>1. CASE Len(callback.todo) > 1
    <3>1. callback' = [callback EXCEPT !.todo = Tail(callback.todo)]
      BY <2>1 DEF WriteContext
    <3>2. QED
      BY <1>1, <2>1, <3>1 DEF Callbacks
  <2>2. CASE ~(Len(callback.todo) > 1)
    <3>1. pc' = [pc EXCEPT ![t] = "wait"]
      BY <2>2 DEF WriteContext, Goto
    <3>2. QED
      BY <1>2, <3>1 DEF InCallback, TypeOK
  <2>3. QED
    BY <2>1, <2>2
<1>9. CASE Head(callback.todo) = "completed"
  <2>1. filterContext' = [filterContext EXCEPT ![w] = [@ EXCEPT !.completed = TRUE]]
    BY <1>9 DEF WriteContext
  <2>2. filterContext'[w].value.from = filterContext[w].value.from
    BY <1>2, <1>5, <2>1 DEF TypeOK, Contexts
  <2>3. InCallback' => callback'.todo = <<"value">> /\ callback.todo # <<"completed">>
                       /\ callback'.value = callback.value
    BY <1>1, <1>2, <1>9, <1>8, TodoShape
  <2>4. \A c \in Calls : Carried(c)' => Carried(c)
    BY <1>1, <2>3 DEF Carried, InCallback
  <2>5. QED
    BY <1>6, <2>2, <2>3, <2>4 DEF Todos
<1>10. CASE Head(callback.todo) = "value"
  <2>1. filterContext'[w].value.from = callback.value.from
    <3>1. callback.value \in Values
      BY <1>1 DEF Callbacks
    <3>2. PICK v : /\ filterContext' = [filterContext EXCEPT ![w] = [@ EXCEPT !.value = v]]
                   /\ v = callback.value \/ v = [callback.value EXCEPT !.files = <<NULL>>]
      BY <1>10 DEF WriteContext
    <3>3. v.from = callback.value.from
      BY <3>1, <3>2 DEF Values
    <3>4. QED
      BY <1>2, <1>5, <3>2, <3>3 DEF TypeOK, Contexts
  <2>2. InCallback' => callback'.todo = <<"completed">>
    BY <1>1, <1>2, <1>10, <1>8, TodoShape
  <2>3. callback.todo # <<"completed">>
    BY <1>10
  <2>4. QED
    BY <1>7, <2>1, <2>2, <2>3
<1>11. Head(callback.todo) \in {"completed", "value"}
  BY <1>1, TodoShape
<1>12. QED
  BY <1>9, <1>10, <1>11

(* The Response in the context of a call becomes its result as the frame   *)
(* dies.                                                                   *)
LEMMA OnceFinishDialog ==
  ASSUME TypeOK, BegunInv, OnceInv, Next, NEW t \in Threads,
         NEW k \in DOMAIN filters, FinishDialog(t, k)
  PROVE  OnceInv'
<1>1. PICK w \in Slots, g \in Frames :
        /\ w = <<t, g>> /\ frame[t] = g
        /\ outcome' = [outcome EXCEPT ![cur[t]] = [status |-> "ok", value |-> filterContext[w].value]]
  <2>1. filters[k] \in Filters /\ filters[k].slot = SlotOf(t)
    BY DEF TypeOK, FinishDialog, Unregister, Matches
  <2>2. PICK g \in Frames : SlotOf(t) = <<t, g>> /\ SlotOf(t) \in Slots /\ frame[t] = g
    BY <2>1 DEF Filters, Slots, SlotOf
  <2>3. outcome' = [outcome EXCEPT ![cur[t]] = [status |-> "ok", value |-> filterContext[SlotOf(t)].value]]
    BY DEF FinishDialog, Return
  <2>4. QED
    BY <2>2, <2>3
<1>2. /\ pc[t] = "wait" /\ cur[t] \in Calls
      /\ UNCHANGED <<inbox, callback, filterContext, request>>
      /\ pc' = [pc EXCEPT ![t] = "idle"] /\ frame' = [frame EXCEPT ![t] = NULL]
  BY DEF FinishDialog, Return, Goto, TypeOK
<1>3. Alive(w)
  BY <1>1 DEF Alive
<1>4. ASSUME NEW s \in Slots, Alive(s)' PROVE Alive(s) /\ s # w
  <2>1. PICK u \in Threads, h \in Frames : s = <<u, h>>
    BY DEF Slots
  <2>2. u # t
    BY <1>2, <1>4, <2>1 DEF Alive, TypeOK
  <2>3. QED
    BY <1>1, <1>2, <1>4, <2>1, <2>2 DEF Alive, TypeOK
<1>5. InCallback' => InCallback
  BY <1>2 DEF InCallback, TypeOK
<1>6. /\ outcome'[cur[t]].value.from = filterContext[w].value.from
      /\ \A d \in Calls : d # cur[t] => outcome'[d] = outcome[d]
  BY <1>1, <1>2 DEF TypeOK
<1>7. ASSUME NEW c \in Calls PROVE OnePlace(c)'
  <2>1. OnePlace(c)
    BY DEF OnceInv
  <2>2. QueuedOnce(c)' /\ (Queuing(c)' => Queuing(c))
    BY <1>2, <2>1, QueueKept DEF OnePlace, QueueQuiet
  <2>3. Carried(c)' => Carried(c)
    BY <1>2, <1>5 DEF Carried
  <2>4. \A s \in Slots : StoredAt(c, s)' => StoredAt(c, s) /\ s # w
    BY <1>2, <1>4 DEF StoredAt
  <2>5. Stored(c)' => Stored(c)
    BY <2>4 DEF Stored
  <2>6. request'[c] = request[c]
    BY <1>2
  <2>7. CASE filterContext[w].value.from = c
    <3>1. StoredAt(c, w) /\ Stored(c)
      BY <1>3, <2>7 DEF StoredAt, Stored
    <3>2. ~Stored(c)'
      BY <2>1, <2>4, <3>1 DEF OnePlace, Stored
    <3>3. ~Returned(c)
      BY <2>1, <3>1 DEF OnePlace
    <3>4. \A d \in Calls : d # cur[t] => ~ResultIn(c, d)'
      BY <1>6, <3>3 DEF Returned, ResultIn
    <3>5. \A d, e \in Calls : ResultIn(c, d)' /\ ResultIn(c, e)' => d = e
      BY <3>4
    <3>6. QED
      BY <2>1, <2>2, <2>3, <2>4, <2>6, <3>1, <3>2, <3>5 DEF OnePlace
  <2>8. CASE filterContext[w].value.from # c
    <3>1. \A d \in Calls : ResultIn(c, d)' => ResultIn(c, d)
      BY <1>6, <2>8 DEF ResultIn
    <3>2. Returned(c)' => Returned(c)
      BY <3>1 DEF Returned
    <3>3. QED
      BY <2>1, <2>2, <2>3, <2>4, <2>5, <2>6, <3>1, <3>2 DEF OnePlace
  <2>9. QED
    BY <2>7, <2>8
<1>8. QED
  BY <1>2, <1>5, <1>7 DEF OnceInv

LEMMA OnceThreadStep ==
  ASSUME TypeOK, BegunInv, OnceInv, Next, NEW t \in Threads, ThreadStep(t)
  PROVE  OnceInv'
<1>1. CASE /\ QueueQuiet
           /\ UNCHANGED <<filterContext, callback, frame, outcome>>
           /\ \A u \in Threads : pc'[u] = "callback" => pc[u] = "callback"
  <2>1. InCallback' => InCallback
    BY <1>1 DEF InCallback
  <2>2. QED
    BY <1>1, <2>1, NothingMoves DEF Alive
<1>2. CASE \E status : /\ Return(t, status, Nothing) /\ pc[t] # "idle"
                       /\ UNCHANGED <<inbox, filterContext, callback>>
  BY <1>2, ReturnsNothing, NothingMoves DEF QueueQuiet
<1>3. CASE Send(t) \/ Reply(t) \/ SendFails(t)
  BY <1>1, <1>2, <1>3 DEF Send, Reply, SendFails, Goto, connVars, QueueQuiet, TypeOK
<1>4. CASE EnterReadWriteDispatch(t) \/ PollReturns(t) \/ DispatchNothing(t)
  BY <1>1, <1>4 DEF EnterReadWriteDispatch, PollReturns, DispatchNothing, Goto,
                    connVars, callVars, QueueQuiet, TypeOK
<1>5. CASE DispatchOther(t) \/ DropResponse(t)
  BY <1>1, <1>5, HeadResponse DEF DispatchOther, DropResponse, Dispatching, Goto,
                                  callVars, QueueQuiet, TypeOK
<1>6. CASE Walks(t)
  BY <1>1, <1>6, WalkGoesOn DEF callVars, QueueQuiet, TypeOK
<1>7. QED
  BY <1>3, <1>4, <1>5, <1>6, OnceInvokeFilter, OnceWriteContext, OnceFinishDialog
     DEF ThreadStep, Walks

(* The Response of a request that had none is put into the queue.          *)
LEMMA OnceUserAnswers ==
  ASSUME TypeOK, BegunInv, OnceInv, Next, NEW r \in Calls, NEW a \in Answers,
         UserAnswers(r, a)
  PROVE  OnceInv'
<1>1. /\ request[r] = "open" /\ request'[r] = "answered"
      /\ UNCHANGED <<callback, pc, frame, filterContext, outcome>>
      /\ inbox' = Append(inbox, Response(r, a))
  BY DEF UserAnswers, TypeOK, threadVars
<1>2. /\ Len(inbox) \in Nat /\ Len(inbox') = Len(inbox) + 1
      /\ inbox'[Len(inbox) + 1].req = r
      /\ \A i \in 1 .. Len(inbox) : inbox'[i] = inbox[i]
  <2>1. Response(r, a) \in Signals /\ inbox \in Seq(Signals)
    BY DEF Signals, TypeOK
  <2>2. Response(r, a).req = r
    BY DEF Response
  <2>3. QED
    BY <1>1, <2>1, <2>2, AppendShape
<1>3. ASSUME NEW c \in Calls PROVE OnePlace(c)'
  <2>1. OnePlace(c)
    BY DEF OnceInv
  <2>2. /\ Carried(c)' <=> Carried(c)
        /\ \A s \in Slots : StoredAt(c, s)' <=> StoredAt(c, s)
        /\ \A d \in Calls : ResultIn(c, d)' <=> ResultIn(c, d)
    BY <1>1 DEF Carried, InCallback, StoredAt, Alive, ResultIn
  <2>3. (Stored(c)' <=> Stored(c)) /\ (Returned(c)' <=> Returned(c))
    BY <2>2 DEF Stored, Returned
  <2>4. request[c] = "answered" => request'[c] = "answered"
    BY AnswerFinal
  <2>5. CASE c = r
    <3>1. ~Queuing(c) /\ ~Carried(c) /\ ~Stored(c) /\ ~Returned(c)
      BY <1>1, <2>1, <2>5 DEF OnePlace
    <3>2. \A i \in 1 .. Len(inbox') : inbox'[i].req = c => i = Len(inbox) + 1
      BY <1>2, <3>1 DEF Queuing
    <3>3. QueuedOnce(c)'
      BY <3>2 DEF QueuedOnce
    <3>4. QED
      BY <1>1, <2>1, <2>2, <2>3, <2>5, <3>1, <3>3 DEF OnePlace
  <2>6. CASE c # r
    <3>1. \A i \in 1 .. Len(inbox') :
            inbox'[i].req = c => i \in 1 .. Len(inbox) /\ inbox[i].req = c
      BY <1>2, <2>6
    <3>2. QueuedOnce(c)' /\ (Queuing(c)' => Queuing(c))
      BY <2>1, <3>1 DEF QueuedOnce, Queuing, OnePlace
    <3>3. QED
      BY <2>1, <2>2, <2>3, <2>4, <3>2 DEF OnePlace
  <2>7. QED
    BY <2>5, <2>6
<1>4. QED
  BY <1>1, <1>3 DEF OnceInv, InCallback

LEMMA OnceNext == TypeOK /\ BegunInv /\ OnceInv /\ [Next]_vars => OnceInv'
<1> SUFFICES ASSUME TypeOK, BegunInv, OnceInv, [Next]_vars PROVE OnceInv'
  OBVIOUS
<1>1. CASE UNCHANGED vars
  BY <1>1 DEF OnceInv, OnePlace, QueuedOnce, Queuing, Carried, InCallback, StoredAt,
              Stored, ResultIn, Returned, Alive, vars, connVars, threadVars, callVars
<1>2. ASSUME Next,
             Disconnect \/ \E c \in Calls : PortalAccepts(c) \/ PortalRefuses(c)
      PROVE  OnceInv'
  <2>1. QueueQuiet /\ UNCHANGED <<filterContext, callback, frame, outcome, pc>>
    BY <1>2 DEF Disconnect, PortalAccepts, PortalRefuses, connVars, threadVars,
                callVars, QueueQuiet
  <2>2. QED
    BY <1>2, <2>1, NothingMoves DEF InCallback, Alive
<1>3. QED
  BY <1>1, <1>2, OnceCaller, OnceThreadStep, OnceUserAnswers DEF Next, Environment

LEMMA OnceInvariant == Spec => []OnceInv
<1>1. Init => OnceInv
  <2>1. ASSUME Init, NEW c \in Calls PROVE OnePlace(c)
    <3>1. /\ Len(inbox) = 0 /\ ~InCallback
          /\ \A s \in Slots : filterContext[s].value.from # c
          /\ \A d \in Calls : outcome[d].value.from # c
      BY <2>1 DEF Init, InCallback, EmptyContext, NotReturned, Nothing
    <3>2. ~Queuing(c) /\ ~Carried(c) /\ ~Stored(c) /\ ~Returned(c)
      BY <3>1 DEF Queuing, Carried, Stored, StoredAt, Returned, ResultIn
    <3>3. QED
      BY <3>1, <3>2 DEF OnePlace, QueuedOnce, StoredAt, ResultIn
  <2>2. QED
    BY <2>1 DEF Init, OnceInv, InCallback
<1>2. QED
  BY <1>1, OnceNext, TypeCorrect, BegunInvariant, PTL DEF Spec

(* However many threads run dialogs, whatever fails, and although a filter *)
(* takes any Response and may go on writing to a context whose call has    *)
(* returned, two calls never return the same Response.                     *)
THEOREM ResponsesReturnOnce == Spec => []OneReturnPerResponse
<1>1. TypeOK /\ OnceInv => OneReturnPerResponse
  <2> SUFFICES ASSUME TypeOK, OnceInv, NEW c \in Calls, NEW d \in Calls,
                      outcome[c].value.from = outcome[d].value.from,
                      outcome[c].value.from # NULL
               PROVE  c = d
    BY DEF OneReturnPerResponse
  <2>1. outcome[c].value.from \in Calls
    BY DEF TypeOK, Values
  <2>2. QED
    BY <2>1 DEF OnceInv, OnePlace, ResultIn
<1>2. QED
  BY <1>1, OnceInvariant, TypeCorrect, PTL

-----------------------------------------------------------------------------
(* A path is stored before the call that waits for it returns.             *)

HasPath(s) == filterContext[s].value.from # NULL

(* The call that owns this context waits in this filter.                   *)
Waits(s, func) == Func(cur[s[1]]) = func

OwnFilters == \A k \in DOMAIN filters : Waits(filters[k].slot, filters[k].func)

OnlyDialogsWait ==
  \A t \in Threads : cur[t] # NULL /\ ~InDialog(t) => op[cur[t]] = "open_native"

(* What follows holds until a filter writes to what is not its context.    *)
PathInContext ==
  ~strayWrite =>
    \A t \in Threads :
      /\ InDialog(t) /\ Func(cur[t]) = "filter_func"
      /\ filterContext[SlotOf(t)].completed
      => HasPath(SlotOf(t))

(* A filter that has still to set completed runs for a call that waits; a  *)
(* filter_func_multi that has set it may find the call gone.               *)
PathInCallback ==
  ~strayWrite /\ InCallback =>
    /\ callback.value.from # NULL
    /\ callback.todo \in IF callback.func = "filter_func"
                         THEN {<<"value", "completed">>, <<"completed">>}
                         ELSE {<<"completed", "value">>, <<"value">>}
    /\ callback.todo # <<"value">> =>
         /\ Alive(callback.slot)
         /\ Waits(callback.slot, callback.func)
         /\ ~filterContext[callback.slot].completed
    /\ callback.todo = <<"completed">> => HasPath(callback.slot)

PathInv ==
  /\ OwnFilters
  /\ OnlyDialogsWait
  /\ PathInContext
  /\ PathInCallback
  /\ PathStoredBeforeReturn

(* A call stays what it is.                                                *)
LEMMA FuncFinal ==
  ASSUME TypeOK, Next
  PROVE  \A c \in Calls : op[c] # NULL => op'[c] = op[c] /\ Func(c)' = Func(c)
<1>1. UNCHANGED op \/ \E c \in Calls, o \in Ops : op[c] = NULL /\ op' = [op EXCEPT ![c] = o]
  <2>1. ASSUME NEW t \in Threads, Caller(t)
        PROVE  \E c \in Calls, o \in Ops : op[c] = NULL /\ op' = [op EXCEPT ![c] = o]
    BY <2>1 DEF Caller, BeginDialog, BeginNative, BeginFails, Calling
  <2>2. ASSUME NEW t \in Threads, ThreadStep(t) PROVE UNCHANGED op
    BY <2>2, WalkGoesOn
       DEF ThreadStep, Walks, Send, Reply, SendFails, EnterReadWriteDispatch, PollReturns,
           DispatchNothing, DispatchOther, InvokeFilter, DropResponse, WriteContext,
           FinishDialog, callVars
  <2>3. CASE Environment
    BY <2>3 DEF Environment, PortalAccepts, PortalRefuses, UserAnswers, Disconnect, callVars
  <2>4. QED
    BY <2>1, <2>2, <2>3 DEF Next
<1>2. QED
  BY <1>1 DEF TypeOK, Func

LEMMA SlotShape ==
  ASSUME TypeOK, NEW s \in Slots, Alive(s)
  PROVE  /\ s[1] \in Threads /\ s[2] \in Frames
         /\ s = SlotOf(s[1]) /\ InDialog(s[1]) /\ cur[s[1]] \in Calls
         /\ pc[s[1]] # "idle"
<1>1. PICK u \in Threads, g \in Frames : s = <<u, g>>
  BY DEF Slots
<1>2. QED
  BY <1>1 DEF Alive, SlotOf, InDialog, TypeOK

LEMMA FilterAlive ==
  ASSUME TypeOK, FiltersAlive, NEW k \in DOMAIN filters
  PROVE  filters[k].slot \in Slots /\ Alive(filters[k].slot)
<1>1. filters[k] \in Filters
  BY DEF TypeOK
<1>2. QED
  BY <1>1 DEF Filters, FiltersAlive

(* A write that went astray is not undone.                                 *)
LEMMA StrayWriteStays ==
  ASSUME TypeOK, [Next]_vars
  PROVE  strayWrite => strayWrite'
<1>1. ASSUME NEW t \in Threads, Caller(t) PROVE strayWrite => strayWrite'
  BY <1>1 DEF Caller, BeginDialog, BeginNative, BeginFails, history
<1>2. ASSUME NEW t \in Threads, ThreadStep(t) PROVE strayWrite => strayWrite'
  BY <1>2, WalkGoesOn
     DEF ThreadStep, Walks, Send, Reply, SendFails, EnterReadWriteDispatch, PollReturns,
         DispatchNothing, DispatchOther, InvokeFilter, DropResponse, WriteContext,
         FinishDialog, history
<1>3. CASE Environment \/ UNCHANGED vars
  BY <1>3 DEF Environment, PortalAccepts, PortalRefuses, UserAnswers, Disconnect, vars,
              history
<1>4. QED
  BY <1>1, <1>2, <1>3 DEF Next

(* A step that moves no call, no context and no filter.                    *)
LEMMA PathSame ==
  ASSUME PathInv, UNCHANGED <<filters, cur, frame, filterContext, callback, outcome, op>>,
         InCallback' => InCallback, strayWrite => strayWrite'
  PROVE  PathInv'
<1>1. \A c : Func(c)' = Func(c)
  BY DEF Func
<1>2. \A t : SlotOf(t)' = SlotOf(t) /\ InDialog(t)' = InDialog(t)
  BY DEF SlotOf, InDialog
<1>3. /\ \A s : Alive(s)' = Alive(s) /\ HasPath(s)' = HasPath(s)
      /\ \A s, func : Waits(s, func)' = Waits(s, func)
  BY <1>1 DEF Alive, HasPath, Waits
<1>4. OwnFilters' /\ OnlyDialogsWait' /\ PathInContext'
  BY <1>1, <1>2, <1>3 DEF PathInv, OwnFilters, OnlyDialogsWait, PathInContext
<1>5. PathInCallback'
  BY <1>1, <1>3 DEF PathInv, PathInCallback
<1>6. PathStoredBeforeReturn'
  BY <1>1 DEF PathInv, PathStoredBeforeReturn
<1>7. QED
  BY <1>4, <1>5, <1>6 DEF PathInv

LEMMA PathBegin ==
  ASSUME TypeOK, BegunInv, strayWrite => strayWrite', FiltersAlive, PathInv, Next, NEW t \in Threads, NEW c \in Calls,
         \/ BeginNative(t, c) /\ "open_native" \in Ops
         \/ \E o \in Ops \cap Dialogs, f \in Frames : BeginDialog(t, c, o, f)
  PROVE  PathInv'
<1>1. /\ pc[t] = "idle" /\ cur[t] = NULL /\ frame[t] = NULL /\ op[c] = NULL
      /\ pc' = [pc EXCEPT ![t] = "send"] /\ cur' = [cur EXCEPT ![t] = c]
      /\ UNCHANGED <<callback, outcome>>
  BY DEF BeginNative, BeginDialog, Calling, Goto, TypeOK, InDialog
<1>2. \A d \in Calls : op[d] # NULL => op'[d] = op[d] /\ Func(d)' = Func(d) /\ d # c
  BY <1>1, FuncFinal
<1>3. ASSUME NEW u \in Threads, u # t
      PROVE  /\ frame'[u] = frame[u] /\ cur'[u] = cur[u] /\ SlotOf(u)' = SlotOf(u)
             /\ cur[u] # NULL => op'[cur[u]] = op[cur[u]] /\ Func(cur[u])' = Func(cur[u])
  <2>1. frame'[u] = frame[u] /\ cur'[u] = cur[u]
    BY <1>1, <1>3 DEF BeginNative, BeginDialog, TypeOK
  <2>2. cur[u] # NULL => cur[u] \in Calls /\ op[cur[u]] # NULL
    BY DEF BegunInv, TypeOK
  <2>3. cur[u] # NULL => op'[cur[u]] = op[cur[u]]
    BY <1>2, <2>2
  <2>4. QED
    BY <2>1, <2>3 DEF Func, SlotOf
<1>4. \A s \in Slots : s[1] # t => filterContext'[s] = filterContext[s]
  <2>1. UNCHANGED filterContext \/ \E f \in Frames :
          filterContext' = [filterContext EXCEPT ![<<t, f>>] = EmptyContext]
    BY DEF BeginNative, BeginDialog, ZeroContext
  <2>2. \A f \in Frames, s \in Slots : s[1] # t => s # <<t, f>>
    BY DEF Slots
  <2>3. CASE UNCHANGED filterContext
    BY <2>3
  <2>4. ASSUME NEW f \in Frames,
               filterContext' = [filterContext EXCEPT ![<<t, f>>] = EmptyContext]
        PROVE  \A s \in Slots : s[1] # t => filterContext'[s] = filterContext[s]
    BY <2>2, <2>4 DEF TypeOK
  <2>5. QED
    BY <2>1, <2>3, <2>4
<1>5. ASSUME NEW s \in Slots, Alive(s)
       PROVE  /\ s[1] \in Threads \ {t} /\ Alive(s)'
              /\ \A func : Waits(s, func)' = Waits(s, func)
              /\ filterContext'[s] = filterContext[s]
  <2>1. s[1] \in Threads /\ s[1] # t /\ cur[s[1]] # NULL
    BY <1>1, <1>5, SlotShape
  <2>2. \A u \in Threads : u # t /\ cur[u] # NULL => Func(cur[u])' = Func(cur[u])
    BY <1>3
  <2>3. QED
    BY <1>3, <1>4, <1>5, <2>1, <2>2 DEF Alive, Waits
<1>6. PathStoredBeforeReturn'
  BY <1>1, <1>2 DEF PathInv, PathStoredBeforeReturn, BegunInv
<1>7. InCallback' => InCallback
  BY <1>1 DEF InCallback, TypeOK
<1>8. PathInCallback'
  <2> SUFFICES ASSUME ~strayWrite, InCallback' PROVE PathInCallback'
    BY DEF PathInCallback
  <2>1. callback \in Callbacks /\ InCallback
    BY <1>7 DEF InCallback, TypeOK
  <2>2. CASE callback.todo = <<"value">>
    BY <1>1, <2>1, <2>2 DEF PathInv, PathInCallback
  <2>3. CASE callback.todo # <<"value">>
    <3>1. /\ callback.slot \in Slots /\ Alive(callback.slot)
      BY <2>1, <2>3 DEF PathInv, PathInCallback, Callbacks
    <3>2. /\ Alive(callback.slot)'
          /\ Waits(callback.slot, callback.func)'
          /\ filterContext'[callback.slot] = filterContext[callback.slot]
      <4>1. /\ Waits(callback.slot, callback.func)
            /\ callback' = callback
        BY <1>1, <2>1, <2>3 DEF PathInv, PathInCallback
      <4>2. \A w, func : callback.slot = w /\ callback.func = func =>
              Alive(w)' /\ Waits(w, func)'
        BY <1>5, <3>1, <4>1
      <4>3. QED
        BY <1>5, <3>1, <4>1, <4>2
    <3>3. QED
      BY <1>1, <2>1, <3>2 DEF PathInv, PathInCallback, HasPath
  <2>4. QED
    BY <2>2, <2>3
<1>9. \A k \in DOMAIN filters : \A w, func :
        filters[k].slot = w /\ filters[k].func = func => Waits(w, func)'
  <2> TAKE k \in DOMAIN filters
  <2>1. filters[k].slot \in Slots /\ Alive(filters[k].slot)
    BY FilterAlive
  <2>2. QED
    BY <1>5, <2>1 DEF PathInv, OwnFilters
<1>10. CASE BeginNative(t, c) /\ "open_native" \in Ops
  <2>1. UNCHANGED <<filters, frame, filterContext>> /\ op'[c] = "open_native"
    BY <1>10 DEF BeginNative, TypeOK
  <2>2. OwnFilters'
    <3>1. \A k \in DOMAIN filters : Waits(filters[k].slot, filters[k].func)'
      BY <1>9, <2>1
    <3>2. QED
      BY <2>1, <3>1 DEF OwnFilters
  <2>3. OnlyDialogsWait'
    BY <1>1, <1>3, <2>1 DEF PathInv, OnlyDialogsWait, InDialog, TypeOK
  <2>4. PathInContext'
    <3>1. \A u \in Threads : InDialog(u)' => u # t /\ InDialog(u) /\ cur[u] # NULL
      BY <1>1, <2>1 DEF InDialog, TypeOK
    <3>2. QED
      BY <1>3, <2>1, <3>1 DEF PathInv, PathInContext, HasPath
  <2>5. QED
    BY <1>6, <1>8, <2>2, <2>3, <2>4 DEF PathInv
<1>11. ASSUME NEW o \in Ops \cap Dialogs, NEW f \in Frames, BeginDialog(t, c, o, f)
       PROVE  PathInv'
  <2> DEFINE e == [func |-> EntryPoint[o].func, slot |-> <<t, f>>, call |-> c]
  <2>1. /\ filters' = Append(filters, e) /\ frame' = [frame EXCEPT ![t] = f]
        /\ filterContext' = [filterContext EXCEPT ![<<t, f>>] = EmptyContext]
        /\ op'[c] = o
    BY <1>11 DEF BeginDialog, ZeroContext, TypeOK
  <2>2. e \in Filters
    BY EntryPointType DEF Filters, Slots, Dialogs
  <2>3. OwnFilters'
    <3>1. /\ DOMAIN filters = 1 .. Len(filters) /\ DOMAIN filters' = 1 .. (Len(filters) + 1)
          /\ filters'[Len(filters) + 1] = e /\ Len(filters) \in Nat
          /\ \A k \in 1 .. Len(filters) : filters'[k] = filters[k]
      BY <2>1, <2>2, AppendShape DEF TypeOK
    <3>2. Waits(<<t, f>>, EntryPoint[o].func)'
      BY <1>1, <2>1 DEF Waits, Func, TypeOK
    <3>3. \A k \in DOMAIN filters' : Waits(filters[k].slot, filters[k].func)'
      BY <1>9, <3>1, <3>2
    <3>4. QED
      BY <3>3 DEF OwnFilters
  <2>4. OnlyDialogsWait'
    BY <1>1, <1>3, <2>1 DEF PathInv, OnlyDialogsWait, InDialog, TypeOK
  <2>5. PathInContext'
    <3> SUFFICES ASSUME ~strayWrite PROVE PathInContext'
      BY DEF PathInContext
    <3>1. ASSUME NEW u \in Threads, u # t, InDialog(u)'
          PROVE  /\ filterContext'[SlotOf(u)'] = filterContext[SlotOf(u)]
                 /\ InDialog(u) /\ cur[u] # NULL
      <4>1. InDialog(u) /\ cur[u] # NULL
        BY <1>3, <3>1 DEF InDialog, TypeOK
      <4>2. SlotOf(u) \in Slots /\ SlotOf(u)[1] = u
        BY <4>1 DEF SlotOf, Slots, InDialog, TypeOK
      <4>3. QED
        BY <1>3, <1>4, <3>1, <4>1, <4>2
    <3>2. ~filterContext'[SlotOf(t)'].completed
      BY <2>1 DEF SlotOf, EmptyContext, TypeOK, Slots
    <3>3. ASSUME NEW u \in Threads, InDialog(u)', (Func(cur[u]) = "filter_func")',
                 (filterContext[SlotOf(u)].completed)'
          PROVE  HasPath(SlotOf(u))'
      <4>1. u # t
        BY <3>2, <3>3
      <4>2. /\ filterContext'[SlotOf(u)'] = filterContext[SlotOf(u)]
            /\ InDialog(u) /\ cur[u] # NULL
        BY <3>1, <3>3, <4>1
      <4>3. Func(cur[u]) = "filter_func"
        BY <1>3, <3>3, <4>1, <4>2
      <4>4. QED
        BY <3>3, <4>2, <4>3 DEF PathInv, PathInContext, HasPath
    <3>4. QED
      BY <3>3 DEF PathInContext
  <2>6. QED
    BY <1>6, <1>8, <2>3, <2>4, <2>5 DEF PathInv
<1>12. QED
  BY <1>10, <1>11

LEMMA PathBeginFails ==
  ASSUME TypeOK, BegunInv, strayWrite => strayWrite', FiltersAlive, PathInv, Next, NEW t \in Threads,
         NEW c \in Calls, NEW o \in Ops, BeginFails(t, c, o)
  PROVE  PathInv'
<1>1. /\ op[c] = NULL /\ UNCHANGED <<filters, callback, pc, cur, frame, filterContext>>
      /\ outcome'[c].status = "error"
      /\ \A d \in Calls : d # c => outcome'[d] = outcome[d]
  BY DEF BeginFails, Calling, connVars, threadVars, TypeOK
<1>2. \A d \in Calls : op[d] # NULL => op'[d] = op[d] /\ Func(d)' = Func(d)
  BY FuncFinal
<1>3. \A u \in Threads : cur[u] # NULL =>
        op'[cur[u]] = op[cur[u]] /\ Func(cur[u])' = Func(cur[u])
  <2> TAKE u \in Threads
  <2>1. cur[u] # NULL => cur[u] \in Calls /\ op[cur[u]] # NULL
    BY DEF BegunInv, TypeOK
  <2>2. QED
    BY <1>1, <1>2, <2>1 DEF Func
<1>4. \A s \in Slots : Alive(s) => \A func : Waits(s, func)' = Waits(s, func)
  <2> SUFFICES ASSUME NEW s \in Slots, Alive(s)
               PROVE  \A func : Waits(s, func)' = Waits(s, func)
    OBVIOUS
  <2>1. s[1] \in Threads /\ cur[s[1]] # NULL
    BY SlotShape
  <2>2. QED
    BY <1>3, <2>1 DEF Waits
<1>5. /\ \A s : Alive(s)' = Alive(s) /\ HasPath(s)' = HasPath(s)
      /\ \A u : SlotOf(u)' = SlotOf(u) /\ InDialog(u)' = InDialog(u)
      /\ InCallback' = InCallback
  BY <1>1 DEF Alive, HasPath, SlotOf, InDialog, InCallback
<1>6. OwnFilters'
  <2>1. \A k \in DOMAIN filters : filters[k].slot \in Slots /\ Alive(filters[k].slot)
    BY FilterAlive
  <2>2. \A k \in DOMAIN filters : Waits(filters[k].slot, filters[k].func)'
    BY <1>1, <1>4, <2>1 DEF PathInv, OwnFilters
  <2>3. QED
    BY <1>1, <2>2 DEF OwnFilters
<1>7. OnlyDialogsWait' /\ PathInContext'
  BY <1>1, <1>3, <1>5 DEF PathInv, OnlyDialogsWait, PathInContext, TypeOK
<1>8. PathInCallback'
  <2> SUFFICES ASSUME ~strayWrite, InCallback PROVE PathInCallback'
    BY <1>5 DEF PathInCallback
  <2>1. callback.slot \in Slots
    BY DEF InCallback, TypeOK, Callbacks
  <2>2. QED
    BY <1>1, <1>4, <1>5, <2>1 DEF PathInv, PathInCallback
<1>9. PathStoredBeforeReturn'
  BY <1>1, <1>2 DEF PathInv, PathStoredBeforeReturn, BegunInv
<1>10. QED
  BY <1>6, <1>7, <1>8, <1>9 DEF PathInv

LEMMA PathReply ==
  ASSUME TypeOK, BegunInv, strayWrite => strayWrite', FiltersAlive, PathInv, NEW t \in Threads, Reply(t)
  PROVE  PathInv'
<1>1. CASE InDialog(t)
  <2>1. pc' = [pc EXCEPT ![t] = "wait"] /\ UNCHANGED <<filters, callback, cur, frame, filterContext, op, outcome>>
    BY <1>1 DEF Reply, Goto, connVars
  <2>2. InCallback' => InCallback
    BY <2>1 DEF InCallback, TypeOK
  <2>3. QED
    BY <2>1, <2>2, PathSame
<1>2. CASE ~InDialog(t)
  <2>1. /\ pc[t] = "reply" /\ cur[t] \in Calls
        /\ pc' = [pc EXCEPT ![t] = "idle"] /\ cur' = [cur EXCEPT ![t] = NULL]
        /\ frame' = [frame EXCEPT ![t] = NULL] /\ frame[t] = NULL
        /\ UNCHANGED <<filters, callback, filterContext, op>>
        /\ \A c \in Calls : c # cur[t] => outcome'[c] = outcome[c]
    BY <1>2 DEF Reply, Return, Goto, InDialog, connVars, TypeOK
  <2>2. frame' = frame /\ (InCallback' => InCallback)
    BY <2>1 DEF InCallback, TypeOK
  <2>3. \A u \in Threads : u # t => cur'[u] = cur[u]
    BY <2>1 DEF TypeOK
  <2>4. /\ \A c : Func(c)' = Func(c)
        /\ \A u : SlotOf(u)' = SlotOf(u) /\ InDialog(u)' = InDialog(u)
        /\ \A s : Alive(s)' = Alive(s) /\ HasPath(s)' = HasPath(s)
    BY <2>1, <2>2 DEF Func, SlotOf, InDialog, Alive, HasPath
  <2>5. ASSUME NEW s \in Slots, Alive(s)
        PROVE  \A func : Waits(s, func)' = Waits(s, func)
    <3>1. s[1] \in Threads /\ s[1] # t
      BY <1>2, <2>5, SlotShape
    <3>2. cur'[s[1]] = cur[s[1]]
      BY <2>3, <3>1
    <3>3. QED
      BY <2>1, <3>2 DEF Waits, Func
  <2>6. OnlyDialogsWait' /\ PathInContext'
    <3>1. \A u \in Threads : cur'[u] # NULL => u # t /\ cur'[u] = cur[u]
      BY <2>1, <2>3 DEF TypeOK
    <3>2. \A u \in Threads : InDialog(u) => u # t
      BY <1>2
    <3>3. OnlyDialogsWait'
      BY <2>1, <2>4, <3>1 DEF PathInv, OnlyDialogsWait
    <3>4. PathInContext'
      BY <2>1, <2>3, <2>4, <3>2 DEF PathInv, PathInContext
    <3>5. QED
      BY <3>3, <3>4
  <2>7. PathInCallback'
    <3> SUFFICES ASSUME ~strayWrite, InCallback, callback \in Callbacks PROVE PathInCallback'
      BY <2>2 DEF PathInCallback, InCallback, TypeOK
    <3>1. callback.slot \in Slots
      BY DEF Callbacks
    <3>2. QED
      BY <2>1, <2>4, <2>5, <3>1 DEF PathInv, PathInCallback
  <2>8. PathStoredBeforeReturn'
    <3>1. Func(cur[t]) = "none"
      BY <1>2, <2>1, EntryPointType DEF PathInv, OnlyDialogsWait, Func
    <3>2. QED
      BY <2>1, <2>4, <3>1 DEF PathInv, PathStoredBeforeReturn
  <2>9. OwnFilters'
    <3>1. \A k \in DOMAIN filters : filters[k].slot \in Slots /\ Alive(filters[k].slot)
      BY FilterAlive
    <3>2. \A k \in DOMAIN filters : Waits(filters[k].slot, filters[k].func)'
      BY <2>1, <2>5, <3>1 DEF PathInv, OwnFilters
    <3>3. QED
      BY <2>1, <3>2 DEF OwnFilters
  <2>10. QED
    BY <2>6, <2>7, <2>8, <2>9 DEF PathInv
<1>3. QED
  BY <1>1, <1>2

LEMMA PathInvokeFilter ==
  ASSUME TypeOK, strayWrite => strayWrite', PathInv, NEW t \in Threads, InvokeFilter(t)
  PROVE  PathInv'
<1> DEFINE f == Head(walk)
<1>1. /\ pc[t] = "filter" /\ Takes(f)
      /\ UNCHANGED <<filters, cur, frame, filterContext, op, outcome>>
      /\ strayWrite' = (strayWrite \/ ~Fits(f))
  BY DEF InvokeFilter, callVars
<1>2. /\ callback'.value.from \in Calls
      /\ callback'.slot = f.slot /\ callback'.func = f.func
      /\ callback'.todo = Publishes(f.func)
  BY <1>1, HeadResponse DEF InvokeFilter
<1>3. /\ \A c : Func(c)' = Func(c)
      /\ \A u : SlotOf(u)' = SlotOf(u) /\ InDialog(u)' = InDialog(u)
      /\ \A s : Alive(s)' = Alive(s) /\ HasPath(s)' = HasPath(s)
      /\ \A s, func : Waits(s, func)' = Waits(s, func)
  BY <1>1 DEF Func, SlotOf, InDialog, Alive, HasPath, Waits
<1>4. OwnFilters' /\ OnlyDialogsWait' /\ PathInContext' /\ PathStoredBeforeReturn'
  BY <1>1, <1>3 DEF PathInv, OwnFilters, OnlyDialogsWait, PathInContext,
                    PathStoredBeforeReturn
<1>5. PathInCallback'
  <2> SUFFICES ASSUME ~strayWrite' PROVE PathInCallback'
    BY DEF PathInCallback
  <2>1. Alive(f.slot) /\ Waits(f.slot, f.func) /\ ~filterContext[f.slot].completed
    BY <1>1 DEF Fits, Takes, Completed, Waits
  <2> HIDE DEF f
  <2>2. \A w, func : callback'.slot = w /\ callback'.func = func /\ Alive(w) /\ Waits(w, func)
                       => Alive(callback.slot)' /\ Waits(callback.slot, callback.func)'
    BY <1>3
  <2>3. Alive(callback.slot)' /\ Waits(callback.slot, callback.func)'
    BY <1>2, <2>1, <2>2
  <2>4. callback'.todo \in IF callback'.func = "filter_func"
                           THEN {<<"value", "completed">>, <<"completed">>}
                           ELSE {<<"completed", "value">>, <<"value">>}
    BY <1>2 DEF Publishes
  <2>5. callback'.todo # <<"completed">>
    BY <1>2 DEF Publishes
  <2>6. QED
    BY <1>1, <1>2, <2>1, <2>3, <2>4, <2>5 DEF PathInCallback
<1>6. QED
  BY <1>4, <1>5 DEF PathInv

(* What WriteContext does to the context and to the filter that runs.      *)
LEMMA WriteContextStep ==
  ASSUME TypeOK, NEW t \in Threads, WriteContext(t), callback.todo \in Todos
  PROVE  /\ callback \in Callbacks /\ callback.slot \in Slots
         /\ pc[t] = "callback" /\ \A u \in Threads : pc[u] = "callback" => u = t
         /\ \A s \in Slots : s # callback.slot => filterContext'[s] = filterContext[s]
         /\ Head(callback.todo) = "completed" =>
              /\ filterContext'[callback.slot].completed
              /\ filterContext'[callback.slot].value = filterContext[callback.slot].value
         /\ Head(callback.todo) = "value" =>
              /\ filterContext'[callback.slot].completed = filterContext[callback.slot].completed
              /\ filterContext'[callback.slot].value.from = callback.value.from
         /\ InCallback' =>
              /\ Len(callback.todo) > 1
              /\ callback' = [callback EXCEPT !.todo = Tail(callback.todo)]
              /\ callback'.todo = Tail(callback.todo) /\ callback'.value = callback.value
              /\ callback'.slot = callback.slot /\ callback'.func = callback.func
              /\ callback'.call = callback.call
<1> DEFINE w == callback.slot
<1>1. callback \in Callbacks /\ pc[t] = "callback"
      /\ \A u \in Threads : pc[u] = "callback" => u = t
  BY DEF WriteContext, Dispatcher, TypeOK
<1>2. w \in Slots /\ callback.value \in Values
  BY <1>1 DEF Callbacks
<1>3. filterContext[w] \in Contexts
  BY <1>2 DEF TypeOK
<1>4. ASSUME Head(callback.todo) = "completed"
      PROVE  /\ \A s \in Slots : s # w => filterContext'[s] = filterContext[s]
             /\ filterContext'[w].completed
             /\ filterContext'[w].value = filterContext[w].value
  <2>1. filterContext' = [filterContext EXCEPT ![w] = [@ EXCEPT !.completed = TRUE]]
    BY <1>4 DEF WriteContext
  <2>2. QED
    BY <1>2, <1>3, <2>1 DEF TypeOK, Contexts
<1>5. ASSUME Head(callback.todo) # "completed"
      PROVE  /\ \A s \in Slots : s # w => filterContext'[s] = filterContext[s]
             /\ filterContext'[w].completed = filterContext[w].completed
             /\ filterContext'[w].value.from = callback.value.from
  <2>1. PICK v : /\ filterContext' = [filterContext EXCEPT ![w] = [@ EXCEPT !.value = v]]
                 /\ v = callback.value \/ v = [callback.value EXCEPT !.files = <<NULL>>]
    BY <1>5 DEF WriteContext
  <2>2. v.from = callback.value.from
    BY <1>2, <2>1 DEF Values
  <2>3. QED
    BY <1>2, <1>3, <2>1, <2>2 DEF TypeOK, Contexts
<1>6. CASE Len(callback.todo) > 1
  <2>1. callback' = [callback EXCEPT !.todo = Tail(callback.todo)]
    BY <1>6 DEF WriteContext
  <2>2. /\ callback'.todo = Tail(callback.todo) /\ callback'.value = callback.value
        /\ callback'.slot = callback.slot /\ callback'.func = callback.func
        /\ callback'.call = callback.call
    BY <1>1, <2>1 DEF Callbacks
  <2>3. QED
    BY <1>1, <1>2, <1>4, <1>5, <1>6, <2>1, <2>2
<1>7. CASE ~(Len(callback.todo) > 1)
  <2>1. pc' = [pc EXCEPT ![t] = "wait"]
    BY <1>7 DEF WriteContext, Goto
  <2>2. ~InCallback'
    BY <1>1, <2>1 DEF InCallback, TypeOK
  <2>3. QED
    BY <1>1, <1>2, <1>4, <1>5, <2>2
<1>8. QED
  BY <1>6, <1>7

LEMMA PathWriteContext ==
  ASSUME TypeOK, OnceInv, strayWrite => strayWrite', PathInv, NEW t \in Threads,
         WriteContext(t)
  PROVE  PathInv'
<1> DEFINE w == callback.slot
<1>1. UNCHANGED <<filters, cur, frame, op, outcome>>
  BY DEF WriteContext, callVars
<1>2. InCallback /\ callback.todo \in Todos
  BY DEF WriteContext, InCallback, OnceInv
<1>3. /\ \A c : Func(c)' = Func(c)
      /\ \A u : SlotOf(u)' = SlotOf(u) /\ InDialog(u)' = InDialog(u)
      /\ \A s : Alive(s)' = Alive(s)
      /\ \A s, func : Waits(s, func)' = Waits(s, func)
  BY <1>1 DEF Func, SlotOf, InDialog, Alive, Waits
<1>4. OwnFilters' /\ OnlyDialogsWait' /\ PathStoredBeforeReturn'
  BY <1>1, <1>3 DEF PathInv, OwnFilters, OnlyDialogsWait, PathStoredBeforeReturn
<1>5. w \in Slots
  BY <1>2, WriteContextStep
<1>6. ASSUME ~strayWrite
      PROVE  \A s \in Slots : HasPath(s) => HasPath(s)'
  <2>1. filterContext[w].value.from # NULL => filterContext'[w].value.from # NULL
    BY <1>2, <1>6, WriteContextStep, TodoShape DEF PathInv, PathInCallback
  <2>2. QED
    BY <1>2, <2>1, WriteContextStep DEF HasPath
<1>7. PathInContext'
  <2> SUFFICES ASSUME ~strayWrite, NEW u \in Threads, InDialog(u), Func(cur[u]) = "filter_func",
                      filterContext'[SlotOf(u)].completed
               PROVE  HasPath(SlotOf(u))'
    BY <1>1, <1>3 DEF PathInContext
  <2>1. SlotOf(u) \in Slots /\ SlotOf(u)[1] = u
    BY DEF SlotOf, Slots, InDialog, TypeOK
  <2>2. PICK s \in Slots : s = SlotOf(u)
    BY <2>1
  <2>3. CASE filterContext[s].completed
    <3>1. HasPath(s)
      BY <2>2, <2>3 DEF PathInv, PathInContext
    <3>2. QED
      BY <1>3, <1>6, <2>2, <3>1 DEF HasPath
  <2>4. CASE ~filterContext[s].completed
    <3>1. s = w /\ Head(callback.todo) = "completed"
      BY <1>2, <2>2, <2>4, WriteContextStep, TodoShape
    <3>2. callback.todo # <<"value">>
      BY <3>1
    <3>3. callback.func = "filter_func"
      BY <1>2, <2>1, <2>2, <3>1, <3>2 DEF PathInv, PathInCallback, Waits
    <3>4. callback.todo = <<"completed">>
      BY <1>2, <3>1, <3>3 DEF PathInv, PathInCallback
    <3>5. HasPath(s)
      BY <1>2, <3>1, <3>4 DEF PathInv, PathInCallback
    <3>6. QED
      BY <1>3, <1>6, <2>2, <3>5 DEF HasPath
  <2>5. QED
    BY <2>3, <2>4
<1>8. PathInCallback'
  <2> SUFFICES ASSUME ~strayWrite, InCallback' PROVE PathInCallback'
    BY DEF PathInCallback
  <2>1. /\ Len(callback.todo) > 1 /\ callback'.todo = Tail(callback.todo)
        /\ callback'.value = callback.value /\ callback'.slot = w
        /\ callback'.func = callback.func
    BY <1>2, WriteContextStep
  <2>2. CASE callback.func = "filter_func"
    <3>1. callback.todo = <<"value", "completed">>
      <4>1. callback.todo \in {<<"value", "completed">>, <<"completed">>}
        BY <1>2, <2>2 DEF PathInv, PathInCallback
      <4>2. ~(Len(<<"completed">>) > 1)
        OBVIOUS
      <4>3. callback.todo # <<"completed">>
        BY <2>1, <4>2
      <4>4. QED
        BY <4>1, <4>3
    <3>2. Head(callback.todo) = "value" /\ callback'.todo = <<"completed">>
      BY <1>2, <2>1, <3>1, TodoShape
    <3>3. /\ Alive(w) /\ Waits(w, callback.func) /\ ~filterContext[w].completed
          /\ callback.value.from # NULL
      BY <1>2, <3>1 DEF PathInv, PathInCallback
    <3>4. ~filterContext'[w].completed /\ filterContext'[w].value.from # NULL
      BY <1>2, <3>2, <3>3, WriteContextStep
    <3>5. \A s, func : s = callback'.slot /\ func = callback'.func /\ Alive(s) /\ Waits(s, func)
                         => Alive(callback.slot)' /\ Waits(callback.slot, callback.func)'
      BY <1>3
    <3>6. Alive(callback.slot)' /\ Waits(callback.slot, callback.func)'
      BY <2>1, <3>3, <3>5
    <3>7. QED
      BY <2>1, <2>2, <3>2, <3>3, <3>4, <3>6 DEF PathInCallback, HasPath
  <2>3. CASE callback.func # "filter_func"
    <3>1. callback.todo = <<"completed", "value">>
      <4>1. callback.todo \in {<<"completed", "value">>, <<"value">>}
        BY <1>2, <2>3 DEF PathInv, PathInCallback
      <4>2. ~(Len(<<"value">>) > 1)
        OBVIOUS
      <4>3. callback.todo # <<"value">>
        BY <2>1, <4>2
      <4>4. QED
        BY <4>1, <4>3
    <3>2. callback'.todo = <<"value">>
      BY <1>2, <2>1, <3>1, TodoShape
    <3>3. callback.value.from # NULL
      BY <1>2 DEF PathInv, PathInCallback
    <3>4. <<"value">> # <<"completed">>
      OBVIOUS
    <3>5. QED
      BY <2>1, <2>3, <3>2, <3>3, <3>4 DEF PathInCallback
  <2>4. QED
    BY <2>2, <2>3
<1>9. QED
  BY <1>4, <1>7, <1>8 DEF PathInv

LEMMA PathFinishDialog ==
  ASSUME Faults = {}, TypeOK, strayWrite => strayWrite', BegunInv, NoFailure, FiltersAlive, PathInv,
         NEW t \in Threads, NEW k \in DOMAIN filters, FinishDialog(t, k)
  PROVE  PathInv'
<1>1. /\ pc[t] = "wait" /\ cur[t] \in Calls /\ filterContext[SlotOf(t)].completed
      /\ pc' = [pc EXCEPT ![t] = "idle"] /\ cur' = [cur EXCEPT ![t] = NULL]
      /\ frame' = [frame EXCEPT ![t] = NULL]
      /\ outcome' = [outcome EXCEPT ![cur[t]] =
                       [status |-> "ok", value |-> filterContext[SlotOf(t)].value]]
      /\ UNCHANGED <<callback, filterContext, op>>
  BY DEF FinishDialog, LoopEnds, Return, Goto, NoFailure, TypeOK
<1>2. /\ SlotOf(t) \in Slots /\ InDialog(t) /\ SlotOf(t)[1] = t
  <2>1. filters[k].slot = SlotOf(t)
    BY DEF FinishDialog, Unregister, Matches
  <2>2. SlotOf(t) \in Slots /\ Alive(SlotOf(t))
    BY <2>1, FilterAlive
  <2>3. SlotOf(t)[1] = t
    BY DEF SlotOf
  <2>4. QED
    BY <2>2, <2>3, SlotShape
<1>3. \A u \in Threads : u # t =>
        /\ cur'[u] = cur[u] /\ InDialog(u)' = InDialog(u) /\ SlotOf(u)' = SlotOf(u)
  BY <1>1 DEF InDialog, SlotOf, TypeOK
<1>4. ~InDialog(t)' /\ cur'[t] = NULL
  BY <1>1 DEF InDialog, TypeOK
<1>5. /\ \A c : Func(c)' = Func(c)
      /\ \A s : HasPath(s)' = HasPath(s)
  BY <1>1 DEF Func, HasPath
<1>6. ASSUME NEW s \in Slots, Alive(s), s # SlotOf(t)
      PROVE  s[1] # t /\ Alive(s)' /\ \A func : Waits(s, func)' = Waits(s, func)
  <2>1. s[1] \in Threads /\ s = SlotOf(s[1])
    BY <1>6, SlotShape
  <2>2. s[1] # t
    BY <1>6, <2>1
  <2>3. frame'[s[1]] = frame[s[1]] /\ cur'[s[1]] = cur[s[1]]
    BY <1>1, <2>1, <2>2 DEF TypeOK
  <2>4. QED
    BY <1>5, <1>6, <2>2, <2>3 DEF Alive, Waits
<1>7. OwnFilters'
  <2>1. \A j \in DOMAIN filters' : \E i \in DOMAIN filters : i # k /\ filters'[j] = filters[i]
    <3>1. filters' = RemoveAt(filters, k)
      BY DEF FinishDialog, Unregister
    <3>2. /\ filters \in Seq(Filters) /\ DOMAIN filters = 1 .. Len(filters)
          /\ Len(filters) \in Nat
      BY DEF TypeOK
    <3>3. /\ filters' \in Seq(Filters) /\ Len(filters') = Len(filters) - 1
          /\ \A i \in 1 .. (Len(filters) - 1) :
               filters'[i] = IF i < k THEN filters[i] ELSE filters[i + 1]
      BY <3>1, <3>2, RemoveAtProperties
    <3>4. DOMAIN filters' = 1 .. (Len(filters) - 1)
      BY <3>3, LenProperties
    <3> SUFFICES ASSUME NEW j \in 1 .. (Len(filters) - 1)
                 PROVE  \E i \in DOMAIN filters : i # k /\ filters'[j] = filters[i]
      BY <3>4
    <3>5. CASE j < k
      BY <3>2, <3>3, <3>5
    <3>6. CASE ~(j < k)
      <4>1. j + 1 \in DOMAIN filters /\ j + 1 # k /\ filters'[j] = filters[j + 1]
        BY <3>2, <3>3, <3>6
      <4>2. QED
        BY <4>1
    <3>7. QED
      BY <3>5, <3>6
  <2>2. ASSUME NEW j \in DOMAIN filters'
        PROVE  \A w, func : filters'[j].slot = w /\ filters'[j].func = func => Waits(w, func)'
    <3>1. PICK i \in DOMAIN filters : i # k /\ filters'[j] = filters[i]
      BY <2>1
    <3>2. /\ filters[i].slot \in Slots /\ Alive(filters[i].slot)
          /\ filters[i].slot # SlotOf(t)
      BY <3>1, FilterAlive DEF FiltersAlive, FinishDialog, Unregister, Matches
    <3>3. Waits(filters[i].slot, filters[i].func)
      BY DEF PathInv, OwnFilters
    <3>4. QED
      BY <1>6, <3>1, <3>2, <3>3
  <2>3. QED
    BY <2>2 DEF OwnFilters
<1>8. OnlyDialogsWait'
  BY <1>1, <1>3, <1>4 DEF PathInv, OnlyDialogsWait
<1>9. PathInContext'
  BY <1>1, <1>3, <1>4, <1>5 DEF PathInv, PathInContext
<1>10. PathInCallback'
  <2> SUFFICES ASSUME ~strayWrite, InCallback' PROVE PathInCallback'
    BY DEF PathInCallback
  <2>1. InCallback /\ callback \in Callbacks
    BY <1>1 DEF InCallback, TypeOK
  <2>2. CASE callback.todo = <<"value">>
    BY <1>1, <2>1, <2>2 DEF PathInv, PathInCallback
  <2>3. CASE callback.todo # <<"value">>
    <3>1. /\ callback.slot \in Slots /\ Alive(callback.slot)
          /\ Waits(callback.slot, callback.func)
          /\ ~filterContext[callback.slot].completed
      BY <2>1, <2>3 DEF PathInv, PathInCallback, Callbacks
    <3>2. callback.slot # SlotOf(t)
      BY <1>1, <3>1
    <3>3. \A s, func : callback.slot = s /\ callback.func = func => Alive(s)' /\ Waits(s, func)'
      BY <1>6, <3>1, <3>2
    <3>4. Alive(callback.slot)' /\ Waits(callback.slot, callback.func)'
      BY <1>1, <3>3
    <3>5. QED
      BY <1>1, <1>5, <2>1, <3>1, <3>4 DEF PathInv, PathInCallback, HasPath
  <2>4. QED
    BY <2>2, <2>3
<1>11. PathStoredBeforeReturn'
  <2> SUFFICES ASSUME ~strayWrite PROVE PathStoredBeforeReturn'
    BY DEF PathStoredBeforeReturn
  <2>1. Func(cur[t]) = "filter_func" => outcome'[cur[t]].value.from # NULL
    BY <1>1, <1>2 DEF PathInv, PathInContext, HasPath, TypeOK
  <2>2. \A c \in Calls : c # cur[t] => outcome'[c] = outcome[c]
    BY <1>1 DEF TypeOK
  <2>3. QED
    BY <1>1, <1>5, <2>1, <2>2 DEF PathInv, PathStoredBeforeReturn
<1>12. QED
  BY <1>7, <1>8, <1>9, <1>10, <1>11 DEF PathInv

LEMMA PathNext ==
  ASSUME Faults = {}, TypeOK, BegunInv, OnceInv, NoFailure, FiltersAlive, PathInv,
         [Next]_vars
  PROVE  PathInv'
<1>0. strayWrite => strayWrite'
  BY StrayWriteStays
<1>1. ASSUME UNCHANGED <<filters, cur, frame, filterContext, outcome, op>>,
             UNCHANGED callback, \A u \in Threads : pc'[u] = "callback" => pc[u] = "callback"
      PROVE  PathInv'
  <2>1. InCallback' => InCallback
    BY <1>1 DEF InCallback
  <2>2. QED
    BY <1>0, <1>1, <2>1, PathSame
<1>2. ASSUME Next, NEW t \in Threads, Caller(t) PROVE PathInv'
  BY <1>0, <1>2, PathBegin, PathBeginFails DEF Caller
<1>3. ASSUME NEW t \in Threads, ThreadStep(t) PROVE PathInv'
  <2>1. CASE \/ Send(t) \/ EnterReadWriteDispatch(t) \/ PollReturns(t)
             \/ DispatchNothing(t) \/ DispatchOther(t) \/ DropResponse(t) \/ Walks(t)
    BY <1>1, <2>1, WalkGoesOn DEF Send, EnterReadWriteDispatch, PollReturns,
          DispatchNothing, DispatchOther, DropResponse, Goto, connVars, callVars, TypeOK
  <2>2. ~SendFails(t)
    BY SendFailsNever
  <2>3. QED
    BY <1>0, <1>3, <2>1, <2>2, PathReply, PathInvokeFilter, PathWriteContext, PathFinishDialog
       DEF ThreadStep, Walks
<1>4. CASE Environment \/ UNCHANGED vars
  BY <1>1, <1>4 DEF Environment, PortalAccepts, PortalRefuses, UserAnswers, Disconnect,
                    vars, connVars, threadVars, callVars
<1>5. CASE Next
  BY <1>2, <1>3, <1>4, <1>5 DEF Next
<1>6. QED
  BY <1>4, <1>5

LEMMA PathInvariant ==
  ASSUME Faults = {}
  PROVE  Spec => []PathInv
<1>1. Init => PathInv
  BY DEF Init, PathInv, OwnFilters, OnlyDialogsWait, PathInContext, PathInCallback,
         PathStoredBeforeReturn, InCallback, InDialog, NotReturned
<1>2. TypeOK /\ BegunInv /\ OnceInv /\ NoFailure /\ FiltersAlive /\ PathInv /\ [Next]_vars
        => PathInv'
  BY PathNext
<1>3. QED
  BY <1>1, <1>2, TypeCorrect, BegunInvariant, OnceInvariant, NoFailureInvariant,
     FiltersStayAlive, PTL DEF Spec

(* However many threads pump the connection, a dialog that waits in        *)
(* filter_func returns only after its path is stored, whichever of them    *)
(* ran the filter: setting completed last is what makes this true.         *)
THEOREM PathIsStored ==
  ASSUME Faults = {}
  PROVE  Spec => []PathStoredBeforeReturn
<1>1. PathInv => PathStoredBeforeReturn
  BY DEF PathInv
<1>2. QED
  BY <1>1, PathInvariant, PTL

-----------------------------------------------------------------------------
(* Failures: which filters the connection holds.                           *)

(* A call that runs has made its request and returned nothing yet.         *)
RunningInv ==
  \A t \in Threads :
    cur[t] # NULL => outcome[cur[t]].status = "none" /\ request[cur[t]] # "none"

(* How a step changes the calls: one begins, one that runs returns, or     *)
(* none does either.                                                       *)
CallBegins(t, c) ==
  /\ op[c] = NULL /\ cur[t] = NULL
  /\ cur' = [cur EXCEPT ![t] = c] /\ request' = [request EXCEPT ![c] = "made"]
  /\ UNCHANGED outcome

CallFails(c) ==
  /\ op[c] = NULL
  /\ \E value : outcome' = [outcome EXCEPT ![c] = [status |-> "error", value |-> value]]
  /\ UNCHANGED <<cur, frame, request>>

CallReturns(t, status) ==
  /\ cur[t] \in Calls
  /\ cur' = [cur EXCEPT ![t] = NULL] /\ frame' = [frame EXCEPT ![t] = NULL]
  /\ \E value : outcome' = [outcome EXCEPT ![cur[t]] = [status |-> status, value |-> value]]
  /\ UNCHANGED request

CallsGoOn ==
  /\ UNCHANGED <<cur, frame, outcome>>
  /\ \A c \in Calls : request'[c] # "none" <=> request[c] # "none"

LEMMA RequestGoesOn ==
  ASSUME TypeOK, RunningInv, NEW t \in Threads, Send(t)
  PROVE  CallsGoOn
<1>1. cur[t] \in Calls /\ request[cur[t]] # "none"
  BY DEF Send, RunningInv, TypeOK
<1>2. request' = [request EXCEPT ![cur[t]] = "sent"] /\ UNCHANGED <<cur, frame, outcome>>
  BY DEF Send
<1>3. QED
  BY <1>1, <1>2 DEF CallsGoOn, TypeOK

(* Which filters and frames each kind of step leaves.                      *)
LEMMA StepKinds ==
  ASSUME TypeOK, RunningInv, [Next]_vars
  PROVE  \/ \E t \in Threads, c \in Calls, o \in Ops \cap Dialogs, f \in Frames :
              BeginDialog(t, c, o, f) /\ CallBegins(t, c)
         \/ \E t \in Threads, c \in Calls :
              BeginNative(t, c) /\ CallBegins(t, c) /\ UNCHANGED <<filters, frame>>
         \/ \E c \in Calls : CallFails(c) /\ UNCHANGED filters
         \/ \E t \in Threads : /\ ~InDialog(t) /\ CallReturns(t, "ok")
                               /\ UNCHANGED <<filters, strayWrite, filterContext, link>>
                               /\ \A u \in Threads : pc'[u] = "callback" => pc[u] = "callback"
                               /\ UNCHANGED callback
         \/ \E t \in Threads : InDialog(t) /\ CallReturns(t, "error") /\ SendFails(t)
         \/ \E t \in Threads, k \in DOMAIN filters : FinishDialog(t, k) /\ CallReturns(t, "ok")
         \/ CallsGoOn /\ UNCHANGED <<filters, op>>
<1>1. ASSUME NEW t \in Threads, Caller(t)
      PROVE  \E c \in Calls :
               \/ \E o \in Ops \cap Dialogs, f \in Frames :
                    BeginDialog(t, c, o, f) /\ CallBegins(t, c)
               \/ BeginNative(t, c) /\ CallBegins(t, c) /\ UNCHANGED <<filters, frame>>
               \/ CallFails(c) /\ UNCHANGED filters
  <2>1. ASSUME NEW c \in Calls, NEW o \in Ops \cap Dialogs, NEW f \in Frames,
               BeginDialog(t, c, o, f)
        PROVE  CallBegins(t, c)
    BY <2>1 DEF BeginDialog, Calling, CallBegins, TypeOK
  <2>2. ASSUME NEW c \in Calls, BeginNative(t, c)
        PROVE  CallBegins(t, c) /\ UNCHANGED <<filters, frame>>
    BY <2>2 DEF BeginNative, Calling, CallBegins, TypeOK
  <2>3. ASSUME NEW c \in Calls, NEW o \in Ops, BeginFails(t, c, o)
        PROVE  CallFails(c) /\ UNCHANGED filters
    BY <2>3 DEF BeginFails, Calling, CallFails, connVars, threadVars
  <2>4. QED
    BY <1>1, <2>1, <2>2, <2>3 DEF Caller
<1>2. ASSUME NEW t \in Threads, NEW k \in DOMAIN filters, FinishDialog(t, k)
      PROVE  CallReturns(t, "ok")
  BY <1>2 DEF FinishDialog, Return, CallReturns, TypeOK
<1>3. ASSUME NEW t \in Threads, SendFails(t)
      PROVE  /\ CallReturns(t, IF InDialog(t) THEN "error" ELSE "ok")
             /\ UNCHANGED <<filters, strayWrite, filterContext, link, callback>>
             /\ \A u \in Threads : pc'[u] = "callback" => pc[u] = "callback"
  BY <1>3 DEF SendFails, Return, Goto, CallReturns, connVars, history, TypeOK
<1>4. ASSUME NEW t \in Threads, Reply(t), ~InDialog(t)
      PROVE  /\ CallReturns(t, "ok")
             /\ UNCHANGED <<filters, strayWrite, filterContext, link, callback>>
             /\ \A u \in Threads : pc'[u] = "callback" => pc[u] = "callback"
  <2>1. pc[t] = "reply" /\ cur[t] \in Calls
    BY <1>4 DEF Reply, TypeOK
  <2>2. Return(t, "ok", Nothing) /\ UNCHANGED <<connVars, filterContext, request, history>>
    BY <1>4 DEF Reply
  <2>3. pc' = [pc EXCEPT ![t] = "idle"]
    BY <2>2 DEF Return, Goto
  <2>4. CallReturns(t, "ok")
    BY <2>1, <2>2 DEF Return, CallReturns
  <2>5. \A u \in Threads : pc'[u] = "callback" => pc[u] = "callback"
    BY <2>3 DEF TypeOK
  <2>6. QED
    BY <2>2, <2>4, <2>5 DEF connVars, history
<1>5. ASSUME NEW t \in Threads,
             \/ Reply(t) /\ InDialog(t)
             \/ EnterReadWriteDispatch(t) \/ PollReturns(t) \/ DispatchNothing(t)
             \/ DispatchOther(t) \/ Walks(t) \/ InvokeFilter(t) \/ DropResponse(t)
             \/ WriteContext(t)
      PROVE  CallsGoOn /\ UNCHANGED <<filters, op>>
  BY <1>5, WalkGoesOn
     DEF Reply, EnterReadWriteDispatch, PollReturns, DispatchNothing, DispatchOther,
         DropResponse, WriteContext, InvokeFilter, connVars, callVars, CallsGoOn
<1>6. ASSUME NEW t \in Threads, Send(t)
      PROVE  CallsGoOn /\ UNCHANGED <<filters, op>>
  BY <1>6, RequestGoesOn DEF Send, connVars
<1>7. CASE Environment
  <2>1. UNCHANGED <<cur, frame, outcome, filters, op>>
    BY <1>7 DEF Environment, PortalAccepts, PortalRefuses, UserAnswers, Disconnect,
                connVars, threadVars, callVars
  <2>2. ASSUME NEW c \in Calls, PortalAccepts(c) \/ PortalRefuses(c) \/ \E a \in Answers : UserAnswers(c, a)
        PROVE  \A d \in Calls : request'[d] # "none" <=> request[d] # "none"
    BY <2>2 DEF PortalAccepts, PortalRefuses, UserAnswers, TypeOK
  <2>3. CASE Disconnect
    BY <2>1, <2>3 DEF Disconnect, callVars, CallsGoOn
  <2>4. QED
    BY <1>7, <2>1, <2>2, <2>3 DEF Environment, CallsGoOn
<1>8. CASE UNCHANGED vars
  BY <1>8 DEF vars, connVars, threadVars, callVars, CallsGoOn
<1>9. ASSUME NEW t \in Threads, ThreadStep(t)
      PROVE  \/ /\ ~InDialog(t) /\ CallReturns(t, "ok")
                /\ UNCHANGED <<filters, strayWrite, filterContext, link>>
                /\ \A u \in Threads : pc'[u] = "callback" => pc[u] = "callback"
                /\ UNCHANGED callback
             \/ InDialog(t) /\ CallReturns(t, "error") /\ SendFails(t)
             \/ \E k \in DOMAIN filters : FinishDialog(t, k) /\ CallReturns(t, "ok")
             \/ CallsGoOn /\ UNCHANGED <<filters, op>>
  BY <1>9, <1>2, <1>3, <1>4, <1>5, <1>6 DEF ThreadStep, Walks
<1>10. QED
  BY <1>1, <1>7, <1>8, <1>9 DEF Next

LEMMA RunningNext == TypeOK /\ BegunInv /\ RunningInv /\ [Next]_vars => RunningInv'
<1> SUFFICES ASSUME TypeOK, BegunInv, RunningInv, [Next]_vars PROVE RunningInv'
  OBVIOUS
<1>1. ASSUME NEW t \in Threads, NEW c \in Calls, CallBegins(t, c) PROVE RunningInv'
  <2>1. \A u \in Threads : cur[u] # c
    BY <1>1 DEF CallBegins, BegunInv
  <2>2. QED
    BY <1>1, <2>1 DEF CallBegins, RunningInv, BegunInv, TypeOK
<1>2. ASSUME NEW c \in Calls, CallFails(c) PROVE RunningInv'
  <2>1. \A u \in Threads : cur[u] # c
    BY <1>2 DEF CallFails, BegunInv
  <2>2. QED
    BY <1>2, <2>1 DEF CallFails, RunningInv, TypeOK
<1>3. ASSUME NEW t \in Threads, NEW status, CallReturns(t, status) PROVE RunningInv'
  <2>1. \A u \in Threads : u # t => cur[u] # cur[t]
    BY <1>3 DEF CallReturns, BegunInv
  <2>2. QED
    BY <1>3, <2>1 DEF CallReturns, RunningInv, TypeOK
<1>4. CASE CallsGoOn
  BY <1>4 DEF CallsGoOn, RunningInv, TypeOK
<1>5. QED
  BY <1>1, <1>2, <1>3, <1>4, StepKinds

LEMMA RunningInvariant == Spec => []RunningInv
<1>1. Init => RunningInv
  BY DEF Init, RunningInv
<1>2. QED
  BY <1>1, RunningNext, TypeCorrect, BegunInvariant, PTL DEF Spec

(* Only a call that returns an error with its filter registered becomes    *)
(* one of the abandoned.                                                   *)
LEMMA AbandonedChange ==
  ASSUME TypeOK, BegunInv, RunningInv
  PROVE  /\ \A t \in Threads, c \in Calls : CallBegins(t, c) => Abandoned' = Abandoned
         /\ \A c \in Calls : CallFails(c) => Abandoned' = Abandoned
         /\ \A t \in Threads : CallReturns(t, "ok") => Abandoned' = Abandoned
         /\ \A t \in Threads : CallReturns(t, "error") =>
              cur[t] \notin Abandoned /\ Abandoned' = Abandoned \cup {cur[t]}
         /\ CallsGoOn => Abandoned' = Abandoned
<1>1. ASSUME NEW t \in Threads, NEW c \in Calls, CallBegins(t, c)
      PROVE  Abandoned' = Abandoned
  BY <1>1 DEF CallBegins, Abandoned, BegunInv, TypeOK
<1>2. ASSUME NEW c \in Calls, CallFails(c) PROVE Abandoned' = Abandoned
  <2>1. request'[c] = "none" /\ \A d \in Calls : d # c => outcome'[d] = outcome[d]
    BY <1>2 DEF CallFails, BegunInv, TypeOK
  <2>2. QED
    BY <1>2, <2>1 DEF CallFails, Abandoned
<1>3. ASSUME NEW t \in Threads, NEW status \in {"ok", "error"}, CallReturns(t, status)
      PROVE  /\ cur[t] \in Calls \ Abandoned
             /\ Abandoned' = IF status = "ok" THEN Abandoned ELSE Abandoned \cup {cur[t]}
  <2>1. /\ cur[t] \in Calls /\ outcome[cur[t]].status = "none" /\ request[cur[t]] # "none"
    BY <1>3 DEF CallReturns, RunningInv
  <2>2. /\ outcome'[cur[t]].status = status /\ request' = request
        /\ \A d \in Calls : d # cur[t] => outcome'[d] = outcome[d]
    BY <1>3, <2>1 DEF CallReturns, TypeOK
  <2>3. QED
    BY <2>1, <2>2 DEF Abandoned
<1>4. CallsGoOn => Abandoned' = Abandoned
  BY DEF CallsGoOn, Abandoned
<1>5. QED
  BY <1>1, <1>2, <1>3, <1>4

InDialogs == {t \in Threads : InDialog(t)}

LEMMA InDialogsChange ==
  ASSUME TypeOK, NEW t \in Threads
  PROVE  /\ \A f \in Frames : frame[t] = NULL /\ frame' = [frame EXCEPT ![t] = f]
              => InDialogs' = InDialogs \cup {t} /\ t \notin InDialogs
         /\ frame' = [frame EXCEPT ![t] = NULL] => InDialogs' = InDialogs \ {t}
BY DEF InDialogs, InDialog, TypeOK

LEMMA AccountingNext ==
  ASSUME IsFiniteSet(Threads), TypeOK, BegunInv, RunningInv, FilterAccounting, [Next]_vars
  PROVE  FilterAccounting'
<1>1. /\ FilterAccounting <=> Len(filters) = Cardinality(InDialogs) + Cardinality(Abandoned)
      /\ FilterAccounting' <=> Len(filters') = Cardinality(InDialogs') + Cardinality(Abandoned')
  BY DEF FilterAccounting, InDialogs
<1>2. /\ IsFiniteSet(InDialogs) /\ IsFiniteSet(Abandoned)
      /\ Cardinality(InDialogs) \in Nat /\ Cardinality(Abandoned) \in Nat
  <2>1. IsFiniteSet(Calls)
    BY FS_Interval DEF Calls
  <2>2. InDialogs \subseteq Threads /\ Abandoned \subseteq Calls
    BY DEF Abandoned, InDialogs
  <2>3. QED
    BY <2>1, <2>2, FS_Subset, FS_CardinalityType
<1>3. Len(filters) \in Nat /\ filters \in Seq(Filters)
  BY DEF TypeOK
<1>4. ASSUME UNCHANGED filters, InDialogs' = InDialogs, Abandoned' = Abandoned
      PROVE  FilterAccounting'
  BY <1>1, <1>4
<1>5. ASSUME NEW t \in Threads, NEW c \in Calls, NEW o \in Ops \cap Dialogs, NEW f \in Frames,
             BeginDialog(t, c, o, f), CallBegins(t, c)
      PROVE  FilterAccounting'
  <2>1. [func |-> EntryPoint[o].func, slot |-> <<t, f>>, call |-> c] \in Filters
    BY EntryPointType DEF Filters, Slots, Dialogs
  <2>2. Len(filters') = Len(filters) + 1
    BY <1>3, <1>5, <2>1, AppendShape DEF BeginDialog
  <2>3. frame[t] = NULL /\ frame' = [frame EXCEPT ![t] = f]
    BY <1>5 DEF BeginDialog, Calling, TypeOK, InDialog
  <2>4. InDialogs' = InDialogs \cup {t} /\ t \notin InDialogs
    BY <2>3, InDialogsChange
  <2>5. Cardinality(InDialogs') = Cardinality(InDialogs) + 1
    BY <1>2, <2>4, FS_AddElement
  <2>6. Abandoned' = Abandoned
    BY <1>5, AbandonedChange
  <2>7. QED
    BY <1>1, <1>2, <1>3, <2>2, <2>5, <2>6
<1>6. ASSUME NEW t \in Threads, InDialog(t), CallReturns(t, "error"), SendFails(t)
      PROVE  FilterAccounting'
  <2>1. InDialogs' = InDialogs \ {t} /\ t \in InDialogs
    BY <1>6, InDialogsChange DEF CallReturns, InDialogs
  <2>2. Cardinality(InDialogs') = Cardinality(InDialogs) - 1
    BY <1>2, <2>1, FS_RemoveElement
  <2>3. cur[t] \notin Abandoned /\ Abandoned' = Abandoned \cup {cur[t]}
    BY <1>6, AbandonedChange
  <2>4. Cardinality(Abandoned') = Cardinality(Abandoned) + 1
    BY <1>2, <2>3, FS_AddElement
  <2>5. filters' = filters
    BY <1>6 DEF SendFails, connVars
  <2>6. QED
    BY <1>1, <1>2, <2>2, <2>4, <2>5
<1>7. ASSUME NEW t \in Threads, NEW k \in DOMAIN filters, FinishDialog(t, k), CallReturns(t, "ok")
      PROVE  FilterAccounting'
  <2>1. InDialog(t)
    <3>1. filters[k] \in Filters /\ filters[k].slot = SlotOf(t)
      BY <1>7 DEF FinishDialog, Unregister, Matches, TypeOK
    <3>2. QED
      BY <3>1 DEF Filters, Slots, SlotOf, InDialog
  <2>2. InDialogs' = InDialogs \ {t} /\ t \in InDialogs
    BY <1>7, <2>1, InDialogsChange DEF CallReturns, InDialogs
  <2>3. Cardinality(InDialogs') = Cardinality(InDialogs) - 1
    BY <1>2, <2>2, FS_RemoveElement
  <2>4. Abandoned' = Abandoned
    BY <1>7, AbandonedChange
  <2>5. Len(filters') = Len(filters) - 1
    BY <1>3, <1>7, RemoveAtProperties DEF FinishDialog, Unregister
  <2>6. QED
    BY <1>1, <1>2, <1>3, <2>3, <2>4, <2>5
<1>8. ASSUME NEW t \in Threads, ~InDialog(t), CallReturns(t, "ok"), UNCHANGED filters
      PROVE  FilterAccounting'
  <2>1. InDialogs' = InDialogs
    BY <1>8, InDialogsChange DEF CallReturns, InDialogs
  <2>2. QED
    BY <1>4, <1>8, <2>1, AbandonedChange
<1>9. ASSUME UNCHANGED <<filters, frame>>, Abandoned' = Abandoned
      PROVE  FilterAccounting'
  BY <1>4, <1>9 DEF InDialogs, InDialog
<1>10. QED
  BY <1>5, <1>6, <1>7, <1>8, <1>9, StepKinds, AbandonedChange DEF CallFails, CallsGoOn

(* With every thread and every failure the connection holds one filter for *)
(* each dialog that runs and one for each call that failed after it had    *)
(* registered its own: failures leak filters and nothing else does.        *)
THEOREM FiltersAccounted ==
  ASSUME IsFiniteSet(Threads)
  PROVE  Spec => []FilterAccounting
<1>1. Init => FilterAccounting
  <2> SUFFICES ASSUME Init PROVE FilterAccounting
    OBVIOUS
  <2>1. InDialogs = {} /\ Abandoned = {} /\ Len(filters) = 0
    BY DEF Init, InDialogs, InDialog, Abandoned, NotReturned
  <2>2. Cardinality({}) = 0
    BY FS_EmptySet
  <2>3. Len(filters) = Cardinality(InDialogs) + Cardinality(Abandoned)
    BY <2>1, <2>2
  <2>4. QED
    BY <2>3 DEF FilterAccounting, InDialogs
<1>2. TypeOK /\ BegunInv /\ RunningInv /\ FilterAccounting /\ [Next]_vars => FilterAccounting'
  BY AccountingNext
<1>3. QED
  BY <1>1, <1>2, TypeCorrect, BegunInvariant, RunningInvariant, PTL DEF Spec

-----------------------------------------------------------------------------
(* One thread: nothing is written astray before a call has failed.         *)

(* The connection has the filter of the dialog that runs and no other, and *)
(* a filter that runs belongs to it.                                       *)
Intact(t) ==
  /\ filters = IF InDialog(t) THEN <<FilterOf(t)>> ELSE <<>>
  /\ pc[t] \in {"walk", "filter"} =>
       \A k \in DOMAIN walk : InDialog(t) /\ walk[k] = FilterOf(t)
  /\ pc[t] = "callback" =>
       /\ InDialog(t)
       /\ callback.slot = SlotOf(t) /\ callback.func = Func(cur[t])
       /\ callback.call = cur[t]

IntactInv == Abandoned = {} => ~strayWrite /\ \A t \in Threads : Intact(t)

LEMMA OwnFilter ==
  ASSUME TypeOK, NEW t \in Threads, InDialog(t)
  PROVE  /\ SlotOf(t) \in Slots /\ Alive(SlotOf(t)) /\ SlotOf(t)[1] = t
         /\ FilterOf(t).slot = SlotOf(t) /\ FilterOf(t).func = Func(cur[t])
BY DEF SlotOf, Slots, Alive, InDialog, FilterOf, TypeOK

(* Steps of the thread while its call goes on.                             *)
LEMMA IntactInCall ==
  ASSUME OneThread, TypeOK, NEW t \in Threads, ThreadStep(t), ~strayWrite, Intact(t),
         UNCHANGED <<filters, cur, frame, op>>
  PROVE  ~strayWrite' /\ Intact(t)'
<1>1. /\ FilterOf(t)' = FilterOf(t) /\ SlotOf(t)' = SlotOf(t) /\ Func(cur[t])' = Func(cur[t])
      /\ InDialog(t)' = InDialog(t)
  BY DEF FilterOf, SlotOf, Func, InDialog
<1>2. ASSUME ~strayWrite', pc'[t] = "callback" => pc[t] = "callback" /\ UNCHANGED callback,
             pc'[t] \in {"walk", "filter"} =>
               \A k \in DOMAIN walk' : InDialog(t) /\ walk'[k] = FilterOf(t)
      PROVE  ~strayWrite' /\ Intact(t)'
  BY <1>1, <1>2 DEF Intact
<1>3. CASE \/ Send(t) \/ Reply(t) \/ SendFails(t) \/ EnterReadWriteDispatch(t)
           \/ PollReturns(t) \/ DispatchNothing(t) \/ DispatchOther(t) \/ DropResponse(t)
           \/ \E k \in DOMAIN filters : FinishDialog(t, k)
  <2>1. UNCHANGED strayWrite
    BY <1>3 DEF Send, Reply, SendFails, EnterReadWriteDispatch, PollReturns,
          DispatchNothing, DispatchOther, DropResponse, FinishDialog, history
  <2>2. pc'[t] \notin {"walk", "filter", "callback"}
    BY <1>3 DEF Send, Reply, SendFails, EnterReadWriteDispatch, PollReturns, Return,
          DispatchNothing, DispatchOther, DropResponse, FinishDialog, Goto, TypeOK
  <2>3. QED
    BY <1>2, <2>1, <2>2
<1>4. CASE DispatchResponse(t)
  <2>1. walk' = filters /\ pc'[t] = "walk" /\ UNCHANGED strayWrite
    BY <1>4 DEF DispatchResponse, Goto, TypeOK, history
  <2>2. \A k \in DOMAIN filters : InDialog(t) /\ filters[k] = FilterOf(t)
    BY DEF Intact
  <2>3. QED
    BY <1>2, <2>1, <2>2
<1>5. CASE SkipRemoved(t) \/ CallFilter(t) \/ FilterPasses(t)
  <2>1. /\ pc[t] \in {"walk", "filter"} /\ pc'[t] \in {"walk", "filter"}
        /\ walk # <<>> /\ walk' \in {walk, Tail(walk)} /\ UNCHANGED strayWrite
    BY <1>5, HeadFilter DEF SkipRemoved, CallFilter, FilterPasses, Goto, TypeOK, connVars,
                            threadVars, history
  <2>2. \A k \in DOMAIN walk : InDialog(t) /\ walk[k] = FilterOf(t)
    BY <2>1 DEF Intact
  <2>3. \A k \in DOMAIN Tail(walk) : InDialog(t) /\ Tail(walk)[k] = FilterOf(t)
    <3>1. walk \in Seq(Filters)
      BY DEF TypeOK
    <3>2. \A k \in 1 .. Len(Tail(walk)) : k + 1 \in 1 .. Len(walk) /\ Tail(walk)[k] = walk[k + 1]
      BY <2>1, <3>1, TailProperties
    <3>3. DOMAIN Tail(walk) = 1 .. Len(Tail(walk)) /\ DOMAIN walk = 1 .. Len(walk)
      BY <2>1, <3>1, TailProperties
    <3>4. QED
      BY <2>2, <3>2, <3>3
  <2>4. QED
    BY <1>2, <2>1, <2>2, <2>3
<1>6. CASE InvokeFilter(t)
  <2>1. pc[t] = "filter" /\ walk # <<>> /\ walk \in Seq(Filters)
    BY <1>6 DEF InvokeFilter, TypeOK
  <2>2. Head(walk) = FilterOf(t) /\ InDialog(t)
    <3>1. Head(walk) = walk[1] /\ 1 \in DOMAIN walk
      BY <2>1, TailProperties
    <3>2. QED
      BY <2>1, <3>1 DEF Intact
  <2>3. /\ callback'.slot = FilterOf(t).slot /\ callback'.func = FilterOf(t).func
        /\ callback'.call = cur[FilterOf(t).slot[1]]
        /\ strayWrite' = (strayWrite \/ ~Fits(FilterOf(t))) /\ pc'[t] = "callback"
    BY <1>6, <2>2 DEF InvokeFilter, Goto, TypeOK
  <2>4. /\ callback'.slot = SlotOf(t) /\ callback'.func = Func(cur[t]) /\ callback'.call = cur[t]
        /\ ~strayWrite'
    <3>1. \A f : f.slot = SlotOf(t) /\ f.func = Func(cur[t]) => Fits(f)
      BY <2>2, OwnFilter DEF Fits, Alive
    <3>2. Fits(FilterOf(t))
      BY <2>2, <3>1, OwnFilter
    <3>3. QED
      BY <2>2, <2>3, <3>2, OwnFilter
  <2>5. QED
    BY <1>1, <2>2, <2>3, <2>4 DEF Intact
<1>7. CASE WriteContext(t)
  <2>1. /\ pc[t] = "callback" /\ callback \in Callbacks
        /\ InDialog(t) /\ callback.slot = SlotOf(t)
        /\ callback.func = Func(cur[t]) /\ callback.call = cur[t]
    BY <1>7 DEF WriteContext, Intact, TypeOK
  <2>2. ~strayWrite'
    BY <1>7, <2>1, OwnFilter DEF WriteContext, Fits
  <2>3. CASE Len(callback.todo) > 1
    <3>1. callback' = [callback EXCEPT !.todo = Tail(callback.todo)]
      BY <1>7, <2>3 DEF WriteContext
    <3>2. callback'.slot = callback.slot /\ callback'.func = callback.func
          /\ callback'.call = callback.call
      BY <2>1, <3>1 DEF Callbacks
    <3>3. pc'[t] = "callback"
      BY <1>7, <2>1, <2>3 DEF WriteContext
    <3>4. QED
      BY <1>1, <2>1, <2>2, <3>2, <3>3 DEF Intact
  <2>4. CASE ~(Len(callback.todo) > 1)
    <3>1. pc'[t] = "wait"
      BY <1>7, <2>4 DEF WriteContext, Goto, TypeOK
    <3>2. QED
      BY <1>2, <2>2, <3>1
  <2>5. QED
    BY <2>3, <2>4
<1>8. QED
  BY <1>3, <1>4, <1>5, <1>6, <1>7 DEF ThreadStep

LEMMA IntactNext ==
  ASSUME OneThread, TypeOK, BegunInv, RunningInv, IntactInv, [Next]_vars
  PROVE  IntactInv'
<1> SUFFICES ASSUME Abandoned' = {}
             PROVE  ~strayWrite' /\ \A t \in Threads : Intact(t)'
  BY DEF IntactInv
<1>1. Abandoned = {}
  BY StepKinds, AbandonedChange
<1>2. ~strayWrite /\ \A t \in Threads : Intact(t)
  BY <1>1 DEF IntactInv
<1>3. ASSUME NEW t \in Threads, Caller(t)
      PROVE  ~strayWrite' /\ Intact(t)'
  <2>1. /\ pc[t] = "idle" /\ cur[t] = NULL /\ frame[t] = NULL /\ filters = <<>>
        /\ UNCHANGED strayWrite
    BY <1>2, <1>3 DEF Caller, BeginDialog, BeginNative, BeginFails, Calling, history,
                      TypeOK, InDialog, Intact
  <2>2. pc'[t] \in {"idle", "send"}
    <3>1. PICK c \in Calls :
            \E o : (\E f : BeginDialog(t, c, o, f)) \/ BeginNative(t, c) \/ BeginFails(t, c, o)
      BY <1>3 DEF Caller
    <3>2. pc'[t] = "send" \/ UNCHANGED pc
      BY <3>1 DEF BeginDialog, BeginNative, BeginFails, Goto, threadVars, TypeOK
    <3>3. QED
      BY <2>1, <3>2
  <2>3. CASE UNCHANGED <<filters, frame>>
    BY <1>2, <2>1, <2>2, <2>3 DEF Intact, InDialog
  <2>4. ASSUME NEW c \in Calls, NEW o \in Ops \cap Dialogs, NEW f \in Frames,
               BeginDialog(t, c, o, f)
        PROVE  ~strayWrite' /\ Intact(t)'
    <3>1. /\ filters' = Append(filters, [func |-> EntryPoint[o].func, slot |-> <<t, f>>, call |-> c])
          /\ frame'[t] = f /\ cur'[t] = c /\ op'[c] = o
      BY <2>4 DEF BeginDialog, TypeOK
    <3>2. filters' = <<[func |-> EntryPoint[o].func, slot |-> <<t, f>>, call |-> c]>>
      BY <2>1, <3>1
    <3>3. FilterOf(t)' = [func |-> EntryPoint[o].func, slot |-> <<t, f>>, call |-> c] /\ InDialog(t)'
      BY <3>1 DEF FilterOf, SlotOf, Func, InDialog
    <3>4. filters' = IF InDialog(t)' THEN <<FilterOf(t)'>> ELSE <<>>
      BY <3>2, <3>3
    <3>5. QED
      BY <1>2, <2>1, <2>2, <3>4 DEF Intact
  <2>5. QED
    BY <1>3, <2>3, <2>4 DEF Caller, BeginNative, BeginFails, connVars, threadVars
<1>4. ASSUME NEW t \in Threads, ThreadStep(t)
      PROVE  ~strayWrite' /\ Intact(t)'
  <2>1. CASE UNCHANGED <<filters, cur, frame, op>>
    BY <1>2, <1>4, <2>1, IntactInCall
  <2>2. CASE /\ ~InDialog(t) /\ UNCHANGED <<filters, strayWrite>>
             /\ frame' = [frame EXCEPT ![t] = NULL] /\ pc'[t] = "idle"
    BY <1>2, <2>2 DEF Intact, InDialog, TypeOK
  <2>3. CASE Reply(t) \/ SendFails(t)
    <3>1. CASE Reply(t) /\ InDialog(t)
      BY <2>1, <3>1 DEF Reply, connVars
    <3>2. CASE SendFails(t) /\ InDialog(t)
      <4>1. CallReturns(t, "error")
        <5>1. cur[t] \in Calls
          BY <3>2 DEF SendFails, TypeOK
        <5>2. QED
          BY <3>2, <5>1 DEF SendFails, Return, CallReturns
      <4>2. cur[t] \in Abandoned'
        BY <4>1, AbandonedChange
      <4>3. QED
        BY <4>2
    <3>3. CASE ~InDialog(t)
      <4>1. /\ Return(t, "ok", Nothing)
            /\ UNCHANGED <<filters, strayWrite>>
        BY <2>3, <3>3 DEF Reply, SendFails, connVars, history
      <4>2. frame' = [frame EXCEPT ![t] = NULL] /\ pc'[t] = "idle"
        BY <4>1 DEF Return, Goto, TypeOK
      <4>3. QED
        BY <2>2, <3>3, <4>1, <4>2
    <3>4. QED
      BY <2>3, <3>1, <3>2, <3>3
  <2>4. ASSUME NEW k \in DOMAIN filters, FinishDialog(t, k)
        PROVE  ~strayWrite' /\ Intact(t)'
    <3>1. Len(filters) = 1 /\ k = 1 /\ filters \in Seq(Filters)
      BY <1>2, <2>4 DEF Intact, TypeOK
    <3>2. filters' \in Seq(Filters) /\ Len(filters') = 0
      BY <2>4, <3>1, RemoveAtProperties DEF FinishDialog, Unregister
    <3>3. filters' = <<>>
      BY <3>2
    <3>4. frame'[t] = NULL /\ pc'[t] = "idle" /\ UNCHANGED strayWrite
      BY <2>4 DEF FinishDialog, Return, Goto, history, TypeOK
    <3>5. QED
      BY <1>2, <3>3, <3>4 DEF Intact, InDialog
  <2>5. QED
    BY <1>4, <2>1, <2>3, <2>4, WalkGoesOn
       DEF ThreadStep, Walks, Send, EnterReadWriteDispatch, PollReturns, DispatchNothing,
           DispatchOther, InvokeFilter, DropResponse, WriteContext, connVars, callVars
<1>5. CASE Environment \/ UNCHANGED vars
  <2>1. /\ UNCHANGED <<filters, frame, cur, op, pc, walk, callback, strayWrite>>
    BY <1>5 DEF Environment, PortalAccepts, PortalRefuses, UserAnswers, Disconnect,
                vars, connVars, threadVars, callVars, history
  <2>2. QED
    BY <1>2, <2>1 DEF Intact, InDialog, FilterOf, SlotOf, Func
<1>6. ASSUME NEW t \in Threads, ~strayWrite' /\ Intact(t)'
      PROVE  ~strayWrite' /\ \A u \in Threads : Intact(u)'
  BY <1>6 DEF OneThread
<1>7. QED
  BY <1>3, <1>4, <1>5, <1>6 DEF Next

(* In a program that calls the library from one thread, no filter writes   *)
(* to dead memory or to a context of the other layout unless an earlier    *)
(* call failed and left its filter on the connection.                      *)
THEOREM StrayWriteHasCause ==
  ASSUME OneThread
  PROVE  Spec => []StrayWriteNeedsFailure
<1>1. Init => IntactInv
  BY DEF Init, IntactInv, Intact, InDialog
<1>2. TypeOK /\ BegunInv /\ RunningInv /\ IntactInv /\ [Next]_vars => IntactInv'
  BY IntactNext
<1>3. IntactInv => StrayWriteNeedsFailure
  BY DEF IntactInv, StrayWriteNeedsFailure
<1>4. QED
  BY <1>1, <1>2, <1>3, TypeCorrect, BegunInvariant, RunningInvariant, PTL DEF Spec

-----------------------------------------------------------------------------
(* One thread: what a silent return means.                                 *)

(* A completed context has its Response, unless a filter still writes to   *)
(* it: the thread that runs that filter is the one that waits.             *)
Answered(t) ==
  /\ /\ InDialog(t) /\ filterContext[SlotOf(t)].completed
     /\ ~(pc[t] = "callback" /\ callback.slot = SlotOf(t))
     => HasPath(SlotOf(t))
  /\ pc[t] = "callback" =>
       /\ callback.value.from # NULL /\ callback.todo \in Todos
       /\ callback.todo = <<"completed">> => HasPath(callback.slot)

SilentInv ==
  /\ OnlyDialogsWait
  /\ \A t \in Threads : Answered(t)
  /\ SilentReturnIsDisconnect

LEMMA SilentCaller ==
  ASSUME OneThread, TypeOK, BegunInv, SilentInv, Next, NEW t \in Threads,
         NEW c \in Calls, NEW o,
         \/ \E f \in Frames : BeginDialog(t, c, o, f)
         \/ BeginNative(t, c)
         \/ BeginFails(t, c, o)
  PROVE  SilentInv'
<1>1. /\ pc[t] = "idle" /\ cur[t] = NULL /\ frame[t] = NULL /\ UNCHANGED link
  BY DEF BeginDialog, BeginNative, BeginFails, Calling, connVars, TypeOK, InDialog,
         dbus_init
<1>2. pc'[t] # "callback"
  BY <1>1 DEF BeginDialog, BeginNative, BeginFails, Goto, threadVars, TypeOK
<1>3. SilentReturnIsDisconnect'
  <2>1. \A d \in Calls : outcome'[d].status = "ok" => outcome'[d] = outcome[d]
    <3>1. CASE UNCHANGED outcome
      BY <3>1
    <3>2. CASE outcome' = [outcome EXCEPT ![c] = [status |-> "error", value |-> Nothing]]
      <4>1. outcome'[c].status = "error" /\ \A d \in Calls : d # c => outcome'[d] = outcome[d]
        BY <3>2 DEF TypeOK
      <4>2. QED
        BY <4>1
    <3>3. QED
      BY <3>1, <3>2 DEF BeginDialog, BeginNative, BeginFails, history
  <2>2. \A d \in Calls : outcome[d].status = "ok" => Func(d)' = Func(d)
    BY FuncFinal DEF BegunInv
  <2>3. QED
    BY <1>1, <2>1, <2>2 DEF SilentInv, SilentReturnIsDisconnect
<1>4. Answered(t)'
  <2>1. CASE UNCHANGED frame
    BY <1>1, <1>2, <2>1 DEF Answered, InDialog
  <2>2. ASSUME NEW f \in Frames, BeginDialog(t, c, o, f)
        PROVE  Answered(t)'
    <3>1. filterContext'[SlotOf(t)'] = EmptyContext
      BY <2>2 DEF BeginDialog, ZeroContext, SlotOf, Slots, TypeOK
    <3>2. ~filterContext'[SlotOf(t)'].completed
      BY <3>1 DEF EmptyContext
    <3>3. QED
      BY <1>2, <3>2 DEF Answered
  <2>3. QED
    BY <2>1, <2>2 DEF BeginNative, BeginFails, threadVars
<1>5. OnlyDialogsWait'
  <2>1. ASSUME NEW f \in Frames, BeginDialog(t, c, o, f)
        PROVE  OnlyDialogsWait'
    <3>1. frame'[t] = f /\ f # NULL
      BY <2>1, NullAssumption DEF BeginDialog, TypeOK
    <3>2. QED
      BY <3>1 DEF OneThread, OnlyDialogsWait, InDialog
  <2>2. CASE BeginNative(t, c)
    <3>1. cur'[t] = c /\ op'[c] = "open_native"
      BY <2>2 DEF BeginNative, TypeOK
    <3>2. QED
      BY <3>1 DEF OneThread, OnlyDialogsWait
  <2>3. CASE BeginFails(t, c, o)
    <3>1. cur'[t] = NULL
      BY <1>1, <2>3 DEF BeginFails, threadVars
    <3>2. QED
      BY <3>1 DEF OneThread, OnlyDialogsWait
  <2>4. QED
    BY <2>1, <2>2, <2>3
<1>6. QED
  BY <1>3, <1>4, <1>5 DEF SilentInv, OneThread

(* A call that returns an error, or is no dialog, or has a Response, or    *)
(* has lost the connection.                                                *)
LEMMA SilentReturn ==
  ASSUME OneThread, TypeOK, SilentInv, NEW t \in Threads, cur[t] \in Calls,
         NEW status, NEW value, Return(t, status, value), UNCHANGED <<op, link>>,
         status = "ok" /\ Func(cur[t]) # "none" /\ value.from = NULL => link = "gone"
  PROVE  SilentInv'
<1>1. /\ pc'[t] = "idle" /\ cur'[t] = NULL /\ frame'[t] = NULL
      /\ outcome'[cur[t]] = [status |-> status, value |-> value]
      /\ \A c \in Calls : c # cur[t] => outcome'[c] = outcome[c]
  BY DEF Return, Goto, TypeOK
<1>2. \A c : Func(c)' = Func(c)
  BY DEF Func
<1>3. SilentReturnIsDisconnect'
  BY <1>1, <1>2 DEF SilentInv, SilentReturnIsDisconnect
<1>4. Answered(t)' /\ OnlyDialogsWait'
  BY <1>1 DEF Answered, OnlyDialogsWait, InDialog, OneThread
<1>5. QED
  BY <1>3, <1>4 DEF SilentInv, OneThread

LEMMA SilentThreadStep ==
  ASSUME OneThread, TypeOK, SilentInv, NEW t \in Threads, ThreadStep(t)
  PROVE  SilentInv'
<1>1. ASSUME UNCHANGED <<cur, frame, op, outcome>>, link = "gone" => link' = "gone", Answered(t)'
      PROVE  SilentInv'
  <2>1. OnlyDialogsWait'
    BY <1>1 DEF SilentInv, OnlyDialogsWait, InDialog
  <2>2. SilentReturnIsDisconnect'
    BY <1>1 DEF SilentInv, SilentReturnIsDisconnect, Func
  <2>3. QED
    BY <1>1, <2>1, <2>2 DEF SilentInv, OneThread
<1>2. Answered(t)
  BY DEF SilentInv
<1>3. CASE \/ Send(t) \/ (Reply(t) /\ InDialog(t)) \/ EnterReadWriteDispatch(t)
           \/ PollReturns(t) \/ DispatchNothing(t) \/ DispatchOther(t) \/ DropResponse(t)
           \/ Walks(t)
  <2>1. /\ UNCHANGED <<cur, frame, op, outcome, filterContext>>
        /\ link = "gone" => link' = "gone"
    BY <1>3, WalkGoesOn DEF Send, Reply, EnterReadWriteDispatch, PollReturns,
          DispatchNothing, DispatchOther, DropResponse, connVars, callVars
  <2>2. pc[t] # "callback" /\ pc'[t] # "callback"
    BY <1>3, WalkGoesOn DEF Send, Reply, EnterReadWriteDispatch, PollReturns,
          DispatchNothing, DispatchOther, DropResponse, Dispatching, Goto, TypeOK
  <2>3. Answered(t)'
    BY <1>2, <2>1, <2>2 DEF Answered, InDialog, SlotOf, HasPath
  <2>4. QED
    BY <1>1, <2>1, <2>3
<1>4. CASE SendFails(t) \/ (Reply(t) /\ ~InDialog(t))
  <2>1. /\ cur[t] \in Calls /\ UNCHANGED <<op, link>>
        /\ Return(t, IF InDialog(t) THEN "error" ELSE "ok", Nothing)
    BY <1>4 DEF SendFails, Reply, connVars, TypeOK
  <2>2. ~InDialog(t) => Func(cur[t]) = "none"
    BY <2>1, EntryPointType DEF SilentInv, OnlyDialogsWait, Func
  <2>3. QED
    BY <2>1, <2>2, SilentReturn
<1>5. CASE InvokeFilter(t)
  <2>1. /\ UNCHANGED <<cur, frame, op, outcome, filterContext, link>>
        /\ pc[t] = "filter"
        /\ callback'.value.from = Head(inbox).req
        /\ callback'.todo = Publishes(Head(walk).func)
    BY <1>5 DEF InvokeFilter, callVars
  <2>2. callback'.value.from # NULL
    BY <2>1, HeadResponse
  <2>3. callback'.todo \in Todos /\ callback'.todo # <<"completed">>
    BY <2>1 DEF Publishes, Todos
  <2>4. InDialog(t) /\ filterContext[SlotOf(t)].completed => HasPath(SlotOf(t))
    BY <1>2, <2>1 DEF Answered
  <2>5. InDialog(t)' = InDialog(t) /\ SlotOf(t)' = SlotOf(t) /\ HasPath(SlotOf(t))' = HasPath(SlotOf(t))
    BY <2>1 DEF InDialog, SlotOf, HasPath
  <2>6. Answered(t)'
    BY <2>1, <2>2, <2>3, <2>4, <2>5 DEF Answered
  <2>7. QED
    BY <1>1, <2>1, <2>6
<1>6. CASE WriteContext(t)
  <2>1. /\ UNCHANGED <<cur, frame, op, outcome, link>> /\ pc[t] = "callback"
    BY <1>6 DEF WriteContext, callVars
  <2>0. PICK w \in Slots : w = callback.slot
    BY <2>1 DEF TypeOK, Callbacks
  <2>2. /\ callback.value.from # NULL /\ callback.todo \in Todos
        /\ callback.todo = <<"completed">> => HasPath(w)
    BY <1>2, <2>0, <2>1 DEF Answered
  <2>3. InDialog(t)' = InDialog(t) /\ SlotOf(t)' = SlotOf(t)
    BY <2>1 DEF InDialog, SlotOf
  <2>4. InDialog(t) => SlotOf(t) \in Slots
    BY OwnFilter
  <2>5. Head(callback.todo) = "value" \/ callback.todo = <<"completed">> => HasPath(w)'
    <3>1. CASE Head(callback.todo) = "value"
      BY <1>6, <2>0, <2>2, <3>1, WriteContextStep DEF HasPath
    <3>2. CASE callback.todo = <<"completed">>
      BY <1>6, <2>0, <2>2, <3>2, WriteContextStep, TodoShape DEF HasPath
    <3>3. QED
      BY <3>1, <3>2
  <2>6. \A u \in Slots : u # w => filterContext'[u] = filterContext[u]
    BY <1>6, <2>0, <2>2, WriteContextStep
  <2>7. InDialog(t) /\ SlotOf(t) # w /\ filterContext'[SlotOf(t)].completed => HasPath(SlotOf(t))'
    BY <1>2, <2>0, <2>3, <2>4, <2>6 DEF Answered, HasPath
  <2>8. CASE pc'[t] = "callback"
    <3>1. /\ callback'.todo = Tail(callback.todo) /\ Len(callback.todo) > 1
          /\ callback'.value = callback.value /\ callback'.slot = w
      BY <1>6, <2>0, <2>2, <2>8, WriteContextStep DEF InCallback
    <3>2. callback'.todo \in Todos /\ (callback'.todo = <<"completed">> => HasPath(w)')
      <4>1. CASE Head(callback.todo) = "completed"
        <5>1. callback'.todo = <<"value">> /\ <<"value">> # <<"completed">>
          BY <2>2, <3>1, <4>1, TodoShape
        <5>2. QED
          BY <5>1 DEF Todos
      <4>2. CASE Head(callback.todo) = "value"
        BY <2>2, <2>5, <3>1, <4>2, TodoShape DEF Todos
      <4>3. QED
        BY <2>2, <4>1, <4>2, TodoShape
    <3>3. HasPath(w)' = HasPath(callback.slot)'
      BY <3>1 DEF HasPath
    <3>4. QED
      BY <1>1, <2>1, <2>2, <2>3, <2>7, <2>8, <3>1, <3>2, <3>3 DEF Answered
  <2>9. CASE pc'[t] # "callback"
    <3>1. ~(Len(callback.todo) > 1)
      BY <1>6, <2>1, <2>9 DEF WriteContext
    <3>2. callback.todo = <<"completed">> \/ Head(callback.todo) = "value"
      BY <2>2, <3>1 DEF Todos
    <3>3. SlotOf(t) = w => HasPath(SlotOf(t))'
      BY <2>3, <2>5, <3>2 DEF HasPath
    <3>4. QED
      BY <1>1, <2>1, <2>3, <2>7, <2>9, <3>3 DEF Answered
  <2>10. QED
    BY <2>8, <2>9
<1>7. ASSUME NEW k \in DOMAIN filters, FinishDialog(t, k)
      PROVE  SilentInv'
  <2>1. /\ pc[t] = "wait" /\ cur[t] \in Calls /\ UNCHANGED <<op, link>> /\ LoopEnds(t)
        /\ Return(t, "ok", filterContext[SlotOf(t)].value)
    BY <1>7 DEF FinishDialog, TypeOK
  <2>2. InDialog(t)
    <3>1. filters[k] \in Filters /\ filters[k].slot = SlotOf(t)
      BY <1>7 DEF FinishDialog, Unregister, Matches, TypeOK
    <3>2. QED
      BY <3>1 DEF Filters, Slots, SlotOf, InDialog
  <2>3. filterContext[SlotOf(t)].value.from = NULL => link = "gone"
    BY <1>2, <2>1, <2>2 DEF Answered, LoopEnds, HasPath
  <2>4. QED
    BY <2>1, <2>3, SilentReturn
<1>8. CASE Reply(t)
  BY <1>3, <1>4, <1>8
<1>9. QED
  BY <1>3, <1>4, <1>5, <1>6, <1>7, <1>8 DEF ThreadStep, Walks

LEMMA SilentNext ==
  ASSUME OneThread, TypeOK, BegunInv, SilentInv, [Next]_vars
  PROVE  SilentInv'
<1>1. CASE Environment \/ UNCHANGED vars
  <2>1. /\ UNCHANGED <<pc, cur, frame, filterContext, callback, op, outcome>>
        /\ link = "gone" => link' = "gone"
    BY <1>1 DEF Environment, PortalAccepts, PortalRefuses, UserAnswers, Disconnect,
                vars, connVars, threadVars, callVars
  <2>2. OnlyDialogsWait' /\ SilentReturnIsDisconnect'
    BY <2>1 DEF SilentInv, OnlyDialogsWait, SilentReturnIsDisconnect, InDialog, Func
  <2>3. \A t \in Threads : Answered(t)'
    BY <2>1 DEF SilentInv, Answered, InDialog, SlotOf, HasPath
  <2>4. QED
    BY <2>2, <2>3 DEF SilentInv
<1>2. ASSUME NEW t \in Threads, Caller(t), Next
      PROVE  SilentInv'
  <2>1. PICK c \in Calls : \E o : \/ \E f \in Frames : BeginDialog(t, c, o, f)
                              \/ BeginNative(t, c)
                              \/ BeginFails(t, c, o)
    BY <1>2 DEF Caller
  <2>2. QED
    BY <1>2, <2>1, SilentCaller
<1>3. QED
  BY <1>1, <1>2, SilentThreadStep DEF Next

LEMMA SilentInvariant ==
  ASSUME OneThread
  PROVE  Spec => []SilentInv
<1>1. Init => SilentInv
  BY DEF Init, SilentInv, OnlyDialogsWait, Answered, SilentReturnIsDisconnect, InDialog,
         NotReturned
<1>2. TypeOK /\ BegunInv /\ SilentInv /\ [Next]_vars => SilentInv'
  BY SilentNext
<1>3. QED
  BY <1>1, <1>2, TypeCorrect, BegunInvariant, PTL DEF Spec

(* In one thread a dialog returns 0 with nothing at all, not even a        *)
(* cancelled answer, only because the connection was lost under it.        *)
THEOREM SilentReturnHasCause ==
  ASSUME OneThread
  PROVE  Spec => []SilentReturnIsDisconnect
<1>1. SilentInv => SilentReturnIsDisconnect
  BY DEF SilentInv
<1>2. QED
  BY <1>1, SilentInvariant, PTL

-----------------------------------------------------------------------------
(* One thread: where an answer to another request comes from.              *)

Causes(d) == op[d] = "open_native" \/ d \in Abandoned
NoCause   == \A d \in Calls : ~Causes(d)

(* Calls begin in the order of their numbers, and the one that runs is the *)
(* latest.                                                                 *)
InOrder ==
  /\ \A c, d \in Calls : d < c /\ op[c] # NULL => op[d] # NULL
  /\ \A t \in Threads, d \in Calls : cur[t] # NULL /\ op[d] # NULL => d <= cur[t]

(* Before there is a cause, the call that runs is the only one whose       *)
(* Response can come, is on its way or is in the context.                  *)
OnlyOwn(t) ==
  /\ \A c \in Calls : Queuing(c) => c = cur[t]
  /\ \A c \in Calls : request[c] \in {"sent", "open"} /\ link = "up" => c = cur[t]
  /\ InDialog(t) => filterContext[SlotOf(t)].value.from \in {NULL, cur[t]}
  /\ pc[t] = "callback" => callback.value.from = cur[t]

MisdeliveryInv ==
  /\ InOrder
  /\ MisdeliveryHasCause
  /\ NoCause => \A t \in Threads : OnlyOwn(t)

LEMMA CausesBegun ==
  ASSUME TypeOK, BegunInv, NEW d \in Calls, Causes(d)
  PROVE  op[d] # NULL
BY DEF Causes, Abandoned, BegunInv, AllOps

LEMMA CausesStay ==
  ASSUME TypeOK, BegunInv, RunningInv, Next, NEW d \in Calls, Causes(d)
  PROVE  Causes(d)'
<1>1. op[d] = "open_native" => op'[d] = "open_native"
  BY CausesBegun, FuncFinal
<1>2. d \in Abandoned => d \in Abandoned'
  BY StepKinds, AbandonedChange
<1>3. QED
  BY <1>1, <1>2 DEF Causes

(* What a call that begins finds.                                          *)
LEMMA CallerFinds ==
  ASSUME TypeOK, NEW t \in Threads, NEW c \in Calls, Calling(t, c)
  PROVE  /\ pc[t] = "idle" /\ cur[t] = NULL /\ frame[t] = NULL /\ op[c] = NULL
         /\ \A d \in Calls : d < c => op[d] # NULL
BY DEF Calling, TypeOK, InDialog, Calls

LEMMA OrderNext ==
  ASSUME OneThread, TypeOK, InOrder, [Next]_vars
  PROVE  InOrder'
<1>1. ASSUME UNCHANGED op, \A t \in Threads : cur'[t] # NULL => cur'[t] = cur[t]
      PROVE  InOrder'
  BY <1>1 DEF InOrder
<1>2. ASSUME NEW t \in Threads, NEW c \in Calls, Calling(t, c), NEW o \in Ops,
             op' = [op EXCEPT ![c] = o], cur'[t] \in {c, NULL}
      PROVE  InOrder'
  <2>1. /\ op[c] = NULL /\ op'[c] = o /\ o # NULL
        /\ \A d \in Calls : d # c => op'[d] = op[d]
        /\ \A d \in Calls : d < c => op[d] # NULL
    BY <1>2, CallerFinds DEF TypeOK
  <2>2. \A d \in Calls : op[d] # NULL => d < c
    BY <2>1 DEF InOrder, Calls
  <2>3. \A d, e \in Calls : d < e /\ op'[e] # NULL => op'[d] # NULL
    <3>1. SUFFICES ASSUME NEW d \in Calls, NEW e \in Calls, d < e, op'[e] # NULL
                   PROVE  op'[d] # NULL
      OBVIOUS
    <3>2. CASE e = c
      BY <2>1, <3>1, <3>2
    <3>3. CASE e # c
      BY <2>1, <3>1, <3>3 DEF InOrder
    <3>4. QED
      BY <3>2, <3>3
  <2>4. \A d \in Calls : op'[d] # NULL => d <= c
    BY <2>1, <2>2 DEF Calls
  <2>5. \A u \in Threads : cur'[u] # NULL => cur'[u] = c
    BY <1>2 DEF OneThread
  <2>6. QED
    BY <2>3, <2>4, <2>5 DEF InOrder
<1>3. ASSUME NEW t \in Threads, NEW c \in Calls, NEW o \in Ops \cap Dialogs, NEW f \in Frames,
             BeginDialog(t, c, o, f)
      PROVE  InOrder'
  BY <1>2, <1>3 DEF BeginDialog, TypeOK
<1>4. ASSUME NEW t \in Threads, NEW c \in Calls, "open_native" \in Ops, BeginNative(t, c)
      PROVE  InOrder'
  BY <1>2, <1>4 DEF BeginNative, TypeOK
<1>5. ASSUME NEW t \in Threads, NEW c \in Calls, NEW o \in Ops, BeginFails(t, c, o)
      PROVE  InOrder'
  <2>1. Calling(t, c) /\ op' = [op EXCEPT ![c] = o] /\ UNCHANGED cur
    BY <1>5 DEF BeginFails, threadVars
  <2>2. QED
    BY <1>2, <2>1, CallerFinds
<1>6. ASSUME NEW t \in Threads, ThreadStep(t)
      PROVE  InOrder'
  <2>1. UNCHANGED op /\ (cur' = cur \/ cur' = [cur EXCEPT ![t] = NULL])
    BY <1>6, WalkGoesOn
       DEF ThreadStep, Walks, Send, Reply, SendFails, EnterReadWriteDispatch, PollReturns,
           DispatchNothing, DispatchOther, InvokeFilter, DropResponse, WriteContext,
           FinishDialog, Return, callVars
  <2>2. QED
    BY <1>1, <2>1 DEF TypeOK
<1>7. CASE Environment \/ UNCHANGED vars
  BY <1>1, <1>7 DEF Environment, PortalAccepts, PortalRefuses, UserAnswers, Disconnect,
                    vars, threadVars, callVars
<1>8. QED
  BY <1>3, <1>4, <1>5, <1>6, <1>7 DEF Next, Caller

(* A step of a call that goes on, which brings no Response nearer.         *)
LEMMA OwnSame ==
  ASSUME NEW t \in Threads, OnlyOwn(t), UNCHANGED <<cur, frame, filterContext>>,
         \A c \in Calls : Queuing(c)' => Queuing(c),
         \A c \in Calls : request'[c] \in {"sent", "open"} /\ link' = "up"
                           => c = cur[t] \/ (request[c] \in {"sent", "open"} /\ link = "up"),
         pc'[t] = "callback" => pc[t] = "callback" /\ UNCHANGED callback
  PROVE  OnlyOwn(t)'
BY DEF OnlyOwn, InDialog, SlotOf

(* Only a dialog begins, or nothing does.                                  *)
LEMMA OwnCaller ==
  ASSUME OneThread, TypeOK, BegunInv, OnceInv, NEW t \in Threads, OnlyOwn(t), NoCause',
         NEW c \in Calls, NEW o \in Ops,
         \/ o \in Dialogs /\ \E f \in Frames : BeginDialog(t, c, o, f)
         \/ BeginNative(t, c)
         \/ BeginFails(t, c, o)
  PROVE  OnlyOwn(t)'
<1>1. /\ pc[t] = "idle" /\ cur[t] = NULL /\ frame[t] = NULL
  BY CallerFinds DEF BeginDialog, BeginNative, BeginFails
<1>2. \A d \in Calls : ~Queuing(d) /\ ~(request[d] \in {"sent", "open"} /\ link = "up")
  BY <1>1 DEF OnlyOwn
<1>3. op'[c] # "open_native"
  BY DEF NoCause, Causes
<1>4. ~BeginNative(t, c)
  BY <1>3 DEF BeginNative, TypeOK
<1>5. CASE BeginFails(t, c, o)
  <2>1. o # "open_native"
    BY <1>3, <1>5 DEF BeginFails, TypeOK
  <2>2. UNCHANGED <<inbox, link, callback, request, cur, frame, filterContext, pc>>
    BY <1>5, <2>1 DEF BeginFails, connVars, threadVars
  <2>3. QED
    BY <2>2, OwnSame DEF Queuing
<1>6. ASSUME NEW f \in Frames, BeginDialog(t, c, o, f)
      PROVE  OnlyOwn(t)'
  <2>1. /\ QueueQuiet /\ UNCHANGED link
        /\ request'[c] = "made" /\ \A d \in Calls : d # c => request'[d] = request[d]
        /\ pc'[t] = "send"
    BY <1>6 DEF BeginDialog, dbus_init, QueueQuiet, Goto, TypeOK
  <2>2. \A d \in Calls : ~Queuing(d)'
    BY <1>2, <2>1, QueueKept DEF OnceInv, OnePlace
  <2>3. \A d \in Calls : ~(request'[d] \in {"sent", "open"} /\ link' = "up")
    BY <1>2, <2>1
  <2>4. filterContext'[SlotOf(t)'] = EmptyContext
    BY <1>6 DEF BeginDialog, ZeroContext, SlotOf, Slots, TypeOK
  <2>5. filterContext'[SlotOf(t)'].value.from = NULL
    BY <2>4 DEF EmptyContext, Nothing
  <2>6. QED
    BY <2>1, <2>2, <2>3, <2>5 DEF OnlyOwn
<1>7. QED
  BY <1>4, <1>5, <1>6

(* A dialog that returns has taken its Response, or none will come.        *)
LEMMA OwnFinish ==
  ASSUME OneThread, TypeOK, OnceInv, SilentInv, NEW t \in Threads, OnlyOwn(t),
         NEW k \in DOMAIN filters, FinishDialog(t, k)
  PROVE  /\ OnlyOwn(t)'
         /\ cur[t] \in Calls /\ InDialog(t) /\ Return(t, "ok", filterContext[SlotOf(t)].value)
<1>1. /\ pc[t] = "wait" /\ cur[t] \in Calls /\ LoopEnds(t)
      /\ UNCHANGED <<link, inbox, request>>
      /\ Return(t, "ok", filterContext[SlotOf(t)].value)
  BY DEF FinishDialog, TypeOK
<1>2. InDialog(t) /\ SlotOf(t) \in Slots
  <2>1. filters[k] \in Filters /\ filters[k].slot = SlotOf(t)
    BY DEF FinishDialog, Unregister, Matches, TypeOK
  <2>2. QED
    BY <2>1 DEF Filters, Slots, SlotOf, InDialog
<1>3. ~Queuing(cur[t]) /\ ~(request[cur[t]] \in {"sent", "open"} /\ link = "up")
  <2>1. CASE filterContext[SlotOf(t)].completed
    <3>1. filterContext[SlotOf(t)].value.from # NULL
      BY <1>1, <1>2, <2>1 DEF SilentInv, Answered, HasPath
    <3>2. filterContext[SlotOf(t)].value.from = cur[t]
      BY <1>2, <3>1 DEF OnlyOwn
    <3>3. Stored(cur[t])
      BY <1>2, <3>2, OwnFilter DEF Stored, StoredAt
    <3>4. OnePlace(cur[t])
      BY <1>1 DEF OnceInv
    <3>5. QED
      BY <3>3, <3>4 DEF OnePlace
  <2>2. CASE link = "gone" /\ inbox = <<>>
    BY <2>2 DEF Queuing
  <2>3. Queue = inbox
    BY <1>1 DEF Queue, InHand, OneThread
  <2>4. QED
    BY <1>1, <2>1, <2>2, <2>3 DEF LoopEnds
<1>4. \A c \in Calls : ~Queuing(c) /\ ~(request[c] \in {"sent", "open"} /\ link = "up")
  BY <1>3 DEF OnlyOwn
<1>5. /\ pc'[t] = "idle" /\ frame'[t] = NULL
      /\ \A c \in Calls : Queuing(c)' = Queuing(c)
  BY <1>1 DEF Return, Goto, Queuing, TypeOK
<1>6. QED
  BY <1>1, <1>2, <1>4, <1>5 DEF OnlyOwn, InDialog

LEMMA OwnThreadStep ==
  ASSUME OneThread, TypeOK, RunningInv, OnceInv, SilentInv, NoCause, NoCause',
         NEW t \in Threads, OnlyOwn(t), ThreadStep(t)
  PROVE  OnlyOwn(t)'
<1>1. \A c \in Calls : OnePlace(c) /\ QueuedOnce(c)
  BY DEF OnceInv, OnePlace
<1>2. ASSUME ~InDialog(t), cur[t] \in Calls
      PROVE  FALSE
  BY <1>2 DEF SilentInv, OnlyDialogsWait, NoCause, Causes, TypeOK
<1>3. CASE Send(t)
  <2>1. /\ UNCHANGED <<cur, frame, filterContext, inbox, link>> /\ pc'[t] = "reply"
        /\ request' = [request EXCEPT ![cur[t]] = "sent"]
    BY <1>3 DEF Send, Goto, connVars, TypeOK
  <2>2. \A c \in Calls : c = cur[t] \/ request'[c] = request[c]
    BY <2>1 DEF TypeOK
  <2>3. QED
    BY <2>1, <2>2, OwnSame DEF Queuing
<1>4. CASE SendFails(t) \/ (Reply(t) /\ ~InDialog(t))
  <2>1. cur[t] \in Calls
    BY <1>4 DEF SendFails, Reply, TypeOK
  <2>2. InDialog(t) /\ SendFails(t)
    BY <1>2, <1>4, <2>1
  <2>3. outcome'[cur[t]].status = "error" /\ request'[cur[t]] # "none"
    BY <2>1, <2>2 DEF SendFails, Return, RunningInv, TypeOK
  <2>4. QED
    BY <2>1, <2>3 DEF NoCause, Causes, Abandoned
<1>5. CASE \/ (Reply(t) /\ InDialog(t)) \/ EnterReadWriteDispatch(t)
           \/ PollReturns(t) \/ DispatchNothing(t) \/ DispatchOther(t) \/ DropResponse(t)
           \/ Walks(t)
  <2>1. /\ UNCHANGED <<cur, frame, filterContext, request>>
        /\ link' = "up" => link = "up"
        /\ QueueQuiet
    BY <1>5, WalkGoesOn, HeadResponse DEF Reply, EnterReadWriteDispatch, PollReturns,
          DispatchNothing, DispatchOther, DropResponse, Dispatching, connVars, callVars,
          QueueQuiet
  <2>2. pc'[t] # "callback"
    BY <1>5, WalkGoesOn DEF Reply, EnterReadWriteDispatch, PollReturns, DispatchNothing,
          DispatchOther, DropResponse, Goto, TypeOK
  <2>3. QED
    BY <1>1, <2>1, <2>2, QueueKept, OwnSame
<1>6. CASE InvokeFilter(t)
  <2>1. /\ UNCHANGED <<cur, frame, filterContext, request, link>>
        /\ pc[t] = "filter" /\ inbox # <<>> /\ inbox' = Tail(inbox) /\ QueueQuiet
        /\ callback'.value.from = Head(inbox).req
    BY <1>6, HeadResponse DEF InvokeFilter, callVars, QueueQuiet
  <2>2. Head(inbox).req \in Calls /\ Queuing(Head(inbox).req)
    BY <1>1, <2>1, HeadResponse, HeadLeaves
  <2>3. callback'.value.from = cur[t]
    BY <2>1, <2>2 DEF OnlyOwn
  <2>4. \A c \in Calls : Queuing(c)' => Queuing(c)
    BY <1>1, <2>1, QueueKept
  <2>5. QED
    BY <2>1, <2>3, <2>4 DEF OnlyOwn, InDialog, SlotOf
<1>7. CASE WriteContext(t)
  <2>1. /\ UNCHANGED <<cur, frame, inbox, link, request>> /\ pc[t] = "callback"
    BY <1>7 DEF WriteContext, callVars
  <2>2. callback.todo \in Todos /\ callback.value.from = cur[t]
    BY <2>1 DEF SilentInv, Answered, OnlyOwn
  <2>3. InDialog(t) =>
          filterContext'[SlotOf(t)].value.from \in {filterContext[SlotOf(t)].value.from, cur[t]}
    <3>1. InDialog(t) => SlotOf(t) \in Slots
      BY OwnFilter
    <3>2. QED
      BY <1>7, <2>2, <3>1, WriteContextStep, TodoShape
  <2>4. pc'[t] = "callback" => callback'.value.from = cur[t]
    BY <1>7, <2>2, WriteContextStep DEF InCallback
  <2>5. /\ SlotOf(t)' = SlotOf(t) /\ InDialog(t)' = InDialog(t)
        /\ \A c \in Calls : Queuing(c)' = Queuing(c)
    BY <2>1 DEF SlotOf, InDialog, Queuing
  <2>6. QED
    BY <2>1, <2>2, <2>3, <2>4, <2>5 DEF OnlyOwn
<1>8. ASSUME NEW k \in DOMAIN filters, FinishDialog(t, k)
      PROVE  OnlyOwn(t)'
  BY <1>8, OwnFinish
<1>9. CASE Reply(t)
  BY <1>4, <1>5, <1>9
<1>10. QED
  BY <1>3, <1>4, <1>5, <1>6, <1>7, <1>8, <1>9 DEF ThreadStep, Walks

LEMMA OwnEnvironment ==
  ASSUME TypeOK, OnceInv, NEW t \in Threads, OnlyOwn(t), Environment \/ UNCHANGED vars
  PROVE  OnlyOwn(t)'
<1>1. \A c \in Calls : QueuedOnce(c)
  BY DEF OnceInv, OnePlace
<1>2. ASSUME NEW c \in Calls, PortalAccepts(c) \/ PortalRefuses(c)
      PROVE  OnlyOwn(t)'
  <2>1. /\ UNCHANGED <<cur, frame, filterContext, inbox, link, pc, callback>>
        /\ request[c] = "sent" /\ link = "up"
        /\ \A d \in Calls : d # c => request'[d] = request[d]
    BY <1>2 DEF PortalAccepts, PortalRefuses, connVars, threadVars, TypeOK
  <2>2. QED
    BY <2>1, OwnSame DEF Queuing
<1>3. ASSUME NEW c \in Calls, NEW a \in Answers, UserAnswers(c, a)
      PROVE  OnlyOwn(t)'
  <2>1. /\ UNCHANGED <<cur, frame, filterContext, link, pc, callback>>
        /\ request[c] = "open" /\ link = "up" /\ request' = [request EXCEPT ![c] = "answered"]
        /\ inbox' = Append(inbox, Response(c, a))
    BY <1>3 DEF UserAnswers, threadVars
  <2>2. c = cur[t]
    BY <2>1 DEF OnlyOwn
  <2>3. \A d \in Calls : Queuing(d)' => Queuing(d) \/ d = c
    <3>1. inbox \in Seq(Signals) /\ Response(c, a) \in Signals /\ Response(c, a).req = c
      BY DEF TypeOK, Signals, Response
    <3>2. /\ Len(inbox) \in Nat /\ Len(inbox') = Len(inbox) + 1
          /\ inbox'[Len(inbox) + 1].req = c
          /\ \A i \in 1 .. Len(inbox) : inbox'[i] = inbox[i]
      BY <2>1, <3>1, AppendShape
    <3>3. QED
      BY <3>2 DEF Queuing
  <2>4. \A d \in Calls : request'[d] = request[d] \/ d = c
    BY <2>1 DEF TypeOK
  <2>5. QED
    BY <2>1, <2>2, <2>3, <2>4 DEF OnlyOwn, InDialog, SlotOf
<1>4. CASE Disconnect
  <2>1. /\ UNCHANGED <<cur, frame, filterContext, pc, callback, request>>
        /\ link' # "up" /\ QueueQuiet
    BY <1>4 DEF Disconnect, threadVars, callVars, QueueQuiet
  <2>2. QED
    BY <1>1, <2>1, QueueKept, OwnSame
<1>5. CASE UNCHANGED vars
  BY <1>5, OwnSame DEF vars, connVars, threadVars, callVars, Queuing
<1>6. QED
  BY <1>2, <1>3, <1>4, <1>5 DEF Environment

(* What a call returns is its own, or there was a cause before it.         *)
LEMMA CauseNext ==
  ASSUME OneThread, TypeOK, BegunInv, RunningInv, OnceInv, SilentInv, MisdeliveryInv, Next
  PROVE  MisdeliveryHasCause'
<1>1. SUFFICES ASSUME NEW c \in Calls, outcome'[c].value.from \notin {c, NULL},
                      outcome[c].value.from \in {c, NULL}
               PROVE  \E d \in Calls : d < c /\ Causes(d)
  <2>1. \A d \in Calls : Causes(d) => Causes(d)'
    BY CausesStay
  <2>2. \A c \in Calls : outcome[c].value.from \notin {c, NULL}
                           => \E d \in Calls : d < c /\ Causes(d)
    BY DEF MisdeliveryInv, MisdeliveryHasCause, Causes, Calls
  <2>3. \A c \in Calls : (\E d \in Calls : d < c /\ Causes(d)')
                          => \E d \in 1 .. (c - 1) : Causes(d)'
    BY DEF Calls
  <2>4. QED
    BY <1>1, <2>1, <2>2, <2>3 DEF MisdeliveryHasCause, Causes
<1>2. PICK t \in Threads : /\ cur[t] = c /\ InDialog(t) /\ op[c] # "open_native"
                           /\ outcome'[c].value = filterContext[SlotOf(t)].value
  <2>1. ASSUME NEW value, value.from = NULL, NEW d \in Calls, NEW status,
               outcome' = [outcome EXCEPT ![d] = [status |-> status, value |-> value]]
        PROVE  FALSE
    BY <1>1, <2>1 DEF TypeOK
  <2>2. ~UNCHANGED outcome
    BY <1>1
  <2>3. Nothing.from = NULL
    BY DEF Nothing
  <2>4. ASSUME NEW t \in Threads, Caller(t)
        PROVE  FALSE
    BY <2>1, <2>2, <2>3, <2>4 DEF Caller, BeginDialog, BeginNative, BeginFails
  <2>5. ~Environment
    BY <2>2 DEF Environment, PortalAccepts, PortalRefuses, UserAnswers, Disconnect, callVars
  <2>6. PICK t \in Threads : ThreadStep(t)
    BY <2>4, <2>5 DEF Next
  <2>7. ~SendFails(t) /\ ~Reply(t)
    BY <2>1, <2>2, <2>3 DEF SendFails, Reply, Return, TypeOK
  <2>8. PICK k \in DOMAIN filters : FinishDialog(t, k)
    BY <2>2, <2>6, <2>7, WalkGoesOn
       DEF ThreadStep, Walks, Send, EnterReadWriteDispatch, PollReturns, DispatchNothing,
           DispatchOther, InvokeFilter, DropResponse, WriteContext, callVars
  <2>9. cur[t] \in Calls /\ InDialog(t) /\ Return(t, "ok", filterContext[SlotOf(t)].value)
    <3>1. cur[t] \in Calls /\ Return(t, "ok", filterContext[SlotOf(t)].value)
      BY <2>8 DEF FinishDialog, TypeOK
    <3>2. filters[k] \in Filters /\ filters[k].slot = SlotOf(t)
      BY <2>8 DEF FinishDialog, Unregister, Matches, TypeOK
    <3>3. QED
      BY <3>1, <3>2 DEF Filters, Slots, SlotOf, InDialog
  <2>10. op[cur[t]] # "open_native"
    <3>1. filters[k].func # "none" /\ filters[k].func = Func(cur[t])
      <4>1. filters[k] \in Filters
        BY DEF TypeOK
      <4>2. QED
        BY <2>8, <4>1 DEF FinishDialog, Unregister, Matches, Filters
    <3>2. QED
      BY <3>1, EntryPointType DEF Func
  <2>11. cur[t] = c /\ outcome'[c].value = filterContext[SlotOf(t)].value
    BY <1>1, <2>9 DEF Return, TypeOK
  <2>12. QED
    BY <2>9, <2>10, <2>11
<1>3. ~NoCause
  BY <1>1, <1>2 DEF MisdeliveryInv, OnlyOwn
<1>4. PICK d \in Calls : Causes(d)
  BY <1>3 DEF NoCause
<1>5. d <= c
  BY <1>2, <1>4, CausesBegun DEF MisdeliveryInv, InOrder
<1>6. d # c
  <2>1. outcome[c].status = "none"
    BY <1>2 DEF RunningInv
  <2>2. QED
    BY <1>2, <1>4, <2>1 DEF Causes, Abandoned
<1>7. QED
  BY <1>4, <1>5, <1>6 DEF Calls

LEMMA MisdeliveryNext ==
  ASSUME OneThread, TypeOK, BegunInv, RunningInv, OnceInv, SilentInv, MisdeliveryInv,
         [Next]_vars
  PROVE  MisdeliveryInv'
<1>1. InOrder'
  BY OrderNext DEF MisdeliveryInv
<1>2. MisdeliveryHasCause'
  <2>1. CASE Next
    BY <2>1, CauseNext
  <2>2. CASE UNCHANGED vars
    BY <2>2 DEF vars, callVars, MisdeliveryInv, MisdeliveryHasCause, Abandoned
  <2>3. QED
    BY <2>1, <2>2
<1>3. ASSUME NoCause', NEW t \in Threads
      PROVE  OnlyOwn(t)'
  <2>1. NoCause
    <3>1. CASE Next
      BY <1>3, <3>1, CausesStay DEF NoCause
    <3>2. CASE UNCHANGED vars
      BY <1>3, <3>2 DEF vars, callVars, NoCause, Causes, Abandoned
    <3>3. QED
      BY <3>1, <3>2
  <2>2. OnlyOwn(t)
    BY <2>1 DEF MisdeliveryInv
  <2>3. CASE Environment \/ UNCHANGED vars
    BY <2>2, <2>3, OwnEnvironment
  <2>4. ASSUME NEW u \in Threads, Caller(u)
        PROVE  OnlyOwn(t)'
    <3>1. u = t
      BY DEF OneThread
    <3>2. PICK c \in Calls, o \in Ops :
            \/ o \in Dialogs /\ \E f \in Frames : BeginDialog(t, c, o, f)
            \/ BeginNative(t, c)
            \/ BeginFails(t, c, o)
      BY <2>4, <3>1 DEF Caller
    <3>3. QED
      BY <1>3, <2>2, <3>2, OwnCaller
  <2>5. ASSUME NEW u \in Threads, ThreadStep(u)
        PROVE  OnlyOwn(t)'
    BY <1>3, <2>1, <2>2, <2>5, OwnThreadStep DEF OneThread
  <2>6. QED
    BY <2>3, <2>4, <2>5 DEF Next
<1>4. QED
  BY <1>1, <1>2, <1>3 DEF MisdeliveryInv

(* In a program that calls the library from one thread, a dialog returns   *)
(* the answer to another request only if an earlier call opened a path     *)
(* with OpenURI or failed after it had registered its filter.              *)
THEOREM MisdeliveryIsCaused ==
  ASSUME OneThread
  PROVE  Spec => []MisdeliveryHasCause
<1>1. Init => MisdeliveryInv
  BY DEF Init, MisdeliveryInv, InOrder, MisdeliveryHasCause, OnlyOwn, Queuing, InDialog,
         NotReturned, Nothing
<1>2. TypeOK /\ BegunInv /\ RunningInv /\ OnceInv /\ SilentInv /\ MisdeliveryInv /\ [Next]_vars
        => MisdeliveryInv'
  BY MisdeliveryNext
<1>3. MisdeliveryInv => MisdeliveryHasCause
  BY DEF MisdeliveryInv
<1>4. QED
  BY <1>1, <1>2, <1>3, TypeCorrect, BegunInvariant, RunningInvariant, OnceInvariant,
     SilentInvariant, PTL DEF Spec

-----------------------------------------------------------------------------
(* No failures: which filters the dispatcher may call late.                *)

LEMMA RemoveAtKeeps ==
  ASSUME NEW S, NEW s \in Seq(S), NEW k \in DOMAIN s, NEW j \in DOMAIN s, j # k
  PROVE  \E i \in DOMAIN RemoveAt(s, k) : RemoveAt(s, k)[i] = s[j]
<1>1. Len(s) \in Nat /\ k \in 1 .. Len(s) /\ j \in 1 .. Len(s)
  BY LenProperties
<1>2. /\ RemoveAt(s, k) \in Seq(S) /\ Len(RemoveAt(s, k)) = Len(s) - 1
      /\ \A i \in 1 .. (Len(s) - 1) : RemoveAt(s, k)[i] = IF i < k THEN s[i] ELSE s[i + 1]
  BY <1>1, RemoveAtProperties
<1>3. DOMAIN RemoveAt(s, k) = 1 .. (Len(s) - 1)
  BY <1>2, LenProperties
<1>4. CASE j < k
  <2>1. j \in 1 .. (Len(s) - 1) /\ RemoveAt(s, k)[j] = s[j]
    BY <1>1, <1>2, <1>4
  <2>2. QED
    BY <1>3, <2>1
<1>5. CASE j > k
  <2>1. j - 1 \in 1 .. (Len(s) - 1) /\ ~(j - 1 < k) /\ (j - 1) + 1 = j
    BY <1>1, <1>5
  <2>2. RemoveAt(s, k)[j - 1] = s[j]
    BY <1>2, <2>1
  <2>3. QED
    BY <1>3, <2>1, <2>2
<1>6. QED
  BY <1>1, <1>4, <1>5

LEMMA RemoveAtOthers ==
  ASSUME NEW S, NEW s \in Seq(S), NEW k \in DOMAIN s, NEW i \in DOMAIN RemoveAt(s, k)
  PROVE  \E j \in DOMAIN s : j # k /\ RemoveAt(s, k)[i] = s[j]
<1>1. Len(s) \in Nat /\ k \in 1 .. Len(s) /\ DOMAIN s = 1 .. Len(s)
  BY LenProperties
<1>2. /\ RemoveAt(s, k) \in Seq(S) /\ Len(RemoveAt(s, k)) = Len(s) - 1
      /\ \A j \in 1 .. (Len(s) - 1) : RemoveAt(s, k)[j] = IF j < k THEN s[j] ELSE s[j + 1]
  BY <1>1, RemoveAtProperties
<1>3. i \in 1 .. (Len(s) - 1)
  BY <1>2, LenProperties
<1>4. CASE i < k
  BY <1>1, <1>2, <1>3, <1>4
<1>5. CASE ~(i < k)
  <2>1. i + 1 \in DOMAIN s /\ i + 1 # k
    BY <1>1, <1>3, <1>5
  <2>2. QED
    BY <1>2, <1>3, <1>5, <2>1
<1>6. QED
  BY <1>4, <1>5

(* A filter on the connection belongs to the call that its frame is in.    *)
OwnedInv == \A k \in DOMAIN filters : cur[filters[k].slot[1]] = filters[k].call

LEMMA OkStays ==
  ASSUME TypeOK, BegunInv, RunningInv, [Next]_vars, NEW c \in Calls, outcome[c].status = "ok"
  PROVE  outcome'[c].status = "ok"
<1>1. ASSUME NEW d \in Calls, CallFails(d) PROVE outcome'[c] = outcome[c]
  <2>1. op[d] = NULL /\ outcome[d].status = "none"
    BY <1>1 DEF CallFails, BegunInv
  <2>2. QED
    BY <1>1, <2>1 DEF CallFails, TypeOK
<1>2. ASSUME NEW t \in Threads, NEW status, CallReturns(t, status) PROVE outcome'[c] = outcome[c]
  <2>1. cur[t] \in Calls /\ outcome[cur[t]].status = "none"
    BY <1>2, NullAssumption DEF CallReturns, RunningInv
  <2>2. QED
    BY <1>2, <2>1 DEF CallReturns, TypeOK
<1>3. QED
  BY <1>1, <1>2, StepKinds DEF CallBegins, CallsGoOn

(* A frame that is gone held no filter, or the one that its call removed.  *)
LEMMA OwnedNext ==
  ASSUME Faults = {}, TypeOK, NoFailure, BegunInv, RunningInv, FiltersAlive, OwnedInv, [Next]_vars
  PROVE  OwnedInv'
<1>1. \A k \in DOMAIN filters : /\ filters[k] \in Filters /\ filters[k].slot[1] \in Threads
                                /\ filters[k].slot = <<filters[k].slot[1], filters[k].slot[2]>>
                                /\ frame[filters[k].slot[1]] = filters[k].slot[2]
                                /\ frame[filters[k].slot[1]] # NULL
  <2>1. ASSUME NEW k \in DOMAIN filters PROVE filters[k] \in Filters
    BY DEF TypeOK
  <2>2. QED
    BY <2>1, NullAssumption DEF Filters, Slots, FiltersAlive, Alive
<1>2. ASSUME NEW t \in Threads, NEW c \in Calls, NEW o \in Ops \cap Dialogs, NEW f \in Frames,
             BeginDialog(t, c, o, f)
      PROVE  OwnedInv'
  <2> DEFINE new == [func |-> EntryPoint[o].func, slot |-> <<t, f>>, call |-> c]
  <2>1. filters' = Append(filters, new) /\ cur' = [cur EXCEPT ![t] = c] /\ frame[t] = NULL
    BY <1>2, CallerFinds DEF BeginDialog
  <2>2. new \in Filters /\ filters \in Seq(Filters)
    BY EntryPointType DEF Filters, Slots, Dialogs, TypeOK
  <2>3. new.slot[1] = t /\ new.call = c /\ cur'[t] = c
    BY <2>1 DEF TypeOK
  <2> HIDE DEF new
  <2>4. /\ Len(filters) \in Nat /\ Len(filters') = Len(filters) + 1
        /\ filters'[Len(filters) + 1] = new
        /\ \A k \in 1 .. Len(filters) : filters'[k] = filters[k]
        /\ DOMAIN filters' = 1 .. Len(filters') /\ DOMAIN filters = 1 .. Len(filters)
    BY <2>1, <2>2, AppendShape
  <2>5. ASSUME NEW k \in DOMAIN filters' PROVE cur'[filters'[k].slot[1]] = filters'[k].call
    <3>1. CASE k = Len(filters) + 1
      BY <2>3, <2>4, <3>1
    <3>2. CASE k \in DOMAIN filters
      <4>1. filters[k].slot[1] # t
        BY <1>1, <2>1, <3>2
      <4>2. cur'[filters[k].slot[1]] = cur[filters[k].slot[1]]
        BY <1>1, <2>1, <3>2, <4>1 DEF TypeOK
      <4>3. QED
        BY <2>4, <3>2, <4>2 DEF OwnedInv
    <3>3. QED
      BY <2>4, <3>1, <3>2
  <2>6. QED
    BY <2>5 DEF OwnedInv
<1>3. ASSUME NEW t \in Threads, ~InDialog(t), UNCHANGED filters,
             \E c \in Calls \cup {NULL} : cur' = [cur EXCEPT ![t] = c]
      PROVE  OwnedInv'
  <2>1. ASSUME NEW k \in DOMAIN filters PROVE cur'[filters[k].slot[1]] = cur[filters[k].slot[1]]
    BY <1>1, <1>3 DEF InDialog, TypeOK
  <2>2. QED
    BY <1>3, <2>1 DEF OwnedInv
<1>4. ASSUME NEW t \in Threads, NEW k \in DOMAIN filters, FinishDialog(t, k)
      PROVE  OwnedInv'
  <2>1. /\ filters' = RemoveAt(filters, k) /\ filters[k].slot = SlotOf(t)
        /\ cur' = [cur EXCEPT ![t] = NULL]
    BY <1>4 DEF FinishDialog, Unregister, Matches, Return
  <2>2. ASSUME NEW i \in DOMAIN filters'
        PROVE  \E j \in DOMAIN filters : j # k /\ filters'[i] = filters[j]
    BY <2>1, <2>2, RemoveAtOthers DEF TypeOK
  <2>3. ASSUME NEW j \in DOMAIN filters, j # k
        PROVE  cur'[filters[j].slot[1]] = filters[j].call
    <3>1. filters[j].slot[1] # t
      BY <1>1, <2>1, <2>3 DEF FiltersAlive, SlotOf
    <3>2. QED
      BY <1>1, <2>1, <2>3, <3>1 DEF OwnedInv, TypeOK
  <2>4. QED
    BY <2>2, <2>3 DEF OwnedInv
<1>5. CASE CallsGoOn /\ UNCHANGED <<filters, op>>
  BY <1>5 DEF CallsGoOn, OwnedInv
<1>6. ASSUME NEW c \in Calls, CallFails(c) /\ UNCHANGED filters
      PROVE  OwnedInv'
  BY <1>6 DEF CallFails, OwnedInv
<1>7. ASSUME NEW t \in Threads, NEW c \in Calls, BeginNative(t, c)
      PROVE  OwnedInv'
  <2>1. frame[t] = NULL
    BY <1>7, CallerFinds DEF BeginNative
  <2>2. QED
    BY <1>3, <1>7, <2>1 DEF BeginNative, InDialog
<1>8. \A t \in Threads : ~SendFails(t)
  BY SendFailsNever
<1>9. ASSUME NEW t \in Threads, ~InDialog(t), CallReturns(t, "ok"), UNCHANGED filters
      PROVE  OwnedInv'
  BY <1>3, <1>9 DEF CallReturns
<1>10. QED
  BY <1>2, <1>4, <1>5, <1>6, <1>7, <1>8, <1>9, StepKinds

(* A dispatcher starts with the filters of the connection, and its copy    *)
(* gets shorter from then on.                                              *)
LEMMA WalkStep ==
  ASSUME TypeOK, [Next]_vars, NEW t \in Threads, pc'[t] \in {"walk", "filter"}
  PROVE  \/ walk' = filters /\ UNCHANGED filters
         \/ pc[t] \in {"walk", "filter"} /\ \A k \in DOMAIN walk' : walk'[k] \in Range(walk)
<1>1. \A k \in DOMAIN walk : walk[k] \in Range(walk)
  BY DEF Range
<1>2. walk # <<>> => \A k \in DOMAIN Tail(walk) : Tail(walk)[k] \in Range(walk)
  <2>1. SUFFICES ASSUME walk # <<>>, NEW k \in DOMAIN Tail(walk)
                 PROVE  Tail(walk)[k] \in Range(walk)
    OBVIOUS
  <2>2. walk \in Seq(Filters)
    BY DEF TypeOK
  <2>3. k + 1 \in DOMAIN walk /\ Tail(walk)[k] = walk[k + 1]
    BY <2>1, <2>2
  <2>4. QED
    BY <2>3 DEF Range
<1>3. ASSUME NEW u \in Threads, Caller(u)
      PROVE  UNCHANGED walk /\ pc[t] \in {"walk", "filter"}
  <2>1. UNCHANGED walk /\ (UNCHANGED pc \/ pc' = [pc EXCEPT ![u] = "send"])
    BY <1>3 DEF Caller, BeginDialog, BeginNative, BeginFails, Goto, connVars, threadVars
  <2>2. QED
    BY <2>1 DEF TypeOK
<1>4. ASSUME NEW u \in Threads,
             \/ Send(u) \/ Reply(u) \/ SendFails(u) \/ EnterReadWriteDispatch(u)
             \/ PollReturns(u) \/ DispatchNothing(u) \/ DispatchOther(u) \/ DropResponse(u)
             \/ WriteContext(u) \/ \E k \in DOMAIN filters : FinishDialog(u, k)
      PROVE  UNCHANGED walk /\ pc[t] \in {"walk", "filter"}
  <2>1. /\ UNCHANGED walk
        /\ \/ UNCHANGED pc
           \/ \E l \in {"reply", "wait", "idle", "dispatch", "poll"} : pc' = [pc EXCEPT ![u] = l]
    BY <1>4 DEF Send, Reply, SendFails, EnterReadWriteDispatch, PollReturns, DispatchNothing,
                DispatchOther, DropResponse, WriteContext, FinishDialog, Return, Goto, connVars
  <2>2. QED
    BY <2>1 DEF TypeOK
<1>5. ASSUME NEW u \in Threads, DispatchResponse(u)
      PROVE  walk' = filters /\ UNCHANGED filters
  BY <1>5 DEF DispatchResponse
<1>6. ASSUME NEW u \in Threads, SkipRemoved(u) \/ CallFilter(u) \/ FilterPasses(u)
      PROVE  /\ pc[t] \in {"walk", "filter"}
             /\ UNCHANGED walk \/ (walk # <<>> /\ walk' = Tail(walk))
  <2>1. pc[u] \in {"walk", "filter"} /\ (u = t \/ pc'[t] = pc[t])
    BY <1>6 DEF SkipRemoved, CallFilter, FilterPasses, Goto, threadVars, TypeOK
  <2>2. UNCHANGED walk \/ walk' = Tail(walk)
    BY <1>6 DEF SkipRemoved, CallFilter, FilterPasses, connVars
  <2>3. walk # <<>>
    BY <1>6 DEF SkipRemoved, CallFilter, FilterPasses, TypeOK
  <2>4. QED
    BY <2>1, <2>2, <2>3
<1>7. ASSUME NEW u \in Threads, InvokeFilter(u)
      PROVE  walk' = <<>> /\ pc[t] \in {"walk", "filter"}
  BY <1>7 DEF InvokeFilter, Goto, TypeOK
<1>8. CASE Environment \/ UNCHANGED vars
  BY <1>1, <1>8 DEF Environment, PortalAccepts, PortalRefuses, UserAnswers, Disconnect,
                    vars, connVars, threadVars
<1>9. DOMAIN <<>> = {}
  OBVIOUS
<1>10. QED
  BY <1>1, <1>2, <1>3, <1>4, <1>5, <1>6, <1>7, <1>8, <1>9 DEF Next, ThreadStep

(* A filter leaves the connection as its call returns its answer.          *)
LEMMA RemovalStep ==
  ASSUME Faults = {}, TypeOK, NoFailure, BegunInv, RunningInv, OwnedInv, [Next]_vars,
         NEW f \in Range(filters), f \notin Range(filters')
  PROVE  /\ outcome'[f.call].status = "ok"
         /\ pc'[f.slot[1]] = "idle"
<1>1. PICK j \in DOMAIN filters : f = filters[j]
  BY DEF Range
<1>2. ASSUME UNCHANGED filters PROVE FALSE
  BY <1>2
<1>3. ASSUME NEW new \in Filters, filters' = Append(filters, new) PROVE FALSE
  <2>1. /\ Len(filters) \in Nat /\ Len(filters') = Len(filters) + 1
        /\ \A k \in 1 .. Len(filters) : filters'[k] = filters[k]
        /\ DOMAIN filters' = 1 .. Len(filters') /\ DOMAIN filters = 1 .. Len(filters)
    BY <1>3, AppendShape DEF TypeOK
  <2>2. j \in DOMAIN filters' /\ filters'[j] = f
    BY <1>1, <2>1
  <2>3. QED
    BY <2>2 DEF Range
<1>4. ASSUME NEW t \in Threads, NEW k \in DOMAIN filters, FinishDialog(t, k), CallReturns(t, "ok")
      PROVE  outcome'[f.call].status = "ok" /\ pc'[f.slot[1]] = "idle"
  <2>1. /\ filters' = RemoveAt(filters, k) /\ filters[k].slot = SlotOf(t)
        /\ pc' = [pc EXCEPT ![t] = "idle"]
    BY <1>4 DEF FinishDialog, Unregister, Matches, Return, Goto
  <2>2. j = k
    <3>1. SUFFICES ASSUME j # k PROVE FALSE
      OBVIOUS
    <3>2. \E i \in DOMAIN filters' : filters'[i] = f
      BY <1>1, <2>1, <3>1, RemoveAtKeeps DEF TypeOK
    <3>3. QED
      BY <3>2 DEF Range
  <2>3. f.slot[1] = t /\ f.call = cur[t]
    BY <1>1, <2>1, <2>2 DEF OwnedInv, SlotOf
  <2>4. outcome'[cur[t]].status = "ok"
    BY <1>4 DEF CallReturns, TypeOK
  <2>5. QED
    BY <2>1, <2>3, <2>4 DEF TypeOK
<1>5. ASSUME NEW t \in Threads, NEW c \in Calls, NEW o \in Ops \cap Dialogs, NEW g \in Frames,
             BeginDialog(t, c, o, g)
      PROVE  FALSE
  <2>1. [func |-> EntryPoint[o].func, slot |-> <<t, g>>, call |-> c] \in Filters
    BY EntryPointType DEF Filters, Slots, Dialogs
  <2>2. QED
    BY <1>3, <1>5, <2>1 DEF BeginDialog
<1>6. \A t \in Threads : ~SendFails(t)
  BY SendFailsNever
<1>7. QED
  BY <1>2, <1>4, <1>5, <1>6, StepKinds

LEMMA RemovedNext ==
  ASSUME Faults = {}, TypeOK, NoFailure, BegunInv, RunningInv, OwnedInv, RemovedAreAnswered,
         [Next]_vars
  PROVE  RemovedAreAnswered'
<1> SUFFICES ASSUME NEW t \in Threads, NEW k \in DOMAIN walk', pc'[t] \in {"walk", "filter"},
                    walk'[k] \notin Range(filters')
             PROVE  walk'[k].slot[1] # t /\ outcome'[walk'[k].call].status = "ok"
  BY DEF RemovedAreAnswered, Removed
<1>1. ~(walk' = filters /\ UNCHANGED filters)
  BY DEF Range
<1>2. pc[t] \in {"walk", "filter"} /\ walk'[k] \in Range(walk)
  BY <1>1, WalkStep
<1>3. PICK j \in DOMAIN walk : walk'[k] = walk[j]
  BY <1>2 DEF Range
<1>4. CASE walk[j] \in Range(filters)
  BY <1>3, <1>4, RemovalStep
<1>5. CASE walk[j] \notin Range(filters)
  <2>1. walk[j].slot[1] # t /\ outcome[walk[j].call].status = "ok"
    BY <1>2, <1>5 DEF RemovedAreAnswered, Removed
  <2>2. walk[j].call \in Calls
    <3>1. walk[j] \in Filters
      BY DEF TypeOK
    <3>2. QED
      BY <3>1 DEF Filters
  <2>3. QED
    BY <1>3, <2>1, <2>2, OkStays
<1>6. QED
  BY <1>4, <1>5

(* Without failures, and with any number of threads, a filter on the       *)
(* connection points to the live context of its own call; only a copy of   *)
(* the filters that another thread made before the call removed its filter *)
(* and returned its answer can still lead into a dead frame.               *)
THEOREM NoFilterDangles ==
  ASSUME Faults = {}
  PROVE  Spec => []NoDanglingFilter
<1>1. Init => OwnedInv /\ RemovedAreAnswered
  BY DEF Init, OwnedInv, RemovedAreAnswered
<1>2. TypeOK /\ NoFailure /\ BegunInv /\ RunningInv /\ FiltersAlive /\ OwnedInv
        /\ RemovedAreAnswered /\ [Next]_vars
      => OwnedInv' /\ RemovedAreAnswered'
  BY OwnedNext, RemovedNext
<1>3. Spec => [](FiltersAlive /\ RemovedAreAnswered)
  BY <1>1, <1>2, TypeCorrect, NoFailureInvariant, BegunInvariant, RunningInvariant,
     FiltersStayAlive, PTL DEF Spec
<1>4. QED
  BY <1>3 DEF NoDanglingFilter
-----------------------------------------------------------------------------
(* No failures: a result is stored once.                                   *)

(* filter_func_multi stores its files after it has set completed, when the *)
(* call may be gone: what it finds completed then is still its own.        *)
LateInv ==
  ~strayWrite /\ InCallback /\ callback.todo = <<"value">> /\ Alive(callback.slot)
    /\ filterContext[callback.slot].completed
    => Waits(callback.slot, callback.func)

LEMMA LateSame ==
  ASSUME TypeOK, BegunInv, LateInv, Next, strayWrite => strayWrite',
         UNCHANGED callback, InCallback' => InCallback,
         InCallback /\ Alive(callback.slot)' /\ filterContext'[callback.slot].completed =>
           /\ Alive(callback.slot) /\ filterContext[callback.slot].completed
           /\ cur'[callback.slot[1]] = cur[callback.slot[1]]
  PROVE  LateInv'
<1> SUFFICES ASSUME ~strayWrite', InCallback', callback.todo = <<"value">>,
                    Alive(callback.slot)', filterContext'[callback.slot].completed
             PROVE  Waits(callback.slot, callback.func)'
  BY DEF LateInv, Alive
<1> DEFINE u == callback.slot[1]
<1>1. callback.slot \in Slots /\ Alive(callback.slot) /\ filterContext[callback.slot].completed
      /\ cur'[u] = cur[u] /\ InCallback
  BY DEF InCallback, TypeOK, Callbacks
<1>2. cur[u] \in Calls /\ op[cur[u]] # NULL
  BY <1>1, SlotShape DEF BegunInv
<1>3. Waits(callback.slot, callback.func)
  BY <1>1 DEF LateInv
<1>4. op'[cur[u]] = op[cur[u]]
  BY <1>2, FuncFinal
<1>5. QED
  BY <1>1, <1>3, <1>4 DEF Waits, Func

LEMMA LateCaller ==
  ASSUME TypeOK, BegunInv, LateInv, Next, strayWrite => strayWrite',
         NEW t \in Threads, Caller(t)
  PROVE  LateInv'
<1>1. InCallback => callback.slot \in Slots
  BY DEF InCallback, TypeOK, Callbacks
<1>2. ASSUME NEW c \in Calls, NEW o \in Ops \cap Dialogs, NEW f \in Frames,
             BeginDialog(t, c, o, f)
      PROVE  LateInv'
  <2>1. /\ pc' = [pc EXCEPT ![t] = "send"] /\ UNCHANGED callback
        /\ cur' = [cur EXCEPT ![t] = c] /\ frame' = [frame EXCEPT ![t] = f]
        /\ filterContext' = [filterContext EXCEPT ![<<t, f>>] = EmptyContext]
        /\ <<t, f>> \in Slots
    BY <1>2 DEF BeginDialog, ZeroContext, Goto, Slots
  <2>2. InCallback' => InCallback
    BY <2>1 DEF InCallback, TypeOK
  <2>3. ~filterContext'[<<t, f>>].completed
    BY <2>1 DEF EmptyContext, TypeOK
  <2>4. ASSUME NEW s \in Slots, Alive(s)', filterContext'[s].completed
        PROVE  Alive(s) /\ filterContext[s].completed /\ cur'[s[1]] = cur[s[1]]
    <3>1. PICK u \in Threads, g \in Frames : s = <<u, g>>
      BY DEF Slots
    <3>2. u # t
      BY <2>1, <2>3, <2>4, <3>1 DEF Alive, TypeOK
    <3>3. QED
      BY <2>1, <2>4, <3>1, <3>2 DEF Alive, TypeOK
  <2>5. QED
    BY <1>1, <2>1, <2>2, <2>4, LateSame
<1>3. ASSUME NEW c \in Calls, BeginNative(t, c)
      PROVE  LateInv'
  <2>1. /\ pc' = [pc EXCEPT ![t] = "send"] /\ UNCHANGED <<callback, frame, filterContext>>
        /\ cur' = [cur EXCEPT ![t] = c] /\ pc[t] = "idle"
    BY <1>3 DEF BeginNative, Goto, Calling
  <2>2. InCallback' => InCallback
    BY <2>1 DEF InCallback, TypeOK
  <2>3. ASSUME NEW s \in Slots, Alive(s)'
        PROVE  Alive(s) /\ cur'[s[1]] = cur[s[1]]
    <3>1. Alive(s) /\ s[1] # t
      BY <2>1, <2>3, SlotShape DEF Alive
    <3>2. s[1] \in Threads
      BY DEF Slots
    <3>3. QED
      BY <2>1, <3>1, <3>2 DEF TypeOK
  <2>4. QED
    BY <1>1, <2>1, <2>2, <2>3, LateSame
<1>4. ASSUME NEW c \in Calls, NEW o \in Ops, BeginFails(t, c, o)
      PROVE  LateInv'
  <2>1. UNCHANGED <<callback, frame, filterContext, cur, pc>>
    BY <1>4 DEF BeginFails, threadVars, connVars
  <2>2. QED
    BY <2>1, LateSame DEF InCallback, Alive
<1>5. QED
  BY <1>2, <1>3, <1>4 DEF Caller

LEMMA LateThreadStep ==
  ASSUME TypeOK, BegunInv, OnceInv, PathInv, LateInv, Next, strayWrite => strayWrite',
         NEW t \in Threads, ThreadStep(t)
  PROVE  LateInv'
<1>1. InCallback => callback.slot \in Slots
  BY DEF InCallback, TypeOK, Callbacks
<1>2. CASE \/ Send(t) \/ (Reply(t) /\ InDialog(t)) \/ EnterReadWriteDispatch(t)
           \/ PollReturns(t) \/ DispatchNothing(t) \/ DispatchOther(t) \/ DropResponse(t)
           \/ Walks(t)
  <2>1. /\ UNCHANGED <<callback, frame, filterContext, cur>>
        /\ \E l \in {"reply", "wait", "poll", "dispatch", "walk", "filter"} :
             pc' = [pc EXCEPT ![t] = l]
    BY <1>2, WalkGoesOn DEF Send, Reply, EnterReadWriteDispatch, PollReturns, DispatchNothing,
           DispatchOther, DropResponse, Goto, connVars
  <2>2. InCallback' => InCallback
    BY <2>1 DEF InCallback, TypeOK
  <2>3. QED
    BY <2>1, <2>2, LateSame DEF Alive
<1>3. ASSUME \E status, value : Return(t, status, value), UNCHANGED <<callback, filterContext>>
      PROVE  LateInv'
  <2>1. /\ pc' = [pc EXCEPT ![t] = "idle"] /\ cur' = [cur EXCEPT ![t] = NULL]
        /\ frame' = [frame EXCEPT ![t] = NULL]
    BY <1>3 DEF Return, Goto
  <2>2. InCallback' => InCallback
    BY <2>1 DEF InCallback, TypeOK
  <2>3. ASSUME NEW s \in Slots, Alive(s)'
        PROVE  Alive(s) /\ cur'[s[1]] = cur[s[1]]
    <3>1. PICK u \in Threads, g \in Frames : s = <<u, g>>
      BY DEF Slots
    <3>2. u # t
      BY <2>1, <2>3, <3>1 DEF Alive, TypeOK
    <3>3. QED
      BY <2>1, <2>3, <3>1, <3>2 DEF Alive, TypeOK
  <2>4. QED
    BY <1>1, <1>3, <2>2, <2>3, LateSame
<1>4. CASE SendFails(t) \/ (Reply(t) /\ ~InDialog(t)) \/ \E k \in DOMAIN filters : FinishDialog(t, k)
  BY <1>3, <1>4 DEF SendFails, Reply, FinishDialog, connVars
<1>5. CASE InvokeFilter(t)
  <2>1. callback'.todo = Publishes(Head(walk).func)
    BY <1>5 DEF InvokeFilter
  <2>2. callback'.todo # <<"value">>
    BY <2>1 DEF Publishes
  <2>3. QED
    BY <2>2 DEF LateInv
<1>6. CASE WriteContext(t)
  <2>1. /\ UNCHANGED <<frame, cur, op>> /\ InCallback
    BY <1>6 DEF WriteContext, callVars, InCallback
  <2>2. callback.todo \in Todos
    BY <2>1 DEF OnceInv
  <2>3. ASSUME ~strayWrite', InCallback', callback'.todo = <<"value">>
        PROVE  Waits(callback.slot, callback.func)'
    <3>1. /\ Len(callback.todo) > 1 /\ callback'.todo = Tail(callback.todo)
          /\ callback'.slot = callback.slot /\ callback'.func = callback.func
      BY <1>6, <2>2, <2>3, WriteContextStep
    <3>2. callback.todo # <<"value">>
      <4>1. Len(callback.todo) > 1
        BY <3>1
      <4>2. \A todo : todo = <<"value">> => ~(Len(todo) > 1)
        OBVIOUS
      <4>3. QED
        BY <4>1, <4>2
    <3>3. Waits(callback.slot, callback.func)
      BY <2>1, <2>3, <3>2 DEF PathInv, PathInCallback
    <3>4. QED
      BY <2>1, <3>1, <3>3 DEF Waits, Func
  <2>4. QED
    BY <2>3 DEF LateInv
<1>7. QED
  BY <1>2, <1>4, <1>5, <1>6 DEF ThreadStep, Walks

LEMMA LateInvariant ==
  ASSUME Faults = {}
  PROVE  Spec => []LateInv
<1>1. Init => LateInv
  BY DEF Init, LateInv, InCallback
<1>2. ASSUME TypeOK, BegunInv, OnceInv, PathInv, LateInv, [Next]_vars
      PROVE  LateInv'
  <2> strayWrite => strayWrite'
    BY <1>2, StrayWriteStays
  <2>1. CASE Next /\ Environment
    <3>1. UNCHANGED <<callback, frame, filterContext, cur, pc>>
      BY <2>1 DEF Environment, PortalAccepts, PortalRefuses, UserAnswers, Disconnect,
                  connVars, threadVars
    <3>2. QED
      BY <1>2, <2>1, <3>1, LateSame DEF InCallback, Alive
  <2>2. CASE UNCHANGED vars
    BY <1>2, <2>2 DEF vars, connVars, threadVars, callVars, LateInv, InCallback, Alive, Waits, Func
  <2>3. QED
    BY <1>2, <2>1, <2>2, LateCaller, LateThreadStep DEF Next
<1>3. QED
  BY <1>1, <1>2, TypeCorrect, BegunInvariant, OnceInvariant, PathInvariant, PTL DEF Spec

(* While a call runs, the value of its completed filter_func context does  *)
(* not change, whatever else arrives and whichever thread dispatches it,   *)
(* unless a filter writes to a context that is not its own.                *)
THEOREM ResultStoredOnce ==
  ASSUME Faults = {}
  PROVE  Spec => StoredOnce
<1> DEFINE Once == \A t \in Threads :
                     /\ ~strayWrite'
                     /\ InDialog(t) /\ cur'[t] = cur[t]
                     /\ filterContext[SlotOf(t)].completed
                     /\ Func(cur[t]) = "filter_func"
                     => filterContext'[SlotOf(t)] = filterContext[SlotOf(t)]
<1>1. ASSUME TypeOK, OnceInv, PathInv, LateInv, [Next]_vars, NEW t \in Threads,
             ~strayWrite', InDialog(t), filterContext[SlotOf(t)].completed,
             Func(cur[t]) = "filter_func"
      PROVE  filterContext'[SlotOf(t)] = filterContext[SlotOf(t)]
  <2> ~strayWrite
    BY <1>1, StrayWriteStays
  <2>1. SlotOf(t) \in Slots /\ Alive(SlotOf(t)) /\ SlotOf(t)[1] = t
    BY <1>1 DEF SlotOf, Slots, InDialog, Alive, TypeOK
  <2>2. ASSUME NEW u \in Threads, WriteContext(u)
        PROVE  filterContext'[SlotOf(t)] = filterContext[SlotOf(t)]
    <3>1. InCallback /\ callback.todo \in Todos
      BY <1>1, <2>2 DEF WriteContext, InCallback, OnceInv
    <3>2. callback.slot # SlotOf(t)
      <4>1. SUFFICES ASSUME callback.slot = SlotOf(t) PROVE FALSE
        OBVIOUS
      <4>2. callback.todo = <<"value">>
        BY <1>1, <3>1, <4>1 DEF PathInv, PathInCallback
      <4>3. callback.func = "filter_func"
        BY <1>1, <2>1, <3>1, <4>1, <4>2 DEF LateInv, Waits
      <4>4. callback.todo \in {<<"value", "completed">>, <<"completed">>}
        BY <1>1, <3>1, <4>3 DEF PathInv, PathInCallback
      <4>5. QED
        BY <4>2, <4>4
    <3>3. QED
      BY <1>1, <2>1, <2>2, <3>1, <3>2, WriteContextStep
  <2>3. ASSUME NEW u \in Threads, Caller(u)
        PROVE  filterContext'[SlotOf(t)] = filterContext[SlotOf(t)]
    <3>1. \/ UNCHANGED filterContext
          \/ \E c \in Calls, f \in Frames :
               Calling(u, c) /\ filterContext' = [filterContext EXCEPT ![<<u, f>>] = EmptyContext]
      BY <2>3 DEF Caller, BeginDialog, BeginNative, BeginFails, ZeroContext, threadVars
    <3>2. ASSUME NEW c \in Calls, NEW f \in Frames, Calling(u, c),
                 filterContext' = [filterContext EXCEPT ![<<u, f>>] = EmptyContext]
          PROVE  filterContext'[SlotOf(t)] = filterContext[SlotOf(t)]
      <4>1. frame[u] = NULL
        BY <1>1, <3>2, CallerFinds
      <4>2. <<u, f>> # SlotOf(t)
        BY <1>1, <4>1 DEF SlotOf, InDialog
      <4>3. QED
        BY <1>1, <2>1, <3>2, <4>2 DEF TypeOK
    <3>3. QED
      BY <3>1, <3>2
  <2>4. ASSUME NEW u \in Threads, ThreadStep(u), ~WriteContext(u)
        PROVE  UNCHANGED filterContext
  <3>1. Walks(u) => UNCHANGED filterContext
    BY <1>1, WalkGoesOn
  <3>2. QED
    BY <2>4, <3>1 DEF ThreadStep, Walks, Send, Reply, SendFails, EnterReadWriteDispatch,
           PollReturns, DispatchNothing, DispatchOther, InvokeFilter, DropResponse, FinishDialog
  <2>5. CASE Environment \/ UNCHANGED vars
    BY <2>5 DEF Environment, PortalAccepts, PortalRefuses, UserAnswers, Disconnect,
                vars, threadVars
  <2>6. QED
    BY <1>1, <2>2, <2>3, <2>4, <2>5 DEF Next
<1>2. TypeOK /\ OnceInv /\ PathInv /\ LateInv /\ [Next]_vars => [Once]_vars
  BY <1>1
<1>3. Spec => [][Once]_vars
  BY <1>2, TypeCorrect, OnceInvariant, PathInvariant, LateInvariant, PTL DEF Spec
<1>4. QED
  BY <1>3 DEF StoredOnce

=============================================================================
