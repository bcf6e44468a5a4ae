--------------------------- MODULE ContextProofs ---------------------------
(***************************************************************************)
(* Theorems about Context, for any number of calls, requests, listeners    *)
(* and registry slots.                                                     *)
(***************************************************************************)
EXTENDS Context, HandlersProofs

Words == {"error", "value", "failure"}

(***************************************************************************)
(* What Append does to a typed sequence.                                   *)
(***************************************************************************)
LEMMA AppendTyped ==
    ASSUME NEW s \in Seq(Words), NEW w \in Words
    PROVE  Append(s, w) \in Seq(Words) /\ Len(Append(s, w)) = Len(s) + 1
  OBVIOUS

(***************************************************************************)
(* Hear keeps the record of what callbacks heard well typed.               *)
(***************************************************************************)
LEMMA HearTyped ==
    ASSUME TypeOK, NEW c \in Call, NEW w \in Words, Hear(c, w)
    PROVE  heard' \in [Call -> Seq(Words)]
  BY AppendTyped DEF TypeOK, Hear, Words

(***************************************************************************)
(* Type correctness, one action at a time.                                 *)
(***************************************************************************)
LEMMA TypeInit == Init => TypeOK
  <1> SUFFICES ASSUME Init PROVE TypeOK
    OBVIOUS
  <1>1. CallbackTypeOK
    BY DataAssumption DEF Init, context_new, CallbackTypeOK
  <1>2. heard \in [Call -> Seq(Words)]
    BY DEF Init, context_new
  <1> QED
    BY <1>1, <1>2 DEF Init, context_new, TypeOK, ConnState, Words

(***************************************************************************)
(* Both ways out of prepare_lua_callback keep the registry well typed.     *)
(***************************************************************************)
LEMMA PrepareTyped ==
    ASSUME CallbackTypeOK, NEW d \in Data,
           prepare_lua_callback(d) \/ prepare_lua_callback_raises(d)
    PROVE  CallbackTypeOK'
  BY DEF CallbackTypeOK, prepare_lua_callback, prepare_lua_callback_raises, luaL_ref

(***************************************************************************)
(* free_lua_callback keeps the registry well typed.                        *)
(***************************************************************************)
LEMMA FreeTyped ==
    ASSUME CallbackTypeOK, NEW D \in SUBSET Data, free_lua_callback(D)
    PROVE  CallbackTypeOK'
  BY DEF CallbackTypeOK, free_lua_callback

(***************************************************************************)
(* A method call keeps the types, whichever way its handler leaves.        *)
(***************************************************************************)
LEMMA InvokeTyped ==
    ASSUME TypeOK, NEW c \in Call, NEW q \in Request, Invoke(c, q)
    PROVE  TypeOK'
  <1> DEFINE exit == Exit(q.method, q.args, conn = "ready")
  <1>1. c \in Data /\ q.method \in Method /\ q.args \in [1..4 -> Value]
    BY DataAssumption, RequestAssumption
  <1>2. CallbackTypeOK'
    BY <1>1, PrepareTyped DEF Invoke, TypeOK, CallbackTypeOK, callbackVars
  <1>3. reply' \in [Call -> {"none", "ack", "list", "single", "server"}]
    <2>1. CASE exit = "submitted"
      <3>1. ReplyTo(q.method, q.args) \in Replies
        BY <1>1, <2>1, AnswerTyped
      <3> QED
        BY <2>1, <3>1 DEF Invoke, TypeOK, Replies
    <2>2. CASE exit # "submitted"
      BY <2>2 DEF Invoke, TypeOK
    <2> QED
      BY <2>1, <2>2
  <1>4. heard' \in [Call -> Seq(Words)]
    BY HearTyped DEF Invoke, Report, TypeOK, Words
  <1>5. status' \in [Call -> {"idle", "raised", "reported", "pending", "running", "done", "cancelled"}]
    BY DEF Invoke, Report, TypeOK
  <1> QED
    BY <1>2, <1>3, <1>4, <1>5 DEF Invoke, TypeOK, connVars, Words

(***************************************************************************)
(* Connecting, disconnecting and the events of the socket keep the types.  *)
(***************************************************************************)
LEMMA ConnectionTyped ==
    ASSUME TypeOK,
           \/ \E f \in StateFn, how \in How : context_connect(f, how)
           \/ context_disconnect
           \/ Dialled
           \/ DaemonAppears
           \/ Welcomed
           \/ ConnectionLost
    PROVE  TypeOK'
  <1>1. ASSUME NEW f \in StateFn, NEW how \in How, context_connect(f, how) PROVE TypeOK'
    BY <1>1 DEF context_connect, pa_context_connect, context_state_callback, TypeOK,
                CallbackTypeOK,
                callVars, callbackVars, ConnState, Good, End
  <1>2. CASE context_disconnect
    BY <1>2 DEF context_disconnect, context_state_callback, TypeOK, CallbackTypeOK,
                callVars, callbackVars, ConnState, Good, End
  <1>3. CASE Dialled
    BY <1>3 DEF Dialled, Untold, SetState, context_state_callback, TypeOK, CallbackTypeOK,
                callVars, callbackVars, ConnState, Good, End
  <1>4. CASE DaemonAppears
    BY <1>4 DEF DaemonAppears, Untold, TypeOK, CallbackTypeOK, callVars, callbackVars
  <1>5. CASE Welcomed
    BY <1>5 DEF Welcomed, Untold, SetState, context_state_callback, TypeOK, CallbackTypeOK,
                callVars, callbackVars, ConnState, Good, End
  <1>6. CASE ConnectionLost
    BY <1>6 DEF ConnectionLost, SetState, context_state_callback, TypeOK, CallbackTypeOK,
                callVars, callbackVars, ConnState, Good, End
  <1> QED
    BY <1>1, <1>2, <1>3, <1>4, <1>5, <1>6

(***************************************************************************)
(* The return of a state callback keeps the types.                         *)
(***************************************************************************)
LEMMA StateReturnTyped == TypeOK /\ StateReturn => TypeOK'
  <1> SUFFICES ASSUME TypeOK, StateReturn PROVE TypeOK'
    OBVIOUS
  <1>1. status' \in [Call -> {"idle", "raised", "reported", "pending", "running", "done", "cancelled"}]
    BY DEF StateReturn, Cancelled, TypeOK
  <1>2. /\ conn' \in ConnState
        /\ wire' \in {"down", "dialing", "waiting", "greeting", "up"}
        /\ {told', announcing'} \subseteq ConnState \cup {"none"}
        /\ hearer' \in StateFn \cup {Nil}
        /\ {displaced', inCall'} \subseteq BOOLEAN
    BY DEF StateReturn, context_state_callback, TypeOK, ConnState, End
  <1> QED
    BY <1>1, <1>2 DEF StateReturn, TypeOK, CallbackTypeOK, callbackVars

(***************************************************************************)
(* An answer keeps the types, a crash in its callback included.            *)
(***************************************************************************)
LEMMA AnswerActionTyped ==
    ASSUME TypeOK, NEW c \in Call, Answer(c)
    PROVE  TypeOK'
  <1>1. ASSUME NEW result \in {"ok", "error"}, NEW word \in Words, Answered(c, result, word)
        PROVE  TypeOK'
    BY <1>1, HearTyped DEF Answered, TypeOK, CallbackTypeOK, connVars, callbackVars, Words
  <1>2. ASSUME Crashed(c) PROVE TypeOK'
    BY <1>2 DEF Crashed, TypeOK, CallbackTypeOK, connVars, callbackVars
  <1>3. CASE success_callback(c)
    BY <1>1, <1>3 DEF success_callback, Words
  <1>4. CASE info_callback_list(c)
    BY <1>1, <1>4 DEF info_callback_list, Words
  <1>5. CASE info_callback_single(c)
    <2>1. ASSUME Hear(c, "error"), verdict' = [verdict EXCEPT ![c] = "ok"], answering' = c,
                 UNCHANGED <<status, reply, connVars, callbackVars, gone, fate>>
          PROVE  TypeOK'
      <3>1. heard' \in [Call -> Seq(Words)]
        BY <2>1, HearTyped DEF Words
      <3> QED
        BY <2>1, <3>1 DEF TypeOK, CallbackTypeOK, connVars, callbackVars, Words
    <2> QED
      BY <1>2, <1>5, <2>1 DEF info_callback_single
  <1>6. CASE server_info_callback(c)
    BY <1>1, <1>2, <1>6 DEF server_info_callback, Words
  <1> QED
    BY <1>3, <1>4, <1>5, <1>6 DEF Answer

(***************************************************************************)
(* The return of an answer's callback keeps the types.                     *)
(***************************************************************************)
LEMMA AnswerReturnTyped == TypeOK /\ AnswerReturn => TypeOK'
  <1> SUFFICES ASSUME TypeOK, AnswerReturn PROVE TypeOK'
    OBVIOUS
  <1>1. CallbackTypeOK'
    <2>1. answering \in Data
      BY DataAssumption DEF AnswerReturn, TypeOK
    <2> QED
      BY <2>1, FreeTyped DEF AnswerReturn, TypeOK, CallbackTypeOK, callbackVars
  <1>2. status' \in [Call -> {"idle", "raised", "reported", "pending", "running", "done", "cancelled"}]
    BY DEF AnswerReturn, Cancelled, TypeOK
  <1> QED
    BY <1>1, <1>2 DEF AnswerReturn, TypeOK

(***************************************************************************)
(* Collecting the Context keeps the types.                                 *)
(***************************************************************************)
LEMMA CollectTyped == TypeOK /\ context__gc => TypeOK'
  <1> SUFFICES ASSUME TypeOK, context__gc PROVE TypeOK'
    OBVIOUS
  <1>1. CallbackTypeOK'
    BY DataAssumption, FreeTyped DEF context__gc, TypeOK
  <1> QED
    BY <1>1 DEF context__gc, Cancelled, TypeOK

(***************************************************************************)
(* What another Context does in the registry keeps the types.              *)
(***************************************************************************)
LEMMA OtherTyped ==
    ASSUME TypeOK, NEW d \in Stranger, OtherContext(d)
    PROVE  TypeOK'
  <1>1. d \in Data /\ {d} \in SUBSET Data
    BY DataAssumption
  <1>2. CallbackTypeOK'
    BY <1>1, PrepareTyped, FreeTyped DEF OtherContext, TypeOK
  <1> QED
    BY <1>2 DEF OtherContext, TypeOK, connVars, callVars

-----------------------------------------------------------------------------
(***************************************************************************)
(* The inductive invariant.  Frames says which states, transports and      *)
(* half finished state callbacks go together: a transport exists only      *)
(* while the Context can be told of its end, READY has one, and only a     *)
(* Context that was told not to fail waits for a daemon.  What a socket    *)
(* event asserts of the state holds unless the Context is pinned.          *)
(***************************************************************************)
Frames ==
    /\ inCall => ~gone
    /\ announcing # "none" => told = announcing
    /\ announcing \in {"connecting", "terminated"} => inCall
    /\ announcing = "connecting" => wire = "down" /\ conn \in {"connecting", "terminated"}
    /\ announcing \in End => conn = announcing
    /\ pinned => conn \in End
    /\ conn = "unconnected" => wire = "down" /\ announcing = "none" /\ told = "none"
    /\ conn = "ready" /\ ~gone => wire = "up"
    /\ told \in End => conn = told /\ (announcing = told \/ wire = "down")
    /\ gone /\ Idle /\ ~pinned => wire = "down"
    /\ announcing = "connecting" /\ ~pinned => conn = "connecting"
    /\ conn = "connecting" /\ ~gone => announcing = "connecting" \/ wire \in {"dialing", "waiting"}
    /\ conn \in {"authorizing", "setting_name"} /\ ~gone => wire = "greeting"
    /\ wire = "waiting" => no_fail
    /\ wire \in {"dialing", "waiting"} /\ ~pinned => conn = "connecting" \/ announcing \in End
    /\ wire = "greeting" /\ ~pinned =>
            conn \in {"authorizing", "setting_name"} \/ announcing \in End

(***************************************************************************)
(* Memory is about callback data: the data of the Context lives as long as *)
(* the Context, a call that was not made has none, and what is allocated,  *)
(* by this Context or another, is anchored.                                *)
(***************************************************************************)
Anchored == \A d \in Data : heap[d] = "live" => Usable(d)

Memory ==
    /\ ~gone => Usable(StateData) /\ Usable(EventData)
    /\ Anchored
    /\ \A c \in Call : status[c] = "idle" => heap[c] = "none"
    /\ AwaitedDataUsable
    /\ SlotsAccounted

(***************************************************************************)
(* Hearing is about what callbacks have heard: nothing while the call is   *)
(* not made, or waits and is not the one being answered.                   *)
(***************************************************************************)
Hearing ==
    /\ \A c \in Call : status[c] = "idle" =>
            heard[c] = <<>> /\ reply[c] = "none" /\ verdict[c] = "none"
    /\ \A c \in Call : status[c] = "pending" /\ answering # c => heard[c] = <<>>
    /\ AtMostOnce
    /\ CommandVerdictHeard

(***************************************************************************)
(* Answering is about the callback that the loop is running: it is that of *)
(* a call whose answer came, and if that call still waits, then for the    *)
(* end of the list its single value was in.                                *)
(***************************************************************************)
Answering ==
    /\ \A c \in Call : status[c] = "running" => answering = c
    /\ \A c \in Call : status[c] = "pending" => reply[c] # "none"
    /\ answering # Nil =>
        \/ status[answering] \in {"running", "cancelled"}
        \/ /\ status[answering] = "pending"
           /\ reply[answering] = "single" /\ verdict[answering] # "none"

IInv ==
    /\ TypeOK
    /\ Frames /\ PendingNeedsTransport /\ ListenerInformed
    /\ Memory
    /\ Hearing /\ Answering /\ FaultsHaveCauses

(***************************************************************************)
(* context_new establishes the invariant.                                  *)
(***************************************************************************)
LEMMA IInvInit == Init => IInv
  <1> SUFFICES ASSUME Init PROVE IInv
    OBVIOUS
  <1>1. TypeOK
    BY TypeInit
  <1>2. Frames /\ PendingNeedsTransport /\ ListenerInformed
    BY DEF Init, context_new, Frames, PendingNeedsTransport, ListenerInformed, End
  <1>3. Memory
    BY NilAssumption, DataAssumption
       DEF Init, context_new, Memory, Anchored, Usable, AwaitedDataUsable, SlotsAccounted
  <1>4. Hearing
    BY DEF Init, context_new, Hearing, AtMostOnce, CommandVerdictHeard
  <1>5. Answering /\ FaultsHaveCauses
    BY DEF Init, context_new, Answering, FaultsHaveCauses
  <1> QED
    BY <1>1, <1>2, <1>3, <1>4, <1>5 DEF IInv

(***************************************************************************)
(* Frames.                                                                 *)
(***************************************************************************)
LEMMA SetStateFrames ==
    ASSUME TypeOK, Frames, Idle, wire # "down", conn # "unconnected",
           NEW s \in {"authorizing", "setting_name", "ready", "failed"},
           SetState(s), s \in {"authorizing", "setting_name"} => wire' = "greeting",
           s = "ready" => wire' = "up", s = "failed" => wire' = wire, s \in End \/ ~pinned,
           UNCHANGED <<no_fail, pinned, answering, gone>>
    PROVE  Frames'
  BY DEF Frames, Idle, SetState, context_state_callback, TypeOK, ConnState, End

(***************************************************************************)
(* Every step keeps Frames.                                                *)
(***************************************************************************)
LEMMA FramesNext ==
    ASSUME TypeOK, Frames, [Next]_vars
    PROVE  Frames'
  <1> USE DEF End
  <1>1. ASSUME NEW c \in Call, NEW q \in Request, Invoke(c, q) PROVE Frames'
    BY <1>1 DEF Invoke, connVars, Frames, Idle
  <1>2. ASSUME NEW f \in StateFn, NEW how \in How, context_connect(f, how) PROVE Frames'
    BY <1>2 DEF context_connect, pa_context_connect, context_state_callback, Running, Frames,
                Idle, Good
  <1>3. CASE context_disconnect
    BY <1>3 DEF context_disconnect, context_state_callback, Running, Frames, Idle, Good
  <1>4. CASE Dialled
    <2>1. CASE /\ conn = "connecting"
               /\ \/ wire' = "greeting" /\ SetState("authorizing")
                  \/ wire' = wire /\ SetState("failed")
      BY <1>4, <2>1, SetStateFrames DEF Dialled, Frames
    <2>2. CASE Untold /\ (wire' = wire \/ (no_fail /\ wire' = "waiting"))
      BY <1>4, <2>2 DEF Dialled, Untold, Frames, Idle
    <2> QED
      BY <1>4, <2>1, <2>2 DEF Dialled
  <1>14. CASE DaemonAppears
    BY <1>14 DEF DaemonAppears, Untold, Frames, Idle
  <1>5. CASE Welcomed
    <2>1. CASE conn = "authorizing" /\ wire' = wire /\ SetState("setting_name")
      BY <1>5, <2>1, SetStateFrames DEF Welcomed, Frames
    <2>2. CASE conn = "setting_name" /\ wire' = "up" /\ SetState("ready")
      BY <1>5, <2>2, SetStateFrames DEF Welcomed, Frames
    <2>3. CASE Untold /\ wire' = wire
      BY <1>5, <2>3 DEF Welcomed, Untold, Frames, Idle
    <2> QED
      BY <1>5, <2>1, <2>2, <2>3 DEF Welcomed
  <1>6. CASE ConnectionLost
    BY <1>6, SetStateFrames DEF ConnectionLost, Frames
  <1>7. CASE StateReturn
    <2>1. UNCHANGED <<no_fail, pinned, gone, fate, answering>> /\ answering = answering'
      BY <1>7 DEF StateReturn
    <2>2. CASE /\ announcing \in End /\ wire' = "down"
               /\ announcing' = "none" /\ ~inCall' /\ UNCHANGED <<conn, told>>
      BY <2>1, <2>2 DEF Frames, Idle
    <2>3. CASE /\ announcing = "connecting"
               /\ wire' = "dialing" \/ (no_fail /\ wire' = "waiting")
               /\ announcing' = "none" /\ ~inCall' /\ UNCHANGED <<conn, told>>
      BY <2>1, <2>3 DEF Frames, Idle
    <2>4. CASE /\ announcing = "connecting" /\ wire' = wire /\ inCall'
               /\ conn' = "failed" /\ announcing' = "failed" /\ told' = "failed"
      BY <2>1, <2>4 DEF Frames, Idle
    <2>5. CASE /\ announcing \in {"authorizing", "setting_name", "ready"}
               /\ wire' = IF gone /\ ~pinned THEN "down" ELSE wire
               /\ announcing' = "none" /\ ~inCall' /\ UNCHANGED <<conn, told>>
      BY <2>1, <2>5 DEF Frames, Idle
    <2> QED
      BY <1>7, <2>2, <2>3, <2>4, <2>5 DEF StateReturn, context_state_callback
  <1>8. ASSUME NEW c \in Call, Answer(c) PROVE Frames'
    BY <1>8 DEF Answer, success_callback, info_callback_list, info_callback_single,
                server_info_callback, Answered, Crashed, Pending, connVars, Frames, Idle
  <1>9. CASE AnswerReturn
    BY <1>9 DEF AnswerReturn, Frames, Idle
  <1>10. CASE CallbackError
    BY <1>10 DEF CallbackError, connVars, Frames, Idle
  <1>11. CASE context__gc
    BY <1>11 DEF context__gc, Running, Frames, Idle
  <1>12. ASSUME NEW d \in Stranger, OtherContext(d) PROVE Frames'
    BY <1>12 DEF OtherContext, connVars, Frames, Idle
  <1>13. CASE UNCHANGED vars
    BY <1>13 DEF vars, connVars, Frames, Idle
  <1> QED
    BY <1>1, <1>2, <1>3, <1>4, <1>5, <1>6, <1>7, <1>8, <1>9, <1>10, <1>11, <1>12, <1>13,
       <1>14 DEF Next

(***************************************************************************)
(* The transport and the listener.                                         *)
(***************************************************************************)
LEMMA SubmittedOnlyReady ==
    ASSUME NEW m, NEW args, NEW ready \in BOOLEAN, Exit(m, args, ready) = "submitted"
    PROVE  ready
  BY DEF Exit, HandlerExit

(***************************************************************************)
(* Cancelling leaves nothing pending.                                      *)
(***************************************************************************)
LEMMA CancelledPendsNothing ==
    ASSUME NEW s, NEW c \in Call
    PROVE  Cancelled(s)[c] # "pending"
  BY DEF Cancelled

(***************************************************************************)
(* Every step keeps calls from waiting on a closed transport.              *)
(***************************************************************************)
LEMMA PendingNeedsTransportNext ==
    ASSUME TypeOK, Frames, PendingNeedsTransport, [Next]_vars
    PROVE  PendingNeedsTransport'
  <1> USE DEF PendingNeedsTransport
  <1>1. ASSUME NEW c \in Call, NEW q \in Request, Invoke(c, q) PROVE PendingNeedsTransport'
    <2>1. CASE status'[c] = "pending"
      <3>1. Exit(q.method, q.args, conn = "ready") = "submitted"
        BY <1>1, <2>1 DEF Invoke, Report, TypeOK
      <3>2. wire = "up"
        BY <1>1, <3>1, SubmittedOnlyReady DEF Invoke, Running, Frames
      <3> QED
        BY <1>1, <3>2 DEF Invoke, connVars
    <2>2. CASE status'[c] # "pending"
      BY <1>1, <2>2 DEF Invoke, Report, connVars, TypeOK
    <2> QED
      BY <2>1, <2>2
  <1>2. ASSUME NEW f \in StateFn, NEW how \in How, context_connect(f, how)
        PROVE  PendingNeedsTransport'
    BY <1>2 DEF context_connect, callVars
  <1>3. CASE context_disconnect
    BY <1>3 DEF context_disconnect, callVars
  <1>4. CASE Dialled \/ DaemonAppears \/ Welcomed \/ ConnectionLost
    BY <1>4 DEF Dialled, DaemonAppears, Welcomed, Untold, ConnectionLost, callVars
  <1>5. CASE StateReturn
    BY <1>5, CancelledPendsNothing DEF StateReturn, Frames
  <1>6. ASSUME NEW c \in Call, Answer(c) PROVE PendingNeedsTransport'
    BY <1>6 DEF Answer, success_callback, info_callback_list, info_callback_single,
                server_info_callback, Answered, Crashed, connVars, TypeOK
  <1>7. CASE AnswerReturn
    BY <1>7, CancelledPendsNothing DEF AnswerReturn, TypeOK
  <1>8. CASE CallbackError
    BY <1>8 DEF CallbackError, connVars, callVars
  <1>9. CASE context__gc
    BY <1>9, CancelledPendsNothing DEF context__gc
  <1>10. ASSUME NEW d \in Stranger, OtherContext(d) PROVE PendingNeedsTransport'
    BY <1>10 DEF OtherContext, connVars, callVars
  <1>11. CASE UNCHANGED vars
    BY <1>11 DEF vars, connVars, callVars
  <1> QED
    BY <1>1, <1>2, <1>3, <1>4, <1>5, <1>6, <1>7, <1>8, <1>9, <1>10, <1>11 DEF Next

(***************************************************************************)
(* Every step that changes the state tells the listener, or pins the       *)
(* Context.                                                                *)
(***************************************************************************)
LEMMA ListenerInformedNext ==
    ASSUME TypeOK, Frames, ListenerInformed, [Next]_vars
    PROVE  ListenerInformed'
  <1> USE DEF ListenerInformed
  <1>1. ASSUME NEW c \in Call, NEW q \in Request, Invoke(c, q) PROVE ListenerInformed'
    BY <1>1 DEF Invoke, connVars
  <1>2. ASSUME NEW f \in StateFn, NEW how \in How, context_connect(f, how)
        PROVE  ListenerInformed'
    <2>1. CASE conn = "unconnected" /\ how # "invalid"
      BY <1>2, <2>1 DEF context_connect, pa_context_connect, context_state_callback
    <2>2. CASE ~(conn = "unconnected" /\ how # "invalid")
      <3>1. /\ UNCHANGED <<conn, told, hearer, pinned>> /\ listener' = f
            /\ displaced' = (conn # "unconnected" /\ f # hearer)
        BY <1>2, <2>2 DEF context_connect
      <3> QED
        BY <3>1
    <2> QED
      BY <2>1, <2>2
  <1>3. CASE context_disconnect
    BY <1>3 DEF context_disconnect, context_state_callback
  <1>4. CASE Dialled \/ DaemonAppears \/ Welcomed \/ ConnectionLost
    BY <1>4 DEF Dialled, DaemonAppears, Welcomed, Untold, ConnectionLost, SetState,
                context_state_callback, Frames
  <1>5. CASE StateReturn
    BY <1>5 DEF StateReturn, context_state_callback
  <1>6. ASSUME NEW c \in Call, Answer(c) PROVE ListenerInformed'
    BY <1>6 DEF Answer, success_callback, info_callback_list, info_callback_single,
                server_info_callback, Answered, Crashed, connVars
  <1>7. CASE AnswerReturn
    BY <1>7 DEF AnswerReturn
  <1>8. CASE CallbackError
    BY <1>8 DEF CallbackError, connVars
  <1>9. CASE context__gc
    BY <1>9 DEF context__gc
  <1>10. ASSUME NEW d \in Stranger, OtherContext(d) PROVE ListenerInformed'
    BY <1>10 DEF OtherContext, connVars
  <1>11. CASE UNCHANGED vars
    BY <1>11 DEF vars, connVars
  <1> QED
    BY <1>1, <1>2, <1>3, <1>4, <1>5, <1>6, <1>7, <1>8, <1>9, <1>10, <1>11 DEF Next

(***************************************************************************)
(* Data that was just prepared is usable.                                  *)
(***************************************************************************)
LEMMA PrepareMakesUsable ==
    ASSUME CallbackTypeOK, NEW d \in Data, prepare_lua_callback(d)
    PROVE  Usable(d)'
  BY DEF CallbackTypeOK, prepare_lua_callback, luaL_ref, Usable

(***************************************************************************)
(* Preparing data takes a slot that is free, so usable data stays usable.  *)
(***************************************************************************)
LEMMA PrepareKeepsUsable ==
    ASSUME CallbackTypeOK, NEW d \in Data, NEW e \in Data, d # e, Usable(e),
           prepare_lua_callback(d) \/ prepare_lua_callback_raises(d)
    PROVE  Usable(e)'
  BY NilAssumption
     DEF CallbackTypeOK, prepare_lua_callback, prepare_lua_callback_raises, luaL_ref, Usable

(***************************************************************************)
(* Freeing data leaves other usable data usable: their slots differ.       *)
(***************************************************************************)
LEMMA FreeKeepsUsable ==
    ASSUME CallbackTypeOK, NEW D \in SUBSET Data, NEW e \in Data \ D, Usable(e),
           \A d \in D : Usable(d), free_lua_callback(D)
    PROVE  Usable(e)'
  BY DEF CallbackTypeOK, free_lua_callback, Usable

(***************************************************************************)
(* Preparing and freeing keep whatever is allocated anchored.              *)
(***************************************************************************)
LEMMA PrepareKeepsAnchored ==
    ASSUME CallbackTypeOK, Anchored, NEW d \in Data, prepare_lua_callback(d)
    PROVE  Anchored'
  <1> SUFFICES ASSUME NEW e \in Data, heap'[e] = "live" PROVE Usable(e)'
    BY DEF Anchored
  <1>1. CASE e = d
    BY <1>1, PrepareMakesUsable
  <1>2. CASE e # d
    <2>1. heap[e] = "live"
      BY <1>2 DEF prepare_lua_callback, CallbackTypeOK
    <2> QED
      BY <1>2, <2>1, PrepareKeepsUsable DEF Anchored
  <1> QED
    BY <1>1, <1>2

(***************************************************************************)
(* Freeing usable data leaves what else is allocated anchored.             *)
(***************************************************************************)
LEMMA FreeKeepsAnchored ==
    ASSUME CallbackTypeOK, Anchored, NEW D \in SUBSET Data, \A d \in D : Usable(d),
           free_lua_callback(D)
    PROVE  Anchored'
  <1> SUFFICES ASSUME NEW e \in Data, heap'[e] = "live" PROVE Usable(e)'
    BY DEF Anchored
  <1>1. e \notin D /\ heap[e] = "live"
    BY DEF free_lua_callback
  <1> QED
    BY <1>1, FreeKeepsUsable DEF Anchored

(***************************************************************************)
(* Slots: preparing takes one that is accounted for by the new data, and   *)
(* freeing empties exactly the slots of the data that is freed.            *)
(***************************************************************************)
Owned(r) ==
    \/ heap[slot[r]] = "live" /\ ref[slot[r]] = r
    \/ /\ slot[r] \in Stranger \cup {c \in Call : status[c] = "raised"}
       /\ heap[slot[r]] = "none"

(***************************************************************************)
(* After free_lua_callback no slot anchors the thread of freed data.       *)
(***************************************************************************)
LEMMA FreeClearsSlots ==
    ASSUME TypeOK, SlotsAccounted, NEW D \in SUBSET Data, free_lua_callback(D),
           \A d \in D : Usable(d)
    PROVE  \A r \in Ref : slot'[r] # Nil => slot'[r] = slot[r] /\ slot[r] \notin D
  <1> SUFFICES ASSUME NEW r \in Ref, slot'[r] # Nil
               PROVE  slot'[r] = slot[r] /\ slot[r] \notin D
    OBVIOUS
  <1>1. slot'[r] = slot[r] /\ \A d \in D : ref[d] # r
    BY DEF free_lua_callback
  <1>2. slot[r] \in D => heap[slot[r]] = "live"
    BY DEF Usable
  <1>3. Owned(r)
    BY <1>1 DEF SlotsAccounted, Owned
  <1> QED
    BY <1>1, <1>2, <1>3 DEF Owned

(***************************************************************************)
(* Steps that leave the registry alone and start no call keep Memory.      *)
(***************************************************************************)
LEMMA MemoryUntouched ==
    ASSUME TypeOK, Memory, UNCHANGED callbackVars, gone' = gone,
           \A c \in Call : \/ status'[c] = status[c]
                           \/ /\ status[c] \in {"pending", "running"}
                              /\ status'[c] \in {"running", "cancelled"}
    PROVE  Memory'
  <1>1. (~gone => Usable(StateData) /\ Usable(EventData))'
    BY DEF Memory, Usable, callbackVars
  <1>2. (\A c \in Call : status[c] = "idle" => heap[c] = "none")'
    BY DEF Memory, callbackVars
  <1>3. AwaitedDataUsable'
    BY DEF Memory, AwaitedDataUsable, Usable, callbackVars
  <1>4. SlotsAccounted'
    BY DEF Memory, SlotsAccounted, callbackVars
  <1>5. Anchored'
    BY DEF Memory, Anchored, Usable, callbackVars
  <1> QED
    BY <1>1, <1>2, <1>3, <1>4, <1>5 DEF Memory

(***************************************************************************)
(* A method call keeps Memory.                                             *)
(***************************************************************************)
LEMMA InvokeMemory ==
    ASSUME TypeOK, Memory, NEW c \in Call, NEW q \in Request, Invoke(c, q)
    PROVE  Memory'
  <1> DEFINE Exited(e) == Exit(q.method, q.args, conn = "ready") = e
  <1>0. /\ c \in Data /\ StateData \in Data /\ EventData \in Data
        /\ c # StateData /\ c # EventData
        /\ CallbackTypeOK
        /\ status[c] = "idle" /\ heap[c] = "none" /\ gone' = gone
        /\ \A d \in Call : d # c => status'[d] = status[d]
        /\ status'[c] \in {"raised", "reported", "pending"}
    BY DataAssumption DEF Invoke, Report, TypeOK, Memory
  <1>1. CASE UNCHANGED callbackVars /\ status'[c] \in {"raised", "reported"}
    <2>1. (~gone => Usable(StateData) /\ Usable(EventData))'
      BY <1>0, <1>1 DEF Memory, Usable, callbackVars
    <2>2. (\A d \in Call : status[d] = "idle" => heap[d] = "none")'
      BY <1>0, <1>1 DEF Memory, callbackVars
    <2>3. AwaitedDataUsable'
      BY <1>0, <1>1 DEF Memory, AwaitedDataUsable, Usable, callbackVars
    <2>4. SlotsAccounted'
      BY <1>0, <1>1 DEF Memory, SlotsAccounted, callbackVars
    <2>5. Anchored'
      BY <1>1 DEF Memory, Anchored, Usable, callbackVars
    <2> QED
      BY <2>1, <2>2, <2>3, <2>4, <2>5 DEF Memory
  <1>2. CASE prepare_lua_callback_raises(c) /\ status'[c] = "raised"
    <2>1. (~gone => Usable(StateData) /\ Usable(EventData))'
      BY <1>0, <1>2, PrepareKeepsUsable DEF Memory
    <2>2. (\A d \in Call : status[d] = "idle" => heap[d] = "none")'
      BY <1>0, <1>2 DEF Memory, prepare_lua_callback_raises
    <2>3. AwaitedDataUsable'
      BY <1>0, <1>2, PrepareKeepsUsable, DataAssumption DEF Memory, AwaitedDataUsable
    <2>4. SlotsAccounted'
      BY <1>0, <1>2, NilAssumption, DataAssumption
         DEF Memory, SlotsAccounted, prepare_lua_callback_raises, luaL_ref, TypeOK, CallbackTypeOK
    <2>5. Anchored'
      BY <1>0, <1>2, PrepareKeepsUsable DEF Memory, Anchored, prepare_lua_callback_raises
    <2> QED
      BY <2>1, <2>2, <2>3, <2>4, <2>5 DEF Memory
  <1>3. CASE prepare_lua_callback(c)
    <2>1. (~gone => Usable(StateData) /\ Usable(EventData))'
      BY <1>0, <1>3, PrepareKeepsUsable DEF Memory
    <2>2. (\A d \in Call : status[d] = "idle" => heap[d] = "none")'
      BY <1>0, <1>3 DEF Memory, prepare_lua_callback, CallbackTypeOK
    <2>3. AwaitedDataUsable'
      BY <1>0, <1>3, PrepareKeepsUsable, PrepareMakesUsable, DataAssumption
         DEF Memory, AwaitedDataUsable
    <2>4. SlotsAccounted'
      BY <1>0, <1>3, NilAssumption, DataAssumption
         DEF Memory, SlotsAccounted, prepare_lua_callback, luaL_ref, TypeOK, CallbackTypeOK
    <2>5. Anchored'
      BY <1>0, <1>3, PrepareKeepsAnchored DEF Memory
    <2> QED
      BY <2>1, <2>2, <2>3, <2>4, <2>5 DEF Memory
  <1> QED
    BY <1>0, <1>1, <1>2, <1>3 DEF Invoke, Report, TypeOK

(***************************************************************************)
(* The return of an answer's callback, which frees its data, keeps Memory. *)
(***************************************************************************)
LEMMA AnswerReturnMemory ==
    ASSUME TypeOK, Memory, AnswerReturn
    PROVE  Memory'
  <1>1. answering \in Call
    BY DEF AnswerReturn, TypeOK
  <1>2. CASE status[answering] # "running"
    <2>1. \A c \in Call : \/ status'[c] = status[c]
                          \/ status[c] = "pending" /\ status'[c] = "cancelled"
      BY <1>1, <1>2 DEF AnswerReturn, Cancelled, TypeOK
    <2> QED
      BY <1>2, <2>1, MemoryUntouched DEF AnswerReturn, callbackVars
  <1>3. CASE status[answering] = "running"
    <2>1. /\ answering \in Data /\ {answering} \in SUBSET Data
          /\ StateData \in Data \ {answering} /\ EventData \in Data \ {answering}
          /\ \A c \in Call : c \in Data
          /\ CallbackTypeOK
          /\ \A d \in {answering} : Usable(d)
      BY <1>1, <1>3, DataAssumption DEF TypeOK, Memory, AwaitedDataUsable
    <2>2. free_lua_callback({answering}) /\ gone' = gone
      BY <1>3 DEF AnswerReturn
    <2>3. /\ status'[answering] = "done"
          /\ \A c \in Call : c # answering =>
                \/ status'[c] = status[c]
                \/ status[c] = "pending" /\ status'[c] = "cancelled"
      BY <1>1, <1>3 DEF AnswerReturn, Cancelled, TypeOK
    <2>4. (~gone => Usable(StateData) /\ Usable(EventData))'
      BY <2>1, <2>2, FreeKeepsUsable DEF Memory
    <2>5. (\A d \in Call : status[d] = "idle" => heap[d] = "none")'
      BY <2>1, <2>2, <2>3 DEF Memory, free_lua_callback
    <2>6. AwaitedDataUsable'
      BY <2>1, <2>2, <2>3, FreeKeepsUsable DEF Memory, AwaitedDataUsable
    <2>7. \A r \in Ref : slot'[r] # Nil => slot'[r] = slot[r] /\ slot[r] # answering
      BY <2>1, <2>2, FreeClearsSlots DEF Memory
    <2>8. heap'[answering] = "freed" /\ ref' = ref
          /\ \A d \in Data : d # answering => heap'[d] = heap[d]
      BY <2>1, <2>2 DEF free_lua_callback
    <2>9. \A r \in Ref : slot'[r] # Nil => slot[r] \in Data
      BY <2>7 DEF TypeOK, CallbackTypeOK
    <2>10. answering # Nil /\ \A c \in Call : c # Nil
      BY DataAssumption, NilAssumption, <2>1
    <2>11. SlotsAccounted'
      <3>1. ASSUME NEW c \in Call, status'[c] = "done"
            PROVE  heap'[c] = "freed" /\ \A r \in Ref : slot'[r] # c
        BY <2>1, <2>3, <2>7, <2>8, <2>10, <3>1 DEF Memory, SlotsAccounted
      <3>2. ASSUME NEW r \in Ref, slot'[r] # Nil
            PROVE  Owned(r)'
        <4>1. Owned(r)
          BY <2>7, <3>2 DEF Memory, SlotsAccounted, Owned
        <4> QED
          BY <2>3, <2>7, <2>8, <2>9, <3>2, <4>1 DEF Owned
      <3> QED
        BY <3>1, <3>2 DEF SlotsAccounted, Owned
    <2>12. Anchored'
      BY <2>1, <2>2, FreeKeepsAnchored DEF Memory
    <2> QED
      BY <2>4, <2>5, <2>6, <2>11, <2>12 DEF Memory
  <1> QED
    BY <1>2, <1>3

(***************************************************************************)
(* Collecting the Context, which frees its own data, keeps Memory.         *)
(***************************************************************************)
LEMMA CollectMemory ==
    ASSUME TypeOK, Memory, context__gc
    PROVE  Memory'
  <1> DEFINE D == {StateData, EventData}
  <1>1. /\ D \in SUBSET Data /\ CallbackTypeOK
        /\ \A c \in Call : c \in Data \ D
        /\ \A d \in D : Usable(d)
    BY DataAssumption DEF TypeOK, Memory, context__gc, Running
  <1>2. free_lua_callback(D) /\ gone'
    BY DEF context__gc
  <1>3. \A c \in Call : \/ status'[c] = status[c]
                        \/ status[c] = "pending" /\ status'[c] = "cancelled"
    BY DEF context__gc, Cancelled, TypeOK
  <1> HIDE DEF D
  <1>4. (\A d \in Call : status[d] = "idle" => heap[d] = "none")'
    BY <1>1, <1>2, <1>3 DEF Memory, free_lua_callback
  <1>5. AwaitedDataUsable'
    BY <1>1, <1>2, <1>3, FreeKeepsUsable DEF Memory, AwaitedDataUsable
  <1>6. \A r \in Ref : slot'[r] # Nil => slot'[r] = slot[r] /\ slot[r] \notin D
    BY <1>1, <1>2, FreeClearsSlots DEF Memory
  <1>7. ref' = ref /\ \A d \in Data \ D : heap'[d] = heap[d]
    BY <1>2 DEF free_lua_callback
  <1>8. \A r \in Ref : slot'[r] # Nil => slot[r] \in Data
    BY <1>6 DEF TypeOK, CallbackTypeOK
  <1>9. \A c \in Call : c # Nil
    BY DataAssumption, NilAssumption
  <1>10. SlotsAccounted'
    <2>1. ASSUME NEW c \in Call, status'[c] = "done"
          PROVE  heap'[c] = "freed" /\ \A r \in Ref : slot'[r] # c
      BY <1>1, <1>3, <1>6, <1>7, <1>9, <2>1 DEF Memory, SlotsAccounted
    <2>2. ASSUME NEW r \in Ref, slot'[r] # Nil
          PROVE  Owned(r)'
      <3>1. Owned(r)
        BY <1>6, <2>2 DEF Memory, SlotsAccounted, Owned
      <3> QED
        BY <1>3, <1>6, <1>7, <1>8, <2>2, <3>1 DEF Owned
    <2> QED
      BY <2>1, <2>2 DEF SlotsAccounted, Owned
  <1>11. Anchored'
    BY <1>1, <1>2, FreeKeepsAnchored DEF Memory
  <1> QED
    BY <1>2, <1>4, <1>5, <1>10, <1>11 DEF Memory

(***************************************************************************)
(* What another Context does in the registry keeps Memory: it takes a slot *)
(* that is free, and gives back one that is its own.                       *)
(***************************************************************************)
LEMMA OtherMemory ==
    ASSUME TypeOK, Memory, NEW d \in Stranger, OtherContext(d)
    PROVE  Memory'
  <1>1. /\ d \in Data /\ {d} \in SUBSET Data /\ d \notin Call /\ CallbackTypeOK
        /\ StateData \in Data \ {d} /\ EventData \in Data \ {d}
        /\ \A c \in Call : c \in Data \ {d}
        /\ status' = status /\ gone' = gone
    BY DataAssumption DEF OtherContext, callVars, TypeOK
  <1>2. CASE /\ heap[d] = "none" /\ \A r \in Ref : slot[r] # d
             /\ prepare_lua_callback(d) \/ prepare_lua_callback_raises(d)
    <2>1. \A e \in Data : e # d => heap'[e] = heap[e] /\ (Usable(e) => Usable(e)')
      <3>1. ASSUME NEW e \in Data, e # d PROVE heap'[e] = heap[e]
        BY <1>1, <1>2, <3>1 DEF prepare_lua_callback, prepare_lua_callback_raises, CallbackTypeOK
      <3>2. ASSUME NEW e \in Data, e # d, Usable(e) PROVE Usable(e)'
        BY <1>1, <1>2, <3>2, PrepareKeepsUsable
      <3> QED
        BY <3>1, <3>2
    <2>2. Anchored'
      BY <1>1, <1>2, <2>1, PrepareKeepsAnchored
         DEF Memory, Anchored, prepare_lua_callback_raises
    <2>3. SlotsAccounted'
      BY <1>1, <1>2, NilAssumption
         DEF Memory, SlotsAccounted, prepare_lua_callback, prepare_lua_callback_raises,
             luaL_ref, CallbackTypeOK
    <2> QED
      BY <1>1, <2>1, <2>2, <2>3 DEF Memory, AwaitedDataUsable
  <1>3. CASE heap[d] = "live" /\ free_lua_callback({d})
    <2>1. Usable(d)
      BY <1>1, <1>3 DEF Memory, Anchored
    <2>2. \A e \in Data \ {d} : Usable(e) => Usable(e)'
      BY <1>1, <1>3, <2>1, FreeKeepsUsable
    <2>3. Anchored'
      BY <1>1, <1>3, <2>1, FreeKeepsAnchored DEF Memory
    <2>4. \A r \in Ref : slot'[r] # Nil => slot'[r] = slot[r] /\ slot[r] # d
      BY <1>1, <1>3, <2>1, FreeClearsSlots DEF Memory
    <2>5. ref' = ref /\ \A e \in Data \ {d} : heap'[e] = heap[e]
      BY <1>3 DEF free_lua_callback
    <2>6. SlotsAccounted'
      <3>1. ASSUME NEW c \in Call, status'[c] = "done"
            PROVE  heap'[c] = "freed" /\ \A r \in Ref : slot'[r] # c
        <4>1. c # Nil
          BY <1>1, NilAssumption
        <4> QED
          BY <1>1, <2>4, <2>5, <3>1, <4>1 DEF Memory, SlotsAccounted
      <3>2. ASSUME NEW r \in Ref, slot'[r] # Nil
            PROVE  Owned(r)'
        <4>1. Owned(r) /\ slot[r] \in Data \ {d}
          BY <1>1, <2>4, <3>2 DEF Memory, SlotsAccounted, Owned, CallbackTypeOK
        <4> QED
          BY <1>1, <2>4, <2>5, <3>2, <4>1 DEF Owned
      <3> QED
        BY <3>1, <3>2 DEF SlotsAccounted, Owned
    <2> QED
      BY <1>1, <2>2, <2>3, <2>5, <2>6 DEF Memory, AwaitedDataUsable
  <1> QED
    BY <1>2, <1>3 DEF OtherContext

(***************************************************************************)
(* Every step keeps Memory.                                                *)
(***************************************************************************)
LEMMA MemoryNext ==
    ASSUME TypeOK, Memory, [Next]_vars
    PROVE  Memory'
  <1>1. ASSUME NEW f \in StateFn, NEW how \in How, context_connect(f, how) PROVE Memory'
    BY <1>1, MemoryUntouched DEF context_connect, callVars
  <1>2. CASE context_disconnect
    BY <1>2, MemoryUntouched DEF context_disconnect, callVars
  <1>3. CASE Dialled \/ DaemonAppears \/ Welcomed \/ ConnectionLost
    BY <1>3, MemoryUntouched
       DEF Dialled, DaemonAppears, Welcomed, Untold, ConnectionLost, callVars
  <1>4. CASE StateReturn
    <2>1. \A c \in Call : \/ status'[c] = status[c]
                          \/ status[c] = "pending" /\ status'[c] = "cancelled"
      BY <1>4 DEF StateReturn, Cancelled, TypeOK
    <2> QED
      BY <1>4, <2>1, MemoryUntouched DEF StateReturn
  <1>5. ASSUME NEW c \in Call, Answer(c) PROVE Memory'
    <2>1. \A d \in Call : \/ status'[d] = status[d]
                          \/ status[d] = "pending" /\ status'[d] = "running"
      BY <1>5 DEF Answer, success_callback, info_callback_list, info_callback_single,
                  server_info_callback, Answered, Crashed, Pending, TypeOK
    <2>2. UNCHANGED <<callbackVars, gone>>
      BY <1>5 DEF Answer, success_callback, info_callback_list, info_callback_single,
                  server_info_callback, Answered, Crashed
    <2> QED
      BY <2>1, <2>2, MemoryUntouched
  <1>6. CASE CallbackError
    BY <1>6, MemoryUntouched DEF CallbackError, callVars
  <1>7. CASE UNCHANGED vars
    BY <1>7, MemoryUntouched DEF vars, callVars
  <1> QED
    BY <1>1, <1>2, <1>3, <1>4, <1>5, <1>6, <1>7, InvokeMemory, AnswerReturnMemory,
       CollectMemory, OtherMemory DEF Next

(***************************************************************************)
(* What hearing a word does to a callback that has heard nothing.          *)
(***************************************************************************)
LEMMA HearOnce ==
    ASSUME TypeOK, NEW c \in Call, NEW w \in Words, heard[c] = <<>>, Hear(c, w)
    PROVE  /\ heard'[c] = <<w>> /\ Len(heard'[c]) = 1
           /\ \A d \in Call : d # c => heard'[d] = heard[d]
  BY DEF TypeOK, Hear

(***************************************************************************)
(* Steps in which no callback is called and no call begins keep Hearing.   *)
(***************************************************************************)
LEMMA HearingUntouched ==
    ASSUME TypeOK, Hearing, UNCHANGED <<reply, heard, verdict>>,
           \A c \in Call : status'[c] = "idle" => status[c] = "idle",
           \A c \in Call : status'[c] = "pending" =>
                status[c] = "pending" /\ (answering' = c \/ answering # c)
    PROVE  Hearing'
  BY DEF Hearing, AtMostOnce, CommandVerdictHeard

(***************************************************************************)
(* A method call lets at most its own callback hear one word.              *)
(***************************************************************************)
LEMMA InvokeHearing ==
    ASSUME TypeOK, Hearing, NEW c \in Call, NEW q \in Request, Invoke(c, q)
    PROVE  Hearing'
  <1>1. /\ status[c] = "idle" /\ heard[c] = <<>> /\ reply[c] = "none" /\ verdict[c] = "none"
        /\ UNCHANGED <<verdict, answering>>
        /\ status'[c] # "idle"
        /\ \A d \in Call : d # c => status'[d] = status[d] /\ reply'[d] = reply[d]
    BY DEF Invoke, Report, Hearing, TypeOK
  <1>2. CASE UNCHANGED heard
    BY <1>1, <1>2 DEF Hearing, AtMostOnce, CommandVerdictHeard
  <1>3. CASE Hear(c, "error") /\ UNCHANGED reply /\ status'[c] = "reported"
    <2>1. /\ Len(heard'[c]) = 1
          /\ \A d \in Call : d # c => heard'[d] = heard[d]
      BY <1>1, <1>3, HearOnce DEF Words
    <2>2. AtMostOnce'
      <3> SUFFICES ASSUME NEW d \in Call PROVE Len(heard'[d]) <= 1
        BY DEF AtMostOnce
      <3>1. CASE d = c
        BY <2>1, <3>1
      <3>2. CASE d # c
        BY <2>1, <3>2 DEF Hearing, AtMostOnce
      <3> QED
        BY <3>1, <3>2
    <2>3. CommandVerdictHeard'
      <3> SUFFICES ASSUME NEW d \in Call, reply'[d] = "ack"
                   PROVE  d # c
        BY <1>1, <1>3, <2>1 DEF Hearing, CommandVerdictHeard
      <3> QED
        BY <1>1, <1>3
    <2>4. \A d \in Call : status'[d] = "idle" =>
            heard'[d] = <<>> /\ reply'[d] = "none" /\ verdict'[d] = "none"
      BY <1>1, <1>3, <2>1 DEF Hearing
    <2>5. \A d \in Call : status'[d] = "pending" /\ answering' # d => heard'[d] = <<>>
      BY <1>1, <1>3, <2>1 DEF Hearing
    <2> QED
      BY <2>2, <2>3, <2>4, <2>5 DEF Hearing
  <1> QED
    BY <1>2, <1>3 DEF Invoke, Report, TypeOK

(***************************************************************************)
(* An answer goes to a callback that has heard nothing.                    *)
(***************************************************************************)
LEMMA AnswerHearing ==
    ASSUME TypeOK, Hearing, NEW c \in Call, Answer(c)
    PROVE  Hearing'
  <1>1. status[c] = "pending" /\ heard[c] = <<>> /\ c # Nil
    BY DataAssumption, NilAssumption
       DEF Answer, success_callback, info_callback_list, info_callback_single,
           server_info_callback, Pending, Idle, Hearing
  <1>2. CASE Crashed(c) /\ reply[c] # "ack"
    BY <1>1, <1>2 DEF Crashed, Hearing, AtMostOnce, CommandVerdictHeard, TypeOK
  <1>3. ASSUME NEW v \in {"ok", "error"}, NEW w \in Words, Hear(c, w),
               verdict' = [verdict EXCEPT ![c] = v],
               reply[c] = "ack" => (v = "ok" /\ w = "value") \/ (v = "error" /\ w = "failure"),
               answering' = c, UNCHANGED reply,
               \A d \in Call : d # c => status'[d] = status[d],
               status'[c] # "idle", answering = Nil
        PROVE  Hearing'
    <2>1. /\ heard'[c] = <<w>> /\ Len(heard'[c]) = 1
          /\ \A d \in Call : d # c => heard'[d] = heard[d]
      BY <1>1, <1>3, HearOnce
    <2>2. verdict'[c] = v /\ \A d \in Call : d # c => verdict'[d] = verdict[d]
      BY <1>3 DEF TypeOK
    <2>3. CommandVerdictHeard'
      BY <1>3, <2>1, <2>2 DEF Hearing, CommandVerdictHeard
    <2>4. \A d \in Call : d # Nil
      BY DataAssumption, NilAssumption
    <2>5. AtMostOnce'
      <3> SUFFICES ASSUME NEW d \in Call PROVE Len(heard'[d]) <= 1
        BY DEF AtMostOnce
      <3>1. CASE d = c
        <4>1. Len(heard'[c]) = 1
          BY <2>1
        <4> QED
          BY <3>1, <4>1
      <3>2. CASE d # c
        BY <2>1, <3>2 DEF Hearing, AtMostOnce
      <3> QED
        BY <3>1, <3>2
    <2>6. \A d \in Call : status'[d] = "idle" =>
            heard'[d] = <<>> /\ reply'[d] = "none" /\ verdict'[d] = "none"
      BY <1>3, <2>1, <2>2 DEF Hearing
    <2>7. \A d \in Call : status'[d] = "pending" /\ answering' # d => heard'[d] = <<>>
      BY <1>3, <2>1, <2>4 DEF Hearing
    <2> QED
      BY <2>3, <2>5, <2>6, <2>7 DEF Hearing
  <1>4. ASSUME NEW v \in {"ok", "error"}, NEW w \in Words, Answered(c, v, w), answering = Nil,
               reply[c] = "ack" => (v = "ok" /\ w = "value") \/ (v = "error" /\ w = "failure")
        PROVE  Hearing'
    BY <1>3, <1>4 DEF Answered, TypeOK
  <1>5. CASE success_callback(c)
    BY <1>4, <1>5 DEF success_callback, Pending, Idle, Words
  <1>6. CASE info_callback_list(c)
    BY <1>4, <1>6 DEF info_callback_list, Pending, Idle, Words
  <1>7. CASE info_callback_single(c)
    BY <1>1, <1>2, <1>3, <1>7 DEF info_callback_single, Pending, Idle, Words
  <1>8. CASE server_info_callback(c)
    BY <1>2, <1>4, <1>8 DEF server_info_callback, Pending, Idle, Words
  <1> QED
    BY <1>5, <1>6, <1>7, <1>8 DEF Answer

(***************************************************************************)
(* Every step keeps Hearing.                                               *)
(***************************************************************************)
LEMMA HearingNext ==
    ASSUME TypeOK, Hearing, [Next]_vars
    PROVE  Hearing'
  <1>1. ASSUME NEW f \in StateFn, NEW how \in How, context_connect(f, how) PROVE Hearing'
    BY <1>1, HearingUntouched DEF context_connect, callVars
  <1>2. CASE context_disconnect
    BY <1>2, HearingUntouched DEF context_disconnect, callVars
  <1>3. CASE Dialled \/ DaemonAppears \/ Welcomed \/ ConnectionLost
    BY <1>3, HearingUntouched
       DEF Dialled, DaemonAppears, Welcomed, Untold, ConnectionLost, callVars
  <1>4. CASE StateReturn
    BY <1>4, HearingUntouched DEF StateReturn, Cancelled, TypeOK
  <1>5. CASE AnswerReturn
    <2>1. CASE status[answering] = "pending"
      BY <1>5, <2>1, HearingUntouched DEF AnswerReturn
    <2>2. CASE status[answering] # "pending"
      <3>1. \A c \in Call : \/ status'[c] = status[c] /\ (status[c] = "pending" => c # answering)
                            \/ status'[c] \in {"done", "cancelled"}
        BY <1>5, <2>2 DEF AnswerReturn, Cancelled, TypeOK
      <3> QED
        BY <1>5, <3>1, HearingUntouched DEF AnswerReturn
    <2> QED
      BY <2>1, <2>2
  <1>6. CASE CallbackError
    BY <1>6, HearingUntouched DEF CallbackError, callVars
  <1>7. CASE context__gc
    BY <1>7, HearingUntouched DEF context__gc, Cancelled, TypeOK
  <1>8. CASE UNCHANGED vars \/ \E d \in Stranger : OtherContext(d)
    BY <1>8, HearingUntouched DEF vars, callVars, OtherContext
  <1> QED
    BY <1>1, <1>2, <1>3, <1>4, <1>5, <1>6, <1>7, <1>8, InvokeHearing, AnswerHearing DEF Next

(***************************************************************************)
(* Steps that leave the running callback and the answers alone, and cancel *)
(* at most what waits, keep Answering.                                     *)
(***************************************************************************)
LEMMA AnsweringUntouched ==
    ASSUME TypeOK, Answering, UNCHANGED <<answering, reply, verdict>>,
           \A c \in Call : status'[c] = status[c] \/ (status[c] = "pending" /\ status'[c] = "cancelled")
    PROVE  Answering'
  <1>1. answering # Nil => answering \in Call
    BY DEF TypeOK
  <1> QED
    BY <1>1 DEF Answering

(***************************************************************************)
(* A method call is no answer, and a call it submits has a kind of answer. *)
(***************************************************************************)
LEMMA InvokeAnswering ==
    ASSUME TypeOK, Answering, NEW c \in Call, NEW q \in Request, Invoke(c, q)
    PROVE  Answering'
  <1>1. /\ status[c] = "idle" /\ UNCHANGED <<answering, verdict>>
        /\ \A d \in Call : d # c => status'[d] = status[d] /\ reply'[d] = reply[d]
        /\ status'[c] \in {"raised", "reported", "pending"}
    BY DEF Invoke, Report, TypeOK
  <1>2. status'[c] = "pending" => reply'[c] # "none"
    <2> SUFFICES ASSUME status'[c] = "pending" PROVE reply'[c] # "none"
      OBVIOUS
    <2>1. Exit(q.method, q.args, conn = "ready") = "submitted"
      BY DEF Invoke, Report, TypeOK
    <2>2. ReplyTo(q.method, q.args) \in Replies
      BY <2>1, RequestAssumption, AnswerTyped
    <2> QED
      BY <2>1, <2>2 DEF Invoke, TypeOK, Replies
  <1>3. answering # Nil => answering \in Call /\ answering # c
    BY <1>1 DEF TypeOK, Answering
  <1> QED
    BY <1>1, <1>2, <1>3 DEF Answering

(***************************************************************************)
(* An answer runs the callback of its call, or the program ends.           *)
(***************************************************************************)
LEMMA AnswerAnswering ==
    ASSUME TypeOK, Answering, NEW c \in Call, Answer(c)
    PROVE  Answering'
  <1>1. answering = Nil /\ status[c] = "pending" /\ c # Nil
    BY DataAssumption, NilAssumption
       DEF Answer, success_callback, info_callback_list, info_callback_single,
           server_info_callback, Pending, Idle
  <1>2. \A d \in Call : status[d] # "running" /\ d # Nil
    BY <1>1, DataAssumption, NilAssumption DEF Answering
  <1>3. ASSUME NEW v \in {"ok", "error"}, NEW w \in Words, Answered(c, v, w) PROVE Answering'
    BY <1>1, <1>2, <1>3 DEF Answered, Answering, TypeOK
  <1>4. ASSUME Crashed(c) PROVE Answering'
    BY <1>1, <1>2, <1>4 DEF Crashed, Answering, TypeOK
  <1>5. ASSUME reply[c] = "single", verdict' = [verdict EXCEPT ![c] = "ok"], answering' = c,
               UNCHANGED <<status, reply>>
        PROVE  Answering'
    BY <1>1, <1>2, <1>5 DEF Answering, TypeOK
  <1>6. CASE success_callback(c)
    BY <1>3, <1>6 DEF success_callback, Words
  <1>7. CASE info_callback_list(c)
    BY <1>3, <1>7 DEF info_callback_list, Words
  <1>8. CASE info_callback_single(c)
    BY <1>4, <1>5, <1>8 DEF info_callback_single, Pending
  <1>9. CASE server_info_callback(c)
    BY <1>3, <1>4, <1>9 DEF server_info_callback, Words
  <1> QED
    BY <1>6, <1>7, <1>8, <1>9 DEF Answer

(***************************************************************************)
(* Every step keeps Answering.                                             *)
(***************************************************************************)
LEMMA AnsweringNext ==
    ASSUME TypeOK, Answering, [Next]_vars
    PROVE  Answering'
  <1>1. ASSUME NEW f \in StateFn, NEW how \in How, context_connect(f, how) PROVE Answering'
    BY <1>1, AnsweringUntouched DEF context_connect, callVars
  <1>2. CASE context_disconnect
    BY <1>2, AnsweringUntouched DEF context_disconnect, callVars
  <1>3. CASE Dialled \/ DaemonAppears \/ Welcomed \/ ConnectionLost
    BY <1>3, AnsweringUntouched
       DEF Dialled, DaemonAppears, Welcomed, Untold, ConnectionLost, callVars
  <1>4. CASE StateReturn
    BY <1>4, AnsweringUntouched DEF StateReturn, Cancelled, TypeOK
  <1>5. CASE AnswerReturn
    <2>1. CASE status[answering] = "pending"
      BY <1>5, <2>1, AnsweringUntouched DEF AnswerReturn
    <2>2. CASE status[answering] # "pending"
      <3>1. answering \in Call /\ answering' = Nil /\ reply' = reply
        BY <1>5, <2>2 DEF AnswerReturn, TypeOK
      <3>2. \A c \in Call : \/ status'[c] = status[c] /\ (c = answering => status[c] # "running")
                            \/ status'[c] \in {"done", "cancelled"}
        BY <1>5, <2>2 DEF AnswerReturn, Cancelled, TypeOK
      <3> QED
        BY <3>1, <3>2 DEF Answering
    <2> QED
      BY <2>1, <2>2
  <1>6. CASE CallbackError
    BY <1>6, AnsweringUntouched DEF CallbackError, callVars
  <1>7. CASE context__gc
    BY <1>7, AnsweringUntouched DEF context__gc, Cancelled, TypeOK
  <1>8. CASE UNCHANGED vars \/ \E d \in Stranger : OtherContext(d)
    BY <1>8, AnsweringUntouched DEF vars, callVars, OtherContext
  <1> QED
    BY <1>1, <1>2, <1>3, <1>4, <1>5, <1>6, <1>7, <1>8, InvokeAnswering, AnswerAnswering DEF Next

(***************************************************************************)
(* A cause of a fault, once there, does not go away.                       *)
(***************************************************************************)
LEMMA CauseStays ==
    ASSUME FaultsHaveCauses, fate' = "fault" => fate = "fault", pinned => pinned',
           UNCHANGED <<reply, verdict>>
    PROVE  FaultsHaveCauses'
  BY DEF FaultsHaveCauses

(***************************************************************************)
(* Socket events find the state they assert, and a Context to tell.        *)
(***************************************************************************)
LEMMA SocketFaults ==
    ASSUME TypeOK, Frames, FaultsHaveCauses, Dialled \/ DaemonAppears \/ Welcomed \/ ConnectionLost
    PROVE  FaultsHaveCauses'
  <1>1. pinned' = pinned /\ Idle /\ wire # "down"
    BY DEF Dialled, DaemonAppears, Welcomed, Untold, ConnectionLost
  <1>2. CASE pinned
    BY <1>1, <1>2 DEF FaultsHaveCauses
  <1>3. CASE ~pinned
    <2>1. ~gone /\ announcing = "none"
      BY <1>1, <1>3 DEF Frames, Idle
    <2>2. /\ wire = "dialing" => conn = "connecting"
          /\ wire = "greeting" => conn \in {"authorizing", "setting_name"}
      BY <1>3, <2>1 DEF Frames, End
    <2>3. fate' = fate /\ UNCHANGED <<reply, verdict>>
      BY <2>1, <2>2 DEF Dialled, DaemonAppears, Welcomed, Untold, ConnectionLost, SetState,
                        callVars
    <2> QED
      BY <1>1, <2>3, CauseStays
  <1> QED
    BY <1>2, <1>3

(***************************************************************************)
(* Every step that faults has a cause.                                     *)
(***************************************************************************)
LEMMA FaultsHaveCausesNext ==
    ASSUME IInv, [Next]_vars
    PROVE  FaultsHaveCauses'
  <1> USE DEF IInv
  <1>1. ASSUME NEW c \in Call, NEW q \in Request, Invoke(c, q) PROVE FaultsHaveCauses'
    <2>1. /\ UNCHANGED <<fate, pinned, verdict>>
          /\ status[c] = "idle" /\ \A d \in Call : d # c => reply'[d] = reply[d]
      BY <1>1 DEF Invoke, connVars, TypeOK
    <2>2. reply[c] = "none"
      BY <2>1 DEF Hearing
    <2> QED
      BY <2>1, <2>2 DEF FaultsHaveCauses
  <1>2. ASSUME NEW f \in StateFn, NEW how \in How, context_connect(f, how) PROVE FaultsHaveCauses'
    BY <1>2, CauseStays DEF context_connect, callVars
  <1>3. CASE context_disconnect
    BY <1>3, CauseStays DEF context_disconnect, callVars
  <1>4. CASE StateReturn
    BY <1>4, CauseStays DEF StateReturn
  <1>5. ASSUME NEW c \in Call, Answer(c) PROVE FaultsHaveCauses'
    <2>1. /\ pinned' = pinned /\ reply' = reply
          /\ \A d \in Call : d # c => verdict'[d] = verdict[d]
          /\ fate = "running" /\ fate' \in {"running", "fault"}
      BY <1>5 DEF Answer, success_callback, info_callback_list, info_callback_single,
                  server_info_callback, Answered, Crashed, Pending, Idle, connVars, TypeOK
    <2>2. fate' = "fault" => verdict'[c] = "error" /\ reply[c] \in {"single", "server"}
      BY <1>5 DEF Answer, success_callback, info_callback_list, info_callback_single,
                  server_info_callback, Answered, Crashed, Pending, Idle, TypeOK
    <2> QED
      BY <2>1, <2>2 DEF FaultsHaveCauses
  <1>6. CASE AnswerReturn
    <2>1. UNCHANGED <<pinned, reply, verdict>> /\ answering # Nil
      BY <1>6 DEF AnswerReturn
    <2>2. answering \in Call
      BY <2>1 DEF TypeOK
    <2>3. CASE status[answering] = "pending"
      <3>1. reply[answering] = "single" /\ verdict[answering] # "none"
        BY <2>1, <2>3 DEF Answering
      <3> QED
        BY <2>1, <2>2, <3>1 DEF FaultsHaveCauses
    <2>4. CASE status[answering] # "pending"
      BY <1>6, <2>1, <2>4, CauseStays DEF AnswerReturn
    <2> QED
      BY <2>3, <2>4
  <1>7. CASE CallbackError
    BY <1>7 DEF CallbackError, FaultsHaveCauses
  <1>8. CASE context__gc
    BY <1>8, CauseStays DEF context__gc
  <1>9. ASSUME NEW d \in Stranger, OtherContext(d) PROVE FaultsHaveCauses'
    BY <1>9, CauseStays DEF OtherContext, connVars, callVars
  <1>10. CASE UNCHANGED vars
    BY <1>10, CauseStays DEF vars, connVars, callVars
  <1> QED
    BY <1>1, <1>2, <1>3, <1>4, <1>5, <1>6, <1>7, <1>8, <1>9, <1>10,
       SocketFaults DEF Next

-----------------------------------------------------------------------------
(***************************************************************************)
(* The invariant is inductive.                                             *)
(***************************************************************************)
LEMMA TypeNext == TypeOK /\ [Next]_vars => TypeOK'
  <1> SUFFICES ASSUME TypeOK, [Next]_vars PROVE TypeOK'
    OBVIOUS
  <1>1. CASE CallbackError
    BY <1>1 DEF CallbackError, TypeOK, CallbackTypeOK, connVars, callVars, callbackVars
  <1>2. CASE UNCHANGED vars
    BY <1>2 DEF vars, TypeOK, CallbackTypeOK, connVars, callVars, callbackVars
  <1> QED
    BY <1>1, <1>2, InvokeTyped, ConnectionTyped, StateReturnTyped, AnswerActionTyped,
       AnswerReturnTyped, CollectTyped, OtherTyped DEF Next

(***************************************************************************)
(* IInv holds in every reachable state of every instance of Context.       *)
(***************************************************************************)
THEOREM Inductive == Spec => []IInv
  <1>1. IInv /\ [Next]_vars => IInv'
    BY TypeNext, FramesNext, PendingNeedsTransportNext, ListenerInformedNext, MemoryNext,
       HearingNext, AnsweringNext, FaultsHaveCausesNext DEF IInv
  <1> QED
    BY <1>1, IInvInit, PTL DEF Spec

(***************************************************************************)
(* Whatever the instance, data that libpulse may call back with is         *)
(* allocated and its thread anchored.                                      *)
(***************************************************************************)
THEOREM MemorySafety == Spec => []AwaitedDataUsable
  <1>1. IInv => AwaitedDataUsable
    BY DEF IInv, Memory
  <1> QED
    BY <1>1, Inductive, PTL

(***************************************************************************)
(* Every occupied slot of the registry belongs to live data, or to a call  *)
(* that raised while it was prepared; data that was freed has left none.   *)
(***************************************************************************)
THEOREM SlotsHaveOwners == Spec => []SlotsAccounted
  <1>1. IInv => SlotsAccounted
    BY DEF IInv, Memory
  <1> QED
    BY <1>1, Inductive, PTL

(***************************************************************************)
(* The collector frees the data of the state callback only when nothing    *)
(* can call it any more, or when an error made libpulse keep the context.  *)
(***************************************************************************)
THEOREM CollectorSafety == Spec => []StateDataOutlivesTransport
  <1>1. IInv => StateDataOutlivesTransport
    BY DEF IInv, Frames, Memory, StateDataOutlivesTransport
  <1> QED
    BY <1>1, Inductive, PTL

(***************************************************************************)
(* No callback is called twice.                                            *)
(***************************************************************************)
THEOREM AnsweredOnce == Spec => []AtMostOnce
  <1>1. IInv => AtMostOnce
    BY DEF IInv, Hearing
  <1> QED
    BY <1>1, Inductive, PTL

(***************************************************************************)
(* A command's callback hears the verdict of the server, as it was given.  *)
(***************************************************************************)
THEOREM VerdictsHeard == Spec => []CommandVerdictHeard
  <1>1. IInv => CommandVerdictHeard
    BY DEF IInv, Hearing
  <1> QED
    BY <1>1, Inductive, PTL

(***************************************************************************)
(* Closing the transport leaves no operation behind.                       *)
(***************************************************************************)
THEOREM NothingPendsUnlinked == Spec => []PendingNeedsTransport
  <1>1. IInv => PendingNeedsTransport
    BY DEF IInv
  <1> QED
    BY <1>1, Inductive, PTL

(***************************************************************************)
(* Whoever waits waits for something that is under way, or asked to wait   *)
(* for a daemon: with fairness this is why calls and all other connection  *)
(* attempts come to an end.                                                *)
(***************************************************************************)
THEOREM NobodyForgotten == Spec => []WaitersAreServed
  <1>1. IInv => WaitersAreServed
    BY DEF IInv, Frames, PendingNeedsTransport, Answering, Idle, WaitersAreServed
  <1> QED
    BY <1>1, Inductive, PTL

(***************************************************************************)
(* A program faults for the three known reasons only.                      *)
(***************************************************************************)
THEOREM OnlyKnownFaults == Spec => []FaultsHaveCauses
  <1>1. IInv => FaultsHaveCauses
    BY DEF IInv
  <1> QED
    BY <1>1, Inductive, PTL

(***************************************************************************)
(* The function that listens now was itself told the current state, unless *)
(* it disconnected the Context or a refused connect has just put it there. *)
(***************************************************************************)
THEOREM ListenerKnows == Spec => []ListenerInformed
  <1>1. IInv => ListenerInformed
    BY DEF IInv
  <1> QED
    BY <1>1, Inductive, PTL

(***************************************************************************)
(* TypeOK is an invariant of every instance.                               *)
(***************************************************************************)
THEOREM TypeCorrect == Spec => []TypeOK
  <1>1. IInv => TypeOK
    BY DEF IInv
  <1> QED
    BY <1>1, Inductive, PTL

-----------------------------------------------------------------------------
(***************************************************************************)
(* A call that is over stays over: no step touches it.                     *)
(***************************************************************************)
LEMMA FinalStep ==
    ASSUME TypeOK, [Next]_vars, NEW c \in Call, status[c] \in Final
    PROVE  status'[c] = status[c] /\ heard'[c] = heard[c]
  <1> USE DEF Final
  <1>1. ASSUME NEW d \in Call, NEW q \in Request, Invoke(d, q)
        PROVE  status'[c] = status[c] /\ heard'[c] = heard[c]
    BY <1>1 DEF Invoke, Report, Hear, TypeOK
  <1>2. ASSUME NEW d \in Call, Answer(d)
        PROVE  status'[c] = status[c] /\ heard'[c] = heard[c]
    BY <1>2 DEF Answer, success_callback, info_callback_list, info_callback_single,
                server_info_callback, Answered, Crashed, Pending, Hear, TypeOK
  <1>3. CASE StateReturn \/ AnswerReturn \/ context__gc
    BY <1>3 DEF StateReturn, AnswerReturn, context__gc, Cancelled, TypeOK
  <1> QED
    BY <1>1, <1>2, <1>3
       DEF Next, vars, callVars, context_connect, context_disconnect, Dialled,
           DaemonAppears, Welcomed, ConnectionLost, CallbackError, OtherContext

(***************************************************************************)
(* A call that was raised, reported, answered or cancelled stays so, and   *)
(* its callback hears nothing more.                                        *)
(***************************************************************************)
THEOREM OverIsOver == Spec => FinalIsFinal
  <1>1. TypeOK /\ [Next]_vars =>
          [\A c \in Call : status[c] \in Final => status'[c] = status[c] /\ heard'[c] = heard[c]]_vars
    BY FinalStep
  <1> QED
    BY <1>1, TypeCorrect, PTL DEF Spec, FinalIsFinal

(***************************************************************************)
(* The listener is told the states in order, each at most once, and the    *)
(* end last.                                                               *)
(***************************************************************************)
THEOREM TellsForward == Spec => ToldInOrder
  <1> DEFINE InOrder == announcing' \notin {"none", announcing} => Stage[told] < Stage[announcing']
  <1>1. IInv /\ [Next]_vars => [InOrder]_vars
    <2> SUFFICES ASSUME IInv, Next PROVE InOrder
      OBVIOUS
    <2>1. TypeOK /\ Frames /\ (conn # "unconnected" /\ ~pinned => told = conn)
      BY DEF IInv, ListenerInformed
    <2>2. /\ conn = "unconnected" => Stage[told] = 0
          /\ told \notin End => Stage[told] < 5
      BY <2>1 DEF Stage, Frames, TypeOK, ConnState, Good, End
    <2> USE DEF End
    <2>3. ASSUME NEW c \in Call, NEW q \in Request, Invoke(c, q) PROVE InOrder
      BY <2>3 DEF Invoke, connVars
    <2>4. ASSUME NEW c \in Call, Answer(c) PROVE InOrder
      BY <2>4 DEF Answer, success_callback, info_callback_list, info_callback_single,
                  server_info_callback, Answered, Crashed, connVars
    <2>5. ASSUME NEW f \in StateFn, NEW how \in How, context_connect(f, how) PROVE InOrder
      BY <2>2, <2>5 DEF context_connect, pa_context_connect, context_state_callback, Stage
    <2>6. CASE context_disconnect
      BY <2>1, <2>2, <2>6 DEF context_disconnect, context_state_callback, Frames, Good, Stage
    <2>7. CASE Dialled
      BY <2>1, <2>7 DEF Dialled, Untold, Idle, SetState, context_state_callback, Frames, Stage
    <2>8. CASE Welcomed
      BY <2>1, <2>8 DEF Welcomed, Untold, Idle, SetState, context_state_callback, Frames, Stage
    <2>9. CASE ConnectionLost
      BY <2>1, <2>2, <2>9
         DEF ConnectionLost, Idle, SetState, context_state_callback, Frames, Stage
    <2>10. CASE StateReturn
      BY <2>1, <2>10 DEF StateReturn, context_state_callback, Frames, Stage
    <2> QED
      BY <2>3, <2>4, <2>5, <2>6, <2>7, <2>8, <2>9, <2>10
         DEF Next, AnswerReturn, CallbackError, connVars, context__gc, OtherContext,
             DaemonAppears, Untold
  <1> QED
    BY <1>1, Inductive, PTL DEF Spec, ToldInOrder

-----------------------------------------------------------------------------
(***************************************************************************)
(* The refinement: each step of Context is a step of AsyncCalls, or leaves *)
(* outcome and closed alone.  Steps that move no call along are told apart *)
(* by what they do to the transport.                                       *)
(***************************************************************************)
LEMMA OutcomeAt ==
    ASSUME NEW c \in Call
    PROVE  /\ outcome[c] = Outcome(status[c], heard[c])
           /\ outcome'[c] = Outcome(status'[c], heard'[c])
  BY DEF outcome

(***************************************************************************)
(* A step that changes the outcome of one call updates outcome there.      *)
(***************************************************************************)
LEMMA OutcomeMoved ==
    ASSUME NEW c \in Call, NEW o, outcome'[c] = o,
           \A d \in Call : d # c => outcome'[d] = outcome[d]
    PROVE  outcome' = [outcome EXCEPT ![c] = o]
  BY DEF outcome

(***************************************************************************)
(* That a callback returned is no news to AsyncCalls.                      *)
(***************************************************************************)
LEMMA OutcomeKept ==
    ASSUME heard' = heard,
           \A c \in Call : \/ status'[c] = status[c]
                           \/ status[c] = "running" /\ status'[c] = "done"
    PROVE  outcome' = outcome
  <1>1. ASSUME NEW c \in Call PROVE outcome'[c] = outcome[c]
    <2>1. CASE status'[c] = status[c]
      BY <2>1, OutcomeAt
    <2>2. CASE status[c] = "running" /\ status'[c] = "done"
      BY <2>2, OutcomeAt DEF Outcome
    <2> QED
      BY <2>1, <2>2
  <1> QED
    BY <1>1 DEF outcome

(***************************************************************************)
(* A step that cancels what pends drops what waits.                        *)
(***************************************************************************)
LEMMA OutcomeDropped ==
    ASSUME TypeOK, heard' = heard,
           \A c \in Call : \/ status'[c] = status[c] /\ status[c] # "pending"
                           \/ status[c] = "running" /\ status'[c] = "done"
                           \/ status[c] = "pending" /\ status'[c] = "cancelled"
    PROVE  outcome' = [c \in Call |-> IF outcome[c] = "waiting" THEN "dropped" ELSE outcome[c]]
  <1>1. ASSUME NEW c \in Call
        PROVE  outcome'[c] = IF outcome[c] = "waiting" THEN "dropped" ELSE outcome[c]
    <2>1. CASE status'[c] = status[c] /\ status[c] # "pending"
      <3>1. outcome[c] # "waiting"
        BY <2>1, OutcomeAt DEF Outcome, TypeOK
      <3> QED
        BY <2>1, <3>1, OutcomeAt
    <2>2. CASE status[c] = "running" /\ status'[c] = "done"
      BY <2>2, OutcomeAt DEF Outcome
    <2>3. CASE status[c] = "pending" /\ status'[c] = "cancelled"
      BY <2>3, OutcomeAt DEF Outcome
    <2> QED
      BY <2>1, <2>2, <2>3
  <1>2. \A c \in Call : outcome'[c] = IF outcome[c] = "waiting" THEN "dropped" ELSE outcome[c]
    BY <1>1
  <1> QED
    BY <1>2 DEF outcome

(***************************************************************************)
(* Without a transport no call waits.                                      *)
(***************************************************************************)
LEMMA NoneWaiting ==
    ASSUME TypeOK, PendingNeedsTransport, wire = "down"
    PROVE  /\ \A c \in Call : status[c] # "pending"
           /\ \A c \in Call : outcome[c] # "waiting"
           /\ outcome = [c \in Call |-> IF outcome[c] = "waiting" THEN "dropped" ELSE outcome[c]]
  <1>1. \A c \in Call : status[c] # "pending"
    BY DEF PendingNeedsTransport
  <1>2. \A c \in Call : outcome[c] # "waiting"
    BY <1>1, OutcomeAt DEF Outcome, TypeOK
  <1> QED
    BY <1>1, <1>2 DEF outcome

(***************************************************************************)
(* closed is a truth value, before and after a step.                       *)
(***************************************************************************)
LEMMA ClosedType == closed \in BOOLEAN /\ closed' \in BOOLEAN
  BY DEF closed

\* A step that drops what pends, if anything does, when the transport goes down.
LEMMA CloseStep ==
    ASSUME TypeOK, PendingNeedsTransport, heard' = heard, closed',
           \A c \in Call : \/ status'[c] = status[c] /\ status[c] # "pending"
                           \/ status[c] = "running" /\ status'[c] = "done"
                           \/ status[c] = "pending" /\ status'[c] = "cancelled"
    PROVE  Abstract!Close \/ UNCHANGED <<outcome, closed>>
  <1>1. CASE ~closed
    BY <1>1, OutcomeDropped DEF Abstract!Close
  <1>2. CASE closed
    BY <1>2, OutcomeDropped, NoneWaiting DEF closed
  <1> QED
    BY <1>1, <1>2

\* A step that leaves every call as it is, with nothing pending if it closes.
LEMMA QuietStep ==
    ASSUME TypeOK, PendingNeedsTransport, heard' = heard,
           \A c \in Call : \/ status'[c] = status[c]
                           \/ status[c] = "running" /\ status'[c] = "done",
           closed => closed', closed' /\ ~closed => wire = "down"
    PROVE  Abstract!Close \/ UNCHANGED <<outcome, closed>>
  <1>1. CASE closed' /\ ~closed
    BY <1>1, OutcomeKept, NoneWaiting DEF Abstract!Close
  <1>2. CASE ~(closed' /\ ~closed)
    BY <1>2, OutcomeKept, ClosedType
  <1> QED
    BY <1>1, <1>2

(***************************************************************************)
(* A method call rejects or submits the call.                              *)
(***************************************************************************)
LEMMA InvokeRefines ==
    ASSUME IInv, NEW c \in Call, NEW q \in Request, Invoke(c, q)
    PROVE  Abstract!Reject(c) \/ Abstract!Submit(c)
  <1>1. /\ closed' = closed
        /\ status[c] = "idle" /\ heard[c] = <<>>
        /\ \A d \in Call : d # c => status'[d] = status[d] /\ heard'[d] = heard[d]
        /\ status'[c] \in {"raised", "reported", "pending"}
    BY DEF Invoke, Report, Hear, closed, connVars, IInv, TypeOK, Hearing
  <1>2. outcome[c] = "unused"
    BY <1>1, OutcomeAt DEF Outcome
  <1>3. \A d \in Call : d # c => outcome'[d] = outcome[d]
    BY <1>1, OutcomeAt
  <1>4. CASE status'[c] \in {"raised", "reported"}
    <2>1. outcome'[c] = "rejected"
      BY <1>4, OutcomeAt DEF Outcome
    <2> QED
      BY <1>1, <1>2, <1>3, <2>1, OutcomeMoved DEF Abstract!Reject, Abstract!Become
  <1>5. CASE status'[c] = "pending"
    <2>1. Exit(q.method, q.args, conn = "ready") = "submitted" /\ heard' = heard
      BY <1>1, <1>5 DEF Invoke, Report, IInv, TypeOK
    <2>2. ~closed
      BY <2>1, SubmittedOnlyReady DEF Invoke, Running, closed, End
    <2>3. outcome'[c] = "waiting"
      BY <1>1, <1>5, <2>1, OutcomeAt DEF Outcome
    <2> QED
      BY <1>1, <1>2, <1>3, <2>2, <2>3, OutcomeMoved DEF Abstract!Submit, Abstract!Become
  <1> QED
    BY <1>1, <1>4, <1>5

(***************************************************************************)
(* An answer answers the call, or crashes and changes no outcome.          *)
(***************************************************************************)
LEMMA AnswerRefines ==
    ASSUME IInv, NEW c \in Call, Answer(c)
    PROVE  Abstract!Answer(c) \/ UNCHANGED <<outcome, closed>>
  <1>1. /\ closed' = closed /\ ~closed
        /\ status[c] = "pending" /\ heard[c] = <<>>
    BY DataAssumption, NilAssumption
       DEF Answer, success_callback, info_callback_list, info_callback_single,
           server_info_callback, Answered, Crashed, Pending, Idle, closed, connVars,
           IInv, Hearing
  <1>2. CASE UNCHANGED <<status, heard>>
    BY <1>1, <1>2, OutcomeKept
  <1>3. ASSUME NEW w \in Words, Hear(c, w), status'[c] \in {"pending", "running"},
               \A d \in Call : d # c => status'[d] = status[d]
        PROVE  Abstract!Answer(c)
    <2>1. heard'[c] # <<>> /\ \A d \in Call : d # c => heard'[d] = heard[d]
      BY <1>1, <1>3, HearOnce DEF IInv
    <2>2. outcome[c] = "waiting" /\ outcome'[c] = "answered"
      BY <1>1, <1>3, <2>1, OutcomeAt DEF Outcome
    <2>3. \A d \in Call : d # c => outcome'[d] = outcome[d]
      BY <1>3, <2>1, OutcomeAt
    <2> QED
      BY <1>1, <2>2, <2>3, OutcomeMoved DEF Abstract!Answer, Abstract!Become
  <1>4. \/ UNCHANGED <<status, heard>>
        \/ \E w \in Words : /\ Hear(c, w) /\ status'[c] \in {"pending", "running"}
                            /\ \A d \in Call : d # c => status'[d] = status[d]
    BY <1>1 DEF Answer, success_callback, info_callback_list, info_callback_single,
                server_info_callback, Answered, Crashed, IInv, TypeOK, Words
  <1> QED
    BY <1>2, <1>3, <1>4

(***************************************************************************)
(* The return of a state callback closes, or changes no outcome.           *)
(***************************************************************************)
LEMMA StateReturnRefines ==
    ASSUME IInv, StateReturn
    PROVE  Abstract!Close \/ UNCHANGED <<outcome, closed>>
  <1> USE DEF IInv
  <1>1. CASE /\ announcing \in End \/ gone
             /\ status' = Cancelled(status) /\ wire' = "down"
    <2>1. closed'
      BY <1>1 DEF StateReturn, context_state_callback, Frames, closed, End
    <2>2. \A c \in Call : \/ status'[c] = status[c] /\ status[c] # "pending"
                          \/ status[c] = "pending" /\ status'[c] = "cancelled"
      BY <1>1 DEF Cancelled
    <2> QED
      BY <2>1, <2>2, CloseStep DEF StateReturn
  <1>2. CASE status' = status /\ wire' \in {wire, "dialing", "waiting"}
    <2>1. (closed => closed') /\ (closed' /\ ~closed => wire = "down")
      BY <1>2 DEF StateReturn, context_state_callback, Frames, closed, End
    <2> QED
      BY <1>2, <2>1, QuietStep DEF StateReturn
  <1> QED
    BY <1>1, <1>2 DEF StateReturn

(***************************************************************************)
(* The return of an answer's callback closes, or changes no outcome.       *)
(***************************************************************************)
LEMMA AnswerReturnRefines ==
    ASSUME IInv, AnswerReturn
    PROVE  Abstract!Close \/ UNCHANGED <<outcome, closed>>
  <1> USE DEF IInv
  <1>1. CASE status[answering] = "pending"
    BY <1>1, OutcomeKept DEF AnswerReturn, closed
  <1>2. CASE status[answering] # "pending" /\ gone /\ ~pinned
    <2>1. closed'
      BY <1>2 DEF AnswerReturn, closed
    <2>2. \A c \in Call : \/ status'[c] = status[c] /\ status[c] # "pending"
                          \/ status[c] = "running" /\ status'[c] = "done"
                          \/ status[c] = "pending" /\ status'[c] = "cancelled"
      BY <1>2 DEF AnswerReturn, Cancelled, TypeOK
    <2> QED
      BY <2>1, <2>2, CloseStep DEF AnswerReturn
  <1>3. CASE status[answering] # "pending" /\ ~(gone /\ ~pinned)
    <2>1. \A c \in Call : \/ status'[c] = status[c]
                          \/ status[c] = "running" /\ status'[c] = "done"
      BY <1>3 DEF AnswerReturn, TypeOK
    <2> QED
      BY <1>3, <2>1, OutcomeKept DEF AnswerReturn, closed
  <1> QED
    BY <1>1, <1>2, <1>3

(***************************************************************************)
(* Collecting the Context closes, or changes no outcome.                   *)
(***************************************************************************)
LEMMA CollectRefines ==
    ASSUME IInv, context__gc
    PROVE  Abstract!Close \/ UNCHANGED <<outcome, closed>>
  <1> USE DEF IInv
  <1>1. CASE Idle /\ ~pinned
    <2>1. closed'
      BY <1>1 DEF context__gc, closed
    <2>2. \A c \in Call : \/ status'[c] = status[c] /\ status[c] # "pending"
                          \/ status[c] = "pending" /\ status'[c] = "cancelled"
      BY <1>1 DEF context__gc, Cancelled
    <2> QED
      BY <2>1, <2>2, CloseStep DEF context__gc
  <1>2. CASE ~(Idle /\ ~pinned)
    BY <1>2, QuietStep DEF context__gc, closed
  <1> QED
    BY <1>1, <1>2

(***************************************************************************)
(* Every instance of Context implements AsyncCalls.                        *)
(***************************************************************************)
THEOREM Refinement == Spec => ImplementsAsyncCalls
  <1>1. Init => Abstract!Init
    BY DEF Init, context_new, Abstract!Init, outcome, Outcome, closed, End
  <1>2. IInv /\ [Next]_vars => [Abstract!Next]_<<outcome, closed>>
    <2> SUFFICES ASSUME IInv, [Next]_vars
                 PROVE  Abstract!Next \/ UNCHANGED <<outcome, closed>>
      OBVIOUS
    <2> USE DEF IInv
    <2>1. ASSUME NEW f \in StateFn, NEW how \in How, context_connect(f, how)
          PROVE  Abstract!Close \/ UNCHANGED <<outcome, closed>>
      <3>1. /\ heard' = heard /\ status' = status /\ wire' = wire /\ gone' = gone
            /\ closed => closed'
            /\ closed' /\ ~closed => wire = "down"
        BY <2>1 DEF context_connect, pa_context_connect, context_state_callback, Running,
                    callVars, closed, End
      <3> QED
        BY <3>1, QuietStep
    <2>2. CASE context_disconnect
      <3>1. ~closed /\ (closed' => wire = "down")
        BY <2>2 DEF context_disconnect, Running, closed, Good, End
      <3> QED
        BY <2>2, <3>1, QuietStep DEF context_disconnect, callVars, Abstract!Next
    <2>3. CASE Dialled \/ DaemonAppears \/ Welcomed \/ ConnectionLost
      <3>1. ~closed /\ ~closed'
        BY <2>3 DEF Dialled, DaemonAppears, Welcomed, Untold, ConnectionLost, closed
      <3> QED
        BY <2>3, <3>1, OutcomeKept, ClosedType
           DEF Dialled, DaemonAppears, Welcomed, Untold, ConnectionLost, callVars
    <2>4. CASE CallbackError \/ UNCHANGED vars
      BY <2>4, OutcomeKept DEF CallbackError, vars, connVars, callVars, closed
    <2>5. ASSUME NEW d \in Stranger, OtherContext(d) PROVE UNCHANGED <<outcome, closed>>
      BY <2>5, OutcomeKept DEF OtherContext, connVars, callVars, closed
    <2> QED
      BY <2>1, <2>2, <2>3, <2>4, <2>5, InvokeRefines, AnswerRefines, StateReturnRefines,
         AnswerReturnRefines, CollectRefines DEF Next, Abstract!Next
  <1> QED
    BY <1>1, <1>2, Inductive, PTL DEF Spec, ImplementsAsyncCalls, Abstract!Spec, Abstract!vars

-----------------------------------------------------------------------------
(***************************************************************************)
(* The refinement of Anchors.  What a step does not touch of some data     *)
(* keeps its place in the life of the data.                                *)
(***************************************************************************)
LEMMA AnchorKept ==
    ASSUME NEW e \in Data, heap'[e] = heap[e], Usable(e)' <=> Usable(e),
           \A r \in Ref : slot'[r] = e <=> slot[r] = e
    PROVE  Anchor(e)' = Anchor(e)
  BY DEF Anchor

(***************************************************************************)
(* A step that moves exactly the data of D is a move of Anchors.           *)
(***************************************************************************)
LEMMA AnchorsMoved ==
    ASSUME NEW D \in SUBSET Data, NEW from, NEW to,
           \A d \in D : Anchor(d) = from /\ Anchor(d)' = to,
           \A e \in Data \ D : Anchor(e)' = Anchor(e)
    PROVE  Registry!Move(D, from, to)
  BY DEF Registry!Move, anchor

(***************************************************************************)
(* Taking a free slot moves only the data it is taken for.                 *)
(***************************************************************************)
LEMMA PrepareKeepsOthers ==
    ASSUME CallbackTypeOK, NEW d \in Data, NEW e \in Data, e # d,
           prepare_lua_callback(d) \/ prepare_lua_callback_raises(d)
    PROVE  Anchor(e)' = Anchor(e)
  <1>1. PICK r \in Ref : luaL_ref(d, r)
    BY DEF prepare_lua_callback, prepare_lua_callback_raises
  <1>2. heap'[e] = heap[e] /\ ref'[e] = ref[e]
    BY DEF prepare_lua_callback, prepare_lua_callback_raises, CallbackTypeOK
  <1>3. \A s \in Ref : slot'[s] = e <=> slot[s] = e
    BY <1>1, NilAssumption DEF luaL_ref, CallbackTypeOK
  <1>4. Usable(e)' <=> Usable(e)
    BY <1>2, <1>3 DEF Usable
  <1> QED
    BY <1>2, <1>3, <1>4, AnchorKept

(***************************************************************************)
(* prepare_lua_callback holds the thread of new data.                      *)
(***************************************************************************)
LEMMA PrepareHolds ==
    ASSUME CallbackTypeOK, NEW d \in Data, prepare_lua_callback(d),
           heap[d] = "none", \A r \in Ref : slot[r] # d
    PROVE  Registry!Hold(d)
  <1>1. Anchor(d) = "none"
    BY DEF Anchor, Usable
  <1>2. Anchor(d)' = "held"
    <2>1. Usable(d)'
      BY PrepareMakesUsable
    <2> QED
      BY <2>1 DEF Anchor, Usable
  <1>3. \A e \in Data \ {d} : Anchor(e)' = Anchor(e)
    BY PrepareKeepsOthers
  <1> QED
    BY <1>1, <1>2, <1>3, AnchorsMoved DEF Registry!Hold

(***************************************************************************)
(* A prepare_lua_callback that raises loses the thread.                    *)
(***************************************************************************)
LEMMA RaiseLoses ==
    ASSUME CallbackTypeOK, NEW d \in Data, prepare_lua_callback_raises(d),
           heap[d] = "none", \A r \in Ref : slot[r] # d
    PROVE  Registry!Lose(d)
  <1>1. Anchor(d) = "none"
    BY DEF Anchor, Usable
  <1>2. heap'[d] = "none" /\ \E r \in Ref : slot'[r] = d
    BY DEF prepare_lua_callback_raises, luaL_ref, CallbackTypeOK
  <1>3. Anchor(d)' = "lost"
    BY <1>2 DEF Anchor, Usable
  <1>4. \A e \in Data \ {d} : Anchor(e)' = Anchor(e)
    BY PrepareKeepsOthers
  <1> QED
    BY <1>1, <1>3, <1>4, AnchorsMoved DEF Registry!Lose

(***************************************************************************)
(* free_lua_callback releases the threads of usable data, and no other.    *)
(***************************************************************************)
LEMMA FreeReleases ==
    ASSUME TypeOK, SlotsAccounted, NEW D \in SUBSET Data, free_lua_callback(D),
           \A d \in D : Usable(d)
    PROVE  Registry!Release(D)
  <1>1. CallbackTypeOK
    BY DEF TypeOK
  <1>2. \A r \in Ref : slot'[r] # Nil => slot'[r] = slot[r] /\ slot[r] \notin D
    BY FreeClearsSlots
  <1>3. \A d \in Data : d # Nil
    BY NilAssumption
  <1>4. ASSUME NEW d \in D PROVE Anchor(d) = "held" /\ Anchor(d)' = "released"
    <2>1. heap'[d] = "freed" /\ \A r \in Ref : slot'[r] # d
      BY <1>2, <1>3 DEF free_lua_callback
    <2> QED
      BY <2>1 DEF Anchor, Usable
  <1>5. ASSUME NEW e \in Data \ D PROVE Anchor(e)' = Anchor(e)
    <2>1. heap'[e] = heap[e] /\ ref' = ref
      BY DEF free_lua_callback
    <2>2. \A r \in Ref : slot'[r] = e <=> slot[r] = e
      BY <1>2, <1>3 DEF free_lua_callback, Usable
    <2>3. Usable(e)' <=> Usable(e)
      BY <2>1, <2>2 DEF Usable
    <2> QED
      BY <2>1, <2>2, <2>3, AnchorKept
  <1> QED
    BY <1>4, <1>5, AnchorsMoved DEF Registry!Release

(***************************************************************************)
(* A step that leaves the registry alone is a stutter.                     *)
(***************************************************************************)
LEMMA AnchorsUntouched ==
    ASSUME UNCHANGED callbackVars
    PROVE  UNCHANGED anchor
  BY DEF anchor, Anchor, Usable, callbackVars

(***************************************************************************)
(* A call finds no thread anchored for it, and holds or loses one.         *)
(***************************************************************************)
LEMMA InvokeAnchors ==
    ASSUME TypeOK, Memory, NEW c \in Call, NEW q \in Request, Invoke(c, q)
    PROVE  Registry!Hold(c) \/ Registry!Lose(c) \/ UNCHANGED anchor
  <1>1. c \in Data /\ c # Nil /\ c \notin Stranger /\ CallbackTypeOK /\ status[c] = "idle"
    BY DataAssumption, NilAssumption DEF Invoke, TypeOK
  <1>2. heap[c] = "none" /\ \A r \in Ref : slot[r] # c
    BY <1>1 DEF Memory, SlotsAccounted
  <1>3. \/ prepare_lua_callback(c)
        \/ prepare_lua_callback_raises(c)
        \/ UNCHANGED callbackVars
    BY DEF Invoke
  <1> QED
    BY <1>1, <1>2, <1>3, PrepareHolds, RaiseLoses, AnchorsUntouched

(***************************************************************************)
(* Every instance of Context implements Anchors: whatever the Context, its *)
(* calls and the other Contexts do, in whatever order, data is held until  *)
(* it is released, released once, and by nobody but its owner.             *)
(***************************************************************************)
THEOREM AnchorsHeld == Spec => ImplementsAnchors
  <1>1. Init => Registry!Init
    <2> SUFFICES ASSUME Init PROVE Registry!Init
      OBVIOUS
    <2>1. \A d \in {StateData, EventData} : d \in Data /\ Usable(d)
      BY DataAssumption DEF Init, context_new, Usable
    <2>2. ASSUME NEW d \in Data, d \notin {StateData, EventData}
          PROVE  heap[d] = "none" /\ \A r \in Ref : slot[r] # d
      BY <2>2, NilAssumption DEF Init, context_new
    <2> QED
      BY <2>1, <2>2 DEF Registry!Init, anchor, Anchor, Usable
  <1>2. IInv /\ [Next]_vars => [Registry!Next]_anchor
    <2> SUFFICES ASSUME IInv, [Next]_vars
                 PROVE  Registry!Next \/ UNCHANGED anchor
      OBVIOUS
    <2>1. TypeOK /\ Memory /\ SlotsAccounted /\ CallbackTypeOK
      BY DEF IInv, Memory, TypeOK
    <2>2. ASSUME NEW c \in Call, NEW q \in Request, Invoke(c, q)
          PROVE  Registry!Next \/ UNCHANGED anchor
      BY <2>1, <2>2, InvokeAnchors, DataAssumption DEF Registry!Next
    <2>3. CASE AnswerReturn
      <3>1. CASE status[answering] = "running"
        <4>1. answering \in Call /\ {answering} \in SUBSET Data
          BY <2>1, <2>3, DataAssumption DEF AnswerReturn, TypeOK
        <4>2. \A d \in {answering} : Usable(d)
          BY <2>1, <3>1, <4>1 DEF Memory, AwaitedDataUsable
        <4> QED
          BY <2>1, <2>3, <3>1, <4>1, <4>2, FreeReleases DEF AnswerReturn, Registry!Next
      <3>2. CASE status[answering] # "running"
        BY <2>3, <3>2, AnchorsUntouched DEF AnswerReturn, callbackVars
      <3> QED
        BY <3>1, <3>2
    <2>4. CASE context__gc
      <3>1. {StateData, EventData} \in SUBSET Data
        BY DataAssumption
      <3>2. \A d \in {StateData, EventData} : Usable(d)
        BY <2>1, <2>4 DEF context__gc, Running, Memory
      <3> QED
        BY <2>1, <2>4, <3>1, <3>2, FreeReleases DEF context__gc, Registry!Next
    <2>5. ASSUME NEW d \in Stranger, OtherContext(d)
          PROVE  Registry!Next \/ UNCHANGED anchor
      <3>1. d \in Data /\ {d} \in SUBSET Data
        BY DataAssumption
      <3>2. CASE heap[d] = "none" /\ \A r \in Ref : slot[r] # d
        BY <2>1, <2>5, <3>1, <3>2, PrepareHolds, RaiseLoses DEF OtherContext, Registry!Next
      <3>3. CASE heap[d] = "live" /\ free_lua_callback({d})
        <4>1. \A e \in {d} : Usable(e)
          BY <2>1, <3>1, <3>3 DEF Memory, Anchored
        <4> QED
          BY <2>1, <3>1, <3>3, <4>1, FreeReleases DEF Registry!Next
      <3> QED
        BY <2>5, <3>2, <3>3 DEF OtherContext
    <2>6. ASSUME NEW f \in StateFn, NEW how \in How, context_connect(f, how)
          PROVE  UNCHANGED anchor
      BY <2>6, AnchorsUntouched DEF context_connect
    <2>7. CASE \/ context_disconnect \/ Dialled \/ DaemonAppears \/ Welcomed \/ ConnectionLost
               \/ StateReturn \/ CallbackError \/ UNCHANGED vars
      BY <2>7, AnchorsUntouched
         DEF context_disconnect, Dialled, DaemonAppears, Welcomed, ConnectionLost, StateReturn,
             CallbackError, vars
    <2>8. ASSUME NEW c \in Call, Answer(c) PROVE UNCHANGED anchor
      BY <2>8, AnchorsUntouched
         DEF Answer, success_callback, info_callback_list, info_callback_single,
             server_info_callback, Answered, Crashed
    <2> QED
      BY <2>2, <2>3, <2>4, <2>5, <2>6, <2>7, <2>8 DEF Next
  <1> QED
    BY <1>1, <1>2, Inductive, PTL DEF Spec, ImplementsAnchors, Registry!Spec
=============================================================================
