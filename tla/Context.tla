------------------------------ MODULE Context ------------------------------
(***************************************************************************)
(* A Context from context_new to the end of the program: its connection,   *)
(* the asynchronous calls made on it, the Lua callbacks they run, and the  *)
(* garbage collector (context.c, introspection.c, callback.c).             *)
(*                                                                         *)
(* There is one OS thread.  The GLib main loop enters libpulse, libpulse   *)
(* enters a C callback, the C callback enters a Lua function, and that Lua *)
(* function may enter libpulse again through any method of the Context, or *)
(* drop the last reference to it.  What interleaves is therefore the loop, *)
(* the server, and user code that runs with callbacks half finished below  *)
(* it on the C stack.  answering and announcing are those half finished    *)
(* callbacks; the loop dispatches nothing while there is one.              *)
(*                                                                         *)
(* libpulse is external: pa_context_set_state runs the state callback and  *)
(* only then, in FAILED and TERMINATED, unlinks the context, which cancels *)
(* every operation; an operation is created in READY only and answered     *)
(* once; assertions abort the program.                                     *)
(***************************************************************************)
EXTENDS Handlers, Callback, Sequences

CONSTANTS
    Call,       \* the asynchronous calls the program makes
    Request,    \* the methods and arguments it makes them with
    StateFn,    \* the functions it passes to connect
    StateData, EventData,   \* the Context's own callback data
    Stranger    \* the callback data of the program's other Contexts

ASSUME DataAssumption ==
    /\ Data = Call \cup {StateData, EventData} \cup Stranger
    /\ StateData \notin Call
    /\ EventData \notin Call
    /\ StateData # EventData
    /\ Stranger \cap (Call \cup {StateData, EventData}) = {}

ASSUME RequestAssumption ==
    \A q \in Request : q.method \in Method /\ q.args \in [1..4 -> Value]

VARIABLES
    conn,       \* the state of the pa_context
    wire,       \* its transport: "down", "dialing", "waiting" for a daemon, "greeting" or "up"
    no_fail,    \* was it told not to give up while there is no daemon?
    listener,   \* the function at index 1 of the state callback's thread
    dialer,     \* the function passed to the connect that dialled
    told,       \* the last state a listener was told
    hearer,     \* the listener that was told it
    displaced,  \* is the listener one that a refused connect put in place since?
    announcing, \* the state that context_state_callback is telling right now
    inCall,     \* did connect or disconnect, and not the loop, cause that?
    answering,  \* the call whose callback the loop is running right now
    pinned,     \* did an error leave libpulse holding a reference for good?
    gone,       \* has context__gc run?
    fate,       \* of the program: "running", "panic" or "fault"
    status,     \* [Call -> what has become of it]
    reply,      \* [Call -> the kind of callback its answer goes to]
    verdict,    \* [Call -> what the server answered]
    heard       \* [Call -> what its Lua callback was called with so far]

connVars == <<conn, wire, no_fail, listener, dialer, told, hearer, displaced, announcing,
              inCall, pinned>>
callVars == <<status, reply, verdict, heard>>
vars == <<connVars, callVars, callbackVars, answering, gone, fate>>

Good == {"connecting", "authorizing", "setting_name", "ready"}
End  == {"failed", "terminated"}
ConnState == {"unconnected"} \cup Good \cup End

\* How connect is called: for a server; for any daemon there is or will be
\* (PA_CONTEXT_NOFAIL, no server); with a server that cannot be parsed; or with flags
\* that libpulse does not know, or an empty server.
How == {"plain", "nofail", "unparsable", "invalid"}

TypeOK ==
    /\ CallbackTypeOK
    /\ conn \in ConnState
    /\ wire \in {"down", "dialing", "waiting", "greeting", "up"}
    /\ {listener, dialer, hearer} \subseteq StateFn \cup {Nil}
    /\ {told, announcing} \subseteq ConnState \cup {"none"}
    /\ {no_fail, displaced, inCall, pinned, gone} \subseteq BOOLEAN
    /\ answering \in Call \cup {Nil}
    /\ fate \in {"running", "panic", "fault"}
    /\ status \in [Call -> {"idle", "raised", "reported", "pending", "running", "done", "cancelled"}]
    /\ reply \in [Call -> {"none", "ack", "list", "single", "server"}]
    /\ verdict \in [Call -> {"none", "ok", "error"}]
    /\ heard \in [Call -> Seq({"error", "value", "failure"})]

\* The state context_new leaves: two threads anchored, nobody called back yet.
context_new ==
    /\ \E r, s \in Ref :
        /\ r # s
        /\ slot = [t \in Ref |-> IF t = r THEN StateData ELSE IF t = s THEN EventData ELSE Nil]
        /\ ref = [d \in Data |-> IF d = StateData THEN r ELSE IF d = EventData THEN s ELSE Nil]
    /\ heap = [d \in Data |-> IF d \in {StateData, EventData} THEN "live" ELSE "none"]
    /\ conn = "unconnected" /\ wire = "down" /\ no_fail = FALSE
    /\ listener = Nil /\ dialer = Nil
    /\ told = "none" /\ hearer = Nil /\ displaced = FALSE
    /\ announcing = "none" /\ inCall = FALSE
    /\ answering = Nil
    /\ pinned = FALSE /\ gone = FALSE /\ fate = "running"
    /\ status = [c \in Call |-> "idle"]
    /\ reply = [c \in Call |-> "none"]
    /\ verdict = [c \in Call |-> "none"]
    /\ heard = [c \in Call |-> <<>>]

Init == context_new

\* User code can run: in the main program, or in a callback.
Running == fate = "running" /\ ~gone

\* The loop can dispatch: every callback below it has returned.
Idle == fate = "running" /\ answering = Nil /\ announcing = "none"

-----------------------------------------------------------------------------
\* The asynchronous methods.

Hear(c, word) == heard' = [heard EXCEPT ![c] = Append(@, word)]

\* A handler that gives up calls args[2] with the message.  If that is the callback
\* it hears an error; if it is a name or an index, calling it raises.
Report(c, q) ==
    IF Callable(q.args[2])
    THEN status' = [status EXCEPT ![c] = "reported"] /\ Hear(c, "error")
    ELSE status' = [status EXCEPT ![c] = "raised"] /\ UNCHANGED heard

\* One method call, as Handlers says it leaves.  Reporting is the last thing a
\* handler does, so what the callback does in it happens in later steps.
Invoke(c, q) ==
    LET exit == Exit(q.method, q.args, conn = "ready")
    IN  /\ Running /\ status[c] = "idle"
        /\ \/ /\ exit = "badarg"
              /\ status' = [status EXCEPT ![c] = "raised"]
              /\ UNCHANGED <<reply, heard, callbackVars>>
           \/ /\ exit = "notready"
              /\ Report(c, q)
              /\ UNCHANGED <<reply, callbackVars>>
           \/ /\ exit = "nocallback"
              /\ prepare_lua_callback_raises(c)
              /\ status' = [status EXCEPT ![c] = "raised"]
              /\ UNCHANGED <<reply, heard>>
           \/ /\ exit = "badvolume"
              /\ prepare_lua_callback(c)
              /\ status' = [status EXCEPT ![c] = "raised"]
              /\ UNCHANGED <<reply, heard>>
           \/ /\ exit = "refused"
              /\ prepare_lua_callback(c)
              /\ Report(c, q)
              /\ UNCHANGED reply
           \/ /\ exit = "submitted"
              /\ prepare_lua_callback(c)
              /\ status' = [status EXCEPT ![c] = "pending"]
              /\ reply' = [reply EXCEPT ![c] = ReplyTo(q.method, q.args)]
              /\ UNCHANGED heard
        /\ UNCHANGED <<verdict, connVars, answering, gone, fate>>

-----------------------------------------------------------------------------
\* The connection.

\* Mutant: the function is passed in place of the state.
context_state_callback_swapped(f, state, fromCall) ==
    /\ announcing' = state
    /\ told' = f
    /\ hearer' = state
    /\ displaced' = FALSE
    /\ inCall' = fromCall

\* The state callback runs on the Context's own thread and tells the function f below it.
context_state_callback(f, state, fromCall) ==
    /\ announcing' = state
    /\ told' = state
    /\ hearer' = f
    /\ displaced' = FALSE
    /\ inCall' = fromCall

\* context_unlink closes the transport and cancels what is pending, silently.
Cancelled(s) == [c \in Call |-> IF s[c] = "pending" THEN "cancelled" ELSE s[c]]

\* What libpulse makes of arguments it accepts.  An unparsable server fails before
\* anything is dialled.
pa_context_connect(f, how) ==
    LET state == IF how = "unparsable" THEN "failed" ELSE "connecting"
    IN  /\ conn' = state
        /\ dialer' = f
        /\ no_fail' = (how = "nofail")
        /\ context_state_callback(f, state, TRUE)

\* Mutant: the listener is put in place after pa_context_connect.
context_connect_late(f, how) ==
    /\ Running /\ announcing = "none" /\ conn = "unconnected" /\ how = "plain"
    /\ listener' = f
    /\ conn' = "connecting"
    /\ dialer' = f
    /\ announcing' = "connecting" /\ inCall' = TRUE
    /\ UNCHANGED <<told, hearer, displaced, no_fail, wire, pinned, callVars, callbackVars,
                   answering, gone, fate>>

\* The new listener is in place before libpulse can refuse, and stays.  Called from
\* inside the state callback, connect finds its own frame cleared and only raises.
context_connect(f, how) ==
    /\ Running /\ announcing = "none"
    /\ listener' = f
    /\ IF conn = "unconnected" /\ how # "invalid"
       THEN pa_context_connect(f, how)
       ELSE /\ displaced' = (conn # "unconnected" /\ f # hearer)
            /\ UNCHANGED <<conn, dialer, no_fail, announcing, told, hearer, inCall>>
    /\ UNCHANGED <<wire, pinned, callVars, callbackVars, answering, gone, fate>>

\* Mutant: no test whether the context is still connected.
context_disconnect_again ==
    /\ Running /\ announcing = "none"
    /\ conn' = "terminated"
    /\ context_state_callback(listener, "terminated", TRUE)
    /\ UNCHANGED <<wire, no_fail, listener, dialer, pinned, callVars, callbackVars,
                   answering, gone, fate>>

\* Inside the state callback the thread's index 1 is not the function but the argument
\* of disconnect: context_state_callback raises through pa_context_set_state, which
\* neither unlinks the context nor drops the reference it took.
context_disconnect ==
    /\ Running /\ conn \in Good
    /\ conn' = "terminated"
    /\ IF announcing = "none"
       THEN context_state_callback(listener, "terminated", TRUE) /\ UNCHANGED pinned
       ELSE pinned' = TRUE /\ UNCHANGED <<announcing, told, hearer, displaced, inCall>>
    /\ UNCHANGED <<wire, no_fail, listener, dialer, callVars, callbackVars,
                   answering, gone, fate>>

\* pa_context_set_state from the loop.  A collected Context that libpulse still holds
\* has its callback data freed: the state callback reads freed memory.
SetState(state) ==
    /\ conn' = state
    /\ IF gone
       THEN fate' = "fault" /\ UNCHANGED <<announcing, told, hearer, displaced, inCall>>
       ELSE context_state_callback(listener, state, FALSE) /\ UNCHANGED fate

Untold == UNCHANGED <<conn, announcing, told, hearer, displaced, inCall>>

\* The socket is connected, or cannot be; one that must not fail waits for a daemon.
\* libpulse asserts that nobody has changed the state meanwhile.
Dialled ==
    /\ Idle /\ wire = "dialing"
    /\ \/ conn = "connecting" /\ wire' = "greeting" /\ SetState("authorizing")
       \/ conn = "connecting" /\ UNCHANGED wire /\ SetState("failed")
       \/ conn = "connecting" /\ no_fail /\ wire' = "waiting" /\ Untold /\ UNCHANGED fate
       \/ conn # "connecting" /\ fate' = "fault" /\ Untold /\ UNCHANGED wire
    /\ UNCHANGED <<no_fail, listener, dialer, pinned, callVars, callbackVars, answering, gone>>

\* A daemon announces itself on the bus that libpulse watches.
DaemonAppears ==
    /\ Idle /\ wire = "waiting" /\ conn = "connecting"
    /\ wire' = "dialing" /\ Untold
    /\ UNCHANGED <<no_fail, listener, dialer, pinned, callVars, callbackVars,
                   answering, gone, fate>>

\* The server accepts the client, and then its name; the same assertion.
Welcomed ==
    /\ Idle /\ wire = "greeting"
    /\ \/ conn = "authorizing" /\ UNCHANGED wire /\ SetState("setting_name")
       \/ conn = "setting_name" /\ wire' = "up" /\ SetState("ready")
       \/ /\ conn \notin {"authorizing", "setting_name"}
          /\ fate' = "fault" /\ Untold /\ UNCHANGED wire
    /\ UNCHANGED <<no_fail, listener, dialer, pinned, callVars, callbackVars, answering, gone>>

\* The server goes away, or refuses the client.
ConnectionLost ==
    /\ Idle /\ wire \in {"greeting", "up"}
    /\ SetState("failed")
    /\ UNCHANGED <<wire, no_fail, listener, dialer, pinned, callVars, callbackVars,
                   answering, gone>>

\* Mutant: a dial that fails at once is not reported.
StateReturnUnreported ==
    /\ fate = "running" /\ announcing # "none"
    /\ wire' = "down"
    /\ status' = IF announcing \in End THEN Cancelled(status) ELSE status
    /\ announcing' = "none" /\ inCall' = FALSE
    /\ UNCHANGED <<conn, told, hearer, displaced, no_fail, listener, dialer, pinned, reply,
                   verdict, heard, callbackVars, answering, gone, fate>>

\* The state callback returns into pa_context_set_state.  After CONNECTING libpulse
\* starts to dial; that can fail at once, which is told before connect raises, or find
\* no daemon, and one that must not fail then waits for it.
StateReturn ==
    /\ fate = "running" /\ announcing # "none"
    /\ \/ /\ announcing \in End
          /\ wire' = "down" /\ status' = Cancelled(status)
          /\ announcing' = "none" /\ inCall' = FALSE
          /\ UNCHANGED <<conn, told, hearer, displaced>>
       \/ /\ announcing = "connecting"
          /\ wire' = "dialing" \/ (no_fail /\ wire' = "waiting")
          /\ announcing' = "none" /\ inCall' = FALSE
          /\ UNCHANGED <<conn, told, hearer, displaced, status>>
       \/ /\ announcing = "connecting"
          /\ conn' = "failed"
          /\ context_state_callback(listener, "failed", TRUE)
          /\ UNCHANGED <<wire, status>>
       \/ /\ announcing \in {"authorizing", "setting_name", "ready"}
          /\ IF gone /\ ~pinned
             THEN wire' = "down" /\ status' = Cancelled(status)
             ELSE UNCHANGED <<wire, status>>
          /\ announcing' = "none" /\ inCall' = FALSE
          /\ UNCHANGED <<conn, told, hearer, displaced>>
    /\ UNCHANGED <<no_fail, listener, dialer, pinned, reply, verdict, heard,
                   callbackVars, answering, gone, fate>>

-----------------------------------------------------------------------------
\* The answers.

\* Mutant: an operation stays registered after its answer.
PendingAgain(c, kind) ==
    Idle /\ wire = "up" /\ status[c] \in {"pending", "done"} /\ reply[c] = kind

Pending(c, kind) == Idle /\ wire = "up" /\ status[c] = "pending" /\ reply[c] = kind

\* What every answer that runs the Lua callback to its end changes.
Answered(c, result, word) ==
    /\ verdict' = [verdict EXCEPT ![c] = result]
    /\ Hear(c, word)
    /\ status' = [status EXCEPT ![c] = "running"]
    /\ answering' = c
    /\ UNCHANGED <<reply, connVars, callbackVars, gone, fate>>

\* What every answer that dereferences a missing info changes.
Crashed(c) ==
    /\ verdict' = [verdict EXCEPT ![c] = "error"]
    /\ fate' = "fault"
    /\ UNCHANGED <<status, reply, heard, connVars, callbackVars, answering, gone>>

\* Mutant: the parameter success is not passed on.
success_callback_blind(c) ==
    /\ Pending(c, "ack")
    /\ \E result \in {"ok", "error"} : Answered(c, result, "value")

success_callback(c) ==
    /\ Pending(c, "ack")
    /\ \/ Answered(c, "ok", "value")
       \/ Answered(c, "error", "failure")

\* Mutants: the Lua callback is called for every item, or for none.
info_callback_list_each(c) ==
    /\ Pending(c, "list")
    /\ verdict' = [verdict EXCEPT ![c] = "ok"]
    /\ heard' = [heard EXCEPT ![c] = @ \o <<"value", "value">>]
    /\ status' = [status EXCEPT ![c] = "running"]
    /\ answering' = c
    /\ UNCHANGED <<reply, connVars, callbackVars, gone, fate>>

info_callback_list_no_end(c) == Pending(c, "list") /\ UNCHANGED vars

\* The callback of a list collects the items, all in one dispatch, and does not tell
\* the end of the list from an error: it passes what it has.
info_callback_list(c) ==
    /\ Pending(c, "list")
    /\ \E result \in {"ok", "error"} : Answered(c, result, "value")

\* Mutant: the value is freed and nobody is called.
info_callback_single_mute(c) ==
    /\ Pending(c, "single")
    /\ verdict' = [verdict EXCEPT ![c] = "ok"]
    /\ status' = [status EXCEPT ![c] = "cancelled"]
    /\ UNCHANGED <<reply, heard, answering, connVars, callbackVars, gone, fate>>

\* The callback of a single value takes the value for one too many, and the end of the
\* list, which follows it, for the value.
info_callback_single(c) ==
    /\ Pending(c, "single")
    /\ \/ /\ verdict' = [verdict EXCEPT ![c] = "ok"]
          /\ Hear(c, "error")
          /\ answering' = c
          /\ UNCHANGED <<status, reply, connVars, callbackVars, gone, fate>>
       \/ Crashed(c)

server_info_callback(c) ==
    /\ Pending(c, "server")
    /\ \/ Answered(c, "ok", "value")
       \/ Crashed(c)

Answer(c) ==
    \/ success_callback(c)
    \/ info_callback_list(c)
    \/ info_callback_single(c)
    \/ server_info_callback(c)

\* The Lua callback returns.  One that was told its value was one too many is followed
\* by the end of the list, unless it has disconnected the Context.
AnswerReturn ==
    /\ fate = "running" /\ answering # Nil /\ announcing = "none"
    /\ IF status[answering] = "pending"
       THEN /\ fate' = "fault"
            /\ UNCHANGED <<wire, status, answering, callbackVars>>
       ELSE LET returned == IF status[answering] = "running"
                            THEN [status EXCEPT ![answering] = "done"]
                            ELSE status
            IN  /\ IF status[answering] = "running"
                   THEN free_lua_callback({answering})
                   ELSE UNCHANGED callbackVars
                /\ IF gone /\ ~pinned
                   THEN wire' = "down" /\ status' = Cancelled(returned)
                   ELSE status' = returned /\ UNCHANGED wire
                /\ answering' = Nil
                /\ UNCHANGED fate
    /\ UNCHANGED <<conn, no_fail, listener, dialer, told, hearer, displaced, announcing, inCall,
                   pinned, reply, verdict, heard, gone>>

\* An error in a callback is raised on the callback's own thread, where nothing
\* protects it: Lua 5.1 calls the panic function and the program exits.
CallbackError ==
    /\ fate = "running" /\ (answering # Nil \/ announcing # "none")
    /\ fate' = "panic"
    /\ UNCHANGED <<connVars, callVars, callbackVars, answering, gone>>

-----------------------------------------------------------------------------
\* The collector.

\* Mutants: the reference is not dropped; or it is, and nothing is cancelled.
context__gc_keeps ==
    /\ Running /\ ~inCall
    /\ gone' = TRUE
    /\ free_lua_callback({StateData, EventData})
    /\ UNCHANGED <<connVars, callVars, answering, fate>>

context__gc_uncancelled ==
    /\ Running /\ ~inCall
    /\ gone' = TRUE
    /\ free_lua_callback({StateData, EventData})
    /\ wire' = IF Idle /\ ~pinned THEN "down" ELSE wire
    /\ UNCHANGED <<conn, no_fail, listener, dialer, told, hearer, displaced, announcing, inCall,
                   pinned, callVars, answering, fate>>

\* The collector may run whenever no Lua call has the Context on its stack.  A loop
\* callback holds a reference, so libpulse lets go only when that returns.
context__gc ==
    /\ Running /\ ~inCall
    /\ gone' = TRUE
    /\ free_lua_callback({StateData, EventData})
    /\ IF Idle /\ ~pinned
       THEN wire' = "down" /\ status' = Cancelled(status)
       ELSE UNCHANGED <<wire, status>>
    /\ UNCHANGED <<conn, no_fail, listener, dialer, told, hearer, displaced, announcing, inCall,
                   pinned, reply, verdict, heard, answering, fate>>

-----------------------------------------------------------------------------
\* The rest of the program.

\* Another Context, whenever it runs, prepares callback data in the same registry
\* table and frees data of its own.
OtherContext(d) ==
    /\ fate = "running"
    /\ \/ /\ heap[d] = "none" /\ \A r \in Ref : slot[r] # d
          /\ prepare_lua_callback(d) \/ prepare_lua_callback_raises(d)
       \/ /\ heap[d] = "live"
          /\ free_lua_callback({d})
    /\ UNCHANGED <<connVars, callVars, answering, gone, fate>>

-----------------------------------------------------------------------------
Next ==
    \/ \E c \in Call, q \in Request : Invoke(c, q)
    \/ \E f \in StateFn, how \in How : context_connect(f, how)
    \/ context_disconnect
    \/ Dialled
    \/ DaemonAppears
    \/ Welcomed
    \/ ConnectionLost
    \/ StateReturn
    \/ \E c \in Call : Answer(c)
    \/ AnswerReturn
    \/ CallbackError
    \/ context__gc
    \/ \E d \in Stranger : OtherContext(d)

Spec == Init /\ [][Next]_vars

(***************************************************************************)
(* User callbacks return.  libpulse gives up on a socket after a timeout,  *)
(* and on any request after 30 seconds, and then answers it itself: while  *)
(* the loop can dispatch, each of these is dispatched some day.  Nothing   *)
(* makes a daemon appear: PA_CONTEXT_NOFAIL may wait for good.             *)
(***************************************************************************)
Fairness ==
    /\ WF_vars(StateReturn)
    /\ WF_vars(AnswerReturn)
    /\ WF_vars(Dialled)
    /\ WF_vars(Welcomed \/ (wire = "greeting" /\ ConnectionLost))
    /\ \A c \in Call : WF_vars(Answer(c))

FairSpec == Spec /\ Fairness

-----------------------------------------------------------------------------
\* Memory.

(***************************************************************************)
(* Whatever libpulse may still call back with is usable: the data of a     *)
(* call that waits, or whose callback is running, is allocated and its     *)
(* thread anchored, however registry slots were reused in between.         *)
(***************************************************************************)
AwaitedDataUsable == \A c \in Call : status[c] \in {"pending", "running"} => Usable(c)

(***************************************************************************)
(* As long as the transport can still report a state, the data of the      *)
(* state callback is usable: the collector frees it only with the          *)
(* transport.  The exception is a context that libpulse was left holding.  *)
(***************************************************************************)
StateDataOutlivesTransport == Idle /\ wire # "down" /\ ~pinned => Usable(StateData)

(***************************************************************************)
(* A call that was answered left nothing behind, and an occupied slot of   *)
(* the registry belongs to live data that remembers it, or to a call, of   *)
(* this Context or another, that raised before it had any.                 *)
(***************************************************************************)
SlotsAccounted ==
    /\ \A c \in Call : status[c] = "done" => heap[c] = "freed" /\ \A r \in Ref : slot[r] # c
    /\ \A r \in Ref : slot[r] # Nil =>
        \/ heap[slot[r]] = "live" /\ ref[slot[r]] = r
        \/ /\ slot[r] \in Stranger \cup {c \in Call : status[c] = "raised"}
           /\ heap[slot[r]] = "none"

(***************************************************************************)
(* The program's callback data, seen from the registry: where each data    *)
(* stands in its life.  "broken" is live data whose thread may be          *)
(* collected, or a thread kept for data that was freed.                    *)
(***************************************************************************)
Anchor(d) ==
    CASE Usable(d)                                           -> "held"
      [] heap[d] = "none"  /\ \A r \in Ref : slot[r] # d    -> "none"
      [] heap[d] = "none"  /\ \E r \in Ref : slot[r] = d    -> "lost"
      [] heap[d] = "freed" /\ \A r \in Ref : slot[r] # d    -> "released"
      [] OTHER                                               -> "broken"

anchor == [d \in Data |-> Anchor(d)]

Registry == INSTANCE Anchors WITH Born <- {StateData, EventData}

(***************************************************************************)
(* Slots that are handed out again, and data that remembers its slot,      *)
(* implement threads that are held from prepare_lua_callback to            *)
(* free_lua_callback: this Context and the others free only what is held,  *)
(* nothing twice, and never touch what is not theirs.                      *)
(***************************************************************************)
ImplementsAnchors == Registry!Spec

-----------------------------------------------------------------------------
\* Calls.

(***************************************************************************)
(* No Lua callback is called twice, whether it is called by the handler,   *)
(* by the loop or by both.                                                 *)
(***************************************************************************)
AtMostOnce == \A c \in Call : Len(heard[c]) <= 1

(***************************************************************************)
(* A call waits only on a transport: closing it leaves no operation whose  *)
(* callback libpulse could still run.                                      *)
(***************************************************************************)
PendingNeedsTransport == \A c \in Call : status[c] = "pending" => wire = "up"

(***************************************************************************)
(* A command's callback hears what the server answered.                    *)
(***************************************************************************)
CommandVerdictHeard ==
    \A c \in Call : reply[c] = "ack" =>
        heard[c] = CASE verdict[c] = "none"  -> <<>>
                     [] verdict[c] = "ok"    -> <<"value">>
                     [] verdict[c] = "error" -> <<"failure">>

(***************************************************************************)
(* A call that was rejected, cancelled or answered to the end stays so and *)
(* its callback hears nothing more.                                        *)
(***************************************************************************)
Final == {"raised", "reported", "done", "cancelled"}

FinalIsFinal ==
    [][\A c \in Call : status[c] \in Final => status'[c] = status[c] /\ heard'[c] = heard[c]]_vars

(***************************************************************************)
(* A call that waits is answered or cancelled, and an answer's callback    *)
(* returns and has its data freed, unless the program ends first.          *)
(***************************************************************************)
CallsConclude ==
    \A c \in Call :
        status[c] \in {"pending", "running"} ~> status[c] \in Final \/ fate # "running"

(***************************************************************************)
(* Whoever waits is waited for: the callback that runs is the one below    *)
(* the loop, a call that waits has a transport and a kind of answer that   *)
(* comes over it, a Context that connects has a dial under way, or was     *)
(* told to wait for a daemon, and one that is being let in has a           *)
(* handshake.                                                              *)
(***************************************************************************)
WaitersAreServed ==
    /\ \A c \in Call :
        /\ status[c] = "running" => answering = c
        /\ status[c] = "pending" => wire = "up" /\ reply[c] # "none"
    /\ Idle /\ ~gone =>
        /\ conn = "connecting" => wire = "dialing" \/ (no_fail /\ wire = "waiting")
        /\ conn \in {"authorizing", "setting_name"} => wire = "greeting"

(***************************************************************************)
(* The program faults for one of three reasons: libpulse was left holding  *)
(* a Context that was disconnected inside its state callback, a single     *)
(* value was asked for and answered, or the server info was refused.       *)
(* Nothing else that a program does, in whatever order, gets there.        *)
(***************************************************************************)
FaultsHaveCauses ==
    fate = "fault" =>
        \/ pinned
        \/ \E c \in Call : reply[c] = "single" /\ verdict[c] # "none"
        \/ \E c \in Call : reply[c] = "server" /\ verdict[c] = "error"

-----------------------------------------------------------------------------
\* The connection.

(***************************************************************************)
(* The current state has been told, and told to the function that listens  *)
(* now.  The exceptions are a Context that was disconnected from inside    *)
(* its listener, and a listener that a refused connect has put in place:   *)
(* it hears of the next state, and the function it displaced of none.      *)
(***************************************************************************)
ListenerInformed ==
    conn # "unconnected" /\ ~pinned => told = conn /\ (hearer = listener \/ displaced)

(***************************************************************************)
(* Listeners are told the states in the order of a connection's life, each *)
(* at most once, and the end last, whatever they or anybody else do to the *)
(* Context meanwhile.                                                      *)
(***************************************************************************)
Stage ==
    [none |-> 0, unconnected |-> 0, connecting |-> 1, authorizing |-> 2, setting_name |-> 3,
     ready |-> 4, failed |-> 5, terminated |-> 5]

ToldInOrder ==
    [][announcing' \notin {"none", announcing} => Stage[told] < Stage[announcing']]_vars

(***************************************************************************)
(* A Context that is connecting gets to READY or to an end, unless it was  *)
(* told to wait for a daemon and there is none, it is collected, or the    *)
(* program ends first.                                                     *)
(***************************************************************************)
ConnectConcludes ==
    conn \in {"connecting", "authorizing", "setting_name"} ~>
        \/ conn \in {"ready"} \cup End
        \/ no_fail /\ wire = "waiting"
        \/ gone \/ fate # "running"

-----------------------------------------------------------------------------
\* The abstract specification.

closed == wire = "down" /\ (gone \/ (conn \in End /\ announcing # "connecting"))

\* What has become of a call, from its status and from what its callback heard.
Outcome(state, words) ==
    CASE state = "idle"                   -> "unused"
      [] state \in {"raised", "reported"} -> "rejected"
      [] state \in {"running", "done"}    -> "answered"
      [] state = "pending"   -> IF words = <<>> THEN "waiting" ELSE "answered"
      [] state = "cancelled" -> IF words = <<>> THEN "dropped" ELSE "answered"

outcome == [c \in Call |-> Outcome(status[c], heard[c])]

Abstract == INSTANCE AsyncCalls

(***************************************************************************)
(* A Context keeps the promise of AsyncCalls: threads, slots, states and   *)
(* frames implement calls that are rejected, answered once, or dropped     *)
(* together when the Context closes.                                       *)
(***************************************************************************)
ImplementsAsyncCalls == Abstract!Spec

-----------------------------------------------------------------------------
\* What the documentation says and the code does not do.

(***************************************************************************)
(* context.h says the state callback is called whenever the connection     *)
(* state changes.  Disconnecting in that callback changes the state, and   *)
(* the callback is not called.                                             *)
(***************************************************************************)
EveryStateIsTold == conn # "unconnected" /\ ~displaced => told = conn /\ hearer = listener

(***************************************************************************)
(* context.h says the function passed to connect is called whenever the    *)
(* state changes.  A second connect fails, and has already replaced it.    *)
(***************************************************************************)
DialerListens == conn # "unconnected" => listener = dialer

(***************************************************************************)
(* introspection.c says the info callbacks serve calls for a single value. *)
(* Such a call hears an error when its value arrives.                      *)
(***************************************************************************)
SingleValueDelivered ==
    \A c \in Call : reply[c] = "single" /\ verdict[c] = "ok" => heard[c] = <<"value">>

(***************************************************************************)
(* callback.h says callback data needs to be freed at the end of the       *)
(* callback.  A call that is refused or cancelled has no such end.         *)
(***************************************************************************)
NoOrphans == \A c \in Call : heap[c] = "live" => status[c] \in {"pending", "running"}
=============================================================================
