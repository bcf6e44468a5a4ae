----------------------------- MODULE MCContext -----------------------------
(***************************************************************************)
(* Small instances of Context for TLC.                                     *)
(***************************************************************************)
EXTENDS Context, TLC

CONSTANTS call1, call2, call3

\* Indistinguishable calls, slots and listeners, in the runs without liveness.
Symmetry == Permutations(Call) \cup Permutations(Ref) \cup Permutations(StateFn)

Write(method, second, third, fourth) ==
    [method |-> method, args |-> <<"context", second, third, fourth>>]

\* One request for each way a handler leaves and for each kind of answer.
Requests ==
    {Write("set_sink_mute", "index", "boolean", "function"),    \* ack, or not ready
     Write("set_sink_mute", "index", "boolean", "nil"),         \* no callback
     Write("set_default_sink", "name", "function", "nil"),      \* ack, or refused
     Write("set_sink_volume", "index", "ragged", "function"),   \* bad volume
     Write("get_sinks", "function", "nil", "nil"),              \* list, or error heard
     Write("get_source_info", "index", "function", "nil"),      \* single value
     Write("get_server_info", "function", "nil", "nil"),        \* server
     Write("kill_sink_input", "zero", "function", "nil")}       \* bad argument

\* One request for each kind of answer: enough for what happens after submission.
Answers ==
    {Write("set_default_sink", "name", "function", "nil"),
     Write("get_sinks", "function", "nil", "nil"),
     Write("get_source_info", "index", "function", "nil"),
     Write("get_server_info", "function", "nil", "nil")}
=============================================================================
