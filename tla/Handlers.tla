------------------------------ MODULE Handlers ------------------------------
(***************************************************************************)
(* The method table of a Context and what each method does with its        *)
(* arguments before libpulse has the request.  Every asynchronous method   *)
(* of introspection.c and context.c is one sequence of checks, in an       *)
(* order that decides what is lost when a check fails, and differs from    *)
(* its neighbours in which stack positions it reads.  A handler is the     *)
(* record of those positions; Exit runs the sequence.                      *)
(*                                                                         *)
(* Arguments are numbered as on the Lua stack: args[1] is the Context,     *)
(* args[2] the first argument the caller writes.  A missing one is "nil".  *)
(***************************************************************************)
EXTENDS Integers

CONSTANT VolumeLoaded   \* did the program load lua_libpulse_glib.volume?

ASSUME VolumeLoadedAssumption == VolumeLoaded \in BOOLEAN

(***************************************************************************)
(* Lua values, as far as the checks tell them apart.  Only the volume      *)
(* module registers the metatable of Volume, so without it no userdata     *)
(* passes for a Volume, the ones inside an info table ("opaque") included. *)
(***************************************************************************)
Scalars == {"nil", "boolean", "function"}
Numbers == {"index", "zero"}
Strings == {"name", "numeral"}         \* "numeral" converts to an index >= 1
Tables  == {"levels", "ragged", "empty"}
Userdata == {"context", "opaque"} \cup (IF VolumeLoaded THEN {"volume", "silent"} ELSE {})

Value == Scalars \cup Numbers \cup Strings \cup Tables \cup Userdata

Callable(value) == value = "function"

\* Mutant: the test is index < 0.
IsIndexFromZero(value) == value \in {"index", "numeral", "zero"}

\* luaL_checkinteger, which converts a numeral, and then the test index < 1.
IsIndex(value) == value \in {"index", "numeral"}

\* luaL_checkstring, which converts a number.
IsName(value) == value \in Strings \cup Numbers

\* A table goes through volume_from_lua and volume_to_lua, whose userdata has
\* the metatable only if that is registered; "ragged" holds a non-integer.
IsVolume(value) ==
    \/ value \in {"levels", "empty"} /\ VolumeLoaded
    \/ value \in {"volume", "silent"}

\* libpulse refuses a volume with no channels.
Playable(value) == value \in {"levels", "volume"}

(***************************************************************************)
(* A handler: the positions it takes an index or a name from, whether it   *)
(* returns early unless the context is READY, the position of the callback,*)
(* whether position 3 is a volume, and the libpulse callback it answers    *)
(* with: success_callback, an info callback that collects a list or that   *)
(* takes a single value, or server_info_callback.                          *)
(***************************************************************************)
Handler(indexes, names, gated, callback, volume, reply) ==
    [indexes |-> indexes, names |-> names, gated |-> gated,
     callback |-> callback, volume |-> volume, reply |-> reply]

Setter(indexes, names)  == Handler(indexes, names, TRUE, 4, FALSE, "ack")
VolumeSetter(indexes)   == Handler(indexes, {}, TRUE, 4, TRUE, "ack")
Lister                  == Handler({}, {}, TRUE, 2, FALSE, "list")
Getter(indexes, names)  == Handler(indexes, names, TRUE, 3, FALSE, "single")
Ungated(handler)        == [handler EXCEPT !.gated = FALSE]

context_set_default_sink   == Handler({}, {2}, FALSE, 3, FALSE, "ack")
\* Mutants: the callback taken from the position of the name; no READY test.
set_default_source_misplaced == Handler({}, {2}, FALSE, 2, FALSE, "ack")
get_server_info_ungated      == Handler({}, {}, FALSE, 2, FALSE, "server")

context_set_default_source == Handler({}, {2}, FALSE, 3, FALSE, "ack")
context_get_server_info    == Handler({}, {}, TRUE, 2, FALSE, "server")

context_get_sink_info_list             == Lister
context_get_sink_info_by_name          == [Getter({}, {2}) EXCEPT !.callback = 2]
context_get_sink_info_by_index         == Getter({2}, {})
context_set_sink_volume_by_name        == VolumeSetter({})
context_set_sink_volume_by_index       == VolumeSetter({2})
context_set_sink_mute_by_name          == Setter({}, {2})
context_set_sink_mute_by_index         == Setter({2}, {})
context_set_sink_suspended_by_name     == Setter({}, {2})
context_set_sink_suspended_by_index    == Setter({2}, {})

context_get_source_info_list           == Lister
context_get_source_info_by_name        == Getter({}, {2})
context_get_source_info_by_index       == Getter({2}, {})
context_set_source_volume_by_name      == VolumeSetter({})
context_set_source_volume_by_index     == VolumeSetter({2})
context_set_source_mute_by_name        == Setter({}, {2})
context_set_source_mute_by_index       == Setter({2}, {})
context_set_source_suspended_by_name   == Setter({}, {2})
context_set_source_suspended_by_index  == Setter({2}, {})

context_get_sink_input_info_list       == Lister
context_get_sink_input_info            == Getter({2}, {})
context_move_sink_input_by_index       == Setter({2, 3}, {})
context_move_sink_input_by_name        == Setter({2}, {3})
context_set_sink_input_volume          == Ungated(VolumeSetter({2}))
context_set_sink_input_mute            == Ungated(Setter({2}, {}))
context_kill_sink_input                == Handler({2}, {}, FALSE, 3, FALSE, "ack")

context_get_source_output_info_list    == Lister
context_get_source_output_info         == Getter({2}, {})
context_move_source_output_by_index    == Setter({2, 3}, {})
context_move_source_output_by_name     == Setter({2}, {3})
context_set_source_output_volume       == Ungated(VolumeSetter({2}))
context_set_source_output_mute         == Ungated(Setter({2}, {}))
\* Mutant: a READY test in one of the twins only.
kill_source_output_gated               == Handler({2}, {}, TRUE, 3, FALSE, "ack")
context_kill_source_output             == Handler({2}, {}, FALSE, 3, FALSE, "ack")

(***************************************************************************)
(* A method is a function of the value at args[2]: the handlers it runs,   *)
(* one, or none when the dispatcher raises an argument error.  Methods     *)
(* with two forms look at the type of args[2] and at nothing else.         *)
(***************************************************************************)
Direct(handler) == [value \in Value |-> {handler}]

TwoForms(byName, byIndex) ==
    [value \in Value |-> {h \in {byName} : value \in Strings} \cup
                         {h \in {byIndex} : value \in Numbers}]

context_get_sink_info        == TwoForms(context_get_sink_info_by_name, context_get_sink_info_by_index)
context_set_sink_volume      == TwoForms(context_set_sink_volume_by_name, context_set_sink_volume_by_index)
context_set_sink_mute        == TwoForms(context_set_sink_mute_by_name, context_set_sink_mute_by_index)
context_set_sink_suspended   == TwoForms(context_set_sink_suspended_by_name, context_set_sink_suspended_by_index)
context_get_source_info      == TwoForms(context_get_source_info_by_name, context_get_source_info_by_index)
context_set_source_volume    == TwoForms(context_set_source_volume_by_name, context_set_source_volume_by_index)
context_set_source_mute      == TwoForms(context_set_source_mute_by_name, context_set_source_mute_by_index)
context_set_source_suspended == TwoForms(context_set_source_suspended_by_name, context_set_source_suspended_by_index)
context_move_sink_input      == TwoForms(context_move_sink_input_by_name, context_move_sink_input_by_index)
context_move_source_output   == TwoForms(context_move_source_output_by_name, context_move_source_output_by_index)

\* The asynchronous methods of the method table.
context_f ==
    [set_default_sink         |-> Direct(context_set_default_sink),
     set_default_source       |-> Direct(context_set_default_source),
     get_server_info          |-> Direct(context_get_server_info),
     get_sinks                |-> Direct(context_get_sink_info_list),
     get_sink_info            |-> context_get_sink_info,
     set_sink_volume          |-> context_set_sink_volume,
     set_sink_mute            |-> context_set_sink_mute,
     set_sink_suspended       |-> context_set_sink_suspended,
     get_sink_inputs          |-> Direct(context_get_sink_input_info_list),
     get_sink_input_info      |-> Direct(context_get_sink_input_info),
     set_sink_input_volume    |-> Direct(context_set_sink_input_volume),
     set_sink_input_mute      |-> Direct(context_set_sink_input_mute),
     move_sink_input          |-> context_move_sink_input,
     kill_sink_input          |-> Direct(context_kill_sink_input),
     set_source_volume        |-> context_set_source_volume,
     set_source_mute          |-> context_set_source_mute,
     set_source_suspended     |-> context_set_source_suspended,
     get_sources              |-> Direct(context_get_source_info_list),
     get_source_info          |-> context_get_source_info,
     get_source_outputs       |-> Direct(context_get_source_output_info_list),
     get_source_output_info   |-> Direct(context_get_source_output_info),
     set_source_output_volume |-> Direct(context_set_source_output_volume),
     set_source_output_mute   |-> Direct(context_set_source_output_mute),
     move_source_output       |-> context_move_source_output,
     kill_source_output       |-> Direct(context_kill_source_output)]

Method == DOMAIN context_f

(***************************************************************************)
(* How a handler leaves.                                                   *)
(*   "badarg"      an argument has the wrong type; nothing was allocated   *)
(*   "notready"    early return: args[2] was called with the message       *)
(*   "nocallback"  prepare_lua_callback raised after it anchored the       *)
(*                 thread, so the registry slot stays taken                *)
(*   "badvolume"   raised after prepare_lua_callback returned, so the      *)
(*                 callback data stays too                                 *)
(*   "refused"     libpulse returned no operation: args[2] was called with *)
(*                 the message and the callback data stays                 *)
(*   "submitted"   libpulse has the request and the callback data          *)
(***************************************************************************)
Exits == {"badarg", "notready", "nocallback", "badvolume", "refused", "submitted"}

\* Mutant: the operation is not compared with NULL.
HandlerExitUnchecked(h, args, ready) ==
    IF \/ \E i \in h.indexes : ~IsIndex(args[i])
       \/ \E i \in h.names : ~IsName(args[i])           THEN "badarg"
    ELSE IF h.gated /\ ~ready                           THEN "notready"
    ELSE IF ~Callable(args[h.callback])                 THEN "nocallback"
    ELSE IF ~ready                                      THEN "unreported"
    ELSE "submitted"

HandlerExit(h, args, ready) ==
    IF \/ \E i \in h.indexes : ~IsIndex(args[i])
       \/ \E i \in h.names : ~IsName(args[i])           THEN "badarg"
    ELSE IF h.gated /\ ~ready                           THEN "notready"
    ELSE IF ~Callable(args[h.callback])                 THEN "nocallback"
    ELSE IF h.volume /\ ~IsVolume(args[3])              THEN "badvolume"
    ELSE IF ~ready \/ (h.volume /\ ~Playable(args[3]))  THEN "refused"
    ELSE "submitted"

Exit(method, args, ready) ==
    LET handlers == context_f[method][args[2]]
    IN  IF handlers = {} THEN "badarg"
        ELSE HandlerExit(CHOOSE h \in handlers : TRUE, args, ready)

\* Where the answer to a submitted call goes.
ReplyTo(method, args) == (CHOOSE h \in context_f[method][args[2]] : TRUE).reply
=============================================================================
