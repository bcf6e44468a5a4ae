------------------------------ MODULE Dispatch ------------------------------
(***************************************************************************)
(* One call of one method of a Context, with every combination of values   *)
(* in its first three arguments, on a connection that is READY or not, and *)
(* what the method table of Handlers makes of it, compared with the        *)
(* parameters context.h documents for that method.                         *)
(***************************************************************************)
EXTENDS Handlers, Sequences

VARIABLES method, args, ready, exit

vars == <<method, args, ready, exit>>

Init ==
    /\ method \in Method
    /\ \E first, second, third \in Value : args = <<"context", first, second, third>>
    /\ ready \in BOOLEAN
    /\ exit = "none"

Run ==
    /\ exit = "none"
    /\ exit' = Exit(method, args, ready)
    /\ UNCHANGED <<method, args, ready>>

Next == Run

Spec == Init /\ [][Next]_vars

TypeOK ==
    /\ method \in Method
    /\ args \in [1..4 -> Value]
    /\ ready \in BOOLEAN
    /\ exit \in Exits \cup {"none"}

-----------------------------------------------------------------------------
(***************************************************************************)
(* The documented parameters of every method, read off the @tparam lines   *)
(* of context.h: which values each may have.  The two methods that move a  *)
(* stream are documented there under the name of another one, and the two  *)
(* that set a default without the callback they take.                      *)
(***************************************************************************)
Index    == {"index"}
Name     == Strings
Either   == Index \cup Name
Bool     == {"boolean"}
Volume   == {"volume"} \cap Value
Function == {"function"}

Documented ==
    [set_default_sink         |-> <<Name>>,
     set_default_source       |-> <<Name>>,
     get_server_info          |-> <<Function>>,
     get_sinks                |-> <<Function>>,
     get_sink_info            |-> <<Either, Function>>,
     set_sink_volume          |-> <<Either, Volume, Function>>,
     set_sink_mute            |-> <<Either, Bool, Function>>,
     set_sink_suspended       |-> <<Either, Bool, Function>>,
     get_sink_inputs          |-> <<Function>>,
     get_sink_input_info      |-> <<Either, Function>>,
     set_sink_input_volume    |-> <<Index, Volume, Function>>,
     set_sink_input_mute      |-> <<Index, Bool, Function>>,
     move_sink_input          |-> <<Index, Either, Function>>,
     kill_sink_input          |-> <<Index, Function>>,
     set_source_volume        |-> <<Either, Volume, Function>>,
     set_source_mute          |-> <<Either, Bool, Function>>,
     set_source_suspended     |-> <<Either, Bool, Function>>,
     get_sources              |-> <<Function>>,
     get_source_info          |-> <<Either, Function>>,
     get_source_outputs       |-> <<Function>>,
     get_source_output_info   |-> <<Index, Function>>,
     set_source_output_volume |-> <<Index, Volume, Function>>,
     set_source_output_mute   |-> <<Index, Bool, Function>>,
     move_source_output       |-> <<Index, Either, Function>>,
     kill_source_output       |-> <<Index, Function>>]

Parameters == Documented[method]

WrittenAs(parameters) == \A i \in 2..4 :
    args[i] \in IF i - 1 <= Len(parameters) THEN parameters[i - 1] ELSE {"nil"}

\* A call written as the @tparam lines say.
Documents == WrittenAs(Parameters)

\* All of these methods are marked @async: the callback belongs to the signature
\* also where no @tparam line lists it.
Signature ==
    IF Parameters[Len(Parameters)] = Function THEN Parameters ELSE Append(Parameters, Function)

Intended == Documents \/ WrittenAs(Signature)

\* The documented forms that no handler takes: see AllDocumentedCallsAreServed.
Unserved ==
    \/ method \in {"set_default_sink", "set_default_source"} /\ args[3] = "nil"
    \/ method = "get_sink_info" /\ args[2] \in Name
    \/ method = "get_sink_input_info" /\ args[2] = "name"
    \/ method \in {"move_sink_input", "move_source_output"} /\ args[3] = "name"

\* What the C API of Lua and volume_from_lua accept in place of a documented value.
Coerced(values) ==
    IF values = Bool THEN Value
    ELSE IF values = Volume THEN {"levels"} \cup Volume
    ELSE IF values = Function THEN Function
    ELSE values \cup Strings \cup (IF values = Index THEN {} ELSE Numbers)

(***************************************************************************)
(* Every call written as context.h documents it, or so with a callback     *)
(* behind the documented parameters of an @async method that lists none,   *)
(* reaches the server when the connection is READY, but for the forms      *)
(* listed as unserved, which never do: each handler reads its callback,    *)
(* its names and its indexes from the stack position where that method's   *)
(* documentation puts them.                                                *)
(***************************************************************************)
DocumentedCallsAreServed ==
    exit # "none" /\ ready /\ Intended => (exit = "submitted" <=> ~Unserved)

(***************************************************************************)
(* Nothing else reaches the server: a submitted call had, at each position *)
(* of its signature, a value Lua converts to the documented type, and      *)
(* in particular a function to call back and no index below 1.  (Zero may  *)
(* stand for a name: "0".  A target takes that road if the index of what   *)
(* is moved was itself written as a string, which selects the _by_name     *)
(* form.)                                                                  *)
(***************************************************************************)
OnlyConvertibleCallsAreServed ==
    exit = "submitted" =>
        \A i \in 1..Len(Signature) :
            /\ args[i + 1] \in Coerced(Signature[i])
            /\ args[i + 1] = "zero" => Signature[i] \in {Bool, Name} \/ args[2] = "numeral"

(***************************************************************************)
(* A documented call made while the connection is not READY allocates      *)
(* nothing that is never released, but for the methods written without the *)
(* READY test, which leave their callback data behind, or the thread they  *)
(* anchored if they were given no callback.                                *)
(***************************************************************************)
Untested ==
    {"set_default_sink", "set_default_source",
     "set_sink_input_volume", "set_sink_input_mute", "kill_sink_input",
     "set_source_output_volume", "set_source_output_mute", "kill_source_output"}

EarlyCallsLeaveNothing ==
    exit # "none" /\ ~ready /\ Intended =>
        (exit \in {"badarg", "notready"} <=> method \notin Untested)

(***************************************************************************)
(* Sinks and sources, and sink inputs and source outputs, are served by    *)
(* copies of the same handlers: the same arguments leave them in the same  *)
(* way.  The exception is a sink looked up by name, whose copy reads its   *)
(* callback from the wrong position.                                       *)
(***************************************************************************)
Twin ==
    [set_default_sink      |-> "set_default_source",
     get_sinks             |-> "get_sources",
     get_sink_info         |-> "get_source_info",
     set_sink_volume       |-> "set_source_volume",
     set_sink_mute         |-> "set_source_mute",
     set_sink_suspended    |-> "set_source_suspended",
     get_sink_inputs       |-> "get_source_outputs",
     get_sink_input_info   |-> "get_source_output_info",
     set_sink_input_volume |-> "set_source_output_volume",
     set_sink_input_mute   |-> "set_source_output_mute",
     move_sink_input       |-> "move_source_output",
     kill_sink_input       |-> "kill_source_output"]

TwinsAgree ==
    exit # "none" /\ method \in DOMAIN Twin /\ ~(method = "get_sink_info" /\ args[2] \in Name) =>
        exit = Exit(Twin[method], args, ready)

-----------------------------------------------------------------------------
\* What the documentation says and the code does not do.

(***************************************************************************)
(* context.h documents every method for each type its parameters may have. *)
(* Three forms of it are not served, though they come with a callback:     *)
(* get_sink_info with a name takes its callback from position 2, where the *)
(* name is; get_sink_input_info has no form for a name; and the methods    *)
(* that move a stream to a named target choose their form by the type of   *)
(* the stream, which is a number.  (A fourth form is not served because it *)
(* comes without one: a default set as documented, with a name only.)      *)
(***************************************************************************)
AllDocumentedCallsAreServed ==
    exit # "none" /\ ready /\ WrittenAs(Signature) => exit = "submitted"
=============================================================================
