------------------------------ MODULE Convert ------------------------------
(***************************************************************************)
(* The conversion of PulseAudio's info structures to Lua tables            *)
(* (convert.c), as far as the tables have an effect: the userdata they     *)
(* hold, in the order they are created, and the numbers they give for the  *)
(* objects of the server.  An info's own index is shifted to Lua's base 1. *)
(* The index of another object in it, of a sink's monitor, of the sink of  *)
(* a sink input, is passed on as it is.                                    *)
(***************************************************************************)
EXTENDS Volume

PA_INVALID_INDEX == WordRange - 1

(***************************************************************************)
(* An info of the server: its own index, the index of the object it refers *)
(* to (PA_INVALID_INDEX for none), whether it has a volume, and how many   *)
(* formats.  Sinks and sources always have a volume, and a sink input or a *)
(* source output always has one format.                                    *)
(***************************************************************************)
Converted(makes, index, reference) ==
    [makes |-> makes, index |-> index, reference |-> reference]

formats_to_lua(n) == [i \in 1..n |-> "list"]

\* Mutant: the index is not shifted.
sink_info_unshifted(info) ==
    Converted(<<"volume", "list">> \o formats_to_lua(info.formats), info.index, info.reference)

\* The reference is monitor_source.
sink_info_to_lua(info) ==
    Converted(<<"volume", "list">> \o formats_to_lua(info.formats),
              uint32_t(info.index + 1), info.reference)

\* The reference is monitor_of_sink.
source_info_to_lua(info) ==
    Converted(<<"volume", "list">> \o formats_to_lua(info.formats),
              uint32_t(info.index + 1), info.reference)

StreamUserdata(info) ==
    (IF info.has_volume THEN <<"volume">> ELSE << >>) \o <<"list", "list">>

\* The reference is sink.
sink_input_info_to_lua(info) ==
    Converted(StreamUserdata(info), uint32_t(info.index + 1), info.reference)

\* The reference is source.
source_output_info_to_lua(info) ==
    Converted(StreamUserdata(info), uint32_t(info.index + 1), info.reference)

\* The index a request carries for a number that is at least 1.
RequestedIndex(number) == uint32_t(uint32_t(number) - 1)
=============================================================================
