----------------------------- MODULE MCObjects -----------------------------
(***************************************************************************)
(* Instances of Objects: words of six values, volumes of two channels.     *)
(***************************************************************************)
EXTENDS Objects, TLC

CONSTANTS text, key, badkey

Program(pulseaudios, contexts, volumes, lists, levels, positions, tables, entries) ==
    [makes |-> [pulseaudio |-> pulseaudios, context |-> contexts, volume |-> volumes, list |-> lists],
     levels |-> levels, positions |-> positions, tables |-> tables, entries |-> entries]

\* Too long for the channels there are; negative; no channels, because a byte overflows;
\* one channel, for the same reason; no numbers.
Tables ==
    {<<2, 1, 0>>, <<-1>>, <<0, 1, 2, 1>>, <<1, 2, 0, 2, 1>>, <<1, text>>, << >>}

\* Five kinds of program: one that computes with Volumes, with a negative number, silence, the
\* maximum, and one more; one that fills and reads PropLists; one that opens and closes
\* connections; one that reads what the server answers; and one that sends it volumes.
MCPrograms ==
    {Program(0, 0, 2, 0, {-1, 0, 2, 3}, -1..4, Tables, {}),
     Program(0, 0, 0, 2, {}, {}, {}, {text, Binary, Nil}),
     Program(2, 2, 0, 0, {}, {}, {}, {}),
     Program(1, 1, 1, 2, {}, {}, {}, {Binary}),
     Program(1, 1, 1, 0, {-1}, -1..4, Tables, {})}

MCServerVolume == {[channels |-> 2, values |-> (0 :> 1 @@ 1 :> 2)]}

\* The first index and the last, a reference to nothing, and one that is an index in Lua.
MCInfo ==
    {[index |-> 0, reference |-> 0, has_volume |-> TRUE, formats |-> 1],
     [index |-> PA_INVALID_INDEX - 1, reference |-> PA_INVALID_INDEX, has_volume |-> FALSE, formats |-> 0],
     [index |-> PA_INVALID_INDEX - 1, reference |-> 1, has_volume |-> TRUE, formats |-> 0]}
=============================================================================
