--------------------------- MODULE HandlersProofs ---------------------------
(***************************************************************************)
(* Facts about the method table that hold for every method and value.      *)
(***************************************************************************)
EXTENDS Handlers, TLAPS

Replies == {"ack", "list", "single", "server"}

HandlerType ==
    [indexes : SUBSET (2..4), names : SUBSET (2..4), gated : BOOLEAN,
     callback : 2..4, volume : BOOLEAN, reply : Replies]

(***************************************************************************)
(* The constructors of handlers, given positions on the stack, make        *)
(* handlers.                                                               *)
(***************************************************************************)
LEMMA ConstructorsTyped ==
    ASSUME NEW I \in SUBSET (2..4), NEW N \in SUBSET (2..4)
    PROVE  /\ Setter(I, N) \in HandlerType
           /\ VolumeSetter(I) \in HandlerType
           /\ Lister \in HandlerType
           /\ Getter(I, N) \in HandlerType
           /\ Handler(I, N, FALSE, 3, FALSE, "ack") \in HandlerType
           /\ Handler(I, N, TRUE, 2, FALSE, "server") \in HandlerType
  <1>1. {} \in SUBSET (2..4)
    OBVIOUS
  <1>2. Setter(I, N) \in HandlerType
    BY DEF HandlerType, Replies, Handler, Setter
  <1>3. VolumeSetter(I) \in HandlerType
    BY <1>1 DEF HandlerType, Replies, Handler, VolumeSetter
  <1>4. Lister \in HandlerType
    BY <1>1 DEF HandlerType, Replies, Handler, Lister
  <1>5. Getter(I, N) \in HandlerType
    BY DEF HandlerType, Replies, Handler, Getter
  <1>6. Handler(I, N, FALSE, 3, FALSE, "ack") \in HandlerType
    BY DEF HandlerType, Replies, Handler
  <1>7. Handler(I, N, TRUE, 2, FALSE, "server") \in HandlerType
    BY DEF HandlerType, Replies, Handler
  <1> QED
    BY <1>2, <1>3, <1>4, <1>5, <1>6, <1>7

(***************************************************************************)
(* A handler with another callback position, or without the READY test, is *)
(* a handler.                                                              *)
(***************************************************************************)
LEMMA UpdatesTyped ==
    ASSUME NEW h \in HandlerType
    PROVE  /\ Ungated(h) \in HandlerType
           /\ [h EXCEPT !.callback = 2] \in HandlerType
  <1>1. Ungated(h) \in HandlerType
    BY DEF HandlerType, Ungated
  <1>2. [h EXCEPT !.callback = 2] \in HandlerType
    <2>1. 2 \in 2..4
      OBVIOUS
    <2> QED
      BY <2>1 DEF HandlerType
  <1> QED
    BY <1>1, <1>2

(***************************************************************************)
(* The positions that handlers read lie on the stack.                      *)
(***************************************************************************)
LEMMA Positions == {{}, {2}, {3}, {2, 3}} \subseteq SUBSET (2..4)
  OBVIOUS

(***************************************************************************)
(* The handlers of sinks are well formed.                                  *)
(***************************************************************************)
LEMMA SinkHandlersTyped ==
    {context_get_sink_info_list, context_get_sink_info_by_name,
     context_get_sink_info_by_index, context_set_sink_volume_by_name,
     context_set_sink_volume_by_index, context_set_sink_mute_by_name,
     context_set_sink_mute_by_index, context_set_sink_suspended_by_name,
     context_set_sink_suspended_by_index} \subseteq HandlerType
  BY ConstructorsTyped, UpdatesTyped, Positions
     DEF context_get_sink_info_list, context_get_sink_info_by_name,
         context_get_sink_info_by_index, context_set_sink_volume_by_name,
         context_set_sink_volume_by_index, context_set_sink_mute_by_name,
         context_set_sink_mute_by_index, context_set_sink_suspended_by_name,
         context_set_sink_suspended_by_index

(***************************************************************************)
(* The handlers of sources are well formed.                                *)
(***************************************************************************)
LEMMA SourceHandlersTyped ==
    {context_get_source_info_list, context_get_source_info_by_name,
     context_get_source_info_by_index, context_set_source_volume_by_name,
     context_set_source_volume_by_index, context_set_source_mute_by_name,
     context_set_source_mute_by_index, context_set_source_suspended_by_name,
     context_set_source_suspended_by_index} \subseteq HandlerType
  BY ConstructorsTyped, UpdatesTyped, Positions
     DEF context_get_source_info_list, context_get_source_info_by_name,
         context_get_source_info_by_index, context_set_source_volume_by_name,
         context_set_source_volume_by_index, context_set_source_mute_by_name,
         context_set_source_mute_by_index,
         context_set_source_suspended_by_name,
         context_set_source_suspended_by_index

(***************************************************************************)
(* The handlers of sink inputs are well formed.                            *)
(***************************************************************************)
LEMMA SinkInputHandlersTyped ==
    {context_get_sink_input_info_list, context_get_sink_input_info,
     context_move_sink_input_by_index, context_move_sink_input_by_name,
     context_set_sink_input_volume, context_set_sink_input_mute,
     context_kill_sink_input} \subseteq HandlerType
  BY ConstructorsTyped, UpdatesTyped, Positions
     DEF context_get_sink_input_info_list, context_get_sink_input_info,
         context_move_sink_input_by_index, context_move_sink_input_by_name,
         context_set_sink_input_volume, context_set_sink_input_mute,
         context_kill_sink_input

(***************************************************************************)
(* The handlers of source outputs are well formed.                         *)
(***************************************************************************)
LEMMA SourceOutputHandlersTyped ==
    {context_get_source_output_info_list, context_get_source_output_info,
     context_move_source_output_by_index, context_move_source_output_by_name,
     context_set_source_output_volume, context_set_source_output_mute,
     context_kill_source_output} \subseteq HandlerType
  BY ConstructorsTyped, UpdatesTyped, Positions
     DEF context_get_source_output_info_list, context_get_source_output_info,
         context_move_source_output_by_index,
         context_move_source_output_by_name, context_set_source_output_volume,
         context_set_source_output_mute, context_kill_source_output

(***************************************************************************)
(* The handlers of the server and of its defaults are well formed.         *)
(***************************************************************************)
LEMMA ServerHandlersTyped ==
    {context_set_default_sink, context_set_default_source,
     context_get_server_info} \subseteq HandlerType
  BY ConstructorsTyped, UpdatesTyped, Positions
     DEF context_set_default_sink, context_set_default_source,
         context_get_server_info

(***************************************************************************)
(* A method of one form runs only its handler.                             *)
(***************************************************************************)
LEMMA DirectTyped ==
    ASSUME NEW h \in HandlerType, NEW v \in Value
    PROVE  Direct(h)[v] \subseteq HandlerType
  BY DEF Direct

(***************************************************************************)
(* A method of two forms runs only well-formed handlers.                   *)
(***************************************************************************)
LEMMA TwoFormsTyped ==
    ASSUME NEW g \in HandlerType, NEW h \in HandlerType, NEW v \in Value
    PROVE  TwoForms(g, h)[v] \subseteq HandlerType
  BY DEF TwoForms

(***************************************************************************)
(* Every entry of the method table runs only well-formed handlers,         *)
(* whatever the first argument is.                                         *)
(***************************************************************************)
THEOREM MethodTableTyped ==
    \A m \in Method, v \in Value : context_f[m][v] \subseteq HandlerType
  <1> DEFINE Typed(method) == \A v \in Value : method[v] \subseteq HandlerType
  <1>1. /\ Typed(Direct(context_set_default_sink))
        /\ Typed(Direct(context_set_default_source))
        /\ Typed(Direct(context_get_server_info))
        /\ Typed(Direct(context_get_sink_info_list))
        /\ Typed(Direct(context_get_sink_input_info_list))
        /\ Typed(Direct(context_get_sink_input_info))
        /\ Typed(Direct(context_set_sink_input_volume))
        /\ Typed(Direct(context_set_sink_input_mute))
        /\ Typed(Direct(context_kill_sink_input))
        /\ Typed(Direct(context_get_source_info_list))
        /\ Typed(Direct(context_get_source_output_info_list))
        /\ Typed(Direct(context_get_source_output_info))
        /\ Typed(Direct(context_set_source_output_volume))
        /\ Typed(Direct(context_set_source_output_mute))
        /\ Typed(Direct(context_kill_source_output))
    BY DirectTyped, SinkHandlersTyped, SourceHandlersTyped, SinkInputHandlersTyped,
       SourceOutputHandlersTyped, ServerHandlersTyped
  <1>2. /\ Typed(context_get_sink_info)
        /\ Typed(context_set_sink_volume)
        /\ Typed(context_set_sink_mute)
        /\ Typed(context_set_sink_suspended)
        /\ Typed(context_move_sink_input)
        /\ Typed(context_set_source_volume)
        /\ Typed(context_set_source_mute)
        /\ Typed(context_set_source_suspended)
        /\ Typed(context_get_source_info)
        /\ Typed(context_move_source_output)
    BY TwoFormsTyped, SinkHandlersTyped, SourceHandlersTyped, SinkInputHandlersTyped,
       SourceOutputHandlersTyped
       DEF context_get_sink_info, context_set_sink_volume,
           context_set_sink_mute, context_set_sink_suspended,
           context_move_sink_input, context_set_source_volume,
           context_set_source_mute, context_set_source_suspended,
           context_get_source_info, context_move_source_output
  <1> HIDE DEF Typed
  <1>3. \A m \in Method : Typed(context_f[m])
    BY <1>1, <1>2 DEF Method, context_f
  <1> QED
    BY <1>3 DEF Typed

(***************************************************************************)
(* A call that was submitted is answered in one of the four ways.          *)
(***************************************************************************)
LEMMA AnswerTyped ==
    ASSUME NEW m \in Method, NEW args \in [1..4 -> Value], NEW ready \in BOOLEAN,
           Exit(m, args, ready) = "submitted"
    PROVE  ReplyTo(m, args) \in Replies
  <1>1. args[2] \in Value
    OBVIOUS
  <1>2. context_f[m][args[2]] # {} /\ context_f[m][args[2]] \subseteq HandlerType
    BY <1>1, MethodTableTyped DEF Exit
  <1>3. PICK h \in context_f[m][args[2]] : h = CHOOSE g \in context_f[m][args[2]] : TRUE
    BY <1>2
  <1> QED
    BY <1>2, <1>3 DEF ReplyTo, HandlerType

=============================================================================
