--------------------------- MODULE DispatchProofs ---------------------------
(***************************************************************************)
(* What Dispatch says of the method table, whether or not the volume       *)
(* module is loaded.  A call leaves the way its handler does; what a       *)
(* handler lets through is compared with the documentation row by row of   *)
(* the method table, and rows that are copies of one another at once.      *)
(***************************************************************************)
EXTENDS Dispatch, HandlersProofs

(***************************************************************************)
(* A call that is over left the way the method table says.                 *)
(***************************************************************************)
Settled == exit \in {"none", Exit(method, args, ready)}

IInv == TypeOK /\ Settled

(***************************************************************************)
(* A handler leaves in one of the six ways.                                *)
(***************************************************************************)
LEMMA ExitTyped ==
    ASSUME NEW m, NEW a, NEW r
    PROVE  Exit(m, a, r) \in Exits
  <1>1. \A h : HandlerExit(h, a, r) \in Exits
    BY DEF HandlerExit, Exits
  <1> QED
    BY <1>1 DEF Exit, Exits

(***************************************************************************)
(* IInv holds at first, and after the call.                                *)
(***************************************************************************)
THEOREM Inductive == Spec => []IInv
  <1>1. Init => IInv
    <2> SUFFICES ASSUME Init PROVE IInv
      OBVIOUS
    <2>1. PICK first \in Value, second \in Value, third \in Value :
            args = <<"context", first, second, third>>
      BY DEF Init
    <2>2. "context" \in Value
      BY DEF Value, Userdata
    <2>3. args \in [1..4 -> Value]
      BY <2>1, <2>2
    <2> QED
      BY <2>3 DEF Init, IInv, TypeOK, Settled
  <1>2. IInv /\ [Next]_vars => IInv'
    BY ExitTyped DEF IInv, TypeOK, Settled, Next, Run, vars
  <1> QED
    BY <1>1, <1>2, PTL DEF Spec

(***************************************************************************)
(* TypeOK holds whatever the call: a handler has no other way out.         *)
(***************************************************************************)
THEOREM TypeCorrect == Spec => []TypeOK
  <1>1. IInv => TypeOK
    BY DEF IInv
  <1> QED
    BY <1>1, Inductive, PTL

-----------------------------------------------------------------------------
(***************************************************************************)
(* A method with one form leaves as its handler does.                      *)
(***************************************************************************)
LEMMA OneForm ==
    ASSUME NEW m, NEW a, NEW r, NEW h, a[2] \in Value, context_f[m] = Direct(h)
    PROVE  Exit(m, a, r) = HandlerExit(h, a, r)
  <1>1. context_f[m][a[2]] = {h}
    BY DEF Direct
  <1>2. (CHOOSE g \in {h} : TRUE) = h
    OBVIOUS
  <1> QED
    BY <1>1, <1>2 DEF Exit

(***************************************************************************)
(* A method with two leaves as the one that the type of its first argument *)
(* selects, if there is one.                                               *)
(***************************************************************************)
LEMMA EitherForm ==
    ASSUME NEW m, NEW a, NEW r, NEW g, NEW h, a[2] \in Value, context_f[m] = TwoForms(g, h)
    PROVE  Exit(m, a, r) = IF a[2] \in Strings THEN HandlerExit(g, a, r)
                           ELSE IF a[2] \in Numbers THEN HandlerExit(h, a, r)
                           ELSE "badarg"
  <1>1. context_f[m][a[2]] = {f \in {g} : a[2] \in Strings} \cup {f \in {h} : a[2] \in Numbers}
    BY DEF TwoForms
  <1>2. a[2] \notin Strings \/ a[2] \notin Numbers
    BY DEF Strings, Numbers
  <1>3. (CHOOSE f \in {g} : TRUE) = g /\ (CHOOSE f \in {h} : TRUE) = h
    OBVIOUS
  <1>4. CASE a[2] \in Strings
    <2>1. context_f[m][a[2]] = {g}
      BY <1>1, <1>2, <1>4
    <2> QED
      BY <2>1, <1>3, <1>4 DEF Exit
  <1>5. CASE a[2] \in Numbers
    <2>1. context_f[m][a[2]] = {h}
      BY <1>1, <1>2, <1>5
    <2> QED
      BY <2>1, <1>2, <1>3, <1>5 DEF Exit
  <1>6. CASE a[2] \notin Strings /\ a[2] \notin Numbers
    <2>1. context_f[m][a[2]] = {}
      BY <1>1, <1>6
    <2> QED
      BY <2>1, <1>6 DEF Exit
  <1> QED
    BY <1>4, <1>5, <1>6

\* The positions a handler tests hold what it expects there.
Fits(h, a) == (\A i \in h.indexes : IsIndex(a[i])) /\ (\A i \in h.names : IsName(a[i]))

(***************************************************************************)
(* What a handler lets through to the server.                              *)
(***************************************************************************)
LEMMA Submits ==
    ASSUME NEW h, NEW a, NEW r \in BOOLEAN, h.volume \in BOOLEAN
    PROVE  HandlerExit(h, a, r) = "submitted" <=>
               /\ r /\ Fits(h, a) /\ Callable(a[h.callback])
               /\ h.volume => IsVolume(a[3]) /\ Playable(a[3])
  BY DEF HandlerExit, Fits

(***************************************************************************)
(* What it turns away without a trace while the connection is not READY.   *)
(***************************************************************************)
LEMMA TurnsAway ==
    ASSUME NEW h, NEW a, NEW r \in BOOLEAN, ~r, h.gated \in BOOLEAN
    PROVE  HandlerExit(h, a, r) \in {"badarg", "notready"} <=> h.gated \/ ~Fits(h, a)
  BY DEF HandlerExit, Fits

-----------------------------------------------------------------------------
(***************************************************************************)
(* The rows of the method table, grouped by shape.                         *)
(***************************************************************************)
Listers  == {"get_server_info", "get_sinks", "get_sources", "get_sink_inputs", "get_source_outputs"}
Defaults == {"set_default_sink", "set_default_source"}
Getters  == {"get_sink_input_info", "get_source_output_info"}
Killers  == {"kill_sink_input", "kill_source_output"}
StreamVolumes == {"set_sink_input_volume", "set_source_output_volume"}
StreamMutes   == {"set_sink_input_mute", "set_source_output_mute"}
Lookups  == {"get_sink_info", "get_source_info"}
Volumes  == {"set_sink_volume", "set_source_volume"}
Switches == {"set_sink_mute", "set_sink_suspended", "set_source_mute", "set_source_suspended"}
Movers   == {"move_sink_input", "move_source_output"}

(***************************************************************************)
(* There are no other rows.                                                *)
(***************************************************************************)
LEMMA Rows ==
    Method = Listers \cup Defaults \cup Getters \cup Killers \cup StreamVolumes \cup StreamMutes
             \cup Lookups \cup Volumes \cup Switches \cup Movers
  BY DEF Method, context_f, Listers, Defaults, Getters, Killers, StreamVolumes, StreamMutes,
         Lookups, Volumes, Switches, Movers

(***************************************************************************)
(* A handler with one field updated is the handler with that field.        *)
(***************************************************************************)
LEMMA Updated ==
    ASSUME NEW h \in HandlerType
    PROVE  /\ Ungated(h) = Handler(h.indexes, h.names, FALSE, h.callback, h.volume, h.reply)
           /\ [h EXCEPT !.callback = 2] = Handler(h.indexes, h.names, h.gated, 2, h.volume, h.reply)
  <1>1. ASSUME NEW g \in HandlerType
        PROVE  g = Handler(g.indexes, g.names, g.gated, g.callback, g.volume, g.reply)
    BY DEF HandlerType, Handler
  <1>2. Ungated(h) = Handler(h.indexes, h.names, FALSE, h.callback, h.volume, h.reply)
    <2> DEFINE g == Ungated(h)
    <2>1. g \in HandlerType
      BY UpdatesTyped
    <2>2. g.indexes = h.indexes /\ g.names = h.names /\ g.gated = FALSE
          /\ g.callback = h.callback /\ g.volume = h.volume /\ g.reply = h.reply
      BY DEF HandlerType, Ungated
    <2> HIDE DEF g
    <2> QED
      BY <1>1, <2>1, <2>2, Zenon DEF g
  <1>3. [h EXCEPT !.callback = 2] = Handler(h.indexes, h.names, h.gated, 2, h.volume, h.reply)
    <2> DEFINE g == [h EXCEPT !.callback = 2]
    <2>1. g \in HandlerType
      BY UpdatesTyped
    <2>2. g.indexes = h.indexes /\ g.names = h.names /\ g.gated = h.gated
          /\ g.callback = 2 /\ g.volume = h.volume /\ g.reply = h.reply
      BY DEF HandlerType
    <2> HIDE DEF g
    <2>3. g = Handler(h.indexes, h.names, h.gated, 2, h.volume, h.reply)
      BY <1>1, <2>1, <2>2, Zenon
    <2> QED
      BY <2>3 DEF g
  <1> QED
    BY <1>2, <1>3

(***************************************************************************)
(* Methods that only take a callback.                                      *)
(***************************************************************************)
LEMMA ListerRow ==
    ASSUME NEW m \in Listers
    PROVE  /\ \E reply : context_f[m] = Direct(Handler({}, {}, TRUE, 2, FALSE, reply))
           /\ Documented[m] = <<Function>>
  <1>1. context_f[m] = Direct(IF m = "get_server_info" THEN context_get_server_info ELSE Lister)
    BY DEF Listers, context_f, context_get_sink_info_list, context_get_source_info_list,
           context_get_sink_input_info_list, context_get_source_output_info_list
  <1>2. Documented[m] = <<Function>>
    BY DEF Listers, Documented
  <1> QED
    BY <1>1, <1>2 DEF Lister, context_get_server_info

(***************************************************************************)
(* The defaults take a name.                                               *)
(***************************************************************************)
LEMMA DefaultRow ==
    ASSUME NEW m \in Defaults
    PROVE  /\ context_f[m] = Direct(Handler({}, {2}, FALSE, 3, FALSE, "ack"))
           /\ Documented[m] = <<Name>>
  <1>1. context_f[m] \in {Direct(context_set_default_sink), Direct(context_set_default_source)}
    BY DEF Defaults, context_f
  <1>2. context_f[m] = Direct(Handler({}, {2}, FALSE, 3, FALSE, "ack"))
    BY <1>1, Zenon DEF context_set_default_sink, context_set_default_source
  <1>3. Documented[m] = <<Name>>
    BY DEF Defaults, Documented
  <1> QED
    BY <1>2, <1>3

(***************************************************************************)
(* Infos of streams are found by index, though one is documented otherwise.*)
(***************************************************************************)
LEMMA GetterRow ==
    ASSUME NEW m \in Getters
    PROVE  /\ context_f[m] = Direct(Handler({2}, {}, TRUE, 3, FALSE, "single"))
           /\ Documented[m] = IF m = "get_sink_input_info" THEN <<Either, Function>> ELSE <<Index, Function>>
  <1>1. context_f[m] = Direct(Getter({2}, {}))
    BY DEF Getters, context_f, context_get_sink_input_info, context_get_source_output_info
  <1>2. Documented[m] = IF m = "get_sink_input_info" THEN <<Either, Function>> ELSE <<Index, Function>>
    BY DEF Getters, Documented
  <1> QED
    BY <1>1, <1>2 DEF Getter

(***************************************************************************)
(* Streams are killed without a test for READY.                            *)
(***************************************************************************)
LEMMA KillerRow ==
    ASSUME NEW m \in Killers
    PROVE  /\ context_f[m] = Direct(Handler({2}, {}, FALSE, 3, FALSE, "ack"))
           /\ Documented[m] = <<Index, Function>>
  <1>1. context_f[m] \in {Direct(context_kill_sink_input), Direct(context_kill_source_output)}
    BY DEF Killers, context_f
  <1>2. context_f[m] = Direct(Handler({2}, {}, FALSE, 3, FALSE, "ack"))
    BY <1>1, Zenon DEF context_kill_sink_input, context_kill_source_output
  <1>3. Documented[m] = <<Index, Function>>
    BY DEF Killers, Documented
  <1> QED
    BY <1>2, <1>3

(***************************************************************************)
(* So are their volumes set.                                               *)
(***************************************************************************)
LEMMA StreamVolumeRow ==
    ASSUME NEW m \in StreamVolumes
    PROVE  /\ context_f[m] = Direct(Handler({2}, {}, FALSE, 4, TRUE, "ack"))
           /\ Documented[m] = <<Index, Volume, Function>>
  <1> DEFINE h == VolumeSetter({2})
  <1>1. context_f[m] = Direct(Ungated(h))
    BY DEF StreamVolumes, context_f, context_set_sink_input_volume, context_set_source_output_volume
  <1>2. h \in HandlerType
    BY ConstructorsTyped, Positions
  <1>3. h.indexes = {2} /\ h.names = {} /\ h.callback = 4 /\ h.volume = TRUE /\ h.reply = "ack"
    BY DEF VolumeSetter, Handler
  <1> HIDE DEF h
  <1>4. Ungated(h) = Handler({2}, {}, FALSE, 4, TRUE, "ack")
    BY <1>2, <1>3, Updated, Zenon
  <1>5. Documented[m] = <<Index, Volume, Function>>
    BY DEF StreamVolumes, Documented
  <1> QED
    BY <1>1, <1>4, <1>5

(***************************************************************************)
(* And muted.                                                              *)
(***************************************************************************)
LEMMA StreamMuteRow ==
    ASSUME NEW m \in StreamMutes
    PROVE  /\ context_f[m] = Direct(Handler({2}, {}, FALSE, 4, FALSE, "ack"))
           /\ Documented[m] = <<Index, Bool, Function>>
  <1> DEFINE h == Setter({2}, {})
  <1>1. context_f[m] = Direct(Ungated(h))
    BY DEF StreamMutes, context_f, context_set_sink_input_mute, context_set_source_output_mute
  <1>2. h \in HandlerType
    BY ConstructorsTyped, Positions
  <1>3. h.indexes = {2} /\ h.names = {} /\ h.callback = 4 /\ h.volume = FALSE /\ h.reply = "ack"
    BY DEF Setter, Handler
  <1> HIDE DEF h
  <1>4. Ungated(h) = Handler({2}, {}, FALSE, 4, FALSE, "ack")
    BY <1>2, <1>3, Updated, Zenon
  <1>5. Documented[m] = <<Index, Bool, Function>>
    BY DEF StreamMutes, Documented
  <1> QED
    BY <1>1, <1>4, <1>5

(***************************************************************************)
(* Infos of devices are found in two ways.  For a sink one of them reads   *)
(* the callback from position 2.                                           *)
(***************************************************************************)
LEMMA LookupRow ==
    ASSUME NEW m \in Lookups
    PROVE  /\ context_f[m] = TwoForms(
                   Handler({}, {2}, TRUE, IF m = "get_sink_info" THEN 2 ELSE 3, FALSE, "single"),
                   Handler({2}, {}, TRUE, 3, FALSE, "single"))
           /\ Documented[m] = <<Either, Function>>
  <1> DEFINE h == Getter({}, {2})
  <1>1. h = Handler({}, {2}, TRUE, 3, FALSE, "single") /\ Getter({2}, {}) = Handler({2}, {}, TRUE, 3, FALSE, "single")
    BY DEF Getter
  <1>2. h \in HandlerType
    BY ConstructorsTyped, Positions
  <1>3. h.indexes = {} /\ h.names = {2} /\ h.gated = TRUE /\ h.volume = FALSE /\ h.reply = "single"
    BY DEF Getter, Handler
  <1>4. context_get_sink_info = TwoForms([h EXCEPT !.callback = 2], Getter({2}, {}))
        /\ context_get_source_info = TwoForms(h, Getter({2}, {}))
    BY Zenon DEF context_get_sink_info, context_get_sink_info_by_name, context_get_sink_info_by_index,
           context_get_source_info, context_get_source_info_by_name, context_get_source_info_by_index
  <1> HIDE DEF h
  <1>5. [h EXCEPT !.callback = 2] = Handler({}, {2}, TRUE, 2, FALSE, "single")
    BY <1>2, <1>3, Updated, Zenon
  <1>6. Documented[m] = <<Either, Function>>
    BY DEF Lookups, Documented
  <1>7. CASE m = "get_sink_info"
    <2>1. context_f[m] = context_get_sink_info
      BY <1>7 DEF context_f
    <2>2. context_f[m] = TwoForms(Handler({}, {2}, TRUE, 2, FALSE, "single"), Handler({2}, {}, TRUE, 3, FALSE, "single"))
      BY <1>1, <1>4, <1>5, <2>1, Zenon
    <2> QED
      BY <1>6, <1>7, <2>2
  <1>8. CASE m = "get_source_info"
    <2>1. context_f[m] = context_get_source_info
      BY <1>8 DEF context_f
    <2>2. context_f[m] = TwoForms(Handler({}, {2}, TRUE, 3, FALSE, "single"), Handler({2}, {}, TRUE, 3, FALSE, "single"))
      BY <1>1, <1>4, <2>1, Zenon
    <2> QED
      BY <1>6, <1>8, <2>2
  <1> QED
    BY <1>7, <1>8 DEF Lookups

(***************************************************************************)
(* So are their volumes set.                                               *)
(***************************************************************************)
LEMMA VolumeRow ==
    ASSUME NEW m \in Volumes
    PROVE  /\ context_f[m] = TwoForms(Handler({}, {}, TRUE, 4, TRUE, "ack"), Handler({2}, {}, TRUE, 4, TRUE, "ack"))
           /\ Documented[m] = <<Either, Volume, Function>>
  <1>1. context_f[m] = TwoForms(VolumeSetter({}), VolumeSetter({2}))
    BY DEF Volumes, context_f, context_set_sink_volume, context_set_source_volume,
           context_set_sink_volume_by_name, context_set_sink_volume_by_index,
           context_set_source_volume_by_name, context_set_source_volume_by_index
  <1>2. Documented[m] = <<Either, Volume, Function>>
    BY DEF Volumes, Documented
  <1> QED
    BY <1>1, <1>2 DEF VolumeSetter

(***************************************************************************)
(* And what is on or off.                                                  *)
(***************************************************************************)
LEMMA SwitchRow ==
    ASSUME NEW m \in Switches
    PROVE  /\ context_f[m] = TwoForms(Handler({}, {2}, TRUE, 4, FALSE, "ack"), Handler({2}, {}, TRUE, 4, FALSE, "ack"))
           /\ Documented[m] = <<Either, Bool, Function>>
  <1>1. context_f[m] = TwoForms(Setter({}, {2}), Setter({2}, {}))
    BY DEF Switches, context_f, context_set_sink_mute, context_set_source_mute,
           context_set_sink_suspended, context_set_source_suspended,
           context_set_sink_mute_by_name, context_set_sink_mute_by_index,
           context_set_source_mute_by_name, context_set_source_mute_by_index,
           context_set_sink_suspended_by_name, context_set_sink_suspended_by_index,
           context_set_source_suspended_by_name, context_set_source_suspended_by_index
  <1>2. Documented[m] = <<Either, Bool, Function>>
    BY DEF Switches, Documented
  <1> QED
    BY <1>1, <1>2 DEF Setter

(***************************************************************************)
(* Streams are moved in two ways, which the type of the stream selects.    *)
(***************************************************************************)
LEMMA MoverRow ==
    ASSUME NEW m \in Movers
    PROVE  /\ context_f[m] = TwoForms(Handler({2}, {3}, TRUE, 4, FALSE, "ack"), Handler({2, 3}, {}, TRUE, 4, FALSE, "ack"))
           /\ Documented[m] = <<Index, Either, Function>>
  <1>1. context_f[m] = TwoForms(Setter({2}, {3}), Setter({2, 3}, {}))
    BY DEF Movers, context_f, context_move_sink_input, context_move_source_output,
           context_move_sink_input_by_name, context_move_sink_input_by_index,
           context_move_source_output_by_name, context_move_source_output_by_index
  <1>2. Documented[m] = <<Index, Either, Function>>
    BY DEF Movers, Documented
  <1> QED
    BY <1>1, <1>2 DEF Setter

-----------------------------------------------------------------------------
(***************************************************************************)
(* What the rows let through, all together.                                *)
(***************************************************************************)
Reaches(m, a) ==
    \/ m \in Listers /\ a[2] = "function"
    \/ m \in Defaults /\ IsName(a[2]) /\ a[3] = "function"
    \/ m \in Getters \cup Killers /\ IsIndex(a[2]) /\ a[3] = "function"
    \/ m \in StreamVolumes /\ IsIndex(a[2]) /\ IsVolume(a[3]) /\ Playable(a[3]) /\ a[4] = "function"
    \/ m \in StreamMutes /\ IsIndex(a[2]) /\ a[4] = "function"
    \/ m = "get_source_info" /\ a[2] \in Strings /\ a[3] = "function"
    \/ m \in Lookups /\ a[2] = "index" /\ a[3] = "function"
    \/ m \in Volumes /\ a[2] \in Strings \cup {"index"} /\ IsVolume(a[3]) /\ Playable(a[3]) /\ a[4] = "function"
    \/ m \in Switches /\ a[2] \in Strings \cup {"index"} /\ a[4] = "function"
    \/ m \in Movers /\ a[2] = "numeral" /\ IsName(a[3]) /\ a[4] = "function"
    \/ m \in Movers /\ a[2] = "index" /\ IsIndex(a[3]) /\ a[4] = "function"

(***************************************************************************)
(* What the handlers that do not test for READY test nevertheless.         *)
(***************************************************************************)
Tested(m, a) == IF m \in Defaults THEN IsName(a[2]) ELSE IsIndex(a[2])

(***************************************************************************)
(* The calls that reach the server are submitted when the connection is    *)
(* READY, and no others.  When it is not, those are turned away without a  *)
(* trace whose handler tests for READY, or finds an argument wrong before. *)
(***************************************************************************)
THEOREM Ways ==
    ASSUME NEW m \in Method, NEW a \in [1..4 -> Value], NEW r \in BOOLEAN
    PROVE  /\ Exit(m, a, r) = "submitted" <=> r /\ Reaches(m, a)
           /\ ~r => (Exit(m, a, r) \in {"badarg", "notready"} <=> m \notin Untested \/ ~Tested(m, a))
  <1>1. a[2] \in Value
    OBVIOUS
  <1>2. CASE m \in Listers
    <2>1. PICK reply : context_f[m] = Direct(Handler({}, {}, TRUE, 2, FALSE, reply))
      BY <1>2, ListerRow
    <2> DEFINE h == Handler({}, {}, TRUE, 2, FALSE, reply)
    <2>2. context_f[m] = Direct(h)
      BY <2>1
    <2>3. h.indexes = {} /\ h.names = {} /\ h.gated = TRUE /\ h.callback = 2 /\ h.volume = FALSE
      BY DEF Handler
    <2> HIDE DEF h
    <2>4. Exit(m, a, r) = HandlerExit(h, a, r)
      BY <1>1, <2>2, OneForm
    <2>5. HandlerExit(h, a, r) = "submitted" <=> r /\ a[2] = "function"
      BY <2>3, Submits DEF Fits, Callable
    <2>6. ~r => (HandlerExit(h, a, r) \in {"badarg", "notready"} <=> TRUE)
      BY <2>3, TurnsAway DEF Fits
    <2>7. Reaches(m, a) <=> a[2] = "function"
      BY <1>2 DEF Reaches, Listers, Defaults, Getters, Killers, StreamVolumes, StreamMutes, Lookups, Volumes, Switches, Movers
    <2>8. m \notin Untested \/ ~Tested(m, a) <=> TRUE
      BY <1>2 DEF Untested, Tested, Listers, Defaults, Getters, Killers, StreamVolumes, StreamMutes, Lookups, Volumes, Switches, Movers
    <2> QED
      BY <2>4, <2>5, <2>6, <2>7, <2>8
  <1>3. CASE m \in Defaults
    <2> DEFINE h == Handler({}, {2}, FALSE, 3, FALSE, "ack")
    <2>1. context_f[m] = Direct(h)
      BY <1>3, DefaultRow
    <2>2. h.indexes = {} /\ h.names = {2} /\ h.gated = FALSE /\ h.callback = 3 /\ h.volume = FALSE
      BY DEF Handler
    <2> HIDE DEF h
    <2>3. Exit(m, a, r) = HandlerExit(h, a, r)
      BY <1>1, <2>1, OneForm
    <2>4. HandlerExit(h, a, r) = "submitted" <=> r /\ IsName(a[2]) /\ a[3] = "function"
      BY <2>2, Submits DEF Fits, Callable
    <2>5. ~r => (HandlerExit(h, a, r) \in {"badarg", "notready"} <=> ~IsName(a[2]))
      BY <2>2, TurnsAway DEF Fits
    <2>6. Reaches(m, a) <=> IsName(a[2]) /\ a[3] = "function"
      BY <1>3 DEF Reaches, Listers, Defaults, Getters, Killers, StreamVolumes, StreamMutes, Lookups, Volumes, Switches, Movers
    <2>7. m \notin Untested \/ ~Tested(m, a) <=> ~IsName(a[2])
      BY <1>3 DEF Untested, Tested, Listers, Defaults, Getters, Killers, StreamVolumes, StreamMutes, Lookups, Volumes, Switches, Movers
    <2> QED
      BY <2>3, <2>4, <2>5, <2>6, <2>7
  <1>4. CASE m \in Getters
    <2> DEFINE h == Handler({2}, {}, TRUE, 3, FALSE, "single")
    <2>1. context_f[m] = Direct(h)
      BY <1>4, GetterRow
    <2>2. h.indexes = {2} /\ h.names = {} /\ h.gated = TRUE /\ h.callback = 3 /\ h.volume = FALSE
      BY DEF Handler
    <2> HIDE DEF h
    <2>3. Exit(m, a, r) = HandlerExit(h, a, r)
      BY <1>1, <2>1, OneForm
    <2>4. HandlerExit(h, a, r) = "submitted" <=> r /\ IsIndex(a[2]) /\ a[3] = "function"
      BY <2>2, Submits DEF Fits, Callable
    <2>5. ~r => (HandlerExit(h, a, r) \in {"badarg", "notready"} <=> TRUE)
      BY <2>2, TurnsAway DEF Fits
    <2>6. Reaches(m, a) <=> IsIndex(a[2]) /\ a[3] = "function"
      BY <1>4 DEF Reaches, Listers, Defaults, Getters, Killers, StreamVolumes, StreamMutes, Lookups, Volumes, Switches, Movers
    <2>7. m \notin Untested \/ ~Tested(m, a) <=> TRUE
      BY <1>4 DEF Untested, Tested, Listers, Defaults, Getters, Killers, StreamVolumes, StreamMutes, Lookups, Volumes, Switches, Movers
    <2> QED
      BY <2>3, <2>4, <2>5, <2>6, <2>7
  <1>5. CASE m \in Killers
    <2> DEFINE h == Handler({2}, {}, FALSE, 3, FALSE, "ack")
    <2>1. context_f[m] = Direct(h)
      BY <1>5, KillerRow
    <2>2. h.indexes = {2} /\ h.names = {} /\ h.gated = FALSE /\ h.callback = 3 /\ h.volume = FALSE
      BY DEF Handler
    <2> HIDE DEF h
    <2>3. Exit(m, a, r) = HandlerExit(h, a, r)
      BY <1>1, <2>1, OneForm
    <2>4. HandlerExit(h, a, r) = "submitted" <=> r /\ IsIndex(a[2]) /\ a[3] = "function"
      BY <2>2, Submits DEF Fits, Callable
    <2>5. ~r => (HandlerExit(h, a, r) \in {"badarg", "notready"} <=> ~IsIndex(a[2]))
      BY <2>2, TurnsAway DEF Fits
    <2>6. Reaches(m, a) <=> IsIndex(a[2]) /\ a[3] = "function"
      BY <1>5 DEF Reaches, Listers, Defaults, Getters, Killers, StreamVolumes, StreamMutes, Lookups, Volumes, Switches, Movers
    <2>7. m \notin Untested \/ ~Tested(m, a) <=> ~IsIndex(a[2])
      BY <1>5 DEF Untested, Tested, Listers, Defaults, Getters, Killers, StreamVolumes, StreamMutes, Lookups, Volumes, Switches, Movers
    <2> QED
      BY <2>3, <2>4, <2>5, <2>6, <2>7
  <1>6. CASE m \in StreamVolumes
    <2> DEFINE h == Handler({2}, {}, FALSE, 4, TRUE, "ack")
    <2>1. context_f[m] = Direct(h)
      BY <1>6, StreamVolumeRow
    <2>2. h.indexes = {2} /\ h.names = {} /\ h.gated = FALSE /\ h.callback = 4 /\ h.volume = TRUE
      BY DEF Handler
    <2> HIDE DEF h
    <2>3. Exit(m, a, r) = HandlerExit(h, a, r)
      BY <1>1, <2>1, OneForm
    <2>4. HandlerExit(h, a, r) = "submitted" <=> r /\ IsIndex(a[2]) /\ IsVolume(a[3]) /\ Playable(a[3]) /\ a[4] = "function"
      BY <2>2, Submits DEF Fits, Callable
    <2>5. ~r => (HandlerExit(h, a, r) \in {"badarg", "notready"} <=> ~IsIndex(a[2]))
      BY <2>2, TurnsAway DEF Fits
    <2>6. Reaches(m, a) <=> IsIndex(a[2]) /\ IsVolume(a[3]) /\ Playable(a[3]) /\ a[4] = "function"
      BY <1>6 DEF Reaches, Listers, Defaults, Getters, Killers, StreamVolumes, StreamMutes, Lookups, Volumes, Switches, Movers
    <2>7. m \notin Untested \/ ~Tested(m, a) <=> ~IsIndex(a[2])
      BY <1>6 DEF Untested, Tested, Listers, Defaults, Getters, Killers, StreamVolumes, StreamMutes, Lookups, Volumes, Switches, Movers
    <2> QED
      BY <2>3, <2>4, <2>5, <2>6, <2>7
  <1>7. CASE m \in StreamMutes
    <2> DEFINE h == Handler({2}, {}, FALSE, 4, FALSE, "ack")
    <2>1. context_f[m] = Direct(h)
      BY <1>7, StreamMuteRow
    <2>2. h.indexes = {2} /\ h.names = {} /\ h.gated = FALSE /\ h.callback = 4 /\ h.volume = FALSE
      BY DEF Handler
    <2> HIDE DEF h
    <2>3. Exit(m, a, r) = HandlerExit(h, a, r)
      BY <1>1, <2>1, OneForm
    <2>4. HandlerExit(h, a, r) = "submitted" <=> r /\ IsIndex(a[2]) /\ a[4] = "function"
      BY <2>2, Submits DEF Fits, Callable
    <2>5. ~r => (HandlerExit(h, a, r) \in {"badarg", "notready"} <=> ~IsIndex(a[2]))
      BY <2>2, TurnsAway DEF Fits
    <2>6. Reaches(m, a) <=> IsIndex(a[2]) /\ a[4] = "function"
      BY <1>7 DEF Reaches, Listers, Defaults, Getters, Killers, StreamVolumes, StreamMutes, Lookups, Volumes, Switches, Movers
    <2>7. m \notin Untested \/ ~Tested(m, a) <=> ~IsIndex(a[2])
      BY <1>7 DEF Untested, Tested, Listers, Defaults, Getters, Killers, StreamVolumes, StreamMutes, Lookups, Volumes, Switches, Movers
    <2> QED
      BY <2>3, <2>4, <2>5, <2>6, <2>7
  <1>8. CASE m \in Lookups
    <2> DEFINE c == IF m = "get_sink_info" THEN 2 ELSE 3
               byName == Handler({}, {2}, TRUE, c, FALSE, "single")
               byIndex == Handler({2}, {}, TRUE, 3, FALSE, "single")
    <2>1. context_f[m] = TwoForms(byName, byIndex)
      BY <1>8, LookupRow
    <2>2. /\ byName.indexes = {} /\ byName.names = {2} /\ byName.gated = TRUE /\ byName.callback = c /\ byName.volume = FALSE
          /\ byIndex.indexes = {2} /\ byIndex.names = {} /\ byIndex.gated = TRUE /\ byIndex.callback = 3 /\ byIndex.volume = FALSE
      BY DEF Handler
    <2> HIDE DEF c, byName, byIndex
    <2>3. Exit(m, a, r) = IF a[2] \in Strings THEN HandlerExit(byName, a, r)
                          ELSE IF a[2] \in Numbers THEN HandlerExit(byIndex, a, r)
                          ELSE "badarg"
      BY <1>1, <2>1, EitherForm
    <2>4. HandlerExit(byName, a, r) = "submitted" <=> r /\ IsName(a[2]) /\ a[c] = "function"
      BY <2>2, Submits DEF Fits, Callable
    <2>5. HandlerExit(byIndex, a, r) = "submitted" <=> r /\ IsIndex(a[2]) /\ a[3] = "function"
      BY <2>2, Submits DEF Fits, Callable
    <2>6. ~r => /\ HandlerExit(byName, a, r) \in {"badarg", "notready"}
                /\ HandlerExit(byIndex, a, r) \in {"badarg", "notready"}
      BY <2>2, TurnsAway
    <2>7. c = IF m = "get_sink_info" THEN 2 ELSE 3
      BY DEF c
    <2>8. Reaches(m, a) <=> IF a[2] \in Strings THEN IsName(a[2]) /\ a[c] = "function"
                            ELSE a[2] \in Numbers /\ IsIndex(a[2]) /\ a[3] = "function"
      BY <1>8, <2>7 DEF Reaches, IsIndex, IsName, Strings, Numbers, Listers, Defaults, Getters, Killers, StreamVolumes, StreamMutes, Lookups, Volumes, Switches, Movers
    <2>9. m \notin Untested
      BY <1>8 DEF Untested, Listers, Defaults, Getters, Killers, StreamVolumes, StreamMutes, Lookups, Volumes, Switches, Movers
    <2> QED
      BY <2>3, <2>4, <2>5, <2>6, <2>8, <2>9
  <1>9. CASE m \in Volumes
    <2> DEFINE byName == Handler({}, {}, TRUE, 4, TRUE, "ack")
               byIndex == Handler({2}, {}, TRUE, 4, TRUE, "ack")
    <2>1. context_f[m] = TwoForms(byName, byIndex)
      BY <1>9, VolumeRow
    <2>2. /\ byName.indexes = {} /\ byName.names = {} /\ byName.gated = TRUE /\ byName.callback = 4 /\ byName.volume = TRUE
          /\ byIndex.indexes = {2} /\ byIndex.names = {} /\ byIndex.gated = TRUE /\ byIndex.callback = 4 /\ byIndex.volume = TRUE
      BY DEF Handler
    <2> HIDE DEF byName, byIndex
    <2>3. Exit(m, a, r) = IF a[2] \in Strings THEN HandlerExit(byName, a, r)
                          ELSE IF a[2] \in Numbers THEN HandlerExit(byIndex, a, r)
                          ELSE "badarg"
      BY <1>1, <2>1, EitherForm
    <2>4. HandlerExit(byName, a, r) = "submitted" <=> r /\ IsVolume(a[3]) /\ Playable(a[3]) /\ a[4] = "function"
      BY <2>2, Submits DEF Fits, Callable
    <2>5. HandlerExit(byIndex, a, r) = "submitted" <=> r /\ IsIndex(a[2]) /\ IsVolume(a[3]) /\ Playable(a[3]) /\ a[4] = "function"
      BY <2>2, Submits DEF Fits, Callable
    <2>6. ~r => /\ HandlerExit(byName, a, r) \in {"badarg", "notready"}
                /\ HandlerExit(byIndex, a, r) \in {"badarg", "notready"}
      BY <2>2, TurnsAway
    <2>7. Reaches(m, a) <=> IF a[2] \in Strings THEN IsVolume(a[3]) /\ Playable(a[3]) /\ a[4] = "function"
                            ELSE a[2] \in Numbers /\ IsIndex(a[2]) /\ IsVolume(a[3]) /\ Playable(a[3]) /\ a[4] = "function"
      BY <1>9 DEF Reaches, IsIndex, IsName, Strings, Numbers, Listers, Defaults, Getters, Killers, StreamVolumes, StreamMutes, Lookups, Volumes, Switches, Movers
    <2>8. m \notin Untested
      BY <1>9 DEF Untested, Listers, Defaults, Getters, Killers, StreamVolumes, StreamMutes, Lookups, Volumes, Switches, Movers
    <2> QED
      BY <2>3, <2>4, <2>5, <2>6, <2>7, <2>8
  <1>10. CASE m \in Switches
    <2> DEFINE byName == Handler({}, {2}, TRUE, 4, FALSE, "ack")
               byIndex == Handler({2}, {}, TRUE, 4, FALSE, "ack")
    <2>1. context_f[m] = TwoForms(byName, byIndex)
      BY <1>10, SwitchRow
    <2>2. /\ byName.indexes = {} /\ byName.names = {2} /\ byName.gated = TRUE /\ byName.callback = 4 /\ byName.volume = FALSE
          /\ byIndex.indexes = {2} /\ byIndex.names = {} /\ byIndex.gated = TRUE /\ byIndex.callback = 4 /\ byIndex.volume = FALSE
      BY DEF Handler
    <2> HIDE DEF byName, byIndex
    <2>3. Exit(m, a, r) = IF a[2] \in Strings THEN HandlerExit(byName, a, r)
                          ELSE IF a[2] \in Numbers THEN HandlerExit(byIndex, a, r)
                          ELSE "badarg"
      BY <1>1, <2>1, EitherForm
    <2>4. HandlerExit(byName, a, r) = "submitted" <=> r /\ IsName(a[2]) /\ a[4] = "function"
      BY <2>2, Submits DEF Fits, Callable
    <2>5. HandlerExit(byIndex, a, r) = "submitted" <=> r /\ IsIndex(a[2]) /\ a[4] = "function"
      BY <2>2, Submits DEF Fits, Callable
    <2>6. ~r => /\ HandlerExit(byName, a, r) \in {"badarg", "notready"}
                /\ HandlerExit(byIndex, a, r) \in {"badarg", "notready"}
      BY <2>2, TurnsAway
    <2>7. Reaches(m, a) <=> IF a[2] \in Strings THEN IsName(a[2]) /\ a[4] = "function"
                            ELSE a[2] \in Numbers /\ IsIndex(a[2]) /\ a[4] = "function"
      BY <1>10 DEF Reaches, IsIndex, IsName, Strings, Numbers, Listers, Defaults, Getters, Killers, StreamVolumes, StreamMutes, Lookups, Volumes, Switches, Movers
    <2>8. m \notin Untested
      BY <1>10 DEF Untested, Listers, Defaults, Getters, Killers, StreamVolumes, StreamMutes, Lookups, Volumes, Switches, Movers
    <2> QED
      BY <2>3, <2>4, <2>5, <2>6, <2>7, <2>8
  <1>11. CASE m \in Movers
    <2> DEFINE byName == Handler({2}, {3}, TRUE, 4, FALSE, "ack")
               byIndex == Handler({2, 3}, {}, TRUE, 4, FALSE, "ack")
    <2>1. context_f[m] = TwoForms(byName, byIndex)
      BY <1>11, MoverRow
    <2>2. /\ byName.indexes = {2} /\ byName.names = {3} /\ byName.gated = TRUE /\ byName.callback = 4 /\ byName.volume = FALSE
          /\ byIndex.indexes = {2, 3} /\ byIndex.names = {} /\ byIndex.gated = TRUE /\ byIndex.callback = 4 /\ byIndex.volume = FALSE
      BY DEF Handler
    <2> HIDE DEF byName, byIndex
    <2>3. Exit(m, a, r) = IF a[2] \in Strings THEN HandlerExit(byName, a, r)
                          ELSE IF a[2] \in Numbers THEN HandlerExit(byIndex, a, r)
                          ELSE "badarg"
      BY <1>1, <2>1, EitherForm
    <2>10. Fits(byName, a) <=> IsIndex(a[2]) /\ IsName(a[3])
      BY <2>2 DEF Fits
    <2>4. HandlerExit(byName, a, r) = "submitted" <=> r /\ IsIndex(a[2]) /\ IsName(a[3]) /\ a[4] = "function"
      BY <2>2, <2>10, Submits DEF Callable
    <2>5. Fits(byIndex, a) <=> IsIndex(a[2]) /\ IsIndex(a[3])
      <3>1. \A i \in {2, 3} : i = 2 \/ i = 3
        OBVIOUS
      <3> QED
        BY <2>2, <3>1 DEF Fits
    <2>6. HandlerExit(byIndex, a, r) = "submitted" <=> r /\ IsIndex(a[2]) /\ IsIndex(a[3]) /\ a[4] = "function"
      BY <2>2, <2>5, Submits DEF Callable
    <2>7. ~r => /\ HandlerExit(byName, a, r) \in {"badarg", "notready"}
                /\ HandlerExit(byIndex, a, r) \in {"badarg", "notready"}
      BY <2>2, TurnsAway
    <2>8. Reaches(m, a) <=> IF a[2] \in Strings THEN IsIndex(a[2]) /\ IsName(a[3]) /\ a[4] = "function"
                            ELSE a[2] \in Numbers /\ IsIndex(a[2]) /\ IsIndex(a[3]) /\ a[4] = "function"
      BY <1>11 DEF Reaches, IsIndex, IsName, Strings, Numbers, Listers, Defaults, Getters, Killers, StreamVolumes, StreamMutes, Lookups, Volumes, Switches, Movers
    <2>9. m \notin Untested
      BY <1>11 DEF Untested, Listers, Defaults, Getters, Killers, StreamVolumes, StreamMutes, Lookups, Volumes, Switches, Movers
    <2> QED
      BY <2>3, <2>4, <2>6, <2>7, <2>8, <2>9
  <1> QED
    BY Rows, <1>2, <1>3, <1>4, <1>5, <1>6, <1>7, <1>8, <1>9, <1>10, <1>11

-----------------------------------------------------------------------------
(***************************************************************************)
(* A name is no callback, so the signature of a default is completed.      *)
(***************************************************************************)
LEMMA Distinct == Name # Function
  <1>1. "name" \in Name /\ "name" \notin Function
    BY DEF Name, Function, Strings
  <1> QED
    BY <1>1

(***************************************************************************)
(* The signature of each row: the documented parameters, which end in a    *)
(* callback but for the defaults.                                          *)
(***************************************************************************)
LEMMA SignatureRow ==
    /\ method \in Listers => Len(Signature) = 1 /\ Signature[1] = Function
    /\ method \in Defaults => Len(Signature) = 2 /\ Signature[1] = Name /\ Signature[2] = Function
    /\ method \in Getters => Len(Signature) = 2 /\ Signature[1] = (IF method = "get_sink_input_info" THEN Either ELSE Index) /\ Signature[2] = Function
    /\ method \in Killers => Len(Signature) = 2 /\ Signature[1] = Index /\ Signature[2] = Function
    /\ method \in StreamVolumes => Len(Signature) = 3 /\ Signature[1] = Index /\ Signature[2] = Volume /\ Signature[3] = Function
    /\ method \in StreamMutes => Len(Signature) = 3 /\ Signature[1] = Index /\ Signature[2] = Bool /\ Signature[3] = Function
    /\ method \in Lookups => Len(Signature) = 2 /\ Signature[1] = Either /\ Signature[2] = Function
    /\ method \in Volumes => Len(Signature) = 3 /\ Signature[1] = Either /\ Signature[2] = Volume /\ Signature[3] = Function
    /\ method \in Switches => Len(Signature) = 3 /\ Signature[1] = Either /\ Signature[2] = Bool /\ Signature[3] = Function
    /\ method \in Movers => Len(Signature) = 3 /\ Signature[1] = Index /\ Signature[2] = Either /\ Signature[3] = Function
  <1>1. method \in Listers => Len(Signature) = 1 /\ Signature[1] = Function
    <2>1. method \in Listers => Parameters = <<Function>>
      BY ListerRow, Zenon DEF Parameters
    <2> QED
      BY <2>1, Distinct DEF Signature
  <1>2. method \in Defaults => Len(Signature) = 2 /\ Signature[1] = Name /\ Signature[2] = Function
    <2>1. method \in Defaults => Parameters = <<Name>>
      BY DefaultRow, Zenon DEF Parameters
    <2> QED
      BY <2>1, Distinct DEF Signature
  <1>3. method \in Getters => Len(Signature) = 2 /\ Signature[1] = (IF method = "get_sink_input_info" THEN Either ELSE Index) /\ Signature[2] = Function
    <2>1. method \in Getters => Parameters = IF method = "get_sink_input_info" THEN <<Either, Function>> ELSE <<Index, Function>>
      BY GetterRow, Zenon DEF Parameters
    <2> QED
      BY <2>1, Distinct DEF Signature
  <1>4. method \in Killers => Len(Signature) = 2 /\ Signature[1] = Index /\ Signature[2] = Function
    <2>1. method \in Killers => Parameters = <<Index, Function>>
      BY KillerRow, Zenon DEF Parameters
    <2> QED
      BY <2>1, Distinct DEF Signature
  <1>5. method \in StreamVolumes => Len(Signature) = 3 /\ Signature[1] = Index /\ Signature[2] = Volume /\ Signature[3] = Function
    <2>1. method \in StreamVolumes => Parameters = <<Index, Volume, Function>>
      BY StreamVolumeRow, Zenon DEF Parameters
    <2>2. LET p == <<Index, Volume, Function>> IN p[Len(p)] = Function
      OBVIOUS
    <2>3. method \in StreamVolumes => Signature = <<Index, Volume, Function>>
      BY <2>1, <2>2, Zenon DEF Signature
    <2> QED
      BY <2>3
  <1>6. method \in StreamMutes => Len(Signature) = 3 /\ Signature[1] = Index /\ Signature[2] = Bool /\ Signature[3] = Function
    <2>1. method \in StreamMutes => Parameters = <<Index, Bool, Function>>
      BY StreamMuteRow, Zenon DEF Parameters
    <2>2. LET p == <<Index, Bool, Function>> IN p[Len(p)] = Function
      OBVIOUS
    <2>3. method \in StreamMutes => Signature = <<Index, Bool, Function>>
      BY <2>1, <2>2, Zenon DEF Signature
    <2> QED
      BY <2>3
  <1>7. method \in Lookups => Len(Signature) = 2 /\ Signature[1] = Either /\ Signature[2] = Function
    <2>1. method \in Lookups => Parameters = <<Either, Function>>
      BY LookupRow, Zenon DEF Parameters
    <2> QED
      BY <2>1, Distinct DEF Signature
  <1>8. method \in Volumes => Len(Signature) = 3 /\ Signature[1] = Either /\ Signature[2] = Volume /\ Signature[3] = Function
    <2>1. method \in Volumes => Parameters = <<Either, Volume, Function>>
      BY VolumeRow, Zenon DEF Parameters
    <2>2. LET p == <<Either, Volume, Function>> IN p[Len(p)] = Function
      OBVIOUS
    <2>3. method \in Volumes => Signature = <<Either, Volume, Function>>
      BY <2>1, <2>2, Zenon DEF Signature
    <2> QED
      BY <2>3
  <1>9. method \in Switches => Len(Signature) = 3 /\ Signature[1] = Either /\ Signature[2] = Bool /\ Signature[3] = Function
    <2>1. method \in Switches => Parameters = <<Either, Bool, Function>>
      BY SwitchRow, Zenon DEF Parameters
    <2>2. LET p == <<Either, Bool, Function>> IN p[Len(p)] = Function
      OBVIOUS
    <2>3. method \in Switches => Signature = <<Either, Bool, Function>>
      BY <2>1, <2>2, Zenon DEF Signature
    <2> QED
      BY <2>3
  <1>10. method \in Movers => Len(Signature) = 3 /\ Signature[1] = Index /\ Signature[2] = Either /\ Signature[3] = Function
    <2>1. method \in Movers => Parameters = <<Index, Either, Function>>
      BY MoverRow, Zenon DEF Parameters
    <2>2. LET p == <<Index, Either, Function>> IN p[Len(p)] = Function
      OBVIOUS
    <2>3. method \in Movers => Signature = <<Index, Either, Function>>
      BY <2>1, <2>2, Zenon DEF Signature
    <2> QED
      BY <2>3
  <1> QED
    BY <1>1, <1>2, <1>3, <1>4, <1>5, <1>6, <1>7, <1>8, <1>9, <1>10

(***************************************************************************)
(* What a call that fits its signature has for arguments.                  *)
(***************************************************************************)
LEMMA SignatureArguments ==
    ASSUME WrittenAs(Signature)
    PROVE
    /\ method \in Listers => args[2] \in Function
    /\ method \in Defaults => args[2] \in Name /\ args[3] \in Function
    /\ method \in Getters => args[2] \in (IF method = "get_sink_input_info" THEN Either ELSE Index) /\ args[3] \in Function
    /\ method \in Killers => args[2] \in Index /\ args[3] \in Function
    /\ method \in StreamVolumes => args[2] \in Index /\ args[3] \in Volume /\ args[4] \in Function
    /\ method \in StreamMutes => args[2] \in Index /\ args[3] \in Bool /\ args[4] \in Function
    /\ method \in Lookups => args[2] \in Either /\ args[3] \in Function
    /\ method \in Volumes => args[2] \in Either /\ args[3] \in Volume /\ args[4] \in Function
    /\ method \in Switches => args[2] \in Either /\ args[3] \in Bool /\ args[4] \in Function
    /\ method \in Movers => args[2] \in Index /\ args[3] \in Either /\ args[4] \in Function
  <1>1. \A i \in 1..3 : i <= Len(Signature) => args[i + 1] \in Signature[i]
    <2> SUFFICES ASSUME NEW i \in 1..3, i <= Len(Signature) PROVE args[i + 1] \in Signature[i]
      OBVIOUS
    <2>1. i + 1 \in 2..4 /\ (i + 1) - 1 = i
      OBVIOUS
    <2> QED
      BY <2>1 DEF WrittenAs
  <1>2. /\ 1 <= Len(Signature) => args[2] \in Signature[1]
        /\ 2 <= Len(Signature) => args[3] \in Signature[2]
        /\ 3 <= Len(Signature) => args[4] \in Signature[3]
    BY <1>1
  <1> QED
    BY <1>2, SignatureRow

(***************************************************************************)
(* A call that is written as documented fits its signature, unless it sets *)
(* a default: that comes without a callback.                               *)
(***************************************************************************)
LEMMA IntendedArguments ==
    ASSUME Intended, method \in Method
    PROVE  WrittenAs(Signature) \/ (method \in Defaults /\ args[2] \in Name /\ args[3] = "nil")
  <1>1. CASE method \notin Defaults
    <2>1. \E x, y : Parameters \in {<<Function>>, <<x, Function>>, <<x, y, Function>>}
      BY <1>1, Rows, ListerRow, GetterRow, KillerRow, StreamVolumeRow, StreamMuteRow, LookupRow,
         VolumeRow, SwitchRow, MoverRow DEF Parameters
    <2>2. Signature = Parameters
      BY <2>1 DEF Signature
    <2> QED
      BY <2>2 DEF Intended, Documents
  <1>2. CASE method \in Defaults
    <2>1. Parameters = <<Name>>
      BY <1>2, DefaultRow DEF Parameters
    <2>2. Documents => args[2] \in Name /\ args[3] = "nil"
      BY <2>1 DEF Documents, WrittenAs
    <2> QED
      BY <1>2, <2>2 DEF Intended
  <1> QED
    BY <1>1, <1>2

(***************************************************************************)
(* Every call written as documented, or so with the callback that the      *)
(* documentation of a default leaves out, reaches the server but for the   *)
(* unserved forms, and these never do.                                     *)
(***************************************************************************)
THEOREM DocumentedServed == Spec => []DocumentedCallsAreServed
  <1>1. IInv => DocumentedCallsAreServed
    <2> SUFFICES ASSUME IInv, exit # "none", ready, Intended PROVE exit = "submitted" <=> ~Unserved
      BY DEF DocumentedCallsAreServed
    <2>1. method \in Method /\ args \in [1..4 -> Value] /\ ready \in BOOLEAN /\ exit = Exit(method, args, ready)
      BY DEF IInv, TypeOK, Settled
    <2>2. SUFFICES Reaches(method, args) <=> ~Unserved
      BY <2>1, Ways
    <2> USE DEF Index, Name, Either, Bool, Volume, Function, IsIndex, IsName, IsVolume, Playable, Strings, Numbers
    <2>14. CASE ~WrittenAs(Signature)
      <3>1. method \in Defaults /\ args[3] = "nil"
        BY <2>1, <2>14, IntendedArguments
      <3>2. Unserved
        BY <3>1 DEF Unserved, Defaults
      <3>3. ~Reaches(method, args)
        BY <3>1 DEF Reaches, Listers, Defaults, Getters, Killers, StreamVolumes, StreamMutes,
                    Lookups, Volumes, Switches, Movers
      <3> QED
        BY <3>2, <3>3
    <2>15. SUFFICES ASSUME WrittenAs(Signature) PROVE Reaches(method, args) <=> ~Unserved
      BY <2>14
    <2>13. Unserved => ~Reaches(method, args)
      BY <2>15, SignatureArguments
         DEF Reaches, Unserved, Listers, Defaults, Getters, Killers, StreamVolumes, StreamMutes,
             Lookups, Volumes, Switches, Movers
    <2> SUFFICES ASSUME ~Unserved PROVE Reaches(method, args)
      BY <2>13
    <2>3. CASE method \in Listers
      BY <2>3, <2>15, SignatureArguments DEF Reaches, Unserved, Defaults, Getters, Lookups, Movers
    <2>4. CASE method \in Defaults
      BY <2>4, <2>15, SignatureArguments DEF Reaches, Unserved, Defaults, Getters, Lookups, Movers
    <2>5. CASE method \in Getters
      BY <2>5, <2>15, SignatureArguments DEF Reaches, Unserved, Defaults, Getters, Lookups, Movers
    <2>6. CASE method \in Killers
      BY <2>6, <2>15, SignatureArguments DEF Reaches, Unserved, Defaults, Getters, Lookups, Movers
    <2>7. CASE method \in StreamVolumes
      BY <2>7, <2>15, SignatureArguments DEF Reaches, Unserved, Defaults, Getters, Lookups, Movers
    <2>8. CASE method \in StreamMutes
      BY <2>8, <2>15, SignatureArguments DEF Reaches, Unserved, Defaults, Getters, Lookups, Movers
    <2>9. CASE method \in Lookups
      BY <2>9, <2>15, SignatureArguments DEF Reaches, Unserved, Defaults, Getters, Lookups, Movers
    <2>10. CASE method \in Volumes
      BY <2>10, <2>15, SignatureArguments DEF Reaches, Unserved, Defaults, Getters, Lookups, Movers
    <2>11. CASE method \in Switches
      BY <2>11, <2>15, SignatureArguments DEF Reaches, Unserved, Defaults, Getters, Lookups, Movers
    <2>12. CASE method \in Movers
      BY <2>12, <2>15, SignatureArguments DEF Reaches, Unserved, Defaults, Getters, Lookups, Movers
    <2> QED
      BY <2>1, Rows, <2>3, <2>4, <2>5, <2>6, <2>7, <2>8, <2>9, <2>10, <2>11, <2>12
  <1> QED
    BY <1>1, Inductive, PTL

(***************************************************************************)
(* A value may stand at a position documented with these values, in a call *)
(* whose first argument is first.                                          *)
(***************************************************************************)
MayStand(v, values, first) ==
    v \in Coerced(values) /\ (v = "zero" => values \in {Bool, Name} \/ first = "numeral")

(***************************************************************************)
(* What passes the test for a kind of value may stand where the            *)
(* documentation puts that kind.                                           *)
(***************************************************************************)
LEMMA Coercions ==
    ASSUME NEW v \in Value, NEW first
    PROVE  /\ v = "function" => MayStand(v, Function, first)
           /\ IsName(v) => MayStand(v, Name, first)
           /\ IsIndex(v) => MayStand(v, Index, first) /\ MayStand(v, Either, first)
           /\ v \in Strings \cup {"index"} => MayStand(v, Either, first)
           /\ IsName(v) /\ first = "numeral" => MayStand(v, Either, first)
           /\ Playable(v) => MayStand(v, Volume, first)
           /\ MayStand(v, Bool, first)
  <1>1. /\ "index" \in Index /\ "index" \in Either /\ "name" \in Name /\ "function" \in Function
        /\ "index" \notin Bool /\ "name" \notin Bool /\ "function" \notin Bool /\ "boolean" \in Bool
    BY DEF Index, Either, Name, Function, Bool, Strings
  <1>2. "boolean" \notin Volume /\ "index" \notin Volume /\ "function" \notin Volume
    BY DEF Volume
  <1>3. /\ Index # Bool /\ Either # Bool /\ Name # Bool /\ Function # Bool /\ Volume # Bool
        /\ Index # Volume /\ Either # Volume /\ Function # Volume
    BY <1>1, <1>2
  <1>4. Name # Volume /\ Name # Function /\ Name # Index /\ Either # Index
    BY <1>1 DEF Volume, Function, Index, Name, Either, Strings
  <1>5. Index # Function /\ Either # Function /\ Either # Name
    BY <1>1 DEF Index, Function, Name, Strings
  <1>6. v = "function" => MayStand(v, Function, first)
    BY <1>3, <1>1 DEF MayStand, Coerced
  <1>7. IsName(v) => MayStand(v, Name, first)
    <2>1. Coerced(Name) = Name \cup Strings \cup Numbers
      BY <1>3, <1>4 DEF Coerced
    <2> QED
      BY <2>1 DEF MayStand, IsName
  <1>8. Coerced(Index) = Index \cup Strings
    BY <1>3, <1>5 DEF Coerced
  <1>9. Coerced(Either) = Either \cup Strings \cup Numbers
    BY <1>3, <1>4, <1>5 DEF Coerced
  <1>10. IsIndex(v) => MayStand(v, Index, first) /\ MayStand(v, Either, first)
    BY <1>8, <1>9 DEF MayStand, IsIndex, Index, Either, Strings
  <1>11. v \in Strings \cup {"index"} => MayStand(v, Either, first)
    BY <1>9, <1>1 DEF MayStand, Strings
  <1>12. IsName(v) /\ first = "numeral" => MayStand(v, Either, first)
    BY <1>9 DEF MayStand, IsName
  <1>13. Playable(v) => MayStand(v, Volume, first)
    <2>1. Coerced(Volume) = {"levels"} \cup Volume
      BY <1>3 DEF Coerced
    <2> QED
      BY <2>1 DEF MayStand, Playable, Volume
  <1>14. MayStand(v, Bool, first)
    BY DEF MayStand, Coerced
  <1> QED
    BY <1>6, <1>7, <1>10, <1>11, <1>12, <1>13, <1>14

(***************************************************************************)
(* Whatever reaches the server is convertible to what is documented.       *)
(***************************************************************************)
THEOREM OnlyConvertibleServed == Spec => []OnlyConvertibleCallsAreServed
  <1>1. IInv => OnlyConvertibleCallsAreServed
    <2> SUFFICES ASSUME IInv, exit = "submitted", NEW i \in 1..Len(Signature)
                 PROVE  MayStand(args[i + 1], Signature[i], args[2])
      BY DEF OnlyConvertibleCallsAreServed, MayStand
    <2>1. method \in Method /\ args \in [1..4 -> Value] /\ ready \in BOOLEAN /\ exit = Exit(method, args, ready)
      BY DEF IInv, TypeOK, Settled
    <2>2. Reaches(method, args)
      BY <2>1, Ways
    <2> DEFINE a == args[2]
               b == args[3]
               c == args[4]
    <2>13. a \in Value /\ b \in Value /\ c \in Value
      BY <2>1
    <2>3. CASE method \in Listers
      <3>1. a = "function"
        BY <2>2, <2>3
           DEF Reaches, Listers, Defaults, Getters, Killers, StreamVolumes, StreamMutes,
             Lookups, Volumes, Switches, Movers
      <3>2. i = 1
        <4>1. Len(Signature) = 1
          BY <2>3, SignatureRow
        <4> QED
          BY <4>1
      <3> HIDE DEF a, b, c
      <3>4. MayStand(a, Signature[1], a)
        BY <3>1, <2>3, <2>13, SignatureRow, Coercions
      <3> QED
        BY <3>2, <3>4 DEF a, b, c
    <2>4. CASE method \in Defaults
      <3>1. IsName(a) /\ b = "function"
        BY <2>2, <2>4
           DEF Reaches, Listers, Defaults, Getters, Killers, StreamVolumes, StreamMutes,
             Lookups, Volumes, Switches, Movers
      <3>2. i = 1 \/ i = 2
        <4>1. Len(Signature) = 2
          BY <2>4, SignatureRow
        <4> QED
          BY <4>1
      <3> HIDE DEF a, b, c
      <3>4. MayStand(a, Signature[1], a)
        BY <3>1, <2>4, <2>13, SignatureRow, Coercions
      <3>5. MayStand(b, Signature[2], a)
        BY <3>1, <2>4, <2>13, SignatureRow, Coercions
      <3> QED
        BY <3>2, <3>4, <3>5 DEF a, b, c
    <2>5. CASE method \in Getters
      <3>1. IsIndex(a) /\ b = "function"
        BY <2>2, <2>5
           DEF Reaches, Listers, Defaults, Getters, Killers, StreamVolumes, StreamMutes,
             Lookups, Volumes, Switches, Movers
      <3>2. i = 1 \/ i = 2
        <4>1. Len(Signature) = 2
          BY <2>5, SignatureRow
        <4> QED
          BY <4>1
      <3> HIDE DEF a, b, c
      <3>4. MayStand(a, Signature[1], a)
        BY <3>1, <2>5, <2>13, SignatureRow, Coercions
      <3>5. MayStand(b, Signature[2], a)
        BY <3>1, <2>5, <2>13, SignatureRow, Coercions
      <3> QED
        BY <3>2, <3>4, <3>5 DEF a, b, c
    <2>6. CASE method \in Killers
      <3>1. IsIndex(a) /\ b = "function"
        BY <2>2, <2>6
           DEF Reaches, Listers, Defaults, Getters, Killers, StreamVolumes, StreamMutes,
             Lookups, Volumes, Switches, Movers
      <3>2. i = 1 \/ i = 2
        <4>1. Len(Signature) = 2
          BY <2>6, SignatureRow
        <4> QED
          BY <4>1
      <3> HIDE DEF a, b, c
      <3>4. MayStand(a, Signature[1], a)
        BY <3>1, <2>6, <2>13, SignatureRow, Coercions
      <3>5. MayStand(b, Signature[2], a)
        BY <3>1, <2>6, <2>13, SignatureRow, Coercions
      <3> QED
        BY <3>2, <3>4, <3>5 DEF a, b, c
    <2>7. CASE method \in StreamVolumes
      <3>1. IsIndex(a) /\ Playable(b) /\ c = "function"
        BY <2>2, <2>7
           DEF Reaches, Listers, Defaults, Getters, Killers, StreamVolumes, StreamMutes,
             Lookups, Volumes, Switches, Movers
      <3>2. i = 1 \/ i = 2 \/ i = 3
        <4>1. Len(Signature) = 3
          BY <2>7, SignatureRow
        <4> QED
          BY <4>1
      <3> HIDE DEF a, b, c
      <3>4. MayStand(a, Signature[1], a)
        BY <3>1, <2>7, <2>13, SignatureRow, Coercions
      <3>5. MayStand(b, Signature[2], a)
        BY <3>1, <2>7, <2>13, SignatureRow, Coercions
      <3>6. MayStand(c, Signature[3], a)
        BY <3>1, <2>7, <2>13, SignatureRow, Coercions
      <3> QED
        BY <3>2, <3>4, <3>5, <3>6 DEF a, b, c
    <2>8. CASE method \in StreamMutes
      <3>1. IsIndex(a) /\ c = "function"
        BY <2>2, <2>8
           DEF Reaches, Listers, Defaults, Getters, Killers, StreamVolumes, StreamMutes,
             Lookups, Volumes, Switches, Movers
      <3>2. i = 1 \/ i = 2 \/ i = 3
        <4>1. Len(Signature) = 3
          BY <2>8, SignatureRow
        <4> QED
          BY <4>1
      <3> HIDE DEF a, b, c
      <3>4. MayStand(a, Signature[1], a)
        BY <3>1, <2>8, <2>13, SignatureRow, Coercions
      <3>5. MayStand(b, Signature[2], a)
        BY <3>1, <2>8, <2>13, SignatureRow, Coercions
      <3>6. MayStand(c, Signature[3], a)
        BY <3>1, <2>8, <2>13, SignatureRow, Coercions
      <3> QED
        BY <3>2, <3>4, <3>5, <3>6 DEF a, b, c
    <2>9. CASE method \in Lookups
      <3>1. a \in Strings \cup {"index"} /\ b = "function"
        BY <2>2, <2>9
           DEF Reaches, Listers, Defaults, Getters, Killers, StreamVolumes, StreamMutes,
             Lookups, Volumes, Switches, Movers
      <3>2. i = 1 \/ i = 2
        <4>1. Len(Signature) = 2
          BY <2>9, SignatureRow
        <4> QED
          BY <4>1
      <3> HIDE DEF a, b, c
      <3>4. MayStand(a, Signature[1], a)
        BY <3>1, <2>9, <2>13, SignatureRow, Coercions
      <3>5. MayStand(b, Signature[2], a)
        BY <3>1, <2>9, <2>13, SignatureRow, Coercions
      <3> QED
        BY <3>2, <3>4, <3>5 DEF a, b, c
    <2>10. CASE method \in Volumes
      <3>1. a \in Strings \cup {"index"} /\ Playable(b) /\ c = "function"
        BY <2>2, <2>10
           DEF Reaches, Listers, Defaults, Getters, Killers, StreamVolumes, StreamMutes,
             Lookups, Volumes, Switches, Movers
      <3>2. i = 1 \/ i = 2 \/ i = 3
        <4>1. Len(Signature) = 3
          BY <2>10, SignatureRow
        <4> QED
          BY <4>1
      <3> HIDE DEF a, b, c
      <3>4. MayStand(a, Signature[1], a)
        BY <3>1, <2>10, <2>13, SignatureRow, Coercions
      <3>5. MayStand(b, Signature[2], a)
        BY <3>1, <2>10, <2>13, SignatureRow, Coercions
      <3>6. MayStand(c, Signature[3], a)
        BY <3>1, <2>10, <2>13, SignatureRow, Coercions
      <3> QED
        BY <3>2, <3>4, <3>5, <3>6 DEF a, b, c
    <2>11. CASE method \in Switches
      <3>1. a \in Strings \cup {"index"} /\ c = "function"
        BY <2>2, <2>11
           DEF Reaches, Listers, Defaults, Getters, Killers, StreamVolumes, StreamMutes,
             Lookups, Volumes, Switches, Movers
      <3>2. i = 1 \/ i = 2 \/ i = 3
        <4>1. Len(Signature) = 3
          BY <2>11, SignatureRow
        <4> QED
          BY <4>1
      <3> HIDE DEF a, b, c
      <3>4. MayStand(a, Signature[1], a)
        BY <3>1, <2>11, <2>13, SignatureRow, Coercions
      <3>5. MayStand(b, Signature[2], a)
        BY <3>1, <2>11, <2>13, SignatureRow, Coercions
      <3>6. MayStand(c, Signature[3], a)
        BY <3>1, <2>11, <2>13, SignatureRow, Coercions
      <3> QED
        BY <3>2, <3>4, <3>5, <3>6 DEF a, b, c
    <2>12. CASE method \in Movers
      <3>1. IsIndex(a) /\ (IsIndex(b) \/ (IsName(b) /\ a = "numeral")) /\ c = "function"
        BY <2>2, <2>12
           DEF Reaches, IsIndex, Listers, Defaults, Getters, Killers, StreamVolumes, StreamMutes,
             Lookups, Volumes, Switches, Movers
      <3>2. i = 1 \/ i = 2 \/ i = 3
        <4>1. Len(Signature) = 3
          BY <2>12, SignatureRow
        <4> QED
          BY <4>1
      <3> HIDE DEF a, b, c
      <3>4. MayStand(a, Signature[1], a)
        BY <3>1, <2>12, <2>13, SignatureRow, Coercions
      <3>5. MayStand(b, Signature[2], a)
        BY <3>1, <2>12, <2>13, SignatureRow, Coercions
      <3>6. MayStand(c, Signature[3], a)
        BY <3>1, <2>12, <2>13, SignatureRow, Coercions
      <3> QED
        BY <3>2, <3>4, <3>5, <3>6 DEF a, b, c
    <2> QED
      BY <2>1, Rows, <2>3, <2>4, <2>5, <2>6, <2>7, <2>8, <2>9, <2>10, <2>11, <2>12
  <1> QED
    BY <1>1, Inductive, PTL

(***************************************************************************)
(* Only the methods without a READY test leave data behind when called too *)
(* early, and they always do.                                              *)
(***************************************************************************)
THEOREM EarlyLeaveNothing == Spec => []EarlyCallsLeaveNothing
  <1>1. IInv => EarlyCallsLeaveNothing
    <2> SUFFICES ASSUME IInv, exit # "none", ~ready, Intended
                 PROVE  exit \in {"badarg", "notready"} <=> method \notin Untested
      BY DEF EarlyCallsLeaveNothing
    <2>1. method \in Method /\ args \in [1..4 -> Value] /\ ready \in BOOLEAN /\ exit = Exit(method, args, ready)
      BY DEF IInv, TypeOK, Settled
    <2>2. exit \in {"badarg", "notready"} <=> method \notin Untested \/ ~Tested(method, args)
      BY <2>1, Ways
    <2>3. method \in Untested => method \in Defaults \cup Killers \cup StreamVolumes \cup StreamMutes
      BY DEF Untested, Defaults, Killers, StreamVolumes, StreamMutes
    <2>4. method \in Untested => Tested(method, args)
      BY <2>1, <2>3, IntendedArguments, SignatureArguments
         DEF Tested, Index, Name, IsIndex, IsName, Defaults, Killers, StreamVolumes, StreamMutes
    <2> QED
      BY <2>2, <2>4
  <1> QED
    BY <1>1, Inductive, PTL

(***************************************************************************)
(* Twins are the same entry of the method table twice, but for the lookup  *)
(* of a sink, which is one only for an index.                              *)
(***************************************************************************)
LEMMA SameRow ==
    ASSUME NEW m \in DOMAIN Twin, NEW a, a[2] \in Value, NEW r, ~(m = "get_sink_info" /\ a[2] \in Name)
    PROVE  Exit(m, a, r) = Exit(Twin[m], a, r)
  <1>1. CASE m \in {"get_sinks", "get_sink_inputs"}
    <2>1. context_f[m] = Direct(Lister) /\ context_f[Twin[m]] = Direct(Lister)
      BY <1>1 DEF context_f, Twin, context_get_sink_info_list, context_get_source_info_list,
             context_get_sink_input_info_list, context_get_source_output_info_list
    <2> QED
      BY <2>1 DEF Exit
  <1>2. CASE m \in Defaults
    <2>1. Twin[m] \in Defaults
      BY <1>2 DEF Twin, Defaults
    <2>2. context_f[m] = context_f[Twin[m]]
      BY <1>2, <2>1, DefaultRow, Zenon
    <2> QED
      BY <2>2 DEF Exit
  <1>3. CASE m \in Getters
    <2>1. Twin[m] \in Getters
      BY <1>3 DEF Twin, Getters
    <2>2. context_f[m] = context_f[Twin[m]]
      BY <1>3, <2>1, GetterRow, Zenon
    <2> QED
      BY <2>2 DEF Exit
  <1>4. CASE m \in Killers
    <2>1. Twin[m] \in Killers
      BY <1>4 DEF Twin, Killers
    <2>2. context_f[m] = context_f[Twin[m]]
      BY <1>4, <2>1, KillerRow, Zenon
    <2> QED
      BY <2>2 DEF Exit
  <1>5. CASE m \in StreamVolumes
    <2>1. Twin[m] \in StreamVolumes
      BY <1>5 DEF Twin, StreamVolumes
    <2>2. context_f[m] = context_f[Twin[m]]
      BY <1>5, <2>1, StreamVolumeRow, Zenon
    <2> QED
      BY <2>2 DEF Exit
  <1>6. CASE m \in StreamMutes
    <2>1. Twin[m] \in StreamMutes
      BY <1>6 DEF Twin, StreamMutes
    <2>2. context_f[m] = context_f[Twin[m]]
      BY <1>6, <2>1, StreamMuteRow, Zenon
    <2> QED
      BY <2>2 DEF Exit
  <1>7. CASE m \in Volumes
    <2>1. Twin[m] \in Volumes
      BY <1>7 DEF Twin, Volumes
    <2>2. context_f[m] = context_f[Twin[m]]
      BY <1>7, <2>1, VolumeRow, Zenon
    <2> QED
      BY <2>2 DEF Exit
  <1>8. CASE m \in Switches
    <2>1. Twin[m] \in Switches
      BY <1>8 DEF Twin, Switches
    <2>2. context_f[m] = context_f[Twin[m]]
      BY <1>8, <2>1, SwitchRow, Zenon
    <2> QED
      BY <2>2 DEF Exit
  <1>9. CASE m \in Movers
    <2>1. Twin[m] \in Movers
      BY <1>9 DEF Twin, Movers
    <2>2. context_f[m] = context_f[Twin[m]]
      BY <1>9, <2>1, MoverRow, Zenon
    <2> QED
      BY <2>2 DEF Exit
  <1>10. CASE m = "get_sink_info"
    <2> DEFINE byName == Handler({}, {2}, TRUE, 2, FALSE, "single")
               byNameToo == Handler({}, {2}, TRUE, 3, FALSE, "single")
               byIndex == Handler({2}, {}, TRUE, 3, FALSE, "single")
    <2>1. Twin[m] = "get_source_info" /\ m \in Lookups /\ Twin[m] \in Lookups
      BY <1>10 DEF Twin, Lookups
    <2>2. context_f[m] = TwoForms(byName, byIndex) /\ context_f[Twin[m]] = TwoForms(byNameToo, byIndex)
      BY <1>10, <2>1, LookupRow
    <2> HIDE DEF byName, byNameToo, byIndex
    <2>3. a[2] \notin Strings
      BY <1>10 DEF Name
    <2>4. Exit(m, a, r) = IF a[2] \in Numbers THEN HandlerExit(byIndex, a, r) ELSE "badarg"
      BY <2>2, <2>3, EitherForm
    <2>5. Exit(Twin[m], a, r) = IF a[2] \in Numbers THEN HandlerExit(byIndex, a, r) ELSE "badarg"
      BY <2>2, <2>3, EitherForm
    <2> QED
      BY <2>4, <2>5
  <1> QED
    BY <1>1, <1>2, <1>3, <1>4, <1>5, <1>6, <1>7, <1>8, <1>9, <1>10
       DEF Twin, Defaults, Getters, Killers, StreamVolumes, StreamMutes, Volumes, Switches, Movers

(***************************************************************************)
(* Copies of a handler serve the same calls in the same way.               *)
(***************************************************************************)
THEOREM TwinsAlike == Spec => []TwinsAgree
  <1>1. IInv => TwinsAgree
    <2> SUFFICES ASSUME IInv, exit # "none", method \in DOMAIN Twin, ~(method = "get_sink_info" /\ args[2] \in Name)
                 PROVE  exit = Exit(Twin[method], args, ready)
      BY DEF TwinsAgree
    <2>1. args[2] \in Value /\ exit = Exit(method, args, ready)
      BY DEF IInv, TypeOK, Settled
    <2> QED
      BY <2>1, SameRow
  <1> QED
    BY <1>1, Inductive, PTL

=============================================================================
