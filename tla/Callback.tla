------------------------------ MODULE Callback ------------------------------
(***************************************************************************)
(* The life of callback data (callback.c).  A simple_callback_data points  *)
(* to a Lua thread that holds the function to call.  The collector keeps   *)
(* the thread only because a slot of the module's registry table refers to *)
(* it, and libpulse keeps the data only as a userdata pointer: nothing but *)
(* free_lua_callback gives either back, and nothing stops it from giving   *)
(* back a slot that has been handed to somebody else since.                *)
(***************************************************************************)
CONSTANTS
    Data,   \* the identities of callback data, each allocated at most once
    Ref,    \* the slots of the registry table
    Nil     \* no data, or no slot

ASSUME NilAssumption == Nil \notin Data \cup Ref

VARIABLES
    slot,   \* [Ref -> Data or Nil]: whose thread a slot anchors
    ref,    \* [Data -> Ref or Nil]: the field thread_ref
    heap    \* [Data -> {"none", "live", "freed"}]: malloc and free

callbackVars == <<slot, ref, heap>>

CallbackTypeOK ==
    /\ slot \in [Ref -> Data \cup {Nil}]
    /\ ref \in [Data -> Ref \cup {Nil}]
    /\ heap \in [Data -> {"none", "live", "freed"}]

\* luaL_ref stores the thread in any slot that is free.
luaL_ref(d, r) ==
    /\ slot[r] = Nil
    /\ slot' = [slot EXCEPT ![r] = d]

\* Mutant: the thread is not anchored.
prepare_unanchored(d) ==
    \E r \in Ref :
        /\ slot[r] = Nil
        /\ ref' = [ref EXCEPT ![d] = r]
        /\ heap' = [heap EXCEPT ![d] = "live"]
        /\ UNCHANGED slot

prepare_lua_callback(d) ==
    \E r \in Ref :
        /\ luaL_ref(d, r)
        /\ ref' = [ref EXCEPT ![d] = r]
        /\ heap' = [heap EXCEPT ![d] = "live"]

\* luaL_checktype raises between luaL_ref and malloc: the slot stays taken, and
\* there is no data that knows which one it was.
prepare_lua_callback_raises(d) ==
    /\ \E r \in Ref : luaL_ref(d, r)
    /\ UNCHANGED <<ref, heap>>

\* Mutant: free without luaL_unref.
free_without_unref(D) ==
    /\ heap' = [d \in Data |-> IF d \in D THEN "freed" ELSE heap[d]]
    /\ UNCHANGED <<slot, ref>>

\* Mutant: thread_ref is read after free.
free_before_unref(D) ==
    /\ \E r \in Ref : slot' = [slot EXCEPT ![r] = Nil]
    /\ heap' = [d \in Data |-> IF d \in D THEN "freed" ELSE heap[d]]
    /\ UNCHANGED ref

\* Frees every data of the set D: whatever their slots hold by now is dropped.
free_lua_callback(D) ==
    /\ slot' = [r \in Ref |-> IF \E d \in D : ref[d] = r THEN Nil ELSE slot[r]]
    /\ heap' = [d \in Data |-> IF d \in D THEN "freed" ELSE heap[d]]
    /\ UNCHANGED ref

(***************************************************************************)
(* Data is usable when it has not been freed and the slot it remembers     *)
(* still anchors its own thread.                                           *)
(***************************************************************************)
Usable(d) == heap[d] = "live" /\ ref[d] \in Ref /\ slot[ref[d]] = d
=============================================================================
