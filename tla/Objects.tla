------------------------------ MODULE Objects ------------------------------
(***************************************************************************)
(* The userdata a program holds: Volumes and PropLists, its own and those  *)
(* in the tables convert.c makes; Contexts, and the PulseAudio objects     *)
(* whose main loops they run on; and the collector that finalizes what the *)
(* program has let go of, in batches.  The connection of a Context is the  *)
(* business of module Context: here every one is ready, and what counts is *)
(* how long it is there.                                                   *)
(*                                                                         *)
(* Objects are numbered in the order they are made.  A number also stands  *)
(* for C memory that was allocated for an object which never came to be.   *)
(***************************************************************************)
EXTENDS Convert, PropList, FiniteSets

CONSTANTS
    Programs,       \* bound: what a program makes and passes
    ServerVolume,   \* the volumes the server tells of
    Info            \* the infos it sends

(***************************************************************************)
(* A program is how many objects of a kind it makes, the numbers it passes *)
(* as levels, those it passes as indexes or counts of channels, the tables *)
(* it makes Volumes from, and what is in PropLists, its own and those it   *)
(* is sent.                                                                *)
(***************************************************************************)
ASSUME ObjectsAssumption ==
    /\ \A p \in Programs :
        /\ p.levels \subseteq Int /\ p.positions \subseteq Int
        /\ p.tables \subseteq Seq(Int \cup Text) /\ p.entries \subseteq Text \cup {Binary, Nil}
    /\ \A v \in ServerVolume : v \in CVolume /\ \A i \in Cell : v.values[i] \in 0..PA_VOLUME_MAX
    /\ Info \subseteq [index : 0..(PA_INVALID_INDEX - 1), reference : 0..PA_INVALID_INDEX,
                       has_volume : BOOLEAN, formats : Nat]

VARIABLES
    loaded,     \* is the volume module, and with it the metatable of Volumes?
    program,    \* one of Programs
    made,       \* how many objects were made
    kind,       \* [Object -> Kinds]
    cvol,       \* [Object -> the pa_cvolume of a Volume]
    home,       \* [Object -> the PulseAudio object whose loop a Context is on, or 0]
    held,       \* the objects the program can reach
    marked,     \* those dropped after the collector had marked them in the cycle that runs
    batch,      \* [Object -> the batch it waits for its finalizer in, or 0]
    gone,       \* the objects that were collected
    closed,     \* has lua_close been called?
    careful,    \* has the program kept the rules?  See CarefulIsSafe
    out,        \* what the last call came to
    fate        \* of the program: "running", "fault" or "abort"

births == <<program, made, kind, home>>
life == <<held, marked, batch, gone, closed>>

vars == <<loaded, births, cvol, life, propListVars, careful, out, fate>>

(***************************************************************************)
(* "opaque" is a Volume made before there was a metatable to give it: it   *)
(* has no methods and passes for nothing, for ever.  "lost" is the memory  *)
(* of an object that was not made.                                         *)
(***************************************************************************)
Kinds == {"none", "pulseaudio", "context", "volume", "opaque", "list", "lost"}

\* The kinds whose metatable has a __gc.
Finalizable == {"pulseaudio", "context", "list"}

Nothing == [what |-> "nothing"]
Answered(x, at, value) == [what |-> "answer", of |-> x, at |-> at, value |-> value]

\* An info: the numbers in the Lua table, and what they meant when the server sent them.
Told(info, converted) ==
    [what |-> "told",
     shown |-> [index |-> converted.index, reference |-> converted.reference],
     meant |-> [index |-> info.index, reference |-> info.reference]]

\* A request made with one of those numbers.
Asked(field, meant, target) ==
    [what |-> "asked", field |-> field, meant |-> meant, target |-> target]

TypeOK ==
    /\ loaded \in BOOLEAN
    /\ program \in Programs
    /\ made \in 0..Limit
    /\ kind \in [Object -> Kinds]
    /\ cvol \in [Object -> CVolume]
    /\ home \in [Object -> 0..Limit]
    /\ held \subseteq 1..made
    /\ marked \subseteq 1..made
    /\ batch \in [Object -> 0..Limit]
    /\ gone \subseteq 1..made
    /\ closed \in BOOLEAN
    /\ PropListTypeOK
    /\ careful \in BOOLEAN
    /\ fate \in {"running", "fault", "abort"}

Init ==
    /\ loaded = FALSE
    /\ program \in Programs
    /\ made = 0
    /\ kind = [x \in Object |-> "none"]
    /\ cvol = [x \in Object |-> Unwritten]
    /\ home = [x \in Object |-> 0]
    /\ held = {} /\ marked = {} /\ gone = {}
    /\ closed = FALSE
    /\ batch = [x \in Object |-> 0]
    /\ PropListInit
    /\ careful = TRUE
    /\ out = Nothing
    /\ fate = "running"

luaopen_lua_libpulse_glib_volume ==
    /\ ~loaded
    /\ loaded' = TRUE
    /\ out' = Nothing
    /\ UNCHANGED <<births, cvol, life, propListVars, careful, fate>>

-----------------------------------------------------------------------------
\* Making objects

Charged(k) == IF k \in {"opaque", "lost"} THEN "volume" ELSE k

Within(kinds) ==
    /\ made + Len(kinds) <= Limit
    /\ \A k \in DOMAIN program.makes :
        Cardinality({x \in 1..made : Charged(kind[x]) = k}) +
        Cardinality({i \in DOMAIN kinds : Charged(kinds[i]) = k}) <= program.makes[k]

Fresh(kinds) == (made + 1)..(made + Len(kinds))

Create(kinds) ==
    /\ Within(kinds)
    /\ made' = made + Len(kinds)
    /\ kind' = [x \in Object |-> IF x \in Fresh(kinds) THEN kinds[x - made] ELSE kind[x]]
    /\ UNCHANGED <<loaded, program, marked, batch, closed, careful, fate>>

\* luaL_getmetatable finds nothing when the volume module is not loaded.
VolumeKind == IF loaded THEN "volume" ELSE "opaque"

pulseaudio_new ==
    /\ Create(<<"pulseaudio">>)
    /\ held' = held \cup {made + 1}
    /\ out' = Nothing
    /\ UNCHANGED <<cvol, home, gone, propListVars>>

pulseaudio_new_context(p) ==
    /\ p \in held /\ kind[p] = "pulseaudio"
    /\ Create(<<"context">>)
    /\ home' = [home EXCEPT ![made + 1] = p]
    /\ held' = held \cup {made + 1}
    /\ out' = Nothing
    /\ UNCHANGED <<cvol, gone, propListVars>>

\* Can the program make requests?  Can the server's answers arrive?
Connected == \E c \in held : kind[c] = "context" /\ home[c] \notin gone
Listening == \E c \in (1..made) \ gone : kind[c] = "context" /\ home[c] \notin gone

\* volume_from_lua allocates, and raises on a value that is no integer.
volume_from_lua_raises(t) ==
    /\ loaded \/ Connected
    /\ RaisesFromLua(t)
    /\ Create(<<"lost">>)
    /\ source' = [source EXCEPT ![made + 1] = "live"]
    /\ out' = Nothing
    /\ UNCHANGED <<cvol, home, held, gone, own, content>>

\* What volume_from_lua allocated is copied, and not freed.
volume_new(t) ==
    /\ loaded /\ ~RaisesFromLua(t)
    /\ Create(<<"volume">>)
    /\ cvol' = [cvol EXCEPT ![made + 1] = volume_from_lua(t)]
    /\ source' = [source EXCEPT ![made + 1] = "live"]
    /\ held' = held \cup {made + 1}
    /\ out' = Nothing
    /\ UNCHANGED <<home, gone, own, content>>

\* volume_new of a Volume.
volume_copy(y) ==
    /\ y \in held /\ kind[y] = "volume"
    /\ Create(<<"volume">>)
    /\ cvol' = [cvol EXCEPT ![made + 1] = cvol[y]]
    /\ held' = held \cup {made + 1}
    /\ out' = Nothing
    /\ UNCHANGED <<home, gone, propListVars>>

PropListNew ==
    /\ Create(<<"list">>)
    /\ proplist_new(made + 1)
    /\ held' = held \cup {made + 1}
    /\ out' = Nothing
    /\ UNCHANGED <<cvol, home, gone>>

PropListFromString(c) ==
    /\ Create(<<"list">>)
    /\ proplist_from_string(made + 1, c)
    /\ held' = held \cup {made + 1}
    /\ out' = Nothing
    /\ UNCHANGED <<cvol, home, gone>>

(***************************************************************************)
(* An answer of the server becomes a table.  Its lists all say the same    *)
(* here; so that they are not the same list, it takes two copies of each.  *)
(***************************************************************************)
Arrive(info, converted, v, c) ==
    LET kinds == [i \in DOMAIN converted.makes |->
                     IF converted.makes[i] = "volume" THEN VolumeKind ELSE converted.makes[i]]
        Made(k) == {x \in Fresh(kinds) : converted.makes[x - made] = k}
    IN  /\ Listening
        /\ Create(kinds)
        /\ cvol' = [x \in Object |-> IF x \in Made("volume") THEN v ELSE cvol[x]]
        /\ proplist_to_lua(Made("list"), c)
        /\ held' = held \cup Fresh(kinds)
        /\ out' = Told(info, converted)
        /\ UNCHANGED <<home, gone>>

-----------------------------------------------------------------------------
\* Calls on objects

Call(x, outcomes) ==
    /\ x \in held /\ kind[x] = "volume"
    /\ \E o \in outcomes : cvol' = [cvol EXCEPT ![x] = o.cvol] /\ fate' = o.fate
    /\ out' = Nothing
    /\ UNCHANGED <<loaded, births, life, propListVars>>

\* A call with an index.
Store(x, index, outcomes) ==
    Call(x, outcomes) /\ careful' = (careful /\ index # PA_CHANNELS_MAX + 1)

\* A call with a count of channels.
Refill(x, n, outcomes) ==
    Call(x, outcomes) /\ careful' = (careful /\ n # 0)

Compute(x, outcomes) ==
    Call(x, outcomes) /\ UNCHANGED careful

Get(x, index) ==
    /\ x \in held /\ kind[x] = "volume"
    /\ \E w \in volume_get(cvol[x], index) : out' = Answered(x, index, w)
    /\ UNCHANGED <<loaded, births, cvol, life, propListVars, careful, fate>>

SetKey(x, k, v) ==
    /\ x \in held /\ kind[x] = "list"
    /\ proplist__newindex(x, k, v)
    /\ out' = Nothing
    /\ UNCHANGED <<loaded, births, cvol, life, careful, fate>>

GetKey(x, k) ==
    /\ x \in held /\ kind[x] = "list"
    /\ \E v \in proplist__index(x, k) : out' = Answered(x, k, v)
    /\ UNCHANGED <<loaded, births, cvol, life, propListVars, careful, fate>>

\* A request with a number from the info that has just come; one below 1 raises.
RequestByIndex(field) ==
    /\ out.what = "told" /\ Connected
    /\ out' = IF out.shown[field] < 1 THEN Nothing
              ELSE Asked(field, out.meant[field], RequestedIndex(out.shown[field]))
    /\ UNCHANGED <<loaded, births, cvol, life, propListVars, careful, fate>>

(***************************************************************************)
(* Setting a volume from a table makes a Volume, which the thread of the   *)
(* callback keeps, and frees what volume_from_lua allocated.  Without the  *)
(* volume module it is not recognised, and garbage at once.                *)
(***************************************************************************)
set_volume_table(t) ==
    /\ Connected /\ ~RaisesFromLua(t)
    /\ Create(<<VolumeKind>>)
    /\ source' = [source EXCEPT ![made + 1] = "freed"]
    /\ IF loaded
       THEN /\ held' = held \cup {made + 1}
            /\ cvol' = [cvol EXCEPT ![made + 1] = volume_from_lua(t)]
            /\ UNCHANGED gone
       ELSE /\ gone' = gone \cup {made + 1}
            /\ UNCHANGED <<held, cvol>>
    /\ out' = Nothing
    /\ UNCHANGED <<home, own, content>>

\* A call on a Context whose loop was freed runs into that memory, or gets away with it.
UseAdrift(c) ==
    /\ c \in held /\ kind[c] = "context" /\ home[c] \in gone
    /\ fate' \in {"running", "fault"}
    /\ out' = Nothing
    /\ UNCHANGED <<loaded, births, cvol, life, propListVars, careful>>

-----------------------------------------------------------------------------
\* Collection

(***************************************************************************)
(* The collector of Lua 5.1 marks while the program runs.  What was marked *)
(* and is dropped before the cycle ends is taken by the next one only, so  *)
(* of several objects dropped at once any may outlive the others.          *)
(***************************************************************************)

\* Put behind what was found before.
Separated(X) ==
    \E n \in 1..Limit :
        /\ \A x \in Object : batch[x] < n
        /\ n = 1 \/ \E x \in Object : batch[x] = n - 1
        /\ batch' = [x \in Object |-> IF x \in X THEN n ELSE batch[x]]

\* A Volume has no finalizer: it is simply not there any more.
Forgotten(V) ==
    /\ gone' = gone \cup V
    /\ cvol' = [x \in Object |-> IF x \in V THEN Unwritten ELSE cvol[x]]

\* What is to be finalized, and does not wait for that yet.
Alive == {x \in 1..made : kind[x] \in Finalizable /\ x \notin gone /\ batch[x] = 0}

\* The last references to some objects go, M of them marked: a variable, a table with what is in it.
Drop(X, M) ==
    /\ held' = held \ X
    /\ marked' = marked \cup M
    /\ Forgotten({x \in X : kind[x] \notin Finalizable})
    /\ careful' = (careful /\ \A c \in 1..made :
                    kind[c] = "context" /\ home[c] \in X => c \in gone \/ batch[c] # 0)
    /\ out' = Nothing
    /\ UNCHANGED <<loaded, births, batch, closed, propListVars, fate>>

\* The end of a cycle.
Separate ==
    /\ Alive \ held # {}
    /\ IF Alive \ (held \cup marked) = {} THEN UNCHANGED batch
       ELSE Separated(Alive \ (held \cup marked))
    /\ marked' = {}
    /\ out' = Nothing
    /\ UNCHANGED <<loaded, births, cvol, held, gone, closed, propListVars, careful, fate>>

\* Everything is to be finalized, reached or not; the program does nothing more.
lua_close ==
    /\ ~closed
    /\ closed' = TRUE
    /\ held' = {} /\ marked' = {}
    /\ Forgotten({x \in held : kind[x] \notin Finalizable})
    /\ IF Alive = {} THEN UNCHANGED batch ELSE Separated(Alive)
    /\ out' = Nothing
    /\ UNCHANGED <<loaded, births, propListVars, careful, fate>>

\* Within a batch the newest goes first.
Precedes(y, x) ==
    batch[y] # 0 /\ (batch[y] < batch[x] \/ (batch[y] = batch[x] /\ y > x))

Finalize(x) ==
    /\ batch[x] # 0 /\ \A y \in Object : ~Precedes(y, x)
    /\ batch' = [batch EXCEPT ![x] = 0]
    /\ gone' = gone \cup {x}
    /\ out' = Nothing
    /\ UNCHANGED <<loaded, births, cvol, held, marked, closed, careful>>

FinalizeList(x) ==
    /\ kind[x] = "list"
    /\ Finalize(x)
    /\ proplist__gc(x)
    /\ UNCHANGED fate

\* The loop is freed, whoever runs on it.
pulseaudio__gc(x) ==
    /\ kind[x] = "pulseaudio"
    /\ Finalize(x)
    /\ UNCHANGED <<propListVars, fate>>

\* Disconnecting and releasing the connection use the loop.
context__gc(x) ==
    /\ kind[x] = "context"
    /\ Finalize(x)
    /\ fate' \in IF home[x] \in gone THEN {"running", "fault"} ELSE {"running"}
    /\ UNCHANGED propListVars

-----------------------------------------------------------------------------
ProgramStep ==
    \/ luaopen_lua_libpulse_glib_volume
    \/ pulseaudio_new
    \/ \E p \in held : pulseaudio_new_context(p)
    \/ \E t \in program.tables : volume_from_lua_raises(t) \/ volume_new(t) \/ set_volume_table(t)
    \/ \E x \in held : volume_copy(x) \/ UseAdrift(x)
    \/ PropListNew
    \/ \E c \in [ValidKey -> program.entries] : PropListFromString(c)
    \/ \E field \in {"index", "reference"} : RequestByIndex(field)
    \/ \E X \in (SUBSET held) \ {{}} :
        \E M \in SUBSET {x \in X : kind[x] \in Finalizable} : Drop(X, M)

VolumeStep(x) ==
    \/ \E index \in program.positions, n \in program.levels :
        \/ Store(x, index, volume_set(cvol[x], index, n))
        \/ Store(x, index, volume__newindex(cvol[x], index, n))
    \/ \E index \in program.positions : Get(x, index)
    \/ \E n \in program.positions :
        \/ Refill(x, n, volume_reset(cvol[x], n))
        \/ Refill(x, n, volume_mute(cvol[x], n))
    \/ \E n \in program.levels :
        \/ Compute(x, volume_inc(cvol[x], n))
        \/ Compute(x, volume_dec(cvol[x], n))
        \/ Compute(x, volume_scale(cvol[x], n))
        \/ Compute(x, volume_multiply_number(cvol[x], n))
        \/ Compute(x, volume_divide_number(cvol[x], n))
    \/ \E y \in held :
        /\ kind[y] = "volume"
        /\ \/ Compute(x, volume_multiply(cvol[x], cvol[y]))
           \/ Compute(x, volume_divide(cvol[x], cvol[y]))

ListStep(x) ==
    \E k \in Key : GetKey(x, k) \/ \E v \in program.entries : SetKey(x, k, v)

ServerStep ==
    \E info \in Info, v \in ServerVolume, c \in [ValidKey -> program.entries] :
        \/ Arrive(info, sink_info_to_lua(info), v, c)
        \/ Arrive(info, source_info_to_lua(info), v, c)
        \/ Arrive(info, sink_input_info_to_lua(info), v, c)
        \/ Arrive(info, source_output_info_to_lua(info), v, c)

CollectorStep ==
    \/ Separate
    \/ lua_close
    \/ \E x \in Object : FinalizeList(x) \/ pulseaudio__gc(x) \/ context__gc(x)

Next ==
    /\ fate = "running"
    /\ \/ ~closed /\ ProgramStep
       \/ ~closed /\ \E x \in held : VolumeStep(x) \/ ListStep(x)
       \/ ~closed /\ ServerStep
       \/ CollectorStep

Spec == Init /\ [][Next]_vars

-----------------------------------------------------------------------------
(***************************************************************************)
(* Whatever is done to a Volume, tables cut short or too long, channels    *)
(* set beyond the count, volumes of different sizes multiplied, no channel *)
(* that counts holds what pa_xnew left there.                              *)
(***************************************************************************)
Initialised ==
    \A x \in Object : \A i \in Cell : i < cvol[x].channels => cvol[x].values[i] # Garbage

(***************************************************************************)
(* A channel is louder than PA_VOLUME_MAX only if it was set to a negative *)
(* number.  That the tests let negative numbers pass is all that can make  *)
(* a Volume invalid: no construction and no arithmetic does.               *)
(***************************************************************************)
NegativesOnly ==
    \A x \in Object : \A i \in Cell :
        i < cvol[x].channels =>
            \/ PA_VOLUME_IS_VALID(cvol[x].values[i])
            \/ \E n \in program.levels : n < 0 /\ cvol[x].values[i] = uint32_t(n)

(***************************************************************************)
(* The memory behind a PropList is there for as long as the PropList, and  *)
(* no longer: no call meets a list that was freed, and none is left.  What *)
(* it was copied from is still there after that, since nothing frees it:   *)
(* every list leaks one list, whoever made it, and no more.                *)
(***************************************************************************)
ListsOwned ==
    \A x \in Object :
        /\ own[x] = "live" <=> kind[x] = "list" /\ x \notin gone
        /\ kind[x] = "list" => source[x] = "live"

(***************************************************************************)
(* A request made with an info's own index reaches the object of that      *)
(* info, at every index there can be, and whatever was converted between.  *)
(***************************************************************************)
NumbersReach ==
    out.what = "asked" /\ out.field = "index" => out.target = out.meant

(***************************************************************************)
(* A program is careful if it keeps a PulseAudio object until the Contexts *)
(* it got from it are finalized, or lua_close; and if it neither indexes a *)
(* Volume one past the channels there can be nor asks for a Volume of      *)
(* none.  This is enough: the program runs on, and no Context outlives its *)
(* loop, whatever the collector had marked when other objects were dropped *)
(* and however it orders their finalizers.                                 *)
(***************************************************************************)
CarefulIsSafe ==
    careful =>
        /\ fate = "running"
        /\ \A c \in 1..made : kind[c] = "context" /\ c \notin gone => home[c] \notin gone

\* What a program sees of a volume: the channels that count.
Audible(v) == [i \in 1..v.channels |-> v.values[i - 1]]

\* What it sees of a list: bytes that are no text look like nothing.
Legible(c) == [k \in ValidKey |-> IF c[k] = Binary THEN Nil ELSE c[k]]

plainLevels == [x \in Object |-> Audible(cvol[x])]
plainTexts  == [x \in Object |-> Legible(content[x])]
plainAnswer == IF out.what = "answer" THEN <<out.of, out.at, out.value>> ELSE Nil

Plain == INSTANCE Values WITH
    ChannelsMax <- PA_CHANNELS_MAX,
    Levels  <- Word,
    Loudest <- PA_VOLUME_MAX,
    Content <- [ValidKey -> Text \cup {Nil}],
    levels  <- plainLevels,
    texts   <- plainTexts,
    answer  <- plainAnswer

(***************************************************************************)
(* Volumes and PropLists implement plain values: arrays that are half      *)
(* written and memory that is copied and freed show nowhere in what a      *)
(* program gets to see, and a call on one object changes no other.         *)
(***************************************************************************)
ImplementsValues == Plain!Spec

-----------------------------------------------------------------------------
\* What the documentation says and the code does not do.

(***************************************************************************)
(* doc/config.ld says that all numeric indices are adjusted to base 1.     *)
(* Those by which one object refers to another are not: a request made     *)
(* with one raises, or reaches the object before the one that was meant.   *)
(***************************************************************************)
ReferencesReach ==
    out.what = "asked" /\ out.meant # PA_INVALID_INDEX => out.target = out.meant
=============================================================================
