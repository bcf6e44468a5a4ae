# TLA+ models of lua-libpulse-glib

lua-libpulse-glib binds the PulseAudio client library (libpulse) to Lua on a GLib
main loop. It is a thin layer, but one with a hard job: it hands pointers to Lua
threads to a C library that calls them back later, from the main loop, and it must
keep every such thread alive exactly as long as libpulse may still use it. This
directory holds models of that layer, the TLC configurations that check them on small
instances, and proofs, checked by TLAPS, that the main results hold for every instance.

Paths below are relative to `src/src/lua_libpulse_glib/`.

## 1. The system

### Components

| component | source | state | operations |
|---|---|---|---|
| Callback data | `callback.c/.h` | per callback: a Lua thread, its slot in the registry table, a malloc'ed record | `prepare_lua_callback`, `free_lua_callback`, `success_callback` |
| Asynchronous methods | `introspection.c`, `context.c`, table in `context.h` | none of their own | 25 methods, 41 handlers: check the arguments, check READY, prepare a callback, ask libpulse, report a refusal |
| Context | `context.c` | the `pa_context`, the data of its state and event callbacks, the function on the state thread | `context_new`, `connect`, `disconnect`, `get_state`, `__gc`, `context_state_callback` |
| Event subscriptions | `context.c` | a Lua table on the event thread | `subscribe`, `unsubscribe`, `context_event_callback` |
| Volume | `volume.c/.h` | a `pa_cvolume` in a userdata | construction from a table or a Volume, `set`, `get`, `v[i] =`, `reset`, `mute`, arithmetic in place, and queries |
| PropList | `proplist.c/.h` | a `pa_proplist` behind a userdata | construction, lookup, update, collection |
| Conversion | `convert.c/.h` | none | C structures to Lua tables |
| PulseAudio object, modules | `pulseaudio.c/.h`, `lua_util.h` | the GLib main loop object; the metatables and the registry table | `new`, `context`, `__gc`, `luaopen_*` |

`init.c` is empty, `spec/` holds no tests, and everything else is documentation, style
sheets and build files.

### How they interact

There is one OS thread. The main loop enters libpulse, libpulse enters a C callback,
that enters a Lua function, and the Lua function may enter libpulse again through any
method of the Context, or drop the last reference to it. So nothing is preempted, but
user code runs with callbacks half finished below it on the C stack. A Context, its
callbacks and their data share three things: the registry table (`luaL_ref` hands out a
slot again as soon as it was released), the `userdata` pointers held by libpulse, and the
connection state, which user code can change while libpulse is telling it.

### What is hard, and what makes each component correct

* *Callback data*: no pointer libpulse holds is to freed data or to a thread whose slot
  was given away; slots and data are given back. Errors in the middle of a handler, and
  answers that never come, work against that.
* *Methods*: some forty hand-copied handlers that differ in the stack positions they
  read, and in the order of check, allocation and early return. A documented call must
  get to the server, a call with the wrong arguments must not.
* *Context*: answers race disconnection, loss and collection, each of them possibly from
  inside a callback. A callback must be called at most once, with what the server said,
  and every call must end; the listener must know the state.
* *Subscriptions*: positions are used as names, and removal moves positions.
* *Volume*: the array has 32 levels and a count; the same bound is tested in five ways.
  Numbers come as signed 64 bit integers, are tested as such, and stored as 32 bits. What
  a program can see must have been written, and valid unless the program made it not so.
* *PropList*: the list behind the userdata must live exactly as long as the userdata.
* *Conversion*: an index that is shown must lead back to its object through every method.
* *PulseAudio object*: nothing makes a Context keep its main loop. A program that lets go
  of both depends on the collector, which marks while the program runs and may finalize
  the loop a cycle before the Context. Which metatables exist depends on which modules
  were loaded.

`PROJECT.json` lists the hazards line by line, with the properties that watch each.

## 2. The modules

| module | models | state and actions against the code |
|---|---|---|
| `Handlers` | `context_f`, all handlers | A handler is a record: positions of indexes and names, READY test or not, position of the callback, volume or not, kind of libpulse callback. `HandlerExit` runs the checks in the order of the C text and says how the handler leaves. `TwoForms` is the `switch` on the type of the first argument. |
| `Dispatch` | one call of one method | every method with every kind of value in every position; compares with the `@tparam` lines of `context.h` (`Documents`). They list no callback for `set_default_sink` and `set_default_source`, which are `@async` like all the others; `Signature` adds it there, and both ways of writing the call are looked at (`Intended`) |
| `Callback` | `callback.c` | `slot` is the registry table, `ref` the field `thread_ref`, `heap` malloc and free |
| `Anchors` | the promise of `Callback`, in the hands of every Context | callback data is held from `prepare_lua_callback` to `free_lua_callback`, or lost by an error between; released once; nobody disturbs anybody else's |
| `Context` | `context.c`, the callbacks of `introspection.c` | see below |
| `AsyncCalls` | the promise of `Context` | calls are rejected, answered once, or dropped all together |
| `MCContext` | instances of `Context` | requests and symmetry |
| `Subscriptions` | `context_subscribe`, `context_unsubscribe` | `tbl` is the Lua table, `Borders` what `lua_rawlen` may return, `Shift` one turn of the loop, `pos` and `len` its variables as `size_t` |
| `SubscriptionList` | the promise of `Subscriptions` | a list that loses one entry at a time |
| `MCSubscriptions` | instances of `Subscriptions` | the numbers unsubscribe is given |
| `Volume` | `volume.c`, and libpulse's `pa_cvolume_*` | an operation is the set of its outcomes: the `pa_cvolume` afterwards, and whether the program runs on. `Garbage` is what `pa_xnew` left; `Overruns` is a write one past the array. |
| `PropList` | `proplist.c` | `own` is the `pa_proplist` of a userdata, `source` what it was copied from, `content` what it says |
| `Convert` | `convert.c` | an info table is the userdata in it, in the order they are made, and the indexes it gives |
| `Objects` | userdata and their collection; composes the three above with `pulseaudio.c` | see below |
| `Values` | the promise of `Objects` | every object is a plain value; a call changes the value of one object, and answers come from it |
| `MCObjects` | instances of `Objects` | five kinds of program, three infos |
| `HandlersProofs`, `DispatchProofs`, `ContextProofs`, `SubscriptionsProofs`, `VolumeProofs`, `ObjectsProofs` | theorems | section 5 |

`Dispatch` and `Context` both use `Handlers`: the table is compared with the
documentation in one and drives the asynchronous calls in the other. `Context` extends
`Callback`, whose variables it shares.

### Context

| in the model | in the code |
|---|---|
| `conn`, `wire` | state of the `pa_context`; its transport (libpulse), or `waiting` for a daemon without one |
| `How`, `no_fail` | the server and flags given to `connect`: accepted as they are, `PA_CONTEXT_NOFAIL` (`no_fail` from then on), a server that libpulse cannot parse, or flags or a server it refuses outright |
| `listener`, `dialer` | function at index 1 of the state thread; the one given to the `connect` that dialled |
| `told`, `hearer`, `displaced` | the last state that was told; the function it was told to; has a refused `connect` put another one in its place since? |
| `announcing`, `inCall` | the state callback that is running now; whether it runs below `connect`/`disconnect`, which keep the Context reachable |
| `answering` | the call whose answer's callback is running now |
| `status`, `reply`, `verdict`, `heard` | per call: what became of it, which libpulse callback serves it, what the server said, what its Lua callback was called with |
| `pinned` | an error was raised through `pa_context_set_state`, which then never drops the reference it took |
| `fate` | `panic`: error on an unprotected thread (Lua 5.1, the version of the Makefile, ends the program); `fault`: NULL or freed memory dereferenced, or an assertion of libpulse |
| `Invoke` | any asynchronous method, every way out of `Handlers` |
| `context_connect`, `context_disconnect`, `context__gc` | the functions of that name |
| `success_callback`, `info_callback_list`, `info_callback_single`, `server_info_callback` | the libpulse callbacks up to the `lua_call` (the four info callbacks are copies of one another) |
| `AnswerReturn`, `StateReturn` | what happens when that `lua_call` returns: `free_lua_callback`; unlinking, dialling |
| `Dialled`, `Welcomed`, `ConnectionLost` | the network, through libpulse: AUTHORIZING, SETTING_NAME and READY, or FAILED |
| `DaemonAppears` | what a Context that was told not to fail waits for |
| `Stranger`, `OtherContext` | callback data of the program's other Contexts, and what they do with it in the registry table all Contexts share: prepare some, raise while preparing, free their own |
| `anchor` | where each data stands, read off `slot`, `ref` and `heap`, for `Anchors` |

The definitions that stand for libpulse (the map marks them external) are modelled from
what the code relies on: operations exist in READY only and are answered once; the state
callback runs before the context is unlinked; unlinking cancels operations silently; a
callback from the loop holds a reference.

A listener is called with `nil` and the state, as `context_state_callback` does
(`context.c:21-26`). The documentation has two other forms, the state alone
(`README.adoc:57`, whose example therefore compares `nil` with 4) and the Context and the
state (`context.h:52-53`); what is modelled is that the state is told, and to whom.

Left out of `Context`: the contents of answers, the arguments of methods after the first
four, `get_state` (it only reads), failure of `malloc`, calls of `connect` with arguments of the
wrong type, which raise before anything is changed, and `connect` inside the state
callback, which clears its own frame and raises without any other effect. The flag that
lets libpulse start a daemon (`PA_CONTEXT_NOFLAGS` in place of the default) only makes a
dial take longer. User code that runs a
main loop of its own inside a callback (through another binding of GLib; this one has no
such method) is assumed away: the loop dispatches nothing below a callback. Calls are a finite set
of identities and each is made once; that bounds the model, and nothing in the code
limits them.

### Objects

| in the model | in the code |
|---|---|
| `kind`, `cvol` | which metatable a userdata has; the `inner` of a Volume. An `opaque` is a Volume made by `volume_to_lua` while `luaL_getmetatable` finds nothing; `lost` is what `volume_from_lua` allocated for a table that then raised |
| `home` | the PulseAudio object whose `mainloop` a Context runs on: `pulseaudio_new_context` |
| `source`, `own`, `content` | C memory: what an object was made from, the copy a PropList frees, what that says |
| `held`, `marked` | what the program can reach; `Drop` lets any of it go at once. The collector of Lua 5.1 marks while the program runs: any of what is dropped may be `marked` in the cycle under way, and is then taken by the next one only |
| `batch`, `gone` | `Separate` ends a cycle: what is out of reach and not marked is queued. `Finalize` takes one at a time, the newest of the oldest batch. User code and answers come between any two |
| `lua_close`, `closed` | everything is queued, and no user code runs but the finalizers |
| `fate` | `abort`: an assertion of libpulse; `fault`: memory that is not theirs |
| `careful` | history: has the program kept every loop until its Contexts were queued, or `lua_close`, and not used index 33 or a count of 0? |
| `Arrive` | one of the four `*_info_to_lua` for one answer; every userdata of the table is made |
| `RequestByIndex` | a `_by_index` method called with a number from the table, `(uint32_t) index - 1` |
| `set_volume_table` | the `_volume` setters with a table |
| `UseAdrift`, `pulseaudio__gc`, `context__gc` | uses and finalizers around a main loop that was freed |

`Objects` takes from a connection only that it is there: what happens on it is the
business of `Context`, which in turn knows no other userdata. The two
meet where `context__gc` runs, which both have. That a finalizer disconnects and so tells
a state, at `lua_close` too, is in `Context`.

## 3. The runs

| run | result | what it shows |
|---|---|---|
| `dispatch` | pass | 274400 states: every method, every kind of value in three positions, ready or not. The documented forms not served are exactly those in `Unserved`; nothing is submitted without a function and valid indexes; only the methods in `Untested` leave something behind when called too early; twins behave alike. |
| `context` | pass | 305288 states: two calls over all kinds of requests, one data of another Context, five slots, two listeners, every way to `connect`; loss, disconnection, nested use, collection and errors anywhere. Memory, answers, states, who waits for what, why programs fault, `AsyncCalls` and `Anchors`. Calls, slots and listeners are symmetric. |
| `context_live` | pass | 422316 states: two calls, all kinds of answers, every way to `connect`, no symmetry: `CallsConclude`, `ConnectConcludes`. |
| `subscriptions` | pass | four subscriptions, numbers from -6 to 5, a `size_t` of twelve values. |
| `objects` | pass | 326176 states, five objects: no channel that counts is read before it was written; only negative numbers make one too loud; PropLists and their memory come and go together; an own index reaches its object; a careful program never faults or aborts, whatever was marked and in whatever order objects are finalized; and everything a program sees is that of `Values`. |
| `documented_forms` | violation | `get_sink_info(name, cb)` raises. By the same property: `get_sink_input_info(name, cb)`, `move_sink_input(index, name, cb)`, `move_source_output(index, name, cb)`. |
| `references` | violation | a request with `monitor_source`, or another index by which an info refers to an object, does not reach that object, though `doc/config.ld` says that all indices are shifted. |
| `state_untold` | violation | `disconnect` inside the state callback: the new state is not told. |
| `listener_displaced` | violation | a second `connect` fails and takes the listener over. |
| `single_value` | violation | a call for one value hears an error when the value comes; the end of the list that follows is then taken for the value and dereferenced as NULL (`fate = "fault"`). |
| `orphans` | violation | data of refused and cancelled calls is never freed. |
| `own_id` | violation | unsubscribing with one's own number removes somebody else's handler. |

More disagreements are in the models without a run of their own. A method with
arguments before its callback reports a refusal to the first of them and raises
(`Report`), and `unsubscribe` with a function ends the program (`UnsubscribeFunction`).
`set_default_sink` and `set_default_source`, called with a name only as `context.h:118`
and `context.h:128` document them, raise (`Unserved`). A list that could not be had is
passed to the callback as a list and without an error (`info_callback_list`), where
`context.h:181` promises one. A PulseAudio object dropped together with its Contexts may
be finalized before them, which then use freed memory; nothing tells a program to keep
it (`CarefulIsSafe` is about programs that do).
`Volume:get(1)` always raises (`volume_get`), `Volume:set` and `v[i] =` write to a 33rd
channel (`Overruns`), `reset(0)` and `mute(0)` abort (`Aborts`), and both raise without
the number that `volume.h` does not mention. Every PropList leaks one list
(`ListsOwned`) and `volume.new` of a table one volume. Where a property is named, these
are exceptions in it, each as narrow as the code allows.

Why the bounds are enough. In `Context` calls interact in pairs, through slots and through
the one answer that may be running: one call runs while another waits, or takes over the
slot it releases. Another Context touches this one through the
registry alone, one data at a time, so one data of its own shows every way it can do so.
Five slots are as many as can be in use at once, and any that is free may be handed out
next, the one just given back too; the proofs are for any number of calls and slots. Two listeners are what it
takes for one to displace the other; a third would be to the second what the second is to
the first. A single connection suffices because a `pa_context` never leaves FAILED or
TERMINATED. In `context_live` one listener is enough, since the properties name none. In `Subscriptions` four entries allow two removals
below an entry that stays, which is what it takes for stale numbers to cross; the table
lengths are far from where `size_t` wraps, as `SizeAssumption` says, so any width with
room on both sides is like any other.

In `Objects` words have six values, half of them valid (0 to 2, with the norm at 1),
bytes four, volumes two channels. So levels meet every boundary: silence, norm, maximum,
maximum and one, a negative number. Indexes run from -1 to 4, both sides of every bound,
and tables from none to one entry more than a byte holds, negative and without numbers.
Programs are kept apart by what they are about, because objects of different kinds share
only the collector: one computes with two Volumes before and after the module is loaded;
one fills and reads two PropLists; one opens and drops two PulseAudio objects and two
Contexts in any order; one reads the server's answers; one sets volumes from tables. Two Contexts on one loop, or one on each of two, is what it takes for their
finalizers to interleave; the infos are those of the first index, the last, and of a
reference to nothing. `VolumeProofs` and `ObjectsProofs` carry all of it to the real
widths, to any number of objects and any program.

Every property has a mutant: a definition next to the one it replaces (`\* Mutant:`)
that changes it the way a slip would, and with which TLC finds the property violated.

## 4. Fairness

`FairSpec` assumes that a user callback that has been called returns (`StateReturn`,
`AnswerReturn`), and that libpulse dispatches what is ready: a connection attempt
succeeds or times out (`Dialled`), the handshake is answered or lost (`Welcomed` or
`ConnectionLost`), and each operation is answered (`Answer(c)`), if by nobody else by
libpulse itself when its 30 second timer runs out. All are weak, and enabled only while
the loop can dispatch. `Dialled` is fair because a socket that is being connected gets
there or fails; a Context that was given `PA_CONTEXT_NOFAIL` and finds no daemon is not
dialling but `waiting`, no step of that is fair (`DaemonAppears`), and
`ConnectConcludes` says that this is the one way a connection attempt may never end. Nothing is assumed of user code: no call, connect, disconnect or
collection ever has to happen, and the loop may be lost at any time to a panic or fault.

## 5. What is proved

`ContextProofs` proves, for any finite or infinite sets of calls, requests, listeners
and slots, from the assumptions `NilAssumption`, `DataAssumption`, `RequestAssumption`
and `VolumeLoadedAssumption`:

| theorem | statement |
|---|---|
| `TypeCorrect` | `TypeOK` |
| `MemorySafety` | `AwaitedDataUsable` |
| `SlotsHaveOwners` | `SlotsAccounted` |
| `CollectorSafety` | `StateDataOutlivesTransport` |
| `AnsweredOnce` | `AtMostOnce` |
| `VerdictsHeard` | `CommandVerdictHeard` |
| `NothingPendsUnlinked` | `PendingNeedsTransport` |
| `ListenerKnows` | `ListenerInformed` |
| `OverIsOver` | `FinalIsFinal` |
| `TellsForward` | `ToldInOrder` |
| `NobodyForgotten` | `WaitersAreServed` |
| `OnlyKnownFaults` | `FaultsHaveCauses` |
| `Refinement` | `Context` implements `AsyncCalls` |
| `AnchorsHeld` | `Context`, among others, implements `Anchors` |

All rest on the inductive invariant `IInv`. The properties are not inductive by
themselves. That the state callback's data outlives the transport needs to know which
half finished callbacks go with which states and transports (`Frames`): a Context is
collected below a callback only if that callback came from the loop, and libpulse lets
go of it when that callback returns. That awaited data stays usable needs to know that
an occupied slot belongs to one live data which remembers it (`Memory`, through
`SlotsAccounted`): then a slot that is free cannot be the slot of waiting data, and
freeing one call's data cannot empty another's slot. That no callback is called twice
needs to know that the callback of a waiting call has heard nothing unless it is the
one being answered (`Hearing`). Each part has a lemma for every action that can disturb
it, and `Inductive` combines them. The refinement uses `IInv` as well: a transport that is down
leaves nothing waiting, so closing drops exactly what waits.

`ListenerInformed` is about the function that listens now: it is the one that was told the
current state (`hearer`), or a refused `connect` has put it in place since. That it
holds from `connect` on needs to know that a function is told in the same step in which the state
changes, and that `displaced` ends with the next state told.

`FaultsHaveCauses` names the three ways to a fault; that there is no fourth needs most of
the invariant. libpulse asserts, when the socket is connected or the server answers the
handshake, that nobody has changed the state meanwhile: `Frames` says that a transport
that dials or greets goes with the state of that name unless a disconnection is being
told, after which it is closed, or the Context is pinned. The other two ways, a missing
value and a missing server info, need `Answering`: a callback of a call that still waits
is that of a value that is followed by the end of its list. A program that uses neither
form, and does not disconnect in its state callback, thus has no fault here (the main loop
that may be collected is the business of `Objects`). The same parts
give `WaitersAreServed`, the safety half of the two liveness properties: nothing waits
for an event that is not on its way. `ToldInOrder` needs to know that a listener that
lost track of the state (`pinned`) did so by ending the connection.

`AnchorsHeld` is about the program and not one Context. It assumes of the other Contexts
that they free only live data of their own, and concludes that this one frees only held
data of its own, once, and leaves all other data where it was. Since every Context is
an instance of `Context`, what is assumed of the others is what is concluded of each, so
any number of Contexts may share the registry; `Anchored`, that all live data is
anchored, is the invariant they maintain together. `AwaitedDataUsable` and the rest hold
among them as well, because `OtherContext` is a step of `Spec`.

`HandlersProofs` proves `MethodTableTyped`: every entry of the method table runs only
well-formed handlers. `ContextProofs` needs it for the kind of answer a call gets.

`SubscriptionsProofs` proves, for any number of subscriptions and any numbers given to
unsubscribe, from `LimitAssumption` and `SizeAssumption`:

| theorem | statement |
|---|---|
| `TypeCorrect` | `TypeOK` |
| `NeverHoles` | `NoHoles` |
| `AlwaysInOrder` | `OrderKept` |
| `NumbersFromAbove` | `IdNeverBelow` |
| `Implements` | `Subscriptions` implements `SubscriptionList` |

The properties speak of the table between calls, so its `IInv` has to say what holds in
the middle of the loop: the slots `1..len` are full, and they are strictly ordered but
for one pair, the entry copied last and the slot it came from (`Copied`). That an append
always finds room follows from `Placed`: a position is at most the number that was
issued for its entry, and that is at most the entry's place in the order of all
subscriptions. For the refinement, the conversion to `size_t` must send negative numbers
beyond every position (`SizeAssumption`), which makes them take out the last entry.

`DispatchProofs` proves the five invariants of `Dispatch`, whether the volume module is
loaded or not: `TypeCorrect`, `DocumentedServed`, `OnlyConvertibleServed`,
`EarlyLeaveNothing`, `TwinsAlike`. The inductive part is small: a call that is over left
as the method table says (`Settled`). The work is in the theorem `Ways`, which reduces the table to
ten rows and says of each row which calls it lets through (`Reaches`), and turns away
without a trace; each theorem compares that with the documentation row by row.

`VolumeProofs` has, for every operation of `Volume` and any widths that satisfy
`VolumeAssumption`, what its outcomes are like: a `pa_cvolume` again, written as far as
it counts (`Sound`), loud only where it was or where a negative number was stored, on the
channels there were. `ObjectsProofs` proves from it, for any programs and infos that
satisfy `ObjectsAssumption`, any number of objects, and `PropListAssumption`:

| theorem | statement |
|---|---|
| `TypeCorrect` | `TypeOK` |
| `NothingUnwritten` | `Initialised` |
| `LoudWasNegative` | `NegativesOnly` |
| `OwnedWhileThere` | `ListsOwned` |
| `OwnNumberReaches` | `NumbersReach` |
| `CarefulNeverEnds` | `CarefulIsSafe` |
| `AreValues` | `Objects` implements `Values` |

Its `IInv` is in parts again. `VolumesSound` says of every volume that the channels that
count are written, and loud only for a reason. `Unborn` and `Blank` say that numbers not
given out, and objects that are not Volumes or lists, have no value, without which an
object could be born with one. `Waiting` says that what is queued is finalizable, out of
reach and not gone. `Kept` is the heart of `CarefulIsSafe`: that no Context outlives its
loop is not inductive, since it depends on finalizers still to come. In a careful program
every Context there is has a loop that is older, is in reach until the Context is queued,
and waits in no earlier batch (`LoopOutlasts`). Nothing is asked of the cycle in which the
Context is queued, so it does not matter what was marked. At `lua_close` both may be
queued in one batch; since a batch is finalized newest first and batches
in turn, the Context comes first. `Shown` says that what a table shows for an index is
that index and one, or the reference itself, so that the request one step later subtracts
to the object. For the steps there are three kinds that cover most
actions, `Birth` (objects are made, nothing else changes), `Use` (one object changes) and
`Letting` (objects get out of reach or are queued, in order);
every action is shown to be of a kind, and each kind keeps `IInv`; the
finalizers are done one by one. `AreValues` maps a volume to its channels that count and
a list to its text; it needs `VolumesSound`, because `Values` knows no garbage.

Only model-checked: liveness (`CallsConclude`, `ConnectConcludes`), which is out of the
prover's reach; what of it is safety is `WaitersAreServed`, and proved. Every invariant, every
action property and every refinement that a run checks is also proved.

## 6. What is not modelled

* Event delivery. `context_event_callback` is set, but nothing calls
  `pa_context_subscribe`, so libpulse never runs it. If it did, it would call the table
  that `context_new` puts at index 1 of the event thread.
* Queries that only compute a number or a text: `Volume` `avg`, `min`, `max`, `is_*`,
  `#`, `==`, `tostring`; `PropList` `#`, `==`, `tostring`, `is_key_valid`; `get_state`;
  and the conversions between volumes, dB and linear factors, which are arithmetic in
  floating point inside libpulse.
* What cannot be called: `Volume:set_channels` is in no method table, and the methods of
  PropLists in `proplist_f` are hidden, because `proplist_mt` overwrites the `__index`
  that holds them.
* Fields of infos that are copied as they are, ports, channel maps, sample specs, the
  server info; their leaks are like that of the lists that are modelled.
* Failure of `malloc`, and the build.
* One Context with its calls, together with other objects: `Context` and `Objects` stay
  apart, and of other Contexts `Context` knows only what they do in the registry. Two
  Contexts on one main loop whose callbacks nest, the inner called by libpulse while the
  outer runs, come down to `Idle`: each is told of its own `connect` and `disconnect` at
  once and of everything else by the loop. In `Objects` a Context whose loop is gone may fault or not at every
  use; which functions of libpulse survive it is libpulse's business. What a listener
  does when `lua_close` finalizes its Context is left to `Context`.

What is left to do: runs for the disagreements of section 3 that have none, and proofs
that carry the liveness properties further than `WaitersAreServed` does.
