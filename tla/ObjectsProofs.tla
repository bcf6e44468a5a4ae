--------------------------- MODULE ObjectsProofs ---------------------------
(***************************************************************************)
(* Proofs about userdata and their collection, for any number of objects,  *)
(* any programs and any server.                                            *)
(*                                                                         *)
(* The steps fall into four groups.  Those that make objects leave the     *)
(* others alone (Birth), those that use objects neither make nor end any   *)
(* (Use), and those that put objects out of reach keep the order in which  *)
(* loops and their Contexts wait (Letting); what is inductive is shown     *)
(* once for each of these groups, and every action to belong to one.  The  *)
(* finalizers are taken one by one.                                        *)
(***************************************************************************)
EXTENDS Objects, VolumeProofs, SequenceTheorems

\* The words a negative number turns into.
Loud == {uint32_t(n) : n \in {m \in program.levels : m < 0}}

\* Every volume, those of objects that are not one too, is written as far as it counts.
VolumesSound == \A x \in Object : Sound(cvol[x], Loud)

\* Numbers that were not used yet.
Unborn ==
    \A x \in Object : x > made =>
        kind[x] = "none" /\ own[x] = "none" /\ source[x] = "none" /\ batch[x] = 0

\* Objects have no value but that of their kind.
Blank ==
    \A x \in Object :
        /\ kind[x] \notin {"volume", "opaque"} => cvol[x] = Unwritten
        /\ kind[x] # "list" => content[x] = Empty

\* What waits for its finalizer is out of reach, and there.
Waiting ==
    /\ \A x \in Object : batch[x] # 0 => kind[x] \in Finalizable /\ x \notin held \cup gone
    /\ held \cap gone = {}

(***************************************************************************)
(* The argument for careful programs.  The loop of a Context is the older  *)
(* object, in reach until the Context waits for its finalizer, and then in *)
(* no earlier batch: so it is the last of the two to be finalized.         *)
(***************************************************************************)
InOrder(c) ==
    /\ home[c] \notin held => batch[c] # 0
    /\ batch[home[c]] # 0 => batch[c] # 0 /\ batch[c] <= batch[home[c]]

LoopOutlasts(c) ==
    /\ home[c] \in 1..(c - 1) /\ kind[home[c]] = "pulseaudio"
    /\ home[c] \notin gone
    /\ InOrder(c)

Kept ==
    careful =>
        /\ fate = "running"
        /\ \A c \in Object : kind[c] = "context" /\ c \notin gone => LoopOutlasts(c)

\* The info the program has last seen.
Shown ==
    out.what = "told" =>
        \E i \in 0..(PA_INVALID_INDEX - 1), r \in 0..PA_INVALID_INDEX :
            /\ out.meant = [index |-> i, reference |-> r]
            /\ out.shown = [index |-> i + 1, reference |-> r]

Durable == TypeOK /\ VolumesSound /\ Unborn /\ Blank /\ ListsOwned /\ Waiting /\ Kept

IInv == Durable /\ Shown /\ NumbersReach

-----------------------------------------------------------------------------
\* What the type invariant says, one element at a time.
LEMMA Typed ==
    ASSUME TypeOK
    PROVE  /\ Limit \in Nat /\ made \in Nat /\ made <= Limit
           /\ \A x \in Object : /\ x \in Nat /\ kind[x] \in Kinds
                                /\ home[x] \in Nat /\ batch[x] \in 0..Limit
                                /\ cvol[x] \in CVolume /\ content[x] \in Content
           /\ held \subseteq Object /\ gone \subseteq Object
<1>1. Limit \in Nat /\ made \in 0..Limit
  BY PropListAssumption DEF TypeOK
<1>2. \A x \in Object : /\ kind[x] \in Kinds /\ home[x] \in 0..Limit /\ batch[x] \in 0..Limit
                        /\ cvol[x] \in CVolume /\ content[x] \in Content
  BY DEF TypeOK, PropListTypeOK
<1>3. held \subseteq 1..made /\ gone \subseteq 1..made
  BY DEF TypeOK
<1> QED
  BY <1>1, <1>2, <1>3 DEF Object

-----------------------------------------------------------------------------
\* Steps that make objects

Born == (made + 1)..made'

\* The objects that were there stay as they are.
Birth ==
    /\ made' \in made..Limit
    /\ loaded' \in BOOLEAN /\ UNCHANGED <<program, marked, batch, closed, careful, fate>>
    /\ kind' \in [Object -> Kinds] /\ home' \in [Object -> 0..Limit]
    /\ cvol' \in [Object -> CVolume] /\ PropListTypeOK'
    /\ \A x \in Object \ Born :
        /\ kind'[x] = kind[x] /\ home'[x] = home[x] /\ cvol'[x] = cvol[x]
        /\ source'[x] = source[x] /\ own'[x] = own[x] /\ content'[x] = content[x]
    /\ held \subseteq held' /\ held' \subseteq held \cup Born
    /\ gone \subseteq gone' /\ gone' \subseteq gone \cup Born
    /\ \A x \in Born :
        /\ Sound(cvol'[x], Loud)
        /\ kind'[x] = "list" => own'[x] = "live" /\ source'[x] = "live"
        /\ kind'[x] # "list" => own'[x] = own[x] /\ content'[x] = content[x]
        /\ kind'[x] \notin {"volume", "opaque"} => cvol'[x] = cvol[x]
        /\ kind'[x] = "context" => home'[x] \in held /\ kind[home'[x]] = "pulseaudio"
        /\ x \in gone' => x \notin held' /\ kind'[x] = "opaque"
    /\ out'.what \notin {"answer", "asked"}

\* What is inductive, apart from Shown, survives.
LEMMA BirthKeeps ==
    ASSUME IInv, Birth
    PROVE  Durable'
<1> USE Typed DEF IInv, Durable
<1>1. /\ made' \in 0..Limit /\ made' \in Nat /\ made <= made'
      /\ 1..made' = (1..made) \cup Born
  BY DEF Birth, Born
<1>2. Born \subseteq Object /\ \A x \in Born : x > made
  BY <1>1 DEF Born, Object
<1>3. held \subseteq 1..made /\ gone \subseteq 1..made
  BY DEF TypeOK
<1>4. \A x \in Born : kind[x] = "none" /\ own[x] = "none" /\ batch[x] = 0 /\ x \notin held \cup gone
  BY <1>1, <1>2, <1>3 DEF Unborn
<1>5. TypeOK'
  <2>1. held' \subseteq 1..made' /\ gone' \subseteq 1..made'
    BY <1>1, <1>3 DEF Birth
  <2>2. /\ loaded' \in BOOLEAN /\ program' \in Programs /\ batch' \in [Object -> 0..Limit]
        /\ marked' \subseteq 1..made' /\ closed' \in BOOLEAN
        /\ careful' \in BOOLEAN /\ fate' \in {"running", "fault", "abort"}
    BY <1>1 DEF Birth, TypeOK
  <2>3. kind' \in [Object -> Kinds] /\ home' \in [Object -> 0..Limit]
        /\ cvol' \in [Object -> CVolume] /\ PropListTypeOK'
    BY DEF Birth
  <2> QED
    BY <1>1, <2>1, <2>2, <2>3 DEF TypeOK
<1>6. VolumesSound'
  <2>1. Loud' = Loud
    BY DEF Birth, Loud
  <2> QED
    BY <2>1 DEF Birth, VolumesSound
<1>7. Unborn'
  <2>1. \A x \in Object : x > made' => x \notin Born /\ x > made
    BY <1>1 DEF Born, Object
  <2> QED
    BY <2>1 DEF Birth, Unborn
<1>8. ListsOwned'
  BY <1>3, <1>4 DEF Birth, ListsOwned
<1>9. Waiting'
  BY <1>4 DEF Birth, Waiting
<1>10. Kept'
  <2> SUFFICES ASSUME careful', NEW c \in Object, kind'[c] = "context", c \notin gone'
               PROVE  LoopOutlasts(c)'
    BY DEF Birth, Kept
  <2>1. CASE c \in Born
    <3>1. home'[c] \in held /\ kind[home'[c]] = "pulseaudio"
      BY <2>1 DEF Birth
    <3>2. home'[c] \in 1..made /\ home'[c] \in Object \ Born /\ home'[c] \notin gone
      BY <1>3, <1>4, <3>1 DEF Waiting
    <3>3. kind'[home'[c]] = "pulseaudio" /\ home'[c] \notin gone' /\ home'[c] \in held'
      BY <3>1, <3>2 DEF Birth
    <3>4. batch'[home'[c]] = 0
      BY <3>1, <3>2 DEF Birth, Waiting
    <3>5. home'[c] \in 1..(c - 1)
      BY <1>2, <2>1, <3>2
    <3> QED
      BY <3>3, <3>4, <3>5 DEF LoopOutlasts, InOrder
  <2>2. CASE c \notin Born
    <3>1. kind[c] = "context" /\ c \notin gone /\ careful /\ home'[c] = home[c]
      BY <2>2 DEF Birth
    <3>2. LoopOutlasts(c)
      BY <3>1 DEF Kept
    <3>3. home[c] \in Object /\ home[c] \notin Born
      BY <1>4, <3>2 DEF LoopOutlasts, Object
    <3>4. kind'[home[c]] = "pulseaudio" /\ home[c] \notin gone'
      BY <3>2, <3>3 DEF Birth, LoopOutlasts
    <3>5. home[c] \notin held' => batch'[c] # 0
      BY <3>2 DEF Birth, LoopOutlasts, InOrder
    <3> QED
      BY <3>1, <3>2, <3>4, <3>5 DEF Birth, LoopOutlasts, InOrder
  <2> QED
    BY <2>1, <2>2
<1>11. Blank'
  <2>1. \A x \in Born : kind[x] = "none"
    BY <1>4
  <2> QED
    BY <1>2, <2>1 DEF Birth, Blank
<1> QED
  BY <1>5, <1>6, <1>7, <1>8, <1>9, <1>10, <1>11
-----------------------------------------------------------------------------
\* Every action that makes objects is a Birth.

\* Making one object.
LEMMA CreateOne ==
    ASSUME IInv, NEW k \in Kinds \ {"none"}, Create(<<k>>)
    PROVE  /\ made' = made + 1 /\ made' \in made..Limit /\ made + 1 \in Object /\ Born = {made + 1}
           /\ loaded' \in BOOLEAN /\ UNCHANGED <<program, marked, batch, closed, careful, fate>>
           /\ kind' \in [Object -> Kinds]
           /\ \A x \in Object : kind'[x] = IF x = made + 1 THEN k ELSE kind[x]
<1>1. Len(<<k>>) = 1 /\ <<k>>[1] = k
  OBVIOUS
<1>2. made' = made + 1 /\ made + 1 <= Limit /\ UNCHANGED <<loaded, program, marked, batch, closed, careful, fate>>
  BY <1>1 DEF Create, Within
<1>3. made \in Nat /\ Limit \in Nat
  BY Typed DEF IInv, Durable
<1>4. made + 1 \in Object /\ Fresh(<<k>>) = {made + 1} /\ Born = {made + 1}
  BY <1>1, <1>2, <1>3 DEF Object, Fresh, Born
<1>5. kind' = [x \in Object |-> IF x \in Fresh(<<k>>) THEN <<k>>[x - made] ELSE kind[x]]
  BY DEF Create
<1>6. kind' = [x \in Object |-> IF x = made + 1 THEN k ELSE kind[x]]
  <2>1. \A x \in Object : x \in Fresh(<<k>>) => <<k>>[x - made] = k
    BY <1>1, <1>3, <1>4
  <2> QED
    BY <1>4, <1>5, <2>1
<1>7. kind \in [Object -> Kinds] /\ loaded \in BOOLEAN
  BY DEF IInv, Durable, TypeOK
<1>8. kind' \in [Object -> Kinds] /\ \A x \in Object : kind'[x] = IF x = made + 1 THEN k ELSE kind[x]
  BY <1>6, <1>7
<1>9. made' \in made..Limit
  BY <1>2, <1>3
<1> QED
  BY <1>2, <1>4, <1>7, <1>8, <1>9

\* What no step that makes an object does to the others.
LEMMA Untouched ==
    ASSUME IInv
    PROVE  /\ home \in [Object -> 0..Limit] /\ cvol \in [Object -> CVolume] /\ PropListTypeOK
           /\ source \in [Object -> {"none", "live", "freed"}]
           /\ own \in [Object -> {"none", "live", "freed"}]
           /\ content \in [Object -> Content]
           /\ \A x \in Object : Sound(cvol[x], Loud)
BY DEF IInv, Durable, TypeOK, PropListTypeOK, VolumesSound

(***************************************************************************)
(* What Create does for one object makes a birth of it, whatever the       *)
(* action adds about the object itself.                                    *)
(***************************************************************************)
LEMMA BirthOfOne ==
    ASSUME IInv, NEW k \in Kinds \ {"none"}, Create(<<k>>),
           home' \in [Object -> 0..Limit], cvol' \in [Object -> CVolume], PropListTypeOK',
           \A x \in Object : x # made + 1 =>
                /\ home'[x] = home[x] /\ cvol'[x] = cvol[x]
                /\ source'[x] = source[x] /\ own'[x] = own[x] /\ content'[x] = content[x],
           Sound(cvol'[made + 1], Loud),
           k = "list" => own'[made + 1] = "live" /\ source'[made + 1] = "live",
           k # "list" => UNCHANGED <<own, content>>,
           k \notin {"volume", "opaque"} => cvol' = cvol,
           k = "context" => home'[made + 1] \in held /\ kind[home'[made + 1]] = "pulseaudio",
           \/ held' = held \cup {made + 1} /\ gone' = gone
           \/ held' = held /\ gone' = gone /\ k # "opaque"
           \/ held' = held /\ gone' = gone \cup {made + 1} /\ k = "opaque",
           out'.what \notin {"answer", "asked"}
    PROVE  Birth
<1>1. /\ made' \in made..Limit /\ made + 1 \in Object /\ Born = {made + 1}
      /\ loaded' \in BOOLEAN /\ UNCHANGED <<program, marked, batch, closed, careful, fate>>
      /\ kind' \in [Object -> Kinds]
      /\ \A x \in Object : kind'[x] = IF x = made + 1 THEN k ELSE kind[x]
  BY CreateOne
<1>2. \A x \in Object \ Born :
        /\ kind'[x] = kind[x] /\ home'[x] = home[x] /\ cvol'[x] = cvol[x]
        /\ source'[x] = source[x] /\ own'[x] = own[x] /\ content'[x] = content[x]
  BY <1>1
<1>3. /\ held \subseteq held' /\ held' \subseteq held \cup Born
      /\ gone \subseteq gone' /\ gone' \subseteq gone \cup Born
  BY <1>1
<1>4. made + 1 \notin held \cup gone
  BY Typed DEF IInv, Durable, TypeOK
<1>5. \A x \in Born :
        /\ Sound(cvol'[x], Loud)
        /\ kind'[x] = "list" => own'[x] = "live" /\ source'[x] = "live"
        /\ kind'[x] # "list" => own'[x] = own[x] /\ content'[x] = content[x]
        /\ kind'[x] \notin {"volume", "opaque"} => cvol'[x] = cvol[x]
        /\ kind'[x] = "context" => home'[x] \in held /\ kind[home'[x]] = "pulseaudio"
        /\ x \in gone' => x \notin held' /\ kind'[x] = "opaque"
  BY <1>1, <1>4
<1> QED
  BY <1>1, <1>2, <1>3, <1>5 DEF Birth

(***************************************************************************)
(* PulseAudio() is a birth.                                                *)
(***************************************************************************)
LEMMA PulseAudioIsBirth ==
    ASSUME IInv, pulseaudio_new
    PROVE  Birth
<1>1. Create(<<"pulseaudio">>) /\ "pulseaudio" \in Kinds \ {"none"}
  BY DEF pulseaudio_new, Kinds
<1>2. made + 1 \in Object
  BY <1>1, CreateOne
<1>3. UNCHANGED <<cvol, home, gone, source, own, content>> /\ held' = held \cup {made + 1} /\ out' = Nothing
  BY DEF pulseaudio_new, propListVars
<1>4. home' \in [Object -> 0..Limit] /\ cvol' \in [Object -> CVolume] /\ PropListTypeOK'
  BY <1>3, Untouched DEF PropListTypeOK
<1>5. Sound(cvol'[made + 1], Loud) /\ out'.what = "nothing"
  BY <1>2, <1>3, Untouched DEF Nothing
<1> QED
  BY <1>1, <1>3, <1>4, <1>5, BirthOfOne

(***************************************************************************)
(* PulseAudio:context() is a birth, of a Context younger than its loop.    *)
(***************************************************************************)
LEMMA ContextIsBirth ==
    ASSUME IInv, NEW p, pulseaudio_new_context(p)
    PROVE  Birth
<1>1. Create(<<"context">>) /\ "context" \in Kinds \ {"none"}
  BY DEF pulseaudio_new_context, Kinds
<1>2. made + 1 \in Object
  BY <1>1, CreateOne
<1>3. /\ UNCHANGED <<cvol, gone, source, own, content>> /\ held' = held \cup {made + 1} /\ out' = Nothing
      /\ home' = [home EXCEPT ![made + 1] = p] /\ p \in held /\ kind[p] = "pulseaudio"
  BY DEF pulseaudio_new_context, propListVars
<1>4. p \in 0..Limit
  BY <1>3, Typed DEF IInv, Durable, Object
<1>5. home' \in [Object -> 0..Limit] /\ \A x \in Object : home'[x] = IF x = made + 1 THEN p ELSE home[x]
  BY <1>3, <1>4, Untouched
<1>6. cvol' \in [Object -> CVolume] /\ PropListTypeOK'
  BY <1>3, Untouched DEF PropListTypeOK
<1>7. Sound(cvol'[made + 1], Loud) /\ out'.what = "nothing"
  BY <1>2, <1>3, Untouched DEF Nothing
<1> QED
  BY <1>1, <1>2, <1>3, <1>5, <1>6, <1>7, BirthOfOne

(***************************************************************************)
(* A table of no numbers gives birth to memory that nobody reaches.        *)
(***************************************************************************)
LEMMA RaisingIsBirth ==
    ASSUME IInv, NEW t, volume_from_lua_raises(t)
    PROVE  Birth
<1>1. Create(<<"lost">>) /\ "lost" \in Kinds \ {"none"}
  BY DEF volume_from_lua_raises, Kinds
<1>2. made + 1 \in Object
  BY <1>1, CreateOne
<1>3. /\ UNCHANGED <<cvol, home, held, gone, own, content>> /\ out' = Nothing
      /\ source' = [source EXCEPT ![made + 1] = "live"]
  BY DEF volume_from_lua_raises
<1>4. home' \in [Object -> 0..Limit] /\ cvol' \in [Object -> CVolume]
  BY <1>3, Untouched
<1>5. PropListTypeOK' /\ \A x \in Object : x # made + 1 => source'[x] = source[x]
  BY <1>3, Untouched DEF PropListTypeOK
<1>6. Sound(cvol'[made + 1], Loud) /\ out'.what = "nothing"
  BY <1>2, <1>3, Untouched DEF Nothing
<1> QED
  BY <1>1, <1>3, <1>4, <1>5, <1>6, BirthOfOne

\* A Volume of its own, or an opaque one.
LEMMA VolumeKinds == VolumeKind \in {"volume", "opaque"} /\ VolumeKind \in Kinds \ {"none"}
BY DEF VolumeKind, Kinds

(***************************************************************************)
(* Volume() of a table is a birth, of a Volume that is written as far as   *)
(* it counts.                                                              *)
(***************************************************************************)
LEMMA VolumeNewIsBirth ==
    ASSUME IInv, NEW t \in program.tables, volume_new(t)
    PROVE  Birth
<1>1. Create(<<"volume">>) /\ "volume" \in Kinds \ {"none"}
  BY DEF volume_new, Kinds
<1>2. made + 1 \in Object
  BY <1>1, CreateOne
<1>3. /\ UNCHANGED <<home, gone, own, content>> /\ held' = held \cup {made + 1} /\ out' = Nothing
      /\ cvol' = [cvol EXCEPT ![made + 1] = volume_from_lua(t)]
      /\ source' = [source EXCEPT ![made + 1] = "live"]
  BY DEF volume_new
<1>4. Sound(volume_from_lua(t), Loud)
  <2>1. t \in Seq(Int \cup Text)
    BY ObjectsAssumption DEF IInv, Durable, TypeOK
  <2> QED
    BY <2>1, TableIsSound DEF volume_new
<1>5. cvol' \in [Object -> CVolume] /\ \A x \in Object :
        cvol'[x] = IF x = made + 1 THEN volume_from_lua(t) ELSE cvol[x]
  BY <1>3, <1>4, Untouched DEF Sound
<1>6. PropListTypeOK' /\ \A x \in Object : x # made + 1 => source'[x] = source[x]
  BY <1>3, Untouched DEF PropListTypeOK
<1>7. Sound(cvol'[made + 1], Loud) /\ out'.what = "nothing" /\ home' \in [Object -> 0..Limit]
  BY <1>2, <1>3, <1>4, <1>5, Untouched DEF Nothing
<1> QED
  BY <1>1, <1>3, <1>5, <1>6, <1>7, BirthOfOne

(***************************************************************************)
(* Volume() of a Volume is a birth.                                        *)
(***************************************************************************)
LEMMA CopyIsBirth ==
    ASSUME IInv, NEW y \in held, volume_copy(y)
    PROVE  Birth
<1>1. Create(<<"volume">>) /\ "volume" \in Kinds \ {"none"}
  BY DEF volume_copy, Kinds
<1>2. made + 1 \in Object /\ y \in Object
  BY <1>1, CreateOne, Typed DEF IInv, Durable
<1>3. /\ UNCHANGED <<home, gone, source, own, content>> /\ held' = held \cup {made + 1} /\ out' = Nothing
      /\ cvol' = [cvol EXCEPT ![made + 1] = cvol[y]]
  BY DEF volume_copy, propListVars
<1>4. cvol' \in [Object -> CVolume] /\ \A x \in Object : cvol'[x] = IF x = made + 1 THEN cvol[y] ELSE cvol[x]
  BY <1>2, <1>3, Untouched
<1>5. PropListTypeOK' /\ home' \in [Object -> 0..Limit]
  BY <1>3, Untouched DEF PropListTypeOK
<1>6. Sound(cvol'[made + 1], Loud) /\ out'.what = "nothing"
  BY <1>2, <1>3, <1>4, Untouched DEF Nothing
<1> QED
  BY <1>1, <1>3, <1>4, <1>5, <1>6, BirthOfOne

(***************************************************************************)
(* Setting a volume from a table is a birth, whether or not the Volume is  *)
(* recognised.                                                             *)
(***************************************************************************)
LEMMA SetVolumeIsBirth ==
    ASSUME IInv, NEW t \in program.tables, set_volume_table(t)
    PROVE  Birth
<1>1. Create(<<VolumeKind>>) /\ VolumeKind \in Kinds \ {"none"}
  BY VolumeKinds DEF set_volume_table
<1>2. made + 1 \in Object
  BY <1>1, CreateOne
<1>3. UNCHANGED <<home, own, content>> /\ source' = [source EXCEPT ![made + 1] = "freed"]
  BY DEF set_volume_table
<1>4. PropListTypeOK' /\ home' \in [Object -> 0..Limit] /\ \A x \in Object : x # made + 1 => source'[x] = source[x]
  BY <1>3, Untouched DEF PropListTypeOK
<1>5. VolumeKind # "list" /\ VolumeKind # "context"
  BY VolumeKinds
<1>6. CASE loaded
  <2>1. /\ held' = held \cup {made + 1} /\ gone' = gone
        /\ cvol' = [cvol EXCEPT ![made + 1] = volume_from_lua(t)]
        /\ out' = Nothing /\ VolumeKind = "volume"
    BY <1>6 DEF set_volume_table, VolumeKind
  <2>2. Sound(volume_from_lua(t), Loud)
    <3>1. t \in Seq(Int \cup Text)
      BY ObjectsAssumption DEF IInv, Durable, TypeOK
    <3> QED
      BY <3>1, TableIsSound DEF set_volume_table
  <2>3. cvol' \in [Object -> CVolume] /\ \A x \in Object :
          cvol'[x] = IF x = made + 1 THEN volume_from_lua(t) ELSE cvol[x]
    BY <2>1, <2>2, Untouched DEF Sound
  <2>4. Sound(cvol'[made + 1], Loud) /\ out'.what = "nothing"
    BY <1>2, <2>1, <2>2, <2>3 DEF Nothing
  <2> QED
    BY <1>1, <1>3, <1>4, <1>5, <2>1, <2>3, <2>4, BirthOfOne
<1>7. CASE ~loaded
  <2>1. held' = held /\ gone' = gone \cup {made + 1} /\ cvol' = cvol /\ out' = Nothing /\ VolumeKind = "opaque"
    BY <1>7 DEF set_volume_table, VolumeKind
  <2>2. Sound(cvol'[made + 1], Loud) /\ out'.what = "nothing" /\ cvol' \in [Object -> CVolume]
    BY <1>2, <2>1, Untouched DEF Nothing
  <2> QED
    BY <1>1, <1>3, <1>4, <1>5, <2>1, <2>2, BirthOfOne
<1> QED
  BY <1>6, <1>7

\* What a new PropList says is text, or nothing, or what the server sent.
LEMMA ListIsBirth ==
    ASSUME IInv, NEW c \in Content, Create(<<"list">>), proplist_to_lua({made + 1}, c),
           held' = held \cup {made + 1}, out' = Nothing, UNCHANGED <<cvol, home, gone>>
    PROVE  Birth
<1>1. "list" \in Kinds \ {"none"}
  BY DEF Kinds
<1>2. made + 1 \in Object
  BY <1>1, CreateOne
<1>3. /\ source' = [x \in Object |-> IF x \in {made + 1} THEN "live" ELSE source[x]]
      /\ own' = [x \in Object |-> IF x \in {made + 1} THEN "live" ELSE own[x]]
      /\ content' = [x \in Object |-> IF x \in {made + 1} THEN c ELSE content[x]]
  BY DEF proplist_to_lua
<1>4. PropListTypeOK'
  BY <1>3, Untouched DEF PropListTypeOK
<1>5. \A x \in Object : x # made + 1 => source'[x] = source[x] /\ own'[x] = own[x] /\ content'[x] = content[x]
  BY <1>3
<1>6. own'[made + 1] = "live" /\ source'[made + 1] = "live"
  BY <1>2, <1>3
<1>7. cvol' \in [Object -> CVolume] /\ home' \in [Object -> 0..Limit]
      /\ Sound(cvol'[made + 1], Loud) /\ out'.what = "nothing"
  BY <1>2, Untouched DEF Nothing
<1> QED
  BY <1>1, <1>4, <1>5, <1>6, <1>7, BirthOfOne

\* The tables a conversion can give.
TablesOf(info) ==
    {sink_info_to_lua(info), source_info_to_lua(info),
     sink_input_info_to_lua(info), source_output_info_to_lua(info)}

\* Volumes and PropLists are the userdata in a table.
LEMMA TablesHold ==
    ASSUME NEW info \in Info, NEW converted \in TablesOf(info)
    PROVE  converted.makes \in Seq({"volume", "list"})
<1>1. info.formats \in Nat
  BY ObjectsAssumption
<1>2. formats_to_lua(info.formats) \in Seq({"volume", "list"})
  BY <1>1 DEF formats_to_lua
<1>3. <<"volume", "list">> \in Seq({"volume", "list"}) /\ <<"list", "list">> \in Seq({"volume", "list"})
      /\ <<"volume">> \in Seq({"volume", "list"}) /\ << >> \in Seq({"volume", "list"})
  OBVIOUS
<1>4. <<"volume", "list">> \o formats_to_lua(info.formats) \in Seq({"volume", "list"})
  BY <1>2, <1>3
<1>5. << >> \o <<"list", "list">> \in Seq({"volume", "list"})
      /\ <<"volume">> \o <<"list", "list">> \in Seq({"volume", "list"})
  BY <1>3, ConcatProperties
<1>6. StreamUserdata(info) \in Seq({"volume", "list"})
  <2>1. \/ StreamUserdata(info) = << >> \o <<"list", "list">>
        \/ StreamUserdata(info) = <<"volume">> \o <<"list", "list">>
    BY Zenon DEF StreamUserdata
  <2> QED
    BY <1>5, <2>1, Zenon
<1> DEFINE device == <<"volume", "list">> \o formats_to_lua(info.formats)
           stream == StreamUserdata(info)
           number == uint32_t(info.index + 1)
<1>7. TablesOf(info) = {Converted(device, number, info.reference), Converted(stream, number, info.reference)}
  BY Zenon DEF TablesOf, sink_info_to_lua, source_info_to_lua, sink_input_info_to_lua, source_output_info_to_lua
<1>8. device \in Seq({"volume", "list"}) /\ stream \in Seq({"volume", "list"})
  BY <1>4, <1>6
<1> HIDE DEF device, stream, number
<1> QED
  BY <1>7, <1>8 DEF Converted

\* What a server's volume is, it is allowed to be.
LEMMA ServerVolumeSound ==
    ASSUME NEW v \in ServerVolume
    PROVE  Sound(v, Loud)
BY ObjectsAssumption DEF Sound

(***************************************************************************)
(* An answer of the server is a birth of all the userdata in its table.    *)
(***************************************************************************)
LEMMA ArriveIsBirth ==
    ASSUME IInv, NEW info \in Info, NEW converted \in TablesOf(info),
           NEW v \in ServerVolume, NEW c \in Content, Arrive(info, converted, v, c)
    PROVE  Birth
<1> DEFINE kinds == [i \in DOMAIN converted.makes |->
                        IF converted.makes[i] = "volume" THEN VolumeKind ELSE converted.makes[i]]
           Made(k) == {x \in Fresh(kinds) : converted.makes[x - made] = k}
<1>1. /\ Create(kinds)
      /\ cvol' = [x \in Object |-> IF x \in Made("volume") THEN v ELSE cvol[x]]
      /\ proplist_to_lua(Made("list"), c)
      /\ held' = held \cup Fresh(kinds) /\ gone' = gone /\ home' = home
      /\ out'.what = "told"
  BY DEF Arrive, Told
<1>2. converted.makes \in Seq({"volume", "list"})
  BY TablesHold
<1>3. \A i \in DOMAIN converted.makes :
        /\ kinds[i] \in {"volume", "opaque", "list"}
        /\ kinds[i] = "list" <=> converted.makes[i] = "list"
  BY <1>2, VolumeKinds
<1>4. kinds \in Seq({"volume", "opaque", "list"}) /\ DOMAIN kinds = DOMAIN converted.makes
  <2>1. DOMAIN converted.makes = 1..Len(converted.makes) /\ Len(converted.makes) \in Nat
    BY <1>2
  <2>2. kinds = [i \in 1..Len(converted.makes) |-> kinds[i]]
    BY <2>1
  <2> QED
    <3>1. kinds \in [1..Len(converted.makes) -> {"volume", "opaque", "list"}]
      BY <1>3, <2>1, <2>2
    <3> HIDE DEF kinds
    <3> QED
      BY <2>1, <3>1, SeqDef
<1> HIDE DEF kinds
<1>5. /\ made' = made + Len(kinds) /\ made' <= Limit
      /\ UNCHANGED <<loaded, program, marked, batch, closed, careful, fate>>
      /\ kind' = [x \in Object |-> IF x \in Fresh(kinds) THEN kinds[x - made] ELSE kind[x]]
  BY <1>1 DEF Create, Within
<1>6. made \in Nat /\ Limit \in Nat /\ Len(kinds) \in Nat /\ made' \in made..Limit
  BY <1>4, <1>5, Typed DEF IInv, Durable
<1>7. Fresh(kinds) = Born /\ Born \subseteq Object /\ \A x \in Born : x > made
  BY <1>5, <1>6 DEF Fresh, Born, Object
<1>8. \A x \in Born : x - made \in DOMAIN kinds
  BY <1>4, <1>5, <1>6 DEF Born
<1>9. \A x \in Born : kind'[x] \in {"volume", "opaque", "list"} /\ (kind'[x] = "list" <=> x \in Made("list"))
  BY <1>3, <1>4, <1>5, <1>7, <1>8
<1>22. Made("volume") \cap Made("list") = {}
  OBVIOUS
<1>10. \A x \in Object \ Born : kind'[x] = kind[x]
  BY <1>5, <1>7
<1>11. kind' \in [Object -> Kinds]
  <2>1. \A x \in Object : kind'[x] \in Kinds
    BY <1>9, <1>10, Typed DEF IInv, Durable, Kinds
  <2> QED
    BY <1>5, <2>1
<1> HIDE DEF Made
<1>12. Made("volume") \subseteq Born /\ Made("list") \subseteq Born
  BY <1>7 DEF Made
<1>13. \A x \in Object : Sound(cvol'[x], Loud) /\ cvol'[x] \in CVolume
  BY <1>1, Untouched, ServerVolumeSound DEF Sound
<1>14. cvol' \in [Object -> CVolume] /\ home' \in [Object -> 0..Limit]
  BY <1>1, <1>13, Untouched
<1>15. /\ source' = [x \in Object |-> IF x \in Made("list") THEN "live" ELSE source[x]]
       /\ own' = [x \in Object |-> IF x \in Made("list") THEN "live" ELSE own[x]]
       /\ content' = [x \in Object |-> IF x \in Made("list") THEN c ELSE content[x]]
  BY <1>1 DEF proplist_to_lua
<1>16. PropListTypeOK'
  BY <1>15, Untouched DEF PropListTypeOK
<1>17. \A x \in Object \ Born :
         /\ home'[x] = home[x] /\ cvol'[x] = cvol[x]
         /\ source'[x] = source[x] /\ own'[x] = own[x] /\ content'[x] = content[x]
  BY <1>1, <1>12, <1>15
<1>18. \A x \in Born :
         /\ kind'[x] = "list" => own'[x] = "live" /\ source'[x] = "live"
         /\ kind'[x] # "list" => own'[x] = own[x] /\ content'[x] = content[x]
         /\ kind'[x] \notin {"volume", "opaque"} => cvol'[x] = cvol[x]
  BY <1>1, <1>7, <1>9, <1>15, <1>22
<1>19. \A x \in Born : kind'[x] # "context" /\ x \notin gone'
  BY <1>1, <1>7, <1>9, Typed DEF IInv, Durable, TypeOK
<1>20. loaded' \in BOOLEAN
  BY <1>5 DEF IInv, Durable, TypeOK
<1>21. held \subseteq held' /\ held' \subseteq held \cup Born
  BY <1>1, <1>7
<1> QED
  BY <1>1, <1>5, <1>6, <1>7, <1>10, <1>11, <1>13, <1>14, <1>16, <1>17, <1>18, <1>19, <1>20, <1>21 DEF Birth

-----------------------------------------------------------------------------
\* Steps that use objects

Use ==
    /\ UNCHANGED <<program, made, kind, home, held, marked, batch, gone, closed, source, own>>
    /\ loaded' \in BOOLEAN
    /\ cvol' \in [Object -> CVolume] /\ content' \in [Object -> Content]
    /\ \A x \in Object : Sound(cvol'[x], Loud)
    /\ \A x \in Object : /\ kind[x] # "volume" => cvol'[x] = cvol[x]
                         /\ kind[x] # "list" => content'[x] = content[x]
    /\ careful' \in BOOLEAN /\ fate' \in {"running", "fault", "abort"}
    /\ careful' => careful /\ fate' = "running"

(***************************************************************************)
(* A use of an object keeps the invariant.                                 *)
(***************************************************************************)
LEMMA UseKeeps ==
    ASSUME IInv, Use
    PROVE  Durable'
<1>1. TypeOK'
  BY DEF IInv, Durable, Use, TypeOK, PropListTypeOK
<1>2. Loud' = Loud
  BY DEF Use, Loud
<1>3. VolumesSound'
  BY <1>2 DEF Use, VolumesSound
<1>4. Unborn' /\ ListsOwned' /\ Waiting'
  BY DEF IInv, Durable, Use, Unborn, ListsOwned, Waiting
<1>7. Blank'
  BY DEF IInv, Durable, Use, Blank
<1>5. \A c \in Object : LoopOutlasts(c) => LoopOutlasts(c)'
  BY DEF Use, LoopOutlasts, InOrder
<1>6. Kept'
  BY <1>5 DEF IInv, Durable, Use, Kept
<1> QED
  BY <1>1, <1>3, <1>4, <1>6, <1>7 DEF Durable

\* Steps that change nothing but `out`, and perhaps what modules are loaded.
LEMMA LookingIsUse ==
    ASSUME IInv, fate = "running", loaded' \in BOOLEAN,
           UNCHANGED <<births, cvol, life, propListVars, careful, fate>>
    PROVE  Use
<1>1. UNCHANGED <<program, made, kind, home, cvol, held, marked, batch, gone, closed, source, own, content, careful, fate>>
  BY DEF births, life, propListVars
<1>2. careful \in BOOLEAN /\ fate \in {"running", "fault", "abort"}
  BY DEF IInv, Durable, TypeOK
<1> QED
  BY <1>1, <1>2, Untouched DEF Use

\* A Context the program reaches has lost its loop: the program was not careful.
LEMMA AdriftIsUse ==
    ASSUME IInv, NEW c, UseAdrift(c)
    PROVE  Use
<1>1. /\ UNCHANGED <<loaded, program, made, kind, home, cvol, held, marked, batch, gone, closed, source, own, content, careful>>
      /\ c \in held /\ kind[c] = "context" /\ home[c] \in gone /\ fate' \in {"running", "fault"}
  BY DEF UseAdrift, births, life, propListVars
<1>2. c \in Object /\ c \notin gone
  BY <1>1, Typed DEF IInv, Durable, Waiting
<1>3. ~careful
  BY <1>1, <1>2 DEF IInv, Durable, Kept, LoopOutlasts
<1>4. careful \in BOOLEAN /\ loaded \in BOOLEAN
  BY DEF IInv, Durable, TypeOK
<1> QED
  BY <1>1, <1>3, <1>4, Untouched DEF Use

\* The numbers a program passes.
LEMMA NumbersPassed ==
    ASSUME IInv
    PROVE  program.levels \subseteq Int /\ program.positions \subseteq Int
BY ObjectsAssumption DEF IInv, Durable, TypeOK

\* What a call leaves in a Volume.
LEMMA CallIsUse ==
    ASSUME IInv, fate = "running", NEW x \in held, NEW outcomes, Call(x, outcomes),
           \A o \in outcomes : Sound(o.cvol, Loud) /\ o.fate \in {"running", "fault", "abort"},
           careful' \in BOOLEAN,
           careful' => careful /\ \A o \in outcomes : o.fate = "running"
    PROVE  Use
<1>1. PICK o \in outcomes : cvol' = [cvol EXCEPT ![x] = o.cvol] /\ fate' = o.fate
  BY DEF Call
<1>2. UNCHANGED <<loaded, program, made, kind, home, held, marked, batch, gone, closed, source, own, content>>
  BY DEF Call, births, life, propListVars
<1>3. Sound(o.cvol, Loud) /\ o.cvol \in CVolume
  BY DEF Sound
<1>4. cvol' \in [Object -> CVolume] /\ \A y \in Object : cvol'[y] = IF y = x THEN o.cvol ELSE cvol[y]
  BY <1>1, <1>3, Untouched
<1>5. \A y \in Object : Sound(cvol'[y], Loud)
  BY <1>3, <1>4, Untouched
<1>6. loaded \in BOOLEAN /\ kind[x] = "volume"
  BY DEF IInv, Durable, TypeOK, Call
<1> QED
  BY <1>1, <1>2, <1>4, <1>5, <1>6, Untouched DEF Use

\* A negative number leaves its word in the volume; a number that passes the test otherwise
\* is no louder than can be.
LEMMA LevelIsKnown ==
    ASSUME IInv, NEW n \in program.levels, PA_VOLUME_IS_VALID(n)
    PROVE  uint32_t(n) \in Word /\ uint32_t(n) \in (0..PA_VOLUME_MAX) \cup Loud
<1>1. n \in Int
  BY NumbersPassed
<1>2. CASE n < 0
  BY <1>1, <1>2, CastGivesWord DEF Loud
<1>3. CASE ~(n < 0)
  <2>1. n \in 0..PA_VOLUME_MAX
    BY <1>1, <1>3, Ranges DEF PA_VOLUME_IS_VALID
  <2> QED
    BY <2>1, CastKeeps, Ranges
<1> QED
  BY <1>2, <1>3

(***************************************************************************)
(* Setting a channel is a use, if its outcomes are sound.                  *)
(***************************************************************************)
LEMMA StoreIsUse ==
    ASSUME IInv, fate = "running", NEW x \in held, NEW index \in program.positions, NEW n \in program.levels,
           \/ Store(x, index, volume_set(cvol[x], index, n))
           \/ Store(x, index, volume__newindex(cvol[x], index, n))
    PROVE  Use
<1>1. x \in Object /\ cvol[x] \in CVolume /\ Sound(cvol[x], Loud) /\ index \in Int /\ n \in Int
  BY Typed, Untouched, NumbersPassed DEF IInv, Durable
<1>2. PICK outcomes :
        /\ outcomes \in {volume_set(cvol[x], index, n), volume__newindex(cvol[x], index, n)}
        /\ Store(x, index, outcomes)
  OBVIOUS
<1>3. \A o \in outcomes :
        /\ o.fate \in {"running", "fault"}
        /\ index # PA_CHANNELS_MAX + 1 => o.fate = "running"
        /\ \/ o.cvol = cvol[x]
           \/ Assigned(cvol[x], o.cvol, uint32_t(n)) /\ PA_VOLUME_IS_VALID(n)
  BY <1>1, <1>2, IndexesAssign
<1>4. \A o \in outcomes : Sound(o.cvol, Loud)
  BY <1>1, <1>3, LevelIsKnown, AssignedIsSound
<1>5. Call(x, outcomes) /\ careful' = (careful /\ index # PA_CHANNELS_MAX + 1)
  BY <1>2 DEF Store
<1> QED
  BY <1>3, <1>4, <1>5, CallIsUse

(***************************************************************************)
(* Setting all channels is a use, if its outcomes are sound.               *)
(***************************************************************************)
LEMMA RefillIsUse ==
    ASSUME IInv, fate = "running", NEW x \in held, NEW n \in program.positions,
           \/ Refill(x, n, volume_reset(cvol[x], n))
           \/ Refill(x, n, volume_mute(cvol[x], n))
    PROVE  Use
<1>1. x \in Object /\ cvol[x] \in CVolume /\ Sound(cvol[x], Loud) /\ n \in Int
  BY Typed, Untouched, NumbersPassed DEF IInv, Durable
<1>2. PICK outcomes :
        /\ outcomes \in {volume_reset(cvol[x], n), volume_mute(cvol[x], n)}
        /\ Refill(x, n, outcomes)
  OBVIOUS
<1>3. \A o \in outcomes :
        /\ o.fate \in {"running", "abort"}
        /\ n # 0 => o.fate = "running"
        /\ o.cvol = cvol[x] \/ Rewritten(o.cvol)
  BY <1>1, <1>2, CountsRewrite
<1>4. \A o \in outcomes : Sound(o.cvol, Loud)
  BY <1>1, <1>3, RewrittenIsSound
<1>5. Call(x, outcomes) /\ careful' = (careful /\ n # 0)
  BY <1>2 DEF Refill
<1> QED
  BY <1>3, <1>4, <1>5, CallIsUse

(***************************************************************************)
(* Arithmetic is a use, if its outcomes are sound.                         *)
(***************************************************************************)
LEMMA ComputeIsUse ==
    ASSUME IInv, fate = "running", NEW x \in held, NEW outcomes, Compute(x, outcomes),
           \A o \in outcomes : Computed(cvol[x], o)
    PROVE  Use
<1>1. x \in Object /\ Sound(cvol[x], Loud)
  BY Typed, Untouched DEF IInv, Durable
<1>2. \A o \in outcomes : Sound(o.cvol, Loud) /\ o.fate = "running"
  BY <1>1, RewrittenIsSound DEF Computed
<1>3. Call(x, outcomes) /\ careful' = careful
  BY DEF Compute
<1> QED
  BY <1>2, <1>3, CallIsUse DEF IInv, Durable, TypeOK

(***************************************************************************)
(* Setting or unsetting a key is a use.                                    *)
(***************************************************************************)
LEMMA SetKeyIsUse ==
    ASSUME IInv, fate = "running", NEW x \in held, NEW k, NEW v, SetKey(x, k, v)
    PROVE  Use
<1>1. /\ UNCHANGED <<loaded, program, made, kind, home, cvol, held, marked, batch, gone, closed, careful, fate>>
      /\ proplist__newindex(x, k, v)
  BY DEF SetKey, births, life
<1>2. x \in Object /\ content[x] \in Content
  BY Typed DEF IInv, Durable
<1>3. \/ content' = content
      \/ k \in ValidKey /\ \E w \in Text \cup {Nil} : content' = [content EXCEPT ![x][k] = w]
  <2>1. CASE v = Nil
    BY <1>1, <2>1 DEF proplist__newindex, Unset
  <2>2. CASE v # Nil
    BY <1>1, <2>2 DEF proplist__newindex, Sets
  <2> QED
    BY <2>1, <2>2
<1>4. content' \in [Object -> Content]
  <2>1. CASE content' = content
    BY <2>1, Untouched
  <2>2. CASE k \in ValidKey /\ \E w \in Text \cup {Nil} : content' = [content EXCEPT ![x][k] = w]
    <3>1. PICK w \in Text \cup {Nil} : content' = [content EXCEPT ![x][k] = w]
      BY <2>2
    <3>2. [content[x] EXCEPT ![k] = w] \in Content
      BY <1>2 DEF Content
    <3>3. content' = [content EXCEPT ![x] = [content[x] EXCEPT ![k] = w]]
      BY <3>1
    <3> QED
      BY <1>2, <3>2, <3>3, Untouched
  <2> QED
    BY <1>3, <2>1, <2>2
<1>5. UNCHANGED <<source, own>>
  BY <1>1 DEF proplist__newindex, Sets, Unset
<1>6. careful \in BOOLEAN /\ loaded \in BOOLEAN
  BY DEF IInv, Durable, TypeOK
<1>7. kind[x] = "list" /\ \A y \in Object : y # x => content'[y] = content[y]
  BY <1>3, Untouched DEF SetKey
<1> QED
  BY <1>1, <1>4, <1>5, <1>6, <1>7, Untouched DEF Use

-----------------------------------------------------------------------------
\* Steps that let objects go

\* V has no finalizer, and is not there any more; what is batched the program cannot reach.
Letting(V) ==
    /\ UNCHANGED <<loaded, program, made, kind, home, source, own, content, fate>>
    /\ V \subseteq held /\ \A x \in V : kind[x] \notin Finalizable
    /\ held' \subseteq held \ V /\ gone' = gone \cup V
    /\ cvol' = [x \in Object |-> IF x \in V THEN Unwritten ELSE cvol[x]]
    /\ marked' \subseteq 1..made /\ closed' \in BOOLEAN
    /\ careful' \in BOOLEAN /\ (careful' => careful)
    /\ batch' \in [Object -> 0..Limit]
    /\ \A x \in Object : batch'[x] = batch[x] \/ (x \in Alive /\ x \notin held')
    /\ careful' => \A c \in Object : kind[c] = "context" /\ c \notin gone => InOrder(c)'

(***************************************************************************)
(* Letting objects go keeps the invariant, if loops stay in order.         *)
(***************************************************************************)
LEMMA LettingKeeps ==
    ASSUME IInv, NEW V, Letting(V)
    PROVE  Durable'
<1>1. /\ UNCHANGED <<loaded, program, made, kind, home, source, own, content, fate>>
      /\ V \subseteq held /\ \A x \in V : kind[x] \notin {"pulseaudio", "context", "list"}
      /\ held' \subseteq held \ V /\ gone' = gone \cup V
      /\ cvol' = [x \in Object |-> IF x \in V THEN Unwritten ELSE cvol[x]]
  BY DEF Letting, Finalizable
<1>2. /\ marked' \subseteq 1..made /\ closed' \in BOOLEAN /\ careful' \in BOOLEAN /\ (careful' => careful)
      /\ batch' \in [Object -> 0..Limit]
  BY DEF Letting
<1>3. held \subseteq 1..made /\ gone \subseteq 1..made /\ held \cap gone = {}
  BY DEF IInv, Durable, TypeOK, Waiting
<1>4. Unwritten \in CVolume /\ Sound(Unwritten, Loud)
  BY Ranges DEF Unwritten, CVolume, Sound, Cell
<1>5. \A x \in Object : cvol'[x] \in CVolume /\ Sound(cvol'[x], Loud)
  BY <1>1, <1>4, Untouched
<1>6. TypeOK'
  <2>1. cvol' \in [Object -> CVolume]
    BY <1>1, <1>5
  <2>2. held' \subseteq 1..made' /\ gone' \subseteq 1..made' /\ marked' \subseteq 1..made'
    BY <1>1, <1>2, <1>3
  <2> QED
    BY <1>1, <1>2, <2>1, <2>2 DEF IInv, Durable, TypeOK, PropListTypeOK
<1>7. VolumesSound'
  <2>1. Loud' = Loud
    BY <1>1 DEF Loud
  <2> QED
    BY <1>5, <2>1 DEF VolumesSound
<1>8. \A x \in Object :
        batch'[x] = batch[x] \/ (x \in 1..made /\ kind[x] \in Finalizable /\ x \notin held' \cup gone)
  BY DEF Letting, Alive
<1>9. Unborn'
  <2>1. \A x \in Object : x > made => x \notin 1..made
    BY Typed DEF IInv, Durable
  <2>2. UNCHANGED <<made, kind, source, own>>
    BY <1>1
  <2> QED
    BY <1>8, <2>1, <2>2 DEF IInv, Durable, Unborn
<1>10. ListsOwned'
  BY <1>1 DEF IInv, Durable, ListsOwned
<1>11. Waiting'
  <2>1. \A x \in V : kind[x] \notin Finalizable
    BY DEF Letting
  <2>2. ASSUME NEW x \in Object, batch'[x] # 0
        PROVE  kind[x] \in Finalizable /\ x \notin held' /\ x \notin gone
    BY <1>1, <1>8, <2>2 DEF IInv, Durable, Waiting
  <2>3. kind' = kind /\ held' \cap gone' = {} /\ gone' = gone \cup V
    BY <1>1, <1>3
  <2> QED
    BY <2>1, <2>2, <2>3 DEF Waiting
<1>12. Kept'
  <2> SUFFICES ASSUME careful', NEW c \in Object, kind'[c] = "context", c \notin gone'
               PROVE  LoopOutlasts(c)'
    BY <1>1, <1>2 DEF IInv, Durable, Kept
  <2>1. kind[c] = "context" /\ c \notin gone /\ LoopOutlasts(c)
    BY <1>1, <1>2 DEF IInv, Durable, Kept
  <2>2. InOrder(c)'
    BY <2>1 DEF Letting
  <2>3. home[c] \notin gone'
    BY <1>1, <2>1 DEF LoopOutlasts
  <2> QED
    BY <1>1, <2>1, <2>2, <2>3 DEF LoopOutlasts
<1>13. Blank'
  BY <1>1 DEF IInv, Durable, Blank
<1> QED
  BY <1>6, <1>7, <1>9, <1>10, <1>11, <1>12, <1>13 DEF Durable

(***************************************************************************)
(* What a step drops is let go: a careful program drops no loop before its *)
(* Contexts wait for their finalizers.                                     *)
(***************************************************************************)
LEMMA DropIsLetting ==
    ASSUME IInv, NEW X \in SUBSET held, NEW M \in SUBSET X, Drop(X, M)
    PROVE  Letting({x \in X : kind[x] \notin Finalizable})
<1> DEFINE V == {x \in X : kind[x] \notin Finalizable}
<1>1. /\ UNCHANGED <<loaded, program, made, kind, home, batch, closed, source, own, content, fate>>
      /\ held' = held \ X /\ marked' = marked \cup M /\ gone' = gone \cup V
      /\ cvol' = [x \in Object |-> IF x \in V THEN Unwritten ELSE cvol[x]]
      /\ careful' = (careful /\ \A c \in 1..made :
                        kind[c] = "context" /\ home[c] \in X => c \in gone \/ batch[c] # 0)
  BY DEF Drop, Forgotten, births, propListVars
<1>2. V \subseteq held /\ V \subseteq X /\ \A x \in V : kind[x] \notin Finalizable
  OBVIOUS
<1> HIDE DEF V
<1>3. /\ batch \in [Object -> 0..Limit] /\ careful \in BOOLEAN /\ closed \in BOOLEAN
      /\ held \subseteq 1..made /\ marked \subseteq 1..made
  BY DEF IInv, Durable, TypeOK
<1>4. ASSUME careful', NEW c \in Object, kind[c] = "context", c \notin gone
      PROVE  InOrder(c)'
  <2>1. LoopOutlasts(c) /\ c \in 1..made
    <3>1. careful
      BY <1>1, <1>4
    <3>2. ~(c > made)
      BY <1>4 DEF IInv, Durable, Unborn
    <3>3. c \in 1..made
      BY <3>2, Typed DEF IInv, Durable, Object
    <3> QED
      BY <1>4, <3>1, <3>3 DEF IInv, Durable, Kept
  <2>2. home[c] \notin held' => batch[c] # 0
    BY <1>1, <1>4, <2>1 DEF LoopOutlasts, InOrder
  <2> QED
    BY <1>1, <2>1, <2>2 DEF LoopOutlasts, InOrder
<1>5. marked' \subseteq 1..made /\ careful' \in BOOLEAN /\ (careful' => careful) /\ held' \subseteq held \ V
  BY <1>1, <1>2, <1>3
<1>6. Letting(V)
  BY <1>1, <1>2, <1>3, <1>4, <1>5 DEF Letting
<1> QED
  BY <1>6 DEF V

(***************************************************************************)
(* What is separated goes behind what was.  If a loop is separated or out  *)
(* of reach only with its Context, they are in order.                      *)
(***************************************************************************)
LEMMA SeparatedInOrder ==
    ASSUME IInv, NEW X \in SUBSET Alive, Separated(X)
    PROVE  /\ batch' \in [Object -> 0..Limit]
           /\ \A x \in Object : batch'[x] = batch[x] \/ x \in X
           /\ \A c \in Object :
                /\ LoopOutlasts(c) /\ home'[c] = home[c]
                /\ home[c] \notin held' \/ home[c] \in X => c \in X \/ batch[c] # 0
                => InOrder(c)'
<1>1. PICK n \in 1..Limit :
        /\ \A x \in Object : batch[x] < n
        /\ batch' = [x \in Object |-> IF x \in X THEN n ELSE batch[x]]
  BY Zenon DEF Separated
<1>2. n \in Nat /\ n \in 0..Limit /\ n # 0
  BY Typed DEF IInv, Durable
<1>3. \A x \in Object : batch[x] \in 0..Limit /\ batch[x] \in Nat
  BY Typed DEF IInv, Durable
<1>4. \A x \in Object : batch'[x] = IF x \in X THEN n ELSE batch[x]
  BY <1>1
<1>5. batch' \in [Object -> 0..Limit]
  BY <1>1, <1>2, <1>3
<1>6. ASSUME NEW c \in Object, LoopOutlasts(c), home'[c] = home[c],
             home[c] \notin held' \/ home[c] \in X => c \in X \/ batch[c] # 0
      PROVE  InOrder(c)'
  <2>1. home[c] \in Object
    BY <1>6, Typed DEF IInv, Durable, LoopOutlasts, Object
  <2>2. c \in X \/ batch[c] # 0 => batch'[c] # 0
    BY <1>2, <1>4
  <2>3. ASSUME batch'[home[c]] # 0
        PROVE  batch'[c] # 0 /\ batch'[c] <= batch'[home[c]]
    <3>1. CASE home[c] \in X
      <4>1. batch'[home[c]] = n /\ batch'[c] # 0
        BY <1>4, <1>6, <2>1, <2>2, <3>1
      <4>2. batch'[c] <= n
        BY <1>1, <1>2, <1>3, <1>4
      <4> QED
        BY <4>1, <4>2
    <3>2. CASE home[c] \notin X
      <4>1. batch[home[c]] # 0 /\ batch'[home[c]] = batch[home[c]]
        BY <1>4, <2>1, <2>3, <3>2
      <4>2. batch[c] # 0 /\ batch[c] <= batch[home[c]]
        BY <1>6, <4>1 DEF LoopOutlasts, InOrder
      <4>3. c \notin X
        BY <4>2 DEF Alive
      <4> QED
        BY <1>4, <4>1, <4>2, <4>3
    <3> QED
      BY <3>1, <3>2
  <2> QED
    BY <1>6, <2>2, <2>3 DEF InOrder
<1> QED
  BY <1>4, <1>5, <1>6

(***************************************************************************)
(* The end of a cycle lets nothing go that has no finalizer, and puts no   *)
(* loop before its Contexts: those wait already, or it is in reach.        *)
(***************************************************************************)
LEMMA SeparateIsLetting ==
    ASSUME IInv, fate = "running", Separate
    PROVE  Letting({})
<1>1. /\ UNCHANGED <<loaded, program, made, kind, home, cvol, held, gone, closed, source, own, content, careful, fate>>
      /\ marked' = {}
  BY DEF Separate, births, propListVars
<1>2. UNCHANGED batch \/ Separated(Alive \ (held \cup marked))
  BY Zenon DEF Separate
<1>3. /\ batch \in [Object -> 0..Limit] /\ careful \in BOOLEAN /\ closed \in BOOLEAN
      /\ cvol \in [Object -> CVolume]
  BY DEF IInv, Durable, TypeOK
<1>4. \A c \in Object : careful /\ kind[c] = "context" /\ c \notin gone => LoopOutlasts(c)
  BY DEF IInv, Durable, Kept
<1>5. /\ batch' \in [Object -> 0..Limit]
      /\ \A x \in Object : batch'[x] = batch[x] \/ (x \in Alive /\ x \notin held')
      /\ \A c \in Object : LoopOutlasts(c) => InOrder(c)'
  <2>1. CASE UNCHANGED batch
    BY <1>1, <1>3, <2>1 DEF LoopOutlasts, InOrder
  <2>2. CASE Separated(Alive \ (held \cup marked))
    <3> DEFINE X == Alive \ (held \cup marked)
    <3>1. X \in SUBSET Alive /\ \A x \in X : x \notin held'
      BY <1>1
    <3> HIDE DEF X
    <3>2. Separated(X)
      BY <2>2 DEF X
    <3>3. \A c \in Object : LoopOutlasts(c) => (home[c] \notin held' \/ home[c] \in X => batch[c] # 0)
      BY <1>1, <3>1 DEF LoopOutlasts, InOrder
    <3> QED
      BY <1>1, <3>1, <3>2, <3>3, SeparatedInOrder
  <2> QED
    BY <1>2, <2>1, <2>2
<1>6. cvol' = [x \in Object |-> IF x \in {} THEN Unwritten ELSE cvol[x]]
  BY <1>1, <1>3
<1> QED
  BY <1>1, <1>3, <1>4, <1>5, <1>6 DEF Letting

(***************************************************************************)
(* lua_close lets everything go at once, and the newest of it first.       *)
(***************************************************************************)
LEMMA CloseIsLetting ==
    ASSUME IInv, fate = "running", lua_close
    PROVE  Letting({x \in held : kind[x] \notin Finalizable})
<1> DEFINE V == {x \in held : kind[x] \notin Finalizable}
<1>1. /\ UNCHANGED <<loaded, program, made, kind, home, source, own, content, careful, fate>>
      /\ closed' = TRUE /\ held' = {} /\ marked' = {} /\ gone' = gone \cup V
      /\ cvol' = [x \in Object |-> IF x \in V THEN Unwritten ELSE cvol[x]]
  BY DEF lua_close, Forgotten, births, propListVars
<1>2. V \subseteq held /\ \A x \in V : kind[x] \notin Finalizable
  OBVIOUS
<1> HIDE DEF V
<1>3. (UNCHANGED batch /\ Alive = {}) \/ Separated(Alive)
  BY Zenon DEF lua_close
<1>4. batch \in [Object -> 0..Limit] /\ careful \in BOOLEAN
  BY DEF IInv, Durable, TypeOK
<1>5. \A c \in Object : kind[c] = "context" /\ c \notin gone =>
        /\ careful => LoopOutlasts(c)
        /\ c \in Alive \/ batch[c] # 0
  BY Typed DEF IInv, Durable, Kept, Unborn, Alive, Finalizable, Object
<1>6. /\ batch' \in [Object -> 0..Limit]
      /\ \A x \in Object : batch'[x] = batch[x] \/ x \in Alive
      /\ \A c \in Object : LoopOutlasts(c) /\ (c \in Alive \/ batch[c] # 0) => InOrder(c)'
  <2>1. CASE UNCHANGED batch /\ Alive = {}
    BY <1>1, <1>4, <2>1 DEF LoopOutlasts, InOrder
  <2>2. CASE Separated(Alive)
    BY <1>1, <2>2, SeparatedInOrder
  <2> QED
    BY <1>3, <2>1, <2>2
<1>7. Letting(V)
  BY <1>1, <1>2, <1>4, <1>5, <1>6 DEF Letting
<1> QED
  BY <1>7 DEF V

-----------------------------------------------------------------------------
\* Steps that end objects

\* What is common to the three finalizers.
LEMMA FinalizeKeeps ==
    ASSUME IInv, NEW x \in Object, Finalize(x), PropListTypeOK', source' = source,
           kind[x] = "list" => own' = [own EXCEPT ![x] = "freed"],
           kind[x] # "list" => own' = own /\ content' = content,
           kind[x] = "list" => content' = [content EXCEPT ![x] = Empty],
           fate' \in {"running", "fault"},
           careful => fate' = "running"
    PROVE  Durable'
<1>1. /\ UNCHANGED <<loaded, program, made, kind, home, cvol, held, marked, closed, careful>>
      /\ batch[x] # 0 /\ \A y \in Object : ~Precedes(y, x)
      /\ batch' = [batch EXCEPT ![x] = 0] /\ gone' = gone \cup {x}
  BY DEF Finalize, births
<1>2. kind[x] \in Finalizable /\ x \notin held /\ x \notin gone /\ x \in 1..made
  BY <1>1, Typed DEF IInv, Durable, Waiting, Unborn, Object
<1>3. batch' \in [Object -> 0..Limit] /\ \A y \in Object : batch'[y] = IF y = x THEN 0 ELSE batch[y]
  <2>1. batch \in [Object -> 0..Limit] /\ 0 \in 0..Limit
    BY Typed DEF IInv, Durable, TypeOK
  <2> QED
    BY <1>1, <2>1
<1>4. TypeOK'
  <2>1. gone' \subseteq 1..made'
    BY <1>1, <1>2 DEF IInv, Durable, TypeOK
  <2> QED
    BY <1>1, <1>3, <2>1 DEF IInv, Durable, TypeOK
<1>5. VolumesSound'
  BY <1>1 DEF IInv, Durable, VolumesSound, Loud
<1>6. \A y \in Object : own'[y] = IF y = x /\ kind[x] = "list" THEN "freed" ELSE own[y]
  BY Untouched
<1>7. Unborn'
  <2>1. \A y \in Object : y > made => y # x
    BY <1>2, Typed DEF IInv, Durable
  <2> QED
    BY <1>1, <1>3, <1>6, <2>1 DEF IInv, Durable, Unborn
<1>8. ListsOwned'
  BY <1>1, <1>2, <1>6 DEF IInv, Durable, ListsOwned
<1>9. Waiting'
  BY <1>1, <1>2, <1>3 DEF IInv, Durable, Waiting
<1>10. Kept'
  <2> SUFFICES ASSUME careful', NEW c \in Object, kind'[c] = "context", c \notin gone'
               PROVE  LoopOutlasts(c)'
    BY <1>1 DEF Kept
  <2>1. LoopOutlasts(c) /\ c # x
    BY <1>1 DEF IInv, Durable, Kept
  <2>2. home[c] \in Object /\ home[c] < c
    BY <2>1, Typed DEF IInv, Durable, LoopOutlasts, Object
  <2>3. home[c] # x
    <3> SUFFICES ASSUME home[c] = x PROVE FALSE
      OBVIOUS
    <3>1. batch[c] # 0 /\ batch[c] <= batch[x] /\ c > x
      BY <1>1, <2>1, <2>2, Typed DEF IInv, Durable, LoopOutlasts, InOrder
    <3>2. batch[c] \in Nat /\ batch[x] \in Nat
      BY Typed DEF IInv, Durable
    <3>3. Precedes(c, x)
      BY <3>1, <3>2 DEF Precedes
    <3> QED
      BY <1>1, <3>3
  <2>4. batch'[c] = batch[c] /\ batch'[home[c]] = batch[home[c]] /\ home[c] \notin gone'
    BY <1>1, <1>3, <2>1, <2>2, <2>3 DEF LoopOutlasts
  <2> QED
    BY <1>1, <2>1, <2>4 DEF LoopOutlasts, InOrder
<1>11. Blank'
  BY <1>1, Untouched DEF IInv, Durable, Blank
<1> QED
  BY <1>4, <1>5, <1>7, <1>8, <1>9, <1>10, <1>11 DEF Durable

(***************************************************************************)
(* The steps of the collector keep the durable part of the invariant.      *)
(***************************************************************************)
LEMMA CollectionKeeps ==
    ASSUME IInv, fate = "running", NEW x \in Object,
           FinalizeList(x) \/ pulseaudio__gc(x) \/ context__gc(x)
    PROVE  Durable'
<1>1. CASE FinalizeList(x)
  <2>1. /\ Finalize(x) /\ kind[x] = "list" /\ fate' = "running"
        /\ own' = [own EXCEPT ![x] = "freed"] /\ content' = [content EXCEPT ![x] = Empty] /\ source' = source
    BY <1>1 DEF FinalizeList, proplist__gc
  <2>2. Empty \in Content
    BY DEF Empty, Content
  <2>3. PropListTypeOK'
    BY <2>1, <2>2, Untouched DEF PropListTypeOK
  <2> QED
    BY <2>1, <2>3, FinalizeKeeps
<1>2. CASE pulseaudio__gc(x)
  <2>1. /\ Finalize(x) /\ kind[x] # "list" /\ fate' = "running"
        /\ UNCHANGED <<source, own, content>>
    BY <1>2 DEF pulseaudio__gc, propListVars
  <2>2. PropListTypeOK'
    BY <2>1, Untouched DEF PropListTypeOK
  <2> QED
    BY <2>1, <2>2, FinalizeKeeps
<1>3. CASE context__gc(x)
  <2>1. /\ Finalize(x) /\ kind[x] = "context"
        /\ fate' \in IF home[x] \in gone THEN {"running", "fault"} ELSE {"running"}
        /\ UNCHANGED <<source, own, content>>
    BY <1>3 DEF context__gc, propListVars
  <2>2. PropListTypeOK'
    BY <2>1, Untouched DEF PropListTypeOK
  <2>3. x \notin gone
    BY <2>1 DEF Finalize, IInv, Durable, Waiting
  <2>4. careful => home[x] \notin gone
    BY <2>1, <2>3 DEF IInv, Durable, Kept, LoopOutlasts
  <2> QED
    BY <2>1, <2>2, <2>4, FinalizeKeeps
<1> QED
  BY <1>1, <1>2, <1>3

-----------------------------------------------------------------------------
\* What an info showed

\* The indexes of an info are words, and there is one left to count up to.
LEMMA IndexRanges ==
    /\ PA_INVALID_INDEX \in Nat /\ WordRange = PA_INVALID_INDEX + 1
    /\ \A n \in 0..PA_INVALID_INDEX : uint32_t(n) = n
<1>1. PA_INVALID_INDEX \in Nat /\ WordRange = PA_INVALID_INDEX + 1
  BY Ranges DEF PA_INVALID_INDEX
<1> QED
  BY <1>1, Ranges DEF uint32_t

(***************************************************************************)
(* The numbers in a table are those of the info, shifted or not, within    *)
(* their words.                                                            *)
(***************************************************************************)
LEMMA ArriveShows ==
    ASSUME NEW info \in Info, NEW converted \in TablesOf(info), NEW v, NEW c, Arrive(info, converted, v, c)
    PROVE  Shown'
<1>1. info.index \in 0..(PA_INVALID_INDEX - 1) /\ info.reference \in 0..PA_INVALID_INDEX
  BY ObjectsAssumption
<1>2. uint32_t(info.index + 1) = info.index + 1
  <2>1. info.index + 1 \in 0..PA_INVALID_INDEX
    BY <1>1, IndexRanges
  <2> QED
    BY <2>1, IndexRanges
<1>3. converted.index = info.index + 1 /\ converted.reference = info.reference
  <2>1. \E makes : converted = Converted(makes, uint32_t(info.index + 1), info.reference)
    BY Zenon DEF TablesOf, sink_info_to_lua, source_info_to_lua, sink_input_info_to_lua, source_output_info_to_lua
  <2> QED
    BY <1>2, <2>1 DEF Converted
<1>4. out' = Told(info, converted)
  BY DEF Arrive
<1>5. /\ out'.meant = [index |-> info.index, reference |-> info.reference]
      /\ out'.shown = [index |-> info.index + 1, reference |-> info.reference]
  BY <1>3, <1>4 DEF Told
<1> QED
  BY <1>1, <1>5 DEF Shown

\* A request by number: what it carries, and for whom it was meant.
LEMMA AskingReaches ==
    ASSUME IInv, NEW field \in {"index", "reference"}, RequestByIndex(field)
    PROVE  NumbersReach' /\ Shown'
<1>1. PICK i \in 0..(PA_INVALID_INDEX - 1), r \in 0..PA_INVALID_INDEX :
        /\ out.meant = [index |-> i, reference |-> r]
        /\ out.shown = [index |-> i + 1, reference |-> r]
  BY DEF RequestByIndex, IInv, Durable, Shown
<1>2. CASE out.shown[field] < 1
  <2>1. out' = Nothing
    BY <1>2 DEF RequestByIndex
  <2> QED
    BY <2>1 DEF Nothing, NumbersReach, Shown
<1>3. CASE ~(out.shown[field] < 1)
  <2>1. out' = Asked(field, out.meant[field], RequestedIndex(out.shown[field]))
    BY <1>3 DEF RequestByIndex
  <2>2. /\ out'.what = "asked" /\ out'.field = field /\ out'.meant = out.meant[field]
        /\ out'.target = RequestedIndex(out.shown[field])
    BY <2>1 DEF Asked
  <2>3. \A n \in 1..PA_INVALID_INDEX : RequestedIndex(n) = n - 1
    <3>1. \A n \in 1..PA_INVALID_INDEX : n \in 0..PA_INVALID_INDEX /\ n - 1 \in 0..PA_INVALID_INDEX
      BY IndexRanges
    <3> QED
      BY <3>1, IndexRanges DEF RequestedIndex
  <2>4. CASE field = "index"
    <3>1. out.shown[field] = i + 1 /\ out.meant[field] = i
      BY <1>1, <2>4
    <3>2. i + 1 \in 1..PA_INVALID_INDEX /\ (i + 1) - 1 = i
      BY IndexRanges
    <3>3. out'.target = out'.meant
      BY <2>2, <2>3, <3>1, <3>2
    <3> QED
      BY <2>2, <2>4, <3>3 DEF NumbersReach, Shown
  <2>5. CASE field = "reference"
    BY <2>2, <2>5 DEF NumbersReach, Shown
  <2> QED
    BY <2>4, <2>5
<1> QED
  BY <1>2, <1>3

\* The other steps show nothing, and ask for nothing by number.
Silent == out'.what \notin {"told", "asked"}

(***************************************************************************)
(* A step that shows no numbers keeps what holds of those shown.           *)
(***************************************************************************)
LEMMA SilentKeeps ==
    ASSUME Silent
    PROVE  NumbersReach' /\ Shown'
BY DEF Silent, NumbersReach, Shown

\* Contents the program or the server writes.
LEMMA Writable ==
    ASSUME IInv
    PROVE  [ValidKey -> program.entries] \subseteq Content /\ Empty \in Content
<1>1. program.entries \subseteq Text \cup {Binary, Nil}
  BY ObjectsAssumption DEF IInv, Durable, TypeOK
<1> QED
  BY <1>1 DEF Content, Empty

(***************************************************************************)
(* A birth that shows no numbers keeps the invariant.                      *)
(***************************************************************************)
LEMMA QuietBirth ==
    ASSUME IInv, Birth, out'.what # "told"
    PROVE  IInv'
BY BirthKeeps, SilentKeeps DEF IInv, Durable, Birth, Silent

(***************************************************************************)
(* A use that shows no numbers keeps the invariant.                        *)
(***************************************************************************)
LEMMA QuietUse ==
    ASSUME IInv, Use, Silent
    PROVE  IInv'
BY UseKeeps, SilentKeeps DEF IInv, Durable

(***************************************************************************)
(* What a program does keeps the invariant.                                *)
(***************************************************************************)
LEMMA ProgramKeeps ==
    ASSUME IInv, fate = "running", ProgramStep
    PROVE  IInv'
<1>1. CASE luaopen_lua_libpulse_glib_volume
  <2>1. Use
    BY <1>1, LookingIsUse DEF luaopen_lua_libpulse_glib_volume
  <2> QED
    BY <1>1, <2>1, QuietUse DEF luaopen_lua_libpulse_glib_volume, Silent, Nothing
<1>2. CASE pulseaudio_new
  <2>1. out'.what = "nothing"
    BY <1>2 DEF pulseaudio_new, Nothing
  <2> QED
    BY <1>2, <2>1, PulseAudioIsBirth, QuietBirth
<1>3. ASSUME NEW p \in held, pulseaudio_new_context(p)
      PROVE  IInv'
  <2>1. out'.what = "nothing"
    BY <1>3 DEF pulseaudio_new_context, Nothing
  <2> QED
    BY <1>3, <2>1, ContextIsBirth, QuietBirth
<1>4. ASSUME NEW t \in program.tables, volume_from_lua_raises(t)
      PROVE  IInv'
  <2>1. out'.what = "nothing"
    BY <1>4 DEF volume_from_lua_raises, Nothing
  <2> QED
    BY <1>4, <2>1, RaisingIsBirth, QuietBirth
<1>5. ASSUME NEW t \in program.tables, volume_new(t)
      PROVE  IInv'
  <2>1. out'.what = "nothing"
    BY <1>5 DEF volume_new, Nothing
  <2> QED
    BY <1>5, <2>1, VolumeNewIsBirth, QuietBirth
<1>6. ASSUME NEW t \in program.tables, set_volume_table(t)
      PROVE  IInv'
  <2>1. out'.what = "nothing"
    BY <1>6 DEF set_volume_table, Nothing
  <2> QED
    BY <1>6, <2>1, SetVolumeIsBirth, QuietBirth
<1>7. ASSUME NEW x \in held, volume_copy(x)
      PROVE  IInv'
  <2>1. out'.what = "nothing"
    BY <1>7 DEF volume_copy, Nothing
  <2> QED
    BY <1>7, <2>1, CopyIsBirth, QuietBirth
<1>8. ASSUME NEW x \in held, UseAdrift(x)
      PROVE  IInv'
  <2>1. Silent
    BY <1>8 DEF UseAdrift, Nothing, Silent
  <2> QED
    BY <1>8, <2>1, AdriftIsUse, QuietUse
<1>9. CASE PropListNew
  <2>1. Birth
    BY <1>9, ListIsBirth, Writable DEF PropListNew, proplist_new
  <2> QED
    BY <1>9, <2>1, QuietBirth DEF PropListNew, Nothing
<1>10. ASSUME NEW c \in [ValidKey -> program.entries], PropListFromString(c)
       PROVE  IInv'
  <2>1. Birth
    BY <1>10, ListIsBirth, Writable DEF PropListFromString, proplist_from_string
  <2> QED
    BY <1>10, <2>1, QuietBirth DEF PropListFromString, Nothing
<1>11. ASSUME NEW field \in {"index", "reference"}, RequestByIndex(field)
       PROVE  IInv'
  <2>1. Use
    BY <1>11, LookingIsUse DEF RequestByIndex, IInv, Durable, TypeOK
  <2> QED
    BY <1>11, <2>1, UseKeeps, AskingReaches DEF IInv, Durable
<1>12. ASSUME NEW X \in SUBSET held, NEW M \in SUBSET X, Drop(X, M)
       PROVE  IInv'
  <2>1. Silent
    BY <1>12 DEF Drop, Nothing, Silent
  <2> QED
    BY <1>12, <2>1, DropIsLetting, LettingKeeps, SilentKeeps DEF IInv, Durable
<1>13. CASE \E X \in (SUBSET held) \ {{}} : \E M \in SUBSET {x \in X : kind[x] \in Finalizable} : Drop(X, M)
  <2>1. \A X \in SUBSET held : SUBSET {x \in X : kind[x] \in Finalizable} \subseteq SUBSET X
    OBVIOUS
  <2> QED
    BY <1>12, <1>13, <2>1
<1> QED
  BY <1>1, <1>2, <1>3, <1>4, <1>5, <1>6, <1>7, <1>8, <1>9, <1>10, <1>11, <1>13, Zenon DEF ProgramStep

(***************************************************************************)
(* Calls on Volumes keep the invariant.                                    *)
(***************************************************************************)
LEMMA VolumeKeeps ==
    ASSUME IInv, fate = "running", NEW x \in held, VolumeStep(x)
    PROVE  IInv'
<1>1. cvol[x] \in CVolume /\ \A y \in held : cvol[y] \in CVolume
  BY Typed DEF IInv, Durable
<1>2. ASSUME NEW index \in program.positions, NEW n \in program.levels,
             \/ Store(x, index, volume_set(cvol[x], index, n))
             \/ Store(x, index, volume__newindex(cvol[x], index, n))
      PROVE  IInv'
  <2>1. Silent
    BY <1>2 DEF Store, Call, Nothing, Silent
  <2> QED
    BY <1>2, <2>1, StoreIsUse, QuietUse
<1>3. ASSUME NEW index \in program.positions, Get(x, index)
      PROVE  IInv'
  <2>1. Use
    BY <1>3, LookingIsUse DEF Get, IInv, Durable, TypeOK
  <2> QED
    BY <1>3, <2>1, QuietUse DEF Get, Answered, Silent
<1>4. ASSUME NEW n \in program.positions,
             \/ Refill(x, n, volume_reset(cvol[x], n))
             \/ Refill(x, n, volume_mute(cvol[x], n))
      PROVE  IInv'
  <2>1. Silent
    BY <1>4 DEF Refill, Call, Nothing, Silent
  <2> QED
    BY <1>4, <2>1, RefillIsUse, QuietUse
<1>5. ASSUME NEW outcomes, Compute(x, outcomes), \A o \in outcomes : Computed(cvol[x], o)
      PROVE  IInv'
  <2>1. Silent
    BY <1>5 DEF Compute, Call, Nothing, Silent
  <2> QED
    BY <1>5, <2>1, ComputeIsUse, QuietUse
<1>6. ASSUME NEW n \in program.levels,
             \/ Compute(x, volume_inc(cvol[x], n))
             \/ Compute(x, volume_dec(cvol[x], n))
             \/ Compute(x, volume_scale(cvol[x], n))
             \/ Compute(x, volume_multiply_number(cvol[x], n))
             \/ Compute(x, volume_divide_number(cvol[x], n))
      PROVE  IInv'
  BY <1>1, <1>5, <1>6, NumbersCompute
<1>7. ASSUME NEW y \in held,
             \/ Compute(x, volume_multiply(cvol[x], cvol[y]))
             \/ Compute(x, volume_divide(cvol[x], cvol[y]))
      PROVE  IInv'
  BY <1>1, <1>5, <1>7, VolumesCompute
<1> QED
  BY <1>2, <1>3, <1>4, <1>6, <1>7, Zenon DEF VolumeStep

(***************************************************************************)
(* Calls on PropLists keep the invariant.                                  *)
(***************************************************************************)
LEMMA ListKeeps ==
    ASSUME IInv, fate = "running", NEW x \in held, ListStep(x)
    PROVE  IInv'
<1>1. ASSUME NEW k, GetKey(x, k)
      PROVE  IInv'
  <2>1. Use
    BY <1>1, LookingIsUse DEF GetKey, IInv, Durable, TypeOK
  <2> QED
    BY <1>1, <2>1, QuietUse DEF GetKey, Answered, Silent
<1>2. ASSUME NEW k, NEW v, SetKey(x, k, v)
      PROVE  IInv'
  <2>1. Silent
    BY <1>2 DEF SetKey, Nothing, Silent
  <2> QED
    BY <1>2, <2>1, SetKeyIsUse, QuietUse
<1> QED
  BY <1>1, <1>2, Zenon DEF ListStep

(***************************************************************************)
(* The answers of the server keep the invariant.                           *)
(***************************************************************************)
LEMMA ServerKeeps ==
    ASSUME IInv, ServerStep
    PROVE  IInv'
<1>1. PICK info \in Info, v \in ServerVolume, c \in [ValidKey -> program.entries] :
        \E converted \in TablesOf(info) : Arrive(info, converted, v, c)
  BY Zenon DEF ServerStep, TablesOf
<1>2. c \in Content
  BY Writable
<1>3. PICK converted \in TablesOf(info) : Arrive(info, converted, v, c)
  BY <1>1
<1>4. Birth /\ Shown'
  BY <1>2, <1>3, ArriveIsBirth, ArriveShows
<1>5. NumbersReach'
  BY <1>3 DEF Arrive, Told, NumbersReach
<1> QED
  BY <1>4, <1>5, BirthKeeps DEF IInv, Durable

(***************************************************************************)
(* The collector keeps the invariant.                                      *)
(***************************************************************************)
LEMMA CollectorKeeps ==
    ASSUME IInv, fate = "running", CollectorStep
    PROVE  IInv'
<1>1. Silent
  BY DEF CollectorStep, Separate, lua_close, FinalizeList, pulseaudio__gc, context__gc, Finalize, Nothing, Silent
<1>2. Durable'
  BY SeparateIsLetting, CloseIsLetting, LettingKeeps, CollectionKeeps DEF CollectorStep
<1> QED
  BY <1>1, <1>2, SilentKeeps DEF IInv, Durable

-----------------------------------------------------------------------------
LEMMA InitEstablishes ==
    ASSUME Init
    PROVE  IInv
<1>1. Limit \in Nat /\ Empty \in Content
  BY PropListAssumption DEF Empty, Content
<1>2. Unwritten \in CVolume /\ Sound(Unwritten, Loud)
  BY Ranges DEF Unwritten, CVolume, Sound, Cell
<1>3. PropListTypeOK
  BY <1>1 DEF Init, PropListInit, PropListTypeOK
<1>4. TypeOK
  <2>1. kind \in [Object -> Kinds]
    BY DEF Init, Kinds
  <2>2. cvol \in [Object -> CVolume]
    BY <1>2 DEF Init
  <2>3. home \in [Object -> 0..Limit] /\ batch \in [Object -> 0..Limit] /\ made \in 0..Limit
    BY <1>1 DEF Init
  <2>4. loaded \in BOOLEAN /\ program \in Programs /\ held \subseteq 1..made /\ gone \subseteq 1..made
        /\ marked \subseteq 1..made /\ closed \in BOOLEAN
        /\ careful \in BOOLEAN /\ fate \in {"running", "fault", "abort"}
    BY DEF Init
  <2> QED
    BY <1>3, <2>1, <2>2, <2>3, <2>4 DEF TypeOK
<1>5. VolumesSound
  BY <1>2 DEF Init, VolumesSound
<1>6. Unborn /\ Blank /\ ListsOwned /\ Waiting
  BY DEF Init, PropListInit, Unborn, Blank, ListsOwned, Waiting
<1>7. Kept /\ Shown /\ NumbersReach
  BY DEF Init, Kept, Shown, NumbersReach, Nothing
<1> QED
  BY <1>4, <1>5, <1>6, <1>7 DEF IInv, Durable

(***************************************************************************)
(* Every step keeps the invariant.                                         *)
(***************************************************************************)
LEMMA NextPreserves ==
    ASSUME IInv, [Next]_vars
    PROVE  IInv'
<1>1. CASE Next
  <2>1. fate = "running"
    BY <1>1 DEF Next
  <2>2. CASE ProgramStep
    BY <2>1, <2>2, ProgramKeeps
  <2>3. CASE \E x \in held : VolumeStep(x) \/ ListStep(x)
    BY <2>1, <2>3, VolumeKeeps, ListKeeps
  <2>4. CASE ServerStep
    BY <2>4, ServerKeeps
  <2>5. CASE CollectorStep
    BY <2>1, <2>5, CollectorKeeps
  <2> QED
    BY <1>1, <2>2, <2>3, <2>4, <2>5, Zenon DEF Next
<1>2. CASE UNCHANGED vars
  BY <1>2 DEF vars, births, life, propListVars, IInv, Durable, TypeOK, PropListTypeOK, VolumesSound, Loud, Unborn, Blank,
              ListsOwned, Waiting, Kept, LoopOutlasts, InOrder, Shown, NumbersReach
<1> QED
  BY <1>1, <1>2

(***************************************************************************)
(* IInv is an invariant of every instance.                                 *)
(***************************************************************************)
THEOREM Inductive == Spec => []IInv
BY InitEstablishes, NextPreserves, PTL DEF Spec

(***************************************************************************)
(* The variables have their types: no count of channels exceeds the array, *)
(* and no object is reached or collected that was not made.                *)
(***************************************************************************)
THEOREM TypeCorrect == Spec => []TypeOK
<1>1. IInv => TypeOK
  BY DEF IInv, Durable
<1> QED
  BY <1>1, Inductive, PTL

(***************************************************************************)
(* No channel that counts is read before it was written, with any tables   *)
(* and any numbers.                                                        *)
(***************************************************************************)
THEOREM NothingUnwritten == Spec => []Initialised
<1>1. IInv => Initialised
  <2> SUFFICES ASSUME IInv PROVE Initialised
    OBVIOUS
  <2>1. \A w \in (0..PA_VOLUME_MAX) \cup Loud : w # Garbage
    <3>1. \A n \in program.levels : uint32_t(n) \in Word
      BY NumbersPassed, CastGivesWord
    <3>2. Garbage \notin Word /\ Garbage \notin 0..PA_VOLUME_MAX
      BY VolumeAssumption, Ranges DEF Word
    <3> QED
      BY <3>1, <3>2 DEF Loud
  <2> QED
    BY <2>1, Untouched DEF Sound, Initialised
<1> QED
  BY <1>1, Inductive, PTL

(***************************************************************************)
(* What is louder than PA_VOLUME_MAX was set to a negative number.         *)
(***************************************************************************)
THEOREM LoudWasNegative == Spec => []NegativesOnly
<1>1. IInv => NegativesOnly
  <2> SUFFICES ASSUME IInv, NEW x \in Object, NEW i \in Cell, i < cvol[x].channels
               PROVE  \/ PA_VOLUME_IS_VALID(cvol[x].values[i])
                      \/ \E n \in program.levels : n < 0 /\ cvol[x].values[i] = uint32_t(n)
    BY DEF NegativesOnly
  <2>1. cvol[x].values[i] \in (0..PA_VOLUME_MAX) \cup Loud
    BY Untouched DEF Sound
  <2> QED
    BY <2>1, Ranges DEF Loud, PA_VOLUME_IS_VALID
<1> QED
  BY <1>1, Inductive, PTL

(***************************************************************************)
(* A PropList owns its memory until it is collected, and the memory it was *)
(* copied from is never freed.                                             *)
(***************************************************************************)
THEOREM OwnedWhileThere == Spec => []ListsOwned
<1>1. IInv => ListsOwned
  BY DEF IInv, Durable
<1> QED
  BY <1>1, Inductive, PTL

(***************************************************************************)
(* Requests by an info's own index reach the object of that info, at every *)
(* index the server can send.                                              *)
(***************************************************************************)
THEOREM OwnNumberReaches == Spec => []NumbersReach
<1>1. IInv => NumbersReach
  BY DEF IInv, Durable
<1> QED
  BY <1>1, Inductive, PTL

(***************************************************************************)
(* A careful program is never ended by the library, and none of its        *)
(* Contexts outlives the loop it runs on, with any number of Contexts and  *)
(* loops, in any number of collections and whatever those had marked.      *)
(***************************************************************************)
THEOREM CarefulNeverEnds == Spec => []CarefulIsSafe
<1>1. IInv => CarefulIsSafe
  BY Typed DEF IInv, Durable, Kept, LoopOutlasts, CarefulIsSafe, Object
<1> QED
  BY <1>1, Inductive, PTL

-----------------------------------------------------------------------------
\* What a program sees are plain values.

\* A sound volume is a sequence of words, one for every channel.
LEMMA AudibleIsPlain ==
    ASSUME NEW loud \in SUBSET Word, NEW v, Sound(v, loud)
    PROVE  /\ v.channels \in 0..PA_CHANNELS_MAX
           /\ Audible(v) \in [1..v.channels -> Word]
           /\ Audible(v) \in Plain!Volume
           /\ DOMAIN Audible(v) = 1..v.channels /\ Len(Audible(v)) = v.channels
           /\ \A i \in 1..v.channels : i - 1 \in Cell /\ Audible(v)[i] = v.values[i - 1]
<1>1. v.channels \in 0..PA_CHANNELS_MAX /\ v.channels \in Nat
  BY Ranges DEF Sound, CVolume
<1>2. \A i \in 1..v.channels : i - 1 \in Cell /\ i - 1 < v.channels
  BY <1>1, Ranges DEF Cell
<1>3. \A i \in 1..v.channels : v.values[i - 1] \in Word
  BY <1>2, Ranges DEF Sound
<1>4. Audible(v) \in [1..v.channels -> Word]
  BY <1>3 DEF Audible
<1>5. Audible(v) \in Plain!Volume
  BY <1>1, <1>4 DEF Plain!Volume
<1>6. Len(Audible(v)) = v.channels /\ DOMAIN Audible(v) = 1..v.channels
  BY <1>1, <1>4
<1>7. \A i \in 1..v.channels : Audible(v)[i] = v.values[i - 1]
  BY DEF Audible
<1> QED
  BY <1>1, <1>2, <1>4, <1>5, <1>6, <1>7

(***************************************************************************)
(* The levels libpulse takes for valid are words.                          *)
(***************************************************************************)
LEMMA LoudIsWord ==
    ASSUME IInv
    PROVE  Loud \in SUBSET Word
BY NumbersPassed, CastGivesWord DEF Loud

(***************************************************************************)
(* What a program sees of a list is text, or nothing.                      *)
(***************************************************************************)
LEMMA LegibleIsPlain ==
    ASSUME NEW c \in Content
    PROVE  /\ Legible(c) \in [ValidKey -> Text \cup {Nil}]
           /\ \A k \in ValidKey : Legible(c)[k] = IF c[k] = Binary THEN Nil ELSE c[k]
BY DEF Legible, Content

(***************************************************************************)
(* An empty list looks empty.                                              *)
(***************************************************************************)
LEMMA EmptyIsLegible == Legible(Empty) = Empty
BY PropListAssumption DEF Legible, Empty

(***************************************************************************)
(* Of a volume that was never written a program sees no channels.          *)
(***************************************************************************)
LEMMA UnwrittenIsSilent == Audible(Unwritten) = << >>
BY DEF Audible, Unwritten

\* An answer there is only after a call that reads.
LEMMA NoAnswer ==
    ASSUME out'.what # "answer"
    PROVE  plainAnswer' = Nil
BY DEF plainAnswer

\* The values, object by object.
LEMMA PlainTyped ==
    ASSUME IInv
    PROVE  /\ Object = 1..Limit
           /\ plainLevels = [x \in Object |-> plainLevels[x]] /\ plainTexts = [x \in Object |-> plainTexts[x]]
           /\ \A x \in Object : /\ plainLevels[x] = Audible(cvol[x]) /\ plainTexts[x] = Legible(content[x])
                                /\ plainLevels[x] \in Plain!Volume
                                /\ plainTexts[x] \in [ValidKey -> Text \cup {Nil}]
<1>1. /\ Object = 1..Limit
      /\ plainLevels = [x \in Object |-> plainLevels[x]] /\ plainTexts = [x \in Object |-> plainTexts[x]]
      /\ \A x \in Object : plainLevels[x] = Audible(cvol[x]) /\ plainTexts[x] = Legible(content[x])
  BY DEF Object, plainLevels, plainTexts
<1>2. \A x \in Object : Audible(cvol[x]) \in Plain!Volume
  BY Untouched, LoudIsWord, AudibleIsPlain
<1>3. \A x \in Object : Legible(content[x]) \in [ValidKey -> Text \cup {Nil}]
  BY Typed, LegibleIsPlain DEF IInv, Durable
<1> QED
  BY <1>1, <1>2, <1>3

\* Objects are made with values of their own.
LEMMA BirthMakes ==
    ASSUME IInv, Birth
    PROVE  Plain!Make
<1>1. made' \in made..Limit /\ plainAnswer' = Nil
  BY NoAnswer DEF Birth
<1>2. /\ \A x \in Object : plainLevels'[x] \in Plain!Volume /\ plainTexts'[x] \in [ValidKey -> Text \cup {Nil}]
      /\ plainLevels' = [x \in Object |-> plainLevels'[x]] /\ plainTexts' = [x \in Object |-> plainTexts'[x]]
      /\ \A x \in Object : plainLevels'[x] = Audible(cvol'[x]) /\ plainTexts'[x] = Legible(content'[x])
  <2>1. /\ plainLevels' = [x \in Object |-> plainLevels'[x]] /\ plainTexts' = [x \in Object |-> plainTexts'[x]]
        /\ \A x \in Object : plainLevels'[x] = Audible(cvol'[x]) /\ plainTexts'[x] = Legible(content'[x])
    BY DEF plainLevels, plainTexts
  <2>2. \A x \in Object : Sound(cvol'[x], Loud) /\ content'[x] \in Content
    BY Untouched DEF Birth, PropListTypeOK
  <2>3. \A x \in Object : Audible(cvol'[x]) \in Plain!Volume
    BY <2>2, LoudIsWord, AudibleIsPlain
  <2>4. \A x \in Object : Legible(content'[x]) \in [ValidKey -> Text \cup {Nil}]
    BY <2>2, LegibleIsPlain
  <2> QED
    BY <2>1, <2>3, <2>4
<1>3. plainLevels' \in [Object -> Plain!Volume] /\ plainTexts' \in [Object -> [ValidKey -> Text \cup {Nil}]]
  BY <1>2
<1>4. \A x \in Object : x \in (made + 1)..made' \/ (plainLevels'[x] = plainLevels[x] /\ plainTexts'[x] = plainTexts[x])
  BY <1>2, PlainTyped DEF Birth, Born
<1> QED
  BY <1>1, <1>3, <1>4, PlainTyped DEF Plain!Make

\* Nothing a program could see changes.
LEMMA UnseenIsOther ==
    ASSUME out'.what # "answer", UNCHANGED <<made, cvol, content>>
    PROVE  Plain!Other
BY NoAnswer DEF plainLevels, plainTexts, Plain!Other

\* One Volume changes.
LEMMA OneChanges ==
    ASSUME IInv, NEW x \in Object, NEW v, cvol' = [cvol EXCEPT ![x] = v],
           UNCHANGED <<made, content>>, out'.what # "answer"
    PROVE  Plain!Change(x, Audible(v))
<1>1. \A y \in Object : cvol'[y] = IF y = x THEN v ELSE cvol[y]
  BY Untouched
<1>2. plainLevels' = [y \in Object |-> IF y = x THEN Audible(v) ELSE Audible(cvol[y])]
  BY <1>1 DEF plainLevels
<1>3. plainLevels' = [plainLevels EXCEPT ![x] = Audible(v)]
  BY <1>2 DEF plainLevels
<1>4. plainTexts' = plainTexts
  BY DEF plainTexts
<1> QED
  BY <1>3, <1>4, NoAnswer DEF Plain!Change

\* A channel that counts is set, or one that does not.
LEMMA StoreRefines ==
    ASSUME IInv, NEW x \in held, NEW index \in program.positions, NEW n \in program.levels,
           \/ Store(x, index, volume_set(cvol[x], index, n))
           \/ Store(x, index, volume__newindex(cvol[x], index, n))
    PROVE  Plain!Put(x) \/ Plain!Other
<1>1. x \in Object /\ cvol[x] \in CVolume /\ Sound(cvol[x], Loud) /\ index \in Int /\ n \in Int
  BY Typed, Untouched, NumbersPassed DEF IInv, Durable
<1>2. PICK o \in volume_set(cvol[x], index, n) \cup volume__newindex(cvol[x], index, n) :
        /\ cvol' = [cvol EXCEPT ![x] = o.cvol]
        /\ UNCHANGED <<made, content>> /\ out'.what # "answer"
  BY DEF Store, Call, births, propListVars, Nothing
<1>3. CASE o.cvol = cvol[x]
  <2>1. cvol' = cvol
    BY <1>1, <1>2, <1>3, Untouched
  <2> QED
    BY <1>2, <2>1, UnseenIsOther
<1>4. CASE Assigned(cvol[x], o.cvol, uint32_t(n))
  <2> DEFINE v == cvol[x]
             w == uint32_t(n)
  <2>1. PICK i \in Cell : o.cvol = [v EXCEPT !.values[i] = w]
    BY <1>4 DEF Assigned
  <2>2. /\ v = [channels |-> v.channels, values |-> v.values]
        /\ v.values \in [Cell -> Word \cup {Garbage}] /\ v.channels \in Nat /\ i \in Nat
    BY <1>1, Ranges DEF CVolume, Cell
  <2>3. w \in Word
    BY <1>1, CastGivesWord
  <2> HIDE DEF v, w
  <2>4. o.cvol.channels = v.channels /\ \A j \in Cell : o.cvol.values[j] = IF j = i THEN w ELSE v.values[j]
    BY <2>1, <2>2
  <2>5. /\ \A j \in 1..v.channels : j - 1 \in Cell
        /\ DOMAIN Audible(v) = 1..v.channels /\ Audible(v) \in [1..v.channels -> Word]
    BY <1>1, LoudIsWord, AudibleIsPlain DEF v
  <2>6. Plain!Change(x, Audible(o.cvol))
    BY <1>1, <1>2, OneChanges
  <2>7. plainLevels[x] = Audible(v)
    BY <1>1 DEF plainLevels, v
  <2>8. CASE i < v.channels
    <3>1. i + 1 \in DOMAIN Audible(v)
      BY <2>2, <2>5, <2>8
    <3>2. \A j \in 1..v.channels : o.cvol.values[j - 1] = IF j = i + 1 THEN w ELSE v.values[j - 1]
      BY <2>2, <2>4, <2>5
    <3>3. Audible(o.cvol) = [Audible(v) EXCEPT ![i + 1] = w]
      BY <2>4, <2>5, <3>2 DEF Audible
    <3> QED
      BY <2>3, <2>6, <2>7, <3>1, <3>3 DEF Plain!Put
  <2>9. CASE ~(i < v.channels)
    <3>1. \A j \in 1..v.channels : o.cvol.values[j - 1] = v.values[j - 1]
      BY <2>2, <2>4, <2>5, <2>9
    <3>2. Audible(o.cvol) = Audible(v)
      BY <2>4, <3>1 DEF Audible
    <3>3. plainLevels' = plainLevels
      BY <1>1, <2>6, <2>7, <3>2, PlainTyped DEF Plain!Change
    <3> QED
      BY <2>6, <3>3 DEF Plain!Change, Plain!Other
  <2> QED
    BY <2>8, <2>9
<1> QED
  BY <1>1, <1>2, <1>3, <1>4, IndexesAssign

\* All channels are set to one level.
LEMMA RefillRefines ==
    ASSUME IInv, NEW x \in held, NEW n \in program.positions,
           \/ Refill(x, n, volume_reset(cvol[x], n))
           \/ Refill(x, n, volume_mute(cvol[x], n))
    PROVE  Plain!Fill(x) \/ Plain!Other
<1>1. x \in Object /\ cvol[x] \in CVolume /\ n \in Int
  BY Typed, NumbersPassed DEF IInv, Durable
<1>2. PICK o \in volume_reset(cvol[x], n) \cup volume_mute(cvol[x], n) :
        /\ cvol' = [cvol EXCEPT ![x] = o.cvol]
        /\ UNCHANGED <<made, content>> /\ out'.what # "answer"
  BY DEF Refill, Call, births, propListVars, Nothing
<1>3. CASE o.cvol = cvol[x]
  <2>1. cvol' = cvol
    BY <1>1, <1>2, <1>3, Untouched
  <2> QED
    BY <1>2, <2>1, UnseenIsOther
<1>4. ASSUME NEW level \in 0..PA_VOLUME_MAX, Rewritten(o.cvol),
             \A i \in Cell : i < o.cvol.channels => o.cvol.values[i] = level
      PROVE  Plain!Fill(x)
  <2>2. \A i \in 1..o.cvol.channels : i - 1 \in Cell /\ i - 1 < o.cvol.channels
    BY <1>4, Ranges DEF Rewritten, Cell
  <2>3. Audible(o.cvol) = [i \in 1..o.cvol.channels |-> level]
    BY <1>4, <2>2 DEF Audible
  <2>4. Plain!Change(x, Audible(o.cvol))
    BY <1>1, <1>2, OneChanges
  <2>5. o.cvol.channels \in 1..PA_CHANNELS_MAX
    BY <1>4 DEF Rewritten
  <2> QED
    BY <2>3, <2>4, <2>5 DEF Plain!Fill
<1> QED
  BY <1>1, <1>2, <1>3, <1>4, CountsRewrite

\* Levels are computed, on no more channels than there were.
LEMMA ComputeRefines ==
    ASSUME IInv, NEW x \in held, NEW outcomes, Compute(x, outcomes),
           \A o \in outcomes : Computed(cvol[x], o)
    PROVE  Plain!Compute(x) \/ Plain!Other
<1>1. x \in Object /\ Sound(cvol[x], Loud)
  BY Typed, Untouched DEF IInv, Durable
<1>2. PICK o \in outcomes :
        /\ cvol' = [cvol EXCEPT ![x] = o.cvol]
        /\ UNCHANGED <<made, content>> /\ out'.what # "answer"
  BY DEF Compute, Call, births, propListVars, Nothing
<1>3. CASE o.cvol = cvol[x]
  <2>1. cvol' = cvol
    BY <1>1, <1>2, <1>3, Untouched
  <2> QED
    BY <1>2, <2>1, UnseenIsOther
<1>4. CASE Rewritten(o.cvol) /\ o.cvol.channels <= cvol[x].channels
  <2>1. o.cvol.channels \in 1..PA_CHANNELS_MAX
    BY <1>4 DEF Rewritten
  <2>2. \A i \in 1..o.cvol.channels : i - 1 \in Cell /\ i - 1 < o.cvol.channels
    BY <2>1, Ranges DEF Cell
  <2>3. Audible(o.cvol) \in [1..o.cvol.channels -> 0..PA_VOLUME_MAX]
    BY <1>4, <2>2 DEF Audible, Rewritten
  <2>4. Plain!Change(x, Audible(o.cvol))
    BY <1>1, <1>2, OneChanges
  <2>5. cvol[x].channels \in Nat /\ Len(plainLevels[x]) = cvol[x].channels
    <3>1. cvol[x].channels \in 0..PA_CHANNELS_MAX /\ Len(Audible(cvol[x])) = cvol[x].channels
      BY <1>1, LoudIsWord, AudibleIsPlain
    <3> QED
      BY <1>1, <3>1, Ranges DEF plainLevels
  <2>6. o.cvol.channels \in 1..Len(plainLevels[x])
    BY <1>4, <2>1, <2>5, Ranges
  <2> QED
    BY <2>3, <2>4, <2>6 DEF Plain!Compute
<1> QED
  BY <1>2, <1>3, <1>4 DEF Computed

\* What a Volume answers is the level of that channel.
LEMMA GetRefines ==
    ASSUME IInv, NEW x \in held, NEW index \in program.positions, Get(x, index)
    PROVE  Plain!Read(x)
<1>1. x \in Object /\ Sound(cvol[x], Loud) /\ index \in Int
  BY Typed, Untouched, NumbersPassed DEF IInv, Durable
<1>2. PICK w \in volume_get(cvol[x], index) : out' = Answered(x, index, w)
  BY DEF Get
<1>3. UNCHANGED <<made, cvol, content>>
  BY DEF Get, births, propListVars
<1>4. /\ DOMAIN Audible(cvol[x]) = 1..cvol[x].channels /\ cvol[x].channels \in Nat
      /\ \A i \in 1..cvol[x].channels : Audible(cvol[x])[i] = cvol[x].values[i - 1]
  <2>1. /\ cvol[x].channels \in 0..PA_CHANNELS_MAX /\ DOMAIN Audible(cvol[x]) = 1..cvol[x].channels
        /\ \A i \in 1..cvol[x].channels : Audible(cvol[x])[i] = cvol[x].values[i - 1]
    BY <1>1, LoudIsWord, AudibleIsPlain
  <2> QED
    BY <2>1, Ranges
<1>5. index - 1 \in 1..(cvol[x].channels - 1) /\ w = cvol[x].values[index - 1]
  BY <1>2 DEF volume_get
<1>6. index \in DOMAIN plainLevels[x] /\ plainLevels[x][index] = w
  <2>1. index \in 1..cvol[x].channels
    BY <1>1, <1>4, <1>5
  <2> QED
    BY <1>1, <1>4, <1>5, <2>1 DEF plainLevels
<1>7. plainAnswer' = <<x, index, w>>
  BY <1>2 DEF plainAnswer, Answered
<1>8. plainLevels' = plainLevels /\ plainTexts' = plainTexts
  BY <1>3 DEF plainLevels, plainTexts
<1> QED
  BY <1>3, <1>6, <1>7, <1>8 DEF Plain!Read

\* What a PropList answers is what it says of that key.
LEMMA GetKeyRefines ==
    ASSUME IInv, NEW x \in held, NEW k, GetKey(x, k)
    PROVE  Plain!Read(x)
<1>1. x \in Object /\ content[x] \in Content
  BY Typed DEF IInv, Durable
<1>2. PICK v \in proplist__index(x, k) : out' = Answered(x, k, v)
  BY DEF GetKey
<1>3. UNCHANGED <<made, cvol, content>>
  BY DEF GetKey, births, propListVars
<1>4. k \in ValidKey /\ v = IF content[x][k] = Binary THEN Nil ELSE content[x][k]
  BY <1>2 DEF proplist__index
<1>5. v = plainTexts[x][k] /\ k \in DOMAIN Empty
  BY <1>1, <1>4, LegibleIsPlain DEF plainTexts, Empty
<1>6. plainAnswer' = <<x, k, v>>
  BY <1>2 DEF plainAnswer, Answered
<1>7. plainLevels' = plainLevels /\ plainTexts' = plainTexts
  BY <1>3 DEF plainLevels, plainTexts
<1> QED
  BY <1>3, <1>5, <1>6, <1>7 DEF Plain!Read

\* One key is set or unset, or none.
LEMMA SetKeyRefines ==
    ASSUME IInv, NEW x \in held, NEW k, NEW v, SetKey(x, k, v)
    PROVE  Plain!Write(x) \/ Plain!Other
<1>1. /\ UNCHANGED <<made, cvol>> /\ out'.what # "answer" /\ proplist__newindex(x, k, v)
  BY DEF SetKey, births, Nothing
<1>2. x \in Object /\ content[x] \in Content
  BY Typed DEF IInv, Durable
<1>3. \/ content' = content
      \/ k \in ValidKey /\ \E w \in Text \cup {Nil} : content' = [content EXCEPT ![x][k] = w]
  <2>1. CASE v = Nil
    BY <1>1, <2>1 DEF proplist__newindex, Unset
  <2>2. CASE v # Nil
    BY <1>1, <2>2 DEF proplist__newindex, Sets
  <2> QED
    BY <2>1, <2>2
<1>4. CASE content' = content
  BY <1>1, <1>4, UnseenIsOther
<1>5. ASSUME k \in ValidKey, NEW w \in Text \cup {Nil}, content' = [content EXCEPT ![x][k] = w]
      PROVE  Plain!Write(x)
  <2>1. w # Binary
    BY PropListAssumption
  <2>2. \A y \in Object : content'[y] = IF y = x THEN [content[x] EXCEPT ![k] = w] ELSE content[y]
    BY <1>5, Untouched
  <2>3. Legible([content[x] EXCEPT ![k] = w]) = [Legible(content[x]) EXCEPT ![k] = w]
    BY <1>2, <1>5, <2>1 DEF Legible, Content
  <2>4. plainTexts' = [y \in Object |-> IF y = x THEN [Legible(content[x]) EXCEPT ![k] = w] ELSE Legible(content[y])]
    BY <2>2, <2>3 DEF plainTexts
  <2>5. plainTexts' = [plainTexts EXCEPT ![x] = [plainTexts[x] EXCEPT ![k] = w]]
    BY <1>2, <2>4 DEF plainTexts
  <2>6. plainTexts' = [plainTexts EXCEPT ![x][k] = w]
    BY <2>5
  <2>7. /\ [j \in ValidKey |-> w] \in [ValidKey -> Text \cup {Nil}] /\ [j \in ValidKey |-> w][k] = w
        /\ k \in DOMAIN Empty
    BY <1>5 DEF Empty
  <2>8. plainLevels' = plainLevels
    BY <1>1 DEF plainLevels
  <2> QED
    BY <1>1, <2>6, <2>7, <2>8, NoAnswer DEF Plain!Write
<1> QED
  BY <1>3, <1>4, <1>5

\* Volumes and other userdata that are gone have no value.
LEMMA LettingRefines ==
    ASSUME IInv, NEW V, Letting(V), out' = Nothing
    PROVE  Plain!Forget
<1>1. /\ UNCHANGED <<made, content>> /\ out'.what # "answer"
      /\ cvol' = [x \in Object |-> IF x \in V THEN Unwritten ELSE cvol[x]]
  BY DEF Letting, Nothing
<1>2. V \in SUBSET (1..made) /\ \A x \in V : x \in Object /\ kind[x] # "list"
  BY Typed DEF Letting, IInv, Durable, TypeOK, Finalizable
<1>3. plainLevels' = [x \in Object |-> IF x \in V THEN << >> ELSE plainLevels[x]]
  BY <1>1, UnwrittenIsSilent DEF plainLevels
<1>4. plainTexts' = [x \in Object |-> IF x \in V THEN Empty ELSE plainTexts[x]]
  <2>1. \A x \in V : content[x] = Empty
    BY <1>2 DEF IInv, Durable, Blank
  <2> QED
    BY <1>1, <2>1, EmptyIsLegible DEF plainTexts
<1> QED
  BY <1>1, <1>2, <1>3, <1>4, NoAnswer DEF Plain!Forget, Object

(***************************************************************************)
(* To the program a collection shows as objects forgotten, or not at all.  *)
(***************************************************************************)
LEMMA CollectionRefines ==
    ASSUME IInv, NEW x \in Object, FinalizeList(x)
    PROVE  Plain!Forget
<1>1. /\ UNCHANGED <<made, cvol>> /\ out'.what # "answer" /\ kind[x] = "list" /\ batch[x] # 0
      /\ content' = [content EXCEPT ![x] = Empty]
  BY DEF FinalizeList, Finalize, proplist__gc, births, Nothing
<1>2. {x} \in SUBSET (1..made)
  BY <1>1, Typed DEF IInv, Durable, Unborn, Object
<1>3. cvol[x] = Unwritten
  BY <1>1 DEF IInv, Durable, Blank
<1>4. plainLevels' = [y \in Object |-> IF y \in {x} THEN << >> ELSE plainLevels[y]]
  BY <1>1, <1>3, UnwrittenIsSilent DEF plainLevels
<1>5. plainTexts' = [y \in Object |-> IF y \in {x} THEN Empty ELSE plainTexts[y]]
  BY <1>1, EmptyIsLegible, Untouched DEF plainTexts
<1> QED
  BY <1>1, <1>2, <1>4, <1>5, NoAnswer DEF Plain!Forget, Object

(***************************************************************************)
(* At first there are no values.                                           *)
(***************************************************************************)
LEMMA InitRefines ==
    ASSUME Init
    PROVE  Plain!Init
<1>1. made = 0 /\ plainAnswer = Nil
  BY DEF Init, plainAnswer, Nothing
<1>2. plainLevels = [x \in Object |-> << >>]
  BY UnwrittenIsSilent DEF Init, plainLevels
<1>3. plainTexts = [x \in Object |-> Empty]
  BY EmptyIsLegible DEF Init, PropListInit, plainTexts
<1> QED
  BY <1>1, <1>2, <1>3 DEF Plain!Init, Object

-----------------------------------------------------------------------------
LEMMA ProgramRefines ==
    ASSUME IInv, fate = "running", ProgramStep
    PROVE  Plain!Next
<1>1. ASSUME Birth
      PROVE  Plain!Next
  BY <1>1, BirthMakes DEF Plain!Next
<1>2. ASSUME out'.what # "answer", UNCHANGED <<births, cvol, propListVars>>
      PROVE  Plain!Next
  BY <1>2, UnseenIsOther DEF Plain!Next, births, propListVars
<1>3. CASE luaopen_lua_libpulse_glib_volume
  BY <1>2, <1>3 DEF luaopen_lua_libpulse_glib_volume, Nothing
<1>4. CASE pulseaudio_new \/ \E p \in held : pulseaudio_new_context(p)
  BY <1>1, <1>4, PulseAudioIsBirth, ContextIsBirth
<1>5. CASE \E t \in program.tables : volume_from_lua_raises(t) \/ volume_new(t) \/ set_volume_table(t)
  BY <1>1, <1>5, RaisingIsBirth, VolumeNewIsBirth, SetVolumeIsBirth
<1>6. CASE \E x \in held : volume_copy(x)
  BY <1>1, <1>6, CopyIsBirth
<1>7. CASE \E x \in held : UseAdrift(x)
  BY <1>2, <1>7 DEF UseAdrift, Nothing
<1>8. CASE PropListNew \/ \E c \in [ValidKey -> program.entries] : PropListFromString(c)
  BY <1>1, <1>8, ListIsBirth, Writable DEF PropListNew, proplist_new, PropListFromString, proplist_from_string
<1>9. CASE \E field \in {"index", "reference"} : RequestByIndex(field)
  BY <1>2, <1>9 DEF RequestByIndex, Nothing, Asked
<1>10. CASE \E X \in (SUBSET held) \ {{}} : \E M \in SUBSET {x \in X : kind[x] \in Finalizable} : Drop(X, M)
  <2>1. PICK X \in SUBSET held : \E M \in SUBSET X : Drop(X, M)
    BY <1>10
  <2>2. PICK M \in SUBSET X : Drop(X, M)
    BY <2>1
  <2>3. out' = Nothing
    BY <2>2 DEF Drop
  <2> QED
    BY <2>2, <2>3, DropIsLetting, LettingRefines DEF Plain!Next
<1> QED
  BY <1>3, <1>4, <1>5, <1>6, <1>7, <1>8, <1>9, <1>10, Zenon DEF ProgramStep

(***************************************************************************)
(* Calls on objects are calls on values.                                   *)
(***************************************************************************)
LEMMA ObjectRefines ==
    ASSUME IInv, NEW x \in held, VolumeStep(x) \/ ListStep(x)
    PROVE  Plain!Next
<1>1. x \in 1..made
  BY DEF IInv, Durable, TypeOK
<1>2. cvol[x] \in CVolume /\ \A y \in held : cvol[y] \in CVolume
  BY Typed DEF IInv, Durable
<1>3. ASSUME Plain!Put(x) \/ Plain!Fill(x) \/ Plain!Compute(x) \/ Plain!Write(x) \/ Plain!Read(x) \/ Plain!Other
      PROVE  Plain!Next
  BY <1>1, <1>3, Zenon DEF Plain!Next
<1>4. ASSUME NEW outcomes, Compute(x, outcomes), \A o \in outcomes : Computed(cvol[x], o)
      PROVE  Plain!Next
  BY <1>3, <1>4, ComputeRefines
<1>5. ASSUME NEW n \in program.levels,
             \/ Compute(x, volume_inc(cvol[x], n))
             \/ Compute(x, volume_dec(cvol[x], n))
             \/ Compute(x, volume_scale(cvol[x], n))
             \/ Compute(x, volume_multiply_number(cvol[x], n))
             \/ Compute(x, volume_divide_number(cvol[x], n))
      PROVE  Plain!Next
  BY <1>2, <1>4, <1>5, NumbersCompute
<1>6. ASSUME NEW y \in held,
             \/ Compute(x, volume_multiply(cvol[x], cvol[y]))
             \/ Compute(x, volume_divide(cvol[x], cvol[y]))
      PROVE  Plain!Next
  BY <1>2, <1>4, <1>6, VolumesCompute
<1>7. CASE VolumeStep(x)
  BY <1>3, <1>5, <1>6, <1>7, StoreRefines, GetRefines, RefillRefines, Zenon DEF VolumeStep
<1>8. CASE ListStep(x)
  BY <1>3, <1>8, GetKeyRefines, SetKeyRefines, Zenon DEF ListStep
<1> QED
  BY <1>7, <1>8

(***************************************************************************)
(* The collector forgets values, or changes none.                          *)
(***************************************************************************)
LEMMA CollectorRefines ==
    ASSUME IInv, fate = "running", CollectorStep
    PROVE  Plain!Next
<1>1. CASE Separate \/ lua_close
  <2>1. out' = Nothing
    BY <1>1 DEF Separate, lua_close
  <2> QED
    BY <1>1, <2>1, SeparateIsLetting, CloseIsLetting, LettingRefines DEF Plain!Next
<1>2. CASE \E x \in Object : pulseaudio__gc(x) \/ context__gc(x)
  <2>1. out'.what # "answer" /\ UNCHANGED <<made, cvol, content>>
    BY <1>2 DEF pulseaudio__gc, context__gc, Finalize, Nothing, births, propListVars
  <2> QED
    BY <2>1, UnseenIsOther DEF Plain!Next
<1>3. CASE \E x \in Object : FinalizeList(x)
  BY <1>3, CollectionRefines DEF Plain!Next
<1> QED
  BY <1>1, <1>2, <1>3 DEF CollectorStep

(***************************************************************************)
(* Every step is a step of Values, or shows nothing.                       *)
(***************************************************************************)
LEMMA StepRefines ==
    ASSUME IInv, [Next]_vars
    PROVE  [Plain!Next]_(Plain!vars)
<1>1. CASE fate = "running" /\ ProgramStep
  BY <1>1, ProgramRefines
<1>2. CASE \E x \in held : VolumeStep(x) \/ ListStep(x)
  BY <1>2, ObjectRefines
<1>3. CASE ServerStep
  <2>1. PICK info \in Info, v \in ServerVolume, c \in [ValidKey -> program.entries] :
          \E converted \in TablesOf(info) : Arrive(info, converted, v, c)
    BY <1>3, Zenon DEF ServerStep, TablesOf
  <2>2. c \in Content
    BY Writable
  <2>3. Birth
    BY <2>1, <2>2, ArriveIsBirth
  <2> QED
    BY <2>3, BirthMakes DEF Plain!Next
<1>4. CASE fate = "running" /\ CollectorStep
  BY <1>4, CollectorRefines
<1>5. CASE UNCHANGED vars
  BY <1>5 DEF vars, births, propListVars, Plain!vars, plainLevels, plainTexts, plainAnswer
<1> QED
  BY <1>1, <1>2, <1>3, <1>4, <1>5, Zenon DEF Next

(***************************************************************************)
(* Volumes and PropLists are plain values, for any number of objects,      *)
(* channels and keys: no call changes another object than its own, and     *)
(* what is read is what was written.                                       *)
(***************************************************************************)
THEOREM AreValues == Spec => ImplementsValues
<1>1. Init => Plain!Init
  BY InitRefines
<1>2. IInv /\ [Next]_vars => [Plain!Next]_(Plain!vars)
  BY StepRefines
<1> QED
  BY <1>1, <1>2, Inductive, PTL DEF Spec, Plain!Spec, ImplementsValues
=============================================================================
