---------------------------- MODULE VolumeProofs ----------------------------
(***************************************************************************)
(* What the operations on a pa_cvolume come to, for every number of        *)
(* channels and every width of a word.  Each lemma says of every outcome   *)
(* of a family of operations how the volume may have changed and when the  *)
(* program may have ended.                                                 *)
(***************************************************************************)
EXTENDS Volume, TLAPS

\* A volume whose channels are as loud as they should be, or at one of the levels `loud`.
Sound(v, loud) ==
    /\ v \in CVolume
    /\ \A i \in Cell : i < v.channels => v.values[i] \in (0..PA_VOLUME_MAX) \cup loud

\* One channel was set, perhaps one that does not count.
Assigned(v, w, level) ==
    \E i \in Cell : w = [v EXCEPT !.values[i] = level]

\* The channels that count are new, and as loud as they should be.
Rewritten(w) ==
    /\ w.channels \in 1..PA_CHANNELS_MAX
    /\ w \in CVolume
    /\ \A i \in Cell : i < w.channels => w.values[i] \in 0..PA_VOLUME_MAX

-----------------------------------------------------------------------------
\* The constants, and what a word may be.
LEMMA Ranges ==
    /\ PA_CHANNELS_MAX \in Nat \ {0} /\ PA_VOLUME_MAX \in Nat
    /\ WordRange \in Nat \ {0} /\ WordRange = 2 * (PA_VOLUME_MAX + 1)
    /\ 0..PA_VOLUME_MAX \subseteq Word
    /\ PA_VOLUME_NORM \in 0..PA_VOLUME_MAX
BY VolumeAssumption DEF Word

\* Clamping bounds whatever it is given.
LEMMA ClampBounds ==
    ASSUME NEW w
    PROVE  PA_CLAMP_VOLUME(w) \in 0..PA_VOLUME_MAX
BY Ranges DEF PA_CLAMP_VOLUME, PA_VOLUME_MUTED

\* A cast gives a word.
LEMMA CastGivesWord ==
    ASSUME NEW n \in Int
    PROVE  uint32_t(n) \in Word
BY Ranges DEF uint32_t, Word

\* A cast leaves what fits.
LEMMA CastKeeps ==
    ASSUME NEW n \in 0..PA_VOLUME_MAX
    PROVE  uint32_t(n) = n
BY Ranges DEF uint32_t

\* A valid volume has between one channel and as many as there can be.
LEMMA ValidCounts ==
    ASSUME NEW v \in CVolume, pa_cvolume_valid(v)
    PROVE  v.channels \in 1..PA_CHANNELS_MAX
BY Ranges DEF CVolume, pa_cvolume_valid

\* What was rewritten is sound.
LEMMA RewrittenIsSound ==
    ASSUME NEW w, Rewritten(w), NEW loud
    PROVE  Sound(w, loud)
BY DEF Rewritten, Sound

\* A level put on some channel, the others as they were.
LEMMA AssignedIsSound ==
    ASSUME NEW loud, NEW v, Sound(v, loud), NEW w,
           NEW level \in (0..PA_VOLUME_MAX) \cup loud, level \in Word, Assigned(v, w, level)
    PROVE  Sound(w, loud)
<1>1. PICK i \in Cell : w = [v EXCEPT !.values[i] = level]
  BY DEF Assigned
<1>2. /\ v = [channels |-> v.channels, values |-> v.values]
      /\ v.channels \in 0..PA_CHANNELS_MAX /\ v.values \in [Cell -> Word \cup {Garbage}]
  BY DEF Sound, CVolume
<1>3. w = [channels |-> v.channels, values |-> [v.values EXCEPT ![i] = level]]
  BY <1>1, <1>2
<1>4. w \in CVolume
  BY <1>2, <1>3 DEF CVolume
<1>5. \A j \in Cell : w.values[j] = IF j = i THEN level ELSE v.values[j]
  BY <1>2, <1>3
<1> QED
  BY <1>3, <1>4, <1>5 DEF Sound

-----------------------------------------------------------------------------
\* An array of which the first n channels are written makes a sound volume.
LEMMA ArrayIsRewritten ==
    ASSUME NEW v \in CVolume, NEW n \in 1..PA_CHANNELS_MAX, NEW values,
           values = [i \in Cell |-> values[i]],
           \A i \in Cell : i < n => values[i] \in 0..PA_VOLUME_MAX,
           \A i \in Cell : ~(i < n) => values[i] = v.values[i]
    PROVE  Rewritten([channels |-> n, values |-> values])
<1>1. \A i \in Cell : v.values[i] \in Word \cup {Garbage}
  BY DEF CVolume
<1>2. \A i \in Cell : values[i] \in Word \cup {Garbage}
  BY <1>1, Ranges
<1>3. values \in [Cell -> Word \cup {Garbage}]
  BY <1>2
<1>4. [channels |-> n, values |-> values] \in CVolume
  BY <1>3, Ranges DEF CVolume
<1> QED
  BY <1>4, Ranges DEF Rewritten

\* Setting every channel.
LEMMA SetRewrites ==
    ASSUME NEW v \in CVolume, NEW n \in 1..PA_CHANNELS_MAX, NEW w, NEW o \in pa_cvolume_set(v, n, w)
    PROVE  /\ o.fate = "running" /\ Rewritten(o.cvol)
           /\ o.cvol.channels = n
           /\ \A i \in Cell : i < n => o.cvol.values[i] = PA_CLAMP_VOLUME(w)
<1> DEFINE values == [i \in Cell |-> IF i < n THEN PA_CLAMP_VOLUME(w) ELSE v.values[i]]
<1>1. \A i \in Cell : i < n => values[i] \in 0..PA_VOLUME_MAX
  BY ClampBounds
<1>2. \A i \in Cell : ~(i < n) => values[i] = v.values[i]
  OBVIOUS
<1>3. o = [cvol |-> [channels |-> n, values |-> values], fate |-> "running"]
  BY DEF pa_cvolume_set, Returns
<1>4. values = [i \in Cell |-> values[i]] /\ \A i \in Cell : i < n => values[i] = PA_CLAMP_VOLUME(w)
  OBVIOUS
<1> HIDE DEF values
<1>5. Rewritten([channels |-> n, values |-> values])
  BY <1>1, <1>2, <1>4, ArrayIsRewritten
<1> QED
  BY <1>3, <1>4, <1>5
-----------------------------------------------------------------------------
\* The program runs on, and the volume is as it was or has new levels on channels it had.
Computed(v, o) ==
    /\ o.fate = "running"
    /\ o.cvol = v \/ (Rewritten(o.cvol) /\ o.cvol.channels <= v.channels)

\* A call that raises.
LEMMA RaisingComputes ==
    ASSUME NEW v, NEW o \in Raises(v)
    PROVE  Computed(v, o)
BY DEF Computed, Raises

\* Scaling, which all that changes volumes by an amount comes down to.
LEMMA ScalingComputes ==
    ASSUME NEW v \in CVolume, pa_cvolume_valid(v), NEW w, NEW o \in pa_cvolume_scale(v, w)
    PROVE  Computed(v, o)
<1>1. v.channels \in 1..PA_CHANNELS_MAX
  BY ValidCounts
<1>2. CASE pa_cvolume_max(v) = PA_VOLUME_MUTED
  <2>1. o \in pa_cvolume_set(v, v.channels, w)
    BY <1>2 DEF pa_cvolume_scale
  <2>2. o.fate = "running" /\ Rewritten(o.cvol) /\ o.cvol.channels = v.channels
    BY <1>1, <2>1, SetRewrites
  <2> QED
    BY <1>1, <2>2, Ranges DEF Computed
<1>3. CASE pa_cvolume_max(v) # PA_VOLUME_MUTED
  <2> DEFINE new(i) == PA_CLAMP_VOLUME((v.values[i] * w) \div pa_cvolume_max(v))
             values == [i \in Cell |-> IF i < v.channels THEN new(i) ELSE v.values[i]]
  <2>1. o = [cvol |-> [v EXCEPT !.values = values], fate |-> "running"]
    BY <1>3 DEF pa_cvolume_scale, Returns
  <2>2. \A i \in Cell : new(i) \in 0..PA_VOLUME_MAX
    BY ClampBounds
  <2> HIDE DEF new
  <2>3. /\ values = [i \in Cell |-> values[i]]
        /\ \A i \in Cell : i < v.channels => values[i] \in 0..PA_VOLUME_MAX
        /\ \A i \in Cell : ~(i < v.channels) => values[i] = v.values[i]
    BY <2>2
  <2> HIDE DEF values
  <2>4. Rewritten([channels |-> v.channels, values |-> values])
    BY <1>1, <2>3, ArrayIsRewritten
  <2>5. v = [channels |-> v.channels, values |-> v.values]
    BY DEF CVolume
  <2>6. o.cvol = [channels |-> v.channels, values |-> values] /\ o.fate = "running"
    BY <2>1, <2>5
  <2> QED
    BY <1>1, <2>4, <2>6, Ranges DEF Computed
<1> QED
  BY <1>2, <1>3

\* Increase and decrease.
LEMMA SteppingComputes ==
    ASSUME NEW v \in CVolume, pa_cvolume_valid(v), NEW w,
           NEW o \in pa_cvolume_inc(v, w) \cup pa_cvolume_dec(v, w)
    PROVE  Computed(v, o)
BY ScalingComputes DEF pa_cvolume_inc, pa_cvolume_dec

\* The fewer channels of two volumes that have some.
LEMMA FewerChannels ==
    ASSUME NEW m \in 1..PA_CHANNELS_MAX, NEW n \in 1..PA_CHANNELS_MAX
    PROVE  Minimum(m, n) \in 1..PA_CHANNELS_MAX /\ Minimum(m, n) <= m
BY Ranges DEF Minimum

\* A product and a quotient of levels are levels.
LEMMA ProductBounds ==
    ASSUME NEW a, NEW b
    PROVE  Product(a, b) \in 0..PA_VOLUME_MAX /\ Quotient(a, b) \in 0..PA_VOLUME_MAX
<1>1. Product(a, b) \in 0..PA_VOLUME_MAX
  BY ClampBounds DEF Product
<1>2. b = 0 => Quotient(a, b) \in 0..PA_VOLUME_MAX
  BY Ranges DEF Quotient
<1>3. b # 0 => Quotient(a, b) \in 0..PA_VOLUME_MAX
  BY ClampBounds DEF Quotient
<1> QED
  BY <1>1, <1>2, <1>3

\* Multiplying by something with channels.
LEMMA MultiplyingComputes ==
    ASSUME NEW v \in CVolume, v.channels \in 1..PA_CHANNELS_MAX,
           NEW u, u.channels \in 1..PA_CHANNELS_MAX,
           NEW o \in pa_sw_cvolume_multiply(v, u)
    PROVE  Computed(v, o)
<1> DEFINE n == Minimum(v.channels, u.channels)
           values == [i \in Cell |-> IF i < n THEN Product(v.values[i], u.values[i]) ELSE v.values[i]]
<1>1. n \in 1..PA_CHANNELS_MAX /\ n <= v.channels
  BY FewerChannels
<1>2. o = [cvol |-> [channels |-> n, values |-> values], fate |-> "running"]
  BY DEF pa_sw_cvolume_multiply, Returns
<1> HIDE DEF n
<1>3. /\ values = [i \in Cell |-> values[i]]
      /\ \A i \in Cell : i < n => values[i] \in 0..PA_VOLUME_MAX
      /\ \A i \in Cell : ~(i < n) => values[i] = v.values[i]
  BY ProductBounds
<1> HIDE DEF values
<1>4. Rewritten([channels |-> n, values |-> values])
  BY <1>1, <1>3, ArrayIsRewritten
<1> QED
  BY <1>1, <1>2, <1>4 DEF Computed

\* Dividing by something with channels.
LEMMA DividingComputes ==
    ASSUME NEW v \in CVolume, v.channels \in 1..PA_CHANNELS_MAX,
           NEW u, u.channels \in 1..PA_CHANNELS_MAX,
           NEW o \in pa_sw_cvolume_divide(v, u)
    PROVE  Computed(v, o)
<1> DEFINE n == Minimum(v.channels, u.channels)
           values == [i \in Cell |-> IF i < n THEN Quotient(v.values[i], u.values[i]) ELSE v.values[i]]
<1>1. n \in 1..PA_CHANNELS_MAX /\ n <= v.channels
  BY FewerChannels
<1>2. o = [cvol |-> [channels |-> n, values |-> values], fate |-> "running"]
  BY DEF pa_sw_cvolume_divide, Returns
<1> HIDE DEF n
<1>3. /\ values = [i \in Cell |-> values[i]]
      /\ \A i \in Cell : i < n => values[i] \in 0..PA_VOLUME_MAX
      /\ \A i \in Cell : ~(i < n) => values[i] = v.values[i]
  BY ProductBounds
<1> HIDE DEF values
<1>4. Rewritten([channels |-> n, values |-> values])
  BY <1>1, <1>3, ArrayIsRewritten
<1> QED
  BY <1>1, <1>2, <1>4 DEF Computed

-----------------------------------------------------------------------------
\* The methods of a Volume.

\* Those that compute with a number.
LEMMA NumbersCompute ==
    ASSUME NEW v \in CVolume, NEW n,
           NEW o \in volume_inc(v, n) \cup volume_dec(v, n) \cup volume_scale(v, n)
                    \cup volume_multiply_number(v, n) \cup volume_divide_number(v, n)
    PROVE  Computed(v, o)
<1>1. CASE ~Accepts(v, n)
  BY <1>1, RaisingComputes
     DEF volume_inc, volume_dec, volume_scale, volume_multiply_number, volume_divide_number
<1>2. CASE Accepts(v, n)
  <2> DEFINE w == uint32_t(n)
             u == Uniform(v, w)
  <2>1. pa_cvolume_valid(v) /\ v.channels \in 1..PA_CHANNELS_MAX
    BY <1>2, ValidCounts DEF Accepts
  <2>2. u.channels = v.channels
    BY DEF Uniform
  <2>3. \/ o \in pa_cvolume_inc(v, w) \cup pa_cvolume_dec(v, w)
        \/ o \in pa_cvolume_scale(v, w)
        \/ o \in pa_sw_cvolume_multiply(v, u)
        \/ o \in pa_sw_cvolume_divide(v, u)
    BY <1>2 DEF volume_inc, volume_dec, volume_scale, volume_multiply_number, volume_divide_number
  <2> HIDE DEF u, w
  <2> QED
    BY <2>1, <2>2, <2>3, SteppingComputes, ScalingComputes, MultiplyingComputes, DividingComputes
<1> QED
  BY <1>1, <1>2

\* Those that compute with another Volume.
LEMMA VolumesCompute ==
    ASSUME NEW v \in CVolume, NEW u \in CVolume,
           NEW o \in volume_multiply(v, u) \cup volume_divide(v, u)
    PROVE  Computed(v, o)
<1>1. CASE ~(pa_cvolume_valid(v) /\ pa_cvolume_valid(u))
  BY <1>1, RaisingComputes DEF volume_multiply, volume_divide
<1>2. CASE pa_cvolume_valid(v) /\ pa_cvolume_valid(u)
  <2>1. v.channels \in 1..PA_CHANNELS_MAX /\ u.channels \in 1..PA_CHANNELS_MAX
    BY <1>2, ValidCounts
  <2>2. o \in pa_sw_cvolume_multiply(v, u) \/ o \in pa_sw_cvolume_divide(v, u)
    BY <1>2 DEF volume_multiply, volume_divide
  <2> QED
    BY <2>1, <2>2, MultiplyingComputes, DividingComputes
<1> QED
  BY <1>1, <1>2
\* Those that set a channel.  Only an index one past the array can end the program.
LEMMA IndexesAssign ==
    ASSUME NEW v \in CVolume, NEW index \in Int, NEW n \in Int,
           NEW o \in volume_set(v, index, n) \cup volume__newindex(v, index, n)
    PROVE  /\ o.fate \in {"running", "fault"}
           /\ index # PA_CHANNELS_MAX + 1 => o.fate = "running"
           /\ \/ o.cvol = v
              \/ Assigned(v, o.cvol, uint32_t(n)) /\ PA_VOLUME_IS_VALID(n)
<1>1. CASE index - 1 \in Cell /\ PA_VOLUME_IS_VALID(n)
  <2>1. o = [cvol |-> [v EXCEPT !.values[index - 1] = uint32_t(n)], fate |-> "running"]
    <3>1. /\ index \in 1..PA_CHANNELS_MAX
          /\ ~(index - 1 < 0) /\ ~(index - 1 > PA_CHANNELS_MAX) /\ index - 1 # PA_CHANNELS_MAX
          /\ ~(index < 1) /\ ~(index > PA_CHANNELS_MAX + 1) /\ index # PA_CHANNELS_MAX + 1
      BY <1>1, Ranges DEF Cell
    <3> QED
      BY <1>1, <3>1 DEF volume_set, volume__newindex, Returns
  <2> QED
    BY <1>1, <2>1 DEF Assigned
<1>2. CASE ~(index - 1 \in Cell /\ PA_VOLUME_IS_VALID(n))
  <2>1. \/ o \in Raises(v)
        \/ o \in Overruns(v) /\ index = PA_CHANNELS_MAX + 1
    <3>1. CASE index \notin 1..PA_CHANNELS_MAX
      BY <3>1, Ranges DEF volume_set, volume__newindex
    <3>2. CASE index \in 1..PA_CHANNELS_MAX
      <4>1. ~PA_VOLUME_IS_VALID(n)
        BY <1>2, <3>2, Ranges DEF Cell
      <4> QED
        BY <4>1 DEF volume_set, volume__newindex
    <3> QED
      BY <3>1, <3>2
  <2> QED
    BY <2>1 DEF Raises, Overruns
<1> QED
  BY <1>1, <1>2

\* Those that set every channel.  Only a count of none can end the program.
LEMMA CountsRewrite ==
    ASSUME NEW v \in CVolume, NEW n \in Int,
           NEW o \in volume_reset(v, n) \cup volume_mute(v, n)
    PROVE  /\ o.fate \in {"running", "abort"}
           /\ n # 0 => o.fate = "running"
           /\ \/ o.cvol = v
              \/ /\ Rewritten(o.cvol)
                 /\ \E level \in 0..PA_VOLUME_MAX :
                      \A i \in Cell : i < o.cvol.channels => o.cvol.values[i] = level
<1>1. CASE n \in 1..PA_CHANNELS_MAX
  <2>1. PICK w : o \in pa_cvolume_set(v, n, w)
    <3>1. n \in 0..PA_CHANNELS_MAX
      BY <1>1, Ranges
    <3> QED
      BY <3>1 DEF volume_reset, volume_mute
  <2>2. /\ o.fate = "running" /\ Rewritten(o.cvol)
        /\ o.cvol.channels = n
        /\ \A i \in Cell : i < n => o.cvol.values[i] = PA_CLAMP_VOLUME(w)
    BY <1>1, <2>1, SetRewrites
  <2> QED
    BY <2>2, ClampBounds
<1>2. CASE n = 0
  <2>1. o \in Aborts(v)
    BY <1>2, Ranges DEF volume_reset, volume_mute, pa_cvolume_set
  <2> QED
    BY <1>2, <2>1 DEF Aborts
<1>3. CASE n \notin 0..PA_CHANNELS_MAX
  <2>1. o \in Raises(v)
    BY <1>3 DEF volume_reset, volume_mute
  <2> QED
    BY <2>1 DEF Raises
<1> QED
  BY <1>1, <1>2, <1>3, Ranges

\* What a table comes to, however long it is.
LEMMA TableIsSound ==
    ASSUME NEW Other, NEW t \in Seq(Int \cup Other), ~RaisesFromLua(t), NEW loud
    PROVE  Sound(volume_from_lua(t), loud)
<1> DEFINE n == Channels(t)
           values == [i \in Cell |-> IF i < n THEN PA_CLAMP_VOLUME(uint32_t(t[i + 1])) ELSE Garbage]
<1>1. Len(t) % ByteRange \in Nat
  BY VolumeAssumption
<1>2. n \in 0..PA_CHANNELS_MAX
  BY <1>1, Ranges DEF Channels, Minimum
<1>3. volume_from_lua(t) = [channels |-> n, values |-> values]
  BY DEF volume_from_lua
<1> HIDE DEF n
<1>4. /\ \A i \in Cell : i < n => values[i] \in 0..PA_VOLUME_MAX
      /\ \A i \in Cell : values[i] \in Word \cup {Garbage}
  BY ClampBounds, Ranges
<1>5. values \in [Cell -> Word \cup {Garbage}]
  BY <1>4
<1> HIDE DEF values
<1>6. [channels |-> n, values |-> values] \in CVolume
  BY <1>2, <1>5 DEF CVolume
<1> QED
  BY <1>3, <1>4, <1>6 DEF Sound
=============================================================================
