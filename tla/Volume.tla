------------------------------- MODULE Volume -------------------------------
(***************************************************************************)
(* The operations of volume.c on a pa_cvolume: a count of channels and an  *)
(* array of PA_CHANNELS_MAX levels, of which the first `channels` count.   *)
(* Levels are unsigned words; the numbers Lua passes are signed and wider, *)
(* so a test written for a word lets every negative number pass.           *)
(*                                                                         *)
(* An operation is the set of its outcomes: what the array is afterwards,  *)
(* and whether the program runs on.  A call that raises changes nothing.   *)
(***************************************************************************)
EXTENDS Integers, Sequences

CONSTANTS
    PA_CHANNELS_MAX,    \* 32
    PA_VOLUME_NORM,     \* 2^16
    PA_VOLUME_MAX,      \* 2^31 - 1
    ByteRange,          \* 2^8: the count is kept in a uint8_t
    WordRange,          \* 2^32: levels and indexes are uint32_t
    Garbage             \* what memory holds that was allocated and never written

ASSUME VolumeAssumption ==
    /\ PA_CHANNELS_MAX \in Nat \ {0}
    /\ ByteRange \in Nat /\ PA_CHANNELS_MAX < ByteRange
    /\ PA_VOLUME_MAX \in Nat /\ PA_VOLUME_NORM \in 1..PA_VOLUME_MAX
    /\ WordRange = 2 * (PA_VOLUME_MAX + 1)
    /\ Garbage \notin Int

PA_VOLUME_MUTED == 0

Word == 0..(WordRange - 1)
Cell == 0..(PA_CHANNELS_MAX - 1)

CVolume == [channels : 0..PA_CHANNELS_MAX, values : [Cell -> Word \cup {Garbage}]]

Unwritten == [channels |-> 0, values |-> [i \in Cell |-> Garbage]]

Minimum(m, n) == IF m < n THEN m ELSE n

\* The casts to uint32_t.
uint32_t(n) == n % WordRange

\* The macro compares as its argument does: a lua_Integer may be negative.
PA_VOLUME_IS_VALID(n) == n <= PA_VOLUME_MAX

PA_CLAMP_VOLUME(w) == IF w \in PA_VOLUME_MUTED..PA_VOLUME_MAX THEN w ELSE PA_VOLUME_MAX

Returns(v) == {[cvol |-> v, fate |-> "running"]}
Raises(v)  == {[cvol |-> v, fate |-> "running"]}
Aborts(v)  == {[cvol |-> v, fate |-> "abort"]}

\* A write one word past the array: into padding, or into somebody else's memory.
Overruns(v) == {[cvol |-> v, fate |-> "running"], [cvol |-> v, fate |-> "fault"]}

-----------------------------------------------------------------------------
\* libpulse

pa_cvolume_valid(v) ==
    v.channels # 0 /\ \A i \in Cell : i < v.channels => PA_VOLUME_IS_VALID(v.values[i])

\* An assertion keeps the count in bounds.
pa_cvolume_set(v, n, w) ==
    IF n \notin 1..PA_CHANNELS_MAX THEN Aborts(v)
    ELSE Returns([channels |-> n,
                  values |-> [i \in Cell |-> IF i < n THEN PA_CLAMP_VOLUME(w) ELSE v.values[i]]])

pa_cvolume_max(v) ==
    CHOOSE w \in {v.values[i] : i \in {j \in Cell : j < v.channels}} :
        \A i \in Cell : i < v.channels => v.values[i] <= w

\* The channels keep their proportions; silence has none.
pa_cvolume_scale(v, w) ==
    LET top == pa_cvolume_max(v)
    IN  IF top = PA_VOLUME_MUTED THEN pa_cvolume_set(v, v.channels, w)
        ELSE Returns([v EXCEPT !.values =
                 [i \in Cell |-> IF i < v.channels THEN PA_CLAMP_VOLUME((v.values[i] * w) \div top)
                                 ELSE v.values[i]]])

pa_cvolume_inc(v, w) == pa_cvolume_scale(v, PA_CLAMP_VOLUME(pa_cvolume_max(v) + w))

pa_cvolume_dec(v, w) ==
    pa_cvolume_scale(v, IF pa_cvolume_max(v) <= w THEN PA_VOLUME_MUTED ELSE pa_cvolume_max(v) - w)

\* To the nearest level; dividing by silence gives silence.
Product(a, b)  == PA_CLAMP_VOLUME((a * b + PA_VOLUME_NORM \div 2) \div PA_VOLUME_NORM)
Quotient(a, b) == IF b = 0 THEN 0 ELSE PA_CLAMP_VOLUME((a * PA_VOLUME_NORM + b \div 2) \div b)

\* Channel by channel, as far as both volumes go.
pa_sw_cvolume_multiply(v, u) ==
    LET n == Minimum(v.channels, u.channels)
    IN  Returns([channels |-> n,
                 values |-> [i \in Cell |-> IF i < n THEN Product(v.values[i], u.values[i]) ELSE v.values[i]]])

pa_sw_cvolume_divide(v, u) ==
    LET n == Minimum(v.channels, u.channels)
    IN  Returns([channels |-> n,
                 values |-> [i \in Cell |-> IF i < n THEN Quotient(v.values[i], u.values[i]) ELSE v.values[i]]])

\* The same level on every channel of v.
Uniform(v, w) == [channels |-> v.channels, values |-> [i \in Cell |-> w]]

-----------------------------------------------------------------------------
\* Construction

\* Mutant: the count is not limited to PA_CHANNELS_MAX.
ChannelsUnlimited(t) == Len(t) % ByteRange

\* The length of the table is cut to a byte before it is compared with the maximum.
Channels(t) == Minimum(Len(t) % ByteRange, PA_CHANNELS_MAX)

\* luaL_checkinteger raises in the middle, and pa_xnew's memory is lost.
RaisesFromLua(t) == \E i \in 1..Channels(t) : t[i] \notin Int

\* Mutant: the loop starts at the second channel.
volume_from_lua_late(t) ==
    [channels |-> Channels(t),
     values |-> [i \in Cell |->
        IF 0 < i /\ i < Channels(t) THEN PA_CLAMP_VOLUME(uint32_t(t[i + 1])) ELSE Garbage]]

volume_from_lua(t) ==
    [channels |-> Channels(t),
     values |-> [i \in Cell |->
        IF i < Channels(t) THEN PA_CLAMP_VOLUME(uint32_t(t[i + 1])) ELSE Garbage]]

-----------------------------------------------------------------------------
\* Channels: index counts from 1, values from 0

\* Mutant: the value is not tested.
volume_set_untested(v, index, value) ==
    IF index - 1 \in Cell
    THEN Returns([v EXCEPT !.values[index - 1] = uint32_t(value)])
    ELSE IF index - 1 = PA_CHANNELS_MAX THEN Overruns(v) ELSE Raises(v)

\* The bound lets one index past the array.
volume_set(v, index, value) ==
    IF index - 1 < 0 \/ index - 1 > PA_CHANNELS_MAX \/ ~PA_VOLUME_IS_VALID(value) THEN Raises(v)
    ELSE IF index - 1 = PA_CHANNELS_MAX THEN Overruns(v)
    ELSE Returns([v EXCEPT !.values[index - 1] = uint32_t(value)])

\* The assignment v[index] = value.
volume__newindex(v, index, value) ==
    IF index < 1 \/ index > PA_CHANNELS_MAX + 1 \/ ~PA_VOLUME_IS_VALID(value) THEN Raises(v)
    ELSE IF index = PA_CHANNELS_MAX + 1 THEN Overruns(v)
    ELSE Returns([v EXCEPT !.values[index - 1] = uint32_t(value)])

\* Mutant: the index is not shifted to base 0.
volume_get_unshifted(v, index) ==
    {v.values[i] : i \in {index} \cap (1..(v.channels - 1))}

\* The level, or none if it raises, which it does for the first channel.
volume_get(v, index) ==
    {v.values[i] : i \in {index - 1} \cap (1..(v.channels - 1))}

\* Mutant: one channel more is let through.
volume_reset_beyond(v, n) ==
    IF n \in 0..(PA_CHANNELS_MAX + 1) THEN pa_cvolume_set(v, n, PA_VOLUME_NORM) ELSE Raises(v)

volume_reset(v, n) ==
    IF n \in 0..PA_CHANNELS_MAX THEN pa_cvolume_set(v, n, PA_VOLUME_NORM) ELSE Raises(v)

volume_mute(v, n) ==
    IF n \in 0..PA_CHANNELS_MAX THEN pa_cvolume_set(v, n, PA_VOLUME_MUTED) ELSE Raises(v)

-----------------------------------------------------------------------------
\* Arithmetic in place.  The value is tested as a number, and again by libpulse as a word.

Accepts(v, value) ==
    PA_VOLUME_IS_VALID(value) /\ PA_VOLUME_IS_VALID(uint32_t(value)) /\ pa_cvolume_valid(v)

volume_inc(v, value) ==
    IF Accepts(v, value) THEN pa_cvolume_inc(v, uint32_t(value)) ELSE Raises(v)

volume_dec(v, value) ==
    IF Accepts(v, value) THEN pa_cvolume_dec(v, uint32_t(value)) ELSE Raises(v)

volume_scale(v, value) ==
    IF Accepts(v, value) THEN pa_cvolume_scale(v, uint32_t(value)) ELSE Raises(v)

volume_multiply(v, u) ==
    IF pa_cvolume_valid(v) /\ pa_cvolume_valid(u) THEN pa_sw_cvolume_multiply(v, u) ELSE Raises(v)

volume_multiply_number(v, value) ==
    IF Accepts(v, value) THEN pa_sw_cvolume_multiply(v, Uniform(v, uint32_t(value))) ELSE Raises(v)

volume_divide(v, u) ==
    IF pa_cvolume_valid(v) /\ pa_cvolume_valid(u) THEN pa_sw_cvolume_divide(v, u) ELSE Raises(v)

volume_divide_number(v, value) ==
    IF Accepts(v, value) THEN pa_sw_cvolume_divide(v, Uniform(v, uint32_t(value))) ELSE Raises(v)
=============================================================================
