------------------------------- MODULE Values -------------------------------
(***************************************************************************)
(* What Volumes and PropLists are to a program: each object is a value of  *)
(* its own, a Volume a sequence of levels with one for every channel, a    *)
(* PropList a table.  A call changes the value of one object and of no     *)
(* other, and whatever an object answers is in its value.  There is no     *)
(* memory, no capacity, and nothing that could be read before it was       *)
(* written.                                                                *)
(***************************************************************************)
EXTENDS Integers, Sequences

CONSTANTS
    Limit,          \* objects that are ever made
    ChannelsMax,    \* channels of a Volume
    Levels,         \* what a channel may be at
    Loudest,        \* the highest level there should be
    Content,        \* what a PropList may say
    Empty,          \* a PropList that says nothing, or that is gone
    Nil             \* no answer

VARIABLES
    made,       \* how many objects were made
    levels,     \* [1..Limit -> the levels of a Volume; none for others]
    texts,      \* [1..Limit -> what a PropList says]
    answer      \* of the last call: the object, the channel or key, what is there

vars == <<made, levels, texts, answer>>

Init ==
    /\ made = 0
    /\ levels = [x \in 1..Limit |-> << >>]
    /\ texts = [x \in 1..Limit |-> Empty]
    /\ answer = Nil

Volume == UNION {[1..n -> Levels] : n \in 0..ChannelsMax}

\* Objects are made with any value, and nothing else changes.
Make ==
    /\ made' \in made..Limit /\ answer' = Nil
    /\ levels' \in [1..Limit -> Volume]
    /\ texts' \in [1..Limit -> Content]
    /\ \A x \in 1..Limit : x \in (made + 1)..made' \/ (levels'[x] = levels[x] /\ texts'[x] = texts[x])

Change(x, s) ==
    /\ levels' = [levels EXCEPT ![x] = s]
    /\ answer' = Nil
    /\ UNCHANGED <<made, texts>>

\* One channel is set.
Put(x) ==
    \E i \in DOMAIN levels[x], level \in Levels : Change(x, [levels[x] EXCEPT ![i] = level])

\* All channels are set, and how many they are.
Fill(x) ==
    \E n \in 1..ChannelsMax, level \in 0..Loudest : Change(x, [i \in 1..n |-> level])

\* Levels are computed from levels, on some of the channels there were.
Compute(x) ==
    \E n \in 1..Len(levels[x]) : \E s \in [1..n -> 0..Loudest] : Change(x, s)

\* One key is set, or unset.
Write(x) ==
    /\ \E k \in DOMAIN Empty, c \in Content : texts' = [texts EXCEPT ![x][k] = c[k]]
    /\ answer' = Nil
    /\ UNCHANGED <<made, levels>>

Read(x) ==
    /\ \/ \E i \in DOMAIN levels[x] : answer' = <<x, i, levels[x][i]>>
       \/ \E k \in DOMAIN Empty : answer' = <<x, k, texts[x][k]>>
    /\ UNCHANGED <<made, levels, texts>>

\* Objects that are out of reach have no value any more.
Forget ==
    \E X \in SUBSET (1..made) :
        /\ levels' = [x \in 1..Limit |-> IF x \in X THEN << >> ELSE levels[x]]
        /\ texts' = [x \in 1..Limit |-> IF x \in X THEN Empty ELSE texts[x]]
        /\ answer' = Nil
        /\ UNCHANGED made

Other == answer' = Nil /\ UNCHANGED <<made, levels, texts>>

Next ==
    \/ Make \/ Forget \/ Other
    \/ \E x \in 1..made : Put(x) \/ Fill(x) \/ Compute(x) \/ Write(x) \/ Read(x)

Spec == Init /\ [][Next]_vars
=============================================================================
