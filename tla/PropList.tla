------------------------------ MODULE PropList ------------------------------
(***************************************************************************)
(* Property lists and the C memory behind userdata (proplist.c).  A        *)
(* property list is a userdata with a pointer to a pa_proplist of its own, *)
(* copied from a source: the list pa_proplist_new made, or the copy that   *)
(* convert.c makes of a list in an info structure.  The finalizer frees    *)
(* the copy.  Nothing frees the source.                                    *)
(***************************************************************************)
EXTENDS Integers

CONSTANTS
    Limit,      \* bound: userdata that are ever made
    Key,        \* the keys a program may use
    ValidKey,   \* the ones pa_proplist_key_valid takes
    Text,       \* values that are UTF-8 text
    Binary,     \* a value that is not, which only a server sets
    Nil         \* no value, in Lua

ASSUME PropListAssumption ==
    /\ Limit \in Nat
    /\ ValidKey \subseteq Key
    /\ Binary \notin Text
    /\ Nil \notin Text \cup {Binary}

Object == 1..Limit

Content == [ValidKey -> Text \cup {Binary, Nil}]

Empty == [k \in ValidKey |-> Nil]

VARIABLES
    source,     \* [Object -> {"none", "live", "freed"}]: what an object was made from
    own,        \* [Object -> {"none", "live", "freed"}]: the copy a property list owns
    content     \* [Object -> what the copy says for every key]

propListVars == <<source, own, content>>

PropListTypeOK ==
    /\ source \in [Object -> {"none", "live", "freed"}]
    /\ own \in [Object -> {"none", "live", "freed"}]
    /\ content \in [Object -> Content]

PropListInit ==
    /\ source = [x \in Object |-> "none"]
    /\ own = [x \in Object |-> "none"]
    /\ content = [x \in Object |-> Empty]

\* The objects of the set X, made from sources that say c.
proplist_to_lua(X, c) ==
    /\ source' = [x \in Object |-> IF x \in X THEN "live" ELSE source[x]]
    /\ own' = [x \in Object |-> IF x \in X THEN "live" ELSE own[x]]
    /\ content' = [x \in Object |-> IF x \in X THEN c ELSE content[x]]

proplist_new(x) == proplist_to_lua({x}, Empty)

\* A string can spell any content.  One that does not parse makes proplist_to_lua raise
\* before there is anything to lose.
proplist_from_string(x, c) == proplist_to_lua({x}, c)

\* Raises, and changes nothing, if the key is not valid or has no value.
Unset(x, k) ==
    /\ content' = IF k \in ValidKey THEN [content EXCEPT ![x][k] = Nil] ELSE content
    /\ UNCHANGED <<source, own>>

\* Raises, and changes nothing, if the key is not valid or the string is not text.
Sets(x, k, v) ==
    /\ content' = IF k \in ValidKey /\ v \in Text THEN [content EXCEPT ![x][k] = v] ELSE content
    /\ UNCHANGED <<source, own>>

proplist__newindex(x, k, v) == IF v = Nil THEN Unset(x, k) ELSE Sets(x, k, v)

\* What x[k] is: nil for bytes that are no text too; none if it raises.
proplist__index(x, k) ==
    {IF content[x][j] = Binary THEN Nil ELSE content[x][j] : j \in {k} \cap ValidKey}

\* Mutant: the finalizer does not free.
proplist__gc_idle(x) ==
    /\ content' = [content EXCEPT ![x] = Empty]
    /\ UNCHANGED <<source, own>>

proplist__gc(x) ==
    /\ own' = [own EXCEPT ![x] = "freed"]
    /\ content' = [content EXCEPT ![x] = Empty]
    /\ UNCHANGED source
=============================================================================
