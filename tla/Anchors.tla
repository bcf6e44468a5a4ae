------------------------------ MODULE Anchors ------------------------------
(***************************************************************************)
(* What callback.c promises to whoever hands callback data to libpulse,    *)
(* with no slots, threads or pointers: data is held from the moment it is  *)
(* prepared until it is released, it is released once, and what one user   *)
(* of the registry does changes nothing for another.  A thread anchored    *)
(* for data that was never made is lost, and stays where it is.            *)
(***************************************************************************)
CONSTANTS
    Data,   \* the identities of callback data
    Born    \* those there are at first

VARIABLE anchor     \* [Data -> "none", "held", "lost" or "released"]

Init == anchor = [d \in Data |-> IF d \in Born THEN "held" ELSE "none"]

Move(D, from, to) ==
    /\ \A d \in D : anchor[d] = from
    /\ anchor' = [d \in Data |-> IF d \in D THEN to ELSE anchor[d]]

Hold(d)    == Move({d}, "none", "held")
Lose(d)    == Move({d}, "none", "lost")
Release(D) == Move(D, "held", "released")

Next ==
    \/ \E d \in Data : Hold(d) \/ Lose(d)
    \/ \E D \in SUBSET Data : Release(D)

Spec == Init /\ [][Next]_anchor
=============================================================================
