-------------------------- MODULE SubscriptionList --------------------------
(***************************************************************************)
(* What the subscriptions of a Context are to its user: a list in the      *)
(* order of subscription.  Subscribing appends and returns the new length. *)
(* Unsubscribing takes exactly one entry out: the one at the position that *)
(* was given, the first for 0, and the last for a position beyond the end  *)
(* or below zero.                                                          *)
(***************************************************************************)
EXTENDS Integers, Sequences

CONSTANTS
    Limit,  \* subscriptions that are ever made
    Id      \* numbers that unsubscribe may be given

VARIABLES
    list,   \* the subscriptions, numbered in the order they were made
    next,   \* how many were made
    id      \* [1..Limit -> the number subscribe returned, or 0]

vars == <<list, next, id>>

Init ==
    /\ list = <<>>
    /\ next = 0
    /\ id = [s \in 1..Limit |-> 0]

Subscribe ==
    /\ next < Limit
    /\ next' = next + 1
    /\ list' = Append(list, next + 1)
    /\ id' = [id EXCEPT ![next + 1] = Len(list) + 1]

Victim(i) ==
    IF i = 0 THEN 1
    ELSE IF i \in 1..Len(list) THEN i
    ELSE Len(list)

Without(v) ==
    [k \in 1..(Len(list) - 1) |-> IF k < v THEN list[k] ELSE list[k + 1]]

Unsubscribe(i) ==
    /\ list # <<>>
    /\ list' = Without(Victim(i))
    /\ UNCHANGED <<next, id>>

Next ==
    \/ Subscribe
    \/ \E i \in Id \cup {id[s] : s \in 1..next} : Unsubscribe(i)

Spec == Init /\ [][Next]_vars
=============================================================================
