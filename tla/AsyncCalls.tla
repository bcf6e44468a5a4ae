----------------------------- MODULE AsyncCalls -----------------------------
(***************************************************************************)
(* What a Context promises about its asynchronous calls, with no threads,  *)
(* registry, states or frames.  A call is rejected on the spot, or it      *)
(* waits; a waiting call is answered, once, or dropped; and calls are      *)
(* dropped only all together, when the Context closes, after which none    *)
(* waits again.                                                            *)
(***************************************************************************)
CONSTANT Call

VARIABLES
    outcome,    \* [Call -> what has become of it]
    closed      \* will no call be accepted any more?

vars == <<outcome, closed>>

TypeOK ==
    /\ outcome \in [Call -> {"unused", "rejected", "waiting", "answered", "dropped"}]
    /\ closed \in BOOLEAN

Init ==
    /\ outcome = [c \in Call |-> "unused"]
    /\ closed = FALSE

Become(c, from, to) ==
    /\ outcome[c] = from
    /\ outcome' = [outcome EXCEPT ![c] = to]
    /\ UNCHANGED closed

Reject(c) == Become(c, "unused", "rejected")
Submit(c) == ~closed /\ Become(c, "unused", "waiting")
Answer(c) == ~closed /\ Become(c, "waiting", "answered")

Close ==
    /\ ~closed
    /\ closed' = TRUE
    /\ outcome' = [c \in Call |-> IF outcome[c] = "waiting" THEN "dropped" ELSE outcome[c]]

Next ==
    \/ \E c \in Call : Reject(c) \/ Submit(c) \/ Answer(c)
    \/ Close

Spec == Init /\ [][Next]_vars
=============================================================================
