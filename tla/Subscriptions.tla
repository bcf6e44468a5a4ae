--------------------------- MODULE Subscriptions ---------------------------
(***************************************************************************)
(* The event subscriptions of a Context (context_subscribe and             *)
(* context_unsubscribe): a Lua table on the event callback's thread, the   *)
(* border of that table as the number of subscriptions, and a loop that    *)
(* shifts entries down one slot at a time.                                 *)
(*                                                                         *)
(* Subscriptions are numbered in the order they are made; two may be for   *)
(* the same Lua function.                                                  *)
(***************************************************************************)
EXTENDS Integers, Sequences

CONSTANTS
    Limit,      \* bound: subscriptions that are ever made
    SizeRange,  \* 2^w, where w is the width of size_t
    Id          \* numbers that unsubscribe may be given, besides the ones issued

ASSUME LimitAssumption == Limit \in Nat

\* lua_Integer and size_t have the same width, and no table is half as long as that.
ASSUME SizeAssumption ==
    /\ SizeRange \in Nat
    /\ 2 * Limit < SizeRange
    /\ Id \subseteq Int
    /\ \A i \in Id : -SizeRange <= 2 * i /\ 2 * i < SizeRange

size_t(i) == IF i < 0 THEN SizeRange + i ELSE i

VARIABLES
    tbl,    \* the table: [0..Limit+1 -> subscription, or 0 for nil]
    next,   \* how many subscriptions were made
    id,     \* [1..Limit -> the number subscribe returned, or 0]
    quit,   \* the subscriptions whose owner has unsubscribed with that number
    pc,     \* "idle", or "shifting" inside context_unsubscribe
    pos, len,   \* its local variables
    fate    \* of the program: "running" or "panic"

vars == <<tbl, next, id, quit, pc, pos, len, fate>>

TypeOK ==
    /\ tbl \in [0..(Limit + 1) -> 0..Limit]
    /\ next \in 0..Limit
    /\ id \in [1..Limit -> 0..Limit]
    /\ quit \subseteq 1..next
    /\ pc \in {"idle", "shifting"}
    /\ pos \in 0..(SizeRange - 1)
    /\ len \in 0..Limit
    /\ fate \in {"running", "panic"}

\* The table context_new creates.
Init ==
    /\ tbl = [k \in 0..(Limit + 1) |-> 0]
    /\ next = 0
    /\ id = [s \in 1..Limit |-> 0]
    /\ quit = {}
    /\ pc = "idle" /\ pos = 0 /\ len = 0
    /\ fate = "running"

\* lua_rawlen returns any border: an entry whose successor is nil, or 0.
Borders == {n \in 0..Limit : (n = 0 \/ tbl[n] # 0) /\ tbl[n + 1] = 0}

Idle == fate = "running" /\ pc = "idle"

\* Mutant: the number returned is the length before.
context_subscribe_short ==
    /\ Idle /\ next < Limit
    /\ \E n \in Borders :
        /\ tbl' = [tbl EXCEPT ![n + 1] = next + 1]
        /\ id' = [id EXCEPT ![next + 1] = n]
    /\ next' = next + 1
    /\ UNCHANGED <<quit, pc, pos, len, fate>>

context_subscribe ==
    /\ Idle /\ next < Limit
    /\ \E n \in Borders :
        /\ tbl' = [tbl EXCEPT ![n + 1] = next + 1]
        /\ id' = [id EXCEPT ![next + 1] = n + 1]
    /\ next' = next + 1
    /\ UNCHANGED <<quit, pc, pos, len, fate>>

\* Mutant: the position is signed.
context_unsubscribe_signed(i) ==
    /\ Idle
    /\ \E n \in Borders \ {0} : len' = n
    /\ pos' = i
    /\ pc' = "shifting"
    /\ UNCHANGED <<tbl, next, id, fate>>

\* context_unsubscribe up to its loop; the number is converted to a size_t.
context_unsubscribe(i) ==
    /\ Idle
    /\ \E n \in Borders \ {0} : len' = n
    /\ pos' = size_t(i)
    /\ pc' = "shifting"
    /\ UNCHANGED <<tbl, next, id, fate>>

UnsubscribeOwn(s) == s \notin quit /\ context_unsubscribe(id[s]) /\ quit' = quit \cup {s}

UnsubscribeAny(i) == context_unsubscribe(i) /\ UNCHANGED quit

\* Looking for a function, the loop over the table starts at a key the table does not
\* have.  lua_next raises on the event callback's thread, where nothing protects it.
UnsubscribeFunction ==
    /\ Idle /\ Borders # {0}
    /\ fate' = "panic"
    /\ UNCHANGED <<tbl, next, id, quit, pc, pos, len>>

\* Mutant: entries are shifted up.
ShiftUp ==
    /\ pc = "shifting" /\ pos < len
    /\ tbl' = [tbl EXCEPT ![pos + 1] = tbl[pos]]
    /\ pos' = pos + 1
    /\ UNCHANGED <<next, id, quit, pc, len, fate>>

Shift ==
    /\ pc = "shifting" /\ pos < len
    /\ tbl' = [tbl EXCEPT ![pos] = tbl[pos + 1]]
    /\ pos' = pos + 1
    /\ UNCHANGED <<next, id, quit, pc, len, fate>>

\* Mutants: the slot before the last is cleared; or none is.
FinishShort ==
    /\ pc = "shifting" /\ pos >= len
    /\ tbl' = [tbl EXCEPT ![len - 1] = 0]
    /\ pc' = "idle"
    /\ UNCHANGED <<next, id, quit, pos, len, fate>>

FinishUncleared ==
    /\ pc = "shifting" /\ pos >= len
    /\ pc' = "idle"
    /\ UNCHANGED <<tbl, next, id, quit, pos, len, fate>>

Finish ==
    /\ pc = "shifting" /\ pos >= len
    /\ tbl' = [tbl EXCEPT ![len] = 0]
    /\ pc' = "idle"
    /\ UNCHANGED <<next, id, quit, pos, len, fate>>

Next ==
    \/ context_subscribe
    \/ \E s \in 1..next : UnsubscribeOwn(s)
    \/ \E i \in Id : UnsubscribeAny(i)
    \/ UnsubscribeFunction
    \/ Shift
    \/ Finish

Spec == Init /\ [][Next]_vars

-----------------------------------------------------------------------------
(***************************************************************************)
(* Between calls the table is a list: its entries fill the slots from 1 up *)
(* without a hole, so that lua_rawlen has one border to find.              *)
(***************************************************************************)
NoHoles ==
    pc = "idle" => \A k \in 1..Limit : tbl[k] = 0 => tbl[k + 1] = 0

(***************************************************************************)
(* Between calls the entries are in the order they were subscribed, and    *)
(* none is there twice, whichever entries were removed before.             *)
(***************************************************************************)
OrderKept ==
    pc = "idle" =>
        \A j, k \in 1..Limit : j < k /\ tbl[k] # 0 => tbl[j] < tbl[k]

(***************************************************************************)
(* A number that was issued never lies below the position its subscription *)
(* has now: entries move down only.  So a stale number removes the         *)
(* subscription itself or a later one, and never an earlier one.           *)
(***************************************************************************)
IdNeverBelow ==
    pc = "idle" => \A k \in 1..Limit : tbl[k] # 0 => k <= id[tbl[k]]

\* The list that the table is, or will be when the loop is done.
list ==
    IF pc = "idle"
    THEN LET n == CHOOSE b \in Borders : TRUE IN [k \in 1..n |-> tbl[k]]
    ELSE [k \in 1..(len - 1) |-> IF k < pos THEN tbl[k] ELSE tbl[k + 1]]

Abstract == INSTANCE SubscriptionList

(***************************************************************************)
(* The table and its loop implement the list: an unsubscribe takes out     *)
(* exactly one entry, keeps the others in order, and which one it takes is *)
(* settled before the loop starts.                                         *)
(***************************************************************************)
ImplementsSubscriptionList == Abstract!Spec

-----------------------------------------------------------------------------
\* What the documentation says and the code does not do.

(***************************************************************************)
(* context.h says a handler is unsubscribed with the number subscribe      *)
(* returned.  The number is a position, and positions move: it may remove  *)
(* somebody else's handler and leave one's own.                            *)
(***************************************************************************)
OwnIdRemovesOwn ==
    pc = "idle" =>
        {s \in 1..next : s \notin quit} = {tbl[k] : k \in 1..Limit} \ {0}
=============================================================================
