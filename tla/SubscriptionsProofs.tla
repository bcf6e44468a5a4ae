------------------------ MODULE SubscriptionsProofs ------------------------
(***************************************************************************)
(* Proofs about the subscriptions of a Context, for any number of them.    *)
(*                                                                         *)
(* What is inductive has to speak of the table in the middle of the loop,  *)
(* where an entry that was just copied down is there twice.                *)
(***************************************************************************)
EXTENDS Subscriptions, TLAPS

\* The table's entries fill the slots 1..n, and nothing lies above.
Compact(n) == \A k \in 1..(Limit + 1) : tbl[k] # 0 <=> k <= n

\* Only existing subscriptions are in the table.
Issued == \A k \in 1..Limit : tbl[k] <= next

\* The loop's one exception: the entry it copied last is also still where it was.
Copied(j, k) == pc = "shifting" /\ k = pos /\ j = pos - 1

Sorted ==
    \A j, k \in 1..Limit :
        j < k /\ tbl[k] # 0 /\ ~Copied(j, k) => tbl[j] < tbl[k]

\* Positions move down only, and nothing is appended beyond what was ever made.
Placed ==
    /\ \A k \in 1..Limit : tbl[k] # 0 => k <= id[tbl[k]]
    /\ \A s \in 1..Limit : id[s] <= s
    /\ \A s \in 1..next : 1 <= id[s]

Filled ==
    /\ pc = "idle" => \E n \in 0..Limit : Compact(n)
    /\ pc = "shifting" => len >= 1 /\ Compact(len)

IInv == TypeOK /\ Filled /\ Issued /\ Sorted /\ Placed

-----------------------------------------------------------------------------
\* What the type invariant says of the variables, one element at a time.
LEMMA Typed ==
    ASSUME TypeOK
    PROVE  /\ tbl \in [0..(Limit + 1) -> 0..Limit] /\ id \in [1..Limit -> 0..Limit]
           /\ \A k \in 0..(Limit + 1) : tbl[k] \in 0..Limit
           /\ \A s \in 1..Limit : id[s] \in 0..Limit
           /\ pos \in Nat /\ len \in 0..Limit /\ next \in 0..Limit
<1>1. pos \in Nat
  BY LimitAssumption, SizeAssumption DEF TypeOK
<1>2. /\ tbl \in [0..(Limit + 1) -> 0..Limit] /\ id \in [1..Limit -> 0..Limit]
      /\ len \in 0..Limit /\ next \in 0..Limit
  BY DEF TypeOK
<1>3. /\ \A k \in 0..(Limit + 1) : tbl[k] \in 0..Limit
      /\ \A s \in 1..Limit : id[s] \in 0..Limit
  BY <1>2
<1> QED
  BY <1>1, <1>2, <1>3

\* A table without holes has one border, the one lua_rawlen finds.
LEMMA OneBorder ==
    ASSUME NEW n \in 0..Limit, Compact(n)
    PROVE  Borders = {n}
  BY LimitAssumption, SMT DEF Compact, Borders

\* What lua_rawlen finds between calls: the number of entries.
LEMMA BorderFills ==
    ASSUME IInv, pc = "idle", NEW n \in Borders
    PROVE  n \in 0..Limit /\ Compact(n) /\ Borders = {n}
<1>1. PICK m \in 0..Limit : Compact(m)
  BY DEF IInv, Filled
<1>2. Borders = {m}
  BY <1>1, OneBorder
<1> QED
  BY <1>1, <1>2

\* There are no more entries than subscriptions were made, so an append has room.
LEMMA RoomForOne ==
    ASSUME IInv, NEW n \in 0..Limit, Compact(n)
    PROVE  n <= next
<1>1. CASE n = 0
  BY <1>1 DEF IInv, TypeOK
<1>2. CASE n # 0
  <2>1. n \in 1..Limit /\ n \in 1..(Limit + 1) /\ tbl[n] # 0
    BY <1>2, LimitAssumption DEF Compact
  <2>2. tbl[n] \in 1..Limit
    BY <2>1, LimitAssumption DEF IInv, TypeOK
  <2>3. n <= id[tbl[n]] /\ id[tbl[n]] <= tbl[n] /\ tbl[n] <= next
    BY <2>1, <2>2 DEF IInv, Placed, Issued
  <2>4. id[tbl[n]] \in Nat /\ next \in Nat
    BY <2>2, LimitAssumption DEF IInv, TypeOK
  <2> QED
    BY <2>2, <2>3, <2>4
<1> QED
  BY <1>1, <1>2

\* Whatever number unsubscribe is given, its position is a size_t.
LEMMA Positions ==
    ASSUME NEW i \in Id \cup 0..Limit
    PROVE  size_t(i) \in 0..(SizeRange - 1)
  BY LimitAssumption, SizeAssumption, SMT DEF size_t

-----------------------------------------------------------------------------
LEMMA InitInvariant == Init => IInv
<1> SUFFICES ASSUME Init PROVE IInv
  OBVIOUS
<1>1. TypeOK
  BY LimitAssumption, SizeAssumption DEF Init, TypeOK
<1>2. Compact(0)
  BY LimitAssumption DEF Init, Compact
<1>3. Filled
  BY <1>2, LimitAssumption DEF Init, Filled
<1>4. Issued /\ Sorted /\ Placed
  BY LimitAssumption DEF Init, Issued, Sorted, Placed
<1> QED
  BY <1>1, <1>3, <1>4 DEF IInv

LEMMA SubscribeKeeps == IInv /\ context_subscribe => IInv'
<1> SUFFICES ASSUME IInv, context_subscribe PROVE IInv'
  OBVIOUS
<1> USE LimitAssumption
<1>1. PICK n \in Borders :
        /\ tbl' = [tbl EXCEPT ![n + 1] = next + 1]
        /\ id' = [id EXCEPT ![next + 1] = n + 1]
  BY DEF context_subscribe
<1>2. UNCHANGED <<quit, pc, pos, len, fate>>
  BY DEF context_subscribe
<1>3. pc = "idle" /\ next < Limit /\ next' = next + 1 /\ next \in 0..Limit
  BY DEF context_subscribe, Idle, IInv, TypeOK
<1>4. n \in 0..Limit /\ Compact(n) /\ n <= next
  BY <1>3, BorderFills, RoomForOne
<1>5. tbl \in [0..(Limit + 1) -> 0..Limit] /\ id \in [1..Limit -> 0..Limit]
  BY Typed DEF IInv
<1>6. /\ \A k \in 0..(Limit + 1) : tbl[k] \in 0..Limit
      /\ \A s \in 1..Limit : id[s] \in 0..Limit
  BY Typed DEF IInv
<1>7. /\ n + 1 \in 1..Limit /\ next + 1 \in 1..Limit
      /\ \A k \in 0..(Limit + 1) : tbl'[k] = IF k = n + 1 THEN next + 1 ELSE tbl[k]
      /\ \A s \in 1..Limit : id'[s] = IF s = next + 1 THEN n + 1 ELSE id[s]
  BY <1>1, <1>3, <1>4, <1>5
<1>8. TypeOK'
  <2>1. n + 1 \in 0..(Limit + 1) /\ next + 1 \in 0..Limit /\ n + 1 \in 0..Limit
    BY <1>3, <1>4
  <2>2. tbl' \in [0..(Limit + 1) -> 0..Limit] /\ id' \in [1..Limit -> 0..Limit]
    BY <2>1, <1>1, <1>5
  <2>3. next' \in 0..Limit /\ quit' \subseteq 1..next'
    BY <1>2, <1>3 DEF IInv, TypeOK
  <2> QED
    BY <2>2, <2>3, <1>2 DEF IInv, TypeOK
<1>9. Filled'
  <2>1. Compact(n + 1)'
    BY <1>4, <1>6, <1>7 DEF Compact
  <2> QED
    BY <2>1, <1>2, <1>3, <1>7 DEF Filled
<1>10. Issued'
  BY <1>3, <1>4, <1>6, <1>7 DEF IInv, Issued
<1>11. Sorted'
  <2> SUFFICES ASSUME NEW j \in 1..Limit, NEW k \in 1..Limit,
                      j < k, tbl'[k] # 0
               PROVE  tbl'[j] < tbl'[k]
    BY DEF Sorted
  <2>1. CASE k = n + 1
    BY <2>1, <1>3, <1>4, <1>6, <1>7 DEF IInv, Issued
  <2>2. CASE k # n + 1
    <3>1. k <= n
      BY <2>2, <1>4, <1>7 DEF Compact
    <3>2. tbl[j] < tbl[k]
      BY <2>2, <1>3, <1>7 DEF IInv, Sorted, Copied
    <3> QED
      BY <2>2, <3>1, <3>2, <1>4, <1>7
  <2> QED
    BY <2>1, <2>2
<1>12. Placed'
  <2>1. \A k \in 1..Limit : tbl'[k] # 0 => k <= id'[tbl'[k]]
    <3> SUFFICES ASSUME NEW k \in 1..Limit, tbl'[k] # 0
                 PROVE  k <= id'[tbl'[k]]
      OBVIOUS
    <3>1. CASE k = n + 1
      BY <3>1, <1>7
    <3>2. CASE k # n + 1
      <4>1. tbl[k] # 0 /\ tbl'[k] = tbl[k] /\ tbl[k] \in 1..next
        BY <3>2, <1>3, <1>4, <1>6, <1>7 DEF IInv, Issued
      <4>2. k <= id[tbl[k]] /\ id'[tbl[k]] = id[tbl[k]]
        BY <4>1, <1>3, <1>7 DEF IInv, Placed
      <4> QED
        BY <4>1, <4>2
    <3> QED
      BY <3>1, <3>2
  <2>2. \A s \in 1..Limit : id'[s] <= s
    BY <1>3, <1>4, <1>7 DEF IInv, Placed
  <2>3. \A s \in 1..next' : 1 <= id'[s]
    BY <1>3, <1>4, <1>7 DEF IInv, Placed
  <2> QED
    BY <2>1, <2>2, <2>3 DEF Placed
<1> QED
  BY <1>8, <1>9, <1>10, <1>11, <1>12 DEF IInv

LEMMA UnsubscribeKeeps ==
    ASSUME IInv, NEW i \in Id \cup 0..Limit, context_unsubscribe(i),
           quit' \subseteq 1..next
    PROVE  IInv'
<1> USE LimitAssumption
<1>1. /\ pc = "idle" /\ pc' = "shifting" /\ pos' = size_t(i)
      /\ UNCHANGED <<tbl, next, id, fate>>
  BY DEF context_unsubscribe, Idle
<1>2. PICK n \in Borders \ {0} : len' = n
  BY DEF context_unsubscribe
<1>3. n \in 1..Limit /\ Compact(n)
  BY <1>1, <1>2, BorderFills
<1>4. TypeOK'
  <2>1. pos' \in 0..(SizeRange - 1) /\ len' \in 0..Limit
    BY <1>1, <1>2, <1>3, Positions
  <2> QED
    BY <2>1, <1>1 DEF IInv, TypeOK
<1>5. Filled'
  BY <1>1, <1>2, <1>3 DEF Filled, Compact
<1>6. Issued' /\ Sorted' /\ Placed'
  BY <1>1 DEF IInv, Issued, Sorted, Copied, Placed
<1> QED
  BY <1>4, <1>5, <1>6 DEF IInv

LEMMA ShiftKeeps == IInv /\ Shift => IInv'
<1> SUFFICES ASSUME IInv, Shift PROVE IInv'
  OBVIOUS
<1> USE LimitAssumption
<1>1. UNCHANGED <<next, id, quit, pc, len, fate>>
  BY DEF Shift
<1>2. /\ pc = "shifting" /\ pos < len /\ pos' = pos + 1
      /\ tbl' = [tbl EXCEPT ![pos] = tbl[pos + 1]]
  BY DEF Shift
<1>3. tbl \in [0..(Limit + 1) -> 0..Limit]
  BY Typed DEF IInv
<1>4. /\ \A k \in 0..(Limit + 1) : tbl[k] \in 0..Limit
      /\ \A s \in 1..Limit : id[s] \in 0..Limit
      /\ pos \in Nat /\ len \in 0..Limit /\ next \in 0..Limit
  BY Typed DEF IInv
<1>5. /\ pos + 1 \in 1..Limit
      /\ \A k \in 0..(Limit + 1) : tbl'[k] = IF k = pos THEN tbl[pos + 1] ELSE tbl[k]
  BY <1>2, <1>4, <1>3
<1>6. Compact(len) /\ len >= 1 /\ tbl[pos + 1] # 0
  BY <1>2, <1>4, <1>5 DEF IInv, Filled, Compact
<1>7. TypeOK'
  <2>1. pos \in 0..(Limit + 1) /\ tbl[pos + 1] \in 0..Limit
    BY <1>4, <1>5
  <2>2. tbl' \in [0..(Limit + 1) -> 0..Limit]
    BY <2>1, <1>2, <1>3
  <2>3. pos' \in 0..(SizeRange - 1)
    BY <1>2, <1>4, SizeAssumption
  <2> QED
    BY <2>3, <2>2, <1>1 DEF IInv, TypeOK
<1>8. Filled'
  <2>1. Compact(len)'
    BY <1>1, <1>4, <1>5, <1>6 DEF Compact
  <2> QED
    BY <2>1, <1>1, <1>2, <1>6 DEF Filled
<1>9. Issued'
  BY <1>1, <1>4, <1>5 DEF IInv, Issued
<1>10. Sorted'
  <2> SUFFICES ASSUME NEW j \in 1..Limit, NEW k \in 1..Limit,
                      j < k, tbl'[k] # 0, ~(k = pos + 1 /\ j = pos)
               PROVE  tbl'[j] < tbl'[k]
    BY <1>1, <1>2, <1>4 DEF Sorted, Copied
  <2>1. CASE k = pos
    BY <2>1, <1>2, <1>4, <1>5, <1>6 DEF IInv, Sorted, Copied
  <2>2. CASE j = pos
    BY <2>2, <1>2, <1>4, <1>5, <1>6 DEF IInv, Sorted, Copied
  <2>3. CASE j # pos /\ k # pos
    BY <2>3, <1>2, <1>4, <1>5 DEF IInv, Sorted, Copied
  <2> QED
    BY <2>1, <2>2, <2>3
<1>11. Placed'
  <2>1. \A k \in 1..Limit : tbl'[k] # 0 => k <= id'[tbl'[k]]
    <3> SUFFICES ASSUME NEW k \in 1..Limit, tbl'[k] # 0
                 PROVE  k <= id[tbl'[k]]
      BY <1>1
    <3>1. CASE k = pos
      <4>1. pos + 1 <= id[tbl[pos + 1]] /\ tbl[pos + 1] \in 1..Limit
        BY <1>4, <1>5, <1>6 DEF IInv, Placed
      <4> QED
        BY <3>1, <4>1, <1>4, <1>5
    <3>2. CASE k # pos
      BY <3>2, <1>5 DEF IInv, Placed
    <3> QED
      BY <3>1, <3>2
  <2> QED
    BY <2>1, <1>1 DEF IInv, Placed
<1> QED
  BY <1>7, <1>8, <1>9, <1>10, <1>11 DEF IInv

LEMMA FinishKeeps == IInv /\ Finish => IInv'
<1> SUFFICES ASSUME IInv, Finish PROVE IInv'
  OBVIOUS
<1> USE LimitAssumption
<1>1. UNCHANGED <<next, id, quit, pos, len, fate>>
  BY DEF Finish
<1>2. /\ pc = "shifting" /\ pc' = "idle" /\ pos >= len
      /\ tbl' = [tbl EXCEPT ![len] = 0]
  BY DEF Finish
<1>3. tbl \in [0..(Limit + 1) -> 0..Limit]
  BY Typed DEF IInv
<1>4. /\ \A k \in 0..(Limit + 1) : tbl[k] \in 0..Limit
      /\ \A s \in 1..Limit : id[s] \in 0..Limit
      /\ pos \in Nat /\ len \in 0..Limit /\ next \in 0..Limit
  BY Typed DEF IInv
<1>5. Compact(len) /\ len >= 1
  BY <1>2 DEF IInv, Filled
<1>6. \A k \in 0..(Limit + 1) : tbl'[k] = IF k = len THEN 0 ELSE tbl[k]
  BY <1>2, <1>4, <1>3
<1>7. TypeOK'
  <2>1. tbl' \in [0..(Limit + 1) -> 0..Limit]
    BY <1>2, <1>4, <1>3
  <2> QED
    BY <2>1, <1>1, <1>2 DEF IInv, TypeOK
<1>8. Filled'
  <2>1. len - 1 \in 0..Limit
    BY <1>4, <1>5
  <2>2. \A k \in 1..(Limit + 1) : tbl'[k] # 0 <=> k <= len - 1
    BY <1>4, <1>5, <1>6 DEF Compact
  <2>3. \E n \in 0..Limit : \A k \in 1..(Limit + 1) : tbl'[k] # 0 <=> k <= n
    BY <2>1, <2>2
  <2> QED
    BY <2>3, <1>2 DEF Filled, Compact
<1>9. Issued'
  BY <1>1, <1>4, <1>6 DEF IInv, Issued
<1>10. Sorted'
  <2> SUFFICES ASSUME NEW j \in 1..Limit, NEW k \in 1..Limit, j < k, tbl'[k] # 0
               PROVE  tbl'[j] < tbl'[k]
    BY DEF Sorted
  <2>1. k < len /\ tbl'[k] = tbl[k] /\ tbl'[j] = tbl[j]
    BY <1>4, <1>5, <1>6 DEF Compact
  <2>2. ~Copied(j, k)
    BY <2>1, <1>2, <1>4 DEF Copied
  <2> QED
    BY <2>1, <2>2 DEF IInv, Sorted
<1>11. Placed'
  BY <1>1, <1>6 DEF IInv, Placed
<1> QED
  BY <1>7, <1>8, <1>9, <1>10, <1>11 DEF IInv

LEMMA NextInvariant == IInv /\ [Next]_vars => IInv'
<1> SUFFICES ASSUME IInv, [Next]_vars PROVE IInv'
  OBVIOUS
<1>1. CASE context_subscribe
  BY <1>1, SubscribeKeeps
<1>2. ASSUME NEW s \in 1..next, UnsubscribeOwn(s) PROVE IInv'
  <2>1. id[s] \in Id \cup 0..Limit /\ s \in 1..Limit
    BY <1>2, LimitAssumption DEF IInv, TypeOK
  <2>2. quit' \subseteq 1..next
    BY <1>2 DEF UnsubscribeOwn, IInv, TypeOK
  <2> QED
    BY <1>2, <2>1, <2>2, UnsubscribeKeeps DEF UnsubscribeOwn
<1>3. ASSUME NEW i \in Id, UnsubscribeAny(i) PROVE IInv'
  <2>1. quit' \subseteq 1..next
    BY <1>3 DEF UnsubscribeAny, IInv, TypeOK
  <2> QED
    BY <1>3, <2>1, UnsubscribeKeeps DEF UnsubscribeAny
<1>4. CASE UnsubscribeFunction
  BY <1>4 DEF UnsubscribeFunction, IInv, TypeOK, Filled, Compact, Issued, Sorted,
              Copied, Placed
<1>5. CASE Shift
  BY <1>5, ShiftKeeps
<1>6. CASE Finish
  BY <1>6, FinishKeeps
<1>7. CASE UNCHANGED vars
  BY <1>7 DEF vars, IInv, TypeOK, Filled, Compact, Issued, Sorted, Copied, Placed
<1> QED
  BY <1>1, <1>2, <1>3, <1>4, <1>5, <1>6, <1>7 DEF Next

LEMMA Invariant == Spec => []IInv
  BY InitInvariant, NextInvariant, PTL DEF Spec

-----------------------------------------------------------------------------
(***************************************************************************)
(* The table, the loop's position and the numbers that were issued have    *)
(* their types: in particular no step writes outside the table.            *)
(***************************************************************************)
THEOREM TypeCorrect == Spec => []TypeOK
<1>1. IInv => TypeOK
  BY DEF IInv
<1> QED
  BY <1>1, Invariant, PTL

(***************************************************************************)
(* Between calls of context_subscribe and context_unsubscribe the table    *)
(* has no hole, however many subscriptions came and went.                  *)
(***************************************************************************)
THEOREM NeverHoles == Spec => []NoHoles
<1>1. IInv => NoHoles
  BY LimitAssumption DEF IInv, Filled, Compact, NoHoles
<1> QED
  BY <1>1, Invariant, PTL

(***************************************************************************)
(* Between calls the handlers are in the order they were subscribed, none  *)
(* twice: context_unsubscribe's loop neither reorders nor duplicates.      *)
(***************************************************************************)
THEOREM AlwaysInOrder == Spec => []OrderKept
<1>1. IInv => OrderKept
  BY DEF IInv, Sorted, Copied, OrderKept
<1> QED
  BY <1>1, Invariant, PTL

(***************************************************************************)
(* A number context_subscribe returned is never below the position its     *)
(* handler has: a stale number never removes an earlier handler.           *)
(***************************************************************************)
THEOREM NumbersFromAbove == Spec => []IdNeverBelow
<1>1. IInv => IdNeverBelow
  BY DEF IInv, Placed, IdNeverBelow
<1> QED
  BY <1>1, Invariant, PTL

-----------------------------------------------------------------------------
\* Between calls the list is the table's entries.
LEMMA ListOf ==
    ASSUME pc = "idle", NEW n \in 0..Limit, Compact(n)
    PROVE  list = [k \in 1..n |-> tbl[k]]
<1>1. (CHOOSE b \in Borders : TRUE) = n
  BY OneBorder
<1> QED
  BY <1>1 DEF list

LEMMA InitRefines == Init => Abstract!Init
<1> SUFFICES ASSUME Init PROVE Abstract!Init
  OBVIOUS
<1>1. Compact(0) /\ 0 \in 0..Limit /\ pc = "idle"
  BY LimitAssumption DEF Init, Compact
<1>2. list = [k \in 1..0 |-> tbl[k]]
  BY <1>1, ListOf
<1>3. list = <<>>
  BY <1>2
<1> QED
  BY <1>3 DEF Init, Abstract!Init

LEMMA SubscribeRefines == IInv /\ context_subscribe => Abstract!Subscribe
<1> SUFFICES ASSUME IInv, context_subscribe PROVE Abstract!Subscribe
  OBVIOUS
<1> USE LimitAssumption
<1>1. PICK n \in Borders :
        /\ tbl' = [tbl EXCEPT ![n + 1] = next + 1]
        /\ id' = [id EXCEPT ![next + 1] = n + 1]
  BY DEF context_subscribe
<1>2. pc = "idle" /\ pc' = "idle" /\ next < Limit /\ next' = next + 1
  BY DEF context_subscribe, Idle
<1>3. n \in 0..Limit /\ Compact(n) /\ n <= next /\ next \in 0..Limit
  BY <1>2, BorderFills, RoomForOne DEF IInv, TypeOK
<1>4. tbl \in [0..(Limit + 1) -> 0..Limit]
  BY DEF IInv, TypeOK
<1>5. /\ n + 1 \in 0..Limit
      /\ \A k \in 0..(Limit + 1) : tbl'[k] = IF k = n + 1 THEN next + 1 ELSE tbl[k]
  BY <1>1, <1>2, <1>3, <1>4
<1>6. Compact(n + 1)'
  BY <1>3, <1>4, <1>5 DEF Compact
<1>7. list = [k \in 1..n |-> tbl[k]]
  BY <1>2, <1>3, ListOf
<1>8. list' = [k \in 1..(n + 1) |-> tbl'[k]]
  <2>1. Borders' = {n + 1}
    BY <1>5, <1>6 DEF Compact, Borders
  <2> QED
    BY <2>1, <1>2 DEF list
<1>9. Len(list) = n /\ list \in Seq(0..Limit)
  <2>1. \A k \in 1..n : tbl[k] \in 0..Limit
    BY <1>3, <1>4
  <2>2. list \in [1..n -> 0..Limit] /\ n \in Nat
    BY <2>1, <1>3, <1>7
  <2> QED
    BY <2>2
<1>10. list' = Append(list, next + 1)
  <2> DEFINE appended == Append(list, next + 1)
  <2>1. /\ appended = [k \in 1..(n + 1) |-> IF k = n + 1 THEN next + 1 ELSE list[k]]
    BY <1>3, <1>7, <1>9
  <2>2. \A k \in 1..(n + 1) : tbl'[k] = IF k = n + 1 THEN next + 1 ELSE list[k]
    BY <1>3, <1>5, <1>7
  <2> QED
    BY <2>1, <2>2, <1>8
<1> QED
  BY <1>1, <1>2, <1>9, <1>10 DEF Abstract!Subscribe

\* Which entry an unsubscribe takes out is settled when its loop starts.
LEMMA UnsubscribeRefines ==
    ASSUME IInv, NEW i \in Id \cup 0..Limit, context_unsubscribe(i)
    PROVE  Abstract!Unsubscribe(i)
<1> USE LimitAssumption
<1>1. /\ pc = "idle" /\ pc' = "shifting" /\ pos' = size_t(i)
      /\ UNCHANGED <<tbl, next, id, fate>>
  BY DEF context_unsubscribe, Idle
<1>2. PICK n \in Borders \ {0} : len' = n
  BY DEF context_unsubscribe
<1>3. n \in 1..Limit /\ Compact(n)
  BY <1>1, <1>2, BorderFills
<1>4. list = [k \in 1..n |-> tbl[k]]
  BY <1>1, <1>3, ListOf
<1>5. Len(list) = n /\ list # <<>>
  BY <1>3, <1>4
<1>6. list' = [k \in 1..(n - 1) |-> IF k < size_t(i) THEN tbl[k] ELSE tbl[k + 1]]
  BY <1>1, <1>2 DEF list
<1>7. \A k \in 1..(n - 1) : k < size_t(i) <=> k < Abstract!Victim(i)
  BY <1>3, <1>5, SizeAssumption DEF size_t, Abstract!Victim
<1>8. list' = Abstract!Without(Abstract!Victim(i))
  <2>1. \A k \in 1..(n - 1) : list[k] = tbl[k] /\ list[k + 1] = tbl[k + 1]
    BY <1>3, <1>4
  <2>2. Abstract!Without(Abstract!Victim(i))
          = [k \in 1..(n - 1) |-> IF k < size_t(i) THEN tbl[k] ELSE tbl[k + 1]]
    BY <1>5, <1>7, <2>1 DEF Abstract!Without
  <2> QED
    BY <1>6, <2>2
<1> QED
  BY <1>1, <1>5, <1>8 DEF Abstract!Unsubscribe

\* The loop changes nothing that is seen from outside.
LEMMA LoopStutters == IInv /\ (Shift \/ Finish) => UNCHANGED Abstract!vars
<1> SUFFICES ASSUME IInv, Shift \/ Finish PROVE UNCHANGED <<list, next, id>>
  BY DEF Abstract!vars
<1> USE LimitAssumption
<1>1. pc = "shifting" /\ len >= 1 /\ Compact(len)
  BY DEF IInv, Filled, Shift, Finish
<1>2. tbl \in [0..(Limit + 1) -> 0..Limit] /\ pos \in Nat /\ len \in 0..Limit
  BY Typed DEF IInv
<1>3. list = [k \in 1..(len - 1) |-> IF k < pos THEN tbl[k] ELSE tbl[k + 1]]
  BY <1>1 DEF list
<1>4. CASE Shift
  <2>1. list' = [k \in 1..(len - 1) |-> IF k < pos + 1 THEN tbl'[k] ELSE tbl'[k + 1]]
    BY <1>4 DEF Shift, list
  <2>2. \A k \in 1..(len - 1) :
            (IF k < pos + 1 THEN tbl'[k] ELSE tbl'[k + 1])
              = IF k < pos THEN tbl[k] ELSE tbl[k + 1]
    <3>1. pos < len => \A k \in 0..(Limit + 1) :
                           tbl'[k] = IF k = pos THEN tbl[pos + 1] ELSE tbl[k]
      BY <1>2, <1>4 DEF Shift
    <3>2. pos < len
      BY <1>4 DEF Shift
    <3> QED
      BY <3>1, <3>2, <1>2
  <2> QED
    BY <1>3, <1>4, <2>1, <2>2 DEF Shift
<1>5. CASE Finish
  <2>1. /\ pc' = "idle" /\ pos >= len
        /\ \A k \in 0..(Limit + 1) : tbl'[k] = IF k = len THEN 0 ELSE tbl[k]
    BY <1>2, <1>5 DEF Finish
  <2>2. Borders' = {len - 1}
    <3>1. \A k \in 1..(Limit + 1) : tbl'[k] # 0 <=> k <= len - 1
      BY <1>1, <1>2, <2>1 DEF Compact
    <3>2. len - 1 \in 0..Limit
      BY <1>1, <1>2
    <3>3. ASSUME NEW b \in 0..Limit
          PROVE  (b = 0 \/ tbl'[b] # 0) /\ tbl'[b + 1] = 0 <=> b = len - 1
      <4>1. tbl'[b + 1] # 0 <=> b + 1 <= len - 1
        BY <3>1, b + 1 \in 1..(Limit + 1)
      <4>2. b # 0 => (tbl'[b] # 0 <=> b <= len - 1)
        BY <3>1, b \in 0..(Limit + 1)
      <4> QED
        BY <4>1, <4>2, <3>2
    <3> QED
      BY <3>3, <3>2 DEF Borders
  <2>3. list' = [k \in 1..(len - 1) |-> tbl'[k]]
    BY <2>1, <2>2 DEF list
  <2>4. \A k \in 1..(len - 1) : tbl'[k] = IF k < pos THEN tbl[k] ELSE tbl[k + 1]
    BY <1>2, <2>1
  <2> QED
    BY <1>3, <1>5, <2>3, <2>4 DEF Finish
<1> QED
  BY <1>4, <1>5

\* A panic ends the program between two calls, with the list as it was.
LEMMA PanicStutters == UnsubscribeFunction => UNCHANGED Abstract!vars
  BY DEF UnsubscribeFunction, Abstract!vars, list, Borders

LEMMA StepRefines == IInv /\ [Next]_vars => [Abstract!Next]_(Abstract!vars)
<1> SUFFICES ASSUME IInv, [Next]_vars PROVE [Abstract!Next]_(Abstract!vars)
  OBVIOUS
<1>1. CASE context_subscribe
  BY <1>1, SubscribeRefines DEF Abstract!Next
<1>2. ASSUME NEW s \in 1..next, UnsubscribeOwn(s) PROVE Abstract!Next
  <2>1. id[s] \in Id \cup 0..Limit
    BY <1>2, LimitAssumption DEF IInv, TypeOK
  <2>2. Abstract!Unsubscribe(id[s])
    BY <1>2, <2>1, UnsubscribeRefines DEF UnsubscribeOwn
  <2> QED
    BY <2>2 DEF Abstract!Next
<1>3. ASSUME NEW i \in Id, UnsubscribeAny(i) PROVE Abstract!Next
  <2>1. Abstract!Unsubscribe(i)
    BY <1>3, UnsubscribeRefines DEF UnsubscribeAny
  <2> QED
    BY <2>1 DEF Abstract!Next
<1>4. CASE UnsubscribeFunction
  BY <1>4, PanicStutters
<1>5. CASE Shift \/ Finish
  BY <1>5, LoopStutters
<1>6. CASE UNCHANGED vars
  BY <1>6 DEF vars, Abstract!vars, list, Borders
<1> QED
  BY <1>1, <1>2, <1>3, <1>4, <1>5, <1>6 DEF Next

(***************************************************************************)
(* For any number of subscriptions and any numbers unsubscribe is given,   *)
(* the table with context_unsubscribe's loop implements the list.          *)
(***************************************************************************)
THEOREM Implements == Spec => ImplementsSubscriptionList
<1>1. Init => Abstract!Init
  BY InitRefines
<1>2. IInv /\ [Next]_vars => [Abstract!Next]_(Abstract!vars)
  BY StepRefines
<1> QED
  BY <1>1, <1>2, Invariant, PTL DEF Spec, Abstract!Spec, ImplementsSubscriptionList
=============================================================================
