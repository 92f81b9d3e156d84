----------------------------- MODULE OrderRules -----------------------------
(***************************************************************************)
(* What orders a manual board may have and show when the save times of its *)
(* albums are not kept (Library).  BoardOrder keeps them, and checks that  *)
(* the order it computes is always one of these.                           *)
(***************************************************************************)
EXTENDS Orders, FiniteSets

CONSTANT OrderLimit                     \* BOARD_ORDER_LIMIT

ASSUME OrderLimitAssumption == OrderLimit \in Nat

Arrangements(S) == { f \in [1..Cardinality(S) -> S] : Injective(f) }

\* The ordered albums of q come first, in the order they have in order.
Respects(q, order) ==
  \A i, j \in DOMAIN q : i < j /\ q[j] \in Elements(order) =>
    \E m, n \in DOMAIN order : m < n /\ order[m] = q[i] /\ order[n] = q[j]

\* What a manual board with the albums S shows: its stored order, less the
\* albums that left, then the other albums by savedAt.
Shown(order, S) == { q \in Arrangements(S) : Respects(q, order) }
Block(order, S) == { q \in Arrangements(S \cap Elements(order)) : Respects(q, order) }

\* reconciledOrder: the whole shown order, or only the block on a larger board.
UnboundedOrders(order, S) == Shown(order, S)  \* slip: the limit is forgotten
ReconciledOrders(order, S) ==
  IF Cardinality(S) <= OrderLimit THEN Shown(order, S) ELSE Block(order, S)
=============================================================================
