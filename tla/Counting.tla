------------------------------ MODULE Counting ------------------------------
(***************************************************************************)
(* Places of a sequence in order, and sums, by counting: how many of some  *)
(* numbers come before another, and how many units some amounts are.       *)
(***************************************************************************)
EXTENDS Naturals, Sequences, FiniteSets

\* How many of some places are x or before it, and the k-th of the places.
UpTo(places, x) == Cardinality({y \in places : y <= x})
Nth(places, k) == CHOOSE x \in places : UpTo(places, x) = k

\* What a sequence has at some places, in its order.
AtPlaces(seq, places) == [k \in 1..Cardinality(places) |-> seq[Nth(places, k)]]

\* The sum of the amounts in a function: each is as many units as it says.
Units(amount) == UNION {{x} \X (1..amount[x]) : x \in DOMAIN amount}
Total(amount) == Cardinality(Units(amount))
=============================================================================
