------------------------------ MODULE Listing ------------------------------
(***************************************************************************)
(* Sets of numbers as lists, which is how rows come out of a query that is *)
(* ordered, and elements out of a list of which some are kept.             *)
(***************************************************************************)
EXTENDS Naturals, FiniteSets

\* The n-th of these numbers, the least one first.
Nth(places, n) == CHOOSE p \in places : Cardinality({q \in places : q <= p}) = n
=============================================================================
