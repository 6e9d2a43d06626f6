-------------------------- MODULE MCOrderLifecycle --------------------------
(***************************************************************************)
(* Instances of OrderLifecycle for TLC: a customer, executors, one or two  *)
(* orders of the customer (with one, nothing limits anybody; with two, an  *)
(* executor who may send one proposal has to choose), and the endpoints a  *)
(* run is about.                                                           *)
(***************************************************************************)
EXTENDS OrderLifecycle, TLC

CONSTANTS alice, bob, carol, o1, o2

OneCustomer == [o \in Orders |-> alice]

\* Two requests of equal standing are interchangeable, and so are two executors.
RequestSymmetry == Permutations(Requests)
PartySymmetry == Permutations(Requests) \cup Permutations({bob, carol}) \cup Permutations(Orders)
=============================================================================
