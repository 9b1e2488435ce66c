--------------------------- MODULE MCMarketplace ---------------------------
(***************************************************************************)
(* Marketplace on small instances.                                         *)
(***************************************************************************)
EXTENDS Marketplace, TLC

CONSTANTS m1, m2

\* m1 is within the normal radius of every order, m2 only within the wider one.
NearAndFar == [o \in Orders |-> [m \in Masters |-> IF m = m1 THEN 1 ELSE 2]]

\* Every master is within the normal radius.
AllNear == [o \in Orders |-> [m \in Masters |-> 1]]

HandlerSymmetry == Permutations(Requests) \cup Permutations(Workers)

RequestSymmetry == Permutations(Requests)
=============================================================================
