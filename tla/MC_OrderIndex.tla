--------------------------- MODULE MC_OrderIndex ---------------------------
(* Instances of OrderIndex for TLC: one user places every order.     *)
EXTENDS OrderIndex

CONSTANTS alice, o1, o2

OneOwner == [o \in Orders |-> alice]
=============================================================================
