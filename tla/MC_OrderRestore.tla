-------------------------- MODULE MC_OrderRestore --------------------------
(* Instances of OrderRestore for TLC: one user places every order.         *)
EXTENDS OrderRestore

CONSTANTS alice, o1, o2

OneOwner == [o \in Orders |-> alice]
=============================================================================
