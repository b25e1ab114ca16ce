--------------------------- MODULE MC_AuthSession ---------------------------
(* Instances of AuthSession for TLC: one account.                          *)
EXTENDS AuthSession

CONSTANTS alice, phone, laptop

OneAccount == [b \in Browsers |-> alice]
=============================================================================
