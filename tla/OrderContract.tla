--------------------------- MODULE OrderContract ---------------------------
(***************************************************************************)
(* The order controller contract, as the exchange's backend sees it.  The  *)
(* contract is deployed elsewhere; the repository only has its ABI.  What  *)
(* is kept here is what the backend reads of it: which orders exist, how   *)
(* much of each one has been filled, and which ones were cancelled.        *)
(*                                                                         *)
(* An order is filled in whole units 1..Amount.  The paid and the received *)
(* side of a match move together, so one number stands for both.           *)
(***************************************************************************)
EXTENDS Naturals

CONSTANTS
    Orders,     \* the order ids the contract may hand out
    Amount      \* the size of every order, in fill units

ASSUME ContractAssumption == Amount \in Nat \ {0}

VARIABLES
    made,       \* ids in the contract's list: getOrderIdLength, getOrderId
    filled,     \* the filled amount getOrderInfo reports for each id
    cancelled   \* ids for which OrderCancelled was emitted

chainVars == <<made, filled, cancelled>>

Fills == 0..Amount

ContractTypeOK ==
    /\ made \subseteq Orders
    /\ filled \in [Orders -> Fills]
    /\ cancelled \subseteq made
    /\ \A o \in Orders : filled[o] > 0 => o \in made

ContractInit ==
    /\ made = {}
    /\ filled = [o \in Orders |-> 0]
    /\ cancelled = {}

\* createOrder, or the order a matchOrders transaction leaves behind.
ContractCreates(o) ==
    /\ o \in Orders \ made
    /\ made' = made \union {o}
    /\ UNCHANGED <<filled, cancelled>>

\* A match takes an open order from its filled amount up to f.
ContractMatches(o, f) ==
    /\ o \in made \ cancelled
    /\ f \in Fills
    /\ f > filled[o]
    /\ filled' = [filled EXCEPT ![o] = f]
    /\ UNCHANGED <<made, cancelled>>

\* Only an order that still has something to fill can be cancelled.
ContractCancels(o) ==
    /\ o \in made \ cancelled
    /\ filled[o] < Amount
    /\ cancelled' = cancelled \union {o}
    /\ UNCHANGED <<made, filled>>

=============================================================================
