----------------------------- MODULE OrderView -----------------------------
(***************************************************************************)
(* What the "orders" table promises, whatever happens to the process that  *)
(* fills it.  The table is a view of the contract that may be late, may    *)
(* miss orders and may fall back to an earlier fill, but                   *)
(*   - a row only ever reports something that happened to its order on the *)
(*     chain, and                                                          *)
(*   - once a row has reported a match or a cancellation it never goes     *)
(*     back to reporting an untouched order, nor does it disappear.        *)
(***************************************************************************)
EXTENDS OrderContract

VARIABLE orders     \* the table: what it shows for each order id

Absent == [status |-> "ABSENT", fill |-> 0]

\* The rows the chain's history supports for order o.
Backed(o) ==
    {[status |-> "ACTIVE", fill |-> 0]}
      \union {[status |-> "PARTIALLY_FILLED", fill |-> f] :
                f \in {g \in Fills : 0 < g /\ g <= filled[o] /\ g < Amount}}
      \union {r \in {[status |-> "FILLED", fill |-> Amount]} : filled[o] = Amount}
      \union {[status |-> "CANCELLED", fill |-> f] :
                f \in {g \in Fills : g <= filled[o] /\ o \in cancelled}}

Untouched == {"ABSENT", "ACTIVE"}

\* The table starts or changes to show order o.
Show(o) ==
    /\ o \in made
    /\ \E row \in Backed(o) :
        /\ orders[o] # Absent /\ row.status \in Untouched => orders[o] = row
        /\ orders' = [orders EXCEPT ![o] = row]
    /\ UNCHANGED chainVars

ChainStep ==
    /\ \E o \in Orders :
        \/ ContractCreates(o)
        \/ \E f \in Fills : ContractMatches(o, f)
        \/ ContractCancels(o)
    /\ UNCHANGED orders

Init ==
    /\ ContractInit
    /\ orders = [o \in Orders |-> Absent]

Next == ChainStep \/ \E o \in Orders : Show(o)

Spec == Init /\ [][Next]_<<chainVars, orders>>

=============================================================================
