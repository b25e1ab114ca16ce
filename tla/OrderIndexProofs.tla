-------------------------- MODULE OrderIndexProofs --------------------------
(***************************************************************************)
(* What the live order indexer guarantees for any number of orders, users, *)
(* fill units, rejected calls and process deaths.                          *)
(***************************************************************************)
EXTENDS OrderIndex, TLAPS

\* The parts of an event.
LEMMA EventParts ==
    ASSUME NEW e \in Events
    PROVE  /\ e.id \in Orders
           /\ e.fill \in Fills
           /\ e.kind \in {"OrderCreated", "OrderMatched", "OrderCancelled"}
           /\ e.kind = "OrderMatched" <=> e.fill > 0
BY DEF Events, Event

\* Each order has its created and cancelled event, and a match per fill.
LEMMA EventsOfOrder ==
    ASSUME NEW o \in Orders
    PROVE  /\ OrderCreated(o) \in Events
           /\ OrderCancelled(o) \in Events
           /\ \A f \in Fills \ {0} : OrderMatched(o, f) \in Events
BY ContractAssumption DEF OrderCreated, OrderCancelled, OrderMatched, Events, Event, Fills

\* A match handler's event is the match event of its order and fill.
LEMMA MatchEvent ==
    ASSUME NEW e \in Events, e.kind = "OrderMatched"
    PROVE  e = OrderMatched(e.id, e.fill) /\ e.fill \in Fills \ {0}
BY ContractAssumption DEF OrderMatched, Events, Event, Fills

\* So is a cancel handler's.
LEMMA CancelEvent ==
    ASSUME NEW e \in Events, e.kind = "OrderCancelled"
    PROVE  e = OrderCancelled(e.id)
BY ContractAssumption DEF OrderCancelled, Events, Event, Fills

\* The rows handlers write are rows.
LEMMA RowsAreRows ==
    /\ Absent = [status |-> "ABSENT", fill |-> 0]
    /\ Absent \notin Row
    /\ \A e \in Events : NewRow(e) \in Row /\ MatchedRow(e) \in Row
BY ContractAssumption, EventParts
   DEF Absent, View!Absent, Row, Status, NewRow, MatchedRow, Fills

\* A row that the chain supports shows no more than was filled.
LEMMA BackedFill ==
    ASSUME NEW o \in Orders, filled[o] \in Fills, NEW r \in View!Backed(o)
    PROVE  r.fill \in Fills /\ r.fill <= filled[o]
<1> USE ContractAssumption DEF Fills, View!Fills
<1>1. CASE r = [status |-> "ACTIVE", fill |-> 0]
  BY <1>1
<1>2. CASE r \in {[status |-> "PARTIALLY_FILLED", fill |-> f] :
                     f \in {g \in Fills : 0 < g /\ g <= filled[o] /\ g < Amount}}
  BY <1>2
<1>3. CASE r \in {x \in {[status |-> "FILLED", fill |-> Amount]} : filled[o] = Amount}
  BY <1>3
<1>4. CASE r \in {[status |-> "CANCELLED", fill |-> f] :
                     f \in {g \in Fills : g <= filled[o] /\ o \in cancelled}}
  BY <1>4
<1> QED
  BY <1>1, <1>2, <1>3, <1>4 DEF View!Backed

\* Initially there are no rows, no handlers and nothing has happened.
LEMMA InitEstablishes == Init => LiveInv
<1> SUFFICES ASSUME Init PROVE LiveInv
  OBVIOUS
<1>1. TypeOK
  <2>1. ContractTypeOK
    BY ContractAssumption DEF Init, ContractInit, ContractTypeOK, Fills
  <2>2. orders \in [Orders -> Row \union {Absent}]
    BY DEF Init
  <2>3. pc \in [Events -> Running \union Ended \union {"idle"}]
    BY DEF Init
  <2>4. 0 \in 0..RetryLimit /\ 0 \in 0..MaxFaults /\ 0 \in 0..MaxCrashes
    BY IndexAssumption
  <2>5. users \subseteq Users /\ listening \in BOOLEAN
    BY IndexAssumption DEF Init
  <2> QED
    BY <2>1, <2>2, <2>3, <2>4, <2>5 DEF TypeOK, Init
<1>2. RowsBacked
  BY DEF Init, RowsBacked
<1>3. HasHappened /\ HandlerKind /\ CreatesOnce /\ MatchRecorded
  BY DEF Init, HasHappened, HandlerKind, CreatesOnce, MatchRecorded
<1>4. NeverGivesUp
  BY DEF Init, NeverGivesUp
<1>5. CancelKept
  BY EventsOfOrder, RowsAreRows DEF Init, CancelKept
<1> QED
  BY <1>1, <1>2, <1>3, <1>4, <1>5 DEF LiveInv

-----------------------------------------------------------------------------
(* Steps of a handler that write no row                                    *)

\* A handler that goes on to another call, or ends without success, keeps
\* everything but the types (which TypesKept is about), as long as the call is
\* one of its kind.
LEMMA HandlerMoves ==
    ASSUME LiveInv, NEW e \in Events, pc[e] \in Running,
           NEW label \in Running \union (Ended \ {"done", "gaveUp"}),
           Goto(e, label),
           UNCHANGED <<chainVars, orders, attempt>>,
           label \in {"updateOrder", "writeUpdate"} => e.kind = "OrderMatched",
           label \in {"cancelOrder", "writeCancel"} => e.kind = "OrderCancelled",
           label \in {"writeUpdate", "writeCancel"} => orders[e.id] # Absent,
           attempt[e] > 0 => label \in {"updateOrder", "writeUpdate"} \union Ended
    PROVE  TypeOK' => LiveInv'
<1> SUFFICES ASSUME TypeOK' PROVE LiveInv'
  OBVIOUS
<1>0. pc \in [Events -> Running \union Ended \union {"idle"}]
  BY DEF LiveInv, TypeOK
<1>1. /\ pc'[e] = label
      /\ \A x \in Events \ {e} : pc'[x] = pc[x]
      /\ \A x \in Events : (pc'[x] = "done") = (pc[x] = "done")
      /\ \A x \in Events : (pc'[x] = "gaveUp") = (pc[x] = "gaveUp")
      /\ pc[e] # "idle"
  BY <1>0 DEF Goto, Running, Ended
<1>2. RowsBacked'
  BY DEF LiveInv, RowsBacked, View!Backed, chainVars
<1>3. HasHappened'
  BY <1>1 DEF LiveInv, HasHappened, chainVars, Running
<1>4. HandlerKind'
  BY <1>1 DEF LiveInv, HandlerKind
<1>5. CreatesOnce'
  BY <1>1 DEF LiveInv, CreatesOnce
<1>6. NeverGivesUp'
  BY <1>1 DEF LiveInv, NeverGivesUp
<1>7. MatchRecorded'
  BY <1>1 DEF LiveInv, MatchRecorded
<1>8. CancelKept'
  BY <1>1, EventsOfOrder DEF LiveInv, CancelKept
<1> QED
  BY <1>2, <1>3, <1>4, <1>5, <1>6, <1>7, <1>8 DEF LiveInv

\* The first attempt of a match handler is over, the row is there, and the
\* handler updates again or is out of attempts.
LEMMA AttemptMoves ==
    ASSUME LiveInv, NEW e \in Events, pc[e] \in {"getOrder", "createOrder"},
           e.kind = "OrderMatched",
           orders[e.id] # Absent,
           NextAttempt(e),
           UNCHANGED <<chainVars, orders>>
    PROVE  /\ attempt' \in [Events -> 0..RetryLimit]
           /\ TypeOK' => LiveInv'
<1>0. /\ pc \in [Events -> Running \union Ended \union {"idle"}]
      /\ attempt \in [Events -> 0..RetryLimit]
      /\ RetryLimit \in Nat \ {0}
  BY IndexAssumption DEF LiveInv, TypeOK
<1>1. attempt[e] = 0
  BY <1>0 DEF LiveInv, CreatesOnce, Ended
<1>2. /\ attempt'[e] = 1
      /\ \A x \in Events \ {e} : attempt'[x] = attempt[x]
      /\ attempt' \in [Events -> 0..RetryLimit]
  BY <1>0, <1>1 DEF NextAttempt
<1>3. /\ pc'[e] = "updateOrder" \/ (RetryLimit = 1 /\ pc'[e] = "gaveUp")
      /\ \A x \in Events \ {e} : pc'[x] = pc[x]
      /\ \A x \in Events : (pc'[x] = "done") = (pc[x] = "done")
  BY <1>0, <1>1 DEF NextAttempt, Goto
<1>4. ASSUME TypeOK' PROVE LiveInv'
  <2>1. RowsBacked'
    BY DEF LiveInv, RowsBacked, View!Backed, chainVars
  <2>2. HasHappened'
    BY <1>3 DEF LiveInv, HasHappened, chainVars
  <2>3. HandlerKind'
    BY <1>3 DEF LiveInv, HandlerKind
  <2>4. CreatesOnce'
    BY <1>2, <1>3 DEF LiveInv, CreatesOnce, Ended
  <2>5. NeverGivesUp'
    BY <1>0, <1>2, <1>3 DEF LiveInv, NeverGivesUp
  <2>6. MatchRecorded'
    BY <1>3 DEF LiveInv, MatchRecorded
  <2>7. CancelKept'
    BY <1>3, EventsOfOrder DEF LiveInv, CancelKept
  <2> QED
    BY <1>4, <2>1, <2>2, <2>3, <2>4, <2>5, <2>6, <2>7 DEF LiveInv
<1> QED
  BY <1>2, <1>4

-----------------------------------------------------------------------------
(* Steps that write a row                                                  *)

\* An insert puts a row its order's history supports where none was, so it
\* takes nothing away from what other handlers have written.
LEMMA InsertKeeps ==
    ASSUME LiveInv, TypeOK', NEW e \in Events, CreateOrder(e), orders[e.id] = Absent
    PROVE  LiveInv'
<1> DEFINE o == e.id
           row == NewRow(e)
<1>0. /\ pc \in [Events -> Running \union Ended \union {"idle"}]
      /\ attempt \in [Events -> 0..RetryLimit]
      /\ orders \in [Orders -> Row \union {Absent}]
      /\ RetryLimit \in Nat \ {0}
      /\ o \in Orders
  BY IndexAssumption, EventParts DEF LiveInv, TypeOK
<1>1. /\ pc[e] = "createOrder"
      /\ orders' = [orders EXCEPT ![o] = row]
      /\ CreateReturns(e, "created")
      /\ UNCHANGED chainVars
  BY DEF CreateOrder
<1>2. /\ orders'[o] = row /\ row # Absent
      /\ \A p \in Orders \ {o} : orders'[p] = orders[p]
  BY <1>0, <1>1, RowsAreRows
<1>3. attempt[e] = 0
  BY <1>0, <1>1 DEF LiveInv, CreatesOnce, Ended
<1>4. \/ /\ e.kind = "OrderMatched"
         /\ attempt' = [attempt EXCEPT ![e] = 1]
         /\ pc' = [pc EXCEPT ![e] = IF 1 < RetryLimit THEN "updateOrder" ELSE "gaveUp"]
      \/ /\ e.kind # "OrderMatched"
         /\ attempt' = attempt
         /\ pc' = [pc EXCEPT ![e] = "done"]
  BY <1>0, <1>1, <1>3 DEF CreateReturns, NextAttempt, Goto, CreateOutcome
<1>5. /\ \A x \in Events \ {e} : pc'[x] = pc[x] /\ attempt'[x] = attempt[x]
      /\ pc'[e] \in {"updateOrder", "gaveUp", "done"}
      /\ pc'[e] = "updateOrder" => e.kind = "OrderMatched"
      /\ pc'[e] = "gaveUp" => RetryLimit = 1
      /\ pc'[e] = "done" => e.kind # "OrderMatched"
  BY <1>0, <1>4
<1>6. \A x \in Events : x.kind = "OrderMatched" /\ pc'[x] = "done" => pc[x] = "done"
  BY <1>5
<1>7. RowsBacked'
  <2>1. HasHappened /\ pc[e] # "idle"
    BY <1>1 DEF LiveInv
  <2>2. row \in View!Backed(o)
    <3>1. CASE e.kind = "OrderCancelled"
      <4>1. o \in cancelled
        BY <2>1, <3>1 DEF HasHappened
      <4>2. 0 \in {g \in Fills : g <= filled[o] /\ o \in cancelled}
        BY <4>1, <1>0, ContractAssumption DEF LiveInv, TypeOK, ContractTypeOK, Fills
      <4> QED
        BY <3>1, <4>2 DEF NewRow, View!Backed, View!Fills, Fills
    <3>2. CASE e.kind # "OrderCancelled"
      BY <3>2 DEF NewRow, View!Backed
    <3> QED
      BY <3>1, <3>2
  <2>3. \A p \in Orders : View!Backed(p)' = View!Backed(p)
    BY <1>1 DEF View!Backed, chainVars
  <2> QED
    BY <1>2, <2>2, <2>3 DEF LiveInv, RowsBacked
<1>8. HasHappened'
  BY <1>1, <1>5 DEF LiveInv, HasHappened, chainVars
<1>9. HandlerKind'
  BY <1>2, <1>5, EventParts DEF LiveInv, HandlerKind
<1>10. CreatesOnce'
  BY <1>5 DEF LiveInv, CreatesOnce, Ended
<1>11. NeverGivesUp'
  BY <1>0, <1>2, <1>5, EventParts DEF LiveInv, NeverGivesUp
<1>12. MatchRecorded'
  BY <1>2, <1>6, EventParts DEF LiveInv, MatchRecorded, Absent, View!Absent, View!Untouched
<1>13. CancelKept'
  <2> SUFFICES ASSUME NEW p \in Orders, pc'[OrderCancelled(p)] = "done"
               PROVE  \/ orders'[p].status = "CANCELLED"
                      \/ \E f \in Fills \ {0} : pc'[OrderMatched(p, f)] = "done"
    BY DEF CancelKept
  <2>1. CASE OrderCancelled(p) = e
    BY <2>1, <1>2 DEF OrderCancelled, NewRow
  <2>2. CASE OrderCancelled(p) # e
    <3>1. pc[OrderCancelled(p)] = "done"
      BY <2>2, <1>5, EventsOfOrder
    <3>2. orders[p].status = "CANCELLED" \/ \E f \in Fills \ {0} : pc[OrderMatched(p, f)] = "done"
      BY <3>1 DEF LiveInv, CancelKept
    <3>3. \A f \in Fills \ {0} : pc[OrderMatched(p, f)] = "done" => pc'[OrderMatched(p, f)] = "done"
      BY <1>1, <1>5, EventsOfOrder
    <3>4. orders[p].status = "CANCELLED" => p # o
      BY DEF Absent, View!Absent
    <3> QED
      BY <1>2, <3>2, <3>3, <3>4
  <2> QED
    BY <2>1, <2>2
<1> QED
  BY <1>7, <1>8, <1>9, <1>10, <1>11, <1>12, <1>13 DEF LiveInv

\* What a match handler writes happened: the event's fill is on the chain.
LEMMA MatchedRowBacked ==
    ASSUME LiveInv, NEW e \in Events, pc[e] = "writeUpdate"
    PROVE  /\ e.kind = "OrderMatched"
           /\ MatchedRow(e) \in View!Backed(e.id)
           /\ MatchedRow(e).status \in {"FILLED", "PARTIALLY_FILLED"}
           /\ MatchedRow(e).fill = e.fill
<1>1. /\ e.kind = "OrderMatched"
      /\ e.fill \in Fills \ {0}
      /\ e.fill <= filled[e.id]
      /\ filled[e.id] \in Fills
  BY MatchEvent, EventParts DEF LiveInv, HandlerKind, HasHappened, TypeOK, ContractTypeOK
<1>2. /\ MatchedRow(e).status \in {"FILLED", "PARTIALLY_FILLED"}
      /\ MatchedRow(e).fill = e.fill
  BY DEF MatchedRow
<1>3. CASE e.fill = Amount
  <2>1. filled[e.id] = Amount
    BY <1>1, <1>3, ContractAssumption DEF Fills
  <2>2. MatchedRow(e) = [status |-> "FILLED", fill |-> Amount]
    BY <1>3, ContractAssumption DEF MatchedRow
  <2> QED
    BY <1>1, <1>2, <2>1, <2>2 DEF View!Backed
<1>4. CASE e.fill # Amount
  <2>1. e.fill \in {g \in Fills : 0 < g /\ g <= filled[e.id] /\ g < Amount}
    BY <1>1, <1>4, ContractAssumption DEF Fills
  <2>2. MatchedRow(e) = [status |-> "PARTIALLY_FILLED", fill |-> e.fill]
    BY <1>1, <1>4, ContractAssumption DEF MatchedRow, Fills
  <2> QED
    BY <1>1, <1>2, <2>1, <2>2 DEF View!Backed, View!Fills, Fills
<1> QED
  BY <1>3, <1>4

\* A match handler that writes ends with its own fill on the row.
LEMMA UpdateKeeps ==
    ASSUME LiveInv, TypeOK', NEW e \in Events, WriteUpdate(e)
    PROVE  LiveInv'
<1> DEFINE o == e.id
           row == MatchedRow(e)
<1>0. /\ pc \in [Events -> Running \union Ended \union {"idle"}]
      /\ orders \in [Orders -> Row \union {Absent}]
      /\ o \in Orders
      /\ pc[e] = "writeUpdate"
  BY EventParts DEF LiveInv, TypeOK, WriteUpdate
<1>1. /\ orders' = [orders EXCEPT ![o] = row]
      /\ UNCHANGED <<made, filled, cancelled, attempt>>
      /\ pc' = [pc EXCEPT ![e] = "done"]
  BY DEF WriteUpdate, chainVars, Goto
<1>2. /\ orders'[o] = row /\ row # Absent
      /\ \A p \in Orders \ {o} : orders'[p] = orders[p]
      /\ pc'[e] = "done"
      /\ \A x \in Events \ {e} : pc'[x] = pc[x]
  BY <1>0, <1>1, RowsAreRows
<1>3. /\ e.kind = "OrderMatched" /\ e = OrderMatched(o, e.fill)
      /\ e.fill \in Fills \ {0}
      /\ row.status \in {"FILLED", "PARTIALLY_FILLED"} /\ row.fill = e.fill
      /\ row \in View!Backed(o)
  BY <1>0, MatchedRowBacked, MatchEvent
<1>4. RowsBacked'
  <2>1. \A p \in Orders : View!Backed(p)' = View!Backed(p)
    BY <1>1 DEF View!Backed
  <2> QED
    BY <1>2, <1>3, <2>1 DEF LiveInv, RowsBacked
<1>5. HasHappened'
  BY <1>0, <1>1, <1>2 DEF LiveInv, HasHappened
<1>6. HandlerKind'
  BY <1>2, EventParts DEF LiveInv, HandlerKind
<1>7. CreatesOnce'
  BY <1>1, <1>2 DEF LiveInv, CreatesOnce, Ended
<1>8. NeverGivesUp'
  BY <1>1, <1>2, EventParts DEF LiveInv, NeverGivesUp
<1>9. MatchRecorded'
  BY <1>2, <1>3, EventParts DEF LiveInv, MatchRecorded, View!Untouched
<1>10. CancelKept'
  <2> SUFFICES ASSUME NEW p \in Orders, pc'[OrderCancelled(p)] = "done"
               PROVE  \/ orders'[p].status = "CANCELLED"
                      \/ \E f \in Fills \ {0} : pc'[OrderMatched(p, f)] = "done"
    BY DEF CancelKept
  <2>1. CASE p = o
    BY <2>1, <1>2, <1>3
  <2>2. CASE p # o
    <3>1. \A f \in Fills \ {0} : pc'[OrderMatched(p, f)] = pc[OrderMatched(p, f)]
      BY <2>2, <1>2, EventsOfOrder DEF OrderMatched
    <3>2. pc[OrderCancelled(p)] = "done"
      BY <1>2, <1>3, EventsOfOrder DEF OrderCancelled
    <3> QED
      BY <2>2, <3>1, <3>2, <1>2 DEF LiveInv, CancelKept
  <2> QED
    BY <2>1, <2>2
<1> QED
  BY <1>4, <1>5, <1>6, <1>7, <1>8, <1>9, <1>10 DEF LiveInv

\* A cancel handler that writes leaves the row's fill as it is.
LEMMA CancelKeeps ==
    ASSUME LiveInv, TypeOK', NEW e \in Events, WriteCancel(e)
    PROVE  LiveInv'
<1> DEFINE o == e.id
           row == [orders[o] EXCEPT !.status = "CANCELLED"]
<1>0. /\ pc \in [Events -> Running \union Ended \union {"idle"}]
      /\ orders \in [Orders -> Row \union {Absent}]
      /\ o \in Orders
      /\ pc[e] = "writeCancel"
      /\ e.kind = "OrderCancelled"
      /\ orders[o] \in Row
  BY EventParts DEF LiveInv, TypeOK, WriteCancel, HandlerKind
<1>1. /\ orders' = [orders EXCEPT ![o] = row]
      /\ UNCHANGED <<made, filled, cancelled, attempt>>
      /\ pc' = [pc EXCEPT ![e] = "done"]
  BY DEF WriteCancel, chainVars, Goto
<1>2. /\ orders'[o] = row /\ row # Absent
      /\ row.status = "CANCELLED" /\ row.fill = orders[o].fill
      /\ row = [status |-> "CANCELLED", fill |-> orders[o].fill]
      /\ \A p \in Orders \ {o} : orders'[p] = orders[p]
      /\ pc'[e] = "done"
      /\ \A x \in Events \ {e} : pc'[x] = pc[x]
  BY <1>0, <1>1 DEF Row, Absent, View!Absent
<1>3. \A p \in Orders : orders'[p].fill = orders[p].fill
  BY <1>2
<1>4. RowsBacked'
  <2>1. \A p \in Orders : View!Backed(p)' = View!Backed(p)
    BY <1>1 DEF View!Backed
  <2>2. o \in cancelled
    BY <1>0 DEF LiveInv, HasHappened
  <2>3. orders[o] \in View!Backed(o) /\ filled[o] \in Fills
    BY <1>0, RowsAreRows DEF LiveInv, RowsBacked, TypeOK, ContractTypeOK
  <2>4. orders[o].fill \in Fills /\ orders[o].fill <= filled[o]
    BY <1>0, <2>3, BackedFill
  <2>5. row \in View!Backed(o)
    BY <2>2, <2>4, <1>2 DEF View!Backed, View!Fills, Fills
  <2> QED
    BY <1>2, <2>1, <2>5 DEF LiveInv, RowsBacked
<1>5. HasHappened'
  BY <1>0, <1>1, <1>2 DEF LiveInv, HasHappened
<1>6. HandlerKind'
  BY <1>2, EventParts DEF LiveInv, HandlerKind
<1>7. CreatesOnce'
  BY <1>1, <1>2 DEF LiveInv, CreatesOnce, Ended
<1>8. NeverGivesUp'
  BY <1>1, <1>2, EventParts DEF LiveInv, NeverGivesUp
<1>9. MatchRecorded'
  BY <1>0, <1>2, EventParts DEF LiveInv, MatchRecorded, View!Untouched
<1>10. \A p \in Orders, f \in Fills \ {0} : pc'[OrderMatched(p, f)] = pc[OrderMatched(p, f)]
  <2>1. \A p \in Orders, f \in Fills \ {0} : OrderMatched(p, f) # e
    BY <1>0 DEF OrderMatched
  <2> QED
    BY <2>1, <1>2, EventsOfOrder
<1>11. CancelKept'
  BY <1>0, <1>2, <1>10, EventsOfOrder, CancelEvent DEF LiveInv, CancelKept, OrderCancelled
<1> QED
  BY <1>4, <1>5, <1>6, <1>7, <1>8, <1>9, <1>11 DEF LiveInv

-----------------------------------------------------------------------------
(* Steps of the contract, deaths and boots                                 *)

\* The contract emits each event once, for something it has just done, and
\* its history only grows.
LEMMA ContractEmits ==
    ASSUME LiveInv, ContractStep
    PROVE  \E e \in Events :
             /\ Emit(e)
             /\ pc[e] = "idle"
             /\ e.id \in made'
             /\ e.kind = "OrderMatched" => e.fill <= filled'[e.id]
             /\ e.kind = "OrderCancelled" => e.id \in cancelled'
             /\ made \subseteq made' /\ cancelled \subseteq cancelled'
             /\ \A p \in Orders : filled[p] <= filled'[p]
             /\ ContractTypeOK'
<1> PICK o \in Orders : \/ EmitCreated(o)
                        \/ \E f \in Fills : EmitMatched(o, f)
                        \/ EmitCancelled(o)
  BY DEF ContractStep
<1>0. /\ pc \in [Events -> Running \union Ended \union {"idle"}]
      /\ filled \in [Orders -> Fills]
      /\ \A p \in Orders : filled[p] \in Nat
      /\ cancelled \subseteq made /\ made \subseteq Orders
      /\ \A p \in Orders : filled[p] > 0 => p \in made
  BY ContractAssumption DEF LiveInv, TypeOK, ContractTypeOK, Fills
<1>1. CASE EmitCreated(o)
  <2> DEFINE e == OrderCreated(o)
  <2>1. e \in Events /\ e.id = o /\ e.kind = "OrderCreated"
    BY EventsOfOrder DEF OrderCreated
  <2>2. Emit(e) /\ ContractCreates(o)
    BY <1>1 DEF EmitCreated
  <2>3. pc[e] = "idle"
    BY <2>1, <2>2 DEF LiveInv, HasHappened, ContractCreates
  <2>4. /\ made \subseteq made' /\ cancelled' = cancelled /\ filled' = filled
        /\ o \in made' /\ made' \subseteq Orders
    BY <1>0, <2>2 DEF ContractCreates
  <2> QED
    BY <1>0, <2>1, <2>2, <2>3, <2>4 DEF ContractTypeOK
<1>2. ASSUME NEW f \in Fills, EmitMatched(o, f)
      PROVE  \E e \in Events :
               /\ Emit(e)
               /\ pc[e] = "idle"
               /\ e.id \in made'
               /\ e.kind = "OrderMatched" => e.fill <= filled'[e.id]
               /\ e.kind = "OrderCancelled" => e.id \in cancelled'
               /\ made \subseteq made' /\ cancelled \subseteq cancelled'
               /\ \A p \in Orders : filled[p] <= filled'[p]
               /\ ContractTypeOK'
  <2> DEFINE e == OrderMatched(o, f)
  <2>1. Emit(e) /\ ContractMatches(o, f)
    BY <1>2 DEF EmitMatched
  <2>2. f \in Nat /\ f > filled[o] /\ f \in Fills \ {0}
    BY <1>0, <2>1, ContractAssumption DEF ContractMatches, Fills
  <2>3. e \in Events /\ e.id = o /\ e.kind = "OrderMatched" /\ e.fill = f
    BY <2>2, EventsOfOrder DEF OrderMatched
  <2>4. pc[e] = "idle"
    BY <1>0, <2>2, <2>3 DEF LiveInv, HasHappened
  <2>5. /\ made' = made /\ cancelled' = cancelled /\ o \in made
        /\ filled' = [filled EXCEPT ![o] = f]
    BY <2>1 DEF ContractMatches
  <2>6. /\ filled'[o] = f
        /\ \A p \in Orders : filled[p] <= filled'[p]
        /\ filled' \in [Orders -> Fills]
    BY <1>0, <2>2, <2>5
  <2>7. ContractTypeOK'
    BY <1>0, <2>5, <2>6 DEF ContractTypeOK
  <2> QED
    BY <2>1, <2>2, <2>3, <2>4, <2>5, <2>6, <2>7
<1>3. CASE EmitCancelled(o)
  <2> DEFINE e == OrderCancelled(o)
  <2>1. e \in Events /\ e.id = o /\ e.kind = "OrderCancelled"
    BY EventsOfOrder DEF OrderCancelled
  <2>2. Emit(e) /\ ContractCancels(o)
    BY <1>3 DEF EmitCancelled
  <2>3. pc[e] = "idle"
    BY <2>1, <2>2 DEF LiveInv, HasHappened, ContractCancels
  <2>4. /\ made' = made /\ filled' = filled /\ o \in made
        /\ cancelled' = cancelled \union {o}
    BY <2>2 DEF ContractCancels
  <2> QED
    BY <1>0, <2>1, <2>2, <2>3, <2>4 DEF ContractTypeOK
<1> QED
  BY <1>1, <1>2, <1>3

\* A handler starts, or an event is missed; the tables are as they were.
LEMMA EmitKeeps ==
    ASSUME LiveInv, TypeOK', ContractStep
    PROVE  LiveInv'
<1> PICK e \in Events :
             /\ Emit(e)
             /\ pc[e] = "idle"
             /\ e.id \in made'
             /\ e.kind = "OrderMatched" => e.fill <= filled'[e.id]
             /\ e.kind = "OrderCancelled" => e.id \in cancelled'
             /\ made \subseteq made' /\ cancelled \subseteq cancelled'
             /\ \A p \in Orders : filled[p] <= filled'[p]
  BY ContractEmits
<1>0. /\ pc \in [Events -> Running \union Ended \union {"idle"}]
      /\ \A p \in Orders : filled[p] \in Nat /\ filled'[p] \in Nat
      /\ \A p \in Orders : filled[p] <= Amount /\ filled'[p] <= Amount
      /\ Amount \in Nat
  BY ContractAssumption DEF LiveInv, TypeOK, ContractTypeOK, Fills
<1>1. /\ UNCHANGED <<orders, attempt>>
      /\ pc' = [pc EXCEPT ![e] = IF listening THEN Entry(e) ELSE "missed"]
  BY DEF Emit, Goto, tableVars
<1>2. /\ pc'[e] \in {"getTokenDecimals", "getOrderInfo", "cancelOrder", "missed"}
      /\ pc'[e] = "cancelOrder" => e.kind = "OrderCancelled"
  BY <1>0, <1>1, EventParts DEF Entry
<1>3. /\ \A x \in Events \ {e} : pc'[x] = pc[x]
      /\ \A x \in Events : (pc'[x] = "done") = (pc[x] = "done")
      /\ \A x \in Events : (pc'[x] = "gaveUp") = (pc[x] = "gaveUp")
  BY <1>0, <1>1, <1>2
<1>4. attempt[e] = 0
  BY <1>0, IndexAssumption DEF LiveInv, CreatesOnce, Ended, TypeOK
<1>5. RowsBacked'
  <2>1. \A p \in Orders : View!Backed(p) \subseteq View!Backed(p)'
    <3> SUFFICES ASSUME NEW p \in Orders PROVE View!Backed(p) \subseteq View!Backed(p)'
      OBVIOUS
    <3>1. filled[p] = Amount => filled'[p] = Amount
      BY <1>0
    <3>2. \A g \in Fills : g <= filled[p] => g <= filled'[p]
      BY <1>0 DEF Fills
    <3> QED
      BY <3>1, <3>2 DEF View!Backed, View!Fills, Fills
  <2> QED
    BY <1>1, <2>1 DEF LiveInv, RowsBacked
<1>6. HasHappened'
  <2> SUFFICES ASSUME NEW x \in Events, pc'[x] # "idle"
               PROVE  /\ x.id \in made'
                      /\ x.kind = "OrderMatched" => x.fill <= filled'[x.id]
                      /\ x.kind = "OrderCancelled" => x.id \in cancelled'
    BY DEF HasHappened
  <2>1. CASE x = e
    BY <2>1
  <2>2. CASE x # e
    <3>1. x.id \in Orders /\ x.fill \in Nat
      BY EventParts, ContractAssumption DEF Fills
    <3>2. /\ x.id \in made
          /\ x.kind = "OrderMatched" => x.fill <= filled[x.id]
          /\ x.kind = "OrderCancelled" => x.id \in cancelled
      BY <2>2, <1>3 DEF LiveInv, HasHappened
    <3> QED
      BY <3>1, <3>2, <1>0
  <2> QED
    BY <2>1, <2>2
<1>7. HandlerKind'
  BY <1>1, <1>2, <1>3 DEF LiveInv, HandlerKind
<1>8. CreatesOnce'
  BY <1>1, <1>3, <1>4 DEF LiveInv, CreatesOnce
<1>9. NeverGivesUp' /\ MatchRecorded'
  BY <1>1, <1>3 DEF LiveInv, NeverGivesUp, MatchRecorded
<1>10. CancelKept'
  BY <1>1, <1>3, EventsOfOrder DEF LiveInv, CancelKept
<1> QED
  BY <1>5, <1>6, <1>7, <1>8, <1>9, <1>10 DEF LiveInv

\* A death takes the running handlers and leaves what they wrote.
LEMMA DeathKeeps ==
    ASSUME LiveInv, TypeOK', ProcessDies
    PROVE  LiveInv'
<1>0. pc \in [Events -> Running \union Ended \union {"idle"}]
  BY DEF LiveInv, TypeOK
<1>1. /\ UNCHANGED <<made, filled, cancelled, orders, attempt>>
      /\ pc' = [x \in Events |-> IF pc[x] \in Running THEN "killed" ELSE pc[x]]
  BY DEF ProcessDies, chainVars, tableVars
<1>2. /\ \A x \in Events : pc'[x] = "killed" \/ pc'[x] = pc[x]
      /\ \A x \in Events : (pc'[x] = "idle") = (pc[x] = "idle")
      /\ \A x \in Events : (pc'[x] = "done") = (pc[x] = "done")
      /\ \A x \in Events : (pc'[x] = "gaveUp") = (pc[x] = "gaveUp")
  BY <1>0, <1>1 DEF Running
<1>3. RowsBacked' /\ HasHappened'
  BY <1>1, <1>2 DEF LiveInv, RowsBacked, View!Backed, HasHappened
<1>4. HandlerKind' /\ CreatesOnce'
  BY <1>1, <1>2 DEF LiveInv, HandlerKind, CreatesOnce, Ended
<1>5. NeverGivesUp' /\ MatchRecorded'
  BY <1>1, <1>2 DEF LiveInv, NeverGivesUp, MatchRecorded
<1>6. CancelKept'
  BY <1>1, <1>2, EventsOfOrder DEF LiveInv, CancelKept
<1> QED
  BY <1>3, <1>4, <1>5, <1>6 DEF LiveInv

\* Nothing depends on the subscriptions, the users or the counters.
LEMMA StutterKeeps ==
    ASSUME LiveInv, TypeOK', UNCHANGED <<chainVars, orders, pc, attempt>>
    PROVE  LiveInv'
<1>1. RowsBacked' /\ HasHappened'
  BY DEF LiveInv, RowsBacked, View!Backed, HasHappened, chainVars
<1>2. HandlerKind' /\ CreatesOnce' /\ NeverGivesUp' /\ MatchRecorded'
  BY DEF LiveInv, HandlerKind, CreatesOnce, NeverGivesUp, MatchRecorded
<1>3. CancelKept'
  BY DEF LiveInv, CancelKept
<1> QED
  BY <1>1, <1>2, <1>3 DEF LiveInv

-----------------------------------------------------------------------------
(* Every step keeps the types and the invariant                            *)

\* One goal per kind of variable; the handlers only go to places they know.
LEMMA TypesKept ==
    ASSUME LiveInv, [Next]_vars
    PROVE  TypeOK'
<1> USE ContractAssumption, IndexAssumption
<1>0. /\ TypeOK
      /\ pc \in [Events -> Running \union Ended \union {"idle"}]
      /\ attempt \in [Events -> 0..RetryLimit]
      /\ orders \in [Orders -> Row \union {Absent}]
      /\ users \subseteq Users
      /\ \A o \in Orders : Owner[o] \in Users
  BY DEF LiveInv, TypeOK
<1>1. ASSUME NEW e \in Events, HandlerStep(e)
      PROVE  /\ UNCHANGED <<chainVars, listening, faults, crashes>>
             /\ \E label \in Running \union Ended : pc' = [pc EXCEPT ![e] = label]
             /\ attempt' \in [Events -> 0..RetryLimit]
             /\ users' \subseteq Users
             /\ orders' \in [Orders -> Row \union {Absent}]
  <2>0. e.id \in Orders /\ attempt[e] \in Nat
    BY <1>0, EventParts
  <2> DEFINE Result == /\ UNCHANGED <<chainVars, listening, faults, crashes>>
                       /\ \E label \in Running \union Ended : pc' = [pc EXCEPT ![e] = label]
                       /\ attempt' \in [Events -> 0..RetryLimit]
                       /\ users' \subseteq Users
                       /\ orders' \in [Orders -> Row \union {Absent}]
  <2>1. ASSUME NextAttempt(e)
        PROVE  \E label \in Running \union Ended : pc' = [pc EXCEPT ![e] = label]
    BY <2>1 DEF NextAttempt, Goto, Running, Ended
  <2>2. ASSUME NEW result, CreateReturns(e, result), pc[e] \in {"getOrder", "createOrder"}
        PROVE  /\ \E label \in Running \union Ended : pc' = [pc EXCEPT ![e] = label]
               /\ attempt' \in [Events -> 0..RetryLimit]
    <3>1. CASE NextAttempt(e)
      <4>1. attempt[e] = 0
        BY <2>0, <2>2 DEF LiveInv, CreatesOnce, Ended
      <4>2. attempt' \in [Events -> 0..RetryLimit]
        BY <1>0, <3>1, <4>1 DEF NextAttempt
      <4> QED
        BY <2>1, <3>1, <4>2
    <3>2. CASE Goto(e, CreateOutcome(e, result)) /\ UNCHANGED attempt
      BY <1>0, <3>2 DEF Goto, CreateOutcome, Ended
    <3> QED
      BY <2>2, <3>1, <3>2 DEF CreateReturns
  <2>3. CASE GetOrderInfo(e) \/ GetTokenDecimals(e) \/ GetUser(e) \/ CancelOrder(e)
    BY <1>0, <2>3 DEF GetOrderInfo, GetTokenDecimals, GetUser, CancelOrder, tableVars,
                      Goto, Running
  <2>4. CASE CreateUser(e)
    BY <1>0, <2>0, <2>4 DEF CreateUser, Goto, Running, Ended
  <2>5. CASE GetOrder(e)
    <3>1. CASE orders[e.id] = Absent
      BY <1>0, <2>5, <3>1 DEF GetOrder, Goto, Running, tableVars
    <3>2. CASE orders[e.id] # Absent
      BY <1>0, <2>2, <2>5, <3>2 DEF GetOrder, tableVars
    <3> QED
      BY <3>1, <3>2
  <2>6. CASE CreateOrder(e)
    <3>1. orders' \in [Orders -> Row \union {Absent}]
      BY <1>0, <2>6, RowsAreRows DEF CreateOrder
    <3> QED
      BY <1>0, <2>2, <2>6, <3>1 DEF CreateOrder
  <2>7. CASE UpdateOrder(e)
    <3>1. CASE orders[e.id] # Absent \/ attempt[e] = 0
      BY <1>0, <2>7, <3>1 DEF UpdateOrder, Goto, Running, tableVars
    <3>2. CASE orders[e.id] = Absent /\ attempt[e] # 0
      BY <2>0, <3>2 DEF LiveInv, NeverGivesUp
    <3> QED
      BY <3>1, <3>2
  <2>8. CASE WriteUpdate(e)
    BY <1>0, <2>8, RowsAreRows DEF WriteUpdate, Goto, Ended
  <2>9. CASE WriteCancel(e)
    <3>1. [orders[e.id] EXCEPT !.status = "CANCELLED"] \in Row
      BY <1>0, <2>0, <2>9 DEF WriteCancel, Row, Status
    <3> QED
      BY <1>0, <2>9, <3>1 DEF WriteCancel, Goto, Ended
  <2> QED
    BY <1>1, <2>3, <2>4, <2>5, <2>6, <2>7, <2>8, <2>9 DEF HandlerStep
<1>2. CASE \E e \in Events : HandlerStep(e)
  BY <1>0, <1>1, <1>2 DEF TypeOK, ContractTypeOK, chainVars
<1>3. CASE \E e \in Events : CallRejects(e)
  <2>1. PICK e \in Events : CallRejects(e)
    BY <1>3
  <2>2. pc' \in [Events -> Running \union Ended \union {"idle"}]
    BY <1>0, <2>1 DEF CallRejects, Goto, Ended
  <2>3. faults' \in 0..MaxFaults
    BY <1>0, <2>1 DEF CallRejects, TypeOK
  <2> QED
    BY <1>0, <2>1, <2>2, <2>3 DEF CallRejects, TypeOK, ContractTypeOK, chainVars, tableVars
<1>4. CASE ContractStep
  <2>1. PICK e \in Events : Emit(e) /\ ContractTypeOK'
    BY <1>4, ContractEmits
  <2>2. pc' \in [Events -> Running \union Ended \union {"idle"}]
    BY <1>0, <2>1, EventParts DEF Emit, Goto, Entry, Running, Ended
  <2> QED
    BY <1>0, <2>1, <2>2 DEF Emit, TypeOK, tableVars
<1>5. CASE Crash
  <2>1. pc' \in [Events -> Running \union Ended \union {"idle"}]
    BY <1>0, <1>5 DEF Crash, ProcessDies, Ended
  <2>2. crashes \in 0..MaxCrashes
    BY <1>0 DEF TypeOK
  <2>3. crashes' \in 0..MaxCrashes
    BY <1>5, <2>2 DEF Crash
  <2>4. listening' \in BOOLEAN
    BY <1>5 DEF Crash, ProcessDies
  <2> QED
    BY <1>0, <1>5, <2>1, <2>3, <2>4
    DEF Crash, ProcessDies, TypeOK, ContractTypeOK, chainVars, tableVars
<1>6. CASE Listen
  BY <1>0, <1>6 DEF Listen, TypeOK, ContractTypeOK, chainVars, tableVars
<1>7. CASE UNCHANGED vars
  BY <1>0, <1>7 DEF vars, indexVars, TypeOK, ContractTypeOK, chainVars, tableVars
<1> QED
  BY <1>2, <1>3, <1>4, <1>5, <1>6, <1>7 DEF Next

\* The invariant is inductive: one case per action.
LEMMA StepKeeps ==
    ASSUME LiveInv, [Next]_vars
    PROVE  LiveInv'
<1>0. /\ TypeOK'
      /\ pc \in [Events -> Running \union Ended \union {"idle"}]
  BY TypesKept DEF LiveInv, TypeOK
<1>a. \A e \in Events : pc[e] \in Running \ {"updateOrder", "writeUpdate"} => attempt[e] = 0
  BY IndexAssumption DEF LiveInv, CreatesOnce, TypeOK, Running, Ended
<1>1. ASSUME NEW e \in Events, HandlerStep(e)
      PROVE  LiveInv'
  <2>1. CASE GetOrderInfo(e)
    <3>1. attempt[e] = 0
      BY <2>1, <1>a DEF GetOrderInfo, Running
    <3> QED
      BY <1>0, <2>1, <3>1, HandlerMoves DEF GetOrderInfo, tableVars, Running
  <2>2. CASE GetTokenDecimals(e)
    <3>1. attempt[e] = 0
      BY <2>2, <1>a DEF GetTokenDecimals, Running
    <3> QED
      BY <1>0, <2>2, <3>1, HandlerMoves DEF GetTokenDecimals, tableVars, Running
  <2>3. CASE GetUser(e)
    <3>1. attempt[e] = 0
      BY <2>3, <1>a DEF GetUser, Running
    <3> QED
      BY <1>0, <2>3, <3>1, HandlerMoves DEF GetUser, tableVars, Running
  <2>4. CASE CreateUser(e)
    <3>1. attempt[e] = 0
      BY <2>4, <1>a DEF CreateUser, Running
    <3>2. Goto(e, "getOrder") \/ Goto(e, "failed")
      BY <2>4 DEF CreateUser
    <3> QED
      BY <1>0, <2>4, <3>1, <3>2, HandlerMoves DEF CreateUser, Running, Ended
  <2>5. CASE GetOrder(e)
    <3>1. attempt[e] = 0
      BY <2>5, <1>a DEF GetOrder, Running
    <3>2. CASE orders[e.id] = Absent
      BY <1>0, <2>5, <3>1, <3>2, HandlerMoves DEF GetOrder, tableVars, Running
    <3>3. CASE orders[e.id] # Absent /\ e.kind = "OrderMatched"
      BY <1>0, <2>5, <3>3, AttemptMoves DEF GetOrder, CreateReturns, tableVars
    <3>4. CASE orders[e.id] # Absent /\ e.kind # "OrderMatched"
      <4>1. Goto(e, "failed") /\ UNCHANGED attempt
        BY <2>5, <3>4 DEF GetOrder, CreateReturns, CreateOutcome
      <4> QED
        BY <1>0, <2>5, <3>1, <4>1, HandlerMoves DEF GetOrder, tableVars, Running, Ended
    <3> QED
      BY <3>2, <3>3, <3>4
  <2>6. CASE CreateOrder(e)
    <3>1. attempt[e] = 0
      BY <2>6, <1>a DEF CreateOrder, Running
    <3>2. CASE orders[e.id] = Absent
      BY <1>0, <2>6, <3>2, InsertKeeps
    <3>3. CASE orders[e.id] # Absent /\ e.kind = "OrderMatched"
      BY <1>0, <2>6, <3>3, AttemptMoves DEF CreateOrder, CreateReturns
    <3>4. CASE orders[e.id] # Absent /\ e.kind # "OrderMatched"
      <4>1. (Goto(e, "failed") \/ Goto(e, "skipped")) /\ UNCHANGED attempt
        BY <2>6, <3>4 DEF CreateOrder, CreateReturns, CreateOutcome
      <4> QED
        BY <1>0, <2>6, <3>1, <3>4, <4>1, HandlerMoves DEF CreateOrder, Running, Ended
    <3> QED
      BY <3>2, <3>3, <3>4
  <2>7. CASE UpdateOrder(e)
    <3>1. e.kind = "OrderMatched"
      BY <2>7 DEF UpdateOrder, LiveInv, HandlerKind
    <3>2. CASE orders[e.id] # Absent
      BY <1>0, <2>7, <3>1, <3>2, HandlerMoves DEF UpdateOrder, tableVars, Running
    <3>3. CASE orders[e.id] = Absent
      <4>1. attempt[e] \in Nat
        BY IndexAssumption DEF LiveInv, TypeOK
      <4>2. attempt[e] > 0 => orders[e.id] # Absent
        BY DEF LiveInv, NeverGivesUp
      <4>3. attempt[e] = 0
        BY <3>3, <4>1, <4>2
      <4> QED
        BY <1>0, <2>7, <3>3, <4>3, HandlerMoves DEF UpdateOrder, tableVars, Running
    <3> QED
      BY <3>2, <3>3
  <2>8. CASE WriteUpdate(e)
    BY <1>0, <2>8, UpdateKeeps
  <2>9. CASE CancelOrder(e)
    <3>0. attempt[e] = 0
      BY <2>9, <1>a DEF CancelOrder, Running
    <3>1. e.kind = "OrderCancelled"
      BY <2>9 DEF CancelOrder, LiveInv, HandlerKind
    <3>2. (Goto(e, "writeCancel") /\ orders[e.id] # Absent) \/ Goto(e, "getOrderInfo")
      BY <2>9 DEF CancelOrder
    <3> QED
      BY <1>0, <2>9, <3>0, <3>1, <3>2, HandlerMoves DEF CancelOrder, tableVars, Running
  <2>10. CASE WriteCancel(e)
    BY <1>0, <2>10, CancelKeeps
  <2> QED
    BY <1>1, <2>1, <2>2, <2>3, <2>4, <2>5, <2>6, <2>7, <2>8, <2>9, <2>10 DEF HandlerStep
<1>2. ASSUME NEW e \in Events, CallRejects(e)
      PROVE  LiveInv'
  BY <1>0, <1>2, HandlerMoves DEF CallRejects, tableVars, Ended
<1>3. CASE ContractStep
  BY <1>0, <1>3, EmitKeeps
<1>4. CASE Crash
  BY <1>0, <1>4, DeathKeeps DEF Crash
<1>5. CASE Listen
  BY <1>0, <1>5, StutterKeeps DEF Listen, tableVars
<1>6. CASE UNCHANGED vars
  BY <1>0, <1>6, StutterKeeps DEF vars, indexVars, tableVars
<1> QED
  BY <1>1, <1>2, <1>3, <1>4, <1>5, <1>6 DEF Next

-----------------------------------------------------------------------------
(* Fills and their writers                                                 *)

\* No rows, no handlers.
LEMMA NoWritersYet == Init => FillHasWriter
<1> SUFFICES ASSUME Init, NEW o \in Orders
             PROVE  orders[o].fill = 0 /\ \A f \in Fills \ {0} : pc[OrderMatched(o, f)] # "done"
  BY DEF FillHasWriter
<1>1. orders[o] = Absent /\ Absent.fill = 0
  BY DEF Init, Absent, View!Absent
<1>2. \A f \in Fills \ {0} : pc[OrderMatched(o, f)] = "idle"
  BY EventsOfOrder DEF Init
<1> QED
  BY <1>1, <1>2

\* A match handler writes its own fill as it ends; no other handler changes a
\* fill, for an insert has none.
LEMMA WritersKept ==
    ASSUME LiveInv, FillHasWriter, [Next]_vars
    PROVE  FillHasWriter'
<1>0. /\ pc \in [Events -> Running \union Ended \union {"idle"}]
      /\ orders \in [Orders -> Row \union {Absent}]
  BY DEF LiveInv, TypeOK
<1>1. ASSUME \A p \in Orders : orders'[p].fill = orders[p].fill,
             \A x \in Events : x.kind = "OrderMatched" =>
                (pc'[x] = "done") = (pc[x] = "done")
      PROVE  FillHasWriter'
  <2>1. \A p \in Orders, f \in Fills \ {0} :
           (pc'[OrderMatched(p, f)] = "done") = (pc[OrderMatched(p, f)] = "done")
    BY <1>1, EventsOfOrder DEF OrderMatched
  <2> QED
    BY <1>1, <2>1 DEF FillHasWriter
<1>2. ASSUME NEW e \in Events, HandlerStep(e)
      PROVE  FillHasWriter'
  <2>0. e.id \in Orders
    BY EventParts
  <2>1. CASE WriteUpdate(e)
    <3>1. /\ e.kind = "OrderMatched" /\ e = OrderMatched(e.id, e.fill)
          /\ e.fill \in Fills \ {0}
          /\ MatchedRow(e).fill = e.fill
      BY <2>1, MatchedRowBacked, MatchEvent DEF WriteUpdate
    <3>2. /\ orders'[e.id].fill = e.fill
          /\ \A p \in Orders \ {e.id} : orders'[p] = orders[p]
          /\ pc'[e] = "done"
          /\ \A x \in Events \ {e} : pc'[x] = pc[x]
      BY <1>0, <2>0, <2>1, <3>1 DEF WriteUpdate, Goto
    <3> SUFFICES ASSUME NEW p \in Orders
                 PROVE  LET written == {f \in Fills \ {0} : pc'[OrderMatched(p, f)] = "done"}
                        IN  IF orders'[p].fill = 0 THEN written = {}
                            ELSE orders'[p].fill \in written
      BY DEF FillHasWriter
    <3>3. CASE p = e.id
      BY <3>1, <3>2, <3>3
    <3>4. CASE p # e.id
      <4>1. \A f \in Fills \ {0} : pc'[OrderMatched(p, f)] = pc[OrderMatched(p, f)]
        BY <3>2, <3>4, EventsOfOrder DEF OrderMatched
      <4> QED
        BY <3>2, <3>4, <4>1 DEF FillHasWriter
    <3> QED
      BY <3>3, <3>4
  <2>2. CASE WriteCancel(e)
    <3>1. e.kind = "OrderCancelled" /\ orders[e.id] \in Row
      BY <1>0, <2>0, <2>2 DEF WriteCancel, LiveInv, HandlerKind
    <3>2. [orders[e.id] EXCEPT !.status = "CANCELLED"].fill = orders[e.id].fill
      BY <3>1 DEF Row
    <3> QED
      BY <1>0, <1>1, <2>0, <2>2, <3>1, <3>2 DEF WriteCancel, Goto
  <2>3. CASE CreateOrder(e) \/ GetOrder(e)
    <3>1. \A result : CreateReturns(e, result) =>
            /\ \A x \in Events \ {e} : pc'[x] = pc[x]
            /\ e.kind = "OrderMatched" => pc'[e] # "done"
      BY <1>0 DEF CreateReturns, NextAttempt, Goto
    <3>2. /\ \A x \in Events \ {e} : pc'[x] = pc[x]
          /\ e.kind = "OrderMatched" => pc'[e] # "done" /\ pc[e] # "done"
      BY <1>0, <2>3, <3>1 DEF CreateOrder, GetOrder, Goto
    <3>3. \A p \in Orders : orders'[p].fill = orders[p].fill
      <4>1. \/ orders' = orders
            \/ orders' = [orders EXCEPT ![e.id] = NewRow(e)] /\ orders[e.id] = Absent
        BY <2>3 DEF CreateOrder, GetOrder, tableVars
      <4>2. NewRow(e).fill = 0 /\ Absent.fill = 0
        BY DEF NewRow, Absent, View!Absent
      <4> QED
        BY <1>0, <2>0, <4>1, <4>2
    <3> QED
      BY <1>1, <3>2, <3>3
  <2>4. CASE GetOrderInfo(e) \/ GetTokenDecimals(e) \/ GetUser(e) \/ CreateUser(e)
             \/ CancelOrder(e)
    BY <1>0, <1>1, <2>4
    DEF GetOrderInfo, GetTokenDecimals, GetUser, CreateUser, CancelOrder, Goto, tableVars
  <2>5. CASE UpdateOrder(e)
    BY <1>0, <1>1, <2>5 DEF UpdateOrder, NextAttempt, Goto, tableVars
  <2> QED
    BY <1>2, <2>1, <2>2, <2>3, <2>4, <2>5 DEF HandlerStep
<1>3. CASE \E e \in Events : CallRejects(e)
  BY <1>0, <1>1, <1>3 DEF CallRejects, Goto, tableVars, Running
<1>4. CASE ContractStep
  <2>1. PICK e \in Events : Emit(e) /\ pc[e] = "idle"
    BY <1>4, ContractEmits
  <2>2. pc'[e] # "done" /\ \A x \in Events \ {e} : pc'[x] = pc[x]
    BY <1>0, <2>1, EventParts DEF Emit, Goto, Entry
  <2> QED
    BY <1>1, <2>1, <2>2 DEF Emit, tableVars
<1>5. CASE Crash
  BY <1>1, <1>5 DEF Crash, ProcessDies, tableVars, Running
<1>6. CASE Listen \/ UNCHANGED vars
  BY <1>1, <1>6 DEF Listen, vars, indexVars, tableVars
<1> QED
  BY <1>2, <1>3, <1>4, <1>5, <1>6 DEF Next

-----------------------------------------------------------------------------
(* Paced orders                                                            *)

\* No rows, no handlers.
LEMMA NothingPacedYet == Init => PacedInv
<1> SUFFICES ASSUME Init, NEW o \in Paced
             PROVE  /\ pc[OrderCancelled(o)] # "done"
                    /\ ~(filled[o] > 0)
                    /\ \A f \in Fills \ {0} : pc[OrderMatched(o, f)] \notin Running
  BY DEF PacedInv
<1>1. o \in Orders
  BY IndexAssumption
<1> QED
  BY <1>1, EventsOfOrder DEF Init, ContractInit, Running

\* What an order looks like is told by its fill.
LEMMA ChainRows ==
    ASSUME NEW o \in Orders
    PROVE  /\ ChainRow(o).fill = filled[o]
           /\ ChainRow(o).status \in {"ACTIVE", "PARTIALLY_FILLED", "FILLED"}
           /\ ChainRow(o) # Absent
           /\ [ChainRow(o) EXCEPT !.status = "CANCELLED"]
                = [status |-> "CANCELLED", fill |-> filled[o]]
           /\ filled' = filled => ChainRow(o)' = ChainRow(o)
BY DEF ChainRow, Absent, View!Absent

\* A paced order's handler writes what the chain says, for the chain waits for
\* it; and before it ends, the event that it handles is not yet done.
LEMMA PacedKept ==
    ASSUME LiveInv, PacedInv, [Next]_vars
    PROVE  PacedInv'
<1> DEFINE Cancelled(o) == pc[OrderCancelled(o)] = "done"
           Matched(o) == filled[o] > 0 /\ pc[OrderMatched(o, filled[o])] = "done"
           Latest(o) == \A f \in Fills \ {0} : pc[OrderMatched(o, f)] \in Running =>
                            f = filled[o] /\ o \notin cancelled
           Healed(o) == /\ Cancelled(o) => orders[o].status = "CANCELLED"
                        /\ Matched(o) => orders[o] =
                              IF Cancelled(o) THEN [ChainRow(o) EXCEPT !.status = "CANCELLED"]
                              ELSE ChainRow(o)
<1>0. /\ pc \in [Events -> Running \union Ended \union {"idle"}]
      /\ orders \in [Orders -> Row \union {Absent}]
      /\ \A o \in Orders : filled[o] \in Fills
      /\ Paced \subseteq Orders
      /\ \A o \in Paced : Latest(o) /\ Healed(o)
      /\ HasHappened
  BY IndexAssumption DEF LiveInv, TypeOK, ContractTypeOK, PacedInv
<1>1. ASSUME \A o \in Paced : Latest(o)' /\ Healed(o)' PROVE PacedInv'
  BY <1>1 DEF PacedInv
<1>2. ASSUME NEW o \in Paced
      PROVE  /\ o \in Orders
             /\ OrderCancelled(o) \in Events
             /\ \A f \in Fills \ {0} : OrderMatched(o, f) \in Events
             /\ filled[o] > 0 => filled[o] \in Fills \ {0}
  BY <1>0, EventsOfOrder, ContractAssumption DEF Fills
<1>3. ASSUME UNCHANGED <<filled, cancelled>>, NEW o \in Paced, orders'[o] = orders[o],
             \A x \in Events : x.id = o => (pc'[x] = "done") = (pc[x] = "done"),
             \A x \in Events : x.id = o /\ pc'[x] \in Running => pc[x] \in Running
      PROVE  Latest(o)' /\ Healed(o)'
  <2>1. /\ OrderCancelled(o).id = o
        /\ \A f : OrderMatched(o, f).id = o
    BY DEF OrderCancelled, OrderMatched
  <2>2. Latest(o)'
    BY <1>0, <1>2, <1>3, <2>1
  <2>3. Cancelled(o)' = Cancelled(o) /\ Matched(o)' = Matched(o)
    BY <1>2, <1>3, <2>1
  <2>4. ChainRow(o)' = ChainRow(o)
    BY <1>2, <1>3, ChainRows
  <2>5. Healed(o)'
    BY <1>0, <1>3, <2>3, <2>4
  <2> QED
    BY <2>2, <2>5
<1>4. ASSUME UNCHANGED <<chainVars, orders>>,
             \A x \in Events : (pc'[x] = "done") = (pc[x] = "done"),
             \A x \in Events : pc'[x] \in Running => pc[x] \in Running
      PROVE  PacedInv'
  BY <1>1, <1>3, <1>4 DEF chainVars
<1>5. ASSUME NEW e \in Events, HandlerStep(e)
      PROVE  PacedInv'
  <2>0. e.id \in Orders
    BY EventParts
  <2>1. CASE GetOrderInfo(e) \/ GetTokenDecimals(e) \/ GetUser(e) \/ CreateUser(e)
             \/ CancelOrder(e)
    BY <1>0, <1>4, <2>1
    DEF GetOrderInfo, GetTokenDecimals, GetUser, CreateUser, CancelOrder, Goto, tableVars,
        Running
  <2>2. CASE UpdateOrder(e)
    BY <1>0, <1>4, <2>2 DEF UpdateOrder, NextAttempt, Goto, tableVars, Running
  <2>3. CASE GetOrder(e)
    BY <1>0, <1>4, <2>3
    DEF GetOrder, CreateReturns, CreateOutcome, NextAttempt, Goto, tableVars, Running
  <2>4. CASE CreateOrder(e) /\ orders[e.id] # Absent
    BY <1>0, <1>4, <2>4
    DEF CreateOrder, CreateReturns, CreateOutcome, NextAttempt, Goto, tableVars, Running
  <2>5. ASSUME NEW o \in Paced, o # e.id, UNCHANGED chainVars,
               orders'[o] = orders[o], \A x \in Events \ {e} : pc'[x] = pc[x]
        PROVE  Latest(o)' /\ Healed(o)'
    BY <1>3, <2>5 DEF chainVars
  <2>6. CASE CreateOrder(e) /\ orders[e.id] = Absent
    <3>1. /\ UNCHANGED chainVars
          /\ orders' = [orders EXCEPT ![e.id] = NewRow(e)]
          /\ CreateReturns(e, "created")
          /\ pc[e] = "createOrder"
      BY <2>6 DEF CreateOrder
    <3>2. /\ \A x \in Events \ {e} : pc'[x] = pc[x]
          /\ e.kind = "OrderMatched" => pc'[e] # "done"
      BY <1>0, <3>1 DEF CreateReturns, NextAttempt, Goto
    <3>3. \A o \in Orders \ {e.id} : orders'[o] = orders[o]
      BY <1>0, <3>1
    <3>4. ASSUME e.id \in Paced PROVE Latest(e.id)' /\ Healed(e.id)'
      <4> DEFINE o == e.id
      <4>1. ~Cancelled(o) /\ ~Matched(o)
        <5>1. Absent.status # "CANCELLED"
          BY DEF Absent, View!Absent
        <5>2. Healed(o) /\ orders[o] = Absent
          BY <1>0, <2>6, <3>4
        <5> QED
          BY <2>0, <5>1, <5>2, ChainRows
      <4>2. Latest(o)'
        <5>1. \A x \in Events : pc'[x] \in Running => pc[x] \in Running
          BY <3>1, <3>2 DEF Running
        <5> QED
          BY <1>0, <1>2, <3>1, <3>4, <5>1 DEF chainVars
      <4>3. ~Matched(o)'
        <5>1. \A f \in Fills \ {0} : pc'[OrderMatched(o, f)] = "done"
                => pc[OrderMatched(o, f)] = "done"
          BY <1>2, <3>2, <3>4 DEF OrderMatched
        <5> QED
          BY <1>2, <3>1, <3>4, <4>1, <5>1 DEF chainVars
      <4>4. Cancelled(o)' => orders'[o].status = "CANCELLED"
        <5>1. Cancelled(o)' => e = OrderCancelled(o)
          BY <1>2, <3>2, <3>4, <4>1
        <5>2. e = OrderCancelled(o) => NewRow(e).status = "CANCELLED"
          BY DEF NewRow, OrderCancelled
        <5> QED
          BY <1>0, <2>0, <3>1, <5>1, <5>2
      <4> QED
        BY <4>2, <4>3, <4>4
    <3> QED
      BY <1>0, <1>1, <2>5, <3>1, <3>2, <3>3, <3>4
  <2>7. CASE WriteUpdate(e)
    <3>1. /\ e.kind = "OrderMatched" /\ e = OrderMatched(e.id, e.fill)
          /\ e.fill \in Fills \ {0}
          /\ pc[e] = "writeUpdate"
      BY <2>7, MatchedRowBacked, MatchEvent DEF WriteUpdate
    <3>2. /\ UNCHANGED chainVars
          /\ orders'[e.id] = MatchedRow(e)
          /\ \A o \in Orders \ {e.id} : orders'[o] = orders[o]
          /\ pc'[e] = "done"
          /\ \A x \in Events \ {e} : pc'[x] = pc[x]
      BY <1>0, <2>0, <2>7 DEF WriteUpdate, Goto
    <3>3. ASSUME e.id \in Paced PROVE Latest(e.id)' /\ Healed(e.id)'
      <4> DEFINE o == e.id
      <4>1. e.fill = filled[o] /\ o \notin cancelled
        BY <1>0, <3>1, <3>3 DEF Running
      <4>2. ~Cancelled(o)'
        <5>1. OrderCancelled(o) # e
          BY <3>1 DEF OrderCancelled
        <5>2. pc[OrderCancelled(o)] = "idle"
          BY <1>0, <1>2, <3>3, <4>1 DEF HasHappened, OrderCancelled
        <5> QED
          BY <1>2, <3>2, <3>3, <5>1, <5>2
      <4>3. Latest(o)'
        <5>1. \A x \in Events : pc'[x] \in Running => pc[x] \in Running
          BY <3>2 DEF Running
        <5> QED
          BY <1>0, <1>2, <3>2, <3>3, <5>1 DEF chainVars
      <4>4. MatchedRow(e) = ChainRow(o)
        BY <1>0, <3>1, <4>1, ContractAssumption DEF MatchedRow, ChainRow, Fills
      <4>5. ChainRow(o)' = ChainRow(o)
        BY <2>0, <3>2, ChainRows DEF chainVars
      <4> QED
        BY <3>2, <4>2, <4>3, <4>4, <4>5
    <3> QED
      BY <1>0, <1>1, <2>5, <3>2, <3>3
  <2>8. CASE WriteCancel(e)
    <3>1. /\ e.kind = "OrderCancelled" /\ e = OrderCancelled(e.id)
          /\ pc[e] = "writeCancel" /\ orders[e.id] \in Row
      BY <1>0, <2>0, <2>8, CancelEvent DEF WriteCancel, LiveInv, HandlerKind
    <3>2. /\ UNCHANGED chainVars
          /\ orders'[e.id] = [orders[e.id] EXCEPT !.status = "CANCELLED"]
          /\ \A o \in Orders \ {e.id} : orders'[o] = orders[o]
          /\ pc'[e] = "done"
          /\ \A x \in Events \ {e} : pc'[x] = pc[x]
      BY <1>0, <2>0, <2>8 DEF WriteCancel, Goto
    <3>3. ASSUME e.id \in Paced PROVE Latest(e.id)' /\ Healed(e.id)'
      <4> DEFINE o == e.id
      <4>1. \A f \in Fills \ {0} : OrderMatched(o, f) # e
        BY <3>1 DEF OrderMatched
      <4>2. ~Cancelled(o) /\ Cancelled(o)'
        BY <3>1, <3>2
      <4>3. Matched(o)' = Matched(o)
        BY <1>2, <3>2, <3>3, <4>1 DEF chainVars
      <4>4. Latest(o)'
        BY <1>0, <1>2, <3>2, <3>3, <4>1 DEF chainVars
      <4>5. orders'[o].status = "CANCELLED"
        BY <3>1, <3>2 DEF Row
      <4>6. Matched(o) => orders'[o] = [ChainRow(o) EXCEPT !.status = "CANCELLED"]
        BY <1>0, <3>2, <3>3, <4>2
      <4>7. ChainRow(o)' = ChainRow(o)
        BY <2>0, <3>2, ChainRows DEF chainVars
      <4> QED
        BY <4>2, <4>3, <4>4, <4>5, <4>6, <4>7
    <3>4. ASSUME NEW o \in Paced, o # e.id PROVE Latest(o)' /\ Healed(o)'
      <4>1. orders'[o] = orders[o]
        BY <1>2, <3>2, <3>4
      <4> QED
        BY <2>5, <3>2, <3>4, <4>1
    <3> HIDE DEF Latest, Healed
    <3> QED
      BY <1>1, <3>3, <3>4
  <2> QED
    BY <1>5, <2>1, <2>2, <2>3, <2>4, <2>6, <2>7, <2>8 DEF HandlerStep, CreateOrder
<1>6. CASE \E e \in Events : CallRejects(e)
  BY <1>0, <1>4, <1>6 DEF CallRejects, Goto, tableVars, Running
<1>7. CASE Crash
  BY <1>0, <1>4, <1>7 DEF Crash, ProcessDies, tableVars, Running
<1>8. CASE Listen \/ UNCHANGED vars
  BY <1>4, <1>8 DEF Listen, vars, indexVars, tableVars
<1>9. CASE ContractStep
  <2> PICK o \in Orders : \/ EmitCreated(o)
                          \/ \E f \in Fills : EmitMatched(o, f)
                          \/ EmitCancelled(o)
    BY <1>9 DEF ContractStep
  <2>1. PICK e \in Events :
             /\ Emit(e)
             /\ pc[e] = "idle"
             /\ e.id = o
             /\ \/ e = OrderCreated(o) /\ ContractCreates(o)
                \/ \E f \in Fills \ {0} : e = OrderMatched(o, f) /\ ContractMatches(o, f)
                \/ e = OrderCancelled(o) /\ ContractCancels(o)
    <3>1. ASSUME NEW f \in Fills, EmitMatched(o, f)
          PROVE  f \in Fills \ {0} /\ OrderMatched(o, f) \in Events
                 /\ pc[OrderMatched(o, f)] = "idle"
      <4>1. f > filled[o] /\ f \in Nat /\ filled[o] \in Nat
        BY <1>0, <3>1, ContractAssumption DEF EmitMatched, ContractMatches, Fills
      <4>2. f \in Fills \ {0} /\ OrderMatched(o, f) \in Events
        BY <4>1, EventsOfOrder
      <4> QED
        BY <1>0, <4>1, <4>2 DEF HasHappened, OrderMatched
    <3>2. ASSUME EmitCreated(o) PROVE pc[OrderCreated(o)] = "idle"
      BY <1>0, <3>2, EventsOfOrder
      DEF EmitCreated, ContractCreates, HasHappened, OrderCreated
    <3>3. ASSUME EmitCancelled(o) PROVE pc[OrderCancelled(o)] = "idle"
      BY <1>0, <3>3, EventsOfOrder
      DEF EmitCancelled, ContractCancels, HasHappened, OrderCancelled
    <3> QED
      BY <3>1, <3>2, <3>3, EventsOfOrder
      DEF EmitCreated, EmitMatched, EmitCancelled, OrderCreated, OrderMatched, OrderCancelled
  <2>2. /\ UNCHANGED orders
        /\ pc'[e] # "done"
        /\ \A x \in Events \ {e} : pc'[x] = pc[x]
        /\ o \in Paced => ~Busy(o)
    BY <1>0, <2>1, EventParts DEF Emit, Goto, Entry, tableVars
  <2>3. ASSUME NEW p \in Paced, p # o PROVE Latest(p)' /\ Healed(p)'
    <3>1. /\ OrderCancelled(p) # e /\ \A f : OrderMatched(p, f) # e
      BY <2>1, <2>3 DEF OrderCancelled, OrderMatched
    <3>2. filled'[p] = filled[p] /\ (p \in cancelled' <=> p \in cancelled)
      BY <1>2, <2>1, <2>3
      DEF ContractCreates, ContractMatches, ContractCancels, LiveInv, TypeOK, ContractTypeOK
    <3>3. ChainRow(p)' = ChainRow(p)
      BY <3>2 DEF ChainRow
    <3>4. Latest(p)'
      BY <1>0, <1>2, <2>2, <2>3, <3>1, <3>2
    <3>5. Cancelled(p)' = Cancelled(p) /\ Matched(p)' = Matched(p)
      BY <1>2, <2>2, <2>3, <3>1, <3>2
    <3> QED
      BY <1>0, <2>2, <2>3, <3>3, <3>4, <3>5
  <2>4. ASSUME o \in Paced PROVE Latest(o)' /\ Healed(o)'
    <3>1. \A f \in Fills \ {0} : pc[OrderMatched(o, f)] \notin Running
      BY <1>2, <2>2, <2>4 DEF Busy, OrderMatched
    <3>2. CASE e = OrderCreated(o) /\ ContractCreates(o)
      <4>1. UNCHANGED <<filled, cancelled>>
        BY <3>2 DEF ContractCreates
      <4>2. OrderCancelled(o) # e /\ \A f : OrderMatched(o, f) # e
        BY <3>2 DEF OrderCreated, OrderCancelled, OrderMatched
      <4>3. Latest(o)'
        BY <1>2, <2>2, <2>4, <3>1, <4>2
      <4>4. Cancelled(o)' = Cancelled(o) /\ Matched(o)' = Matched(o)
        BY <1>2, <2>2, <2>4, <4>1, <4>2
      <4>5. ChainRow(o)' = ChainRow(o)
        BY <4>1, ChainRows
      <4> QED
        BY <1>0, <2>2, <2>4, <4>3, <4>4, <4>5
    <3>3. ASSUME NEW f \in Fills \ {0}, e = OrderMatched(o, f), ContractMatches(o, f)
          PROVE  Latest(o)' /\ Healed(o)'
      <4>1. filled'[o] = f /\ o \notin cancelled' /\ o \notin cancelled
        BY <1>0, <3>3 DEF ContractMatches, LiveInv, TypeOK, ContractTypeOK
      <4>2. Latest(o)'
        <5>1. \A g \in Fills \ {0} : g # f => OrderMatched(o, g) # e
          BY <3>3 DEF OrderMatched
        <5> QED
          BY <1>2, <2>2, <2>4, <3>1, <4>1, <5>1
      <4>3. ~Cancelled(o)'
        <5>1. OrderCancelled(o) # e
          BY <3>3 DEF OrderCancelled, OrderMatched
        <5>2. pc[OrderCancelled(o)] = "idle"
          BY <1>0, <1>2, <2>4, <4>1 DEF HasHappened, OrderCancelled
        <5> QED
          BY <1>2, <2>2, <2>4, <5>1, <5>2
      <4>4. ~Matched(o)'
        BY <2>2, <3>3, <4>1
      <4> QED
        BY <4>2, <4>3, <4>4
    <3>4. CASE e = OrderCancelled(o) /\ ContractCancels(o)
      <4>1. UNCHANGED filled
        BY <3>4 DEF ContractCancels
      <4>2. \A f : OrderMatched(o, f) # e
        BY <3>4 DEF OrderCancelled, OrderMatched
      <4>3. Latest(o)'
        BY <1>2, <2>2, <2>4, <3>1, <4>2
      <4>4. ~Cancelled(o) /\ ~Cancelled(o)' /\ Matched(o)' = Matched(o)
        BY <1>2, <2>1, <2>2, <2>4, <3>4, <4>1, <4>2
      <4>5. ChainRow(o)' = ChainRow(o)
        BY <4>1, ChainRows
      <4> QED
        BY <1>0, <2>2, <2>4, <4>3, <4>4, <4>5
    <3> QED
      BY <2>1, <3>2, <3>3, <3>4
  <2> QED
    BY <1>1, <2>3, <2>4
<1> QED
  BY <1>5, <1>6, <1>7, <1>8, <1>9 DEF Next

-----------------------------------------------------------------------------
(* Events lead to rows                                                     *)

\* No handler has run.
LEMMA NothingListedYet == Init => ListedInv
BY DEF Init, ListedInv, Listed

\* Rows and users stay; a handler that finds the row, or writes it, may end,
\* and one that fails by itself was not the first to register its user.
LEMMA ListedKept ==
    ASSUME LiveInv, ListedInv, [Next]_vars
    PROVE  ListedInv'
<1>0. /\ pc \in [Events -> Running \union Ended \union {"idle"}]
      /\ orders \in [Orders -> Row \union {Absent}]
      /\ faults \in Nat
  BY IndexAssumption DEF LiveInv, TypeOK
<1>1. ASSUME users \subseteq users', faults > 0 => faults' > 0,
             \A p \in Orders : orders[p] # Absent => orders'[p] # Absent,
             NEW e \in Events, \A x \in Events \ {e} : pc'[x] = pc[x],
             pc'[e] = "createUser" => Owner[e.id] \notin RegisteredUsers,
             pc'[e] \in {"done", "skipped", "gaveUp"} => orders'[e.id] # Absent,
             pc'[e] = "failed" =>
                orders'[e.id] # Absent \/ faults' > 0 \/ Owner[e.id] \notin RegisteredUsers
      PROVE  ListedInv'
  <2>1. \A x \in Events : x.id \in Orders
    BY EventParts
  <2>2. RegisteredUsers \subseteq users'
    BY <1>1 DEF ListedInv
  <2>3. \A x \in Events : pc'[x] = "createUser" => Owner[x.id] \notin RegisteredUsers
    BY <1>1 DEF ListedInv
  <2>4. Listed'
    BY <1>1, <2>1 DEF ListedInv, Listed
  <2> QED
    BY <2>2, <2>3, <2>4 DEF ListedInv
<1>2. ASSUME users' = users, faults' = faults, orders' = orders,
             \A x \in Events : pc'[x] = pc[x] \/ pc'[x] = "killed"
      PROVE  ListedInv'
  BY <1>2 DEF ListedInv, Listed
<1>3. ASSUME NEW e \in Events, NEW result, CreateReturns(e, result), orders'[e.id] # Absent
      PROVE  /\ \A x \in Events \ {e} : pc'[x] = pc[x]
             /\ pc'[e] # "createUser"
  BY <1>0, <1>3 DEF CreateReturns, CreateOutcome, NextAttempt, Goto
<1>4. ASSUME NEW e \in Events, HandlerStep(e)
      PROVE  ListedInv'
  <2>0. e.id \in Orders
    BY EventParts
  <2> USE <1>0, <2>0 DEF Goto
  <2>1. CASE GetOrderInfo(e) \/ GetTokenDecimals(e) \/ CancelOrder(e)
    BY <1>1, <2>1 DEF GetOrderInfo, GetTokenDecimals, CancelOrder, tableVars
  <2>2. CASE GetUser(e)
    BY <1>1, <2>2 DEF GetUser, tableVars, ListedInv
  <2>3. CASE CreateUser(e)
    BY <1>1, <2>3 DEF CreateUser, ListedInv
  <2>4. CASE GetOrder(e)
    <3>1. CASE orders[e.id] = Absent
      BY <1>1, <2>4, <3>1 DEF GetOrder, tableVars
    <3>2. CASE orders[e.id] # Absent
      <4>1. CreateReturns(e, "Order already exists") /\ UNCHANGED <<tableVars, faults>>
        BY <2>4, <3>2 DEF GetOrder
      <4>2. users' = users /\ orders' = orders /\ faults' = faults
        BY <4>1 DEF tableVars
      <4>3. /\ \A x \in Events \ {e} : pc'[x] = pc[x]
            /\ pc'[e] # "createUser" /\ orders'[e.id] # Absent
        BY <1>3, <3>2, <4>1, <4>2
      <4> QED
        BY <1>1, <4>2, <4>3
    <3> QED
      BY <3>1, <3>2
  <2>5. CASE CreateOrder(e)
    <3>1. /\ \E result : CreateReturns(e, result)
          /\ orders'[e.id] # Absent
          /\ \A p \in Orders : orders[p] # Absent => orders'[p] # Absent
          /\ UNCHANGED <<users, faults>>
      BY <2>5, RowsAreRows DEF CreateOrder
    <3> QED
      BY <1>1, <1>3, <3>1
  <2>6. CASE UpdateOrder(e)
    <3>1. CASE orders[e.id] # Absent
      BY <1>1, <2>6, <3>1 DEF UpdateOrder, tableVars
    <3>2. CASE orders[e.id] = Absent
      <4>1. attempt[e] \in Nat /\ ~(attempt[e] > 0)
        BY <3>2, IndexAssumption DEF LiveInv, TypeOK, NeverGivesUp
      <4>2. attempt[e] = 0
        BY <4>1
      <4> QED
        BY <1>1, <2>6, <3>2, <4>2 DEF UpdateOrder, tableVars
    <3> QED
      BY <3>1, <3>2
  <2>7. CASE WriteUpdate(e) \/ WriteCancel(e)
    <3>1. /\ pc'[e] = "done"
          /\ \A x \in Events \ {e} : pc'[x] = pc[x]
          /\ UNCHANGED <<users, faults>>
      BY <2>7 DEF WriteUpdate, WriteCancel
    <3>2. /\ orders[e.id] \in Row
          /\ \A p \in Orders \ {e.id} : orders'[p] = orders[p]
      BY <2>7 DEF WriteUpdate, WriteCancel
    <3>3. /\ MatchedRow(e) \in Row
          /\ [orders[e.id] EXCEPT !.status = "CANCELLED"] \in Row
      BY <3>2, RowsAreRows DEF Row, Status
    <3>4. orders'[e.id] \in {MatchedRow(e), [orders[e.id] EXCEPT !.status = "CANCELLED"]}
      BY <2>7 DEF WriteUpdate, WriteCancel
    <3> QED
      BY <1>1, <3>1, <3>2, <3>3, <3>4, RowsAreRows
  <2> QED
    BY <1>4, <2>1, <2>2, <2>3, <2>4, <2>5, <2>6, <2>7 DEF HandlerStep
<1>5. ASSUME NEW e \in Events, CallRejects(e)
      PROVE  ListedInv'
  BY <1>0, <1>1, <1>5 DEF CallRejects, Goto, tableVars
<1>6. CASE ContractStep
  <2>1. PICK e \in Events : Emit(e) /\ pc[e] = "idle"
    BY <1>6, ContractEmits
  <2>2. /\ pc'[e] \notin {"createUser", "done", "skipped", "gaveUp", "failed"}
        /\ \A x \in Events \ {e} : pc'[x] = pc[x]
    BY <1>0, <2>1, EventParts DEF Emit, Goto, Entry
  <2> QED
    BY <1>0, <1>1, <2>1, <2>2 DEF Emit, tableVars
<1>7. CASE Crash \/ Listen \/ UNCHANGED vars
  BY <1>2, <1>7 DEF Crash, ProcessDies, Listen, vars, indexVars, tableVars
<1> QED
  BY <1>4, <1>5, <1>6, <1>7 DEF Next

-----------------------------------------------------------------------------
(* Theorems                                                                *)

\* IInv holds in every reachable state.
THEOREM Invariance == Spec => []IInv
<1>1. Init => IInv
  BY InitEstablishes, NoWritersYet, NothingPacedYet, NothingListedYet DEF IInv
<1>2. IInv /\ [Next]_vars => IInv'
  BY StepKeeps, WritersKept, PacedKept, ListedKept DEF IInv
<1> QED
  BY <1>1, <1>2, PTL DEF Spec

\* The tables, the handlers and the counters keep their types.
THEOREM TypesHold == Spec => []TypeOK
<1>1. IInv => TypeOK
  BY DEF IInv, LiveInv
<1> QED
  BY <1>1, Invariance, PTL

\* No row ever shows a match or a cancellation that is not on the chain.
THEOREM NoPhantoms == Spec => []RowsBacked
<1>1. IInv => RowsBacked
  BY DEF IInv, LiveInv
<1> QED
  BY <1>1, Invariance, PTL

\* A match handler that ended well is visible in the table from then on.
THEOREM MatchesRecorded == Spec => []MatchRecorded
<1>1. IInv => MatchRecorded
  BY DEF IInv, LiveInv
<1> QED
  BY <1>1, Invariance, PTL

\* Only a match handler can undo a cancellation that was written.
THEOREM CancelsKept == Spec => []CancelKept
<1>1. IInv => CancelKept
  BY DEF IInv, LiveInv
<1> QED
  BY <1>1, Invariance, PTL

\* Every fill shown was written by a match handler that ended well.
THEOREM FillsHaveWriters == Spec => []FillHasWriter
<1>1. IInv => FillHasWriter
  BY DEF IInv
<1> QED
  BY <1>1, Invariance, PTL

\* If the chain waits for its handlers, an order's row is exact once its latest
\* event is handled, whatever became of the earlier ones.
THEOREM PacedOrdersHeal == Spec => []SelfHealing
<1>1. IInv => SelfHealing
  <2>1. IInv => Paced \subseteq Orders
    BY IndexAssumption
  <2> QED
    BY <2>1 DEF IInv, PacedInv, SelfHealing
<1> QED
  BY <1>1, Invariance, PTL

\* The retry loop never runs out of attempts.
THEOREM RetriesSuffice == Spec => []NeverGivesUp
<1>1. IInv => NeverGivesUp
  BY DEF IInv, LiveInv
<1> QED
  BY <1>1, Invariance, PTL

-----------------------------------------------------------------------------
(* The live indexer implements OrderView                                   *)

\* Each step of the contract is one of the view's, each write of a handler
\* shows an order, and everything else is invisible.
LEMMA StepRefines ==
    ASSUME LiveInv, [Next]_vars
    PROVE  [View!Next]_<<chainVars, orders>>
<1> USE DEF View!Next, View!Show, View!Untouched
<1>0. /\ orders \in [Orders -> Row \union {Absent}]
      /\ RowsBacked /\ HasHappened
  BY DEF LiveInv, TypeOK
<1>1. ASSUME NEW e \in Events, HandlerStep(e)
      PROVE  [View!Next]_<<chainVars, orders>>
  <2>0. e.id \in Orders
    BY EventParts
  <2>1. ASSUME pc[e] # "idle", UNCHANGED chainVars,
               NEW row \in View!Backed(e.id),
               orders' = [orders EXCEPT ![e.id] = row],
               orders[e.id] = Absent \/ row.status \notin View!Untouched
        PROVE  View!Next
    <3>1. e.id \in made
      BY <1>0, <2>1 DEF HasHappened
    <3> QED
      BY <2>0, <2>1, <3>1 DEF Absent, View!chainVars, chainVars
  <2>2. CASE CreateOrder(e)
    <3>1. CASE orders[e.id] = Absent
      <4>1. LiveInv'
        BY StepKeeps
      <4>2. /\ orders' = [orders EXCEPT ![e.id] = NewRow(e)]
            /\ UNCHANGED chainVars
            /\ pc[e] # "idle"
        BY <2>2, <3>1 DEF CreateOrder
      <4>3. NewRow(e) \in View!Backed(e.id)
        <5>1. orders'[e.id] = NewRow(e) /\ NewRow(e) # Absent
          BY <1>0, <2>0, <4>2, RowsAreRows
        <5>2. View!Backed(e.id)' = View!Backed(e.id)
          BY <4>2 DEF View!Backed, chainVars
        <5> QED
          BY <2>0, <4>1, <5>1, <5>2 DEF LiveInv, RowsBacked
      <4> QED
        BY <2>1, <3>1, <4>2, <4>3
    <3>2. CASE orders[e.id] # Absent
      BY <2>2, <3>2 DEF CreateOrder, chainVars
    <3> QED
      BY <3>1, <3>2
  <2>3. CASE WriteUpdate(e)
    <3>1. /\ MatchedRow(e) \in View!Backed(e.id)
          /\ MatchedRow(e).status \notin View!Untouched
      BY <2>3, MatchedRowBacked DEF WriteUpdate
    <3> QED
      BY <2>1, <2>3, <3>1 DEF WriteUpdate
  <2>4. CASE WriteCancel(e)
    <3> DEFINE row == [orders[e.id] EXCEPT !.status = "CANCELLED"]
    <3>1. /\ orders' = [orders EXCEPT ![e.id] = row]
          /\ UNCHANGED chainVars
          /\ pc[e] # "idle"
      BY <2>4 DEF WriteCancel
    <3>2. orders[e.id] \in Row
      BY <1>0, <2>0, <2>4 DEF WriteCancel
    <3>3. row.status = "CANCELLED"
      BY <3>2 DEF Row
    <3>4. row \in View!Backed(e.id)
      <4>1. LiveInv'
        BY StepKeeps
      <4>2. orders'[e.id] = row /\ row # Absent
        BY <1>0, <2>0, <3>1, <3>3, RowsAreRows DEF Absent, View!Absent
      <4>3. View!Backed(e.id)' = View!Backed(e.id)
        BY <3>1 DEF View!Backed, chainVars
      <4> QED
        BY <2>0, <4>1, <4>2, <4>3 DEF LiveInv, RowsBacked
    <3> QED
      BY <2>1, <3>1, <3>3, <3>4
  <2>5. CASE UNCHANGED <<chainVars, orders>>
    BY <2>5
  <2> QED
    BY <1>1, <2>2, <2>3, <2>4, <2>5
    DEF HandlerStep, GetOrderInfo, GetTokenDecimals, GetUser, CreateUser, GetOrder,
        UpdateOrder, CancelOrder, tableVars
<1>2. CASE ContractStep
  BY <1>2 DEF ContractStep, EmitCreated, EmitMatched, EmitCancelled, Emit, tableVars,
              View!ChainStep, View!Fills, Fills,
              View!ContractCreates, ContractCreates, View!ContractMatches, ContractMatches,
              View!ContractCancels, ContractCancels
<1>3. CASE UNCHANGED <<chainVars, orders>>
  BY <1>3
<1> QED
  BY <1>1, <1>2, <1>3
  DEF Next, CallRejects, Crash, ProcessDies, Listen, vars, indexVars, tableVars

\* Whatever the interleaving, the faults and the deaths, the "orders" table is
\* one that OrderView allows.
THEOREM Refinement == Spec => ViewSpec
<1>1. Init => View!Init
  BY DEF Init, View!Init, View!ContractInit, ContractInit, Absent
<1>2. IInv /\ [Next]_vars => [View!Next]_<<chainVars, orders>>
  BY StepRefines DEF IInv
<1>3. <<View!chainVars, orders>> = <<chainVars, orders>>
  BY DEF View!chainVars, chainVars
<1> QED
  BY <1>1, <1>2, Invariance, PTL DEF Spec, ViewSpec, View!Spec, View!chainVars, chainVars

-----------------------------------------------------------------------------
(* Every handler runs out of calls                                         *)

\* How far a handler is from the end of its attempt.
Place(label) ==
    CASE label = "cancelOrder"      -> 10
      [] label = "getOrderInfo"     -> 9
      [] label = "getTokenDecimals" -> 8
      [] label = "updateOrder"      -> 7
      [] label = "getUser"          -> 6
      [] label = "createUser"       -> 5
      [] label = "getOrder"         -> 4
      [] label = "createOrder"      -> 3
      [] OTHER                      -> 1

\* A bound on the calls a running handler still makes, the one it awaits
\* included.  An attempt after the first has fewer than eight.
CallsLeft(e) == 8 * (RetryLimit - attempt[e]) + Place(pc[e])

MovesOn(e) ==
    pc[e] \in Running =>
        /\ CallsLeft(e) \in Nat \ {0}
        /\ \/ pc'[e] \notin Running
           \/ CallsLeft(e)' < CallsLeft(e)
           \/ ~HandlerStep(e) /\ UNCHANGED <<pc[e], attempt[e]>>

\* A handler that runs has calls left.
LEMMA CallsAreLeft ==
    ASSUME LiveInv, NEW e \in Events, pc[e] \in Running
    PROVE  CallsLeft(e) \in Nat \ {0}
<1>1. /\ RetryLimit \in Nat
      /\ attempt[e] \in Nat /\ attempt[e] <= RetryLimit
  BY IndexAssumption DEF LiveInv, TypeOK
<1>2. Place(pc[e]) \in 1..10
  BY DEF Place, Running
<1> QED
  BY <1>1, <1>2 DEF CallsLeft

\* A handler's step moves it on, and no step takes back what another has done.
LEMMA StepMovesOn ==
    ASSUME LiveInv, [Next]_vars, NEW e \in Events
    PROVE  MovesOn(e)
<1> SUFFICES ASSUME pc[e] \in Running
             PROVE  /\ CallsLeft(e) \in Nat \ {0}
                    /\ \/ pc'[e] \notin Running
                       \/ CallsLeft(e)' < CallsLeft(e)
                       \/ ~HandlerStep(e) /\ UNCHANGED <<pc[e], attempt[e]>>
  BY DEF MovesOn
<1>0. /\ pc \in [Events -> Running \union Ended \union {"idle"}]
      /\ attempt \in [Events -> 0..RetryLimit]
      /\ RetryLimit \in Nat
      /\ attempt[e] \in Nat /\ attempt[e] <= RetryLimit
  BY IndexAssumption DEF LiveInv, TypeOK
<1> DEFINE Places ==
      /\ Place("cancelOrder") = 10 /\ Place("getOrderInfo") = 9
      /\ Place("getTokenDecimals") = 8 /\ Place("updateOrder") = 7
      /\ Place("getUser") = 6 /\ Place("createUser") = 5
      /\ Place("getOrder") = 4 /\ Place("createOrder") = 3
      /\ Place("writeUpdate") = 1 /\ Place("writeCancel") = 1
<1>p. Places
  BY DEF Place
<1>1. CallsLeft(e) \in Nat \ {0}
  BY CallsAreLeft
<1>2. ASSUME HandlerStep(e)
      PROVE  pc'[e] \notin Running \/ CallsLeft(e)' < CallsLeft(e)
  <2>1. ASSUME NEW label \in Running, Goto(e, label), UNCHANGED attempt,
               Place(label) < Place(pc[e])
        PROVE  CallsLeft(e)' < CallsLeft(e)
    <3>1. Place(pc[e]) \in Nat /\ Place(label) \in Nat
      BY DEF Place
    <3>2. pc'[e] = label /\ attempt'[e] = attempt[e]
      BY <1>0, <2>1 DEF Goto
    <3> QED
      BY <1>0, <2>1, <3>1, <3>2 DEF CallsLeft
  <2>2. ASSUME NextAttempt(e), pc[e] \in {"getOrder", "createOrder", "updateOrder"}
        PROVE  pc'[e] \notin Running \/ CallsLeft(e)' < CallsLeft(e)
    <3>1. Place(pc[e]) \in Nat /\ Place(pc[e]) > 0 /\ Place("updateOrder") = 7
      BY <2>2 DEF Place
    <3>2. attempt'[e] = attempt[e] + 1 /\ pc'[e] \in {"updateOrder", "gaveUp"}
      BY <1>0, <2>2 DEF NextAttempt, Goto
    <3>3. pc'[e] = "gaveUp" => pc'[e] \notin Running
      BY DEF Running
    <3> QED
      BY <1>0, <3>1, <3>2, <3>3 DEF CallsLeft
  <2>3. CASE GetOrderInfo(e) \/ GetTokenDecimals(e) \/ GetUser(e) \/ CancelOrder(e)
    BY <1>p, <2>1, <2>3
    DEF GetOrderInfo, GetTokenDecimals, GetUser, CancelOrder, Running
  <2>4. CASE CreateUser(e)
    BY <1>p, <1>0, <2>1, <2>4 DEF CreateUser, Goto, Running
  <2>5. CASE GetOrder(e)
    BY <1>p, <1>0, <2>1, <2>2, <2>5
    DEF GetOrder, CreateReturns, CreateOutcome, Goto, Running
  <2>6. CASE CreateOrder(e)
    BY <1>0, <2>2, <2>6 DEF CreateOrder, CreateReturns, CreateOutcome, Goto, Running
  <2>7. CASE UpdateOrder(e)
    BY <1>p, <2>1, <2>2, <2>7 DEF UpdateOrder, Running
  <2>8. CASE WriteUpdate(e) \/ WriteCancel(e)
    BY <1>0, <2>8 DEF WriteUpdate, WriteCancel, Goto, Running
  <2> QED
    BY <1>1, <1>2, <2>3, <2>4, <2>5, <2>6, <2>7, <2>8 DEF HandlerStep
<1>3. ASSUME NEW x \in Events \ {e}, HandlerStep(x)
      PROVE  UNCHANGED <<pc[e], attempt[e]>>
  <2> USE <1>0, <1>3 DEF Goto, NextAttempt
  <2>1. CASE GetOrderInfo(x) \/ GetTokenDecimals(x) \/ GetUser(x) \/ CreateUser(x) \/ CancelOrder(x)
    BY <2>1 DEF GetOrderInfo, GetTokenDecimals, GetUser, CreateUser, CancelOrder
  <2>2. CASE GetOrder(x) \/ CreateOrder(x) \/ UpdateOrder(x)
    BY <2>2 DEF GetOrder, CreateOrder, UpdateOrder, CreateReturns
  <2>3. CASE WriteUpdate(x) \/ WriteCancel(x)
    BY <2>3 DEF WriteUpdate, WriteCancel
  <2> QED
    BY <2>1, <2>2, <2>3 DEF HandlerStep
<1>4. ASSUME ~HandlerStep(e)
      PROVE  pc'[e] \notin Running \/ UNCHANGED <<pc[e], attempt[e]>>
  <2>1. CASE \E x \in Events : HandlerStep(x)
    BY <1>3, <1>4, <2>1
  <2>2. CASE \E x \in Events : CallRejects(x)
    BY <1>0, <2>2 DEF CallRejects, Goto, Running
  <2>3. CASE ContractStep
    <3>1. PICK x \in Events : Emit(x) /\ pc[x] = "idle"
      BY <2>3, ContractEmits
    <3>2. x # e
      BY <3>1 DEF Running
    <3> QED
      BY <1>0, <3>1, <3>2 DEF Emit, Goto
  <2>4. CASE Crash
    BY <1>0, <2>4 DEF Crash, ProcessDies, Running
  <2>5. CASE Listen \/ UNCHANGED vars
    BY <2>5 DEF Listen, vars, indexVars
  <2> QED
    BY <2>1, <2>2, <2>3, <2>4, <2>5 DEF Next
<1> QED
  BY <1>1, <1>2, <1>4

\* No handler goes round for ever, whatever the others do to the tables: each
\* call it is answered leaves it fewer to make, and nothing but its own calls
\* and a death changes where it stands.  This is what HandlersEnd needs besides
\* the fairness of the event loop.
THEOREM HandlersMoveOn == Spec => [][\A e \in Events : MovesOn(e)]_vars
<1>1. IInv /\ [Next]_vars => [\A e \in Events : MovesOn(e)]_vars
  BY StepMovesOn DEF IInv
<1> QED
  BY <1>1, Invariance, PTL DEF Spec

\* Once the handler of an event has ended by itself, its order has a row, unless
\* a call rejected or somebody else registered the owner meanwhile.  Together
\* with HandlersMoveOn this is what OrderListed needs besides fairness.
THEOREM EventsAreListed == Spec => []Listed
<1>1. IInv => Listed
  BY DEF IInv, ListedInv
<1> QED
  BY <1>1, Invariance, PTL

=============================================================================
