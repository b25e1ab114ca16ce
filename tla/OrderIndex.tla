----------------------------- MODULE OrderIndex -----------------------------
(***************************************************************************)
(* The live half of the order indexer: the three contract listeners of     *)
(* BlockchainService and the handlers, use case and services they call.    *)
(*                                                                         *)
(* ethers starts one handler per event and awaits none of them, so the     *)
(* handlers of different events interleave at every await.  Each handler   *)
(* is identified with its event; pc names the call it awaits, and the      *)
(* action of that call runs the handler up to its next await.              *)
(***************************************************************************)
EXTENDS OrderContract

CONSTANTS
    Users,              \* lower-cased addresses
    Owner,              \* the user who placed each order
    RegisteredUsers,    \* users already in the table (they logged in before)
    RetryLimit,         \* retryLimit of handleOrderMatchedEvent
    MaxFaults,          \* bound: RPC or database calls that reject
    MaxCrashes,         \* bound: process deaths
    Paced               \* orders the contract leaves alone while one of their
                        \* handlers runs (an assumption on the environment)

ASSUME IndexAssumption ==
    /\ Owner \in [Orders -> Users]
    /\ RegisteredUsers \subseteq Users
    /\ RetryLimit \in Nat \ {0}
    /\ MaxFaults \in Nat
    /\ MaxCrashes \in Nat
    /\ Paced \subseteq Orders

VARIABLES
    users,      \* the "users" table: addresses with a row
    orders,     \* the "orders" table, Absent where there is no row
    listening,  \* the contract.on subscriptions are in place
    pc,         \* where each event's handler stands
    attempt,    \* the attempt counter of tryUpdateWithRetry
    faults,     \* rejected calls so far
    crashes     \* process deaths so far

tableVars == <<users, orders>>
indexVars == <<tableVars, listening, pc, attempt, faults, crashes>>
vars == <<chainVars, indexVars>>

View == INSTANCE OrderView WITH orders <- orders

Absent == View!Absent

Status == {"ACTIVE", "PARTIALLY_FILLED", "FILLED", "CANCELLED"}

Row == [status : Status, fill : Fills]

-----------------------------------------------------------------------------
(* Events and their handlers                                               *)

Event == [kind : {"OrderCreated", "OrderMatched", "OrderCancelled"},
          id : Orders, fill : Fills]

\* A match is told apart by the filled amount it reached, which is positive.
Events == {e \in Event : e.kind = "OrderMatched" <=> e.fill > 0}

OrderCreated(o) == [kind |-> "OrderCreated", id |-> o, fill |-> 0]
OrderMatched(o, f) == [kind |-> "OrderMatched", id |-> o, fill |-> f]
OrderCancelled(o) == [kind |-> "OrderCancelled", id |-> o, fill |-> 0]

Running == {"getOrderInfo", "getTokenDecimals",
            "getUser", "createUser", "getOrder", "createOrder",
            "updateOrder", "writeUpdate", "cancelOrder", "writeCancel"}

\* "skipped": ended knowing that the order exists; "failed": ended by logging
\* an error; "gaveUp": out of attempts; "killed": the process died;
\* "missed": the event found no listener.
Ended == {"done", "skipped", "failed", "gaveUp", "killed", "missed"}

\* The first call of each handler.
Entry(e) ==
    CASE e.kind = "OrderCreated"   -> "getTokenDecimals"
      [] e.kind = "OrderMatched"   -> "getOrderInfo"
      [] e.kind = "OrderCancelled" -> "cancelOrder"

Goto(e, label) == pc' = [pc EXCEPT ![e] = label]

Busy(o) == \E e \in Events : e.id = o /\ pc[e] \in Running

TypeOK ==
    /\ ContractTypeOK
    /\ users \subseteq Users
    /\ orders \in [Orders -> Row \union {Absent}]
    /\ listening \in BOOLEAN
    /\ pc \in [Events -> Running \union Ended \union {"idle"}]
    /\ attempt \in [Events -> 0..RetryLimit]
    /\ faults \in 0..MaxFaults
    /\ crashes \in 0..MaxCrashes

Init ==
    /\ ContractInit
    /\ users = RegisteredUsers
    /\ orders = [o \in Orders |-> Absent]
    /\ listening = FALSE
    /\ pc = [e \in Events |-> "idle"]
    /\ attempt = [e \in Events |-> 0]
    /\ faults = 0
    /\ crashes = 0

-----------------------------------------------------------------------------
(* The contract emits; an event with no listener is missed for good        *)

Emit(e) ==
    /\ e.id \in Paced => ~Busy(e.id)
    /\ Goto(e, IF listening THEN Entry(e) ELSE "missed")
    /\ UNCHANGED <<tableVars, listening, attempt, faults, crashes>>

EmitCreated(o) == ContractCreates(o) /\ Emit(OrderCreated(o))

EmitMatched(o, f) == ContractMatches(o, f) /\ Emit(OrderMatched(o, f))

EmitCancelled(o) == ContractCancels(o) /\ Emit(OrderCancelled(o))

-----------------------------------------------------------------------------
(* Calls the three handlers share                                          *)

\* getOrderInfoFromBlockchain.  The handlers use only the immutable part of
\* the answer: the owner, the tokens and the amounts.
GetOrderInfo(e) ==
    /\ pc[e] = "getOrderInfo"
    /\ Goto(e, "getTokenDecimals")
    /\ UNCHANGED <<chainVars, tableVars, listening, attempt, faults, crashes>>

\* Both tokens' decimals; a match then updates, the others create.
GetTokenDecimals(e) ==
    /\ pc[e] = "getTokenDecimals"
    /\ Goto(e, IF e.kind = "OrderMatched" THEN "updateOrder" ELSE "getUser")
    /\ UNCHANGED <<chainVars, tableVars, listening, attempt, faults, crashes>>

\* UsersService.getOrCreate, first half.
GetUser(e) ==
    /\ pc[e] = "getUser"
    /\ Goto(e, IF Owner[e.id] \in users THEN "getOrder" ELSE "createUser")
    /\ UNCHANGED <<chainVars, tableVars, listening, attempt, faults, crashes>>

\* UsersService.getOrCreate, second half: the insert hits the primary key
\* when another handler registered the same user in between, and no caller
\* takes a P2002 on the address for anything but an error.
CreateUser(e) ==
    /\ pc[e] = "createUser"
    /\ \/ /\ Owner[e.id] \notin users
          /\ users' = users \union {Owner[e.id]}
          /\ Goto(e, "getOrder")
       \/ /\ Owner[e.id] \in users
          /\ UNCHANGED users
          /\ Goto(e, "failed")
    /\ UNCHANGED <<chainVars, orders, listening, attempt, faults, crashes>>

\* tryUpdateWithRetry goes around, after a pause, while attempts are left.
NextAttempt(e) ==
    /\ attempt' = [attempt EXCEPT ![e] = @ + 1]
    /\ Goto(e, IF attempt[e] + 1 < RetryLimit THEN "updateOrder" ELSE "gaveUp")

\* How the created and the cancelled handler end.  Only the created one tells
\* a duplicate key from other errors, and it does not know the use case's own
\* 'Order already exists'.
CreateOutcome(e, result) ==
    IF result = "created" THEN "done"
    ELSE IF result = "P2002" /\ e.kind = "OrderCreated" THEN "skipped"
    ELSE "failed"

\* How a handler goes on once OrdersUseCase.createOrder returned or threw: a
\* match updates again whether it created the order or found it there.
CreateReturns(e, result) ==
    \/ /\ e.kind = "OrderMatched"
       /\ NextAttempt(e)
    \/ /\ e.kind # "OrderMatched"
       /\ Goto(e, CreateOutcome(e, result))
       /\ UNCHANGED attempt

\* Slip: the check for an existing order is the wrong way round.
GetOrderInverted(e) ==
    /\ pc[e] = "getOrder"
    /\ \/ /\ orders[e.id] # Absent
          /\ Goto(e, "createOrder")
          /\ UNCHANGED attempt
       \/ /\ orders[e.id] = Absent
          /\ CreateReturns(e, "Order already exists")
    /\ UNCHANGED <<chainVars, tableVars, listening, faults, crashes>>

\* OrdersUseCase.createOrder looks the order up before it inserts it.
GetOrder(e) ==
    /\ pc[e] = "getOrder"
    /\ \/ /\ orders[e.id] = Absent
          /\ Goto(e, "createOrder")
          /\ UNCHANGED attempt
       \/ /\ orders[e.id] # Absent
          /\ CreateReturns(e, "Order already exists")
    /\ UNCHANGED <<chainVars, tableVars, listening, faults, crashes>>

\* The row a handler inserts: only the cancel handler sets a status.
NewRow(e) ==
    [status |-> IF e.kind = "OrderCancelled" THEN "CANCELLED" ELSE "ACTIVE",
     fill |-> 0]

\* Slip: an upsert instead of an insert.
CreateOrderUpserts(e) ==
    /\ pc[e] = "createOrder"
    /\ orders' = [orders EXCEPT ![e.id] = NewRow(e)]
    /\ CreateReturns(e, "created")
    /\ UNCHANGED <<chainVars, users, listening, faults, crashes>>

\* The insert itself; orderId is unique.
CreateOrder(e) ==
    /\ pc[e] = "createOrder"
    /\ \/ /\ orders[e.id] = Absent
          /\ orders' = [orders EXCEPT ![e.id] = NewRow(e)]
          /\ CreateReturns(e, "created")
       \/ /\ orders[e.id] # Absent
          /\ CreateReturns(e, "P2002")
          /\ UNCHANGED orders
    /\ UNCHANGED <<chainVars, users, listening, faults, crashes>>

-----------------------------------------------------------------------------
(* OrderMatched: update, or create and update again                        *)

\* Slip: a missing order is only waited for, never created ...
UpdateOrderWaits(e) ==
    /\ pc[e] = "updateOrder"
    /\ \/ /\ orders[e.id] # Absent
          /\ Goto(e, "writeUpdate")
          /\ UNCHANGED attempt
       \/ /\ orders[e.id] = Absent
          /\ NextAttempt(e)
    /\ UNCHANGED <<chainVars, tableVars, listening, faults, crashes>>

\* ... or waited for with no limit.
UpdateOrderWaitsForever(e) ==
    /\ pc[e] = "updateOrder"
    /\ Goto(e, IF orders[e.id] # Absent THEN "writeUpdate" ELSE "updateOrder")
    /\ UNCHANGED <<chainVars, tableVars, listening, attempt, faults, crashes>>

\* OrdersUseCase.updateOrder's lookup; 'Order not found' is what the retry
\* loop reacts to, and only the first time by creating the order.
UpdateOrder(e) ==
    /\ pc[e] = "updateOrder"
    /\ \/ /\ orders[e.id] # Absent
          /\ Goto(e, "writeUpdate")
          /\ UNCHANGED attempt
       \/ /\ orders[e.id] = Absent
          /\ IF attempt[e] = 0
             THEN Goto(e, "getUser") /\ UNCHANGED attempt
             ELSE NextAttempt(e)
    /\ UNCHANGED <<chainVars, tableVars, listening, faults, crashes>>

\* Slip: the event's amounts are added to the row's.
MatchedRowAdds(e) ==
    [status |-> IF Amount - e.fill = 0 THEN "FILLED" ELSE "PARTIALLY_FILLED",
     fill |-> orders[e.id].fill + e.fill]

\* Slip: an order with one unit left counts as filled.
MatchedRowOneLeft(e) ==
    [status |-> IF Amount - e.fill <= 1 THEN "FILLED" ELSE "PARTIALLY_FILLED",
     fill |-> e.fill]

\* amountLeftToFill is what the match left of the order.
MatchedRow(e) ==
    [status |-> IF Amount - e.fill = 0 THEN "FILLED" ELSE "PARTIALLY_FILLED",
     fill |-> e.fill]

\* The write sets both columns, whatever the row says by now.
WriteUpdate(e) ==
    /\ pc[e] = "writeUpdate"
    /\ orders[e.id] # Absent
    /\ orders' = [orders EXCEPT ![e.id] = MatchedRow(e)]
    /\ Goto(e, "done")
    /\ UNCHANGED <<chainVars, users, listening, attempt, faults, crashes>>

-----------------------------------------------------------------------------
(* OrderCancelled: cancel, or create as cancelled                          *)

CancelOrder(e) ==
    /\ pc[e] = "cancelOrder"
    /\ Goto(e, IF orders[e.id] # Absent THEN "writeCancel" ELSE "getOrderInfo")
    /\ UNCHANGED <<chainVars, tableVars, listening, attempt, faults, crashes>>

\* Slip: the whole row is replaced, the filled amounts with it.
WriteCancelResets(e) ==
    /\ pc[e] = "writeCancel"
    /\ orders[e.id] # Absent
    /\ orders' = [orders EXCEPT ![e.id] = [status |-> "CANCELLED", fill |-> 0]]
    /\ Goto(e, "done")
    /\ UNCHANGED <<chainVars, users, listening, attempt, faults, crashes>>

WriteCancel(e) ==
    /\ pc[e] = "writeCancel"
    /\ orders[e.id] # Absent
    /\ orders' = [orders EXCEPT ![e.id].status = "CANCELLED"]
    /\ Goto(e, "done")
    /\ UNCHANGED <<chainVars, users, listening, attempt, faults, crashes>>

-----------------------------------------------------------------------------
(* Failures and restarts                                                   *)

\* Any awaited call may reject.  Every handler catches the error in its
\* outermost try, logs it and ends: nothing is retried or undone.
CallRejects(e) ==
    /\ pc[e] \in Running
    /\ faults < MaxFaults
    /\ faults' = faults + 1
    /\ Goto(e, "failed")
    /\ UNCHANGED <<chainVars, tableVars, listening, attempt, crashes>>

\* The process dies: the handlers in flight are gone, the tables stay.
ProcessDies ==
    /\ listening' = FALSE
    /\ pc' = [e \in Events |-> IF pc[e] \in Running THEN "killed" ELSE pc[e]]
    /\ UNCHANGED <<chainVars, tableVars, attempt>>

Crash ==
    /\ crashes < MaxCrashes
    /\ crashes' = crashes + 1
    /\ ProcessDies
    /\ UNCHANGED faults

\* onModuleInit reaches listenToEvents.
Listen ==
    /\ ~listening
    /\ listening' = TRUE
    /\ UNCHANGED <<chainVars, tableVars, pc, attempt, faults, crashes>>

-----------------------------------------------------------------------------

ContractStep ==
    \E o \in Orders :
        \/ EmitCreated(o)
        \/ \E f \in Fills : EmitMatched(o, f)
        \/ EmitCancelled(o)

HandlerStep(e) ==
    \/ GetOrderInfo(e)
    \/ GetTokenDecimals(e)
    \/ GetUser(e)
    \/ CreateUser(e)
    \/ GetOrder(e)
    \/ CreateOrder(e)
    \/ UpdateOrder(e)
    \/ WriteUpdate(e)
    \/ CancelOrder(e)
    \/ WriteCancel(e)

Next ==
    \/ ContractStep
    \/ \E e \in Events : HandlerStep(e) \/ CallRejects(e)
    \/ Crash
    \/ Listen

Spec == Init /\ [][Next]_vars

\* Node's event loop keeps running the handlers: every awaited call is
\* answered or rejected.  Nothing makes the contract, the faults or the
\* crashes happen.
FairSpec == Spec /\ \A e \in Events : WF_vars(HandlerStep(e))

-----------------------------------------------------------------------------
(* Properties                                                              *)

\* The table keeps the promises of OrderView under every interleaving of the
\* handlers, with calls that reject and processes that die in between: no row
\* is ahead of the contract or reports a match or a cancellation that never
\* happened, and no late insert reopens an order.  This is what the order
\* book endpoints rely on.
ViewSpec == View!Spec

\* The state half of ViewSpec: each row is one the order's history supports.
RowsBacked == \A o \in Orders : orders[o] \in View!Backed(o) \union {Absent}

\* A match handler that reports success has left a mark that lasts: the row
\* is there and no longer ACTIVE with nothing filled, although the created
\* and the cancelled handler of the same order may insert it afterwards.
MatchRecorded ==
    \A e \in Events : e.kind = "OrderMatched" /\ pc[e] = "done" =>
        orders[e.id].status \notin View!Untouched

\* A cancellation that was logged as successful is only ever undone by a
\* match handler, which writes its status without reading the row's.
CancelKept ==
    \A o \in Orders : pc[OrderCancelled(o)] = "done" =>
        \/ orders[o].status = "CANCELLED"
        \/ \E f \in Fills \ {0} : pc[OrderMatched(o, f)] = "done"

\* The fill a row shows is the one some finished match handler wrote; a row
\* without a fill means that no match handler has finished.
FillHasWriter ==
    \A o \in Orders :
        LET written == {f \in Fills \ {0} : pc[OrderMatched(o, f)] = "done"}
        IN  IF orders[o].fill = 0 THEN written = {} ELSE orders[o].fill \in written

\* Once the match handler went through createOrder, its next update finds a
\* row: with two attempts or more the warning "Failed to update order" after
\* the last attempt is never reached.
NeverGivesUp ==
    \A e \in Events :
        /\ attempt[e] > 0 => orders[e.id] # Absent
        /\ RetryLimit > 1 => pc[e] # "gaveUp"

\* What an order looks like on the chain, for a status that was not cancelled.
ChainRow(o) ==
    [status |-> IF filled[o] = 0 THEN "ACTIVE"
                ELSE IF filled[o] = Amount THEN "FILLED" ELSE "PARTIALLY_FILLED",
     fill |-> filled[o]]

\* If the chain leaves an order alone while a handler works on it, the table
\* heals by itself: once the latest match of an order is handled its row is
\* exact again, whatever earlier event was missed, failed or died, and a
\* handled cancellation is on the row.
SelfHealing ==
    \A o \in made \intersect Paced : ~Busy(o) =>
        LET cancelDone == pc[OrderCancelled(o)] = "done"
            matchDone == filled[o] > 0 /\ pc[OrderMatched(o, filled[o])] = "done"
        IN  /\ cancelDone => orders[o].status = "CANCELLED"
            /\ matchDone => orders[o] =
                  IF cancelDone THEN [ChainRow(o) EXCEPT !.status = "CANCELLED"]
                  ELSE ChainRow(o)

\* A handler that started ends: no interleaving with the others makes the
\* retry loop of a match handler, or the fallback of a cancel handler, go on
\* for ever.
HandlersEnd == \A e \in Events : (pc[e] \in Running) ~> (pc[e] \in Ended)

\* An order whose created handler started gets its row, whichever of the
\* order's handlers inserts it, unless the process dies, a call rejects, or
\* its owner is new and somebody else registers him.
OrderListed ==
    \A o \in Orders :
        (pc[OrderCreated(o)] \in Running)
            ~> \/ orders[o] # Absent
               \/ pc[OrderCreated(o)] = "killed"
               \/ /\ pc[OrderCreated(o)] = "failed"
                  /\ faults > 0 \/ Owner[o] \notin RegisteredUsers

-----------------------------------------------------------------------------
(* What makes these properties inductive                                   *)

\* A handler runs for something that happened on the chain.
HasHappened ==
    \A e \in Events : pc[e] # "idle" =>
        /\ e.id \in made
        /\ e.kind = "OrderMatched" => e.fill <= filled[e.id]
        /\ e.kind = "OrderCancelled" => e.id \in cancelled

\* Only a match handler updates, only a cancel handler cancels, and only when
\* the row is there: rows are never removed.
HandlerKind ==
    \A e \in Events :
        /\ pc[e] \in {"updateOrder", "writeUpdate"} => e.kind = "OrderMatched"
        /\ pc[e] \in {"cancelOrder", "writeCancel"} => e.kind = "OrderCancelled"
        /\ pc[e] \in {"writeUpdate", "writeCancel"} => orders[e.id] # Absent

\* tryCreateOrder runs in the first attempt only.
CreatesOnce ==
    \A e \in Events : attempt[e] > 0 => pc[e] \in {"updateOrder", "writeUpdate"} \union Ended

\* What the steps of the handlers keep, whoever else writes the tables.
LiveInv ==
    /\ TypeOK
    /\ RowsBacked
    /\ HasHappened
    /\ HandlerKind
    /\ CreatesOnce
    /\ NeverGivesUp
    /\ MatchRecorded
    /\ CancelKept

\* On a paced order a running handler works on the latest event, and what has
\* healed stays so while the next one is handled.
PacedInv ==
    \A o \in Paced :
        LET cancelDone == pc[OrderCancelled(o)] = "done"
            matchDone == filled[o] > 0 /\ pc[OrderMatched(o, filled[o])] = "done"
        IN  /\ \A f \in Fills \ {0} : pc[OrderMatched(o, f)] \in Running =>
                    f = filled[o] /\ o \notin cancelled
            /\ cancelDone => orders[o].status = "CANCELLED"
            /\ matchDone => orders[o] =
                  IF cancelDone THEN [ChainRow(o) EXCEPT !.status = "CANCELLED"]
                  ELSE ChainRow(o)

\* No event was handled in vain: a handler that ended by itself leaves a row of
\* its order, unless it met a call that rejects or a new owner.
Listed ==
    \A e \in Events :
        /\ pc[e] \in {"done", "skipped", "gaveUp"} => orders[e.id] # Absent
        /\ pc[e] = "failed" =>
            orders[e.id] # Absent \/ faults > 0 \/ Owner[e.id] \notin RegisteredUsers

\* Nobody is registered twice who was registered from the beginning.
ListedInv ==
    /\ RegisteredUsers \subseteq users
    /\ \A e \in Events : pc[e] = "createUser" => Owner[e.id] \notin RegisteredUsers
    /\ Listed

\* The inductive invariant of the live indexer: when nobody else writes, every
\* fill comes from a handler, paced orders heal, and events lead to rows.
IInv ==
    /\ LiveInv
    /\ FillHasWriter
    /\ PacedInv
    /\ ListedInv

-----------------------------------------------------------------------------
(* What the log messages say, and the code does not keep                   *)

\* "Order already exists, skipping creation": without rejected calls and with
\* a registered user, the created handler logs no error.
DuplicateIsSkipped ==
    \A o \in Orders : pc[OrderCreated(o)] = "failed" =>
        faults > 0 \/ Owner[o] \notin RegisteredUsers

\* "Order not found, creating it as cancelled": without rejected calls, a
\* cancel handler that took this path leaves a cancelled order behind.
CancelIsRecorded ==
    \A o \in Orders : pc[OrderCancelled(o)] \in {"done", "failed"} =>
        \/ faults > 0 \/ Owner[o] \notin RegisteredUsers
        \/ orders[o].status = "CANCELLED"
        \/ \E f \in Fills \ {0} : pc[OrderMatched(o, f)] = "done"

=============================================================================
