---------------------------- MODULE OrderRestore ----------------------------
(***************************************************************************)
(* The whole order indexer: the live handlers of OrderIndex together with  *)
(* BlockchainUseCase.restoreOrdersHistory, which every boot runs once.     *)
(*                                                                         *)
(* Nest awaits the onModuleInit hooks of a module together, so the restore *)
(* and the registration of the listeners overlap, and live handlers may    *)
(* run between any two awaits of the restore.  stage names the call the    *)
(* restore awaits.  A boot follows a death at once; the time the process   *)
(* is down is the time until the restore's first answer.                   *)
(*                                                                         *)
(* The loops of the restore take their items in the order of the contract  *)
(* or of the logs; here they take them in any order.  Every order has      *)
(* positive amounts and two token addresses.                               *)
(***************************************************************************)
EXTENDS OrderIndex, FiniteSets

CONSTANTS
    ZeroId,         \* the order whose id is 0, if there is one
    StageRetries    \* stageRetries of executeStageWithRetries

ASSUME RestoreAssumption ==
    /\ ZeroId \subseteq Orders
    /\ StageRetries \in Nat \ {0}
    /\ IsFiniteSet(Orders)

VARIABLES
    stage,      \* where restoreOrdersHistory stands
    tries,      \* failed attempts of the current stage
    known,      \* the ids behind the length the restore was told
    existing,   \* existingOrderIds
    missing,    \* missingOrderIds
    fetched,    \* orders whose info has been fetched, and
    snap,       \*   the filled amount the fetched info reports
    ready,      \* createdOrFetchedUsersMap
    todoUsers,  \* what is left of the user loop,
    todoOrders, \*   and of the order loop or the loop over the logs
    current,    \* the user or order about to be inserted
    skipped,    \* orders the log reports as not restored
    logs        \* orders in the OrderCancelled logs that were queried

restoreVars == <<stage, tries, known, existing, missing, fetched, snap, ready,
                 todoUsers, todoOrders, current, skipped, logs>>
fullVars == <<vars, restoreVars>>

\* executeStageWithRetries runs these, with retry around each call inside all
\* but the first.
RetriedStages == {"length", "orderIds", "orderInfo", "decimals"}

Loops == {"users", "createUser", "orders", "insertOrder", "cancels"}

\* Returned; only "finished" went through all stages.
Over == {"noOrders", "upToDate", "nothingMissing", "finished"}

Stages == RetriedStages \union Loops \union {"existing", "logs"} \union Over

NoOne == "nobody"

RestoreTypeOK ==
    /\ stage \in Stages
    /\ tries \in 0..(StageRetries - 1)
    /\ known \subseteq made
    /\ existing \subseteq Orders
    /\ missing \subseteq known
    /\ fetched \subseteq missing
    /\ snap \in [Orders -> Fills]
    /\ ready \subseteq users
    /\ todoUsers \subseteq Users
    /\ todoOrders \subseteq Orders
    /\ current \in Users \union Orders \union {NoOne}
    /\ skipped \subseteq missing
    /\ logs \subseteq cancelled

Booted ==
    /\ stage' = "length"
    /\ tries' = 0
    /\ known' = {} /\ existing' = {} /\ missing' = {}
    /\ fetched' = {} /\ snap' = [o \in Orders |-> 0]
    /\ ready' = {} /\ todoUsers' = {} /\ todoOrders' = {}
    /\ current' = NoOne
    /\ skipped' = {} /\ logs' = {}

RestoreInit ==
    /\ Init
    /\ stage = "length"
    /\ tries = 0
    /\ known = {} /\ existing = {} /\ missing = {}
    /\ fetched = {} /\ snap = [o \in Orders |-> 0]
    /\ ready = {} /\ todoUsers = {} /\ todoOrders = {}
    /\ current = NoOne
    /\ skipped = {} /\ logs = {}

Present == {o \in Orders : orders[o] # Absent}

-----------------------------------------------------------------------------
(* Stages 1 to 5: what is missing, and what the contract says about it     *)

\* The list only grows, so the first length ids are the ones made by now.
GetOrderIdLength ==
    /\ stage = "length"
    /\ known' = made
    /\ stage' = IF made = {} THEN "noOrders" ELSE "existing"
    /\ tries' = 0
    /\ UNCHANGED <<vars, existing, missing, fetched, snap, ready, todoUsers,
                   todoOrders, current, skipped, logs>>

\* Only the numbers of orders are compared.
GetExistingOrders ==
    /\ stage = "existing"
    /\ existing' = Present
    /\ stage' = IF Cardinality(Present) >= Cardinality(known) THEN "upToDate"
                ELSE "orderIds"
    /\ UNCHANGED <<vars, tries, known, missing, fetched, snap, ready, todoUsers,
                   todoOrders, current, skipped, logs>>

\* getMissingOrderIds goes through the first length ids of the contract.
MissingIds == known \ existing

GetMissingOrderIds ==
    /\ stage = "orderIds"
    /\ missing' = MissingIds
    /\ stage' = IF MissingIds = {} THEN "nothingMissing" ELSE "orderInfo"
    /\ tries' = 0
    /\ UNCHANGED <<vars, known, existing, fetched, snap, ready, todoUsers,
                   todoOrders, current, skipped, logs>>

\* fetchOrdersInfo asks for the orders of a chunk at once; each answer holds
\* what the contract says when it is given.
FetchOrderInfo(o) ==
    /\ stage = "orderInfo"
    /\ o \in missing \ fetched
    /\ fetched' = fetched \union {o}
    /\ snap' = [snap EXCEPT ![o] = filled[o]]
    /\ IF fetched' = missing THEN stage' = "decimals" /\ tries' = 0
       ELSE UNCHANGED <<stage, tries>>
    /\ UNCHANGED <<vars, known, existing, missing, ready, todoUsers, todoOrders,
                   current, skipped, logs>>

FetchTokenDecimals ==
    /\ stage = "decimals"
    /\ stage' = "users"
    /\ tries' = 0
    /\ todoUsers' = {Owner[o] : o \in missing}
    /\ UNCHANGED <<vars, known, existing, missing, fetched, snap, ready,
                   todoOrders, current, skipped, logs>>

-----------------------------------------------------------------------------
(* Step 1: users                                                           *)

\* The loop goes on with the other users, or the loop over orders starts.
UserProcessed(u) ==
    /\ todoUsers' = todoUsers \ {u}
    /\ current' = NoOne
    /\ IF todoUsers' = {} THEN stage' = "orders" /\ todoOrders' = missing
       ELSE stage' = "users" /\ UNCHANGED todoOrders

RestoreGetUser(u) ==
    /\ stage = "users"
    /\ u \in todoUsers
    /\ \/ /\ u \in users
          /\ ready' = ready \union {u}
          /\ UserProcessed(u)
       \/ /\ u \notin users
          /\ stage' = "createUser"
          /\ current' = u
          /\ UNCHANGED <<ready, todoUsers, todoOrders>>
    /\ UNCHANGED <<vars, tries, known, existing, missing, fetched, snap,
                   skipped, logs>>

\* Slip: an insert that fails is tried again until it succeeds.
RestoreCreateUserRetries ==
    /\ stage = "createUser"
    /\ current \notin users
    /\ users' = users \union {current}
    /\ ready' = ready \union {current}
    /\ UserProcessed(current)
    /\ UNCHANGED <<chainVars, orders, listening, pc, attempt, faults, crashes,
                   tries, known, existing, missing, fetched, snap, skipped, logs>>

\* A user a handler created in the meantime is a caught error, and the map
\* stays without it.
RestoreCreateUser ==
    /\ stage = "createUser"
    /\ \/ /\ current \notin users
          /\ users' = users \union {current}
          /\ ready' = ready \union {current}
       \/ /\ current \in users
          /\ UNCHANGED <<users, ready>>
    /\ UserProcessed(current)
    /\ UNCHANGED <<chainVars, orders, listening, pc, attempt, faults, crashes,
                   tries, known, existing, missing, fetched, snap, skipped, logs>>

-----------------------------------------------------------------------------
(* Step 2: orders                                                          *)

OrderProcessed(o) ==
    /\ todoOrders' = todoOrders \ {o}
    /\ current' = NoOne
    /\ stage' = IF todoOrders' = {} THEN "logs" ELSE "orders"

\* Slip: the answer of the lookup the wrong way round.
RestoreGetOrderInverted(o) ==
    /\ stage = "orders"
    /\ o \in todoOrders
    /\ IF o \notin ZeroId /\ Owner[o] \in ready /\ orders[o] # Absent
       THEN stage' = "insertOrder" /\ current' = o /\ UNCHANGED <<todoOrders, skipped>>
       ELSE OrderProcessed(o) /\ UNCHANGED skipped
    /\ UNCHANGED <<vars, tries, known, existing, missing, fetched, snap, ready,
                   todoUsers, logs>>

\* !typedOrderInfo.id holds for the id 0n, and the user map may lack the
\* owner; both are logged and skipped.  Otherwise the order is looked up.
RestoreGetOrder(o) ==
    /\ stage = "orders"
    /\ o \in todoOrders
    /\ \/ /\ o \in ZeroId \/ Owner[o] \notin ready
          /\ skipped' = skipped \union {o}
          /\ OrderProcessed(o)
       \/ /\ o \notin ZeroId /\ Owner[o] \in ready
          /\ orders[o] # Absent
          /\ OrderProcessed(o)
          /\ UNCHANGED skipped
       \/ /\ o \notin ZeroId /\ Owner[o] \in ready
          /\ orders[o] = Absent
          /\ stage' = "insertOrder"
          /\ current' = o
          /\ UNCHANGED <<todoOrders, skipped>>
    /\ UNCHANGED <<vars, tries, known, existing, missing, fetched, snap, ready,
                   todoUsers, logs>>

\* Slip: the filled amounts are left to the columns' defaults.
RestoredRowUnfilled(o) == [status |-> "ACTIVE", fill |-> 0]

\* The status is computed from the fetched amounts.
RestoredRow(o) ==
    [status |-> IF snap[o] = Amount THEN "FILLED"
                ELSE IF 0 < snap[o] /\ snap[o] < Amount THEN "PARTIALLY_FILLED"
                ELSE "ACTIVE",
     fill |-> snap[o]]

\* Slip: an upsert instead of an insert.
InsertOrderUpserts ==
    /\ stage = "insertOrder"
    /\ orders' = [orders EXCEPT ![current] = RestoredRow(current)]
    /\ OrderProcessed(current)
    /\ UNCHANGED <<chainVars, users, listening, pc, attempt, faults, crashes,
                   tries, known, existing, missing, fetched, snap, ready,
                   todoUsers, skipped, logs>>

\* A handler may have inserted the order in the meantime: a caught P2002.
InsertOrder ==
    /\ stage = "insertOrder"
    /\ orders' = IF orders[current] = Absent
                 THEN [orders EXCEPT ![current] = RestoredRow(current)]
                 ELSE orders
    /\ OrderProcessed(current)
    /\ UNCHANGED <<chainVars, users, listening, pc, attempt, faults, crashes,
                   tries, known, existing, missing, fetched, snap, ready,
                   todoUsers, skipped, logs>>

-----------------------------------------------------------------------------
(* The OrderCancelled logs                                                 *)

\* Slip: a return where the loop should continue.
LogProcessedReturns(o) ==
    /\ todoOrders' = todoOrders \ {o}
    /\ stage' = "finished"

LogProcessed(o) ==
    /\ todoOrders' = todoOrders \ {o}
    /\ stage' = IF todoOrders' = {} THEN "finished" ELSE "cancels"

QueryCancelled ==
    /\ stage = "logs"
    /\ logs' = cancelled
    /\ todoOrders' = cancelled
    /\ stage' = IF cancelled = {} THEN "finished" ELSE "cancels"
    /\ UNCHANGED <<vars, tries, known, existing, missing, fetched, snap, ready,
                   todoUsers, current, skipped>>

\* One update without a lookup; an order that has no row is a caught error.
CancelFromLog(o) ==
    /\ stage = "cancels"
    /\ o \in todoOrders
    /\ orders' = IF orders[o] = Absent THEN orders
                 ELSE [orders EXCEPT ![o].status = "CANCELLED"]
    /\ LogProcessed(o)
    /\ UNCHANGED <<chainVars, users, listening, pc, attempt, faults, crashes,
                   tries, known, existing, missing, fetched, snap, ready,
                   todoUsers, current, skipped, logs>>

-----------------------------------------------------------------------------
(* Failures                                                                *)

Fault ==
    /\ faults < MaxFaults
    /\ faults' = faults + 1

\* A stage starts over, with nothing of what it has fetched.
StageFails ==
    /\ stage \in RetriedStages
    /\ tries + 1 < StageRetries
    /\ Fault
    /\ tries' = tries + 1
    /\ fetched' = IF stage = "orderInfo" THEN {} ELSE fetched
    /\ snap' = IF stage = "orderInfo" THEN [o \in Orders |-> 0] ELSE snap
    /\ UNCHANGED <<chainVars, tableVars, listening, pc, attempt, crashes,
                   stage, known, existing, missing, ready, todoUsers,
                   todoOrders, current, skipped, logs>>

\* A stage out of attempts, the query for the existing orders or the query in
\* BlockchainService.onModuleInit: the hook rejects and the process exits.
BootFails ==
    /\ \/ stage \in RetriedStages /\ tries + 1 = StageRetries
       \/ stage = "existing"
       \/ ~listening
    /\ Fault
    /\ ProcessDies
    /\ UNCHANGED crashes
    /\ Booted

\* A call that rejects inside a loop costs the item, not the loop.
ItemFails ==
    /\ Fault
    /\ \/ /\ \/ stage = "users" /\ \E u \in todoUsers : UserProcessed(u)
             \/ stage = "createUser" /\ UserProcessed(current)
          /\ UNCHANGED skipped
       \/ \E o \in todoOrders :
          /\ \/ stage = "orders" /\ o \notin ZeroId /\ Owner[o] \in ready
             \/ stage = "insertOrder" /\ o = current
          /\ skipped' = skipped \union {o}
          /\ OrderProcessed(o)
          /\ UNCHANGED todoUsers
       \/ \E o \in todoOrders :
          /\ stage = "cancels"
          /\ LogProcessed(o)
          /\ UNCHANGED <<todoUsers, current, skipped>>
    /\ UNCHANGED <<chainVars, tableVars, listening, pc, attempt, crashes, tries,
                   known, existing, missing, fetched, snap, ready, logs>>

\* The logs cannot be queried: caught, and the restore returns.
LogsFail ==
    /\ stage = "logs"
    /\ Fault
    /\ stage' = "finished"
    /\ UNCHANGED <<chainVars, tableVars, listening, pc, attempt, crashes, tries,
                   known, existing, missing, fetched, snap, ready, todoUsers,
                   todoOrders, current, skipped, logs>>

-----------------------------------------------------------------------------

RestoreStep ==
    \/ GetOrderIdLength
    \/ GetExistingOrders
    \/ GetMissingOrderIds
    \/ \E o \in Orders : FetchOrderInfo(o)
    \/ FetchTokenDecimals
    \/ \E u \in Users : RestoreGetUser(u)
    \/ RestoreCreateUser
    \/ \E o \in Orders : RestoreGetOrder(o)
    \/ InsertOrder
    \/ QueryCancelled
    \/ \E o \in Orders : CancelFromLog(o)

LiveStep ==
    \/ ContractStep
    \/ \E e \in Events : HandlerStep(e) \/ CallRejects(e)
    \/ Listen

RestoreNext ==
    \/ LiveStep /\ UNCHANGED restoreVars
    \/ Crash /\ Booted
    \/ RestoreStep
    \/ StageFails
    \/ BootFails
    \/ ItemFails
    \/ LogsFail

RestoreSpec == RestoreInit /\ [][RestoreNext]_fullVars

\* As in OrderIndex: the event loop answers every awaited call.
FairRestoreSpec ==
    /\ RestoreSpec
    /\ WF_fullVars(RestoreStep)
    /\ \A e \in Events : WF_fullVars(HandlerStep(e) /\ UNCHANGED restoreVars)

-----------------------------------------------------------------------------
(* Properties; those of OrderIndex are checked of this composition too     *)

\* Between them, a restore that ran to its end and the live handlers miss an
\* order only if the log reports it as not restored, or if it was made after
\* the restore read the length and its created handler did not succeed (the
\* gap before the listeners are registered, a rejected call, a lost race to
\* register the owner).
Covered ==
    \A o \in made : stage = "finished" /\ ~Busy(o) =>
        \/ o \in Present
        \/ o \in skipped
        \/ o \notin known /\ pc[OrderCreated(o)] \in {"missed", "failed", "killed"}

\* The row shows the cancellation, or a match handler wrote it.
CancelShown(o) ==
    \/ orders[o].status = "CANCELLED"
    \/ \E f \in Fills \ {0} : pc[OrderMatched(o, f)] = "done"

\* Every cancellation the restore read is on the row of its order when the
\* restore ends, whoever inserted the row, unless the log reports the order
\* as not restored or a match handler wrote the row later.
CancelsApplied ==
    stage = "finished" /\ faults = 0 =>
        \A o \in (known \intersect logs) \ skipped : CancelShown(o)

\* The insert comes long after the contract was asked.  If the chain leaves an
\* order alone while a handler works on it, and no call rejects, the order is
\* never behind what the restore had read of it: either the snapshot went in,
\* or the handler that was faster had a later event.  A cancel handler that
\* creates the order is the exception, for it inserts an unfilled one.
RestoredNotBehind ==
    faults = 0 /\ stage \in {"logs", "cancels", "finished"} =>
        \A o \in (fetched \intersect Paced) \ (skipped \union cancelled) :
            ~Busy(o) => orders[o].fill >= snap[o]

\* A boot's restore returns or takes the process down with it.
RestoreEnds == (stage \notin Over) ~> (stage \in Over)

-----------------------------------------------------------------------------
(* What makes these properties inductive                                   *)

\* What the restore believes was so when it looked, and still is.
Believed ==
    /\ existing \subseteq Present
    /\ \A o \in Orders : snap[o] <= filled[o]
    /\ stage \in {"length", "existing", "orderIds"} => missing = {}
    /\ stage \in {"orderInfo", "decimals", "logs", "finished"} \union Loops =>
            missing = known \ existing

\* Each loop works on items of its own.
LoopItems ==
    /\ stage = "createUser" => current \in Users
    /\ stage = "insertOrder" => current \in todoOrders
    /\ stage \in {"orders", "insertOrder"} => todoOrders \subseteq missing
    /\ stage = "cancels" => todoOrders \subseteq logs

\* There is a call to be answered: no stage or loop is entered, or gone on with,
\* when nothing is left to do in it.
WorkLeft ==
    /\ stage \in {"orderInfo", "decimals", "users", "createUser"} => missing # {}
    /\ stage = "orderInfo" => fetched # missing
    /\ stage \in {"users", "createUser"} => todoUsers \subseteq {Owner[o] : o \in missing}
    /\ stage = "users" => todoUsers # {}
    /\ stage = "createUser" => current \in todoUsers
    /\ stage \in {"orders", "insertOrder", "cancels"} => todoOrders # {}

\* An order the loop is done with has a row or is reported.
LoopDone ==
    /\ stage \in {"orders", "insertOrder"} =>
            missing \ todoOrders \subseteq Present \union skipped
    /\ stage \in {"logs", "cancels", "finished"} =>
            missing \subseteq Present \union skipped

\* A cancellation the loop is done with is on the row.
LogsDone ==
    stage = "cancels" /\ faults = 0 =>
        \A o \in (known \intersect logs) \ (skipped \union todoOrders) : CancelShown(o)

\* A handler that ended knowing that its order has a row is right, and each
\* order's created event was emitted.
HandlersKnow ==
    /\ \A e \in Events : pc[e] \in {"done", "skipped", "gaveUp"} => orders[e.id] # Absent
    /\ \A o \in made : pc[OrderCreated(o)] # "idle"

\* What the stages of the restore hand on to the next.
StagesInv ==
    /\ RestoreTypeOK
    /\ Believed
    /\ LoopItems
    /\ LoopDone
    /\ LogsDone
    /\ CancelsApplied

\* The inductive invariant of the restore and the live handlers together.
RestoreInv ==
    /\ LiveInv
    /\ HandlersKnow
    /\ StagesInv
    /\ WorkLeft

\* A handler runs in a process that listens.  On a paced order it works on the
\* latest event: nothing has been filled while the created handler runs, and
\* the match handler knows the fill the contract reports.
LatestHandled ==
    /\ \A e \in Events : pc[e] \in Running => listening
    /\ \A o \in Paced : pc[OrderCreated(o)] \in Running => filled[o] = 0
    /\ \A o \in Paced, f \in Fills \ {0} :
            pc[OrderMatched(o, f)] \in Running => f = filled[o]

\* The handler of the latest match is past creating the order, or before it
\* looks for the row: once there is one, it ends by writing the fill.
WillWrite(o) ==
    /\ filled[o] > 0
    /\ pc[OrderMatched(o, filled[o])]
            \in {"getOrderInfo", "getTokenDecimals", "updateOrder", "writeUpdate"}

\* A row that appeared after the restore asked for the existing orders is the
\* restore's, and holds what it fetched, or a handler's, which leaves nothing
\* behind that is not on its way: this process hears every later match.
CaughtUp(o) ==
    \/ o \in fetched /\ orders[o].fill >= snap[o]
    \/ listening /\ (orders[o].fill = filled[o] \/ WillWrite(o))

\* From the decimals on, every missing order has been fetched.
FetchedAll ==
    stage \in {"decimals", "logs", "finished"} \union Loops => fetched = missing

\* With a single attempt this fails: a match handler that had to create the
\* order gives up before it writes the fill.
NoneBehind ==
    stage # "existing" /\ faults = 0 /\ RetryLimit > 1 =>
        \A o \in ((known \ existing) \intersect Paced \intersect Present) \ cancelled :
            CaughtUp(o)

\* The inductive invariant behind RestoredNotBehind.
CatchUpInv ==
    /\ RestoreInv
    /\ LatestHandled
    /\ FetchedAll
    /\ NoneBehind

-----------------------------------------------------------------------------
(* What a log message says, and the code does not keep                     *)

\* "All orders from blockchain already exist in DB or DB has more orders":
\* what the restore logs when it returns early.
UpToDateIsTrue == stage = "upToDate" => known \subseteq Present

=============================================================================
