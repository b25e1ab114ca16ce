------------------------- MODULE OrderRestoreProofs -------------------------
(***************************************************************************)
(* What the restore and the live handlers guarantee together, over any     *)
(* number of boots, orders, users, fill units and rejected calls.          *)
(***************************************************************************)
EXTENDS OrderRestore, OrderIndexProofs, FiniteSetTheorems

\* Initially nothing has happened and the restore has seen nothing.
LEMMA RestoreInitEstablishes == RestoreInit => RestoreInv
<1> SUFFICES ASSUME RestoreInit PROVE RestoreInv
  OBVIOUS
<1> USE DEF RestoreInit
<1>1. LiveInv
  BY InitEstablishes
<1>2. HandlersKnow
  BY DEF HandlersKnow, Init, ContractInit
<1>3. RestoreTypeOK
  BY ContractAssumption, RestoreAssumption, IndexAssumption
  DEF RestoreTypeOK, Stages, RetriedStages, Fills
<1>4. Believed
  BY DEF Believed, Init, ContractInit, Loops
<1>5. LoopItems /\ LoopDone /\ LogsDone /\ CancelsApplied
  BY DEF LoopItems, LoopDone, LogsDone, CancelsApplied
<1> QED
  BY <1>1, <1>2, <1>3, <1>4, <1>5 DEF RestoreInv, StagesInv, WorkLeft

-----------------------------------------------------------------------------
(* What the steps of the live half leave to the restore                    *)

\* The chain's history grows, users and rows stay, and so does a success.
LEMMA NothingIsLost ==
    ASSUME LiveInv, [Next]_vars
    PROVE  /\ made \subseteq made' /\ cancelled \subseteq cancelled'
           /\ \A o \in Orders : filled[o] <= filled'[o]
           /\ users \subseteq users'
           /\ \A o \in Orders : orders[o] # Absent => orders'[o] # Absent
           /\ \A e \in Events : pc[e] = "done" => pc'[e] = "done"
           /\ faults' = 0 => faults = 0
<1>0. /\ pc \in [Events -> Running \union Ended \union {"idle"}]
      /\ orders \in [Orders -> Row \union {Absent}]
      /\ \A o \in Orders : filled[o] \in Nat
      /\ faults \in Nat
  BY ContractAssumption, IndexAssumption DEF LiveInv, TypeOK, ContractTypeOK, Fills
<1>1. CASE ContractStep
  <2>1. PICK e \in Events :
             /\ Emit(e)
             /\ pc[e] = "idle"
             /\ made \subseteq made' /\ cancelled \subseteq cancelled'
             /\ \A p \in Orders : filled[p] <= filled'[p]
    BY <1>1, ContractEmits
  <2> QED
    BY <1>0, <2>1 DEF Emit, Goto, tableVars
<1>2. ASSUME NEW e \in Events, HandlerStep(e)
      PROVE  /\ UNCHANGED <<chainVars, faults>>
             /\ users \subseteq users'
             /\ \A o \in Orders : orders[o] # Absent => orders'[o] # Absent
             /\ \A x \in Events : pc[x] = "done" => pc'[x] = "done"
  <2>0. e.id \in Orders
    BY EventParts
  <2>1. /\ UNCHANGED <<chainVars, faults>>
        /\ users \subseteq users'
        /\ pc[e] # "done"
        /\ \A x \in Events \ {e} : pc'[x] = pc[x]
    <3> USE <1>0 DEF Goto, tableVars
    <3>1. CASE \/ GetOrderInfo(e) \/ GetTokenDecimals(e)
               \/ GetUser(e) \/ CreateUser(e) \/ CancelOrder(e)
      BY <3>1 DEF GetOrderInfo, GetTokenDecimals, GetUser, CreateUser, CancelOrder
    <3>2. CASE GetOrder(e)
      BY <3>2 DEF GetOrder, CreateReturns, NextAttempt
    <3>3. CASE CreateOrder(e)
      BY <3>3 DEF CreateOrder, CreateReturns, NextAttempt
    <3>4. CASE UpdateOrder(e)
      BY <3>4 DEF UpdateOrder, NextAttempt
    <3>5. CASE WriteUpdate(e) \/ WriteCancel(e)
      BY <3>5 DEF WriteUpdate, WriteCancel
    <3> QED
      BY <1>2, <3>1, <3>2, <3>3, <3>4, <3>5 DEF HandlerStep
  <2>2. \/ UNCHANGED orders
        \/ orders' = [orders EXCEPT ![e.id] = NewRow(e)]
        \/ orders' = [orders EXCEPT ![e.id] = MatchedRow(e)]
        \/ /\ orders[e.id] # Absent
           /\ orders' = [orders EXCEPT ![e.id].status = "CANCELLED"]
    BY <1>2 DEF HandlerStep, GetOrderInfo, GetTokenDecimals, GetUser, CreateUser, CancelOrder,
                GetOrder, CreateOrder, UpdateOrder, WriteUpdate, WriteCancel, tableVars
  <2>3. orders[e.id] # Absent => [orders[e.id] EXCEPT !.status = "CANCELLED"] \in Row
    BY <1>0, <2>0 DEF Row, Status
  <2>4. \A o \in Orders : orders[o] # Absent => orders'[o] # Absent
    BY <1>0, <2>0, <2>2, <2>3, RowsAreRows
  <2> QED
    BY <2>1, <2>4
<1>3. CASE \E e \in Events : CallRejects(e)
  BY <1>0, <1>3 DEF CallRejects, Goto, tableVars, chainVars, Running
<1>4. CASE Crash \/ Listen \/ UNCHANGED vars
  BY <1>0, <1>4
  DEF Crash, ProcessDies, Listen, vars, indexVars, tableVars, chainVars, Running
<1> QED
  BY <1>0, <1>1, <1>2, <1>3, <1>4 DEF Next, chainVars

\* Handlers that ended knowing of a row still do, and no created event is
\* overlooked.
LEMMA KnowledgeKept ==
    ASSUME LiveInv, HandlersKnow, [Next]_vars
    PROVE  HandlersKnow'
<1> DEFINE Knows(e) == pc[e] \in {"done", "skipped", "gaveUp"} => orders[e.id] # Absent
<1>0. /\ pc \in [Events -> Running \union Ended \union {"idle"}]
      /\ orders \in [Orders -> Row \union {Absent}]
      /\ \A e \in Events : Knows(e) /\ e.id \in Orders
      /\ \A o \in made : o \in Orders /\ pc[OrderCreated(o)] # "idle"
      /\ \A o \in Orders : orders[o] # Absent => orders'[o] # Absent
  BY NothingIsLost, EventParts DEF LiveInv, TypeOK, ContractTypeOK, HandlersKnow
<1>1. ASSUME NEW e \in Events, HandlerStep(e)
      PROVE  HandlersKnow'
  <2> USE <1>0 DEF Goto
  <2>1. /\ pc'[e] # "idle"
        /\ Knows(e)'
        /\ \A x \in Events \ {e} : pc'[x] = pc[x]
        /\ made' = made
    <3>1. CASE \/ GetOrderInfo(e) \/ GetTokenDecimals(e)
               \/ GetUser(e) \/ CreateUser(e) \/ CancelOrder(e)
      BY <3>1 DEF GetOrderInfo, GetTokenDecimals, GetUser, CreateUser, CancelOrder, chainVars
    <3>2. CASE GetOrder(e)
      BY <3>2 DEF GetOrder, CreateReturns, CreateOutcome, NextAttempt, chainVars
    <3>3. CASE CreateOrder(e)
      <4>1. orders'[e.id] # Absent
        BY <3>3, RowsAreRows DEF CreateOrder
      <4> QED
        BY <3>3, <4>1 DEF CreateOrder, CreateReturns, CreateOutcome, NextAttempt, chainVars
    <3>4. CASE UpdateOrder(e)
      <4>1. attempt[e] \in Nat /\ (attempt[e] > 0 => orders[e.id] # Absent)
        BY IndexAssumption DEF LiveInv, TypeOK, NeverGivesUp
      <4> QED
        BY <3>4, <4>1 DEF UpdateOrder, NextAttempt, chainVars
    <3>5. CASE WriteUpdate(e) \/ WriteCancel(e)
      <4>1. orders[e.id] # Absent
        BY <3>5 DEF WriteUpdate, WriteCancel
      <4> QED
        BY <3>5, <4>1 DEF WriteUpdate, WriteCancel, chainVars
    <3> QED
      BY <1>1, <3>1, <3>2, <3>3, <3>4, <3>5 DEF HandlerStep
  <2> QED
    BY <2>1, EventsOfOrder DEF HandlersKnow
<1>2. CASE ContractStep
  <2>1. PICK o \in Orders : \/ EmitCreated(o)
                            \/ \E f \in Fills : EmitMatched(o, f)
                            \/ EmitCancelled(o)
    BY <1>2 DEF ContractStep
  <2>2. PICK e \in Events : Emit(e) /\ pc[e] = "idle"
    BY <1>2, ContractEmits
  <2>3. ASSUME NEW x \in Events, Emit(x)
        PROVE  /\ pc'[x] \in {"getTokenDecimals", "getOrderInfo", "cancelOrder", "missed"}
               /\ \A y \in Events \ {x} : pc'[y] = pc[y]
               /\ UNCHANGED orders
    BY <1>0, <2>3, EventParts DEF Emit, Goto, Entry, tableVars
  <2>4. \A p \in made : pc'[OrderCreated(p)] # "idle"
    BY <1>0, <2>2, <2>3, EventsOfOrder
  <2>5. \A p \in made' : p \in made \/ (p = o /\ Emit(OrderCreated(o)))
    BY <2>1 DEF EmitCreated, EmitMatched, EmitCancelled, ContractCreates, ContractMatches,
                ContractCancels
  <2>6. \A p \in made' : pc'[OrderCreated(p)] # "idle"
    BY <2>3, <2>4, <2>5, EventsOfOrder
  <2>7. \A x \in Events : Knows(x)'
    BY <1>0, <2>2, <2>3
  <2> QED
    BY <2>6, <2>7 DEF HandlersKnow
<1>3. CASE \E e \in Events : CallRejects(e)
  <2>1. PICK e \in Events : CallRejects(e)
    BY <1>3
  <2>2. /\ pc'[e] = "failed"
        /\ \A x \in Events \ {e} : pc'[x] = pc[x]
        /\ made' = made
    BY <1>0, <2>1 DEF CallRejects, Goto, chainVars
  <2> QED
    BY <1>0, <2>2, EventsOfOrder DEF HandlersKnow
<1>4. CASE Crash
  <2>1. /\ \A x \in Events : pc'[x] = "killed" \/ pc'[x] = pc[x]
        /\ made' = made
    BY <1>0, <1>4 DEF Crash, ProcessDies, chainVars
  <2> QED
    BY <1>0, <2>1, EventsOfOrder DEF HandlersKnow
<1>5. CASE Listen \/ UNCHANGED vars
  BY <1>5 DEF HandlersKnow, Listen, vars, indexVars, tableVars, chainVars
<1> QED
  BY <1>1, <1>2, <1>3, <1>4, <1>5 DEF Next

\* A cancelled row stays cancelled unless a match handler writes it.
LEMMA OnlyMatchesReopen ==
    ASSUME LiveInv, [Next]_vars, NEW o \in Orders, orders[o].status = "CANCELLED"
    PROVE  \/ orders'[o].status = "CANCELLED"
           \/ \E f \in Fills \ {0} : pc'[OrderMatched(o, f)] = "done"
<1>0. /\ pc \in [Events -> Running \union Ended \union {"idle"}]
      /\ orders \in [Orders -> Row \union {Absent}]
      /\ orders[o] # Absent /\ orders[o] \in Row
  BY DEF LiveInv, TypeOK, Absent, View!Absent
<1>1. ASSUME NEW e \in Events, HandlerStep(e)
      PROVE  \/ orders'[o].status = "CANCELLED"
             \/ \E f \in Fills \ {0} : pc'[OrderMatched(o, f)] = "done"
  <2>0. e.id \in Orders
    BY EventParts
  <2>1. CASE WriteUpdate(e)
    <3>1. /\ e = OrderMatched(e.id, e.fill) /\ e.fill \in Fills \ {0}
      BY <2>1, MatchedRowBacked, MatchEvent DEF WriteUpdate
    <3>2. pc'[e] = "done" /\ (e.id # o => orders'[o] = orders[o])
      BY <1>0, <2>0, <2>1 DEF WriteUpdate, Goto
    <3> QED
      BY <3>1, <3>2
  <2>2. CASE WriteCancel(e)
    BY <1>0, <2>0, <2>2 DEF WriteCancel, Row
  <2>3. CASE CreateOrder(e)
    BY <1>0, <2>0, <2>3 DEF CreateOrder
  <2>4. CASE UNCHANGED orders
    BY <2>4
  <2> QED
    BY <1>1, <2>1, <2>2, <2>3, <2>4
    DEF HandlerStep, GetOrderInfo, GetTokenDecimals, GetUser, CreateUser, GetOrder,
        UpdateOrder, CancelOrder, tableVars
<1>2. CASE UNCHANGED orders
  BY <1>2
<1>3. CASE ContractStep
  <2>1. UNCHANGED orders
    BY <1>3, ContractEmits DEF Emit, tableVars
  <2> QED
    BY <2>1
<1> QED
  BY <1>1, <1>2, <1>3
  DEF Next, CallRejects, Crash, ProcessDies, Listen, vars, indexVars, tableVars

-----------------------------------------------------------------------------
(* The writes of the restore                                               *)

\* A write from outside the handlers keeps what they rely on if its row is
\* backed, and either the first of its order or a cancellation.
LEMMA WriteKeeps ==
    ASSUME LiveInv, TypeOK', HandlersKnow,
           NEW o \in Orders, NEW row \in View!Backed(o),
           orders' = [orders EXCEPT ![o] = row],
           orders[o] = Absent \/ row.status = "CANCELLED",
           UNCHANGED <<chainVars, pc, attempt>>
    PROVE  LiveInv' /\ HandlersKnow'
<1>1. row # Absent /\ row.status # "ABSENT"
  BY DEF View!Backed, Absent, View!Absent
<1>2. /\ orders'[o] = row
      /\ \A p \in Orders \ {o} : orders'[p] = orders[p]
      /\ \A p \in Orders : orders[p] # Absent => orders'[p] # Absent
  BY <1>1 DEF LiveInv, TypeOK
<1>3. RowsBacked'
  <2>1. \A p \in Orders : View!Backed(p)' = View!Backed(p)
    BY DEF View!Backed, chainVars
  <2> QED
    BY <1>2, <2>1 DEF LiveInv, RowsBacked
<1>4. HasHappened' /\ CreatesOnce'
  BY DEF LiveInv, HasHappened, CreatesOnce, chainVars
<1>5. HandlerKind' /\ NeverGivesUp' /\ HandlersKnow'
  BY <1>2, EventParts DEF LiveInv, HandlerKind, NeverGivesUp, HandlersKnow, chainVars
<1>6. MatchRecorded'
  BY <1>2, EventParts DEF LiveInv, MatchRecorded, Absent, View!Absent, View!Untouched
<1>7. CancelKept'
  BY <1>2 DEF LiveInv, CancelKept, Absent, View!Absent
<1> QED
  BY <1>3, <1>4, <1>5, <1>6, <1>7 DEF LiveInv

\* What the restore inserts happened: the fill it fetched is on the chain.
LEMMA RestoredRowBacked ==
    ASSUME RestoreInv, stage = "insertOrder"
    PROVE  /\ current \in todoOrders /\ current \in missing
           /\ current \in made /\ current \in Orders
           /\ RestoredRow(current) \in View!Backed(current)
           /\ RestoredRow(current) \in Row
<1>1. /\ current \in todoOrders /\ current \in missing
      /\ current \in made /\ current \in Orders
  BY DEF RestoreInv, StagesInv, LoopItems, RestoreTypeOK, LiveInv, TypeOK, ContractTypeOK
<1> DEFINE f == snap[current]
<1>2. f \in Fills /\ f <= filled[current] /\ filled[current] \in Fills
  BY <1>1 DEF RestoreInv, StagesInv, RestoreTypeOK, Believed, LiveInv, TypeOK, ContractTypeOK
<1>3. CASE f = 0
  BY <1>1, <1>3, ContractAssumption
  DEF RestoredRow, View!Backed, Row, Status, Fills
<1>4. CASE f = Amount
  <2>1. filled[current] = Amount
    BY <1>2, <1>4, ContractAssumption DEF Fills
  <2>2. RestoredRow(current) = [status |-> "FILLED", fill |-> Amount]
    BY <1>4, ContractAssumption DEF RestoredRow
  <2> QED
    BY <1>1, <1>2, <1>4, <2>1, <2>2 DEF View!Backed, Row, Status
<1>5. CASE f # 0 /\ f # Amount
  <2>1. f \in {g \in Fills : 0 < g /\ g <= filled[current] /\ g < Amount}
    BY <1>2, <1>5, ContractAssumption DEF Fills
  <2>2. RestoredRow(current) = [status |-> "PARTIALLY_FILLED", fill |-> f]
    BY <1>5, <2>1 DEF RestoredRow
  <2> QED
    BY <1>1, <2>1, <2>2 DEF View!Backed, View!Fills, Fills, Row, Status
<1> QED
  BY <1>1, <1>3, <1>4, <1>5

\* So does a cancellation from the logs, which leaves the fill as it is.
LEMMA CancelledRowBacked ==
    ASSUME RestoreInv, stage = "cancels", NEW o \in todoOrders, orders[o] # Absent
    PROVE  /\ o \in Orders /\ o \in made /\ o \in logs
           /\ [orders[o] EXCEPT !.status = "CANCELLED"] \in View!Backed(o)
           /\ [orders[o] EXCEPT !.status = "CANCELLED"] \in Row
           /\ [orders[o] EXCEPT !.status = "CANCELLED"].status = "CANCELLED"
<1>1. o \in logs /\ o \in cancelled /\ o \in made /\ o \in Orders
  BY DEF RestoreInv, StagesInv, LoopItems, RestoreTypeOK, LiveInv, TypeOK, ContractTypeOK
<1>2. /\ orders[o] \in Row /\ orders[o] \in View!Backed(o)
      /\ filled[o] \in Fills
  BY <1>1 DEF RestoreInv, LiveInv, TypeOK, ContractTypeOK, RowsBacked
<1>3. [orders[o] EXCEPT !.status = "CANCELLED"] = [status |-> "CANCELLED", fill |-> orders[o].fill]
  BY <1>2 DEF Row
<1>4. orders[o].fill \in Fills /\ orders[o].fill <= filled[o]
  BY <1>1, <1>2, BackedFill
<1> QED
  BY <1>1, <1>3, <1>4 DEF View!Backed, View!Fills, Fills, Row, Status

-----------------------------------------------------------------------------
(* Every step keeps the tables and the handlers                            *)

\* Each step is one of the live half, a death that boots again, or one of the
\* restore, which writes the tables in three places.
LEMMA KindsOfSteps ==
    ASSUME [RestoreNext]_fullVars
    PROVE  \/ [Next]_vars /\ UNCHANGED restoreVars
           \/ Next /\ Booted
           \/ ProcessDies /\ Fault /\ UNCHANGED crashes /\ Booted
           \/ RestoreCreateUser
           \/ InsertOrder
           \/ \E o \in Orders : CancelFromLog(o)
           \/ /\ UNCHANGED vars
              /\ \/ GetOrderIdLength
                 \/ GetExistingOrders
                 \/ GetMissingOrderIds
                 \/ \E o \in Orders : FetchOrderInfo(o)
                 \/ FetchTokenDecimals
                 \/ \E u \in Users : RestoreGetUser(u)
                 \/ \E o \in Orders : RestoreGetOrder(o)
                 \/ QueryCancelled
           \/ /\ Fault /\ UNCHANGED <<chainVars, tableVars, listening, pc, attempt, crashes>>
              /\ StageFails \/ ItemFails \/ LogsFail
<1>1. CASE LiveStep /\ UNCHANGED restoreVars
  BY <1>1 DEF LiveStep, Next
<1>2. CASE Crash /\ Booted
  BY <1>2 DEF Next
<1>3. CASE RestoreStep
  BY <1>3 DEF RestoreStep, GetOrderIdLength, GetExistingOrders, GetMissingOrderIds,
              FetchOrderInfo, FetchTokenDecimals, RestoreGetUser, RestoreGetOrder,
              QueryCancelled
<1>4. CASE BootFails
  BY <1>4 DEF BootFails
<1>5. CASE StageFails
  BY <1>5 DEF StageFails
<1>6. CASE ItemFails
  BY <1>6 DEF ItemFails
<1>7. CASE LogsFail
  BY <1>7 DEF LogsFail
<1>8. CASE UNCHANGED fullVars
  BY <1>8 DEF fullVars
<1> QED
  BY <1>1, <1>2, <1>3, <1>4, <1>5, <1>6, <1>7, <1>8 DEF RestoreNext

\* The tables keep their types and the handlers what they rely on, nothing is
\* lost, and the view of the chain allows the step.
LEMMA TablesKept ==
    ASSUME RestoreInv, [RestoreNext]_fullVars
    PROVE  /\ LiveInv' /\ HandlersKnow'
           /\ made \subseteq made' /\ cancelled \subseteq cancelled'
           /\ \A o \in Orders : filled[o] <= filled'[o]
           /\ users \subseteq users'
           /\ Present \subseteq Present'
           /\ \A e \in Events : pc[e] = "done" => pc'[e] = "done"
           /\ faults' = 0 => faults = 0
           /\ \A o \in Orders : orders[o].status = "CANCELLED" =>
                 \/ orders'[o].status = "CANCELLED"
                 \/ \E f \in Fills \ {0} : pc'[OrderMatched(o, f)] = "done"
           /\ [View!Next]_<<chainVars, orders>>
<1> DEFINE Result == /\ LiveInv' /\ HandlersKnow'
                     /\ made \subseteq made' /\ cancelled \subseteq cancelled'
                     /\ \A o \in Orders : filled[o] <= filled'[o]
                     /\ users \subseteq users'
                     /\ Present \subseteq Present'
                     /\ \A e \in Events : pc[e] = "done" => pc'[e] = "done"
                     /\ faults' = 0 => faults = 0
                     /\ \A o \in Orders : orders[o].status = "CANCELLED" =>
                           \/ orders'[o].status = "CANCELLED"
                           \/ \E f \in Fills \ {0} : pc'[OrderMatched(o, f)] = "done"
                     /\ [View!Next]_<<chainVars, orders>>
<1>0. /\ LiveInv /\ HandlersKnow /\ TypeOK
      /\ orders \in [Orders -> Row \union {Absent}]
      /\ pc \in [Events -> Running \union Ended \union {"idle"}]
      /\ \A o \in Orders : filled[o] \in Nat
      /\ faults \in 0..MaxFaults /\ faults \in Nat /\ MaxFaults \in Nat
  BY ContractAssumption, IndexAssumption DEF RestoreInv, LiveInv, TypeOK, ContractTypeOK, Fills
<1>1. ASSUME [Next]_vars PROVE Result
  <2>1. LiveInv' /\ HandlersKnow'
    BY <1>0, <1>1, StepKeeps, KnowledgeKept
  <2>2. [View!Next]_<<chainVars, orders>>
    BY <1>0, <1>1, StepRefines
  <2>3. /\ made \subseteq made' /\ cancelled \subseteq cancelled'
        /\ \A o \in Orders : filled[o] <= filled'[o]
        /\ users \subseteq users'
        /\ \A o \in Orders : orders[o] # Absent => orders'[o] # Absent
        /\ \A e \in Events : pc[e] = "done" => pc'[e] = "done"
        /\ faults' = 0 => faults = 0
    BY <1>0, <1>1, NothingIsLost
  <2>4. Present \subseteq Present'
    BY <2>3 DEF Present
  <2>5. \A o \in Orders : orders[o].status = "CANCELLED" =>
           \/ orders'[o].status = "CANCELLED"
           \/ \E f \in Fills \ {0} : pc'[OrderMatched(o, f)] = "done"
    BY <1>0, <1>1, OnlyMatchesReopen
  <2> QED
    BY <2>1, <2>2, <2>3, <2>4, <2>5
<1>2. ASSUME UNCHANGED <<chainVars, orders, pc, attempt, listening, crashes>>,
             users \subseteq users', users' \subseteq Users,
             faults' = faults \/ Fault
      PROVE  Result
  <2>1. faults' \in 0..MaxFaults /\ (faults' = 0 => faults = 0)
    BY <1>0, <1>2 DEF Fault
  <2>2. TypeOK'
    BY <1>0, <1>2, <2>1 DEF TypeOK, ContractTypeOK, chainVars
  <2>3. LiveInv'
    BY <1>0, <1>2, <2>2, StutterKeeps
  <2>4. HandlersKnow'
    BY <1>0, <1>2 DEF HandlersKnow, chainVars
  <2> QED
    BY <1>0, <1>2, <2>1, <2>3, <2>4 DEF Present, chainVars
<1>3. ASSUME NEW o \in Orders, NEW row \in View!Backed(o), row \in Row, o \in made,
             orders' = [orders EXCEPT ![o] = row],
             orders[o] = Absent \/ row.status = "CANCELLED",
             UNCHANGED <<chainVars, users, listening, pc, attempt, faults, crashes>>
      PROVE  Result
  <2>1. TypeOK'
    BY <1>0, <1>3 DEF TypeOK, ContractTypeOK, chainVars
  <2>2. LiveInv' /\ HandlersKnow'
    BY <1>0, <1>3, <2>1, WriteKeeps
  <2>3. /\ orders'[o] = row /\ row # Absent
        /\ \A p \in Orders \ {o} : orders'[p] = orders[p]
    BY <1>0, <1>3, RowsAreRows
  <2>4. Present \subseteq Present'
    BY <2>3 DEF Present
  <2>5. \A p \in Orders : orders[p].status = "CANCELLED" => orders'[p].status = "CANCELLED"
    BY <1>3, <2>3 DEF Absent, View!Absent
  <2>6. View!Next
    BY <1>3 DEF View!Next, View!Show, View!Untouched, Absent, View!chainVars, chainVars
  <2> QED
    BY <1>0, <1>3, <2>2, <2>4, <2>5, <2>6 DEF chainVars
<1>4. CASE ProcessDies /\ Fault /\ UNCHANGED crashes
  <2>1. pc' \in [Events -> Running \union Ended \union {"idle"}]
    BY <1>0, <1>4 DEF ProcessDies, Ended
  <2>2. /\ UNCHANGED <<chainVars, users, orders, attempt>>
        /\ listening' \in BOOLEAN
        /\ \A e \in Events : pc'[e] = "killed" \/ pc'[e] = pc[e]
        /\ \A e \in Events : pc[e] = "done" => pc'[e] = "done"
        /\ faults' \in 0..MaxFaults /\ (faults' = 0 => faults = 0)
    <3>1. UNCHANGED <<chainVars, users, orders, attempt>> /\ listening' = FALSE
      BY <1>4 DEF ProcessDies, tableVars
    <3>2. \A e \in Events : pc'[e] = IF pc[e] \in Running THEN "killed" ELSE pc[e]
      BY <1>4 DEF ProcessDies
    <3>3. \A e \in Events : pc[e] = "done" => pc'[e] = "done"
      BY <3>2 DEF Running
    <3>4. faults' \in 0..MaxFaults /\ (faults' = 0 => faults = 0)
      BY <1>0, <1>4 DEF Fault
    <3> QED
      BY <3>1, <3>2, <3>3, <3>4
  <2>3. TypeOK'
    BY <1>0, <1>4, <2>1, <2>2 DEF TypeOK, ContractTypeOK, chainVars
  <2>4. LiveInv'
    BY <1>0, <1>4, <2>3, DeathKeeps
  <2>5. HandlersKnow'
    BY <1>0, <2>2, EventsOfOrder DEF HandlersKnow, chainVars, TypeOK, ContractTypeOK
  <2> QED
    BY <1>0, <2>2, <2>4, <2>5 DEF Present, chainVars
<1>5. CASE RestoreCreateUser
  <2>1. current \in Users
    BY <1>5 DEF RestoreCreateUser, RestoreInv, StagesInv, LoopItems
  <2> QED
    BY <1>0, <1>2, <1>5, <2>1 DEF RestoreCreateUser, TypeOK
<1>6. CASE InsertOrder
  <2>1. /\ current \in made /\ current \in Orders
        /\ RestoredRow(current) \in View!Backed(current)
        /\ RestoredRow(current) \in Row
    BY <1>6, RestoredRowBacked DEF InsertOrder
  <2>2. CASE orders[current] = Absent
    BY <1>3, <1>6, <2>1, <2>2 DEF InsertOrder
  <2>3. CASE orders[current] # Absent
    BY <1>0, <1>2, <1>6, <2>3 DEF InsertOrder, TypeOK
  <2> QED
    BY <2>2, <2>3
<1>7. CASE \E o \in Orders : CancelFromLog(o)
  <2>1. PICK o \in Orders : CancelFromLog(o)
    BY <1>7
  <2>2. CASE orders[o] # Absent
    <3> DEFINE row == [orders[o] EXCEPT !.status = "CANCELLED"]
    <3>1. /\ o \in made /\ row \in View!Backed(o) /\ row \in Row
          /\ row.status = "CANCELLED"
      BY <2>1, <2>2, CancelledRowBacked DEF CancelFromLog
    <3>2. orders' = [orders EXCEPT ![o] = row]
      BY <2>1, <2>2 DEF CancelFromLog
    <3> QED
      BY <1>3, <2>1, <3>1, <3>2 DEF CancelFromLog
  <2>3. CASE orders[o] = Absent
    BY <1>0, <1>2, <2>1, <2>3 DEF CancelFromLog, TypeOK
  <2> QED
    BY <2>2, <2>3
<1>8. CASE \/ UNCHANGED vars
           \/ Fault /\ UNCHANGED <<chainVars, tableVars, listening, pc, attempt, crashes>>
  BY <1>0, <1>2, <1>8 DEF vars, indexVars, tableVars, TypeOK
<1> QED
  BY <1>1, <1>4, <1>5, <1>6, <1>7, <1>8, KindsOfSteps

\* A cancellation that shows goes on to show.
LEMMA ShownStays ==
    ASSUME RestoreInv, [RestoreNext]_fullVars, NEW o \in Orders, CancelShown(o)
    PROVE  CancelShown(o)'
BY TablesKept, EventsOfOrder DEF CancelShown

-----------------------------------------------------------------------------
(* Every step keeps what the stages hand on                                *)

\* The types of the restore's variables, as facts about sets.
LEMMA SetsOfRestore ==
    ASSUME RestoreInv
    PROVE  /\ StageRetries \in Nat \ {0} /\ 0 \in 0..(StageRetries - 1)
           /\ known \subseteq Orders /\ missing \subseteq Orders /\ todoOrders \subseteq Orders
           /\ cancelled \subseteq made /\ made \subseteq Orders
           /\ users \subseteq Users
           /\ Present \subseteq Orders
           /\ \A u : u \in Users => u \in Users \union Orders \union {NoOne}
           /\ NoOne \in Users \union Orders \union {NoOne}
           /\ \A o \in Orders : Owner[o] \in Users
           /\ filled \in [Orders -> Fills]
           /\ StagesInv
BY RestoreAssumption, IndexAssumption
   DEF RestoreInv, StagesInv, RestoreTypeOK, LiveInv, TypeOK, ContractTypeOK, Present

\* While the restore stands still, what it believes stays true.
LEMMA StandingStillKeeps ==
    ASSUME RestoreInv, [RestoreNext]_fullVars, UNCHANGED restoreVars
    PROVE  StagesInv'
<1> USE SetsOfRestore, TablesKept
<1>1. RestoreTypeOK'
  BY DEF StagesInv, RestoreTypeOK, restoreVars
<1>2. Believed'
  <2>1. \A o \in Orders : snap[o] \in Nat /\ filled[o] \in Nat /\ filled'[o] \in Nat
    BY ContractAssumption
    DEF StagesInv, RestoreTypeOK, LiveInv, TypeOK, ContractTypeOK, Fills
  <2>2. \A o \in Orders : snap'[o] <= filled'[o]
    BY <2>1 DEF StagesInv, Believed, restoreVars
  <2> QED
    BY <2>2 DEF StagesInv, Believed, restoreVars
<1>3. LoopItems' /\ LoopDone'
  BY DEF StagesInv, LoopItems, LoopDone, restoreVars
<1>4. LogsDone' /\ CancelsApplied'
  BY ShownStays DEF StagesInv, LogsDone, CancelsApplied, restoreVars
<1> QED
  BY <1>1, <1>2, <1>3, <1>4 DEF StagesInv

\* A boot forgets everything.
LEMMA BootKeeps ==
    ASSUME RestoreInv, [RestoreNext]_fullVars, Booted
    PROVE  StagesInv'
<1>1. RestoreTypeOK'
  <2>1. 0 \in 0..(StageRetries - 1) /\ 0 \in Fills
    BY SetsOfRestore, ContractAssumption DEF Fills
  <2> QED
    BY <2>1 DEF Booted, RestoreTypeOK, Stages, RetriedStages
<1>2. Believed'
  <2>1. \A o \in Orders : filled'[o] \in Nat
    BY TablesKept, ContractAssumption DEF LiveInv, TypeOK, ContractTypeOK, Fills
  <2> QED
    BY <2>1 DEF Booted, Believed, Loops
<1>3. LoopItems' /\ LoopDone' /\ LogsDone' /\ CancelsApplied'
  BY DEF Booted, LoopItems, LoopDone, LogsDone, CancelsApplied
<1> QED
  BY <1>1, <1>2, <1>3 DEF StagesInv

\* Stages 1 to 5 only read.  Each result is true when it is read, and the
\* chain and the table only add to it.
LEMMA FetchingKeeps ==
    ASSUME RestoreInv, [RestoreNext]_fullVars,
           \/ GetOrderIdLength
           \/ GetExistingOrders
           \/ GetMissingOrderIds
           \/ \E o \in Orders : FetchOrderInfo(o)
           \/ FetchTokenDecimals
           \/ StageFails
    PROVE  StagesInv'
<1> USE SetsOfRestore, TablesKept
<1>0. /\ RestoreTypeOK /\ Believed
      /\ \A o \in Orders : snap[o] \in Nat /\ filled[o] \in Nat /\ filled'[o] \in Nat
      /\ 0 \in Fills
      /\ snap \in [Orders -> Fills]
  BY ContractAssumption
  DEF StagesInv, RestoreTypeOK, LiveInv, TypeOK, ContractTypeOK, Fills
<1>1. CASE GetOrderIdLength
  <2>1. RestoreTypeOK'
    BY <1>0, <1>1 DEF GetOrderIdLength, RestoreTypeOK, Stages, Over
  <2>2. Believed'
    BY <1>0, <1>1 DEF GetOrderIdLength, Believed, Loops
  <2>3. LoopItems' /\ LoopDone' /\ LogsDone' /\ CancelsApplied'
    BY <1>1 DEF GetOrderIdLength, LoopItems, LoopDone, LogsDone, CancelsApplied
  <2> QED
    BY <2>1, <2>2, <2>3 DEF StagesInv
<1>2. CASE GetExistingOrders
  <2>1. RestoreTypeOK'
    BY <1>0, <1>2 DEF GetExistingOrders, RestoreTypeOK, Stages, Over, RetriedStages
  <2>2. Believed'
    BY <1>0, <1>2 DEF GetExistingOrders, Believed, Loops
  <2>3. LoopItems' /\ LoopDone' /\ LogsDone' /\ CancelsApplied'
    BY <1>2 DEF GetExistingOrders, LoopItems, LoopDone, LogsDone, CancelsApplied
  <2> QED
    BY <2>1, <2>2, <2>3 DEF StagesInv
<1>3. CASE GetMissingOrderIds
  <2>1. RestoreTypeOK'
    <3>1. fetched = {} /\ skipped = {}
      BY <1>0, <1>3 DEF GetMissingOrderIds, Believed, RestoreTypeOK
    <3> QED
      BY <1>0, <1>3, <3>1
      DEF GetMissingOrderIds, RestoreTypeOK, Stages, Over, RetriedStages, MissingIds
  <2>2. Believed'
    BY <1>0, <1>3 DEF GetMissingOrderIds, Believed, MissingIds
  <2>3. LoopItems' /\ LoopDone' /\ LogsDone' /\ CancelsApplied'
    BY <1>3 DEF GetMissingOrderIds, LoopItems, LoopDone, LogsDone, CancelsApplied
  <2> QED
    BY <2>1, <2>2, <2>3 DEF StagesInv
<1>4. CASE \E o \in Orders : FetchOrderInfo(o)
  <2> PICK o \in Orders : FetchOrderInfo(o)
    BY <1>4
  <2>1. /\ snap' \in [Orders -> Fills]
        /\ \A p \in Orders : snap'[p] <= filled'[p]
    <3>1. snap' = [snap EXCEPT ![o] = filled[o]]
      BY DEF FetchOrderInfo
    <3>2. \A p \in Orders : snap'[p] = snap[p] \/ snap'[p] = filled[p]
      BY <1>0, <3>1
    <3> QED
      BY <1>0, <3>1, <3>2 DEF Believed
  <2>2. stage = "orderInfo" /\ stage' \in {"orderInfo", "decimals"}
    BY DEF FetchOrderInfo
  <2>3. RestoreTypeOK'
    BY <1>0, <2>1, <2>2 DEF FetchOrderInfo, RestoreTypeOK, Stages, RetriedStages
  <2>4. Believed'
    BY <1>0, <2>1, <2>2 DEF FetchOrderInfo, Believed
  <2>5. LoopItems' /\ LoopDone' /\ LogsDone' /\ CancelsApplied'
    BY <2>2 DEF LoopItems, LoopDone, LogsDone, CancelsApplied
  <2> QED
    BY <2>3, <2>4, <2>5 DEF StagesInv
<1>5. CASE FetchTokenDecimals
  <2>1. RestoreTypeOK'
    BY <1>0, <1>5 DEF FetchTokenDecimals, RestoreTypeOK, Stages, Loops
  <2>2. Believed'
    BY <1>0, <1>5 DEF FetchTokenDecimals, Believed
  <2>3. LoopItems' /\ LoopDone' /\ LogsDone' /\ CancelsApplied'
    BY <1>5 DEF FetchTokenDecimals, LoopItems, LoopDone, LogsDone, CancelsApplied
  <2> QED
    BY <2>1, <2>2, <2>3 DEF StagesInv
<1>6. CASE StageFails
  <2>1. snap' \in [Orders -> Fills] /\ \A p \in Orders : snap'[p] <= filled'[p]
    BY <1>0, <1>6 DEF StageFails, Believed
  <2>2. tries' \in 0..(StageRetries - 1)
    BY <1>0, <1>6 DEF StageFails, RestoreTypeOK
  <2>3. RestoreTypeOK'
    BY <1>0, <1>6, <2>1, <2>2 DEF StageFails, RestoreTypeOK
  <2>4. Believed'
    BY <1>0, <1>6, <2>1 DEF StageFails, Believed
  <2>5. LoopItems' /\ LoopDone' /\ LogsDone' /\ CancelsApplied'
    BY <1>6 DEF StageFails, RetriedStages, LoopItems, LoopDone, LogsDone, CancelsApplied
  <2> QED
    BY <2>3, <2>4, <2>5 DEF StagesInv
<1> QED
  BY <1>1, <1>2, <1>3, <1>4, <1>5, <1>6

-----------------------------------------------------------------------------
(* The loops                                                               *)

\* What no step of a loop touches stays true.
LEMMA BelievedInLoops ==
    ASSUME RestoreInv, [RestoreNext]_fullVars,
           stage \in Loops \union {"logs"},
           stage' \in Loops \union {"logs", "finished"},
           UNCHANGED <<known, existing, missing, snap>>
    PROVE  Believed'
<1>1. \A o \in Orders : snap[o] \in Nat /\ filled[o] \in Nat /\ filled'[o] \in Nat
  BY SetsOfRestore, TablesKept, ContractAssumption
  DEF StagesInv, RestoreTypeOK, LiveInv, TypeOK, ContractTypeOK, Fills
<1>2. \A o \in Orders : snap'[o] <= filled'[o]
  BY <1>1, SetsOfRestore, TablesKept DEF StagesInv, Believed
<1> QED
  BY <1>2, SetsOfRestore, TablesKept DEF StagesInv, Believed, Loops

\* The loop over the owners decides who is ready, nothing else.
LEMMA UserLoopKeeps ==
    ASSUME RestoreInv, [RestoreNext]_fullVars,
           stage \in {"users", "createUser"},
           UNCHANGED <<tries, known, existing, missing, fetched, snap, skipped, logs>>,
           ready \subseteq ready', ready' \subseteq users',
           \/ \E u \in Users : UserProcessed(u)
           \/ /\ stage' = "createUser" /\ current' \in Users
              /\ UNCHANGED <<todoUsers, todoOrders>>
    PROVE  StagesInv'
<1> USE SetsOfRestore, TablesKept
<1>1. /\ stage' \in {"users", "createUser", "orders"}
      /\ stage' = "orders" => todoOrders' = missing
      /\ stage' = "createUser" => current' \in Users
      /\ todoOrders' \in {todoOrders, missing}
      /\ todoUsers' \subseteq todoUsers
      /\ current' \in Users \union Orders \union {NoOne}
  BY DEF UserProcessed
<1>2. RestoreTypeOK'
  BY <1>1 DEF StagesInv, RestoreTypeOK, Stages, Loops
<1>3. Believed'
  BY <1>1, BelievedInLoops DEF Loops
<1>4. LoopItems' /\ LoopDone' /\ LogsDone' /\ CancelsApplied'
  BY <1>1 DEF LoopItems, LoopDone, LogsDone, CancelsApplied
<1> QED
  BY <1>2, <1>3, <1>4 DEF StagesInv

\* The loop over the orders leaves a row or a report of each order it is done
\* with.
LEMMA OrderLoopKeeps ==
    ASSUME RestoreInv, [RestoreNext]_fullVars, NEW o \in todoOrders,
           stage \in {"orders", "insertOrder"},
           UNCHANGED <<tries, known, existing, missing, fetched, snap, ready,
                       todoUsers, logs>>,
           \/ UNCHANGED skipped
           \/ skipped' = skipped \union {o},
           \/ OrderProcessed(o) /\ (o \in Present' \/ o \in skipped')
           \/ stage' = "insertOrder" /\ current' = o /\ UNCHANGED todoOrders
    PROVE  StagesInv'
<1> USE SetsOfRestore, TablesKept
<1>1. /\ stage' \in {"orders", "insertOrder", "logs"}
      /\ stage' = "insertOrder" => current' \in todoOrders'
      /\ stage' = "logs" => todoOrders' = {}
      /\ todoOrders' \subseteq todoOrders
      /\ todoOrders \ todoOrders' \subseteq Present' \union skipped'
      /\ current' \in Users \union Orders \union {NoOne}
  BY DEF OrderProcessed
<1>2. /\ todoOrders \subseteq missing
      /\ missing \ todoOrders \subseteq Present \union skipped
  BY DEF StagesInv, LoopItems, LoopDone
<1>3. RestoreTypeOK'
  <2>1. skipped' \subseteq missing
    BY <1>2 DEF StagesInv, RestoreTypeOK
  <2> QED
    BY <1>1, <2>1 DEF StagesInv, RestoreTypeOK, Stages, Loops
<1>4. Believed'
  BY <1>1, BelievedInLoops DEF Loops
<1>5. LoopItems'
  BY <1>1, <1>2 DEF LoopItems
<1>6. LoopDone'
  BY <1>1, <1>2 DEF LoopDone
<1>7. LogsDone' /\ CancelsApplied'
  BY <1>1 DEF LogsDone, CancelsApplied
<1> QED
  BY <1>3, <1>4, <1>5, <1>6, <1>7 DEF StagesInv

\* The logs that are queried are of orders whose rows the loop has left, and a
\* failure to query them ends the restore.
LEMMA LogsKeep ==
    ASSUME RestoreInv, [RestoreNext]_fullVars, QueryCancelled \/ LogsFail
    PROVE  StagesInv'
<1> USE SetsOfRestore, TablesKept
<1>1. /\ stage = "logs" /\ stage' \in {"cancels", "finished"}
      /\ UNCHANGED <<tries, known, existing, missing, fetched, snap, ready, todoUsers,
                     current, skipped>>
      /\ todoOrders' \subseteq Orders
      /\ stage' = "cancels" => todoOrders' = logs'
      /\ logs' \subseteq cancelled'
      /\ stage' = "finished" => logs' = {} \/ faults' # 0
  <2>1. CASE QueryCancelled
    BY <2>1 DEF QueryCancelled
  <2>2. CASE LogsFail
    <3>1. faults \in Nat
      BY IndexAssumption DEF RestoreInv, LiveInv, TypeOK
    <3> QED
      BY <2>2, <3>1 DEF LogsFail, Fault, StagesInv, RestoreTypeOK
  <2> QED
    BY <2>1, <2>2
<1>2. RestoreTypeOK'
  BY <1>1 DEF StagesInv, RestoreTypeOK, Stages, Loops, Over
<1>3. Believed'
  BY <1>1, BelievedInLoops DEF Loops
<1>4. LoopItems'
  BY <1>1 DEF LoopItems
<1>5. LoopDone'
  BY <1>1 DEF StagesInv, LoopDone
<1>6. LogsDone' /\ CancelsApplied'
  BY <1>1 DEF LogsDone, CancelsApplied
<1> QED
  BY <1>2, <1>3, <1>4, <1>5, <1>6 DEF StagesInv

\* The loop over the logs finds the rows of the orders that the loop over the
\* orders is done with.
LEMMA LogLoopKeeps ==
    ASSUME RestoreInv, [RestoreNext]_fullVars, stage = "cancels", NEW o \in todoOrders,
           LogProcessed(o),
           o \in Present /\ faults' = 0 => CancelShown(o)',
           UNCHANGED <<tries, known, existing, missing, fetched, snap, ready,
                       todoUsers, current, skipped, logs>>
    PROVE  StagesInv'
<1> USE SetsOfRestore, TablesKept
<1>1. /\ stage' \in {"cancels", "finished"}
      /\ todoOrders' = todoOrders \ {o}
      /\ stage' = "finished" => todoOrders' = {}
  BY DEF LogProcessed
<1>2. RestoreTypeOK'
  BY <1>1 DEF StagesInv, RestoreTypeOK, Stages, Loops, Over
<1>3. Believed'
  BY <1>1, BelievedInLoops DEF Loops
<1>4. LoopItems'
  BY <1>1 DEF StagesInv, LoopItems
<1>5. LoopDone'
  BY <1>1 DEF StagesInv, LoopDone
<1>6. ASSUME faults' = 0, NEW p \in (known \intersect logs) \ (skipped \union todoOrders')
      PROVE  CancelShown(p)'
  <2>1. CASE p = o
    <3>1. o \in Present
      BY <1>6, <2>1 DEF StagesInv, Believed, LoopDone, Loops
    <3> QED
      BY <1>6, <2>1, <3>1
  <2>2. CASE p # o
    <3>1. CancelShown(p)
      BY <1>1, <1>6, <2>2 DEF StagesInv, LogsDone
    <3> QED
      BY <3>1, ShownStays
  <2> QED
    BY <2>1, <2>2
<1>7. LogsDone' /\ CancelsApplied'
  BY <1>1, <1>6 DEF LogsDone, CancelsApplied
<1> QED
  BY <1>2, <1>3, <1>4, <1>5, <1>7 DEF StagesInv

\* Each step of the restore is a step of one of the loops or stages above.
LEMMA StagesKept ==
    ASSUME RestoreInv, [RestoreNext]_fullVars
    PROVE  StagesInv'
<1> USE DEF vars, indexVars, tableVars
<1>0. /\ users \subseteq users' /\ users' \subseteq Users
      /\ ready \subseteq users
      /\ orders \in [Orders -> Row \union {Absent}]
      /\ todoOrders \subseteq Orders
  BY TablesKept, SetsOfRestore DEF StagesInv, RestoreTypeOK, RestoreInv, LiveInv, TypeOK
<1>1. CASE UNCHANGED restoreVars
  BY <1>1, StandingStillKeeps
<1>2. CASE Booted
  BY <1>2, BootKeeps
<1>3. CASE \/ GetOrderIdLength \/ GetExistingOrders \/ GetMissingOrderIds
           \/ \E o \in Orders : FetchOrderInfo(o)
           \/ FetchTokenDecimals \/ StageFails
  BY <1>3, FetchingKeeps
<1>4. CASE \E u \in Users : RestoreGetUser(u)
  <2>1. PICK u \in Users : RestoreGetUser(u)
    BY <1>4
  <2> QED
    BY <1>0, <2>1, UserLoopKeeps DEF RestoreGetUser
<1>5. CASE RestoreCreateUser
  <2>1. current \in Users
    BY <1>5 DEF RestoreCreateUser, RestoreInv, StagesInv, LoopItems
  <2> QED
    BY <1>0, <1>5, <2>1, UserLoopKeeps DEF RestoreCreateUser
<1>6. CASE \E o \in Orders : RestoreGetOrder(o)
  <2>1. PICK o \in todoOrders : RestoreGetOrder(o)
    BY <1>0, <1>6 DEF RestoreGetOrder
  <2>2. orders[o] # Absent => o \in Present'
    BY <1>0, <2>1 DEF RestoreGetOrder, Present
  <2> QED
    BY <2>1, <2>2, OrderLoopKeeps DEF RestoreGetOrder
<1>7. CASE InsertOrder
  <2>1. current \in todoOrders /\ current \in Orders /\ RestoredRow(current) \in Row
    BY <1>7, RestoredRowBacked DEF InsertOrder
  <2>2. current \in Present'
    BY <1>0, <1>7, <2>1, RowsAreRows DEF InsertOrder, Present
  <2> QED
    BY <1>7, <2>1, <2>2, OrderLoopKeeps DEF InsertOrder
<1>8. CASE QueryCancelled \/ LogsFail
  BY <1>8, LogsKeep
<1>9. CASE \E o \in Orders : CancelFromLog(o)
  <2>1. PICK o \in todoOrders : CancelFromLog(o)
    BY <1>0, <1>9 DEF CancelFromLog
  <2>2. o \in Present => CancelShown(o)'
    <3> SUFFICES ASSUME orders[o] # Absent PROVE orders'[o].status = "CANCELLED"
      BY <1>0 DEF Present, CancelShown
    <3>1. [orders[o] EXCEPT !.status = "CANCELLED"].status = "CANCELLED"
      BY <2>1, CancelledRowBacked DEF CancelFromLog
    <3>2. orders' = [orders EXCEPT ![o] = [orders[o] EXCEPT !.status = "CANCELLED"]]
      BY <2>1 DEF CancelFromLog
    <3> QED
      BY <1>0, <3>1, <3>2
  <2> QED
    BY <2>1, <2>2, LogLoopKeeps DEF CancelFromLog
<1>10. CASE ItemFails
  <2>1. faults' # 0
    <3>1. faults \in Nat
      BY IndexAssumption DEF RestoreInv, LiveInv, TypeOK
    <3> QED
      BY <1>10, <3>1 DEF ItemFails, Fault
  <2>2. CASE /\ \/ stage = "users" /\ \E u \in todoUsers : UserProcessed(u)
                \/ stage = "createUser" /\ UserProcessed(current)
             /\ UNCHANGED skipped
    <3>1. \E u \in Users : UserProcessed(u)
      BY <2>2, SetsOfRestore
      DEF StagesInv, RestoreTypeOK, LoopItems
    <3> QED
      BY <1>0, <1>10, <2>2, <3>1, UserLoopKeeps DEF ItemFails
  <2>3. ASSUME NEW o \in todoOrders,
               \/ stage = "orders" /\ o \notin ZeroId /\ Owner[o] \in ready
               \/ stage = "insertOrder" /\ o = current,
               skipped' = skipped \union {o},
               OrderProcessed(o),
               UNCHANGED todoUsers
        PROVE  StagesInv'
    BY <1>10, <2>3, OrderLoopKeeps DEF ItemFails
  <2>4. ASSUME NEW o \in todoOrders, stage = "cancels", LogProcessed(o),
               UNCHANGED <<todoUsers, current, skipped>>
        PROVE  StagesInv'
    BY <1>10, <2>1, <2>4, LogLoopKeeps DEF ItemFails
  <2> QED
    BY <1>10, <2>2, <2>3, <2>4 DEF ItemFails
<1> QED
  BY <1>1, <1>2, <1>3, <1>4, <1>5, <1>6, <1>7, <1>8, <1>9, <1>10
  DEF RestoreNext, RestoreStep, BootFails, fullVars

\* A loop or stage that has nothing left is left.
LEMMA WorkKept ==
    ASSUME RestoreInv, [RestoreNext]_fullVars
    PROVE  WorkLeft'
<1>0. /\ WorkLeft
      /\ \A o \in missing : o \in Orders /\ Owner[o] \in Users
  BY SetsOfRestore DEF RestoreInv
<1>1. CASE UNCHANGED restoreVars
  BY <1>0, <1>1 DEF WorkLeft, restoreVars
<1>2. CASE \/ Booted \/ GetOrderIdLength \/ GetExistingOrders \/ GetMissingOrderIds
           \/ (\E o \in Orders : FetchOrderInfo(o)) \/ FetchTokenDecimals \/ StageFails
  <2>1. CASE Booted \/ GetOrderIdLength \/ GetExistingOrders
    BY <2>1 DEF WorkLeft, Booted, GetOrderIdLength, GetExistingOrders
  <2>2. CASE GetMissingOrderIds
    <3>1. fetched = {}
      BY <2>2 DEF GetMissingOrderIds, RestoreInv, StagesInv, RestoreTypeOK, Believed
    <3> QED
      BY <2>2, <3>1 DEF WorkLeft, GetMissingOrderIds
  <2>3. CASE \E o \in Orders : FetchOrderInfo(o)
    BY <1>0, <2>3 DEF WorkLeft, FetchOrderInfo
  <2>4. CASE FetchTokenDecimals
    BY <1>0, <2>4 DEF WorkLeft, FetchTokenDecimals
  <2>5. CASE StageFails
    BY <1>0, <2>5 DEF WorkLeft, StageFails, RetriedStages
  <2> QED
    BY <1>2, <2>1, <2>2, <2>3, <2>4, <2>5
<1>3. ASSUME stage \in {"users", "createUser"}, NEW u, UserProcessed(u), UNCHANGED missing
      PROVE  WorkLeft'
    BY <1>0, <1>3 DEF WorkLeft, UserProcessed
<1>4. ASSUME NEW o, OrderProcessed(o)
      PROVE  WorkLeft'
    BY <1>4 DEF WorkLeft, OrderProcessed
<1>5. ASSUME NEW o, LogProcessed(o)
      PROVE  WorkLeft'
    BY <1>5 DEF WorkLeft, LogProcessed
<1>6. CASE \E u \in Users : RestoreGetUser(u)
  BY <1>0, <1>3, <1>6 DEF WorkLeft, RestoreGetUser
<1>7. CASE RestoreCreateUser
  BY <1>3, <1>7 DEF RestoreCreateUser
<1>8. CASE (\E o \in Orders : RestoreGetOrder(o)) \/ InsertOrder
  BY <1>0, <1>4, <1>8 DEF WorkLeft, RestoreGetOrder, InsertOrder
<1>9. CASE QueryCancelled \/ LogsFail \/ (\E o \in Orders : CancelFromLog(o))
  BY <1>5, <1>9 DEF WorkLeft, QueryCancelled, LogsFail, CancelFromLog
<1>10. CASE ItemFails
  BY <1>3, <1>4, <1>5, <1>10 DEF ItemFails
<1> QED
  BY <1>1, <1>2, <1>6, <1>7, <1>8, <1>9, <1>10
  DEF RestoreNext, RestoreStep, BootFails, fullVars

-----------------------------------------------------------------------------
(* What the restore fetched is never behind                                *)

\* At the first boot nothing runs and nothing is known.
LEMMA CatchUpStarts == RestoreInit => CatchUpInv
<1> SUFFICES ASSUME RestoreInit PROVE CatchUpInv
  OBVIOUS
<1>1. LatestHandled
  BY EventsOfOrder, IndexAssumption
  DEF LatestHandled, RestoreInit, Init, ContractInit, Running
<1>2. FetchedAll /\ NoneBehind
  BY DEF FetchedAll, NoneBehind, RestoreInit, Loops
<1> QED
  BY <1>1, <1>2, RestoreInitEstablishes DEF CatchUpInv

\* A handler that runs was running, or the contract has just emitted its event.
LEMMA HandlersGoOn ==
    ASSUME LiveInv, NEW e \in Events, HandlerStep(e) \/ CallRejects(e)
    PROVE  /\ pc[e] \in Running
           /\ \A x \in Events \ {e} : pc'[x] = pc[x]
           /\ UNCHANGED <<chainVars, listening>>
           /\ faults' = 0 => HandlerStep(e)
<1>0. /\ pc \in [Events -> Running \union Ended \union {"idle"}]
      /\ faults \in Nat
  BY IndexAssumption DEF LiveInv, TypeOK
<1> USE <1>0 DEF Goto, Running
<1>1. CASE CallRejects(e)
  BY <1>1 DEF CallRejects
<1>2. CASE GetOrderInfo(e) \/ GetTokenDecimals(e) \/ GetUser(e) \/ CreateUser(e) \/ CancelOrder(e)
  BY <1>2 DEF GetOrderInfo, GetTokenDecimals, GetUser, CreateUser, CancelOrder, HandlerStep
<1>3. CASE GetOrder(e) \/ CreateOrder(e) \/ UpdateOrder(e)
  BY <1>3 DEF GetOrder, CreateOrder, UpdateOrder, CreateReturns, NextAttempt, HandlerStep
<1>4. CASE WriteUpdate(e) \/ WriteCancel(e)
  BY <1>4 DEF WriteUpdate, WriteCancel, HandlerStep
<1> QED
  BY <1>1, <1>2, <1>3, <1>4 DEF HandlerStep

\* What the contract's step is, and whose handler it starts.
LEMMA ContractStepIs ==
    ASSUME LiveInv, ContractStep
    PROVE  \E o \in Orders, e \in Events :
             /\ e.id = o
             /\ Emit(e)
             /\ pc[e] = "idle"
             /\ \/ e = OrderCreated(o) /\ o \notin made /\ UNCHANGED filled
                \/ /\ e = OrderMatched(o, filled'[o]) /\ filled'[o] \in Fills \ {0}
                   /\ o \in made /\ \A p \in Orders \ {o} : filled'[p] = filled[p]
                \/ e = OrderCancelled(o) /\ UNCHANGED filled
<1>0. filled \in [Orders -> Fills] /\ \A o \in Orders : filled[o] \in Nat
  BY ContractAssumption DEF LiveInv, TypeOK, ContractTypeOK, Fills
<1>1. PICK o \in Orders : \/ EmitCreated(o)
                          \/ \E f \in Fills : EmitMatched(o, f)
                          \/ EmitCancelled(o)
  BY DEF ContractStep
<1>2. CASE EmitCreated(o)
  <2>1. OrderCreated(o).id = o /\ pc[OrderCreated(o)] = "idle"
    BY <1>2, EventsOfOrder DEF EmitCreated, ContractCreates, OrderCreated, LiveInv, HasHappened
  <2> QED
    BY <1>2, <2>1, EventsOfOrder DEF EmitCreated, ContractCreates
<1>3. ASSUME NEW f \in Fills, EmitMatched(o, f)
      PROVE  /\ filled' = [filled EXCEPT ![o] = f] /\ f \in Fills \ {0}
             /\ o \in made /\ Emit(OrderMatched(o, f))
             /\ pc[OrderMatched(o, f)] = "idle"
  <2>1. /\ filled' = [filled EXCEPT ![o] = f] /\ o \in made
        /\ f > filled[o] /\ Emit(OrderMatched(o, f))
    BY <1>3 DEF EmitMatched, ContractMatches
  <2>2. f \in Nat /\ f # 0
    BY <1>0, <1>3, <2>1, ContractAssumption DEF Fills
  <2>3. ~(f <= filled[o])
    BY <1>0, <2>1, <2>2
  <2>4. OrderMatched(o, f) \in Events
    BY <1>3, <2>2, EventsOfOrder
  <2>5. pc[OrderMatched(o, f)] = "idle"
    BY <2>3, <2>4 DEF OrderMatched, LiveInv, HasHappened
  <2> QED
    BY <1>3, <2>1, <2>2, <2>5
<1>4. CASE \E f \in Fills : EmitMatched(o, f)
  <2>1. PICK f \in Fills : EmitMatched(o, f)
    BY <1>4
  <2>2. /\ filled' = [filled EXCEPT ![o] = f] /\ f \in Fills \ {0}
        /\ o \in made /\ Emit(OrderMatched(o, f))
        /\ pc[OrderMatched(o, f)] = "idle"
    BY <1>3, <2>1
  <2>3. filled'[o] = f /\ \A p \in Orders \ {o} : filled'[p] = filled[p]
    BY <1>0, <2>2
  <2>4. OrderMatched(o, f) \in Events /\ OrderMatched(o, f).id = o
    BY <2>2, EventsOfOrder DEF OrderMatched
  <2> QED
    BY <2>2, <2>3, <2>4
<1>5. CASE EmitCancelled(o)
  <2>1. OrderCancelled(o).id = o /\ pc[OrderCancelled(o)] = "idle"
    BY <1>5, EventsOfOrder
    DEF EmitCancelled, ContractCancels, OrderCancelled, LiveInv, HasHappened
  <2> QED
    BY <1>5, <2>1, EventsOfOrder DEF EmitCancelled, ContractCancels
<1> QED
  BY <1>1, <1>2, <1>4, <1>5

\* The contract leaves a paced order alone while one of its handlers runs.
LEMMA LatestKept ==
    ASSUME LiveInv, LatestHandled, Next
    PROVE  LatestHandled'
<1>0. /\ pc \in [Events -> Running \union Ended \union {"idle"}]
      /\ \A o \in Paced : o \in Orders
      /\ \A o \in Orders : filled[o] \in Nat /\ (filled[o] > 0 => o \in made)
  BY ContractAssumption, IndexAssumption DEF LiveInv, TypeOK, ContractTypeOK, Fills
<1>1. CASE \E e \in Events : HandlerStep(e) \/ CallRejects(e)
  <2>1. PICK e \in Events : HandlerStep(e) \/ CallRejects(e)
    BY <1>1
  <2>2. /\ pc[e] \in Running
        /\ \A x \in Events \ {e} : pc'[x] = pc[x]
        /\ UNCHANGED <<chainVars, listening>>
    BY <2>1, HandlersGoOn
  <2>3. \A x \in Events : pc'[x] \in Running => pc[x] \in Running
    BY <2>2
  <2> QED
    BY <1>0, <2>2, <2>3, EventsOfOrder DEF LatestHandled, chainVars
<1>2. CASE ContractStep
  <2>1. PICK o \in Orders, e \in Events :
               /\ e.id = o
               /\ Emit(e)
               /\ pc[e] = "idle"
               /\ \/ e = OrderCreated(o) /\ o \notin made /\ UNCHANGED filled
                  \/ /\ e = OrderMatched(o, filled'[o]) /\ filled'[o] \in Fills \ {0}
                     /\ o \in made /\ \A p \in Orders \ {o} : filled'[p] = filled[p]
                  \/ e = OrderCancelled(o) /\ UNCHANGED filled
    BY <1>2, ContractStepIs
  <2>2. /\ o \in Paced => \A x \in Events : x.id = o => pc[x] \notin Running
        /\ pc'[e] \in Running => listening
        /\ \A x \in Events \ {e} : pc'[x] = pc[x]
        /\ listening' = listening
    BY <1>0, <2>1 DEF Emit, Goto, Busy, Running
  <2>3. \A x \in Events : pc'[x] \in Running => listening'
    BY <2>2 DEF LatestHandled
  <2>4. ASSUME NEW p \in Paced, pc'[OrderCreated(p)] \in Running
        PROVE  filled'[p] = 0
    <3>1. OrderCreated(p) \in Events /\ OrderCreated(p).id = p
      BY <1>0, EventsOfOrder DEF OrderCreated
    <3>2. CASE OrderCreated(p) # e
      <4>1. pc[OrderCreated(p)] \in Running /\ p # o
        BY <2>2, <2>4, <3>1, <3>2
      <4> QED
        BY <1>0, <2>1, <4>1 DEF LatestHandled
    <3>3. CASE OrderCreated(p) = e
      <4>1. p = o /\ e.kind = "OrderCreated"
        BY <2>1, <3>1, <3>3 DEF OrderCreated
      <4>2. p \notin made /\ UNCHANGED filled
        BY <2>1, <4>1 DEF OrderMatched, OrderCancelled
      <4> QED
        BY <1>0, <4>2
    <3> QED
      BY <3>2, <3>3
  <2>5. ASSUME NEW p \in Paced, NEW f \in Fills \ {0}, pc'[OrderMatched(p, f)] \in Running
        PROVE  f = filled'[p]
    <3>1. OrderMatched(p, f) \in Events /\ OrderMatched(p, f).id = p
      BY <1>0, EventsOfOrder DEF OrderMatched
    <3>2. CASE OrderMatched(p, f) # e
      <4>1. pc[OrderMatched(p, f)] \in Running /\ p # o
        BY <2>2, <2>5, <3>1, <3>2
      <4> QED
        BY <1>0, <2>1, <4>1 DEF LatestHandled
    <3>3. CASE OrderMatched(p, f) = e
      BY <2>1, <3>1, <3>3 DEF OrderMatched, OrderCreated, OrderCancelled
    <3> QED
      BY <3>2, <3>3
  <2> QED
    BY <2>3, <2>4, <2>5 DEF LatestHandled
<1>3. CASE Crash
  <2>1. \A x \in Events : pc'[x] \notin Running
    BY <1>0, <1>3 DEF Crash, ProcessDies, Running
  <2> QED
    BY <1>0, <2>1, EventsOfOrder DEF LatestHandled
<1>4. CASE Listen
  BY <1>4 DEF Listen, LatestHandled, chainVars
<1> QED
  BY <1>1, <1>2, <1>3, <1>4 DEF Next

\* What a handler's step does to the row of its order, when nothing rejects.
LEMMA RowOfStep ==
    ASSUME LiveInv, NEW e \in Events, HandlerStep(e)
    PROVE  /\ \A p \in Orders \ {e.id} : orders'[p] = orders[p]
           /\ \/ UNCHANGED orders
              \/ /\ pc[e] = "createOrder" /\ orders[e.id] = Absent
                 /\ orders'[e.id].fill = 0
                 /\ e.kind = "OrderMatched" => NextAttempt(e)
              \/ /\ orders[e.id] # Absent /\ e.kind = "OrderMatched"
                 /\ orders'[e.id].fill = e.fill
              \/ /\ orders[e.id] # Absent
                 /\ orders'[e.id].fill = orders[e.id].fill
<1>0. /\ orders \in [Orders -> Row \union {Absent}]
      /\ e.id \in Orders
  BY EventParts DEF LiveInv, TypeOK
<1>1. CASE CreateOrder(e)
  BY <1>0, <1>1 DEF CreateOrder, CreateReturns, NewRow
<1>2. CASE WriteUpdate(e)
  BY <1>0, <1>2 DEF WriteUpdate, MatchedRow, LiveInv, HandlerKind
<1>3. CASE WriteCancel(e)
  BY <1>0, <1>3 DEF WriteCancel, Row
<1>4. CASE UNCHANGED orders
  BY <1>4
<1> QED
  BY <1>1, <1>2, <1>3, <1>4
  DEF HandlerStep, GetOrderInfo, GetTokenDecimals, GetUser, CreateUser, GetOrder,
      UpdateOrder, CancelOrder, tableVars

\* A handler that is going to write its fill to a row that is there does so.
LEMMA WritesInTheEnd ==
    ASSUME LiveInv, NEW e \in Events, HandlerStep(e), orders[e.id] # Absent,
           e.kind = "OrderMatched",
           pc[e] \in {"getOrderInfo", "getTokenDecimals", "updateOrder", "writeUpdate"}
    PROVE  \/ pc'[e] \in {"getOrderInfo", "getTokenDecimals", "updateOrder", "writeUpdate"}
           \/ orders'[e.id].fill = e.fill
<1>0. /\ orders \in [Orders -> Row \union {Absent}]
      /\ pc \in [Events -> Running \union Ended \union {"idle"}]
      /\ e.id \in Orders
  BY EventParts DEF LiveInv, TypeOK
<1>1. CASE GetOrderInfo(e) \/ GetTokenDecimals(e) \/ UpdateOrder(e)
  BY <1>0, <1>1 DEF GetOrderInfo, GetTokenDecimals, UpdateOrder, Goto
<1>2. CASE WriteUpdate(e)
  BY <1>0, <1>2 DEF WriteUpdate, MatchedRow
<1> QED
  BY <1>1, <1>2
  DEF HandlerStep, GetUser, CreateUser, GetOrder, CreateOrder, CancelOrder, WriteCancel

\* While the restore stands still, the handlers leave nothing behind.
LEMMA LiveCatchesUp ==
    ASSUME CatchUpInv, LiveStep, UNCHANGED restoreVars
    PROVE  NoneBehind'
<1> SUFFICES ASSUME stage # "existing", faults' = 0, RetryLimit > 1,
                    NEW o \in ((known \ existing) \intersect Paced \intersect Present') \ cancelled'
             PROVE  CaughtUp(o)'
  BY DEF NoneBehind, restoreVars
<1>0. /\ LiveInv /\ LatestHandled
      /\ pc \in [Events -> Running \union Ended \union {"idle"}]
      /\ orders \in [Orders -> Row \union {Absent}]
      /\ o \in Orders /\ o \in known /\ o \in made
      /\ \A p \in Orders : filled[p] \in Nat /\ snap[p] \in Nat /\ snap[p] <= filled[p]
      /\ UNCHANGED <<fetched, snap, known, existing, stage>>
      /\ orders'[o] # Absent
  BY ContractAssumption
  DEF CatchUpInv, RestoreInv, StagesInv, RestoreTypeOK, Believed, LiveInv, TypeOK, ContractTypeOK,
      Fills, Present, restoreVars
<1>1. /\ faults = 0 /\ cancelled \subseteq cancelled'
  <2>1. [Next]_vars
    BY DEF LiveStep, Next
  <2> QED
    BY <1>0, <2>1, NothingIsLost
<1>2. orders[o] # Absent => CaughtUp(o)
  BY <1>0, <1>1 DEF CatchUpInv, NoneBehind, Present
<1> DEFINE m == OrderMatched(o, filled[o])
<1>3. filled[o] > 0 => m \in Events /\ m.id = o /\ m.kind = "OrderMatched" /\ m.fill = filled[o]
  <2>1. filled[o] > 0 => filled[o] \in Fills \ {0}
    BY <1>0 DEF LiveInv, TypeOK, ContractTypeOK
  <2> QED
    BY <1>0, <2>1, EventsOfOrder DEF OrderMatched
<1>4. ASSUME NEW e \in Events, HandlerStep(e)
      PROVE  CaughtUp(o)'
  <2>0. /\ pc[e] \in Running /\ listening
        /\ \A x \in Events \ {e} : pc'[x] = pc[x]
        /\ UNCHANGED <<chainVars, listening>>
    BY <1>0, <1>4, HandlersGoOn DEF LatestHandled
  <2>1. e.id = o /\ e.kind = "OrderMatched" => e.fill = filled[o]
    BY <1>0, <2>0, MatchEvent DEF LatestHandled
  <2>2. /\ \A p \in Orders \ {e.id} : orders'[p] = orders[p]
        /\ \/ UNCHANGED orders
           \/ /\ pc[e] = "createOrder" /\ orders[e.id] = Absent
              /\ orders'[e.id].fill = 0
              /\ e.kind = "OrderMatched" => NextAttempt(e)
           \/ /\ orders[e.id] # Absent /\ e.kind = "OrderMatched"
              /\ orders'[e.id].fill = e.fill
           \/ /\ orders[e.id] # Absent
              /\ orders'[e.id].fill = orders[e.id].fill
    BY <1>0, <1>4, RowOfStep
  <2>3. CASE orders[o] = Absent
    <3>1. /\ e.id = o /\ pc[e] = "createOrder" /\ orders'[o].fill = 0
          /\ e.kind = "OrderMatched" => NextAttempt(e)
      BY <1>0, <2>2, <2>3
    <3>2. CASE e.kind = "OrderCreated"
      <4>0. e \in Event /\ e.fill = 0
        BY <3>2, EventParts, ContractAssumption DEF Events, Fills
      <4>1. e = OrderCreated(o)
        BY <3>1, <3>2, <4>0 DEF OrderCreated, Event
      <4>2. filled[o] = 0
        BY <1>0, <2>0, <4>1 DEF LatestHandled
      <4> QED
        BY <2>0, <3>1, <4>2 DEF CaughtUp, chainVars
    <3>3. CASE e.kind = "OrderMatched"
      <4>1. e = m /\ filled[o] > 0
        BY <1>0, <2>1, <3>1, <3>3, MatchEvent, EventParts
      <4>2. attempt[e] = 0 /\ RetryLimit \in Nat
        BY <3>1, IndexAssumption DEF CatchUpInv, RestoreInv, LiveInv, TypeOK, CreatesOnce, Ended
      <4>3. pc'[e] = "updateOrder"
        BY <1>0, <3>1, <3>3, <4>2 DEF NextAttempt, Goto
      <4> QED
        BY <2>0, <4>1, <4>3 DEF CaughtUp, WillWrite, chainVars
    <3>4. e.kind # "OrderCancelled"
      BY <1>0, <1>1, <2>0, <3>1 DEF LiveInv, HasHappened, Running
    <3> QED
      BY <3>2, <3>3, <3>4, EventParts
  <2>4. CASE orders[o] # Absent /\ o \in fetched /\ orders[o].fill >= snap[o]
    <3>1. orders'[o].fill = orders[o].fill \/ orders'[o].fill = filled[o]
      BY <1>0, <2>1, <2>2, <2>4
    <3> QED
      BY <1>0, <2>4, <3>1 DEF CaughtUp
  <2>5. CASE orders[o] # Absent /\ orders[o].fill = filled[o]
    <3>1. orders'[o].fill = filled[o]
      BY <1>0, <2>1, <2>2, <2>5
    <3> QED
      BY <2>0, <3>1 DEF CaughtUp, chainVars
  <2>6. CASE orders[o] # Absent /\ WillWrite(o)
    <3>1. CASE e = m
      <4>1. \/ pc'[m] \in {"getOrderInfo", "getTokenDecimals", "updateOrder", "writeUpdate"}
            \/ orders'[o].fill = filled[o]
        BY <1>0, <1>3, <1>4, <2>6, <3>1, WritesInTheEnd DEF WillWrite
      <4> QED
        BY <2>0, <2>6, <4>1 DEF CaughtUp, WillWrite, chainVars
    <3>2. CASE e # m
      BY <1>3, <2>0, <2>6, <3>2 DEF CaughtUp, WillWrite, chainVars
    <3> QED
      BY <3>1, <3>2
  <2> QED
    BY <1>2, <2>3, <2>4, <2>5, <2>6 DEF CaughtUp
<1>5. CASE ContractStep
  <2>1. PICK p \in Orders, e \in Events :
               /\ e.id = p
               /\ Emit(e)
               /\ pc[e] = "idle"
               /\ \/ e = OrderCreated(p) /\ p \notin made /\ UNCHANGED filled
                  \/ /\ e = OrderMatched(p, filled'[p]) /\ filled'[p] \in Fills \ {0}
                     /\ p \in made /\ \A q \in Orders \ {p} : filled'[q] = filled[q]
                  \/ e = OrderCancelled(p) /\ UNCHANGED filled
    BY <1>0, <1>5, ContractStepIs
  <2>2. UNCHANGED <<orders, listening>> /\ \A x \in Events \ {e} : pc'[x] = pc[x]
    BY <1>0, <2>1 DEF Emit, Goto, tableVars
  <2>3. CaughtUp(o)
    BY <1>0, <1>2, <2>2
  <2>4. CASE filled'[o] = filled[o]
    <3>1. WillWrite(o) => WillWrite(o)'
      BY <1>3, <2>1, <2>2, <2>4 DEF WillWrite
    <3> QED
      BY <1>0, <2>2, <2>3, <2>4, <3>1 DEF CaughtUp
  <2>5. CASE filled'[o] # filled[o] /\ listening
    <3>1. p = o /\ e = OrderMatched(o, filled'[o]) /\ filled'[o] \in Fills \ {0}
      BY <1>0, <2>1, <2>5
    <3>2. pc'[e] = "getOrderInfo"
      BY <1>0, <2>1, <2>5, <3>1 DEF Emit, Goto, Entry, OrderMatched
    <3>3. filled'[o] > 0
      BY <3>1, ContractAssumption DEF Fills
    <3> QED
      BY <2>2, <2>5, <3>1, <3>2, <3>3 DEF CaughtUp, WillWrite
  <2>6. CASE o \in fetched /\ orders[o].fill >= snap[o]
    BY <1>0, <2>2, <2>6 DEF CaughtUp
  <2> QED
    BY <2>3, <2>4, <2>5, <2>6 DEF CaughtUp
<1>6. CASE Listen
  BY <1>0, <1>2, <1>6 DEF Listen, CaughtUp, WillWrite, tableVars, chainVars
<1>7. ASSUME NEW e \in Events, CallRejects(e)
      PROVE  FALSE
  BY <1>1, <1>7 DEF CallRejects
<1> QED
  BY <1>4, <1>5, <1>6, <1>7 DEF LiveStep

\* The restore's own steps.  What it inserts is what it fetched, and it asks
\* only for orders whose rows are not its own.
LEMMA RestoreCatchesUp ==
    ASSUME CatchUpInv, [RestoreNext]_fullVars, RestoreStep
    PROVE  LatestHandled' /\ FetchedAll' /\ NoneBehind'
<1>0. /\ LiveInv /\ LatestHandled /\ StagesInv
      /\ orders \in [Orders -> Row \union {Absent}]
      /\ todoOrders \subseteq Orders /\ missing \subseteq Orders /\ known \subseteq Orders
      /\ snap \in [Orders -> Fills]
      /\ \A o \in Orders : filled[o] \in Nat /\ snap[o] \in Nat /\ snap[o] <= filled[o]
  BY SetsOfRestore, ContractAssumption
  DEF CatchUpInv, RestoreInv, StagesInv, RestoreTypeOK, Believed, LiveInv, TypeOK, ContractTypeOK,
      Fills
<1>1. UNCHANGED <<chainVars, pc, listening, attempt, faults>>
  BY DEF RestoreStep, GetOrderIdLength, GetExistingOrders, GetMissingOrderIds, FetchOrderInfo,
         FetchTokenDecimals, RestoreGetUser, RestoreCreateUser, RestoreGetOrder, InsertOrder,
         QueryCancelled, CancelFromLog, vars, indexVars
<1>2. LatestHandled'
  BY <1>0, <1>1 DEF LatestHandled, chainVars
<1>3. FetchedAll'
  <2>1. CASE GetOrderIdLength \/ GetExistingOrders \/ GetMissingOrderIds
    BY <2>1 DEF FetchedAll, GetOrderIdLength, GetExistingOrders, GetMissingOrderIds, Loops
  <2>2. CASE \E o \in Orders : FetchOrderInfo(o)
    BY <2>2 DEF FetchedAll, FetchOrderInfo, Loops
  <2>3. stage \in {"decimals", "logs", "finished"} \union Loops => fetched = missing
    BY DEF CatchUpInv, FetchedAll
  <2>4. CASE FetchTokenDecimals \/ (\E u \in Users : RestoreGetUser(u)) \/ RestoreCreateUser
             \/ (\E o \in Orders : RestoreGetOrder(o)) \/ InsertOrder \/ QueryCancelled
             \/ (\E o \in Orders : CancelFromLog(o))
    BY <2>3, <2>4
    DEF FetchedAll, FetchTokenDecimals, RestoreGetUser, RestoreCreateUser, RestoreGetOrder,
        InsertOrder, QueryCancelled, CancelFromLog, Loops
  <2> QED
    BY <2>1, <2>2, <2>4 DEF RestoreStep
<1>4. NoneBehind'
  <2> SUFFICES ASSUME stage' # "existing", faults' = 0, RetryLimit > 1,
                      NEW o \in ((known' \ existing') \intersect Paced \intersect Present')
                                  \ cancelled'
               PROVE  CaughtUp(o)'
    BY DEF NoneBehind
  <2>0. WillWrite(o)' = WillWrite(o) /\ o \notin cancelled
    BY <1>1 DEF WillWrite, chainVars
  <2>1. ASSUME o \in known, o \notin existing, o \in Present, stage # "existing"
        PROVE  CaughtUp(o)
    BY <1>1, <2>0, <2>1 DEF CatchUpInv, NoneBehind
  <2>2. CASE GetOrderIdLength
    BY <2>2 DEF GetOrderIdLength
  <2>3. CASE GetExistingOrders
    BY <2>3 DEF GetExistingOrders, Present, vars, indexVars, tableVars
  <2>4. CASE UNCHANGED <<orders, known, existing, fetched, snap>> /\ stage # "existing"
    BY <1>1, <2>0, <2>1, <2>4 DEF CaughtUp, Present, chainVars
  <2>5. CASE \E p \in Orders : FetchOrderInfo(p)
    <3>1. PICK p \in Orders : FetchOrderInfo(p)
      BY <2>5
    <3>2. CaughtUp(o) /\ o \in Orders
      BY <1>0, <2>1, <3>1 DEF FetchOrderInfo, Present, vars, indexVars, tableVars
    <3>3. CASE p = o
      BY <1>1, <2>0, <3>1, <3>2, <3>3
      DEF FetchOrderInfo, CaughtUp, vars, indexVars, tableVars, chainVars
    <3>4. CASE p # o
      <4>1. snap'[o] = snap[o] /\ fetched \subseteq fetched' /\ UNCHANGED orders
        BY <1>0, <3>1, <3>2, <3>4 DEF FetchOrderInfo, vars, indexVars, tableVars
      <4> QED
        BY <1>1, <2>0, <3>2, <4>1 DEF CaughtUp, chainVars
    <3> QED
      BY <3>3, <3>4
  <2>6. CASE InsertOrder
    <3>1. /\ UNCHANGED <<known, existing, fetched, snap>> /\ stage = "insertOrder"
          /\ o \in Orders
      BY <1>0, <2>6 DEF InsertOrder
    <3>2. current \in Orders /\ current \in fetched
      BY <2>6, <3>1, RestoredRowBacked DEF CatchUpInv, FetchedAll, Loops
    <3>3. CASE o = current /\ orders[o] = Absent
      <4>1. orders'[o].fill = snap[o]
        BY <1>0, <2>6, <3>2, <3>3 DEF InsertOrder, RestoredRow
      <4> QED
        BY <1>0, <3>1, <3>2, <3>3, <4>1 DEF CaughtUp
    <3>4. CASE ~(o = current /\ orders[o] = Absent)
      <4>1. orders'[o] = orders[o]
        BY <1>0, <2>6, <3>1, <3>4 DEF InsertOrder
      <4> QED
        BY <1>1, <2>0, <2>1, <3>1, <4>1 DEF CaughtUp, Present, chainVars
    <3> QED
      BY <3>3, <3>4
  <2>7. CASE \E p \in Orders : CancelFromLog(p)
    <3>1. PICK p \in Orders : CancelFromLog(p)
      BY <2>7
    <3>2. /\ UNCHANGED <<known, existing, fetched, snap>> /\ stage = "cancels"
          /\ p \in cancelled /\ o \in Orders
      BY <1>0, <3>1 DEF CancelFromLog, StagesInv, LoopItems, RestoreTypeOK
    <3>3. orders'[o] = orders[o]
      BY <1>0, <2>0, <3>1, <3>2 DEF CancelFromLog
    <3> QED
      BY <1>1, <2>0, <2>1, <3>2, <3>3 DEF CaughtUp, Present, chainVars
  <2> QED
    BY <2>2, <2>3, <2>4, <2>5, <2>6, <2>7
    DEF RestoreStep, GetMissingOrderIds, FetchTokenDecimals, RestoreGetUser, RestoreCreateUser,
        RestoreGetOrder, QueryCancelled, vars, indexVars, tableVars
<1> QED
  BY <1>2, <1>3, <1>4

\* Every step of the composition keeps the invariant.
LEMMA CatchUpKept ==
    ASSUME CatchUpInv, [RestoreNext]_fullVars
    PROVE  CatchUpInv'
<1>0. RestoreInv' /\ LiveInv /\ faults \in Nat
  BY TablesKept, StagesKept, WorkKept, IndexAssumption DEF CatchUpInv, RestoreInv, LiveInv, TypeOK
<1>1. CASE LiveStep /\ UNCHANGED restoreVars
  <2>1. Next
    BY <1>1 DEF LiveStep, Next
  <2>2. LatestHandled'
    BY <1>0, <2>1, LatestKept DEF CatchUpInv
  <2>3. FetchedAll'
    BY <1>1 DEF CatchUpInv, FetchedAll, restoreVars
  <2> QED
    BY <1>0, <1>1, <2>2, <2>3, LiveCatchesUp DEF CatchUpInv
<1>2. CASE (Crash \/ BootFails) /\ Booted
  <2>1. \A e \in Events : pc'[e] \notin Running
    BY <1>0, <1>2 DEF Crash, BootFails, ProcessDies, Running, LiveInv, TypeOK
  <2>2. LatestHandled'
    BY <2>1, EventsOfOrder, IndexAssumption DEF LatestHandled
  <2>3. FetchedAll' /\ NoneBehind'
    BY <1>2 DEF Booted, FetchedAll, NoneBehind, Loops
  <2> QED
    BY <1>0, <2>2, <2>3 DEF CatchUpInv
<1>3. CASE RestoreStep
  BY <1>0, <1>3, RestoreCatchesUp DEF CatchUpInv
<1>4. CASE StageFails \/ ItemFails \/ LogsFail
  <2>1. faults' # 0 /\ UNCHANGED <<chainVars, pc, listening>>
    BY <1>0, <1>4 DEF StageFails, ItemFails, LogsFail, Fault
  <2>2. LatestHandled'
    BY <2>1 DEF CatchUpInv, LatestHandled, chainVars
  <2>3. FetchedAll'
    BY <1>4
    DEF CatchUpInv, FetchedAll, StageFails, ItemFails, LogsFail, RetriedStages, Loops
  <2> QED
    BY <1>0, <2>1, <2>2, <2>3 DEF CatchUpInv, NoneBehind
<1>5. CASE UNCHANGED fullVars
  BY <1>0, <1>5
  DEF CatchUpInv, LatestHandled, FetchedAll, NoneBehind, CaughtUp, WillWrite, Present,
      fullVars, vars, indexVars, tableVars, chainVars, restoreVars
<1> QED
  BY <1>1, <1>2, <1>3, <1>4, <1>5 DEF RestoreNext, BootFails

-----------------------------------------------------------------------------
(* Every boot's restore runs out of calls                                  *)

\* The order of the stages and loops.
Turn(s) ==
    CASE s = "length" -> 0
      [] s = "existing" -> 1
      [] s = "orderIds" -> 2
      [] s = "orderInfo" -> 3
      [] s = "decimals" -> 4
      [] s \in {"users", "createUser"} -> 5
      [] s \in {"orders", "insertOrder"} -> 6
      [] s = "logs" -> 7
      [] s = "cancels" -> 8
      [] OTHER -> 9

\* What the stage or loop still has to go through.
Left ==
    CASE stage = "orderInfo" -> missing \ fetched
      [] stage \in {"users", "createUser"} -> todoUsers
      [] stage \in {"orders", "insertOrder", "cancels"} -> todoOrders
      [] OTHER -> {}

Inserting == stage \in {"createUser", "insertOrder"}

\* A later stage, or a later attempt at the same one, or fewer items left, or
\* the second call for an item.
Further ==
    \/ Turn(stage') > Turn(stage)
    \/ /\ Turn(stage') = Turn(stage)
       /\ \/ tries' > tries
          \/ /\ tries' = tries
             /\ \/ Left' \subseteq Left /\ Left' # Left
                \/ Left' = Left /\ ~Inserting /\ Inserting'

\* The items are finitely many.
LEMMA LeftIsFinite ==
    ASSUME RestoreInv
    PROVE  IsFiniteSet(Left)
<1>1. \A S \in SUBSET Orders : IsFiniteSet(S)
  BY RestoreAssumption, FS_Subset
<1>2. \A S \in SUBSET Orders : IsFiniteSet({Owner[o] : o \in S})
  <2> SUFFICES ASSUME NEW S \in SUBSET Orders
               PROVE  IsFiniteSet({Owner[o] : o \in S})
    OBVIOUS
  <2> DEFINE T == {Owner[o] : o \in S}
  <2>1. [o \in S |-> Owner[o]] \in Surjection(S, T)
    BY DEF Surjection
  <2> HIDE DEF T
  <2>2. IsFiniteSet(T)
    BY <1>1, <2>1, FS_Surjection
  <2> QED
    BY <2>2 DEF T
<1>3. missing \subseteq Orders /\ todoOrders \subseteq Orders
  BY SetsOfRestore
<1>4. stage \in {"users", "createUser"} => IsFiniteSet(todoUsers)
  BY <1>2, <1>3, FS_Subset DEF RestoreInv, WorkLeft
<1>5. IsFiniteSet(missing \ fetched) /\ IsFiniteSet(todoOrders) /\ IsFiniteSet({})
  BY <1>1, <1>3
<1> QED
  BY <1>4, <1>5 DEF Left

\* A step of the restore, and a failure it survives, brings it further.
LEMMA RestoreGoesFurther ==
    ASSUME RestoreInv, RestoreStep \/ StageFails \/ ItemFails \/ LogsFail
    PROVE  Further
<1>0. /\ WorkLeft /\ tries \in Nat /\ LoopItems
      /\ fetched \subseteq missing
  BY RestoreAssumption DEF RestoreInv, StagesInv, RestoreTypeOK
<1> USE DEF Further, Turn
<1>1. CASE GetOrderIdLength \/ GetExistingOrders \/ GetMissingOrderIds
           \/ FetchTokenDecimals \/ QueryCancelled \/ LogsFail
  BY <1>1
  DEF GetOrderIdLength, GetExistingOrders, GetMissingOrderIds, FetchTokenDecimals,
      QueryCancelled, LogsFail
<1>2. CASE \E o \in Orders : FetchOrderInfo(o)
  BY <1>0, <1>2 DEF FetchOrderInfo, Left
<1>3. ASSUME stage \in {"users", "createUser"}, NEW u \in todoUsers, UserProcessed(u),
             UNCHANGED tries
      PROVE  Further
  BY <1>3 DEF UserProcessed, Left
<1>4. ASSUME stage \in {"orders", "insertOrder"}, NEW o \in todoOrders, OrderProcessed(o),
             UNCHANGED tries
      PROVE  Further
  BY <1>4 DEF OrderProcessed, Left
<1>5. ASSUME stage = "cancels", NEW o \in todoOrders, LogProcessed(o), UNCHANGED tries
      PROVE  Further
  BY <1>5 DEF LogProcessed, Left
<1>6. CASE \E u \in Users : RestoreGetUser(u)
  BY <1>3, <1>6 DEF RestoreGetUser, Left, Inserting
<1>7. CASE RestoreCreateUser
  BY <1>0, <1>3, <1>7 DEF RestoreCreateUser, WorkLeft
<1>8. CASE \E o \in Orders : RestoreGetOrder(o)
  BY <1>4, <1>8 DEF RestoreGetOrder, Left, Inserting
<1>9. CASE InsertOrder
  BY <1>0, <1>4, <1>9 DEF InsertOrder, LoopItems
<1>10. CASE \E o \in Orders : CancelFromLog(o)
  BY <1>5, <1>10 DEF CancelFromLog
<1>11. CASE StageFails
  BY <1>0, <1>11 DEF StageFails
<1>12. CASE ItemFails
  BY <1>0, <1>3, <1>4, <1>5, <1>12 DEF ItemFails, WorkLeft
<1> QED
  BY <1>1, <1>2, <1>6, <1>7, <1>8, <1>9, <1>10, <1>11, <1>12 DEF RestoreStep

-----------------------------------------------------------------------------
(* Theorems                                                                *)

\* RestoreInv holds in every reachable state of the restore and the live
\* handlers together.
THEOREM RestoreInvariance == RestoreSpec => []RestoreInv
<1>1. RestoreInit => RestoreInv
  BY RestoreInitEstablishes
<1>2. RestoreInv /\ [RestoreNext]_fullVars => RestoreInv'
  BY TablesKept, StagesKept, WorkKept DEF RestoreInv
<1> QED
  BY <1>1, <1>2, PTL DEF RestoreSpec

\* With a restore running beside the handlers, each row is still one the
\* order's history on the chain supports.
THEOREM RestoreHasNoPhantoms == RestoreSpec => []RowsBacked
<1>1. RestoreInv => RowsBacked
  BY DEF RestoreInv, LiveInv
<1> QED
  BY <1>1, RestoreInvariance, PTL

\* Neither the inserts of the restore nor its cancellations hide a match that
\* was handled.
THEOREM RestoreKeepsMatches == RestoreSpec => []MatchRecorded
<1>1. RestoreInv => MatchRecorded
  BY DEF RestoreInv, LiveInv
<1> QED
  BY <1>1, RestoreInvariance, PTL

\* Nor do they undo a cancellation that was handled.
THEOREM RestoreKeepsCancels == RestoreSpec => []CancelKept
<1>1. RestoreInv => CancelKept
  BY DEF RestoreInv, LiveInv
<1> QED
  BY <1>1, RestoreInvariance, PTL

\* A restore that went through all its stages has put every cancellation it
\* read where the log does not report otherwise.
THEOREM LogsApplied == RestoreSpec => []CancelsApplied
<1>1. RestoreInv => CancelsApplied
  BY DEF RestoreInv, StagesInv
<1> QED
  BY <1>1, RestoreInvariance, PTL

\* An order the restore knew of is there or reported; one it did not know of is
\* there unless its created handler did not succeed.
THEOREM NothingForgotten == RestoreSpec => []Covered
<1>1. RestoreInv => Covered
  <2> SUFFICES ASSUME RestoreInv, stage = "finished", NEW o \in made, ~Busy(o)
               PROVE  \/ o \in Present
                      \/ o \in skipped
                      \/ o \notin known /\ pc[OrderCreated(o)] \in {"missed", "failed", "killed"}
    BY DEF Covered
  <2>1. CASE o \in known
    BY <2>1 DEF RestoreInv, StagesInv, Believed, LoopDone
  <2>2. CASE o \notin known
    <3> DEFINE e == OrderCreated(o)
    <3>1. o \in Orders /\ e \in Events /\ e.id = o
      BY SetsOfRestore, EventsOfOrder DEF OrderCreated
    <3>2. pc[e] \in Ended
      <4>1. pc[e] \in Running \union Ended \union {"idle"} /\ pc[e] # "idle"
        BY <3>1 DEF RestoreInv, LiveInv, TypeOK, HandlersKnow
      <4> QED
        BY <3>1, <4>1 DEF Busy
    <3>3. pc[e] \in {"done", "skipped", "gaveUp"} => o \in Present
      BY <3>1 DEF RestoreInv, HandlersKnow, Present
    <3> QED
      BY <2>2, <3>2, <3>3 DEF Ended
  <2> QED
    BY <2>1, <2>2
<1> QED
  BY <1>1, RestoreInvariance, PTL

\* The restore keeps the promises of OrderView too: its inserts show orders
\* that have no row, and its cancellations are on the chain.
THEOREM RestoreRefines == RestoreSpec => ViewSpec
<1>1. RestoreInit => View!Init
  BY DEF RestoreInit, Init, View!Init, View!ContractInit, ContractInit, Absent
<1>2. RestoreInv /\ [RestoreNext]_fullVars => [View!Next]_<<chainVars, orders>>
  BY TablesKept
<1> QED
  BY <1>1, <1>2, RestoreInvariance, PTL
  DEF RestoreSpec, ViewSpec, View!Spec, View!chainVars, chainVars

\* CatchUpInv holds in every reachable state: whoever inserted a row while the
\* restore ran, the fill it should show is there or on its way.
THEOREM CatchUpInvariance == RestoreSpec => []CatchUpInv
<1>1. CatchUpInv /\ [RestoreNext]_fullVars => CatchUpInv'
  BY CatchUpKept
<1> QED
  BY <1>1, CatchUpStarts, PTL DEF RestoreSpec

\* However late its insert comes, the restore never leaves a row behind what it
\* had read of the order, if the chain leaves orders alone while a handler works
\* on them and no call rejects.  With a single attempt that is false: a match
\* handler that has created the order gives up before it writes the fill, and
\* keeps the restore from inserting it.  handleOrderMatchedEvent makes three.
THEOREM RestoreIsNotBehind ==
    ASSUME RetryLimit > 1
    PROVE  RestoreSpec => []RestoredNotBehind
<1>1. CatchUpInv => RestoredNotBehind
  <2> SUFFICES ASSUME CatchUpInv, faults = 0, stage \in {"logs", "cancels", "finished"},
                      NEW o \in (fetched \intersect Paced) \ (skipped \union cancelled), ~Busy(o)
               PROVE  orders[o].fill >= snap[o]
    BY DEF RestoredNotBehind
  <2>1. /\ o \in Orders /\ o \in known \ existing /\ o \in Present
        /\ filled[o] \in Fills /\ snap[o] \in Nat /\ filled[o] \in Nat /\ snap[o] <= filled[o]
    BY SetsOfRestore, ContractAssumption
    DEF CatchUpInv, StagesInv, RestoreTypeOK, Believed, LoopDone, Loops, Fills
  <2>2. CaughtUp(o)
    BY <2>1 DEF CatchUpInv, NoneBehind
  <2>3. ~WillWrite(o)
    <3> SUFFICES ASSUME WillWrite(o) PROVE FALSE
      OBVIOUS
    <3>1. OrderMatched(o, filled[o]) \in Events
      BY <2>1, EventsOfOrder DEF WillWrite
    <3> QED
      BY <3>1 DEF WillWrite, Busy, Running, OrderMatched
  <2> QED
    BY <2>1, <2>2, <2>3 DEF CaughtUp
<1> QED
  BY <1>1, CatchUpInvariance, PTL

\* No restore goes round for ever, whatever the handlers do meanwhile: each step
\* of it brings it further, a step of the handlers leaves it where it is, and
\* each stage has finitely many items and attempts.  This is what RestoreEnds
\* needs besides the fairness of the event loop.
THEOREM RestoreMovesOn ==
    RestoreSpec => [][/\ IsFiniteSet(Left) /\ tries < StageRetries
                      /\ \/ Further
                         \/ Booted
                         \/ ~RestoreStep /\ UNCHANGED restoreVars]_fullVars
<1> DEFINE Moves == /\ IsFiniteSet(Left) /\ tries < StageRetries
                    /\ \/ Further
                       \/ Booted
                       \/ ~RestoreStep /\ UNCHANGED restoreVars
<1>1. ASSUME RestoreInv, RestoreNext
      PROVE  Moves
  <2>1. tries < StageRetries
    BY <1>1, RestoreAssumption DEF RestoreInv, StagesInv, RestoreTypeOK
  <2>2. RestoreStep \/ StageFails \/ ItemFails \/ LogsFail => Further
    BY <1>1, RestoreGoesFurther
  <2> QED
    BY <1>1, <2>1, <2>2, LeftIsFinite DEF RestoreNext, BootFails
<1>2. RestoreInv /\ [RestoreNext]_fullVars => [Moves]_fullVars
  BY <1>1
<1> QED
  BY <1>2, RestoreInvariance, PTL DEF RestoreSpec

\* The restore does not disturb a handler on its way, nor does a boot of
\* another process revive one.
THEOREM HandlersMoveOnBeside == RestoreSpec => [][\A e \in Events : MovesOn(e)]_fullVars
<1>1. ASSUME RestoreInv, RestoreNext, NEW e \in Events
      PROVE  MovesOn(e)
  <2>1. CASE [Next]_vars
    BY <1>1, <2>1, StepMovesOn DEF RestoreInv
  <2>2. CASE UNCHANGED <<pc, attempt>> /\ ~HandlerStep(e)
    <3>1. MovesOn(e)
      <4>1. pc[e] \in Running => CallsLeft(e) \in Nat \ {0}
        BY <1>1, CallsAreLeft DEF RestoreInv
      <4> QED
        BY <2>2, <4>1 DEF MovesOn
    <3> QED
      BY <3>1
  <2>3. HandlerStep(e) => [Next]_vars
    BY DEF Next
  <2>4. CASE ProcessDies
    <3>1. pc[e] \in Running => CallsLeft(e) \in Nat \ {0}
      BY <1>1, CallsAreLeft DEF RestoreInv
    <3>2. pc'[e] \notin Running
      BY <1>1, <2>4 DEF ProcessDies, Running, RestoreInv, LiveInv, TypeOK
    <3> QED
      BY <3>1, <3>2 DEF MovesOn
  <2>5. [Next]_vars \/ ProcessDies \/ UNCHANGED <<pc, attempt>>
    BY <1>1, KindsOfSteps
    DEF RestoreCreateUser, InsertOrder, CancelFromLog, vars, indexVars
  <2> QED
    BY <2>1, <2>2, <2>3, <2>4, <2>5
<1>2. RestoreInv /\ [RestoreNext]_fullVars => [\A e \in Events : MovesOn(e)]_fullVars
  BY <1>1
<1> QED
  BY <1>2, RestoreInvariance, PTL DEF RestoreSpec

\* Nor does the restore take a row away, or register anybody twice, so also
\* beside it, and whatever the boots before left behind, a handler that ended by
\* itself leaves a row, or met a call that rejects or a new owner.
THEOREM EventsAreListedBeside == RestoreSpec => []Listed
<1>1. RestoreInit => ListedInv
  BY NothingListedYet DEF RestoreInit
<1>2. ASSUME RestoreInv, ListedInv, [RestoreNext]_fullVars
      PROVE  ListedInv'
  <2>1. CASE [Next]_vars
    BY <1>2, <2>1, ListedKept DEF RestoreInv
  <2>2. CASE UNCHANGED pc \/ ProcessDies
    <3>1. \A e \in Events : e.id \in Orders /\ (pc'[e] = pc[e] \/ pc'[e] = "killed")
      BY <2>2, EventParts DEF ProcessDies
    <3>2. /\ users \subseteq users'
          /\ \A o \in Orders : orders[o] # Absent => orders'[o] # Absent
          /\ faults' = 0 => faults = 0
          /\ LiveInv'
      BY <1>2, TablesKept DEF Present
    <3>3. faults > 0 => faults' > 0
      <4>1. faults \in Nat /\ faults' \in Nat
        BY <1>2, <3>2, IndexAssumption DEF RestoreInv, LiveInv, TypeOK
      <4> QED
        BY <3>2, <4>1
    <3>4. RegisteredUsers \subseteq users'
      BY <1>2, <3>2 DEF ListedInv
    <3>5. \A e \in Events : pc'[e] = "createUser" => Owner[e.id] \notin RegisteredUsers
      BY <1>2, <3>1 DEF ListedInv
    <3>6. Listed'
      BY <1>2, <3>1, <3>2, <3>3 DEF ListedInv, Listed
    <3> QED
      BY <3>4, <3>5, <3>6 DEF ListedInv
  <2>3. [Next]_vars \/ UNCHANGED pc \/ ProcessDies
    BY <1>2, KindsOfSteps DEF RestoreCreateUser, InsertOrder, CancelFromLog, vars, indexVars
  <2> QED
    BY <2>1, <2>2, <2>3
<1>3. RestoreInv /\ ListedInv /\ [RestoreNext]_fullVars => ListedInv'
  BY <1>2
<1>4. ListedInv => Listed
  BY DEF ListedInv
<1> QED
  BY <1>1, <1>3, <1>4, RestoreInvariance, PTL DEF RestoreSpec

=============================================================================
