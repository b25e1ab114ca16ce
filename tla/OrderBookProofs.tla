-------------------------- MODULE OrderBookProofs --------------------------
(***************************************************************************)
(* The properties of OrderBook, proved for every set of orders, tokens and *)
(* accounts and every bound.  BookInv is inductive; what the queries       *)
(* answer follows from it.                                                 *)
(***************************************************************************)
EXTENDS OrderBook, FiniteSetTheorems, TLAPS

-----------------------------------------------------------------------------
(* A step is about one order.                                              *)

\* Nothing of order p changes in the step.
Keeps(p) ==
    /\ info'[p] = info[p]
    /\ filledA'[p] = filledA[p] /\ filledB'[p] = filledB[p]
    /\ rows'[p] = rows[p] /\ fetched'[p] = fetched[p]
    /\ (p \in cancelled') = (p \in cancelled)
    /\ (p \in overtaken') = (p \in overtaken)
    /\ EventsOf(p)' = EventsOf(p)

\* A record of what was ordered is not the record of no order, and a row is
\* not the missing row: they have other fields.
LEMMA RecordsDiffer ==
    /\ NoOrder \notin Info
    /\ NoRow \notin Row
<1>1. \A i \in Info : DOMAIN i = {"tokenA", "tokenB", "amountA", "amountB"}
  BY DEF Info
<1>2. \A r \in Row : "buyToken" \in DOMAIN r
  BY DEF Row
<1>3. DOMAIN NoOrder = {"tokenA"} /\ DOMAIN NoRow = {"status"}
  BY DEF NoOrder, NoRow
<1> QED
  BY <1>1, <1>2, <1>3

\* What is kept of an order keeps its part of the invariant.
LEMMA KeptOrder ==
    ASSUME NEW p \in Orders, OrderInv(p), Keeps(p)
    PROVE  OrderInv(p)'
<1>1. MatchesOf(p)' = MatchesOf(p)
  BY DEF Keeps, MatchesOf
<1>2. (p \in Made') = (p \in Made) /\ (p \in Present') = (p \in Present)
  BY DEF Keeps, Made, Present
<1>3. ContractInv(p)'
  BY <1>2 DEF Keeps, OrderInv, ContractInv
<1>4. EventsTell(p)'
  BY DEF Keeps, OrderInv, EventsTell, IsFilled
<1>5. RowsLag(p)'
  BY DEF Keeps, OrderInv, RowsLag, Lags, IsFilled
<1>6. InTurn(p)'
  BY <1>1, <1>2 DEF Keeps, OrderInv, InTurn, ShowsFills
<1> QED
  BY <1>3, <1>4, <1>5, <1>6 DEF OrderInv

\* A step that touches one order and leaves its part true keeps the invariant.
LEMMA OneOrder ==
    ASSUME BookInv, TypeOK', NEW o \in Orders, OrderInv(o)',
           \A p \in Orders \ {o} : Keeps(p)
    PROVE  BookInv'
<1>1. \A p \in Orders : OrderInv(p)'
  <2> SUFFICES ASSUME NEW p \in Orders, p # o
               PROVE  OrderInv(p)'
    OBVIOUS
  <2> QED
    BY KeptOrder DEF BookInv
<1>2. Present' \subseteq Present \union {o}
  BY DEF Present, Keeps
<1>3. IsFiniteSet(Present')
  BY <1>2, FS_AddElement, FS_Subset DEF BookInv
<1> QED
  BY <1>1, <1>3 DEF BookInv

-----------------------------------------------------------------------------
(* The contract                                                            *)

LEMMA InitEstablishes == ASSUME BookAssumption, Init PROVE BookInv
<1>1. TypeOK
  BY DEF Init, TypeOK, Amounts, BookAssumption
<1>2. Present = {} /\ Made = {}
  BY DEF Init, Present, Made
<1>3. ASSUME NEW o \in Orders
      PROVE  OrderInv(o)
  <2>1. ContractInv(o)
    BY <1>2, <1>3 DEF Init, ContractInv, EventsOf
  <2>2. EventsTell(o)
    BY <1>3 DEF Init, EventsTell, EventsOf
  <2>3. RowsLag(o)
    BY <1>3 DEF Init, RowsLag
  <2>4. InTurn(o)
    BY <1>3 DEF Init, InTurn
  <2> QED
    BY <2>1, <2>2, <2>3, <2>4 DEF OrderInv
<1> QED
  BY <1>1, <1>2, <1>3, FS_EmptySet DEF BookInv

LEMMA PlaceKeeps ==
    ASSUME BookAssumption, BookInv, NEW o \in Orders, NEW i \in Info, Place(o, i)
    PROVE  BookInv'
<1> DEFINE c == EventOf("OrderCreated", o, 0, 0, TRUE)
<1>1. TypeOK /\ OrderInv(o)
  BY DEF BookInv
<1>2. c \in Event /\ c.id = o /\ c.kind = "OrderCreated"
  BY DEF EventOf, Event, Amounts, BookAssumption
<1> HIDE DEF c
<1>3. events' = events \union {c} /\ info' = [info EXCEPT ![o] = i]
  BY DEF Place, c
<1>4. UNCHANGED <<filledA, filledB, cancelled, overtaken, rows, fetched>>
  BY DEF Place
<1>5. TypeOK'
  BY <1>1, <1>2, <1>3, <1>4 DEF TypeOK
<1>6. \A p \in Orders \ {o} : Keeps(p)
  BY <1>1, <1>2, <1>3, <1>4 DEF Keeps, EventsOf, TypeOK
<1>7. o \notin Made /\ i.amountB > 0 /\ i.amountA \in Amounts /\ i.amountB \in Amounts
  BY DEF Place, Info
<1>8. info'[o] = i /\ o \in Made'
  BY <1>1, <1>3, RecordsDiffer DEF TypeOK, Made
<1>9. /\ filledA[o] = 0 /\ filledB[o] = 0 /\ o \notin cancelled
      /\ EventsOf(o) = {} /\ rows[o] = NoRow /\ fetched[o] = NoRow
  BY <1>1, <1>7 DEF OrderInv, ContractInv
<1>10. EventsOf(o)' = {c}
  BY <1>9, <1>2, <1>3 DEF EventsOf
<1>11. OrderInv(o)'
  <2>1. ContractInv(o)'
    BY <1>4, <1>7, <1>8, <1>9 DEF ContractInv, Amounts, BookAssumption
  <2>2. EventsTell(o)'
    BY <1>10, <1>2 DEF EventsTell
  <2>3. RowsLag(o)'
    BY <1>4, <1>9 DEF RowsLag
  <2>4. InTurn(o)'
    BY <1>4, <1>9 DEF InTurn
  <2> QED
    BY <2>1, <2>2, <2>3, <2>4 DEF OrderInv
<1> QED
  BY <1>5, <1>6, <1>11, OneOrder

LEMMA MatchKeeps ==
    ASSUME BookAssumption, BookInv,
           NEW o \in Orders, NEW a \in Amounts, NEW b \in Amounts, Match(o, a, b)
    PROVE  BookInv'
<1> DEFINE m == EventOf("OrderMatched", o, a, b, ~IsFilled(info[o], a, b))
<1>1. TypeOK /\ OrderInv(o)
  BY DEF BookInv
<1>2. m \in Event /\ m.id = o /\ m.kind = "OrderMatched" /\ m.a = a /\ m.b = b
  BY DEF EventOf, Event
<1>3. m.left = ~IsFilled(info[o], a, b)
  BY DEF EventOf
<1>4. events' = events \union {m}
  BY DEF Match
<1> HIDE DEF m
<1>5. filledA' = [filledA EXCEPT ![o] = a] /\ filledB' = [filledB EXCEPT ![o] = b]
  BY DEF Match
<1>6. UNCHANGED <<info, cancelled, overtaken, rows, fetched>>
  BY DEF Match
<1>7. TypeOK'
  BY <1>1, <1>2, <1>4, <1>5, <1>6 DEF TypeOK
<1>8. \A p \in Orders \ {o} : Keeps(p)
  BY <1>1, <1>2, <1>4, <1>5, <1>6 DEF Keeps, EventsOf, TypeOK
<1>9. /\ o \in Made /\ o \in Made' /\ o \notin cancelled /\ info[o] \in Info
      /\ filledA'[o] = a /\ filledB'[o] = b
      /\ filledA[o] \in Nat /\ filledB[o] \in Nat /\ a \in Nat /\ b \in Nat
  BY <1>1, <1>5, <1>6 DEF Match, OpenOnChain, TypeOK, Made, Amounts, BookAssumption
<1>10. /\ info[o].amountA \in Nat /\ info[o].amountB \in Nat
       /\ a <= info[o].amountA /\ filledA[o] <= info[o].amountA
       /\ a > filledA[o] \/ info[o].amountA = 0
       /\ filledB[o] < b /\ b <= info[o].amountB
  BY <1>1, <1>9 DEF Match, Info, Amounts, BookAssumption, OrderInv, ContractInv
<1>11. filledA[o] <= a
  BY <1>9, <1>10
<1>12. EventsOf(o)' = EventsOf(o) \union {m} /\ m \in MatchesOf(o)'
  BY <1>2, <1>4 DEF EventsOf, MatchesOf
<1>13. OrderInv(o)'
  <2>1. ContractInv(o)'
    BY <1>1, <1>6, <1>9, <1>10 DEF OrderInv, ContractInv
  <2>2. EventsTell(o)'
    <3> SUFFICES ASSUME NEW e \in EventsOf(o)'
                 PROVE  /\ e.kind = "OrderCancelled" => o \in cancelled'
                        /\ e.kind = "OrderMatched" =>
                            /\ 0 < e.b /\ e.b <= filledB'[o] /\ e.a <= filledA'[o]
                            /\ e.b = filledB'[o] => e.a = filledA'[o]
                            /\ e.left = ~IsFilled(info'[o], e.a, e.b)
      BY DEF EventsTell, IsFilled
    <3>1. CASE e = m
      BY <3>1, <1>2, <1>3, <1>6, <1>9, <1>10
    <3>2. CASE e \in EventsOf(o)
      <4>1. e.a \in Nat /\ e.b \in Nat
        BY <3>2, <1>1 DEF TypeOK, EventsOf, Event, Amounts, BookAssumption
      <4> QED
        BY <4>1, <3>2, <1>1, <1>6, <1>9, <1>10, <1>11 DEF OrderInv, EventsTell
    <3> QED
      BY <3>1, <3>2, <1>12
  <2>3. RowsLag(o)'
    <3> SUFFICES ASSUME NEW row \in {rows[o], fetched[o]} \ {NoRow}
                 PROVE  Lags(o, row)'
      BY <1>6 DEF RowsLag
    <3>1. row.buyAmountFilled \in Nat /\ row.sellAmountFilled \in Nat
      BY <1>1 DEF TypeOK, Row, Amounts, BookAssumption
    <3>2. Lags(o, row)
      BY <1>1 DEF OrderInv, RowsLag
    <3>3. row.buyAmountFilled <= a /\ row.sellAmountFilled <= b
      BY <3>1, <3>2, <1>9, <1>10, <1>11 DEF Lags
    <3> QED
      BY <3>2, <3>3, <1>6, <1>9 DEF Lags, IsFilled
  <2>4. InTurn(o)'
    BY <1>2, <1>6, <1>9, <1>12 DEF InTurn
  <2> QED
    BY <2>1, <2>2, <2>3, <2>4 DEF OrderInv
<1> QED
  BY <1>7, <1>8, <1>13, OneOrder

LEMMA CancelKeeps ==
    ASSUME BookAssumption, BookInv, NEW o \in Orders, Cancel(o)
    PROVE  BookInv'
<1> DEFINE c == EventOf("OrderCancelled", o, 0, 0, TRUE)
<1>1. TypeOK /\ OrderInv(o)
  BY DEF BookInv
<1>2. c \in Event /\ c.id = o /\ c.kind = "OrderCancelled"
  BY DEF EventOf, Event, Amounts, BookAssumption
<1>3. events' = events \union {c}
  BY DEF Cancel
<1> HIDE DEF c
<1>4. cancelled' = cancelled \union {o} /\ o \in Made
  BY DEF Cancel, OpenOnChain
<1>5. UNCHANGED <<info, filledA, filledB, overtaken, rows, fetched>>
  BY DEF Cancel
<1>6. TypeOK'
  BY <1>1, <1>2, <1>3, <1>4, <1>5 DEF TypeOK
<1>7. \A p \in Orders \ {o} : Keeps(p)
  BY <1>2, <1>3, <1>4, <1>5 DEF Keeps, EventsOf
<1>8. /\ EventsOf(o)' = EventsOf(o) \union {c} /\ c \in EventsOf(o)'
      /\ MatchesOf(o)' = MatchesOf(o)
  BY <1>2, <1>3 DEF EventsOf, MatchesOf
<1>9. Made' = Made /\ Present' = Present
  BY <1>5 DEF Made, Present
<1>10. OrderInv(o)'
  <2>1. ContractInv(o)'
    BY <1>1, <1>4, <1>5, <1>9 DEF OrderInv, ContractInv
  <2>2. EventsTell(o)'
    BY <1>1, <1>2, <1>4, <1>5, <1>8 DEF OrderInv, EventsTell, IsFilled
  <2>3. RowsLag(o)'
    BY <1>1, <1>4, <1>5 DEF OrderInv, RowsLag, Lags, IsFilled
  <2>4. InTurn(o)'
    BY <1>1, <1>2, <1>4, <1>5, <1>8, <1>9 DEF OrderInv, InTurn, ShowsFills
  <2> QED
    BY <2>1, <2>2, <2>3, <2>4 DEF OrderInv
<1> QED
  BY <1>6, <1>7, <1>10, OneOrder

-----------------------------------------------------------------------------
(* The rows                                                                *)

\* The row of createOrder, for an order that is made: none of it is filled.
LEMMA NewRowLags ==
    ASSUME BookAssumption, TypeOK, NEW o \in Made, OrderInv(o),
           NEW status \in {"ACTIVE", "CANCELLED"},
           status = "CANCELLED" => o \in cancelled
    PROVE  NewRow(o, status) \in Row /\ Lags(o, NewRow(o, status))
<1>1. o \in Orders /\ info[o] \in Info
  BY DEF Made, TypeOK
<1>2. /\ info[o].tokenA \in Tokens /\ info[o].tokenB \in Tokens
      /\ info[o].amountA \in Nat /\ info[o].amountB \in Nat
      /\ info[o].amountA \in Amounts /\ info[o].amountB \in Amounts
      /\ 0 \in Amounts /\ filledA[o] \in Nat /\ filledB[o] \in Nat
  BY <1>1 DEF Info, Amounts, TypeOK, BookAssumption
<1>3. info[o].amountB > 0
  BY DEF OrderInv, ContractInv
<1>4. Owner[o] \in Accounts
  BY <1>1 DEF BookAssumption
<1>5. NewRow(o, status) \in Row
  BY <1>2, <1>4 DEF NewRow, Row, Lower, Spelling, Open
<1> QED
  BY <1>2, <1>3, <1>5 DEF NewRow, Lags, IsFilled

\* The row of a match handler: the fills are the event's, and so is the status.
LEMMA MatchedRowLags ==
    ASSUME BookAssumption, TypeOK, NEW o \in Made, OrderInv(o),
           NEW row \in Row, Lags(o, row), NEW e \in MatchesOf(o)
    PROVE  /\ MatchedRow(row, e) \in Row /\ Lags(o, MatchedRow(row, e))
           /\ MatchedRow(row, e).buyAmountFilled = e.a
           /\ MatchedRow(row, e).sellAmountFilled = e.b
<1> DEFINE s == IF e.left THEN "PARTIALLY_FILLED" ELSE "FILLED"
           m == [buyToken |-> row.buyToken, sellToken |-> row.sellToken,
                 user |-> row.user, buyAmount |-> row.buyAmount,
                 sellAmount |-> row.sellAmount, buyAmountFilled |-> e.a,
                 sellAmountFilled |-> e.b, status |-> s]
<1>1. e \in Event /\ e \in EventsOf(o) /\ e.kind = "OrderMatched"
  BY DEF TypeOK, MatchesOf, EventsOf
<1>2. e.a \in Amounts /\ e.b \in Amounts /\ e.left \in BOOLEAN /\ e.a \in Nat /\ e.b \in Nat
  BY <1>1 DEF Event, Amounts, BookAssumption
<1>3. MatchedRow(row, e) = m
  <2> HIDE DEF s
  <2>1. MatchedRow(row, e) = [row EXCEPT !.buyAmountFilled = e.a, !.sellAmountFilled = e.b,
                                         !.status = s]
    BY DEF MatchedRow, s
  <2> QED
    BY <2>1 DEF Row
<1>4. m \in Row
  BY <1>2 DEF Row, Open
<1>5. /\ 0 < e.b /\ e.b <= filledB[o] /\ e.a <= filledA[o]
      /\ e.left = ~IsFilled(info[o], e.a, e.b)
  BY <1>1 DEF OrderInv, EventsTell
<1>6. Lags(o, m)
  BY <1>2, <1>5 DEF Lags
<1> QED
  BY <1>3, <1>4, <1>6

\* The row of a cancelled order.
LEMMA CancelledRowLags ==
    ASSUME TypeOK, NEW o \in cancelled, NEW row \in Row, Lags(o, row)
    PROVE  LET c == [row EXCEPT !.status = "CANCELLED"]
           IN  /\ c \in Row /\ Lags(o, c) /\ c.status = "CANCELLED"
               /\ c.buyAmountFilled = row.buyAmountFilled
               /\ c.sellAmountFilled = row.sellAmountFilled
<1> DEFINE c == [buyToken |-> row.buyToken, sellToken |-> row.sellToken,
                 user |-> row.user, buyAmount |-> row.buyAmount,
                 sellAmount |-> row.sellAmount,
                 buyAmountFilled |-> row.buyAmountFilled,
                 sellAmountFilled |-> row.sellAmountFilled, status |-> "CANCELLED"]
<1>1. [row EXCEPT !.status = "CANCELLED"] = c
  BY DEF Row
<1>2. c \in Row
  BY DEF Row
<1>3. Lags(o, c)
  BY DEF Lags
<1> QED
  BY <1>1, <1>2, <1>3

\* A row that is present is a row, and lags.
LEMMA PresentRow ==
    ASSUME TypeOK, NEW o \in Present, OrderInv(o)
    PROVE  o \in Orders /\ rows[o] \in Row /\ Lags(o, rows[o])
BY DEF Present, TypeOK, OrderInv, RowsLag

-----------------------------------------------------------------------------
(* The handlers                                                            *)

\* An event of an order is of a made order.
LEMMA EventOrder ==
    ASSUME BookInv, NEW e \in events
    PROVE  /\ e \in Event /\ e.id \in Made /\ e.id \in Orders
           /\ e \in EventsOf(e.id) /\ OrderInv(e.id)
           /\ e.kind = "OrderMatched" => e \in MatchesOf(e.id)
           /\ e.kind = "OrderCancelled" => e.id \in cancelled
<1>1. e \in Event /\ e.id \in Orders
  BY DEF BookInv, TypeOK, Event
<1>2. OrderInv(e.id) /\ e \in EventsOf(e.id)
  BY <1>1 DEF BookInv, EventsOf
<1> QED
  BY <1>1, <1>2 DEF OrderInv, ContractInv, EventsTell, MatchesOf

\* A step that takes an event of an order and writes its row: what is left to
\* show is that the last event is not lost while the order is in turn.
LEMMA TakenKeeps ==
    ASSUME BookInv, NEW e \in events, NEW row \in Row \union {NoRow},
           events' = events \ {e}, UNCHANGED <<chain, fetched>>,
           overtaken' \in {overtaken, overtaken \union {e.id}},
           rows' = [rows EXCEPT ![e.id] = row],
           row # NoRow => Lags(e.id, row),
           InTurn(e.id)'
    PROVE  BookInv'
<1> DEFINE o == e.id
<1>1. /\ TypeOK /\ o \in Orders /\ o \in Made /\ OrderInv(o)
      /\ UNCHANGED <<info, filledA, filledB, cancelled, fetched>>
  BY EventOrder DEF BookInv, chain
<1>2. TypeOK'
  BY <1>1 DEF TypeOK
<1>3. \A p \in Orders \ {o} : Keeps(p)
  BY <1>1 DEF Keeps, EventsOf, TypeOK
<1>4. rows'[o] = row /\ o \in Made'
  BY <1>1 DEF TypeOK, Made
<1>5. EventsOf(o)' \subseteq EventsOf(o)
  BY DEF EventsOf
<1>6. ContractInv(o)'
  BY <1>1, <1>4 DEF OrderInv, ContractInv
<1>7. EventsTell(o)'
  BY <1>1, <1>5 DEF OrderInv, EventsTell, IsFilled
<1>8. RowsLag(o)'
  BY <1>1, <1>4 DEF OrderInv, RowsLag, Lags, IsFilled
<1> QED
  BY <1>1, <1>2, <1>3, <1>6, <1>7, <1>8, OneOrder DEF OrderInv

\* A handler takes its event: nothing is marked only if no earlier one waits.
LEMMA TakenParts ==
    ASSUME NEW e, Taken(e)
    PROVE  /\ events' = events \ {e} /\ UNCHANGED <<chain, fetched>>
           /\ overtaken' \in {overtaken, overtaken \union {e.id}}
           /\ e.id \notin overtaken' =>
                e.id \notin overtaken /\ \A d \in events : ~Before(d, e)
BY DEF Taken, Overtaken

LEMMA HandleCreatedKeeps ==
    ASSUME BookAssumption, BookInv, NEW e \in events, HandleCreated(e)
    PROVE  BookInv'
<1> DEFINE o == e.id
           row == IF o \in Present THEN rows[o] ELSE NewRow(o, "ACTIVE")
<1>1. /\ TypeOK /\ o \in Orders /\ o \in Made /\ OrderInv(o) /\ e.kind = "OrderCreated"
  BY EventOrder DEF BookInv, HandleCreated
<1>2. row \in Row /\ Lags(o, row)
  BY <1>1, PresentRow, NewRowLags
<1>3. rows' = [rows EXCEPT ![o] = row]
  BY <1>1 DEF HandleCreated, TypeOK
<1> HIDE DEF row
<1>4. Taken(e)
  BY DEF HandleCreated
<1>5. UNCHANGED <<info, filledA, filledB, cancelled>>
  BY <1>4, TakenParts DEF chain
<1>6. /\ MatchesOf(o)' = MatchesOf(o)
      /\ \A d \in EventsOf(o) : d.kind = "OrderCancelled" => d \in EventsOf(o)'
  BY <1>1, <1>4, TakenParts DEF MatchesOf, EventsOf
<1>7. o \in Present => o \in Present' /\ rows'[o] = rows[o]
  BY <1>1 DEF HandleCreated, Present
<1>8. InTurn(o)'
  BY <1>1, <1>4, <1>5, <1>6, <1>7, TakenParts DEF OrderInv, InTurn, ShowsFills
<1> QED
  BY <1>2, <1>3, <1>4, <1>8, TakenParts, TakenKeeps

LEMMA HandleMatchedKeeps ==
    ASSUME BookAssumption, BookInv, NEW e \in events, HandleMatched(e)
    PROVE  BookInv'
<1> DEFINE o == e.id
           old == IF o \in Present THEN rows[o] ELSE NewRow(o, "ACTIVE")
           row == MatchedRow(old, e)
<1>1. /\ TypeOK /\ o \in Orders /\ o \in Made /\ OrderInv(o)
      /\ e.kind = "OrderMatched" /\ e \in MatchesOf(o) /\ e \in Event
  BY EventOrder DEF BookInv, HandleMatched
<1>2. old \in Row /\ Lags(o, old)
  BY <1>1, PresentRow, NewRowLags
<1>3. rows' = [rows EXCEPT ![o] = row]
  BY DEF HandleMatched
<1> HIDE DEF old
<1>4. /\ row \in Row /\ Lags(o, row)
      /\ row.buyAmountFilled = e.a /\ row.sellAmountFilled = e.b
  BY <1>1, <1>2, MatchedRowLags
<1> HIDE DEF row
<1>5. rows'[o] = row /\ o \in Present'
  BY <1>1, <1>3, <1>4, RecordsDiffer DEF TypeOK, Present
<1>6. Taken(e)
  BY DEF HandleMatched
<1>7. UNCHANGED <<info, filledA, filledB, cancelled>>
  BY <1>6, TakenParts DEF chain
<1>8. /\ MatchesOf(o)' = MatchesOf(o) \ {e}
      /\ \A d \in EventsOf(o) : d.kind = "OrderCancelled" => d \in EventsOf(o)'
  BY <1>1, <1>6, TakenParts DEF MatchesOf, EventsOf
<1>9. ASSUME o \notin overtaken', e.b = filledB[o]
      PROVE  MatchesOf(o)' = {} /\ ShowsFills(o)'
  <2>1. \A d \in events : ~Before(d, e)
    BY <1>6, <1>9, TakenParts
  <2>2. ASSUME NEW d \in MatchesOf(o)
        PROVE  d = e
    <3>1. /\ d \in Event /\ d.id = o /\ d.kind = "OrderMatched"
          /\ d \in events /\ d \in EventsOf(o) /\ e \in EventsOf(o)
      BY <1>1, <2>2 DEF MatchesOf, EventsOf, TypeOK
    <3>2. d.b \in Nat /\ filledB[o] \in Nat
      BY <1>1, <3>1 DEF Event, Amounts, BookAssumption, TypeOK
    <3>3. d.b = e.b
      BY <1>1, <1>9, <2>1, <3>1, <3>2 DEF OrderInv, EventsTell, Before
    <3>4. d.a = e.a /\ d.left = e.left
      BY <1>1, <1>9, <3>1, <3>3 DEF OrderInv, EventsTell
    <3> QED
      BY <1>1, <3>1, <3>3, <3>4 DEF Event
  <2>3. e.a = filledA[o]
    BY <1>1, <1>9 DEF OrderInv, EventsTell, MatchesOf
  <2> QED
    BY <1>4, <1>5, <1>7, <1>8, <1>9, <2>2, <2>3 DEF ShowsFills
<1>10. InTurn(o)'
  <2> SUFFICES ASSUME o \notin overtaken'
               PROVE  /\ filledB'[o] > 0 => \/ \E d \in MatchesOf(o)' : d.b = filledB'[o]
                                            \/ MatchesOf(o)' = {} /\ ShowsFills(o)'
                      /\ o \in cancelled' => \E d \in EventsOf(o)' : d.kind = "OrderCancelled"
    BY DEF InTurn
  <2>1. o \notin overtaken
    BY <1>6, TakenParts
  <2>2. /\ filledB[o] > 0 => \E d \in MatchesOf(o) : d.b = filledB[o]
        /\ o \in cancelled => \E d \in EventsOf(o) : d.kind = "OrderCancelled"
    BY <1>1, <2>1 DEF OrderInv, InTurn
  <2> QED
    BY <1>7, <1>8, <1>9, <2>2
<1> QED
  BY <1>3, <1>4, <1>6, <1>10, TakenParts, TakenKeeps

LEMMA HandleCancelledKeeps ==
    ASSUME BookAssumption, BookInv, NEW e \in events, HandleCancelled(e)
    PROVE  BookInv'
<1> DEFINE o == e.id
           row == IF o \in Present THEN [rows[o] EXCEPT !.status = "CANCELLED"]
                  ELSE NewRow(o, "CANCELLED")
<1>1. /\ TypeOK /\ o \in Orders /\ o \in Made /\ OrderInv(o) /\ o \in cancelled
      /\ e.kind = "OrderCancelled"
  BY EventOrder DEF BookInv, HandleCancelled
<1>2. rows' = [rows EXCEPT ![o] = row] /\ Taken(e)
  BY DEF HandleCancelled
<1>3. /\ row \in Row /\ Lags(o, row) /\ row.status = "CANCELLED"
      /\ o \in Present => /\ row.buyAmountFilled = rows[o].buyAmountFilled
                          /\ row.sellAmountFilled = rows[o].sellAmountFilled
  <2>1. CASE o \in Present
    BY <2>1, <1>1, PresentRow, CancelledRowLags
  <2>2. CASE o \notin Present
    BY <2>2, <1>1, NewRowLags DEF NewRow
  <2> QED
    BY <2>1, <2>2
<1> HIDE DEF row
<1>4. rows'[o] = row /\ o \in Present'
  BY <1>1, <1>2, <1>3, RecordsDiffer DEF TypeOK, Present
<1>5. UNCHANGED <<info, filledA, filledB, cancelled>>
  BY <1>2, TakenParts DEF chain
<1>6. MatchesOf(o)' = MatchesOf(o)
  BY <1>1, <1>2, TakenParts DEF MatchesOf, EventsOf
<1>7. InTurn(o)'
  <2> SUFFICES ASSUME o \notin overtaken'
               PROVE  /\ MatchesOf(o)' = {}
                      /\ filledB'[o] > 0 => ShowsFills(o)'
                      /\ rows'[o].status = "CANCELLED"
    BY <1>4 DEF InTurn
  <2>1. o \notin overtaken /\ \A d \in events : ~Before(d, e)
    BY <1>2, TakenParts
  <2>2. MatchesOf(o) = {}
    BY <2>1, <1>1 DEF MatchesOf, EventsOf, Before
  <2>3. filledB[o] > 0 => ShowsFills(o)
    BY <1>1, <2>1, <2>2 DEF OrderInv, InTurn
  <2> QED
    BY <1>3, <1>4, <1>5, <1>6, <2>2, <2>3 DEF ShowsFills
<1> QED
  BY <1>2, <1>3, <1>7, TakenParts, TakenKeeps

LEMMA LoseKeeps ==
    ASSUME BookInv, NEW e \in events, Lose(e)
    PROVE  BookInv'
<1>1. /\ TypeOK /\ e.id \in Orders /\ OrderInv(e.id)
  BY EventOrder DEF BookInv
<1>2. /\ events' = events \ {e} /\ UNCHANGED <<chain, fetched>>
      /\ overtaken' = overtaken \union {e.id} /\ rows' = rows
  BY DEF Lose, Overtaken
<1>3. /\ rows' = [rows EXCEPT ![e.id] = rows[e.id]]
      /\ rows[e.id] \in Row \union {NoRow}
      /\ rows[e.id] # NoRow => Lags(e.id, rows[e.id])
  BY <1>1, <1>2 DEF TypeOK, OrderInv, RowsLag
<1>4. InTurn(e.id)'
  BY <1>2 DEF InTurn
<1> QED
  BY <1>2, <1>3, <1>4, TakenKeeps

LEMMA MatchNotRecordedKeeps ==
    ASSUME BookAssumption, BookInv, NEW e \in events, MatchNotRecorded(e)
    PROVE  BookInv'
<1>1. /\ TypeOK /\ e.id \in Made /\ OrderInv(e.id)
  BY EventOrder DEF BookInv
<1>2. /\ events' = events \ {e} /\ UNCHANGED <<chain, fetched>>
      /\ overtaken' = overtaken \union {e.id}
      /\ rows' = [rows EXCEPT ![e.id] = NewRow(e.id, "ACTIVE")]
  BY DEF MatchNotRecorded, Overtaken
<1>3. NewRow(e.id, "ACTIVE") \in Row /\ Lags(e.id, NewRow(e.id, "ACTIVE"))
  BY <1>1, NewRowLags
<1>4. InTurn(e.id)'
  BY <1>2 DEF InTurn
<1> QED
  BY <1>2, <1>3, <1>4, TakenKeeps

-----------------------------------------------------------------------------
(* The restore                                                             *)

\* The row of an answer of getOrderInfo has the contract's fills.
LEMMA RestoredRowLags ==
    ASSUME BookAssumption, TypeOK, NEW o \in Made, OrderInv(o)
    PROVE  RestoredRow(o) \in Row /\ Lags(o, RestoredRow(o))
<1> DEFINE s == RestoredStatus(o)
           r == [buyToken |-> info[o].tokenA, sellToken |-> info[o].tokenB,
                 user |-> Lower(Owner[o]),
                 buyAmount |-> info[o].amountA, sellAmount |-> info[o].amountB,
                 buyAmountFilled |-> filledA[o], sellAmountFilled |-> filledB[o],
                 status |-> s]
<1>1. s \in {"FILLED", "PARTIALLY_FILLED", "ACTIVE"}
  BY DEF RestoredStatus
<1>2. /\ info[o].amountA \in Nat /\ info[o].amountB \in Nat
      /\ filledA[o] \in Nat /\ filledB[o] \in Nat /\ info[o].amountB > 0
      /\ filledA[o] <= info[o].amountA /\ filledB[o] <= info[o].amountB
      /\ filledB[o] = 0 => filledA[o] = 0
  BY DEF TypeOK, Made, Info, Amounts, BookAssumption, OrderInv, ContractInv
<1>3. info[o].amountA > 0 => /\ s = "FILLED" <=> IsFilled(info[o], filledA[o], filledB[o])
                             /\ s = "PARTIALLY_FILLED" => filledB[o] > 0
                             /\ s = "ACTIVE" => filledA[o] = 0 /\ filledB[o] = 0
  BY <1>2 DEF RestoredStatus, IsFilled
<1>4. RestoredRow(o) = r
  <2>1. RestoredRow(o) = [NewRow(o, s) EXCEPT !.buyAmountFilled = filledA[o],
                                              !.sellAmountFilled = filledB[o]]
    BY DEF RestoredRow
  <2> HIDE DEF s
  <2> QED
    BY <2>1 DEF NewRow
<1> HIDE DEF s
<1>5. o \in Orders /\ info[o] \in Info /\ Owner[o] \in Accounts
  BY DEF Made, TypeOK, BookAssumption
<1>6. r \in Row
  BY <1>1, <1>5 DEF Row, Info, Lower, Spelling, Open, TypeOK
<1>7. Lags(o, r)
  BY <1>1, <1>2, <1>3 DEF Lags
<1> QED
  BY <1>4, <1>6, <1>7

LEMMA FetchOrderInfoKeeps ==
    ASSUME BookAssumption, BookInv, NEW o \in Orders, FetchOrderInfo(o)
    PROVE  BookInv'
<1>1. TypeOK /\ OrderInv(o) /\ o \in Made
  BY DEF BookInv, FetchOrderInfo
<1>2. /\ fetched' = [fetched EXCEPT ![o] = RestoredRow(o)]
      /\ UNCHANGED <<info, filledA, filledB, cancelled, events, overtaken, rows>>
  BY DEF FetchOrderInfo, chain
<1>3. RestoredRow(o) \in Row /\ Lags(o, RestoredRow(o))
  BY <1>1, RestoredRowLags
<1>4. TypeOK' /\ fetched'[o] = RestoredRow(o)
  BY <1>1, <1>2, <1>3 DEF TypeOK
<1>5. \A p \in Orders \ {o} : Keeps(p)
  BY <1>1, <1>2 DEF Keeps, EventsOf, TypeOK
<1>6. /\ o \in Made' /\ Present' = Present
      /\ EventsOf(o)' = EventsOf(o) /\ MatchesOf(o)' = MatchesOf(o)
  BY <1>1, <1>2 DEF Made, Present, EventsOf, MatchesOf
<1>7. ContractInv(o)' /\ EventsTell(o)' /\ InTurn(o)'
  BY <1>1, <1>2, <1>6
  DEF OrderInv, ContractInv, EventsTell, InTurn, IsFilled, ShowsFills
<1>8. RowsLag(o)'
  BY <1>1, <1>2, <1>3, <1>4 DEF OrderInv, RowsLag, Lags, IsFilled
<1> QED
  BY <1>4, <1>5, <1>7, <1>8, OneOrder DEF OrderInv

\* A step of the restore on the rows: it takes no event, and a row that is
\* there keeps its fills and is cancelled if it was.
LEMMA RestoredKeeps ==
    ASSUME BookInv, NEW o \in Made, NEW row \in Row,
           UNCHANGED <<chain, events, overtaken>>,
           fetched' \in {fetched, [fetched EXCEPT ![o] = NoRow]},
           rows' = [rows EXCEPT ![o] = row], Lags(o, row),
           o \in Present => /\ row.buyAmountFilled = rows[o].buyAmountFilled
                            /\ row.sellAmountFilled = rows[o].sellAmountFilled
                            /\ rows[o].status = "CANCELLED" => row.status = "CANCELLED"
    PROVE  BookInv'
<1>1. /\ TypeOK /\ o \in Orders /\ OrderInv(o)
      /\ UNCHANGED <<info, filledA, filledB, cancelled, events, overtaken>>
  BY DEF BookInv, Made, chain
<1>2. TypeOK' /\ rows'[o] = row /\ fetched'[o] \in {fetched[o], NoRow}
  BY <1>1 DEF TypeOK
<1>3. \A p \in Orders \ {o} : Keeps(p)
  BY <1>1 DEF Keeps, EventsOf, TypeOK
<1>4. /\ o \in Made' /\ o \in Present'
      /\ EventsOf(o)' = EventsOf(o) /\ MatchesOf(o)' = MatchesOf(o)
  BY <1>1, <1>2, RecordsDiffer DEF Made, Present, EventsOf, MatchesOf
<1>5. ContractInv(o)' /\ EventsTell(o)'
  BY <1>1, <1>4 DEF OrderInv, ContractInv, EventsTell, IsFilled
<1>6. RowsLag(o)'
  BY <1>1, <1>2 DEF OrderInv, RowsLag, Lags, IsFilled
<1>7. InTurn(o)'
  BY <1>1, <1>2, <1>4 DEF OrderInv, InTurn, ShowsFills
<1> QED
  BY <1>1, <1>2, <1>3, <1>5, <1>6, <1>7, OneOrder DEF OrderInv

LEMMA InsertOrderKeeps ==
    ASSUME BookInv, NEW o \in Orders, InsertOrder(o)
    PROVE  BookInv'
<1> DEFINE row == IF o \in Present THEN rows[o] ELSE fetched[o]
<1>1. TypeOK /\ OrderInv(o) /\ fetched[o] # NoRow
  BY DEF BookInv, InsertOrder
<1>2. o \in Made
  BY <1>1 DEF OrderInv, ContractInv
<1>3. row \in Row /\ Lags(o, row)
  BY <1>1 DEF OrderInv, RowsLag, TypeOK, Present
<1>4. /\ rows' = [rows EXCEPT ![o] = row] /\ UNCHANGED <<chain, events, overtaken>>
      /\ fetched' = [fetched EXCEPT ![o] = NoRow]
  BY <1>1 DEF InsertOrder, TypeOK
<1> QED
  BY <1>2, <1>3, <1>4, RestoredKeeps

LEMMA RestoreCancelledKeeps ==
    ASSUME BookInv, NEW o \in Orders, RestoreCancelled(o)
    PROVE  BookInv'
<1> DEFINE row == [rows[o] EXCEPT !.status = "CANCELLED"]
<1>1. TypeOK /\ OrderInv(o) /\ o \in cancelled /\ o \in Present
  BY DEF BookInv, RestoreCancelled
<1>2. o \in Made
  BY <1>1 DEF OrderInv, ContractInv
<1>3. rows' = [rows EXCEPT ![o] = row] /\ UNCHANGED <<chain, events, overtaken, fetched>>
  BY DEF RestoreCancelled
<1>4. /\ row \in Row /\ Lags(o, row) /\ row.status = "CANCELLED"
      /\ row.buyAmountFilled = rows[o].buyAmountFilled
      /\ row.sellAmountFilled = rows[o].sellAmountFilled
  BY <1>1, PresentRow, CancelledRowLags
<1> QED
  BY <1>2, <1>3, <1>4, RestoredKeeps

-----------------------------------------------------------------------------
(* The invariant                                                           *)

LEMMA StepKeeps == ASSUME BookAssumption, BookInv, [Next]_vars PROVE BookInv'
<1>1. ASSUME ContractStep PROVE BookInv'
  BY <1>1, PlaceKeeps, MatchKeeps, CancelKeeps DEF ContractStep
<1>2. ASSUME TableStep PROVE BookInv'
  BY <1>2, HandleCreatedKeeps, HandleMatchedKeeps, HandleCancelledKeeps, LoseKeeps,
     MatchNotRecordedKeeps, FetchOrderInfoKeeps, InsertOrderKeeps, RestoreCancelledKeeps
  DEF TableStep
<1>3. ASSUME UNCHANGED vars PROVE BookInv'
  <2>1. /\ UNCHANGED <<info, filledA, filledB, cancelled>>
        /\ UNCHANGED <<events, overtaken, rows, fetched>>
    BY <1>3 DEF vars, chain
  <2>2. \A p \in Orders : Keeps(p)
    BY <2>1 DEF Keeps, EventsOf
  <2>3. \A p \in Orders : OrderInv(p)'
    BY <2>2, KeptOrder DEF BookInv
  <2> QED
    BY <2>1, <2>3 DEF BookInv, TypeOK, Present
<1> QED
  BY <1>1, <1>2, <1>3 DEF Next

\* However late, out of order or incomplete the events are handled, the lag of
\* the table is that of the events, and nothing else.
THEOREM BookInvariance == Spec => []BookInv
<1>1. Init => BookInv
  BY BookAssumption, InitEstablishes
<1>2. BookInv /\ [Next]_vars => BookInv'
  BY BookAssumption, StepKeeps
<1> QED
  BY <1>1, <1>2, PTL DEF Spec

\* Each variable keeps its type.
THEOREM BookTyped == Spec => []TypeOK
<1>1. BookInv => TypeOK
  BY DEF BookInv
<1> QED
  BY <1>1, BookInvariance, PTL

-----------------------------------------------------------------------------
(* The queries                                                             *)

\* What the invariant says of an order with a row.
LEMMA RowParts ==
    ASSUME BookInv, NEW o \in Present
    PROVE  /\ o \in Orders /\ o \in Made /\ OrderInv(o)
           /\ rows[o] \in Row /\ Lags(o, rows[o])
           /\ info[o].amountA \in Nat /\ info[o].amountB \in Nat /\ info[o].amountB > 0
           /\ filledA[o] \in Nat /\ filledB[o] \in Nat
           /\ filledA[o] <= info[o].amountA /\ filledB[o] <= info[o].amountB
           /\ rows[o].buyAmountFilled \in Nat /\ rows[o].sellAmountFilled \in Nat
<1>1. TypeOK /\ o \in Orders /\ OrderInv(o)
  BY DEF BookInv, Present
<1>2. rows[o] \in Row /\ Lags(o, rows[o])
  BY <1>1, PresentRow
<1>3. o \in Made
  BY <1>1 DEF OrderInv, ContractInv, Present
<1>4. info[o] \in Info
  BY <1>1, <1>3 DEF Made, TypeOK
<1> QED
  BY BookAssumption, <1>1, <1>2, <1>3, <1>4
  DEF TypeOK, OrderInv, ContractInv, Info, Row, Amounts

\* The status of a limit order that is open on the chain is open in its row.
LEMMA OpenShown ==
    ASSUME BookInv, NEW o \in Present \intersect LimitOrders, OpenOnChain(o)
    PROVE  rows[o].status \in Open
<1>1. /\ info[o].amountA > 0 /\ o \notin cancelled
      /\ ~IsFilled(info[o], filledA[o], filledB[o])
  BY DEF LimitOrders, OpenOnChain
<1>2. rows[o].status # "CANCELLED"
  BY <1>1, RowParts DEF Lags
<1>3. rows[o].status # "FILLED"
  <2>1. /\ rows[o].buyAmountFilled <= filledA[o] /\ rows[o].sellAmountFilled <= filledB[o]
    BY RowParts DEF Lags
  <2>2. ~IsFilled(info[o], rows[o].buyAmountFilled, rows[o].sellAmountFilled)
    BY <1>1, <2>1, RowParts DEF IsFilled
  <2> QED
    BY <1>1, <1>2, <2>2, RowParts DEF Lags
<1> QED
  BY <1>2, <1>3, RowParts DEF Row

\* The row of an order that is up to date shows what the contract filled, and
\* if it is a limit order whose row is open, the order is.
LEMMA UpToDateShown ==
    ASSUME BookInv, NEW o \in Present, UpToDate(o)
    PROVE  /\ ShowsFills(o)
           /\ o \in LimitOrders /\ rows[o].status \in Open => OpenOnChain(o)
<1>1. EventsOf(o) = {} /\ MatchesOf(o) = {} /\ o \notin overtaken
  BY DEF UpToDate, EventsOf, MatchesOf
<1>2. filledB[o] > 0 => ShowsFills(o)
  BY <1>1, RowParts DEF OrderInv, InTurn
<1>3. filledB[o] = 0 => ShowsFills(o)
  <2> SUFFICES ASSUME filledB[o] = 0
               PROVE  rows[o].buyAmountFilled = filledA[o] /\ rows[o].sellAmountFilled = filledB[o]
    BY DEF ShowsFills
  <2>1. filledA[o] = 0
    BY RowParts DEF OrderInv, ContractInv
  <2>2. rows[o].buyAmountFilled <= filledA[o] /\ rows[o].sellAmountFilled <= filledB[o]
    BY RowParts DEF Lags
  <2> QED
    BY <2>1, <2>2, RowParts
<1>4. ShowsFills(o)
  BY <1>2, <1>3, RowParts
<1>5. ASSUME o \in LimitOrders, rows[o].status \in Open
      PROVE  OpenOnChain(o)
  <2>1. o \notin cancelled
    BY <1>1, <1>5, RowParts DEF OrderInv, InTurn, Open
  <2>2. ~IsFilled(info[o], filledA[o], filledB[o])
    BY <1>4, <1>5, RowParts DEF ShowsFills, Lags, Open, LimitOrders
  <2> QED
    BY <2>1, <2>2, RowParts DEF OpenOnChain
<1> QED
  BY <1>4, <1>5

\* An order that could be matched is among the candidates.
LEMMA AvailableOffered ==
    ASSUME BookInv, NEW q \in MatchRequest, NEW o \in Available(q)
    PROVE  o \in Candidates(q)
<1>1. o \in Present \intersect LimitOrders /\ OpenOnChain(o) /\ Wanted(q, o)
  BY DEF Available
<1>2. rows[o].status \in Open
  BY <1>1, OpenShown
<1>3. q.amountA \in Nat /\ q.amountB \in Nat
  BY BookAssumption DEF MatchRequest, Amounts
<1>4. Suits(q, rows[o])
  BY <1>1, <1>2, <1>3, RowParts DEF Wanted, Suits, Lags
<1> QED
  BY <1>1, <1>4 DEF Candidates

\* However late, out of order or incomplete the events are handled,
\* getMatchingOrders finds each limit order that has a row, is open and has as
\* much left as the request asks for.
THEOREM NothingIsHidden == Spec => []NothingHidden
<1>1. BookInv => NothingHidden
  BY AvailableOffered DEF NothingHidden
<1> QED
  BY <1>1, BookInvariance, PTL

\* A candidate with no event that waits, was lost or was overtaken is open and
\* has what the request asks for.
THEOREM OffersAreGood == Spec => []OffersGood
<1>1. ASSUME BookInv, NEW q \in MatchRequest, q.amountA = 0 \/ q.amountB > 0,
             NEW o \in Candidates(q), UpToDate(o)
      PROVE  OpenOnChain(o) /\ Wanted(q, o)
  <2>1. o \in Present /\ Suits(q, rows[o])
    BY DEF Candidates
  <2>2. ShowsFills(o) /\ rows[o].status \in Open
    BY <1>1, <2>1, UpToDateShown DEF Suits
  <2>3. q.amountA \in Nat /\ q.amountB \in Nat
    BY BookAssumption DEF MatchRequest, Amounts
  <2>4. Wanted(q, o)
    BY <1>1, <2>1, <2>2, <2>3, RowParts DEF Suits, Lags, Wanted, ShowsFills
  <2>5. info[o].amountA > 0
    BY <1>1, <2>1, <2>3, <2>4, RowParts DEF Wanted
  <2>6. o \in LimitOrders
    BY <1>1, <2>1, <2>5, RowParts DEF LimitOrders
  <2> QED
    BY <1>1, <2>1, <2>2, <2>4, <2>6, UpToDateShown
<1>2. BookInv => OffersGood
  BY <1>1 DEF OffersGood
<1> QED
  BY <1>2, BookInvariance, PTL

\* The active book of an owner has each open limit order that has a row, and
\* of those that are up to date no others.
THEOREM BookShowsWhatIsOpen == Spec => []BookShowsOpen
<1>1. ASSUME BookInv, NEW o \in Present \intersect LimitOrders
      PROVE  LET book == GetOrderBook({info[o].tokenA}, {info[o].tokenB}, {Lower(Owner[o])}, TRUE)
             IN  /\ OpenOnChain(o) => o \in book
                 /\ UpToDate(o) /\ o \in book => OpenOnChain(o)
  <2>1. OpenOnChain(o) => rows[o].status \in Open
    BY <1>1, OpenShown
  <2>2. UpToDate(o) /\ rows[o].status \in Open => OpenOnChain(o)
    BY <1>1, UpToDateShown
  <2>3. Lags(o, rows[o])
    BY <1>1, RowParts
  <2> QED
    BY <2>1, <2>2, <2>3 DEF GetOrderBook, Lags
<1>2. BookInv => BookShowsOpen
  BY <1>1 DEF BookShowsOpen
<1> QED
  BY <1>2, BookInvariance, PTL

\* A limit order whose row shows the contract's fills has the status the
\* restore would give it.
THEOREM LiveAgreesWithRestore == Spec => []RestoredLikeLive
<1>1. ASSUME BookInv, NEW o \in LimitOrders \ cancelled, ShowsFills(o)
      PROVE  rows[o].status = RestoredStatus(o)
  <2>1. o \in Present /\ info[o].amountA > 0
    BY <1>1 DEF ShowsFills, LimitOrders
  <2>2. rows[o].status # "CANCELLED" /\ rows[o].status \in Open \union {"FILLED", "CANCELLED"}
    BY <1>1, <2>1, RowParts DEF Lags, Row
  <2>3. /\ rows[o].status = "FILLED" <=> IsFilled(info[o], filledA[o], filledB[o])
        /\ rows[o].status = "PARTIALLY_FILLED" => filledB[o] > 0
        /\ rows[o].status = "ACTIVE" => filledA[o] = 0 /\ filledB[o] = 0
    BY <1>1, <2>1, <2>2, RowParts DEF Lags, ShowsFills
  <2> QED
    BY <1>1, <2>1, <2>2, <2>3, RowParts DEF RestoredStatus, IsFilled, Open
<1>2. BookInv => RestoredLikeLive
  BY <1>1 DEF RestoredLikeLive
<1> QED
  BY <1>2, BookInvariance, PTL

-----------------------------------------------------------------------------
(* The order of the answers                                                *)

\* An answer holds every candidate: it has as many places as there are
\* candidates, and no two places hold the same one.
LEMMA EachCandidateAnswered ==
    ASSUME BookInv, NEW q \in MatchRequest, NEW s \in GetMatchingOrders(q),
           NEW o \in Candidates(q)
    PROVE  /\ 1 \in DOMAIN s
           /\ \E k \in DOMAIN s : s[k] = o
<1> DEFINE C == Candidates(q)
           n == Cardinality(C)
<1>1. IsFiniteSet(C) /\ n \in Nat
  BY FS_Subset, FS_CardinalityType DEF Candidates, BookInv
<1>2. n # 0
  BY <1>1, FS_EmptySet
<1>3. s \in [1..n -> C] /\ \A i, j \in 1..n : i # j => s[i] # s[j]
  <2>1. s \in [1..n -> C] /\ DOMAIN s = 1..n
    BY DEF GetMatchingOrders
  <2>2. \A i, j \in 1..n : i < j => s[i] # s[j]
    BY <2>1 DEF GetMatchingOrders
  <2> HIDE DEF n
  <2>3. \A i, j \in 1..n : i # j => i < j \/ j < i
    BY <1>1
  <2> QED
    BY <2>1, <2>2, <2>3
<1>4. IsFiniteSet(1..n) /\ Cardinality(1..n) = n
  <2> HIDE DEF n
  <2> QED
    BY <1>1, FS_Interval
<1>5. IsFiniteSet(C \ {o}) /\ Cardinality(C \ {o}) = n - 1
  BY <1>1, FS_RemoveElement
<1> HIDE DEF n, C
<1>6. \E k \in 1..n : s[k] = o
  <2> SUFFICES ASSUME \A k \in 1..n : s[k] # o
               PROVE  FALSE
    OBVIOUS
  <2>1. s \in [1..n -> C \ {o}]
    BY <1>3
  <2>2. \E i, j \in 1..n : i # j /\ s[i] = s[j]
    BY <1>1, <1>4, <1>5, <2>1, FS_PigeonHole
  <2> QED
    BY <1>3, <2>2
<1>7. DOMAIN s = 1..n /\ 1 \in 1..n
  BY <1>1, <1>2, <1>3
<1> QED
  BY <1>6, <1>7

\* The first answer of getMatchingOrders is at least as good, at the prices
\* the contract has, as any order that could really be matched.
THEOREM BestPriceIsFirst == Spec => []BestPriceFirst
<1>1. ASSUME BookInv, NEW q \in MatchRequest, NEW s \in GetMatchingOrders(q),
             NEW o \in Available(q)
      PROVE  /\ s # << >>
             /\ info[s[1]].amountA > 0
             /\ info[s[1]].amountB * info[o].amountA >= info[o].amountB * info[s[1]].amountA
  <2> DEFINE p == s[1]
  <2>1. o \in Candidates(q) /\ o \in LimitOrders /\ o \in Present
    BY <1>1, AvailableOffered DEF Available
  <2>2. 1 \in DOMAIN s /\ \E k \in DOMAIN s : s[k] = o
    BY <1>1, <2>1, EachCandidateAnswered
  <2>3. s # << >>
    BY <2>2
  <2>4. p \in Present
    BY <2>2 DEF GetMatchingOrders, Candidates
  <2>5. rows[p].buyAmount = info[p].amountA /\ rows[p].sellAmount = info[p].amountB
    BY <1>1, <2>4, RowParts DEF Lags
  <2>6. /\ rows[o].buyAmount = info[o].amountA /\ rows[o].sellAmount = info[o].amountB
        /\ info[o].amountA > 0
    BY <1>1, <2>1, RowParts DEF Lags, LimitOrders
  <2>7. CASE p = o
    BY <1>1, <2>1, <2>3, <2>6, <2>7, RowParts
  <2>8. CASE p # o
    <3>1. ~Cheaper(o, p)
      <4>1. PICK k \in DOMAIN s : s[k] = o
        BY <2>2
      <4>2. DOMAIN s = 1..Cardinality(Candidates(q))
        BY DEF GetMatchingOrders
      <4>3. 1 < k
        BY <2>8, <4>1, <4>2
      <4> QED
        BY <2>2, <4>1, <4>3 DEF GetMatchingOrders
    <3>2. /\ info[p].amountA # 0
          /\ ~(info[o].amountB * info[p].amountA > info[p].amountB * info[o].amountA)
      BY <1>1, <2>1, <2>5, <2>6, <3>1, RowParts DEF Cheaper
    <3>3. info[p].amountA \in Nat /\ info[p].amountB \in Nat
      BY <1>1, <2>4, RowParts
    <3>4. info[o].amountA \in Nat /\ info[o].amountB \in Nat
      BY <1>1, <2>1, RowParts
    <3> QED
      BY <2>3, <3>2, <3>3, <3>4
  <2> QED
    BY <2>7, <2>8
<1>2. BookInv => BestPriceFirst
  BY <1>1 DEF BestPriceFirst
<1> QED
  BY <1>2, BookInvariance, PTL
=============================================================================
