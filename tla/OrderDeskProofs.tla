--------------------------- MODULE OrderDeskProofs ---------------------------
(***************************************************************************)
(* Machine-checked proofs about OrderDesk, for any number of orders,       *)
(* users, handlers and shares, any prices and any limits.                  *)
(*                                                                         *)
(* The sums over a user's orders are changed by one order at a time, which *)
(* is how every step is treated: the summand before and after it, and      *)
(* SumUpdate of SumTheorems for the rest.                                  *)
(***************************************************************************)
EXTENDS OrderDesk, SumTheorems

-----------------------------------------------------------------------------
(* What the operators return. *)

\* A scenario's book, prices, limits and handlers.
LEMMA EnvFacts ==
  ASSUME TypeOK
  PROVE  /\ \A o \in Order : Template(o) \in Request /\ Owner(o) \in User /\ Template(o).qty \in Nat
         /\ env.prices \subseteq Nat /\ env.limits \subseteq Nat /\ env.handlers \subseteq Handler
<1>1. env \in Scenarios
  BY DEF TypeOK
<1>2. env.book \in [Order -> Request] /\ env.prices \subseteq Nat /\ env.limits \subseteq Nat
      /\ env.handlers \subseteq Handler
  BY <1>1, DeskAssumption
<1> QED BY <1>2 DEF Template, Owner, Request

\* DivRound rounds to the nearest number: it does not go past a number that is
\* at least the quotient, and finds the quotient when there is one.
LEMMA DivRoundFacts ==
  ASSUME NEW x \in Nat, NEW y \in Nat \ {0}
  PROVE  /\ DivRound(x, y) \in Nat
         /\ \A z \in Nat : x <= y * z => DivRound(x, y) <= z
         /\ \A z \in Nat : x = y * z => DivRound(x, y) = z
<1>1. ASSUME NEW a \in Nat, NEW b \in Nat \ {0} PROVE a \div b \in Nat
  OBVIOUS
<1>2. ASSUME NEW a \in Nat, NEW b \in Nat \ {0}, NEW z \in Nat, a < b * (z + 1) PROVE a \div b <= z
  BY <1>2
<1>3. ASSUME NEW a \in Nat, NEW b \in Nat \ {0}, NEW z \in Nat, b * z <= a PROVE z <= a \div b
  BY <1>3
<1> DEFINE a == 2 * x + y
           b == 2 * y
<1>4. a \in Nat /\ b \in Nat \ {0} /\ DivRound(x, y) = a \div b
  BY DEF DivRound
<1>5. ASSUME NEW z \in Nat, x <= y * z PROVE a < b * (z + 1)
  <2>1. y * z \in Nat /\ b * (z + 1) = 2 * (y * z) + 2 * y
    OBVIOUS
  <2> QED BY <1>5, <2>1
<1>6. ASSUME NEW z \in Nat, x = y * z PROVE b * z <= a
  <2>1. y * z \in Nat /\ b * z = 2 * (y * z)
    OBVIOUS
  <2> QED BY <1>6, <2>1
<1> HIDE DEF a, b
<1>7. DivRound(x, y) \in Nat
  BY <1>1, <1>4
<1>8. ASSUME NEW z \in Nat, x <= y * z PROVE DivRound(x, y) <= z
  BY <1>2, <1>4, <1>5, <1>8
<1>9. ASSUME NEW z \in Nat, x = y * z PROVE DivRound(x, y) = z
  <2>1. z <= DivRound(x, y)
    BY <1>3, <1>4, <1>6, <1>9
  <2>2. x <= y * z
    BY <1>9
  <2> QED BY <1>7, <1>8, <2>1, <2>2
<1> QED BY <1>7, <1>8, <1>9

\* What is released of an order's exposure is part of it, and all of it when all
\* portions go; an order that holds the reference price of every portion still
\* does when n of them go.
LEMMA ReleasableFacts ==
  ASSUME NEW row \in OrderRow, NEW n \in 0 .. row.rem
  PROVE  /\ Releasable(row, n) \in Nat /\ Releasable(row, n) <= row.exp
         /\ n > 0 /\ RefPrice * row.rem <= row.exp => RefPrice * (row.rem - n) <= row.exp - Releasable(row, n)
         /\ n > 0 /\ row.exp = RefPrice * row.rem => RefPrice * (row.rem - n) = row.exp - Releasable(row, n)
<1>0. row.rem \in Nat /\ row.exp \in Nat /\ n \in Nat /\ n <= row.rem /\ RefPrice \in Nat
  BY DeskAssumption DEF OrderRow
<1> DEFINE r == row.rem
           e == row.exp
<1>a. r = row.rem /\ e = row.exp
  OBVIOUS
<1> HIDE DEF r, e
<1>b. r \in Nat /\ e \in Nat /\ n \in Nat /\ n <= r
  BY <1>0, <1>a
<1>1. CASE n = 0
  BY <1>0, <1>1 DEF Releasable
<1>2. CASE n > 0
  <2>1. r \in Nat \ {0} /\ e * n \in Nat
    BY <1>2, <1>b
  <2>2. Releasable(row, n) = Least(DivRound(e * n, r), e)
    BY <1>2, <1>0, <1>a DEF Releasable
  <2>3. DivRound(e * n, r) \in Nat
    BY <2>1, DivRoundFacts
  <2>4. Releasable(row, n) \in Nat /\ Releasable(row, n) <= e /\ Releasable(row, n) <= DivRound(e * n, r)
    BY <1>b, <2>2, <2>3 DEF Least
  <2>5. ASSUME RefPrice * r <= e PROVE RefPrice * (r - n) <= e - Releasable(row, n)
    <3> DEFINE z == e - RefPrice * (r - n)
    <3>1. RefPrice * r \in Nat /\ RefPrice * n \in Nat /\ RefPrice * (r - n) = RefPrice * r - RefPrice * n
      BY <1>0, <1>b
    <3>2. z \in Nat
      BY <1>b, <2>5, <3>1
    <3>3. e * n <= r * z
      <4> DEFINE d == e - RefPrice * r
      <4>1. d \in Nat
        BY <1>b, <2>5, <3>1
      <4>2. e * n = (RefPrice * r) * n + d * n
        BY <1>b, <3>1
      <4>3. r * z = r * (RefPrice * n) + r * d
        BY <1>b, <3>1, <4>1
      <4> HIDE DEF d, z
      <4>4. (RefPrice * r) * n = r * (RefPrice * n)
        BY <1>b, <1>0
      <4>5. d * n <= r * d /\ d * n \in Nat /\ r * d \in Nat /\ r * (RefPrice * n) \in Nat
        BY <1>b, <3>1, <4>1
      <4> QED BY <4>2, <4>3, <4>4, <4>5
    <3> HIDE DEF z
    <3>4. DivRound(e * n, r) <= z
      BY <2>1, <3>2, <3>3, DivRoundFacts
    <3>5. Releasable(row, n) <= z
      BY <2>3, <2>4, <3>2, <3>4
    <3> QED BY <1>b, <2>4, <3>1, <3>2, <3>5 DEF z
  <2>6. ASSUME e = RefPrice * r PROVE RefPrice * (r - n) = e - Releasable(row, n)
    <3>1. RefPrice * n \in Nat /\ e * n = r * (RefPrice * n) /\ RefPrice * (r - n) = RefPrice * r - RefPrice * n
          /\ RefPrice * n <= RefPrice * r /\ RefPrice * r \in Nat
      BY <1>0, <1>b, <2>6
    <3>2. DivRound(e * n, r) = RefPrice * n
      BY <2>1, <3>1, DivRoundFacts
    <3> QED BY <1>b, <2>2, <2>6, <3>1, <3>2 DEF Least
  <2> QED BY <1>a, <2>4, <2>5, <2>6
<1> QED BY <1>b, <1>1, <1>2

-----------------------------------------------------------------------------
(* Types. *)

\* The fields of a row.
LEMMA RowFacts ==
  ASSUME NEW row \in OrderRow
  PROVE  row.st \in Status /\ row.rem \in Nat /\ row.exp \in Nat /\ row.appr \in Approver
  BY DEF OrderRow

\* A row with new values is one.
LEMMA RowUpdate ==
  ASSUME NEW row \in OrderRow, NEW st \in Status, NEW r \in Nat, NEW e \in Nat, NEW a \in Approver
  PROVE  /\ [row EXCEPT !.st = st, !.appr = a, !.exp = e] \in OrderRow
         /\ [row EXCEPT !.st = st, !.appr = a, !.rem = r] \in OrderRow
         /\ [row EXCEPT !.st = st, !.appr = a] \in OrderRow
         /\ [row EXCEPT !.rem = r, !.exp = e, !.st = st] \in OrderRow
         /\ [row EXCEPT !.st = st, !.rem = r] \in OrderRow
         /\ [st |-> st, appr |-> a, rem |-> r, exp |-> e] \in OrderRow
  BY DEF OrderRow

\* The tables' rows.
LEMMA DeskFacts ==
  ASSUME TypeOK
  PROVE  /\ \A o \in Order : order[o] \in OrderRow
         /\ \A u \in User : pos[u].qty \in Nat /\ pos[u].res \in Nat
         /\ \A a \in Agent : act[a].limit \in Nat /\ act[a].used \in Nat /\ act[a].resv \in Nat
         /\ \A h \in Handler : read[h] # NoCopy => read[h].o \in Order /\ read[h].row \in OrderRow
         /\ \A o \in Order : queue[o] \in Nat
  BY DEF TypeOK

\* The position after a release or a trade, and the agent's row.
LEMMA PosUpdate ==
  ASSUME TypeOK, NEW u \in User, NEW q \in Nat, NEW r \in Nat
  PROVE  /\ [pos EXCEPT ![u].res = r] \in [User -> [qty : Nat, res : Nat]]
         /\ [pos EXCEPT ![u].qty = q] \in [User -> [qty : Nat, res : Nat]]
         /\ [pos EXCEPT ![u].qty = q, ![u].res = r] \in [User -> [qty : Nat, res : Nat]]
  BY DEF TypeOK

ActRow == [limit : Nat, used : Nat, resv : Nat, need : BOOLEAN]
Tally ==
  [filled : Nat, rows : Nat, value : Nat, paid : Nat, lost : Nat, fee : Nat, holding : Nat]

\* The row of an agent changes.
LEMMA ActUpdate ==
  ASSUME TypeOK, NEW a \in Agent, NEW x \in Nat, NEW y \in Nat
  PROVE  /\ [act EXCEPT ![a].resv = x] \in [Agent -> ActRow]
         /\ [act EXCEPT ![a].limit = x] \in [Agent -> ActRow]
         /\ [act EXCEPT ![a].resv = x, ![a].used = y] \in [Agent -> ActRow]
         /\ [act EXCEPT ![a].used = x, ![a].resv = y] \in [Agent -> ActRow]
<1>1. act \in [Agent -> ActRow]
  BY DEF TypeOK, ActRow
<1>2. ASSUME NEW r \in ActRow
      PROVE  /\ [r EXCEPT !.resv = x] \in ActRow /\ [r EXCEPT !.limit = x] \in ActRow
             /\ [r EXCEPT !.resv = x, !.used = y] \in ActRow /\ [r EXCEPT !.used = x, !.resv = y] \in ActRow
  BY DEF ActRow
<1> QED BY <1>1, <1>2

\* Releasing and trading keep the types.
LEMMA UnreservedType ==
  ASSUME TypeOK, NEW o \in Order, NEW n \in Nat
  PROVE  Unreserved(o, n) \in [User -> [qty : Nat, res : Nat]]
<1>1. Owner(o) \in User
  BY EnvFacts
<1>2. AtLeastZero(pos[Owner(o)].res - n) \in Nat
  BY <1>1, DeskFacts DEF AtLeastZero
<1>3. [pos EXCEPT ![Owner(o)].res = AtLeastZero(pos[Owner(o)].res - n)] \in [User -> [qty : Nat, res : Nat]]
  BY <1>1, <1>2, PosUpdate
<1> QED BY <1>1, <1>3 DEF Unreserved, TypeOK

\* What an order gives back to its agent keeps the type of the agents.
LEMMA UnexposedType ==
  ASSUME TypeOK, NEW o \in Order, NEW row \in OrderRow, NEW n \in 0 .. row.rem
  PROVE  Unexposed(o, row, n) \in [Agent -> ActRow]
<1>1. ASSUME Owner(o) \in Agent
      PROVE  [act EXCEPT ![Owner(o)].resv = AtLeastZero(act[Owner(o)].resv - Releasable(row, n))] \in [Agent -> ActRow]
  <2>1. AtLeastZero(act[Owner(o)].resv - Releasable(row, n)) \in Nat
    BY <1>1, DeskFacts, ReleasableFacts DEF AtLeastZero
  <2> QED BY <1>1, <2>1, ActUpdate
<1>2. act \in [Agent -> ActRow]
  BY DEF TypeOK, ActRow
<1> QED BY <1>1, <1>2 DEF Unexposed

\* The first values of the variables have their types.
LEMMA TypeInit == Init => TypeOK
<1> SUFFICES ASSUME Init PROVE TypeOK
  OBVIOUS
<1>1. order \in [Order -> OrderRow]
  BY DEF Init, OrderRow, Status, Approver
<1>2. pos \in [User -> [qty : Nat, res : Nat]] /\ read \in [Handler -> {NoCopy} \cup [o : Order, row : OrderRow]]
  BY DeskAssumption DEF Init
<1>3. act \in [Agent -> ActRow]
  BY DeskAssumption DEF Init, ActRow
<1>4. tally \in [Order -> Tally]
  BY DEF Init, Tally
<1> QED BY <1>1, <1>2, <1>3, <1>4 DEF Init, TypeOK, ActRow, Tally

\* A decline, by a supervisor or by the expiry job.
LEMMA DeclineType ==
  ASSUME TypeOK, NEW o \in Order, NEW row \in OrderRow, NEW a \in Approver, declinePendingOrder(o, row, a)
  PROVE  /\ order' \in [Order -> OrderRow] /\ pos' \in [User -> [qty : Nat, res : Nat]]
         /\ act' \in [Agent -> ActRow]
<1>1. row.rem \in Nat /\ row.rem \in 0 .. row.rem
  BY RowFacts
<1>2. pos' \in [User -> [qty : Nat, res : Nat]] /\ act' \in [Agent -> ActRow]
  BY <1>1, UnreservedType, UnexposedType DEF declinePendingOrder
<1>3. row.exp - Releasable(row, row.rem) \in Nat
  BY <1>1, ReleasableFacts, RowFacts
<1>4. [st |-> "DECLINED", appr |-> a, rem |-> 0, exp |-> row.exp - Releasable(row, row.rem)] \in OrderRow
  BY <1>3 DEF OrderRow, Status
<1> QED BY <1>2, <1>4 DEF declinePendingOrder, TypeOK

\* Every step keeps the types.
LEMMA TypeStep == TypeOK /\ [Next]_vars => TypeOK'
<1> SUFFICES ASSUME TypeOK, [Next]_vars PROVE TypeOK'
  OBVIOUS
<1>a. order \in [Order -> OrderRow] /\ act \in [Agent -> ActRow] /\ tally \in [Order -> Tally]
  BY DEF TypeOK, ActRow, Tally
<1>b. \A o \in Order : order[o] \in OrderRow /\ order[o].rem \in Nat /\ order[o].exp \in Nat
  BY DeskFacts, RowFacts
<1>1. ASSUME NEW o \in Order, CreateBuyOrder(o) \/ CreateSellOrder(o) PROVE TypeOK'
  <2>1. [order[o] EXCEPT !.st = "PENDING_CONFIRMATION", !.rem = Template(o).qty] \in OrderRow
    BY <1>b, EnvFacts DEF OrderRow, Status
  <2>2. order' \in [Order -> OrderRow]
    BY <1>1, <1>a, <2>1 DEF CreateBuyOrder, CreateSellOrder, Draft
  <2> QED BY <1>1, <2>2 DEF CreateBuyOrder, CreateSellOrder, Draft, TypeOK
<1>2. ASSUME NEW o \in Order, AutoDeclineExpiredPendingOrders(o) PROVE TypeOK'
  <2>1. /\ order' \in [Order -> OrderRow] /\ pos' \in [User -> [qty : Nat, res : Nat]]
        /\ act' \in [Agent -> ActRow]
    BY <1>2, <1>b, DeclineType DEF AutoDeclineExpiredPendingOrders, Approver
  <2> QED BY <1>2, <2>1 DEF AutoDeclineExpiredPendingOrders, TypeOK, ActRow
<1>3. ASSUME NEW o \in Order, NEW n \in 1 .. order[o].rem, CancelOrder(o, n) PROVE TypeOK'
  <2>1. n \in 0 .. order[o].rem /\ n \in Nat /\ order[o].rem - n \in Nat
    BY <1>3, <1>b
  <2>2. pos' \in [User -> [qty : Nat, res : Nat]] /\ act' \in [Agent -> ActRow]
    BY <1>3, <1>b, <2>1, UnreservedType, UnexposedType DEF CancelOrder
  <2>3. order[o].exp - Releasable(order[o], n) \in Nat
    BY <1>b, <2>1, ReleasableFacts
  <2>4. order' \in [Order -> OrderRow]
    <3> DEFINE st == IF order[o].rem = n THEN "CANCELLED" ELSE order[o].st
    <3>1. st \in Status
      BY <1>b, RowFacts DEF Status
    <3>2. order' = [order EXCEPT ![o] =
                      [order[o] EXCEPT !.rem = order[o].rem - n, !.exp = order[o].exp - Releasable(order[o], n),
                                       !.st = st]]
      BY <1>3, <1>a, <1>b DEF CancelOrder, OrderRow
    <3> HIDE DEF st
    <3>3. [order[o] EXCEPT !.rem = order[o].rem - n, !.exp = order[o].exp - Releasable(order[o], n), !.st = st]
             \in OrderRow
      BY <1>b, <2>1, <2>3, <3>1 DEF OrderRow
    <3> QED BY <1>a, <3>2, <3>3
  <2> QED BY <1>3, <2>2, <2>4 DEF CancelOrder, TypeOK, ActRow
<1>4. ASSUME NEW o \in Order, AttemptStops(o) \/ LoadFailed(o) PROVE TypeOK'
  BY <1>4 DEF AttemptStops, LoadFailed, TypeOK
<1>5. ASSUME NEW o \in Order, NEW n \in 1 .. order[o].rem, NEW p \in env.prices, NEW kept \in BOOLEAN,
             executeOrderPortion(o, n, p, kept)
      PROVE  TypeOK'
  <2>1. n \in Nat /\ order[o].rem - n \in Nat /\ n * p \in Nat /\ Owner(o) \in User
    <3>1. p \in Nat /\ n \in Nat /\ order[o].rem - n \in Nat
      BY <1>b, EnvFacts
    <3> QED BY <3>1, EnvFacts
  <2>2. pos' \in [User -> [qty : Nat, res : Nat]]
    <3>1. IsSell(o) => pos[Owner(o)].qty - n \in Nat
      BY <1>5, <2>1, DeskFacts DEF executeOrderPortion
    <3>2. AtLeastZero(pos[Owner(o)].res - n) \in Nat /\ pos[Owner(o)].qty + n \in Nat
      BY <2>1, DeskFacts DEF AtLeastZero
    <3>3. Traded(o, n) \in [User -> [qty : Nat, res : Nat]]
      BY <2>1, <3>1, <3>2, PosUpdate DEF Traded, TypeOK
    <3> QED BY <1>5, <3>3 DEF executeOrderPortion
  <2>3. act' \in [Agent -> ActRow]
    <3>1. ASSUME BankFunded(o)
          PROVE  [act EXCEPT ![Owner(o)].resv = AtLeastZero(act[Owner(o)].resv - n * p),
                             ![Owner(o)].used = act[Owner(o)].used + n * p] \in [Agent -> ActRow]
      <4>1. AtLeastZero(act[Owner(o)].resv - n * p) \in Nat /\ act[Owner(o)].used + n * p \in Nat
            /\ Owner(o) \in Agent
        BY <2>1, <3>1, DeskFacts DEF AtLeastZero, BankFunded
      <4> QED BY <4>1, ActUpdate
    <3>2. Finalized(o, n * p) \in [Agent -> ActRow]
      BY <1>a, <3>1 DEF Finalized
    <3> QED BY <1>5, <3>2 DEF executeOrderPortion
  <2>4. order' \in [Order -> OrderRow]
    <3> DEFINE st == IF order[o].rem = n THEN "DONE" ELSE order[o].st
               e == IF BankFunded(o) THEN AtLeastZero(order[o].exp - n * p) ELSE order[o].exp
    <3>1. st \in Status /\ e \in Nat
      BY <1>b, <2>1, RowFacts DEF Status, AtLeastZero
    <3>2. order' = [order EXCEPT ![o] = [order[o] EXCEPT !.rem = order[o].rem - n, !.exp = e, !.st = st]]
      BY <1>5, <1>a, <1>b DEF executeOrderPortion, OrderRow
    <3> HIDE DEF st, e
    <3>3. [order[o] EXCEPT !.rem = order[o].rem - n, !.exp = e, !.st = st] \in OrderRow
      BY <1>b, <2>1, <3>1 DEF OrderRow
    <3> QED BY <1>a, <3>2, <3>3
  <2>5. tally' \in [Order -> Tally]
    BY <1>5, <1>a, <2>1 DEF executeOrderPortion, Tally, SellFee
  <2>6. queue' \in [Order -> Nat]
    BY <1>5 DEF executeOrderPortion, TypeOK
  <2> QED BY <1>5, <2>2, <2>3, <2>4, <2>5, <2>6 DEF executeOrderPortion, TypeOK, ActRow, Tally
<1>6. ASSUME NEW o \in Order, NEW n \in 1 .. order[o].rem, NEW p \in env.prices, NEW fee \in 0 .. 1,
             ExecutionRolledBack(o, n, p, fee)
      PROVE  TypeOK'
  <2>1. n \in Nat /\ p \in Nat /\ n * p \in Nat
    <3>1. p \in Nat /\ n \in Nat
      BY <1>b, EnvFacts
    <3> QED BY <3>1
  <2>2. tally' \in [Order -> Tally]
    BY <1>6, <1>a, <2>1 DEF ExecutionRolledBack, Tally
  <2> QED BY <1>6, <2>2 DEF ExecutionRolledBack, TypeOK, Tally
<1>7. ASSUME NEW h \in env.handlers, NEW o \in Order, Load(h, o) PROVE TypeOK'
  <2>1. [o |-> o, row |-> order[o]] \in [o : Order, row : OrderRow]
    BY <1>b
  <2> QED BY <1>7, <2>1 DEF Load, TypeOK
<1>8. ASSUME NEW h \in env.handlers, Refuse(h) PROVE TypeOK'
  BY <1>8 DEF Refuse, TypeOK
<1>c. ASSUME NEW h \in env.handlers, read[h] # NoCopy
      PROVE  h \in Handler /\ read[h].o \in Order /\ read[h].row \in OrderRow /\ Owner(read[h].o) \in User
  BY <1>c, EnvFacts, DeskFacts
<1>9. ASSUME NEW h \in env.handlers, ConfirmOrder(h) PROVE TypeOK'
  <2> DEFINE o == read[h].o
             row == read[h].row
             u == Owner(o)
             st == ConfirmedStatus(o)
             e == IF u \in Agent THEN Amount(o) ELSE 0
             a == IF st = "APPROVED" THEN "auto" ELSE "none"
  <2>1. read[h] # NoCopy
    BY <1>9 DEF ConfirmOrder
  <2>2. o \in Order /\ row \in OrderRow /\ u \in User /\ Amount(o) \in Nat /\ row.rem \in Nat
    BY <1>c, <2>1, EnvFacts, DeskAssumption, RowFacts DEF Amount
  <2>3. st \in Status /\ a \in Approver /\ e \in Nat
    BY <2>2 DEF ConfirmedStatus, Status, Approver
  <2>4. /\ act' = IF u \in Agent THEN [act EXCEPT ![u].resv = act[u].resv + Amount(o)] ELSE act
        /\ pos' = IF IsSell(o) THEN [pos EXCEPT ![u].res = pos[u].res + row.rem] ELSE pos
        /\ tally' = IF FeeDue(o) THEN [tally EXCEPT ![o].fee = @ + 1] ELSE tally
        /\ order' = [order EXCEPT ![o] = [row EXCEPT !.st = st, !.appr = a, !.exp = e]]
        /\ queue' = IF st = "APPROVED" THEN [queue EXCEPT ![o] = @ + 1] ELSE queue
        /\ read' = [read EXCEPT ![h] = NoCopy]
        /\ UNCHANGED <<env, expired>>
    BY <1>9 DEF ConfirmOrder
  <2> HIDE DEF o, row, u, st, e, a
  <2>5. act' \in [Agent -> ActRow]
    <3>1. u \in Agent => act[u].resv + Amount(o) \in Nat
      BY <2>2, DeskFacts
    <3> QED BY <1>a, <2>4, <3>1, ActUpdate
  <2>6. pos' \in [User -> [qty : Nat, res : Nat]]
    <3>1. pos[u].res + row.rem \in Nat
      BY <2>2, DeskFacts
    <3> QED BY <2>2, <2>4, <3>1, PosUpdate DEF TypeOK
  <2>7. order' \in [Order -> OrderRow]
    <3>1. [row EXCEPT !.st = st, !.appr = a, !.exp = e] \in OrderRow
      BY <2>2, <2>3, RowUpdate
    <3> QED BY <1>a, <2>4, <3>1
  <2>8. tally' \in [Order -> Tally]
    BY <1>a, <2>2, <2>4 DEF Tally
  <2>9. queue' \in [Order -> Nat] /\ read' \in [Handler -> {NoCopy} \cup [o : Order, row : OrderRow]]
    <3>1. queue \in [Order -> Nat] /\ read \in [Handler -> {NoCopy} \cup [o : Order, row : OrderRow]]
      BY DEF TypeOK
    <3>2. queue' \in [Order -> Nat]
      BY <2>2, <2>4, <3>1
    <3>3. read' \in [Handler -> {NoCopy} \cup [o : Order, row : OrderRow]]
      BY <2>4, <3>1, Zenon
    <3> QED BY <3>2, <3>3
  <2> QED BY <2>4, <2>5, <2>6, <2>7, <2>8, <2>9 DEF TypeOK, ActRow, Tally
<1>10. ASSUME NEW h \in env.handlers, ConfirmAborted(h) PROVE TypeOK'
  <2>1. tally' \in [Order -> Tally]
    BY <1>10, <1>a, <1>c DEF ConfirmAborted, Tally
  <2> QED BY <1>10, <2>1 DEF ConfirmAborted, TypeOK, Tally
<1>11. ASSUME NEW h \in env.handlers, ConfirmExpired(h) PROVE TypeOK'
  <2>1. read[h].row \in OrderRow
    BY <1>11, <1>c DEF ConfirmExpired
  <2>2. [read[h].row EXCEPT !.st = "DECLINED", !.appr = "system", !.rem = 0] \in OrderRow
    BY <2>1 DEF OrderRow, Status, Approver
  <2>3. order' \in [Order -> OrderRow]
    BY <1>11, <1>a, <2>2 DEF ConfirmExpired
  <2> QED BY <1>11, <2>3 DEF ConfirmExpired, TypeOK
<1>12. ASSUME NEW h \in env.handlers, ApproveOrder(h) PROVE TypeOK'
  <2>1. read[h].row \in OrderRow /\ read[h].o \in Order
    BY <1>12, <1>c DEF ApproveOrder
  <2>2. [read[h].row EXCEPT !.st = "APPROVED", !.appr = "supervisor"] \in OrderRow
    BY <2>1 DEF OrderRow, Status, Approver
  <2>3. order' \in [Order -> OrderRow]
    BY <1>12, <1>a, <2>2 DEF ApproveOrder
  <2>4. queue' \in [Order -> Nat]
    <3>1. queue \in [Order -> Nat]
      BY DEF TypeOK
    <3> QED BY <1>12, <2>1, <3>1 DEF ApproveOrder
  <2> QED BY <1>12, <2>3, <2>4 DEF ApproveOrder, TypeOK
<1>13. ASSUME NEW h \in env.handlers, DeclineOrder(h) PROVE TypeOK'
  <2>1. read[h].o \in Order /\ read[h].row \in OrderRow
    BY <1>13, <1>c DEF DeclineOrder
  <2>2. /\ order' \in [Order -> OrderRow] /\ pos' \in [User -> [qty : Nat, res : Nat]]
        /\ act' \in [Agent -> ActRow]
    BY <1>13, <2>1, DeclineType DEF DeclineOrder, Approver
  <2> QED BY <1>13, <2>2 DEF DeclineOrder, TypeOK, ActRow
<1>14. ASSUME NEW a \in Agent, NEW l \in env.limits, SetLimit(a, l) PROVE TypeOK'
  <2>1. act' \in [Agent -> ActRow]
    BY <1>14, EnvFacts, ActUpdate DEF SetLimit
  <2> QED BY <1>14, <2>1 DEF SetLimit, TypeOK, ActRow
<1>15. ASSUME NEW a \in Agent, SetNeedApproval(a) PROVE TypeOK'
  <2>1. ASSUME NEW r \in ActRow, NEW x \in BOOLEAN PROVE [r EXCEPT !.need = x] \in ActRow
    BY DEF ActRow
  <2>2. act[a] \in ActRow /\ act[a].need \in BOOLEAN
    BY <1>a DEF ActRow
  <2>3. [act[a] EXCEPT !.need = ~act[a].need] \in ActRow
    BY <2>1, <2>2, Zenon
  <2>4. act' = [act EXCEPT ![a] = [act[a] EXCEPT !.need = ~act[a].need]]
    BY <1>15, Zenon DEF SetNeedApproval
  <2>5. act' \in [Agent -> ActRow]
    BY <1>a, <2>3, <2>4
  <2> QED BY <1>15, <2>5 DEF SetNeedApproval, TypeOK, ActRow
<1>16. ASSUME NEW a \in Agent, ResetLimit(a) PROVE TypeOK'
  <2>1. act' \in [Agent -> ActRow]
    BY <1>16, ActUpdate DEF ResetLimit
  <2> QED BY <1>16, <2>1 DEF ResetLimit, TypeOK, ActRow
<1>17. CASE ResetAllLimits
  <2>1. ASSUME NEW r \in ActRow PROVE [r EXCEPT !.used = 0, !.resv = 0] \in ActRow
    BY DEF ActRow
  <2>2. act' \in [Agent -> ActRow]
    BY <1>17, <1>a, <2>1 DEF ResetAllLimits
  <2> QED BY <1>17, <2>2 DEF ResetAllLimits, TypeOK, ActRow
<1>18. CASE Restart
  BY <1>18 DEF Restart, TypeOK
<1>19. CASE SettlementPasses
  BY <1>19 DEF SettlementPasses, TypeOK
<1>20. CASE UNCHANGED vars
  BY <1>20 DEF vars, TypeOK
<1> QED BY <1>1, <1>2, <1>3, <1>4, <1>5, <1>6, <1>7, <1>8, <1>9, <1>10, <1>11, <1>12, <1>13, <1>14, <1>15,
           <1>16, <1>17, <1>18, <1>19, <1>20 DEF Next, Fill

\* Orders, positions, actuary rows, copies and the worker's schedule keep to
\* their types; no quantity, reservation or exposure becomes negative, however
\* stale the copies are that confirm, approve and decline write back
\* (the clamps of releaseSellReservation, releaseAgentExposure and
\* finalizeActuaryExposure).
THEOREM DeskTypes == Spec => []TypeOK
  BY TypeInit, TypeStep, PTL DEF Spec

-----------------------------------------------------------------------------
(* What each operation does to the rows, when no copy is stale. *)

\* Nothing happens to the other orders, positions and agents.
OnlyOrder(o) == \A x \in Order : x # o => order'[x] = order[x] /\ tally'[x] = tally[x]
OnlyOwner(o) == \A u \in User : u # Owner(o) => pos'[u] = pos[u]
OnlyAgent(o) == \A a \in Agent : a # Owner(o) => act'[a] = act[a]

\* Of an order's record only the status and the approver change.
SameTally(o) == tally'[o] = tally[o]

\* n shares of a sell order are no longer reserved.
LEMMA UnreservedFacts ==
  ASSUME TypeOK, NEW o \in Order, NEW n \in Nat, pos' = Unreserved(o, n)
  PROVE  /\ OnlyOwner(o) /\ pos'[Owner(o)].qty = pos[Owner(o)].qty
         /\ pos'[Owner(o)].res = IF IsSell(o) THEN AtLeastZero(pos[Owner(o)].res - n) ELSE pos[Owner(o)].res
<1>1. Owner(o) \in User
  BY EnvFacts
<1> QED BY <1>1 DEF Unreserved, TypeOK, OnlyOwner

\* Part of the agent's exposure is released; of an order without any, nothing.
LEMMA UnexposedFacts ==
  ASSUME TypeOK, NEW o \in Order, NEW row \in OrderRow, NEW n \in 0 .. row.rem, act' = Unexposed(o, row, n)
  PROVE  /\ OnlyAgent(o)
         /\ Owner(o) \in Agent =>
              /\ act'[Owner(o)].limit = act[Owner(o)].limit /\ act'[Owner(o)].used = act[Owner(o)].used
              /\ act'[Owner(o)].resv = AtLeastZero(act[Owner(o)].resv - Releasable(row, n))
<1>1. Releasable(row, n) \in Nat /\ Releasable(row, n) <= row.exp /\ row.exp \in Nat
  BY ReleasableFacts, RowFacts
<1>2. CASE row.exp > 0 /\ Owner(o) \in Agent
  BY <1>2 DEF Unexposed, OnlyAgent, TypeOK
<1>3. CASE ~(row.exp > 0 /\ Owner(o) \in Agent)
  <2>1. act' = act
    BY <1>3 DEF Unexposed
  <2>2. Owner(o) \in Agent => Releasable(row, n) = 0 /\ act[Owner(o)].resv \in Nat
    BY <1>1, <1>3, DeskFacts
  <2>3. Owner(o) \in Agent => AtLeastZero(act[Owner(o)].resv - Releasable(row, n)) = act[Owner(o)].resv
    BY <2>2 DEF AtLeastZero
  <2> QED BY <2>1, <2>3 DEF OnlyAgent
<1> QED BY <1>2, <1>3

\* A draft.
LEMMA DraftEffect ==
  ASSUME TypeOK, NEW o \in Order, CreateBuyOrder(o) \/ CreateSellOrder(o)
  PROVE  /\ order[o].st = "none" /\ order'[o].st = "PENDING_CONFIRMATION" /\ order'[o].rem = Template(o).qty
         /\ order'[o].exp = order[o].exp /\ order'[o].appr = order[o].appr
         /\ OnlyOrder(o) /\ SameTally(o) /\ UNCHANGED <<env, pos, act, read>>
  BY DEF CreateBuyOrder, CreateSellOrder, Draft, TypeOK, OrderRow, OnlyOrder, SameTally

\* A decline of what is in the row.
LEMMA DeclineEffect ==
  ASSUME TypeOK, NEW o \in Order, NEW a, declinePendingOrder(o, order[o], a), UNCHANGED tally
  PROVE  /\ order'[o].st = "DECLINED" /\ order'[o].rem = 0 /\ order'[o].appr = a
         /\ order'[o].exp = order[o].exp - Releasable(order[o], order[o].rem)
         /\ OnlyOrder(o) /\ SameTally(o) /\ OnlyOwner(o) /\ OnlyAgent(o)
         /\ pos'[Owner(o)].qty = pos[Owner(o)].qty
         /\ pos'[Owner(o)].res =
              IF IsSell(o) THEN AtLeastZero(pos[Owner(o)].res - order[o].rem) ELSE pos[Owner(o)].res
         /\ Owner(o) \in Agent =>
              /\ act'[Owner(o)].limit = act[Owner(o)].limit /\ act'[Owner(o)].used = act[Owner(o)].used
              /\ act'[Owner(o)].resv = AtLeastZero(act[Owner(o)].resv - Releasable(order[o], order[o].rem))
<1>1. order[o] \in OrderRow /\ order[o].rem \in Nat /\ order[o].rem \in 0 .. order[o].rem
  BY DeskFacts, RowFacts
<1>2. pos' = Unreserved(o, order[o].rem) /\ act' = Unexposed(o, order[o], order[o].rem)
  BY DEF declinePendingOrder
<1>3. /\ OnlyOwner(o) /\ pos'[Owner(o)].qty = pos[Owner(o)].qty
      /\ pos'[Owner(o)].res =
           IF IsSell(o) THEN AtLeastZero(pos[Owner(o)].res - order[o].rem) ELSE pos[Owner(o)].res
  BY <1>1, <1>2, UnreservedFacts
<1>4. /\ OnlyAgent(o)
      /\ Owner(o) \in Agent =>
           /\ act'[Owner(o)].limit = act[Owner(o)].limit /\ act'[Owner(o)].used = act[Owner(o)].used
           /\ act'[Owner(o)].resv = AtLeastZero(act[Owner(o)].resv - Releasable(order[o], order[o].rem))
  BY <1>1, <1>2, UnexposedFacts
<1>5. /\ order'[o].st = "DECLINED" /\ order'[o].rem = 0 /\ order'[o].appr = a
      /\ order'[o].exp = order[o].exp - Releasable(order[o], order[o].rem)
      /\ OnlyOrder(o) /\ SameTally(o)
  BY DEF declinePendingOrder, TypeOK, OnlyOrder, SameTally
<1> QED BY <1>3, <1>4, <1>5

\* A cancellation of n portions.
LEMMA CancelEffect ==
  ASSUME TypeOK, NEW o \in Order, NEW n \in 1 .. order[o].rem, CancelOrder(o, n)
  PROVE  /\ order[o].st \in {"PENDING_CONFIRMATION", "PENDING", "APPROVED"}
         /\ order[o].st = "PENDING_CONFIRMATION" => Can("draft")
         /\ order'[o].st = (IF order[o].rem = n THEN "CANCELLED" ELSE order[o].st)
         /\ order'[o].rem = order[o].rem - n /\ order'[o].appr = order[o].appr
         /\ order'[o].exp = order[o].exp - Releasable(order[o], n)
         /\ OnlyOrder(o) /\ SameTally(o) /\ OnlyOwner(o) /\ OnlyAgent(o) /\ Free(o) /\ UNCHANGED <<env, read>>
         /\ pos'[Owner(o)].qty = pos[Owner(o)].qty
         /\ pos'[Owner(o)].res = IF IsSell(o) THEN AtLeastZero(pos[Owner(o)].res - n) ELSE pos[Owner(o)].res
         /\ Owner(o) \in Agent =>
              /\ act'[Owner(o)].limit = act[Owner(o)].limit /\ act'[Owner(o)].used = act[Owner(o)].used
              /\ act'[Owner(o)].resv = AtLeastZero(act[Owner(o)].resv - Releasable(order[o], n))
<1>1. order[o] \in OrderRow /\ order[o].rem \in Nat /\ n \in Nat /\ n \in 0 .. order[o].rem
  BY DeskFacts, RowFacts
<1>2. pos' = Unreserved(o, n) /\ act' = Unexposed(o, order[o], n)
  BY DEF CancelOrder
<1>3. /\ OnlyOwner(o) /\ pos'[Owner(o)].qty = pos[Owner(o)].qty
      /\ pos'[Owner(o)].res = IF IsSell(o) THEN AtLeastZero(pos[Owner(o)].res - n) ELSE pos[Owner(o)].res
  BY <1>1, <1>2, UnreservedFacts
<1>4. /\ OnlyAgent(o)
      /\ Owner(o) \in Agent =>
           /\ act'[Owner(o)].limit = act[Owner(o)].limit /\ act'[Owner(o)].used = act[Owner(o)].used
           /\ act'[Owner(o)].resv = AtLeastZero(act[Owner(o)].resv - Releasable(order[o], n))
  BY <1>1, <1>2, UnexposedFacts
<1>5. /\ order[o].st \in {"PENDING_CONFIRMATION", "PENDING", "APPROVED"}
      /\ order[o].st = "PENDING_CONFIRMATION" => Can("draft")
  BY <1>1, RowFacts DEF CancelOrder, Status, Final
<1>6. /\ order'[o].st = (IF order[o].rem = n THEN "CANCELLED" ELSE order[o].st)
      /\ order'[o].rem = order[o].rem - n /\ order'[o].appr = order[o].appr
      /\ order'[o].exp = order[o].exp - Releasable(order[o], n)
      /\ OnlyOrder(o) /\ SameTally(o) /\ Free(o) /\ UNCHANGED <<env, read>>
  BY <1>1 DEF CancelOrder, TypeOK, OrderRow, OnlyOrder, SameTally
<1> QED BY <1>3, <1>4, <1>5, <1>6

\* An attempt that fills n portions at price p.
LEMMA ExecuteEffect ==
  ASSUME TypeOK, NEW o \in Order, NEW n \in 1 .. order[o].rem, NEW p \in env.prices, NEW kept \in BOOLEAN,
         executeOrderPortion(o, n, p, kept)
  PROVE  /\ order[o].st = "APPROVED" /\ order'[o].st = (IF order[o].rem = n THEN "DONE" ELSE order[o].st)
         /\ order'[o].rem = order[o].rem - n /\ order'[o].appr = order[o].appr
         /\ order'[o].exp = (IF BankFunded(o) THEN AtLeastZero(order[o].exp - n * p) ELSE order[o].exp)
         /\ OnlyOrder(o) /\ OnlyOwner(o) /\ OnlyAgent(o) /\ Free(o) /\ UNCHANGED <<env, read>>
         /\ pos'[Owner(o)].qty = (IF IsSell(o) THEN pos[Owner(o)].qty - n
                                  ELSE IF IsFund(o) THEN pos[Owner(o)].qty ELSE pos[Owner(o)].qty + n)
         /\ pos'[Owner(o)].res = IF IsSell(o) THEN AtLeastZero(pos[Owner(o)].res - n) ELSE pos[Owner(o)].res
         /\ Owner(o) \in Agent =>
              /\ act'[Owner(o)].limit = act[Owner(o)].limit
              /\ act'[Owner(o)].used = (IF BankFunded(o) THEN act[Owner(o)].used + n * p ELSE act[Owner(o)].used)
              /\ act'[Owner(o)].resv =
                   IF BankFunded(o) THEN AtLeastZero(act[Owner(o)].resv - n * p) ELSE act[Owner(o)].resv
         /\ tally'[o].filled = tally[o].filled + n /\ tally'[o].rows = tally[o].rows + 1
         /\ tally'[o].value = tally[o].value + n * p /\ tally'[o].paid = tally[o].paid + n * p
         /\ tally'[o].fee = tally[o].fee + SellFee(o)
         /\ tally'[o].holding = tally[o].holding + (IF IsFund(o) /\ kept THEN n ELSE 0)
         /\ ~kept => Can("callback") /\ IsFund(o)
<1>1. order[o] \in OrderRow /\ Owner(o) \in User /\ (BankFunded(o) => Owner(o) \in Agent)
  BY DeskFacts, EnvFacts DEF BankFunded
<1>2. /\ order[o].st = "APPROVED" /\ order'[o].st = (IF order[o].rem = n THEN "DONE" ELSE order[o].st)
      /\ order'[o].rem = order[o].rem - n /\ order'[o].appr = order[o].appr
      /\ order'[o].exp = (IF BankFunded(o) THEN AtLeastZero(order[o].exp - n * p) ELSE order[o].exp)
  BY <1>1 DEF executeOrderPortion, executable, TypeOK, OrderRow
<1>3. /\ OnlyOwner(o)
      /\ pos'[Owner(o)].qty = (IF IsSell(o) THEN pos[Owner(o)].qty - n
                               ELSE IF IsFund(o) THEN pos[Owner(o)].qty ELSE pos[Owner(o)].qty + n)
      /\ pos'[Owner(o)].res = IF IsSell(o) THEN AtLeastZero(pos[Owner(o)].res - n) ELSE pos[Owner(o)].res
  BY <1>1 DEF executeOrderPortion, Traded, TypeOK, OnlyOwner
<1>4. /\ OnlyAgent(o)
      /\ Owner(o) \in Agent =>
           /\ act'[Owner(o)].limit = act[Owner(o)].limit
           /\ act'[Owner(o)].used = (IF BankFunded(o) THEN act[Owner(o)].used + n * p ELSE act[Owner(o)].used)
           /\ act'[Owner(o)].resv =
                IF BankFunded(o) THEN AtLeastZero(act[Owner(o)].resv - n * p) ELSE act[Owner(o)].resv
  BY <1>1 DEF executeOrderPortion, Finalized, TypeOK, OnlyAgent
<1>5. /\ tally'[o].filled = tally[o].filled + n /\ tally'[o].rows = tally[o].rows + 1
      /\ tally'[o].value = tally[o].value + n * p /\ tally'[o].paid = tally[o].paid + n * p
      /\ tally'[o].fee = tally[o].fee + SellFee(o)
      /\ tally'[o].holding = tally[o].holding + (IF IsFund(o) /\ kept THEN n ELSE 0)
  BY DEF executeOrderPortion, TypeOK
<1>6. OnlyOrder(o) /\ Free(o) /\ UNCHANGED <<env, read>> /\ (~kept => Can("callback") /\ IsFund(o))
  BY DEF executeOrderPortion, TypeOK, OnlyOrder
<1> QED BY <1>2, <1>3, <1>4, <1>5, <1>6

\* A trade leg that was paid and whose transaction rolled back.
LEMMA RolledBackEffect ==
  ASSUME TypeOK, NEW o \in Order, NEW n, NEW p, NEW fee, ExecutionRolledBack(o, n, p, fee)
  PROVE  /\ order[o].st = "APPROVED" /\ OnlyOrder(o) /\ UNCHANGED <<env, order, pos, act, read>>
         /\ tally'[o].filled = tally[o].filled /\ tally'[o].rows = tally[o].rows /\ tally'[o].value = tally[o].value
         /\ Can("abort") \/ (IsSell(o) /\ pos[Owner(o)].qty < n)
  BY DEF ExecutionRolledBack, executable, TypeOK, OnlyOrder

\* The copy a handler writes back.
LEMMA CopyFacts ==
  ASSUME TypeOK, NEW h \in env.handlers, read[h] # NoCopy
  PROVE  h \in Handler /\ read[h].o \in Order /\ read[h].row \in OrderRow
  BY EnvFacts, DeskFacts

\* A confirmation.
LEMMA ConfirmEffect ==
  ASSUME TypeOK, CopiesFresh, NEW h \in env.handlers, ConfirmOrder(h), NEW o, o = read[h].o
  PROVE  /\ h \in Handler /\ read[h] # NoCopy /\ o \in Order /\ order[o].st = "PENDING_CONFIRMATION"
         /\ order'[o].st = ConfirmedStatus(o) /\ order'[o].rem = order[o].rem
         /\ order'[o].exp = (IF Owner(o) \in Agent THEN Amount(o) ELSE 0)
         /\ order'[o].appr = (IF ConfirmedStatus(o) = "APPROVED" THEN "auto" ELSE "none")
         /\ OnlyOrder(o) /\ OnlyOwner(o) /\ OnlyAgent(o) /\ env' = env /\ read' = [read EXCEPT ![h] = NoCopy]
         /\ CanReserveSell(o, order[o].rem) /\ pos'[Owner(o)].qty = pos[Owner(o)].qty
         /\ pos'[Owner(o)].res = (IF IsSell(o) THEN pos[Owner(o)].res + order[o].rem ELSE pos[Owner(o)].res)
         /\ Owner(o) \in Agent =>
              /\ act'[Owner(o)].limit = act[Owner(o)].limit /\ act'[Owner(o)].used = act[Owner(o)].used
              /\ act'[Owner(o)].resv = act[Owner(o)].resv + Amount(o)
         /\ tally'[o].filled = tally[o].filled /\ tally'[o].rows = tally[o].rows
         /\ tally'[o].value = tally[o].value /\ tally'[o].paid = tally[o].paid
         /\ tally'[o].holding = tally[o].holding
         /\ tally'[o].fee = (IF FeeDue(o) THEN tally[o].fee + 1 ELSE tally[o].fee)
<1>1. read[h] # NoCopy /\ read[h].row.st = "PENDING_CONFIRMATION" /\ h \in Handler /\ o \in Order
  BY CopyFacts DEF ConfirmOrder
<1>2. read[h].row = order[o] /\ order[o] \in OrderRow /\ Owner(o) \in User
  BY <1>1, DeskFacts, EnvFacts DEF CopiesFresh
<1> DEFINE st == ConfirmedStatus(o)
           e == IF Owner(o) \in Agent THEN Amount(o) ELSE 0
           a == IF st = "APPROVED" THEN "auto" ELSE "none"
<1>3. /\ act' = IF Owner(o) \in Agent THEN [act EXCEPT ![Owner(o)].resv = @ + Amount(o)] ELSE act
      /\ pos' = IF IsSell(o) THEN [pos EXCEPT ![Owner(o)].res = @ + order[o].rem] ELSE pos
      /\ tally' = IF FeeDue(o) THEN [tally EXCEPT ![o].fee = @ + 1] ELSE tally
      /\ order' = [order EXCEPT ![o] = [order[o] EXCEPT !.st = st, !.appr = a, !.exp = e]]
      /\ read' = [read EXCEPT ![h] = NoCopy] /\ env' = env /\ CanReserveSell(o, order[o].rem)
  BY <1>2 DEF ConfirmOrder
<1>4. order'[o].st = st /\ order'[o].rem = order[o].rem /\ order'[o].exp = e /\ order'[o].appr = a
  <2> HIDE DEF st, e, a
  <2> QED BY <1>1, <1>2, <1>3 DEF TypeOK, OrderRow
<1>5. /\ OnlyOwner(o) /\ pos'[Owner(o)].qty = pos[Owner(o)].qty
      /\ pos'[Owner(o)].res = (IF IsSell(o) THEN pos[Owner(o)].res + order[o].rem ELSE pos[Owner(o)].res)
  BY <1>2, <1>3 DEF TypeOK, OnlyOwner
<1>6. /\ OnlyAgent(o)
      /\ Owner(o) \in Agent =>
           /\ act'[Owner(o)].limit = act[Owner(o)].limit /\ act'[Owner(o)].used = act[Owner(o)].used
           /\ act'[Owner(o)].resv = act[Owner(o)].resv + Amount(o)
  BY <1>3 DEF TypeOK, OnlyAgent
<1>7. /\ tally'[o].filled = tally[o].filled /\ tally'[o].rows = tally[o].rows
      /\ tally'[o].value = tally[o].value /\ tally'[o].paid = tally[o].paid /\ tally'[o].holding = tally[o].holding
      /\ tally'[o].fee = (IF FeeDue(o) THEN tally[o].fee + 1 ELSE tally[o].fee)
  BY <1>1, <1>3 DEF TypeOK
<1>8. OnlyOrder(o)
  BY <1>3 DEF TypeOK, OnlyOrder
<1> QED BY <1>1, <1>2, <1>3, <1>4, <1>5, <1>6, <1>7, <1>8

\* A confirmation that paid its fee and was rolled back.
LEMMA ConfirmAbortedEffect ==
  ASSUME TypeOK, CopiesFresh, NEW h \in env.handlers, ConfirmAborted(h), NEW o, o = read[h].o
  PROVE  /\ h \in Handler /\ read[h] # NoCopy /\ o \in Order /\ order[o].st = "PENDING_CONFIRMATION" /\ Can("abort")
         /\ OnlyOrder(o) /\ UNCHANGED <<env, order, pos, act>> /\ read' = [read EXCEPT ![h] = NoCopy]
         /\ tally'[o].filled = tally[o].filled /\ tally'[o].rows = tally[o].rows /\ tally'[o].value = tally[o].value
<1>1. read[h] # NoCopy /\ h \in Handler /\ o \in Order /\ read[h].row = order[o]
  BY CopyFacts DEF ConfirmAborted, CopiesFresh
<1> QED BY <1>1 DEF ConfirmAborted, TypeOK, OnlyOrder

\* A confirmation after the settlement date.
LEMMA ConfirmExpiredEffect ==
  ASSUME TypeOK, CopiesFresh, NEW h \in env.handlers, ConfirmExpired(h), NEW o, o = read[h].o
  PROVE  /\ h \in Handler /\ read[h] # NoCopy /\ o \in Order /\ order[o].st = "PENDING_CONFIRMATION"
         /\ order'[o].st = "DECLINED" /\ order'[o].rem = 0 /\ order'[o].exp = order[o].exp
         /\ order'[o].appr = "system" /\ OnlyOrder(o) /\ SameTally(o) /\ UNCHANGED <<env, pos, act>>
         /\ read' = [read EXCEPT ![h] = NoCopy]
<1>1. read[h] # NoCopy /\ h \in Handler /\ o \in Order /\ read[h].row = order[o] /\ order[o] \in OrderRow
  BY CopyFacts DEF ConfirmExpired, CopiesFresh
<1> QED BY <1>1 DEF ConfirmExpired, TypeOK, OrderRow, OnlyOrder, SameTally

\* An approval.
LEMMA ApproveEffect ==
  ASSUME TypeOK, CopiesFresh, NEW h \in env.handlers, ApproveOrder(h), NEW o, o = read[h].o
  PROVE  /\ h \in Handler /\ read[h] # NoCopy /\ o \in Order /\ order[o].st = "PENDING"
         /\ order'[o].st = "APPROVED" /\ order'[o].rem = order[o].rem /\ order'[o].exp = order[o].exp
         /\ order'[o].appr = "supervisor" /\ OnlyOrder(o) /\ SameTally(o) /\ UNCHANGED <<env, pos, act>>
         /\ read' = [read EXCEPT ![h] = NoCopy]
<1>1. read[h] # NoCopy /\ h \in Handler /\ o \in Order /\ read[h].row = order[o] /\ order[o] \in OrderRow
  BY CopyFacts DEF ApproveOrder, CopiesFresh
<1> QED BY <1>1 DEF ApproveOrder, TypeOK, OrderRow, OnlyOrder, SameTally

\* A supervisor's decline is one of what is in the row.
LEMMA RejectEffect ==
  ASSUME TypeOK, CopiesFresh, NEW h \in env.handlers, DeclineOrder(h), NEW o, o = read[h].o
  PROVE  /\ h \in Handler /\ read[h] # NoCopy /\ o \in Order /\ order[o].st = "PENDING"
         /\ declinePendingOrder(o, order[o], "supervisor") /\ UNCHANGED <<env, tally>>
         /\ read' = [read EXCEPT ![h] = NoCopy]
<1>1. read[h] # NoCopy /\ h \in Handler /\ o \in Order /\ read[h].row = order[o]
  BY CopyFacts DEF DeclineOrder, CopiesFresh
<1> QED BY <1>1 DEF DeclineOrder
-----------------------------------------------------------------------------
(* Copies and rows, outside the race scenarios. *)

\* What the name of a scenario's event rules out.
LEMMA WithoutFacts == \A S : Without(S) <=> \A f \in S : ~Can(f)
  BY DEF Without, Can

\* Nobody holds a copy of an order that is free.
LEMMA FreeCopies ==
  ASSUME Without({"race"}), NEW o, Free(o), NEW h \in Handler PROVE read[h].o # o
  BY DEF Free, Without, Can

\* An order nobody has a copy of changes.
LEMMA CopiesKept ==
  ASSUME TypeOK, CopiesFresh, UNCHANGED read, NEW o, OnlyOrder(o),
         \A h \in Handler : read[h] # NoCopy => read[h].o # o
  PROVE  CopiesFresh'
  BY DeskFacts DEF CopiesFresh, OnlyOrder

\* A handler writes its copy back or drops it.
LEMMA CopyDropped ==
  ASSUME TypeOK, CopiesFresh, NEW h \in Handler, read[h] # NoCopy, read' = [read EXCEPT ![h] = NoCopy],
         OnlyOrder(read[h].o)
  PROVE  CopiesFresh'
<1>1. ASSUME NEW g \in Handler, read'[g] # NoCopy
      PROVE  read'[g] = read[g] /\ read[g].o \in Order /\ order'[read[g].o] = order[read[g].o]
  <2>1. g # h /\ read'[g] = read[g]
    BY <1>1 DEF TypeOK
  <2>2. read[g].o # read[h].o /\ read[g].o \in Order
    BY <1>1, <2>1, DeskFacts DEF CopiesFresh
  <2> QED BY <2>1, <2>2 DEF OnlyOrder
<1> QED BY <1>1 DEF CopiesFresh

\* The order desk's other rows stay in order.
LEMMA OtherRows ==
  ASSUME \A o \in Order : RowInOrder(o), UNCHANGED env, NEW o \in Order, OnlyOrder(o), RowInOrder(o)'
  PROVE  \A x \in Order : RowInOrder(x)'
<1>1. ASSUME NEW x \in Order, x # o PROVE RowInOrder(x)'
  <2>1. order'[x] = order[x] /\ tally'[x] = tally[x]
    BY <1>1 DEF OnlyOrder
  <2> QED BY <2>1 DEF RowInOrder, Template, Without
<1> QED BY <1>1

\* The handlers and the rest of the desk leave orders and records alone.
LEMMA RestFacts ==
  ASSUME \/ \E o \in Order : AttemptStops(o) \/ LoadFailed(o)
         \/ \E a \in Agent : (\E l \in env.limits : SetLimit(a, l)) \/ SetNeedApproval(a) \/ ResetLimit(a)
         \/ ResetAllLimits \/ SettlementPasses \/ UNCHANGED vars
  PROVE  UNCHANGED <<env, order, pos, read, tally>>
  BY DEF AttemptStops, LoadFailed, SetLimit, SetNeedApproval, ResetLimit, ResetAllLimits, SettlementPasses, vars

\* Every step keeps the copies fresh and the rows in order.
LEMMA RowsStep ==
  ASSUME TypeOK, Without({"race"}), RowsInOrder, [Next]_vars
  PROVE  RowsInOrder'
<1>a. CopiesFresh /\ \A o \in Order : RowInOrder(o)
  BY DEF RowsInOrder
<1>b. \A o \in Order : order[o] \in OrderRow /\ order[o].rem \in Nat /\ order[o].exp \in Nat /\ Template(o).qty \in Nat
  BY DeskFacts, RowFacts, EnvFacts
<1>1. ASSUME NEW o \in Order, CreateBuyOrder(o) \/ CreateSellOrder(o) PROVE RowsInOrder'
  <2>1. /\ order[o].st = "none" /\ order'[o].st = "PENDING_CONFIRMATION" /\ order'[o].rem = Template(o).qty
        /\ order'[o].exp = order[o].exp /\ order'[o].appr = order[o].appr
        /\ OnlyOrder(o) /\ SameTally(o) /\ UNCHANGED <<env, read>>
    BY <1>1, DraftEffect
  <2>2. RowInOrder(o)'
    BY <1>a, <1>b, <2>1 DEF RowInOrder, SameTally, Template, Final, Without
  <2>3. \A h \in Handler : read[h] # NoCopy => read[h].o # o
    BY <1>a, <2>1 DEF CopiesFresh
  <2> QED BY <1>a, <2>1, <2>2, <2>3, OtherRows, CopiesKept DEF RowsInOrder
<1>2. ASSUME NEW o \in Order, AutoDeclineExpiredPendingOrders(o) PROVE RowsInOrder'
  <2>1. declinePendingOrder(o, order[o], "system") /\ UNCHANGED <<env, read, tally>> /\ Free(o)
    BY <1>2 DEF AutoDeclineExpiredPendingOrders
  <2>2. order'[o].st = "DECLINED" /\ order'[o].rem = 0 /\ OnlyOrder(o)
    BY <2>1, DeclineEffect
  <2>3. RowInOrder(o)'
    BY <1>b, <2>1, <2>2 DEF RowInOrder, Template, Final
  <2>4. \A h \in Handler : read[h].o # o
    BY <2>1, FreeCopies
  <2> QED BY <1>a, <2>1, <2>2, <2>3, <2>4, OtherRows, CopiesKept DEF RowsInOrder
<1>3. ASSUME NEW o \in Order, NEW n \in 1 .. order[o].rem, CancelOrder(o, n) PROVE RowsInOrder'
  <2>1. /\ order[o].st \in {"PENDING_CONFIRMATION", "PENDING", "APPROVED"}
        /\ order[o].st = "PENDING_CONFIRMATION" => Can("draft")
        /\ order'[o].st = (IF order[o].rem = n THEN "CANCELLED" ELSE order[o].st)
        /\ order'[o].rem = order[o].rem - n /\ order'[o].appr = order[o].appr
        /\ order'[o].exp = order[o].exp - Releasable(order[o], n)
        /\ OnlyOrder(o) /\ SameTally(o) /\ Free(o) /\ UNCHANGED <<env, read>>
    BY <1>3, CancelEffect
  <2>2. n \in Nat /\ n \in 0 .. order[o].rem /\ Releasable(order[o], n) \in Nat
        /\ Releasable(order[o], n) <= order[o].exp
    BY <1>b, ReleasableFacts
  <2>3. RowInOrder(o)'
    BY <1>a, <1>b, <2>1, <2>2 DEF RowInOrder, SameTally, Template, Final, Without, Can
  <2>4. \A h \in Handler : read[h].o # o
    BY <2>1, FreeCopies
  <2> QED BY <1>a, <2>1, <2>3, <2>4, OtherRows, CopiesKept DEF RowsInOrder
<1>4. ASSUME NEW o \in Order, NEW n \in 1 .. order[o].rem, NEW p \in env.prices, NEW kept \in BOOLEAN,
             executeOrderPortion(o, n, p, kept)
      PROVE  RowsInOrder'
  <2>1. /\ order[o].st = "APPROVED" /\ order'[o].st = (IF order[o].rem = n THEN "DONE" ELSE order[o].st)
        /\ order'[o].rem = order[o].rem - n
        /\ OnlyOrder(o) /\ Free(o) /\ UNCHANGED <<env, read>>
    BY <1>4, ExecuteEffect
  <2>2. RowInOrder(o)'
    BY <1>a, <1>b, <2>1 DEF RowInOrder, Template, Final
  <2>3. \A h \in Handler : read[h].o # o
    BY <2>1, FreeCopies
  <2> QED BY <1>a, <2>1, <2>2, <2>3, OtherRows, CopiesKept DEF RowsInOrder
<1>5. ASSUME NEW o \in Order, NEW n, NEW p, NEW fee, ExecutionRolledBack(o, n, p, fee) PROVE RowsInOrder'
  <2>1. /\ order[o].st = "APPROVED" /\ OnlyOrder(o) /\ UNCHANGED <<env, order, read>>
        /\ tally'[o].filled = tally[o].filled /\ tally'[o].rows = tally[o].rows /\ tally'[o].value = tally[o].value
    BY <1>5, RolledBackEffect
  <2>2. RowInOrder(o)'
    BY <1>a, <2>1 DEF RowInOrder, Template, Without
  <2>3. CopiesFresh'
    BY <1>a, <2>1 DEF CopiesFresh
  <2> QED BY <1>a, <2>1, <2>2, <2>3, OtherRows DEF RowsInOrder
<1>6. ASSUME NEW h \in env.handlers, NEW o \in Order, Load(h, o) PROVE RowsInOrder'
  <2>1. h \in Handler /\ \A g \in Handler : read[g].o # o
    BY <1>6, EnvFacts, FreeCopies DEF Load
  <2>2. CopiesFresh'
    <3>1. read'[h] = [o |-> o, row |-> order[o]] /\ order' = order /\ order[o].st \in {"PENDING_CONFIRMATION", "PENDING"}
      BY <1>6, <2>1 DEF Load, TypeOK
    <3>2. \A g \in Handler : g # h => read'[g] = read[g]
      BY <1>6 DEF Load, TypeOK
    <3> QED BY <1>a, <2>1, <3>1, <3>2 DEF CopiesFresh
  <2>3. UNCHANGED <<env, order, tally>>
    BY <1>6 DEF Load
  <2>4. \A x \in Order : RowInOrder(x)'
    BY <1>a, <2>3 DEF RowInOrder, Template, Without
  <2> QED BY <2>2, <2>4 DEF RowsInOrder
<1>7. ASSUME NEW h \in env.handlers, Refuse(h) PROVE RowsInOrder'
  <2>1. h \in Handler /\ read[h] # NoCopy /\ read' = [read EXCEPT ![h] = NoCopy] /\ UNCHANGED <<env, order, tally>>
    BY <1>7, EnvFacts DEF Refuse
  <2>2. CopiesFresh'
    BY <1>a, <2>1, CopyDropped DEF OnlyOrder
  <2>3. \A x \in Order : RowInOrder(x)'
    BY <1>a, <2>1 DEF RowInOrder, Template, Without
  <2> QED BY <2>2, <2>3 DEF RowsInOrder
<1>8. ASSUME NEW h \in env.handlers, ConfirmOrder(h) PROVE RowsInOrder'
  <2>0. PICK o : o = read[h].o
    OBVIOUS
  <2>1. /\ h \in Handler /\ read[h] # NoCopy /\ o \in Order /\ order[o].st = "PENDING_CONFIRMATION"
        /\ order'[o].st = ConfirmedStatus(o) /\ order'[o].rem = order[o].rem
        /\ order'[o].appr = (IF ConfirmedStatus(o) = "APPROVED" THEN "auto" ELSE "none")
        /\ OnlyOrder(o) /\ env' = env /\ read' = [read EXCEPT ![h] = NoCopy]
        /\ tally'[o].filled = tally[o].filled /\ tally'[o].rows = tally[o].rows /\ tally'[o].value = tally[o].value
    BY <1>8, <1>a, <2>0, ConfirmEffect
  <2>2. CopiesFresh'
    BY <1>a, <2>0, <2>1, CopyDropped
  <2>3. ConfirmedStatus(o) \in {"PENDING", "APPROVED"}
    BY DEF ConfirmedStatus
  <2>4. RowInOrder(o)'
    BY <1>a, <2>1, <2>3 DEF RowInOrder, Template, Final
  <2> QED BY <1>a, <2>1, <2>2, <2>4, OtherRows DEF RowsInOrder
<1>9. ASSUME NEW h \in env.handlers, ConfirmAborted(h) PROVE RowsInOrder'
  <2>0. PICK o : o = read[h].o
    OBVIOUS
  <2>1. /\ h \in Handler /\ read[h] # NoCopy /\ o \in Order
        /\ OnlyOrder(o) /\ UNCHANGED <<env, order>> /\ read' = [read EXCEPT ![h] = NoCopy]
        /\ tally'[o].filled = tally[o].filled /\ tally'[o].rows = tally[o].rows /\ tally'[o].value = tally[o].value
    BY <1>9, <1>a, <2>0, ConfirmAbortedEffect
  <2>2. CopiesFresh'
    BY <1>a, <2>0, <2>1, CopyDropped
  <2>3. RowInOrder(o)'
    BY <1>a, <2>1 DEF RowInOrder, Template, Without
  <2> QED BY <1>a, <2>1, <2>2, <2>3, OtherRows DEF RowsInOrder
<1>10. ASSUME NEW h \in env.handlers, ConfirmExpired(h) PROVE RowsInOrder'
  <2>0. PICK o : o = read[h].o
    OBVIOUS
  <2>1. /\ h \in Handler /\ read[h] # NoCopy /\ o \in Order
        /\ order'[o].st = "DECLINED" /\ order'[o].rem = 0
        /\ OnlyOrder(o) /\ env' = env /\ read' = [read EXCEPT ![h] = NoCopy]
    BY <1>10, <1>a, <2>0, ConfirmExpiredEffect
  <2>2. CopiesFresh'
    BY <1>a, <2>0, <2>1, CopyDropped
  <2>3. RowInOrder(o)'
    BY <1>b, <2>1 DEF RowInOrder, Template
  <2> QED BY <1>a, <2>1, <2>2, <2>3, OtherRows DEF RowsInOrder
<1>11. ASSUME NEW h \in env.handlers, ApproveOrder(h) PROVE RowsInOrder'
  <2>0. PICK o : o = read[h].o
    OBVIOUS
  <2>1. /\ h \in Handler /\ read[h] # NoCopy /\ o \in Order
        /\ order'[o].st = "APPROVED" /\ order'[o].rem = order[o].rem
        /\ OnlyOrder(o) /\ env' = env /\ read' = [read EXCEPT ![h] = NoCopy]
    BY <1>11, <1>a, <2>0, ApproveEffect
  <2>2. CopiesFresh'
    BY <1>a, <2>0, <2>1, CopyDropped
  <2>3. RowInOrder(o)'
    BY <1>a, <2>1 DEF RowInOrder, Template, Final
  <2> QED BY <1>a, <2>1, <2>2, <2>3, OtherRows DEF RowsInOrder
<1>12. ASSUME NEW h \in env.handlers, DeclineOrder(h) PROVE RowsInOrder'
  <2>0. PICK o : o = read[h].o
    OBVIOUS
  <2>1. /\ h \in Handler /\ read[h] # NoCopy /\ o \in Order
        /\ declinePendingOrder(o, order[o], "supervisor") /\ UNCHANGED <<env, tally>>
        /\ read' = [read EXCEPT ![h] = NoCopy]
    BY <1>12, <1>a, <2>0, RejectEffect
  <2>2. order'[o].st = "DECLINED" /\ order'[o].rem = 0 /\ OnlyOrder(o)
    BY <2>1, DeclineEffect
  <2>3. CopiesFresh'
    BY <1>a, <2>0, <2>1, <2>2, CopyDropped
  <2>4. RowInOrder(o)'
    BY <1>b, <2>1, <2>2 DEF RowInOrder, Template
  <2> QED BY <1>a, <2>1, <2>2, <2>3, <2>4, OtherRows DEF RowsInOrder
<1>13. CASE Restart
  <2>1. UNCHANGED <<env, order, tally>> /\ \A h \in Handler : read'[h] = NoCopy
    BY <1>13 DEF Restart
  <2>2. \A x \in Order : RowInOrder(x)'
    BY <1>a, <2>1 DEF RowInOrder, Template, Without
  <2> QED BY <2>1, <2>2 DEF RowsInOrder, CopiesFresh
<1>14. ASSUME UNCHANGED <<env, order, read, tally>> PROVE RowsInOrder'
  <2>1. \A x \in Order : RowInOrder(x)'
    BY <1>a, <1>14 DEF RowInOrder, Template, Without
  <2>2. CopiesFresh'
    BY <1>a, <1>14 DEF CopiesFresh
  <2> QED BY <2>1, <2>2 DEF RowsInOrder
<1> QED BY <1>1, <1>2, <1>3, <1>4, <1>5, <1>6, <1>7, <1>8, <1>9, <1>10, <1>11, <1>12, <1>13, <1>14, RestFacts
        DEF Next, Fill

\* No order exists at the start.
LEMMA DeskInit == Init => DeskInv
<1> SUFFICES ASSUME Init PROVE DeskInv
  OBVIOUS
<1>1. TypeOK
  BY TypeInit
<1>2. CopiesFresh
  BY DEF Init, CopiesFresh
<1>3. ASSUME NEW o \in Order PROVE RowInOrder(o)
  <2>1. Template(o).qty \in Nat
    BY <1>1, EnvFacts
  <2> QED BY <2>1 DEF Init, RowInOrder
<1> QED BY <1>1, <1>2, <1>3 DEF DeskInv, RowsInOrder

\* The scenario is chosen once.
LEMMA EnvFixed == ASSUME [Next]_vars PROVE env' = env
<1>1. ASSUME NEW o \in Order,
             \/ CreateBuyOrder(o) \/ CreateSellOrder(o) \/ AutoDeclineExpiredPendingOrders(o)
             \/ \E n \in 1 .. order[o].rem : CancelOrder(o, n)
      PROVE  env' = env
  BY <1>1 DEF CreateBuyOrder, CreateSellOrder, Draft, AutoDeclineExpiredPendingOrders, CancelOrder
<1>2. ASSUME NEW o \in Order,
             \/ \E n \in 1 .. order[o].rem, p \in env.prices, kept \in BOOLEAN : executeOrderPortion(o, n, p, kept)
             \/ \E n \in 1 .. order[o].rem, p \in env.prices, fee \in 0 .. 1 : ExecutionRolledBack(o, n, p, fee)
      PROVE  env' = env
  <2>1. ASSUME NEW n, NEW p, NEW kept, executeOrderPortion(o, n, p, kept) PROVE env' = env
    BY <2>1 DEF executeOrderPortion
  <2>2. ASSUME NEW n, NEW p, NEW fee, ExecutionRolledBack(o, n, p, fee) PROVE env' = env
    BY <2>2 DEF ExecutionRolledBack
  <2> QED BY <1>2, <2>1, <2>2
<1>3. ASSUME NEW h \in env.handlers,
             \/ \E o \in Order : Load(h, o)
             \/ Refuse(h) \/ ConfirmOrder(h) \/ ConfirmAborted(h) \/ ConfirmExpired(h) \/ ApproveOrder(h)
             \/ DeclineOrder(h)
      PROVE  env' = env
  BY <1>3 DEF Load, Refuse, ConfirmOrder, ConfirmAborted, ConfirmExpired, ApproveOrder, DeclineOrder
<1>4. CASE Restart
  BY <1>4 DEF Restart
<1> QED BY <1>1, <1>2, <1>3, <1>4, RestFacts DEF Next, Fill

\* Every step keeps the invariant the others build on.
LEMMA DeskNext == DeskInv /\ [Next]_vars => DeskInv'
<1> SUFFICES ASSUME DeskInv, [Next]_vars PROVE DeskInv'
  OBVIOUS
<1>1. TypeOK /\ TypeOK' /\ env' = env
  BY TypeStep, EnvFixed DEF DeskInv
<1>2. ASSUME Without({"race"})' PROVE RowsInOrder'
  <2>1. Without({"race"})
    BY <1>1, <1>2 DEF Without
  <2> QED BY <1>1, <2>1, RowsStep DEF DeskInv
<1> QED BY <1>1, <1>2 DEF DeskInv

\* A decline of a pending order, by the expiry job or by a supervisor, and the
\* steps that only concern copies, the schedule or the agents' rows.
Declined(o) ==
  order[o].st = "PENDING" /\ (\E a \in {"system", "supervisor"} : declinePendingOrder(o, order[o], a)) /\ UNCHANGED tally
Quiet ==
  /\ UNCHANGED <<order, pos, tally>>
  /\ Without({"reset"}) =>
       \A a \in Agent : /\ act'[a].resv = act[a].resv /\ act'[a].used = act[a].used
                        /\ env.limits = {} => act'[a].limit = act[a].limit

\* SetLimit, SetNeedApproval and the resets are quiet.
LEMMA RestQuiet ==
  ASSUME TypeOK,
         \/ \E o \in Order : AttemptStops(o) \/ LoadFailed(o)
         \/ \E a \in Agent : (\E l \in env.limits : SetLimit(a, l)) \/ SetNeedApproval(a) \/ ResetLimit(a)
         \/ ResetAllLimits \/ SettlementPasses \/ UNCHANGED vars
  PROVE  Quiet
<1>0. ASSUME act' = act, UNCHANGED <<order, pos, tally>> PROVE Quiet
  BY <1>0 DEF Quiet
<1>1. ASSUME NEW a \in Agent, NEW l \in env.limits, SetLimit(a, l) PROVE Quiet
  BY <1>1 DEF SetLimit, Quiet, TypeOK
<1>2. ASSUME NEW a \in Agent, SetNeedApproval(a) PROVE Quiet
  <2>1. PICK b : b = ~act[a].need
    OBVIOUS
  <2>2. act' = [act EXCEPT ![a].need = b]
    BY <1>2, <2>1 DEF SetNeedApproval
  <2> QED BY <1>2, <2>2 DEF SetNeedApproval, Quiet, TypeOK
<1>3. ASSUME (\E a \in Agent : ResetLimit(a)) \/ ResetAllLimits PROVE Quiet
  BY <1>3, WithoutFacts DEF ResetLimit, ResetAllLimits, Quiet
<1>4. ASSUME \/ \E o \in Order : AttemptStops(o) \/ LoadFailed(o)
             \/ SettlementPasses \/ UNCHANGED vars
      PROVE  Quiet
  BY <1>0, <1>4 DEF AttemptStops, LoadFailed, SettlementPasses, vars
<1> QED BY <1>1, <1>2, <1>3, <1>4

\* The kinds of steps, when a handler's copy is the row.
LEMMA StepKinds ==
  ASSUME TypeOK, Without({"race"}), RowsInOrder, [Next]_vars
  PROVE  \/ Quiet
         \/ \E o \in Order :
              \/ CreateBuyOrder(o) \/ CreateSellOrder(o) \/ Declined(o)
              \/ \E n \in 1 .. order[o].rem : CancelOrder(o, n)
              \/ \E n \in 1 .. order[o].rem, p \in env.prices, kept \in BOOLEAN : executeOrderPortion(o, n, p, kept)
              \/ \E n \in 1 .. order[o].rem, p \in env.prices, fee \in 0 .. 1 : ExecutionRolledBack(o, n, p, fee)
         \/ \E h \in env.handlers : ConfirmOrder(h) \/ ConfirmAborted(h) \/ ConfirmExpired(h) \/ ApproveOrder(h)
<1>1. ASSUME NEW o \in Order, AutoDeclineExpiredPendingOrders(o) PROVE Declined(o)
  BY <1>1 DEF AutoDeclineExpiredPendingOrders, Declined
<1>2. ASSUME NEW h \in env.handlers, DeclineOrder(h) PROVE \E o \in Order : Declined(o)
  <2>0. PICK o : o = read[h].o
    OBVIOUS
  <2>1. o \in Order /\ order[o].st = "PENDING" /\ declinePendingOrder(o, order[o], "supervisor") /\ UNCHANGED tally
    BY <1>2, <2>0, RejectEffect DEF RowsInOrder
  <2> QED BY <2>1 DEF Declined
<1>3. ASSUME NEW h \in env.handlers, Refuse(h) \/ \E o \in Order : Load(h, o) PROVE Quiet
  BY <1>3 DEF Refuse, Load, Quiet
<1>4. CASE Restart
  BY <1>4 DEF Restart, Quiet
<1> QED BY <1>1, <1>2, <1>3, <1>4, RestQuiet DEF Next, Fill

\* One step and one closed order.
LEMMA ClosedStep ==
  ASSUME TypeOK, Without({"race"}), RowsInOrder, [Next]_vars, NEW x \in Order, order[x].st \in Final
  PROVE  order'[x] = order[x] /\ tally'[x] = tally[x]
<1> DEFINE P == order'[x] = order[x] /\ tally'[x] = tally[x]
<1>a. CopiesFresh
  BY DEF RowsInOrder
<1>0. ASSUME NEW o, OnlyOrder(o), o # x PROVE P
  BY <1>0 DEF OnlyOrder
<1>1. ASSUME NEW o \in Order, CreateBuyOrder(o) \/ CreateSellOrder(o) PROVE P
  <2>1. order[o].st = "none" /\ OnlyOrder(o)
    BY <1>1, DraftEffect
  <2> QED BY <1>0, <2>1 DEF Final
<1>2. ASSUME NEW o \in Order, Declined(o) PROVE P
  <2>1. order[o].st = "PENDING" /\ OnlyOrder(o)
    BY <1>2, DeclineEffect DEF Declined
  <2> QED BY <1>0, <2>1 DEF Final
<1>3. ASSUME NEW o \in Order, NEW n \in 1 .. order[o].rem, CancelOrder(o, n) PROVE P
  <2>1. order[o].st \notin Final /\ OnlyOrder(o)
    BY <1>3, CancelEffect DEF Final
  <2> QED BY <1>0, <2>1
<1>4. ASSUME NEW o \in Order, NEW n \in 1 .. order[o].rem, NEW p \in env.prices, NEW kept \in BOOLEAN,
             executeOrderPortion(o, n, p, kept)
      PROVE  P
  <2>1. order[o].st = "APPROVED" /\ OnlyOrder(o)
    BY <1>4, ExecuteEffect
  <2> QED BY <1>0, <2>1 DEF Final
<1>5. ASSUME NEW o \in Order, NEW n, NEW p, NEW fee, ExecutionRolledBack(o, n, p, fee) PROVE P
  <2>1. order[o].st = "APPROVED" /\ OnlyOrder(o)
    BY <1>5, RolledBackEffect
  <2> QED BY <1>0, <2>1 DEF Final
<1>6. ASSUME NEW h \in env.handlers, NEW o, o = read[h].o, order[o].st \in {"PENDING_CONFIRMATION", "PENDING"},
             OnlyOrder(o)
      PROVE  P
  BY <1>0, <1>6 DEF Final
<1>7. ASSUME NEW h \in env.handlers, ConfirmOrder(h) PROVE P
  BY <1>6, <1>7, <1>a, ConfirmEffect
<1>8. ASSUME NEW h \in env.handlers, ConfirmAborted(h) PROVE P
  BY <1>6, <1>8, <1>a, ConfirmAbortedEffect
<1>9. ASSUME NEW h \in env.handlers, ConfirmExpired(h) PROVE P
  BY <1>6, <1>9, <1>a, ConfirmExpiredEffect
<1>10. ASSUME NEW h \in env.handlers, ApproveOrder(h) PROVE P
  BY <1>6, <1>10, <1>a, ApproveEffect
<1>11. CASE Quiet
  BY <1>11 DEF Quiet
<1> QED BY <1>1, <1>2, <1>3, <1>4, <1>5, <1>7, <1>8, <1>9, <1>10, <1>11, StepKinds

\* A done, cancelled or declined order stays as it is and nothing more is traded
\* or paid for it, whatever attempts are still scheduled and whatever requests
\* are under way, as long as the unlocked copies of confirm, approve and decline
\* are not overtaken (the status checks of cancelOrder, executeOrderPortion and
\* declinePendingOrder).
THEOREM ClosedSafety == Spec => ClosedStaysClosed
<1>1. DeskInv /\ [Next]_vars =>
        [Without({"race"}) => \A o \in Order : order[o].st \in Final => order'[o] = order[o] /\ tally'[o] = tally[o]]_vars
  BY ClosedStep DEF DeskInv
<1> QED BY <1>1, DeskInit, DeskNext, PTL DEF Spec, ClosedStaysClosed
-----------------------------------------------------------------------------
(* Reserved shares, outside the race scenarios and without cancelled drafts. *)

\* A sum over a user's orders.
LEMMA SumOwn ==
  ASSUME TypeOK, NEW f, \A x \in Order : f[x] \in Nat, NEW u
  PROVE  /\ SumFunctionOnSet(f, OrdersOf(u)) \in Nat
         /\ \A o \in Order : u = Owner(o) => f[o] <= SumFunctionOnSet(f, OrdersOf(u))
<1> DEFINE S == OrdersOf(u)
<1>1. IsFiniteSet(S) /\ S \subseteq Order /\ (\A o \in Order : u = Owner(o) => o \in S)
  BY DeskAssumption, FS_Subset DEF OrdersOf
<1>2. \A x \in S : f[x] \in Nat
  BY <1>1
<1> HIDE DEF S
<1>3. SumFunctionOnSet(f, S) \in Nat
  BY <1>1, <1>2, SumNat
<1>4. \A o \in S : f[o] <= SumFunctionOnSet(f, S)
  BY <1>1, <1>2, SumCovers
<1> QED BY <1>1, <1>3, <1>4 DEF S

\* Such a sum when one order changes.
LEMMA SumStep ==
  ASSUME TypeOK, NEW f, NEW g, NEW o \in Order, \A x \in Order : f[x] \in Nat, \A x \in Order : g[x] \in Nat,
         \A x \in Order : x # o => g[x] = f[x], NEW u
  PROVE  SumFunctionOnSet(g, OrdersOf(u)) =
           IF u = Owner(o) THEN SumFunctionOnSet(f, OrdersOf(u)) - f[o] + g[o] ELSE SumFunctionOnSet(f, OrdersOf(u))
<1> DEFINE S == OrdersOf(u)
<1>1. IsFiniteSet(S) /\ S \subseteq Order /\ (o \in S <=> u = Owner(o))
  BY DeskAssumption, FS_Subset DEF OrdersOf
<1>2. \A x \in S : f[x] \in Nat /\ g[x] \in Nat /\ f[x] \in Int /\ g[x] \in Int
  BY <1>1
<1>3. \A x \in S : x # o => g[x] = f[x]
  BY <1>1
<1> HIDE DEF S
<1>5. CASE u # Owner(o)
  <2>1. \A x \in S : g[x] = f[x]
    BY <1>1, <1>3, <1>5
  <2> QED BY <1>1, <1>5, <2>1, SumSame DEF S
<1>6. CASE u = Owner(o)
  <2>1. o \in S
    BY <1>1, <1>6
  <2>3. SumFunctionOnSet(g, S) = SumFunctionOnSet(f, S) - f[o] + g[o]
    BY <1>1, <1>2, <1>3, <2>1, SumUpdate
  <2> QED BY <1>6, <2>3 DEF S
<1> QED BY <1>5, <1>6

\* What an order has reserved.
LEMMA UnsoldFacts ==
  ASSUME TypeOK, NEW o \in Order
  PROVE  /\ Unsold[o] \in Nat
         /\ Unsold[o] = IF IsSell(o) /\ order[o].st \in {"PENDING", "APPROVED"} THEN order[o].rem ELSE 0
  BY DeskFacts, RowFacts DEF Unsold

\* The reserved part of an order is within the position.
LEMMA UnsoldHeld ==
  ASSUME TypeOK, SellsCovered, NEW o \in Order
  PROVE  Unsold[o] <= pos[Owner(o)].res /\ pos[Owner(o)].res <= pos[Owner(o)].qty
<1>1. Owner(o) \in User /\ OtcHeld[Owner(o)] \in Nat
  BY EnvFacts, DeskAssumption
<1>2. \A x \in Order : Unsold[x] \in Nat
  BY UnsoldFacts
<1> DEFINE f == Unsold
<1>3. Unsold = f
  OBVIOUS
<1> HIDE DEF f
<1>4. f[o] <= SumFunctionOnSet(f, OrdersOf(Owner(o))) /\ SumFunctionOnSet(f, OrdersOf(Owner(o))) \in Nat
  BY <1>2, <1>3, SumOwn
<1>5. pos[Owner(o)].res = OtcHeld[Owner(o)] + SumFunctionOnSet(f, OrdersOf(Owner(o)))
  BY <1>1, <1>3 DEF SellsCovered, SellsReserved
<1>6. f[o] \in Nat
  BY <1>2, <1>3
<1> QED BY <1>1, <1>3, <1>4, <1>5, <1>6 DEF SellsCovered

\* A step that moves a position along with the reserved part of one order.
LEMMA SellMove ==
  ASSUME TypeOK, TypeOK', env' = env, SellsCovered, NEW o \in Order, OnlyOrder(o), OnlyOwner(o),
         pos'[Owner(o)].res = pos[Owner(o)].res - Unsold[o] + Unsold'[o], pos'[Owner(o)].res <= pos'[Owner(o)].qty
  PROVE  SellsCovered'
<1>1. /\ \A x \in Order : Unsold[x] \in Nat /\ Unsold'[x] \in Nat
      /\ \A x \in Order : x # o => Unsold'[x] = Unsold[x]
  <2>1. ASSUME NEW x \in Order PROVE Unsold[x] \in Nat /\ Unsold'[x] \in Nat
    <3>1. order'[x].rem \in Nat
      BY DEF TypeOK, OrderRow
    <3> QED BY <3>1, UnsoldFacts DEF Unsold
  <2>2. ASSUME NEW x \in Order, x # o PROVE Unsold'[x] = Unsold[x]
    BY <2>2 DEF Unsold, OnlyOrder, IsSell, Template
  <2> QED BY <2>1, <2>2
<1>2. PICK f, g : f = Unsold /\ g = Unsold'
  OBVIOUS
<1>3. (\A x \in Order : f[x] \in Nat /\ g[x] \in Nat) /\ (\A x \in Order : x # o => g[x] = f[x])
  BY <1>1, <1>2
<1>4. ASSUME NEW u \in User
      PROVE  /\ pos'[u].res = OtcHeld[u] + SumFunctionOnSet(Unsold', OrdersOf(u)')
             /\ pos'[u].res <= pos'[u].qty
  <2>1. OrdersOf(u)' = OrdersOf(u)
    BY DEF OrdersOf, Owner, Template
  <2>2. pos[u].res = OtcHeld[u] + SumFunctionOnSet(Unsold, OrdersOf(u)) /\ pos[u].res <= pos[u].qty
    BY DEF SellsCovered, SellsReserved
  <2>3. SumFunctionOnSet(g, OrdersOf(u)) =
          IF u = Owner(o) THEN SumFunctionOnSet(f, OrdersOf(u)) - f[o] + g[o] ELSE SumFunctionOnSet(f, OrdersOf(u))
    BY <1>3, SumStep
  <2>4. SumFunctionOnSet(f, OrdersOf(u)) \in Nat
    BY <1>3, SumOwn
  <2>5. OtcHeld[u] \in Nat /\ f[o] \in Nat /\ g[o] \in Nat
    BY <1>3, DeskAssumption
  <2>6. CASE u # Owner(o)
    <3>1. pos'[u] = pos[u]
      BY <2>6 DEF OnlyOwner
    <3> QED BY <1>2, <2>1, <2>2, <2>3, <2>6, <3>1
  <2>7. CASE u = Owner(o)
    BY <1>2, <2>1, <2>2, <2>3, <2>5, <2>7, <2>4
  <2> QED BY <2>6, <2>7
<1> QED BY <1>4 DEF SellsCovered, SellsReserved

\* The reserved part of an order after a step.
LEMMA UnsoldNext ==
  ASSUME env' = env, NEW o \in Order
  PROVE  Unsold'[o] = IF IsSell(o) /\ order'[o].st \in {"PENDING", "APPROVED"} THEN order'[o].rem ELSE 0
  BY DEF Unsold, IsSell, Template

\* Every step keeps the live sell orders reserved and the positions large enough.
LEMMA SellStep ==
  ASSUME TypeOK, TypeOK', env' = env, Without({"race", "draft"}), RowsInOrder, SellsCovered, [Next]_vars
  PROVE  SellsCovered'
<1>a. CopiesFresh /\ (\A o \in Order : RowInOrder(o)) /\ Without({"race"}) /\ ~Can("draft")
  BY WithoutFacts DEF RowsInOrder
<1>b. ASSUME NEW o \in Order
      PROVE  /\ order[o].rem \in Nat /\ order'[o].rem \in Nat /\ pos[Owner(o)].res \in Nat /\ pos[Owner(o)].qty \in Nat
             /\ Unsold[o] = (IF IsSell(o) /\ order[o].st \in {"PENDING", "APPROVED"} THEN order[o].rem ELSE 0)
             /\ Unsold'[o] = (IF IsSell(o) /\ order'[o].st \in {"PENDING", "APPROVED"} THEN order'[o].rem ELSE 0)
             /\ Unsold[o] <= pos[Owner(o)].res /\ pos[Owner(o)].res <= pos[Owner(o)].qty
  <2>1. Owner(o) \in User /\ order'[o].rem \in Nat
    BY EnvFacts DEF TypeOK, OrderRow
  <2> QED BY <2>1, DeskFacts, RowFacts, UnsoldFacts, UnsoldNext, UnsoldHeld
<1>1. ASSUME UNCHANGED <<order, pos>> PROVE SellsCovered'
  <2>1. Unsold' = Unsold
    BY <1>1 DEF Unsold, IsSell, Template
  <2>2. \A u \in User : OrdersOf(u)' = OrdersOf(u)
    BY DEF OrdersOf, Owner, Template
  <2> QED BY <1>1, <2>1, <2>2 DEF SellsCovered, SellsReserved
<1>2. ASSUME NEW o \in Order, CreateBuyOrder(o) \/ CreateSellOrder(o) PROVE SellsCovered'
  <2>1. order[o].st = "none" /\ order'[o].st = "PENDING_CONFIRMATION" /\ OnlyOrder(o) /\ UNCHANGED pos
    BY <1>2, DraftEffect
  <2>2. OnlyOwner(o)
    BY <2>1 DEF OnlyOwner
  <2> QED BY <1>b, <2>1, <2>2, SellMove
<1>3. ASSUME NEW o \in Order, Declined(o) PROVE SellsCovered'
  <2>1. /\ order[o].st = "PENDING" /\ order'[o].st = "DECLINED" /\ OnlyOrder(o) /\ OnlyOwner(o)
        /\ pos'[Owner(o)].qty = pos[Owner(o)].qty
        /\ pos'[Owner(o)].res =
             IF IsSell(o) THEN AtLeastZero(pos[Owner(o)].res - order[o].rem) ELSE pos[Owner(o)].res
    BY <1>3, DeclineEffect DEF Declined
  <2>2. pos'[Owner(o)].res = pos[Owner(o)].res - Unsold[o] + Unsold'[o] /\ pos'[Owner(o)].res <= pos'[Owner(o)].qty
    BY <1>b, <2>1 DEF AtLeastZero
  <2> QED BY <2>1, <2>2, SellMove
<1>4. ASSUME NEW o \in Order, NEW n \in 1 .. order[o].rem, CancelOrder(o, n) PROVE SellsCovered'
  <2>1. /\ order[o].st \in {"PENDING", "APPROVED"} /\ OnlyOrder(o) /\ OnlyOwner(o)
        /\ order'[o].st = (IF order[o].rem = n THEN "CANCELLED" ELSE order[o].st)
        /\ order'[o].rem = order[o].rem - n /\ pos'[Owner(o)].qty = pos[Owner(o)].qty
        /\ pos'[Owner(o)].res = IF IsSell(o) THEN AtLeastZero(pos[Owner(o)].res - n) ELSE pos[Owner(o)].res
    BY <1>4, <1>a, CancelEffect
  <2>2. pos'[Owner(o)].res = pos[Owner(o)].res - Unsold[o] + Unsold'[o] /\ pos'[Owner(o)].res <= pos'[Owner(o)].qty
    BY <1>b, <2>1 DEF AtLeastZero
  <2> QED BY <2>1, <2>2, SellMove
<1>5. ASSUME NEW o \in Order, NEW n \in 1 .. order[o].rem, NEW p \in env.prices, NEW kept \in BOOLEAN,
             executeOrderPortion(o, n, p, kept)
      PROVE  SellsCovered'
  <2>1. /\ order[o].st = "APPROVED" /\ OnlyOrder(o) /\ OnlyOwner(o)
        /\ order'[o].st = (IF order[o].rem = n THEN "DONE" ELSE order[o].st) /\ order'[o].rem = order[o].rem - n
        /\ pos'[Owner(o)].qty = (IF IsSell(o) THEN pos[Owner(o)].qty - n
                                 ELSE IF IsFund(o) THEN pos[Owner(o)].qty ELSE pos[Owner(o)].qty + n)
        /\ pos'[Owner(o)].res = IF IsSell(o) THEN AtLeastZero(pos[Owner(o)].res - n) ELSE pos[Owner(o)].res
    BY <1>5, ExecuteEffect
  <2>2. pos'[Owner(o)].res = pos[Owner(o)].res - Unsold[o] + Unsold'[o] /\ pos'[Owner(o)].res <= pos'[Owner(o)].qty
    BY <1>b, <2>1 DEF AtLeastZero
  <2> QED BY <2>1, <2>2, SellMove
<1>6. ASSUME NEW o \in Order, NEW n, NEW p, NEW fee, ExecutionRolledBack(o, n, p, fee) PROVE SellsCovered'
  BY <1>1, <1>6, RolledBackEffect
<1>7. ASSUME NEW h \in env.handlers, ConfirmOrder(h) PROVE SellsCovered'
  <2>0. PICK o : o = read[h].o
    OBVIOUS
  <2>1. /\ o \in Order /\ order[o].st = "PENDING_CONFIRMATION" /\ OnlyOrder(o) /\ OnlyOwner(o)
        /\ order'[o].st = ConfirmedStatus(o) /\ order'[o].rem = order[o].rem
        /\ CanReserveSell(o, order[o].rem) /\ pos'[Owner(o)].qty = pos[Owner(o)].qty
        /\ pos'[Owner(o)].res = (IF IsSell(o) THEN pos[Owner(o)].res + order[o].rem ELSE pos[Owner(o)].res)
    BY <1>7, <1>a, <2>0, ConfirmEffect
  <2>2. order'[o].st \in {"PENDING", "APPROVED"} /\ (IsSell(o) => pos[Owner(o)].qty - pos[Owner(o)].res >= order[o].rem)
    BY <2>1 DEF ConfirmedStatus, CanReserveSell
  <2>3. pos'[Owner(o)].res = pos[Owner(o)].res - Unsold[o] + Unsold'[o] /\ pos'[Owner(o)].res <= pos'[Owner(o)].qty
    BY <1>b, <2>1, <2>2
  <2> QED BY <2>1, <2>3, SellMove
<1>8. ASSUME NEW h \in env.handlers, ConfirmAborted(h) PROVE SellsCovered'
  BY <1>1, <1>8, <1>a, ConfirmAbortedEffect
<1>9. ASSUME NEW h \in env.handlers, ConfirmExpired(h) \/ ApproveOrder(h) PROVE SellsCovered'
  <2>0. PICK o : o = read[h].o
    OBVIOUS
  <2>1. /\ o \in Order /\ OnlyOrder(o) /\ UNCHANGED pos
        /\ \/ order[o].st = "PENDING_CONFIRMATION" /\ order'[o].st = "DECLINED"
           \/ order[o].st = "PENDING" /\ order'[o].st = "APPROVED" /\ order'[o].rem = order[o].rem
    BY <1>9, <1>a, <2>0, ConfirmExpiredEffect, ApproveEffect
  <2>2. OnlyOwner(o)
    BY <2>1 DEF OnlyOwner
  <2> QED BY <1>b, <2>1, <2>2, SellMove
<1>10. CASE Quiet
  BY <1>1, <1>10 DEF Quiet
<1> QED BY <1>2, <1>3, <1>4, <1>5, <1>6, <1>7, <1>8, <1>9, <1>10, <1>a, StepKinds

\* Nothing is reserved beyond the OTC contracts at the start.
LEMMA SellInit == Init => SellInv
<1> SUFFICES ASSUME Init PROVE SellInv
  OBVIOUS
<1>1. DeskInv /\ TypeOK
  BY DeskInit DEF DeskInv
<1>2. PICK f : f = Unsold
  OBVIOUS
<1>3. \A x \in Order : f[x] = 0
  BY <1>2 DEF Init, Unsold
<1>4. ASSUME NEW u \in User
      PROVE  pos[u].res = OtcHeld[u] + SumFunctionOnSet(f, OrdersOf(u)) /\ pos[u].res <= pos[u].qty
  <2>1. SumFunctionOnSet(f, OrdersOf(u)) = 0
    <3>1. IsFiniteSet(OrdersOf(u)) /\ OrdersOf(u) \subseteq Order
      BY DeskAssumption, FS_Subset DEF OrdersOf
    <3> QED BY <1>3, <3>1, SumZero
  <2> QED BY <2>1, DeskAssumption DEF Init
<1> QED BY <1>1, <1>2, <1>4 DEF SellInv, SellsCovered, SellsReserved

\* Every step keeps the invariant about sells.
LEMMA SellNext == SellInv /\ [Next]_vars => SellInv'
<1> SUFFICES ASSUME SellInv, [Next]_vars PROVE SellInv'
  OBVIOUS
<1>1. DeskInv /\ DeskInv' /\ TypeOK /\ TypeOK' /\ env' = env
  BY DeskNext, EnvFixed DEF SellInv, DeskInv
<1>2. ASSUME Without({"race", "draft"})' PROVE SellsCovered'
  <2>1. Without({"race", "draft"}) /\ Without({"race"})
    BY <1>1, <1>2 DEF Without
  <2> QED BY <1>1, <2>1, SellStep DEF SellInv, DeskInv
<1> QED BY <1>1, <1>2 DEF SellInv

\* Every share a live sell order has left to sell is reserved exactly once, on
\* top of the OTC contracts, through confirmation, partial fills, partial
\* cancellation, rejection and expiry (reserveSellQuantityIfNeeded,
\* releaseSellReservation, updatePortfolio), as long as drafts are not cancelled
\* and unlocked copies are not overtaken.
THEOREM SellSafety == Spec => []SellsStayReserved
<1>1. SellInv => SellsStayReserved
  BY DEF SellInv, SellsStayReserved, SellsCovered
<1> QED BY <1>1, SellInit, SellNext, PTL DEF Spec
-----------------------------------------------------------------------------
(* Settlement, when no transaction fails after its remote call. *)

\* The fields of a record of trades.
LEMMA TallyFacts ==
  ASSUME TypeOK, NEW o \in Order
  PROVE  /\ tally[o].filled \in Nat /\ tally[o].rows \in Nat /\ tally[o].value \in Nat /\ tally[o].paid \in Nat
         /\ tally[o].fee \in Nat /\ tally[o].holding \in Nat
  BY DEF TypeOK

\* What SettledOnce says after a step, in the words of the present.
LEMMA SettledNext ==
  ASSUME env' = env, NEW o \in Order,
         tally'[o].filled + order'[o].rem <= Template(o).qty, tally'[o].paid = tally'[o].value,
         tally'[o].holding = (IF IsFund(o) THEN tally'[o].filled ELSE 0),
         tally'[o].fee = IF IsSell(o) THEN tally'[o].rows * SellFee(o)
                         ELSE IF Owner(o) \in Client /\ order'[o].appr = "auto" THEN 1 ELSE 0
  PROVE  SettledOnce(o)'
<1>1. Template(o)' = Template(o)
  BY DEF Template
<1>2. IsFund(o)' = IsFund(o) /\ IsSell(o)' = IsSell(o) /\ Owner(o)' = Owner(o)
  BY <1>1 DEF IsFund, IsSell, Owner
<1>3. SellFee(o)' = SellFee(o)
  BY <1>1, <1>2 DEF SellFee, BankFunded
<1> QED BY <1>1, <1>2, <1>3 DEF SettledOnce

\* A step that only changes one order leaves the others settled.
LEMMA SettleMove ==
  ASSUME env' = env, \A x \in Order : SettledOnce(x), NEW o \in Order, OnlyOrder(o), SettledOnce(o)'
  PROVE  \A x \in Order : SettledOnce(x)'
<1>1. ASSUME NEW x \in Order, x # o PROVE SettledOnce(x)'
  <2>1. order'[x] = order[x] /\ tally'[x] = tally[x]
    BY <1>1 DEF OnlyOrder
  <2> QED BY <2>1, SettledNext DEF SettledOnce
<1> QED BY <1>1

\* Every step settles each portion once.
LEMMA SettleStep ==
  ASSUME TypeOK, TypeOK', env' = env, Without({"race", "draft", "abort", "callback"}), RowsInOrder, SellsCovered,
         \A x \in Order : SettledOnce(x), [Next]_vars
  PROVE  \A x \in Order : SettledOnce(x)'
<1> DEFINE P == \A x \in Order : SettledOnce(x)'
<1>a. /\ CopiesFresh /\ (\A o \in Order : RowInOrder(o)) /\ Without({"race"})
      /\ ~Can("draft") /\ ~Can("abort") /\ ~Can("callback")
  BY WithoutFacts DEF RowsInOrder
<1>b. ASSUME NEW o \in Order
      PROVE  /\ order[o].rem \in Nat /\ Template(o).qty \in Nat /\ pos[Owner(o)].res \in Nat /\ pos[Owner(o)].qty \in Nat
             /\ tally[o].filled \in Nat /\ tally[o].rows \in Nat /\ tally[o].value \in Nat
             /\ tally[o].filled + order[o].rem <= Template(o).qty /\ tally[o].paid = tally[o].value
             /\ tally[o].holding = (IF IsFund(o) THEN tally[o].filled ELSE 0)
             /\ tally[o].fee = IF IsSell(o) THEN tally[o].rows * SellFee(o)
                               ELSE IF Owner(o) \in Client /\ order[o].appr = "auto" THEN 1 ELSE 0
  <2>1. Owner(o) \in User /\ order[o] \in OrderRow /\ SettledOnce(o)
    BY EnvFacts, DeskFacts
  <2> QED BY <2>1, EnvFacts, DeskFacts, RowFacts, TallyFacts DEF SettledOnce
<1>1. ASSUME UNCHANGED <<order, tally>> PROVE P
  BY <1>1, SettledNext DEF SettledOnce
<1>2. ASSUME NEW o \in Order, CreateBuyOrder(o) \/ CreateSellOrder(o) PROVE P
  <2>1. /\ order[o].st = "none" /\ order'[o].rem = Template(o).qty /\ order'[o].appr = order[o].appr
        /\ OnlyOrder(o) /\ tally'[o] = tally[o]
    BY <1>2, DraftEffect DEF SameTally
  <2>2. tally[o].filled = 0
    BY <1>a, <2>1 DEF RowInOrder
  <2>3. tally'[o].filled + order'[o].rem <= Template(o).qty
    BY <1>b, <2>1, <2>2
  <2>4. SettledOnce(o)'
    BY <1>b, <2>1, <2>3, SettledNext
  <2> QED BY <2>1, <2>4, SettleMove
<1>3. ASSUME NEW o \in Order, order[o].appr = "none", order'[o].appr # "auto", order'[o].rem <= order[o].rem,
             order'[o].rem \in Nat, OnlyOrder(o), tally'[o] = tally[o]
      PROVE  P
  <2>1. tally'[o].filled + order'[o].rem <= Template(o).qty
    BY <1>b, <1>3
  <2>2. SettledOnce(o)'
    BY <1>b, <1>3, <2>1, SettledNext
  <2> QED BY <1>3, <2>2, SettleMove
<1>4. ASSUME NEW o \in Order, Declined(o) PROVE P
  <2>1. order[o].st = "PENDING" /\ order'[o].appr # "auto" /\ order'[o].rem = 0 /\ OnlyOrder(o) /\ tally'[o] = tally[o]
    BY <1>4, DeclineEffect DEF Declined, SameTally
  <2>2. order[o].appr = "none" /\ 0 <= order[o].rem
    BY <1>a, <1>b, <2>1 DEF RowInOrder
  <2> QED BY <1>3, <2>1, <2>2
<1>5. ASSUME NEW o \in Order, NEW n \in 1 .. order[o].rem, CancelOrder(o, n) PROVE P
  <2>1. order'[o].rem = order[o].rem - n /\ order'[o].appr = order[o].appr /\ OnlyOrder(o) /\ tally'[o] = tally[o]
    BY <1>5, CancelEffect DEF SameTally
  <2>2. tally'[o].filled + order'[o].rem <= Template(o).qty
    BY <1>b, <2>1
  <2>3. SettledOnce(o)'
    BY <1>b, <2>1, <2>2, SettledNext
  <2> QED BY <2>1, <2>3, SettleMove
<1>6. ASSUME NEW o \in Order, NEW n \in 1 .. order[o].rem, NEW p \in env.prices, NEW kept \in BOOLEAN,
             executeOrderPortion(o, n, p, kept)
      PROVE  P
  <2>1. /\ order'[o].rem = order[o].rem - n /\ order'[o].appr = order[o].appr /\ OnlyOrder(o)
        /\ tally'[o].filled = tally[o].filled + n /\ tally'[o].rows = tally[o].rows + 1
        /\ tally'[o].value = tally[o].value + n * p /\ tally'[o].paid = tally[o].paid + n * p
        /\ tally'[o].fee = tally[o].fee + SellFee(o)
        /\ tally'[o].holding = tally[o].holding + (IF IsFund(o) /\ kept THEN n ELSE 0)
        /\ ~kept => Can("callback") /\ IsFund(o)
    BY <1>6, ExecuteEffect
  <2>2. tally'[o].filled + order'[o].rem <= Template(o).qty /\ tally'[o].paid = tally'[o].value
    BY <1>b, <2>1
  <2>3. tally'[o].holding = (IF IsFund(o) THEN tally'[o].filled ELSE 0)
    BY <1>a, <1>b, <2>1
  <2>4. CASE IsSell(o)
    <3>1. SellFee(o) \in {0, 1}
      BY DEF SellFee
    <3>2. tally'[o].fee = tally'[o].rows * SellFee(o)
      BY <1>b, <2>1, <2>4, <3>1
    <3>3. SettledOnce(o)'
      BY <2>2, <2>3, <2>4, <3>2, SettledNext
    <3> QED BY <2>1, <3>3, SettleMove
  <2>5. CASE ~IsSell(o)
    <3>1. SellFee(o) = 0
      BY <2>5 DEF SellFee
    <3>2. tally'[o].fee = IF Owner(o) \in Client /\ order'[o].appr = "auto" THEN 1 ELSE 0
      BY <1>b, <2>1, <2>5, <3>1
    <3>3. SettledOnce(o)'
      BY <2>2, <2>3, <2>5, <3>2, SettledNext
    <3> QED BY <2>1, <3>3, SettleMove
  <2> QED BY <2>4, <2>5
<1>7. ASSUME NEW o \in Order, NEW n \in 1 .. order[o].rem, NEW p, NEW fee, ExecutionRolledBack(o, n, p, fee) PROVE P
  <2>1. order[o].st = "APPROVED" /\ IsSell(o) /\ pos[Owner(o)].qty < n
    BY <1>7, <1>a, RolledBackEffect
  <2>2. Unsold[o] = order[o].rem
    BY <2>1, UnsoldFacts
  <2>3. order[o].rem <= pos[Owner(o)].res /\ pos[Owner(o)].res <= pos[Owner(o)].qty
    BY <2>2, UnsoldHeld
  <2> QED BY <1>b, <2>1, <2>3
<1>8. ASSUME NEW h \in env.handlers, ConfirmOrder(h) PROVE P
  <2>0. PICK o : o = read[h].o
    OBVIOUS
  <2>1. /\ o \in Order /\ order[o].st = "PENDING_CONFIRMATION" /\ OnlyOrder(o) /\ order'[o].rem = order[o].rem
        /\ order'[o].appr = (IF ConfirmedStatus(o) = "APPROVED" THEN "auto" ELSE "none")
        /\ tally'[o].filled = tally[o].filled /\ tally'[o].rows = tally[o].rows
        /\ tally'[o].value = tally[o].value /\ tally'[o].paid = tally[o].paid /\ tally'[o].holding = tally[o].holding
        /\ tally'[o].fee = (IF FeeDue(o) THEN tally[o].fee + 1 ELSE tally[o].fee)
    BY <1>8, <1>a, <2>0, ConfirmEffect
  <2>2. order[o].appr = "none"
    BY <1>a, <2>1 DEF RowInOrder
  <2>3. tally'[o].fee = IF IsSell(o) THEN tally'[o].rows * SellFee(o)
                        ELSE IF Owner(o) \in Client /\ order'[o].appr = "auto" THEN 1 ELSE 0
    BY <1>b, <2>1, <2>2 DEF FeeDue
  <2>4. SettledOnce(o)'
    BY <1>b, <2>1, <2>3, SettledNext
  <2> QED BY <2>1, <2>4, SettleMove
<1>9. ASSUME NEW h \in env.handlers, ConfirmAborted(h) PROVE P
  BY <1>9, <1>a, ConfirmAbortedEffect
<1>10. ASSUME NEW h \in env.handlers, ConfirmExpired(h) \/ ApproveOrder(h) PROVE P
  <2>0. PICK o : o = read[h].o
    OBVIOUS
  <2>1. /\ o \in Order /\ order[o].st \in {"PENDING_CONFIRMATION", "PENDING"} /\ OnlyOrder(o) /\ tally'[o] = tally[o]
        /\ order'[o].appr # "auto" /\ (order'[o].rem = 0 \/ order'[o].rem = order[o].rem)
    BY <1>10, <1>a, <2>0, ConfirmExpiredEffect, ApproveEffect DEF SameTally
  <2>2. order[o].appr = "none" /\ order'[o].rem <= order[o].rem /\ order'[o].rem \in Nat
    BY <1>a, <1>b, <2>1 DEF RowInOrder
  <2> QED BY <1>3, <2>1, <2>2
<1>11. CASE Quiet
  BY <1>1, <1>11 DEF Quiet
<1> QED BY <1>2, <1>4, <1>5, <1>6, <1>7, <1>8, <1>9, <1>10, <1>11, <1>a, StepKinds

\* Nothing is traded, paid or charged at the start.
LEMMA SettleInit == Init => SettleInv
<1> SUFFICES ASSUME Init PROVE SettleInv
  OBVIOUS
<1>1. SellInv /\ TypeOK
  BY SellInit DEF SellInv, DeskInv
<1>2. ASSUME NEW o \in Order PROVE SettledOnce(o)
  <2>1. Template(o).qty \in Nat /\ SellFee(o) \in {0, 1}
    BY <1>1, EnvFacts DEF SellFee
  <2> QED BY <2>1 DEF Init, SettledOnce
<1> QED BY <1>1, <1>2 DEF SettleInv

\* Every step keeps the invariant about settlement.
LEMMA SettleNext == SettleInv /\ [Next]_vars => SettleInv'
<1> SUFFICES ASSUME SettleInv, [Next]_vars PROVE SettleInv'
  OBVIOUS
<1>1. SellInv /\ SellInv' /\ TypeOK /\ TypeOK' /\ env' = env
  BY SellNext, EnvFixed DEF SettleInv, SellInv, DeskInv
<1>2. ASSUME Without({"race", "draft", "abort", "callback"})' PROVE \A o \in Order : SettledOnce(o)'
  <2>1. Without({"race", "draft", "abort", "callback"}) /\ Without({"race", "draft"}) /\ Without({"race"})
    BY <1>1, <1>2 DEF Without
  <2> QED BY <1>1, <2>1, SettleStep DEF SettleInv, SellInv, DeskInv
<1> QED BY <1>1, <1>2 DEF SettleInv

\* Each portion of an order is traded, paid and charged once, and a fund records
\* exactly what its orders filled: executeOrderPortion pays the trade leg before
\* it checks the seller's shares, and the reservation made at confirmation is
\* what keeps that check from failing after the money has moved.
THEOREM SettlementSafety == Spec => []PortionsSettleOnce
<1>1. SettleInv => PortionsSettleOnce
  BY DEF SettleInv, PortionsSettleOnce
<1> QED BY <1>1, SettleInit, SettleNext, PTL DEF Spec
-----------------------------------------------------------------------------
(* The agents' reserved limit, with prices up to the reference price. *)

ResvAccounted == \A a \in Agent : act[a].resv = SumFunctionOnSet(Exposed, OrdersOf(a))

\* What an order holds is within what its agent has reserved.
LEMMA ExposedHeld ==
  ASSUME TypeOK, ResvAccounted, NEW o \in Order, Owner(o) \in Agent
  PROVE  order[o].exp <= act[Owner(o)].resv
<1>1. PICK f : f = Exposed
  OBVIOUS
<1>2. \A x \in Order : f[x] \in Nat /\ f[x] = order[x].exp
  BY <1>1, DeskFacts, RowFacts DEF Exposed
<1>3. f[o] <= SumFunctionOnSet(f, OrdersOf(Owner(o)))
  BY <1>2, SumOwn
<1> QED BY <1>1, <1>2, <1>3 DEF ResvAccounted

\* A step that moves an agent's reserved limit along with what one order holds.
LEMMA ExposureMove ==
  ASSUME TypeOK, TypeOK', env' = env, ResvAccounted, NEW o \in Order, OnlyOrder(o), OnlyAgent(o),
         Owner(o) \in Agent => act'[Owner(o)].resv = act[Owner(o)].resv - order[o].exp + order'[o].exp
  PROVE  ResvAccounted'
<1>1. PICK f, g : f = Exposed /\ g = Exposed'
  OBVIOUS
<1>2. (\A x \in Order : f[x] = order[x].exp) /\ (\A x \in Order : g[x] = order'[x].exp)
  BY <1>1 DEF Exposed
<1>3. \A x \in Order : order[x].exp \in Nat /\ order'[x].exp \in Nat
  BY DEF TypeOK, OrderRow
<1>4. \A x \in Order : x # o => g[x] = f[x]
  BY <1>2 DEF OnlyOrder
<1>5. ASSUME NEW a \in Agent PROVE act'[a].resv = SumFunctionOnSet(Exposed', OrdersOf(a)')
  <2>1. OrdersOf(a)' = OrdersOf(a)
    BY DEF OrdersOf, Owner, Template
  <2>2. act[a].resv = SumFunctionOnSet(f, OrdersOf(a))
    BY <1>1 DEF ResvAccounted
  <2>3. (\A x \in Order : f[x] \in Nat) /\ (\A x \in Order : g[x] \in Nat)
    BY <1>2, <1>3
  <2>4. SumFunctionOnSet(g, OrdersOf(a)) =
          IF a = Owner(o) THEN SumFunctionOnSet(f, OrdersOf(a)) - f[o] + g[o] ELSE SumFunctionOnSet(f, OrdersOf(a))
    BY ONLY TypeOK, o \in Order, <1>4, <2>3, SumStep
  <2>5. act'[a].resv = SumFunctionOnSet(g, OrdersOf(a))
    BY <1>2, <2>2, <2>4 DEF OnlyAgent
  <2> QED BY <1>1, <2>1, <2>5
<1> QED BY <1>5 DEF ResvAccounted

\* A step that leaves what every order holds alone, and the reserved limits.
LEMMA ExposureStays ==
  ASSUME env' = env, ResvAccounted, UNCHANGED order, \A a \in Agent : act'[a].resv = act[a].resv
  PROVE  ResvAccounted'
<1>1. Exposed' = Exposed /\ \A a \in Agent : OrdersOf(a)' = OrdersOf(a)
  BY DEF Exposed, OrdersOf, Owner, Template
<1> QED BY <1>1 DEF ResvAccounted

\* What HoldsEnough says after a step, in the words of the present.
LEMMA HoldsNext ==
  ASSUME env' = env, NEW o \in Order,
         BankFunded(o) =>
           /\ order'[o].st \in {"PENDING", "APPROVED"} => RefPrice * order'[o].rem <= order'[o].exp
           /\ env.prices = {RefPrice} /\ Without({"draft"})
              /\ order'[o].st \notin {"none", "PENDING_CONFIRMATION"} => order'[o].exp = RefPrice * order'[o].rem
  PROVE  HoldsEnough(o)'
<1>1. BankFunded(o)' = BankFunded(o) /\ Without({"draft"})' = Without({"draft"})
  BY DEF BankFunded, Owner, IsFund, IsSell, Template, Without
<1> QED BY <1>1 DEF HoldsEnough

\* The other orders hold what they did.
LEMMA HoldsMove ==
  ASSUME env' = env, \A x \in Order : HoldsEnough(x), NEW o \in Order, OnlyOrder(o), HoldsEnough(o)'
  PROVE  \A x \in Order : HoldsEnough(x)'
<1>1. ASSUME NEW x \in Order, x # o PROVE HoldsEnough(x)'
  <2>1. order'[x] = order[x]
    BY <1>1 DEF OnlyOrder
  <2> QED BY <2>1, HoldsNext DEF HoldsEnough
<1> QED BY <1>1

\* A trade at no more than the reference price takes no more than the order
\* holds and leaves enough for the rest.
LEMMA TradeTakes ==
  ASSUME NEW e \in Nat, NEW r \in Nat, NEW n \in 1 .. r, NEW p \in Nat, p <= RefPrice, RefPrice * r <= e
  PROVE  /\ n * p \in Nat /\ n * p <= e /\ RefPrice * (r - n) <= e - n * p
         /\ p = RefPrice /\ e = RefPrice * r => RefPrice * (r - n) = e - n * p
<1>1. RefPrice \in Nat /\ n \in Nat /\ r - n \in Nat
  BY DeskAssumption
<1>2. n * p <= n * RefPrice /\ n * p \in Nat /\ n * RefPrice \in Nat
  BY <1>1
<1>3. RefPrice * r = RefPrice * (r - n) + n * RefPrice /\ RefPrice * (r - n) \in Nat
  BY <1>1
<1> QED BY <1>2, <1>3

\* Every step keeps the agents' reserved limits and the orders' parts of them.
LEMMA ExposureStep ==
  ASSUME TypeOK, TypeOK', env' = env, Without({"race", "reset"}), Modest, RowsInOrder,
         ResvAccounted, \A x \in Order : HoldsEnough(x), [Next]_vars
  PROVE  ResvAccounted' /\ \A x \in Order : HoldsEnough(x)'
<1> DEFINE P == ResvAccounted' /\ \A x \in Order : HoldsEnough(x)'
<1>a. /\ CopiesFresh /\ (\A o \in Order : RowInOrder(o)) /\ Without({"race"}) /\ Without({"reset"})
      /\ (Without({"draft"}) <=> ~Can("draft")) /\ RefPrice \in Nat
  BY WithoutFacts, DeskAssumption DEF RowsInOrder
<1>b. ASSUME NEW o \in Order
      PROVE  /\ order[o] \in OrderRow /\ order[o].rem \in Nat /\ order[o].exp \in Nat /\ Template(o).qty \in Nat
             /\ Owner(o) \in Agent => order[o].exp <= act[Owner(o)].resv /\ act[Owner(o)].resv \in Nat
             /\ BankFunded(o) =>
                  /\ Owner(o) \in Agent
                  /\ order[o].st \in {"PENDING", "APPROVED"} => RefPrice * order[o].rem <= order[o].exp
                  /\ env.prices = {RefPrice} /\ Without({"draft"})
                     /\ order[o].st \notin {"none", "PENDING_CONFIRMATION"} => order[o].exp = RefPrice * order[o].rem
  <2>1. order[o] \in OrderRow /\ HoldsEnough(o)
    BY DeskFacts
  <2>2. order[o].rem \in Nat /\ order[o].exp \in Nat /\ Template(o).qty \in Nat
    BY <2>1, EnvFacts, RowFacts
  <2>3. Owner(o) \in Agent => order[o].exp <= act[Owner(o)].resv /\ act[Owner(o)].resv \in Nat
    BY ExposedHeld, DeskFacts
  <2>4. BankFunded(o) => Owner(o) \in Agent
    BY DEF BankFunded
  <2> QED BY <2>1, <2>2, <2>3, <2>4 DEF HoldsEnough
<1>1. ASSUME UNCHANGED order, \A a \in Agent : act'[a].resv = act[a].resv PROVE P
  <2>1. \A x \in Order : HoldsEnough(x)'
    BY <1>1, HoldsNext DEF HoldsEnough
  <2> QED BY <1>1, <2>1, ExposureStays
<1>2. ASSUME NEW o \in Order, CreateBuyOrder(o) \/ CreateSellOrder(o) PROVE P
  <2>1. order'[o].st = "PENDING_CONFIRMATION" /\ order'[o].exp = order[o].exp /\ OnlyOrder(o) /\ act' = act
    BY <1>2, DraftEffect
  <2>2. OnlyAgent(o) /\ (Owner(o) \in Agent => act'[Owner(o)].resv = act[Owner(o)].resv - order[o].exp + order'[o].exp)
    BY <1>b, <2>1 DEF OnlyAgent
  <2>3. HoldsEnough(o)'
    BY <2>1, HoldsNext
  <2> QED BY <2>1, <2>2, <2>3, ExposureMove, HoldsMove
<1>3. ASSUME NEW o \in Order, Declined(o) PROVE P
  <2>1. /\ order[o].st = "PENDING" /\ order'[o].st = "DECLINED" /\ order'[o].rem = 0
        /\ order'[o].exp = order[o].exp - Releasable(order[o], order[o].rem) /\ OnlyOrder(o) /\ OnlyAgent(o)
        /\ Owner(o) \in Agent =>
             act'[Owner(o)].resv = AtLeastZero(act[Owner(o)].resv - Releasable(order[o], order[o].rem))
    BY <1>3, DeclineEffect DEF Declined
  <2>2. /\ Releasable(order[o], order[o].rem) \in Nat /\ Releasable(order[o], order[o].rem) <= order[o].exp
        /\ order[o].rem > 0 /\ order[o].exp = RefPrice * order[o].rem =>
             RefPrice * (order[o].rem - order[o].rem) = order[o].exp - Releasable(order[o], order[o].rem)
    BY <1>b, ReleasableFacts
  <2>3. Owner(o) \in Agent => act'[Owner(o)].resv = act[Owner(o)].resv - order[o].exp + order'[o].exp
    BY <1>b, <2>1, <2>2 DEF AtLeastZero
  <2>4. order[o].exp = RefPrice * order[o].rem => order'[o].exp = RefPrice * order'[o].rem
    BY <1>a, <1>b, <2>1, <2>2
  <2>5. HoldsEnough(o)'
    BY <1>b, <2>1, <2>4, HoldsNext
  <2> QED BY <2>1, <2>3, <2>5, ExposureMove, HoldsMove
<1>4. ASSUME NEW o \in Order, NEW n \in 1 .. order[o].rem, CancelOrder(o, n) PROVE P
  <2>1. /\ order[o].st \in {"PENDING_CONFIRMATION", "PENDING", "APPROVED"}
        /\ order[o].st = "PENDING_CONFIRMATION" => Can("draft")
        /\ order'[o].st = (IF order[o].rem = n THEN "CANCELLED" ELSE order[o].st)
        /\ order'[o].rem = order[o].rem - n /\ order'[o].exp = order[o].exp - Releasable(order[o], n)
        /\ OnlyOrder(o) /\ OnlyAgent(o)
        /\ Owner(o) \in Agent => act'[Owner(o)].resv = AtLeastZero(act[Owner(o)].resv - Releasable(order[o], n))
    BY <1>4, CancelEffect
  <2>2. /\ Releasable(order[o], n) \in Nat /\ Releasable(order[o], n) <= order[o].exp
        /\ RefPrice * order[o].rem <= order[o].exp =>
             RefPrice * (order[o].rem - n) <= order[o].exp - Releasable(order[o], n)
        /\ order[o].exp = RefPrice * order[o].rem =>
             RefPrice * (order[o].rem - n) = order[o].exp - Releasable(order[o], n)
    BY <1>b, ReleasableFacts
  <2>3. Owner(o) \in Agent => act'[Owner(o)].resv = act[Owner(o)].resv - order[o].exp + order'[o].exp
    BY <1>b, <2>1, <2>2 DEF AtLeastZero
  <2>4. HoldsEnough(o)'
    BY <1>a, <1>b, <2>1, <2>2, HoldsNext
  <2> QED BY <2>1, <2>3, <2>4, ExposureMove, HoldsMove
<1>5. ASSUME NEW o \in Order, NEW n \in 1 .. order[o].rem, NEW p \in env.prices, NEW kept \in BOOLEAN,
             executeOrderPortion(o, n, p, kept)
      PROVE  P
  <2>1. /\ order[o].st = "APPROVED" /\ order'[o].st = (IF order[o].rem = n THEN "DONE" ELSE order[o].st)
        /\ order'[o].rem = order[o].rem - n
        /\ order'[o].exp = (IF BankFunded(o) THEN AtLeastZero(order[o].exp - n * p) ELSE order[o].exp)
        /\ OnlyOrder(o) /\ OnlyAgent(o)
        /\ Owner(o) \in Agent =>
             act'[Owner(o)].resv =
               IF BankFunded(o) THEN AtLeastZero(act[Owner(o)].resv - n * p) ELSE act[Owner(o)].resv
    BY <1>5, ExecuteEffect
  <2>2. p \in Nat /\ p <= RefPrice /\ (env.prices = {RefPrice} => p = RefPrice)
    BY EnvFacts DEF Modest
  <2>3. CASE BankFunded(o)
    <3>1. RefPrice * order[o].rem <= order[o].exp
      BY <1>b, <2>1, <2>3
    <3>2. /\ n * p \in Nat /\ n * p <= order[o].exp /\ RefPrice * (order[o].rem - n) <= order[o].exp - n * p
          /\ p = RefPrice /\ order[o].exp = RefPrice * order[o].rem =>
               RefPrice * (order[o].rem - n) = order[o].exp - n * p
      BY <1>b, <2>2, <3>1, TradeTakes
    <3>3. /\ order'[o].exp = order[o].exp - n * p
          /\ act'[Owner(o)].resv = act[Owner(o)].resv - order[o].exp + order'[o].exp
      BY <1>b, <2>1, <2>3, <3>2 DEF AtLeastZero
    <3>4. HoldsEnough(o)'
      BY <1>b, <2>1, <2>2, <2>3, <3>2, <3>3, HoldsNext
    <3> QED BY <2>1, <3>3, <3>4, ExposureMove, HoldsMove
  <2>4. CASE ~BankFunded(o)
    <3>1. Owner(o) \in Agent => act'[Owner(o)].resv = act[Owner(o)].resv - order[o].exp + order'[o].exp
      BY <1>b, <2>1, <2>4
    <3>2. HoldsEnough(o)'
      BY <2>4, HoldsNext
    <3> QED BY <2>1, <3>1, <3>2, ExposureMove, HoldsMove
  <2> QED BY <2>3, <2>4
<1>6. ASSUME NEW o \in Order, NEW n, NEW p, NEW fee, ExecutionRolledBack(o, n, p, fee) PROVE P
  BY <1>1, <1>6, RolledBackEffect
<1>7. ASSUME NEW h \in env.handlers, ConfirmOrder(h) PROVE P
  <2>0. PICK o : o = read[h].o
    OBVIOUS
  <2>1. /\ o \in Order /\ order[o].st = "PENDING_CONFIRMATION" /\ OnlyOrder(o) /\ OnlyAgent(o)
        /\ order'[o].rem = order[o].rem /\ order'[o].exp = (IF Owner(o) \in Agent THEN Amount(o) ELSE 0)
        /\ Owner(o) \in Agent => act'[Owner(o)].resv = act[Owner(o)].resv + Amount(o)
    BY <1>7, <1>a, <2>0, ConfirmEffect
  <2>2. /\ order[o].exp = 0 /\ order[o].rem <= Template(o).qty
        /\ Without({"draft"}) => order[o].rem = Template(o).qty
    BY <1>a, <2>1 DEF RowInOrder
  <2>3. Amount(o) = RefPrice * Template(o).qty /\ Amount(o) \in Nat /\ RefPrice * order[o].rem <= Amount(o)
    BY <1>a, <1>b, <2>1, <2>2 DEF Amount
  <2>4. Owner(o) \in Agent => act'[Owner(o)].resv = act[Owner(o)].resv - order[o].exp + order'[o].exp
    BY <1>b, <2>1, <2>2, <2>3
  <2>5. HoldsEnough(o)'
    BY <1>b, <2>1, <2>2, <2>3, HoldsNext
  <2> QED BY <2>1, <2>4, <2>5, ExposureMove, HoldsMove
<1>8. ASSUME NEW h \in env.handlers, ConfirmAborted(h) PROVE P
  BY <1>1, <1>8, <1>a, ConfirmAbortedEffect
<1>9. ASSUME NEW h \in env.handlers, ConfirmExpired(h) \/ ApproveOrder(h) PROVE P
  <2>0. PICK o : o = read[h].o
    OBVIOUS
  <2>1. /\ o \in Order /\ OnlyOrder(o) /\ act' = act /\ order'[o].exp = order[o].exp
        /\ \/ order[o].st = "PENDING_CONFIRMATION" /\ order'[o].st = "DECLINED" /\ order'[o].rem = 0
           \/ order[o].st = "PENDING" /\ order'[o].st = "APPROVED" /\ order'[o].rem = order[o].rem
    BY <1>9, <1>a, <2>0, ConfirmExpiredEffect, ApproveEffect
  <2>2. OnlyAgent(o) /\ (Owner(o) \in Agent => act'[Owner(o)].resv = act[Owner(o)].resv - order[o].exp + order'[o].exp)
    BY <1>b, <2>1 DEF OnlyAgent
  <2>3. order[o].st = "PENDING_CONFIRMATION" => order[o].exp = 0
    BY <1>a, <2>1 DEF RowInOrder
  <2>4. HoldsEnough(o)'
    BY <1>a, <1>b, <2>1, <2>3, HoldsNext
  <2> QED BY <2>1, <2>2, <2>4, ExposureMove, HoldsMove
<1>10. CASE Quiet
  BY <1>1, <1>10, <1>a DEF Quiet
<1> QED BY <1>2, <1>3, <1>4, <1>5, <1>6, <1>7, <1>8, <1>9, <1>10, <1>a, StepKinds

\* Nothing is held of any limit at the start.
LEMMA ExposureInit == Init => ExposureInv
<1> SUFFICES ASSUME Init PROVE ExposureInv
  OBVIOUS
<1>1. DeskInv /\ TypeOK
  BY DeskInit DEF DeskInv
<1>2. PICK f : f = Exposed
  OBVIOUS
<1>3. \A x \in Order : f[x] = 0
  BY <1>2 DEF Init, Exposed
<1>4. ASSUME NEW a \in Agent PROVE act[a].resv = SumFunctionOnSet(f, OrdersOf(a))
  <2>1. IsFiniteSet(OrdersOf(a)) /\ OrdersOf(a) \subseteq Order
    BY DeskAssumption, FS_Subset DEF OrdersOf
  <2>2. SumFunctionOnSet(f, OrdersOf(a)) = 0
    BY <1>3, <2>1, SumZero
  <2> QED BY <2>2 DEF Init
<1>5. \A o \in Order : HoldsEnough(o)
  BY DEF Init, HoldsEnough
<1> QED BY <1>1, <1>2, <1>4, <1>5 DEF ExposureInv, Accounted

\* Every step keeps the invariant about exposure.
LEMMA ExposureNext == ExposureInv /\ [Next]_vars => ExposureInv'
<1> SUFFICES ASSUME ExposureInv, [Next]_vars PROVE ExposureInv'
  OBVIOUS
<1>1. DeskInv /\ DeskInv' /\ TypeOK /\ TypeOK' /\ env' = env
  BY DeskNext, EnvFixed DEF ExposureInv, DeskInv
<1>2. ASSUME (Without({"race", "reset"}) /\ Modest)' PROVE Accounted'
  <2>1. Without({"race", "reset"}) /\ Modest /\ Without({"race"})
    BY <1>1, <1>2 DEF Without, Modest
  <2>2. RowsInOrder /\ ResvAccounted /\ \A x \in Order : HoldsEnough(x)
    BY <1>1, <2>1 DEF ExposureInv, DeskInv, Accounted, ResvAccounted
  <2>3. ResvAccounted' /\ \A x \in Order : HoldsEnough(x)'
    BY <1>1, <2>1, <2>2, ExposureStep
  <2> QED BY <2>3 DEF Accounted, ResvAccounted
<1> QED BY <1>1, <1>2 DEF ExposureInv

\* An agent's reserved limit is the sum of what its orders still hold, whatever
\* part of them is filled, cancelled or declined (the rounding of
\* releaseAgentExposure loses nothing), and a closed order that the bank's account
\* paid at the reference price holds nothing.
THEOREM AgentExposureSafety == Spec => []ExposureAccounted
<1>1. ExposureInv => ExposureAccounted
  <2> SUFFICES ASSUME ExposureInv, Without({"race", "reset"}), Modest
               PROVE  /\ \A a \in Agent : act[a].resv = SumFunctionOnSet(Exposed, OrdersOf(a))
                      /\ env.prices = {RefPrice} /\ Without({"draft"}) =>
                           \A o \in Order : BankFunded(o) /\ order[o].st \in Final => order[o].exp = 0
    BY DEF ExposureAccounted
  <2>1. RowsInOrder /\ Accounted
    BY WithoutFacts DEF ExposureInv, DeskInv
  <2>2. ASSUME NEW o \in Order, env.prices = {RefPrice}, Without({"draft"}), BankFunded(o), order[o].st \in Final
        PROVE  order[o].exp = 0
    <3>1. order[o].rem = 0 /\ RowInOrder(o) /\ HoldsEnough(o)
      BY <2>1, <2>2 DEF RowsInOrder, RowInOrder, Accounted
    <3>2. order[o].exp = RefPrice * 0
      BY <2>2, <3>1 DEF HoldsEnough, Final
    <3> QED BY <3>2, DeskAssumption
  <2> QED BY <2>1, <2>2 DEF Accounted
<1> QED BY <1>1, ExposureInit, ExposureNext, PTL DEF Spec
-----------------------------------------------------------------------------
(* The limit itself, while nobody changes it. *)

\* What an order has used of its agent's limit and what it took of it without a
\* supervisor, before and after a step.
LEMMA TakenFacts ==
  ASSUME TypeOK, TypeOK', env' = env, NEW o \in Order
  PROVE  /\ Used[o] = (IF BankFunded(o) THEN tally[o].value ELSE 0) /\ Used[o] \in Nat
         /\ Used'[o] = (IF BankFunded(o) THEN tally'[o].value ELSE 0) /\ Used'[o] \in Nat
         /\ AutoTaken[o] = (IF order[o].appr = "auto" THEN order[o].exp + Used[o] ELSE 0) /\ AutoTaken[o] \in Nat
         /\ AutoTaken'[o] = (IF order'[o].appr = "auto" THEN order'[o].exp + Used'[o] ELSE 0) /\ AutoTaken'[o] \in Nat
         /\ order[o].exp \in Nat /\ order'[o].exp \in Nat /\ tally[o].value \in Nat
<1>1. order[o].exp \in Nat /\ order'[o].exp \in Nat /\ tally[o].value \in Nat /\ tally'[o].value \in Nat
  BY DEF TypeOK, OrderRow
<1>2. BankFunded(o)' = BankFunded(o)
  BY DEF BankFunded, Owner, IsFund, IsSell, Template
<1>3. /\ Used[o] = (IF BankFunded(o) THEN tally[o].value ELSE 0) /\ Used[o] \in Nat
      /\ Used'[o] = (IF BankFunded(o) THEN tally'[o].value ELSE 0) /\ Used'[o] \in Nat
  BY <1>1, <1>2 DEF Used
<1>4. /\ AutoTaken[o] = (IF order[o].appr = "auto" THEN order[o].exp + Used[o] ELSE 0)
      /\ AutoTaken'[o] = (IF order'[o].appr = "auto" THEN order'[o].exp + Used'[o] ELSE 0)
  BY DEF AutoTaken, Exposed
<1> QED BY <1>1, <1>3, <1>4

\* All that an agent's orders took without a supervisor is reserved or used.
LEMMA TakenHeld ==
  ASSUME TypeOK, TypeOK', env' = env, ResvAccounted, NEW a \in Agent,
         act[a].used = SumFunctionOnSet(Used, OrdersOf(a))
  PROVE  SumFunctionOnSet(AutoTaken, OrdersOf(a)) <= act[a].resv + act[a].used
<1>1. PICK f, g, h, k : f = Exposed /\ g = Used /\ h = AutoTaken /\ k = [x \in Order |-> Exposed[x] + Used[x]]
  OBVIOUS
<1>2. PICK S : S = OrdersOf(a)
  OBVIOUS
<1>3. IsFiniteSet(S) /\ S \subseteq Order
  BY <1>2, DeskAssumption, FS_Subset DEF OrdersOf
<1>4. ASSUME NEW x \in S
      PROVE  /\ f[x] \in Nat /\ g[x] \in Nat /\ h[x] \in Nat /\ k[x] \in Nat
             /\ k[x] = f[x] + g[x] /\ h[x] <= k[x]
  <2>1. x \in Order /\ f[x] = order[x].exp
    BY <1>1, <1>3 DEF Exposed
  <2>2. k[x] = f[x] + g[x]
    BY <1>1, <2>1
  <2>3. /\ g[x] \in Nat /\ h[x] = (IF order[x].appr = "auto" THEN f[x] + g[x] ELSE 0) /\ h[x] \in Nat
        /\ f[x] \in Nat
    BY <1>1, <2>1, TakenFacts
  <2> QED BY <2>2, <2>3
<1>5. \A x \in S : f[x] \in Int /\ g[x] \in Int /\ k[x] = f[x] + g[x]
  BY <1>4
<1>6. SumFunctionOnSet(k, S) = SumFunctionOnSet(f, S) + SumFunctionOnSet(g, S)
  BY <1>3, <1>5, SumPlus
<1>7. SumFunctionOnSet(h, S) <= SumFunctionOnSet(k, S)
  BY <1>3, <1>4, SumBelow
<1> QED BY <1>1, <1>2, <1>6, <1>7 DEF ResvAccounted

\* A step that moves an agent's used limit along with what one order used, and
\* leaves the agent within the limit.
LEMMA LimitMove ==
  ASSUME TypeOK, TypeOK', env' = env, WithinLimit, NEW o \in Order, OnlyOrder(o), OnlyAgent(o),
         Owner(o) \in Agent =>
           /\ act'[Owner(o)].limit = act[Owner(o)].limit
           /\ act'[Owner(o)].used = act[Owner(o)].used - Used[o] + Used'[o]
           /\ SumFunctionOnSet(AutoTaken, OrdersOf(Owner(o))) - AutoTaken[o] + AutoTaken'[o] <= Limit
  PROVE  WithinLimit'
<1>1. PICK f, g, h, k : f = Used /\ g = Used' /\ h = AutoTaken /\ k = AutoTaken'
  OBVIOUS
<1>2. /\ \A x \in Order : f[x] \in Nat
      /\ \A x \in Order : g[x] \in Nat
      /\ \A x \in Order : x # o => g[x] = f[x]
  BY <1>1, TakenFacts DEF OnlyOrder
<1>3. /\ \A x \in Order : h[x] \in Nat
      /\ \A x \in Order : k[x] \in Nat
      /\ \A x \in Order : x # o => k[x] = h[x]
  BY <1>1, TakenFacts DEF OnlyOrder
<1>4. ASSUME NEW a \in Agent
      PROVE  /\ act'[a].limit = Limit /\ act'[a].used = SumFunctionOnSet(Used', OrdersOf(a)')
             /\ SumFunctionOnSet(AutoTaken', OrdersOf(a)') <= Limit
  <2>1. OrdersOf(a)' = OrdersOf(a)
    BY DEF OrdersOf, Owner, Template
  <2>2. /\ act[a].limit = Limit /\ act[a].used = SumFunctionOnSet(f, OrdersOf(a))
        /\ SumFunctionOnSet(h, OrdersOf(a)) <= Limit
    BY <1>1 DEF WithinLimit
  <2>3. SumFunctionOnSet(g, OrdersOf(a)) =
          IF a = Owner(o) THEN SumFunctionOnSet(f, OrdersOf(a)) - f[o] + g[o] ELSE SumFunctionOnSet(f, OrdersOf(a))
    BY ONLY TypeOK, o \in Order, <1>2, SumStep
  <2>4. SumFunctionOnSet(k, OrdersOf(a)) =
          IF a = Owner(o) THEN SumFunctionOnSet(h, OrdersOf(a)) - h[o] + k[o] ELSE SumFunctionOnSet(h, OrdersOf(a))
    BY ONLY TypeOK, o \in Order, <1>3, SumStep
  <2>5. CASE a = Owner(o)
    <3>1. act'[a].limit = Limit /\ act'[a].used = SumFunctionOnSet(g, OrdersOf(a))
      BY <1>1, <2>2, <2>3, <2>5
    <3>2. SumFunctionOnSet(k, OrdersOf(a)) <= Limit
      BY <1>1, <2>4, <2>5
    <3> QED BY <1>1, <2>1, <3>1, <3>2
  <2>6. CASE a # Owner(o)
    <3>1. act'[a] = act[a]
      BY <2>6 DEF OnlyAgent
    <3> QED BY <1>1, <2>1, <2>2, <2>3, <2>4, <2>6, <3>1
  <2> QED BY <2>5, <2>6
<1> QED BY <1>4 DEF WithinLimit

\* A step after which an order has taken no more than before.
LEMMA LimitKept ==
  ASSUME TypeOK, TypeOK', env' = env, WithinLimit, NEW o \in Order, OnlyOrder(o), OnlyAgent(o),
         Owner(o) \in Agent =>
           /\ act'[Owner(o)].limit = act[Owner(o)].limit
           /\ act'[Owner(o)].used = act[Owner(o)].used - Used[o] + Used'[o]
           /\ AutoTaken'[o] <= AutoTaken[o]
  PROVE  WithinLimit'
<1>1. ASSUME Owner(o) \in Agent
      PROVE  SumFunctionOnSet(AutoTaken, OrdersOf(Owner(o))) - AutoTaken[o] + AutoTaken'[o] <= Limit
  <2>1. PICK h : h = AutoTaken
    OBVIOUS
  <2>2. \A x \in Order : h[x] \in Nat
    BY <2>1, TakenFacts
  <2>3. SumFunctionOnSet(h, OrdersOf(Owner(o))) \in Nat
    BY <2>2, SumOwn
  <2>4. SumFunctionOnSet(h, OrdersOf(Owner(o))) <= Limit /\ Limit \in Nat
    BY <1>1, <2>1, DeskAssumption DEF WithinLimit
  <2> QED BY <1>1, <2>1, <2>3, <2>4, TakenFacts
<1> QED BY <1>1, LimitMove

\* Every step keeps the agents within their limits.
LEMMA LimitStep ==
  ASSUME TypeOK, TypeOK', env' = env, Without({"race", "reset"}), env.limits = {}, Modest, RowsInOrder,
         ResvAccounted, \A x \in Order : HoldsEnough(x), WithinLimit, [Next]_vars
  PROVE  WithinLimit'
<1>a. CopiesFresh /\ (\A o \in Order : RowInOrder(o)) /\ Without({"race"}) /\ Without({"reset"})
  BY WithoutFacts DEF RowsInOrder
<1>b. ASSUME NEW o \in Order
      PROVE  /\ order[o] \in OrderRow /\ order[o].rem \in Nat /\ order[o].exp \in Nat
             /\ Owner(o) \in Agent => act[Owner(o)].used \in Nat /\ act[Owner(o)].resv \in Nat
             /\ order[o].st \in {"none", "PENDING_CONFIRMATION", "PENDING"} => order[o].appr = "none"
  <2>1. order[o] \in OrderRow /\ RowInOrder(o)
    BY <1>a, DeskFacts
  <2> QED BY <2>1, DeskFacts, RowFacts DEF RowInOrder
<1>1. ASSUME NEW o \in Order, OnlyOrder(o), OnlyAgent(o), tally'[o].value = tally[o].value,
             Owner(o) \in Agent => act'[Owner(o)].limit = act[Owner(o)].limit /\ act'[Owner(o)].used = act[Owner(o)].used,
             order'[o].appr # "auto" \/ (order'[o].appr = order[o].appr /\ order'[o].exp <= order[o].exp)
      PROVE  WithinLimit'
  <2>1. Used'[o] = Used[o]
    BY <1>1, TakenFacts
  <2>2. AutoTaken'[o] <= AutoTaken[o]
    BY <1>1, <2>1, TakenFacts
  <2>3. Owner(o) \in Agent => act'[Owner(o)].used = act[Owner(o)].used - Used[o] + Used'[o]
    BY <1>b, <1>1, <2>1, TakenFacts
  <2> QED BY <1>1, <2>2, <2>3, LimitKept
<1>2. ASSUME NEW o \in Order, CreateBuyOrder(o) \/ CreateSellOrder(o) PROVE WithinLimit'
  <2>1. /\ order[o].st = "none" /\ order'[o].appr = order[o].appr /\ OnlyOrder(o) /\ tally'[o] = tally[o] /\ act' = act
    BY <1>2, DraftEffect DEF SameTally
  <2> QED BY <1>1, <1>b, <2>1 DEF OnlyAgent
<1>3. ASSUME NEW o \in Order, Declined(o) PROVE WithinLimit'
  <2>1. /\ order'[o].appr # "auto" /\ OnlyOrder(o) /\ OnlyAgent(o) /\ tally'[o] = tally[o]
        /\ Owner(o) \in Agent =>
             act'[Owner(o)].limit = act[Owner(o)].limit /\ act'[Owner(o)].used = act[Owner(o)].used
    BY <1>3, DeclineEffect DEF Declined, SameTally
  <2> QED BY <1>1, <2>1
<1>4. ASSUME NEW o \in Order, NEW n \in 1 .. order[o].rem, CancelOrder(o, n) PROVE WithinLimit'
  <2>1. /\ order'[o].appr = order[o].appr /\ order'[o].exp = order[o].exp - Releasable(order[o], n)
        /\ OnlyOrder(o) /\ OnlyAgent(o) /\ tally'[o] = tally[o]
        /\ Owner(o) \in Agent =>
             act'[Owner(o)].limit = act[Owner(o)].limit /\ act'[Owner(o)].used = act[Owner(o)].used
    BY <1>4, CancelEffect DEF SameTally
  <2>2. Releasable(order[o], n) \in Nat
    BY <1>b, ReleasableFacts
  <2>3. order'[o].exp <= order[o].exp
    BY <1>b, <2>1, <2>2
  <2> QED BY <1>1, <2>1, <2>3
<1>5. ASSUME NEW o \in Order, NEW n \in 1 .. order[o].rem, NEW p \in env.prices, NEW kept \in BOOLEAN,
             executeOrderPortion(o, n, p, kept)
      PROVE  WithinLimit'
  <2>1. /\ order[o].st = "APPROVED" /\ order'[o].appr = order[o].appr
        /\ order'[o].exp = (IF BankFunded(o) THEN AtLeastZero(order[o].exp - n * p) ELSE order[o].exp)
        /\ OnlyOrder(o) /\ OnlyAgent(o) /\ tally'[o].value = tally[o].value + n * p
        /\ Owner(o) \in Agent =>
             /\ act'[Owner(o)].limit = act[Owner(o)].limit
             /\ act'[Owner(o)].used = (IF BankFunded(o) THEN act[Owner(o)].used + n * p ELSE act[Owner(o)].used)
    BY <1>5, ExecuteEffect
  <2>2. p \in Nat /\ p <= RefPrice
    BY EnvFacts DEF Modest
  <2>3. CASE BankFunded(o)
    <3>1. RefPrice * order[o].rem <= order[o].exp
      BY <2>1, <2>3 DEF HoldsEnough
    <3>2. n * p \in Nat /\ n * p <= order[o].exp
      BY <1>b, <2>2, <3>1, TradeTakes
    <3>3. order'[o].exp = order[o].exp - n * p
      BY <1>b, <2>1, <2>3, <3>2 DEF AtLeastZero
    <3>4. Used'[o] = Used[o] + n * p
      BY <2>1, <2>3, <3>2, TakenFacts
    <3>5. AutoTaken'[o] = AutoTaken[o]
      BY <1>b, <2>1, <3>2, <3>3, <3>4, TakenFacts
    <3>6. Owner(o) \in Agent => act'[Owner(o)].used = act[Owner(o)].used - Used[o] + Used'[o]
      BY <1>b, <2>1, <2>3, <3>2, <3>4, TakenFacts
    <3>7. AutoTaken'[o] <= AutoTaken[o]
      BY <3>5, TakenFacts
    <3> QED BY <2>1, <3>6, <3>7, LimitKept
  <2>4. CASE ~BankFunded(o)
    <3>1. Used'[o] = 0 /\ Used[o] = 0 /\ order'[o].exp = order[o].exp
      BY <2>1, <2>4, TakenFacts
    <3>2. AutoTaken'[o] <= AutoTaken[o]
      BY <2>1, <3>1, TakenFacts
    <3>3. Owner(o) \in Agent => act'[Owner(o)].used = act[Owner(o)].used - Used[o] + Used'[o]
      BY <1>b, <2>1, <2>4, <3>1
    <3> QED BY <2>1, <3>2, <3>3, LimitKept
  <2> QED BY <2>3, <2>4
<1>6. ASSUME NEW o \in Order, NEW n, NEW p, NEW fee, ExecutionRolledBack(o, n, p, fee) PROVE WithinLimit'
  <2>1. OnlyOrder(o) /\ UNCHANGED <<order, act>> /\ tally'[o].value = tally[o].value
    BY <1>6, RolledBackEffect
  <2> QED BY <1>1, <1>b, <2>1 DEF OnlyAgent
<1>7. ASSUME NEW h \in env.handlers, ConfirmOrder(h) PROVE WithinLimit'
  <2>0. PICK o : o = read[h].o
    OBVIOUS
  <2>1. /\ o \in Order /\ order[o].st = "PENDING_CONFIRMATION" /\ OnlyOrder(o) /\ OnlyAgent(o)
        /\ order'[o].exp = (IF Owner(o) \in Agent THEN Amount(o) ELSE 0)
        /\ order'[o].appr = (IF ConfirmedStatus(o) = "APPROVED" THEN "auto" ELSE "none")
        /\ tally'[o].value = tally[o].value
        /\ Owner(o) \in Agent =>
             act'[Owner(o)].limit = act[Owner(o)].limit /\ act'[Owner(o)].used = act[Owner(o)].used
    BY <1>7, <1>a, <2>0, ConfirmEffect
  <2>2. CASE Owner(o) \in Agent /\ ConfirmedStatus(o) = "APPROVED"
    <3>1. ~NeedsApproval(Owner(o), Amount(o))
      BY <2>2 DEF ConfirmedStatus
    <3>2. ~(act[Owner(o)].used + act[Owner(o)].resv + Amount(o) > act[Owner(o)].limit)
      BY <3>1 DEF NeedsApproval
    <3>3. Amount(o) \in Nat /\ act[Owner(o)].limit = Limit /\ Limit \in Nat
      <4>1. Template(o).qty \in Nat /\ RefPrice \in Nat
        BY <2>1, EnvFacts, DeskAssumption
      <4> QED BY <2>2, <4>1, DeskAssumption DEF Amount, WithinLimit
    <3>4. order[o].appr = "none" /\ tally[o].value = 0
      BY <1>a, <2>1 DEF RowInOrder
    <3>5. Used'[o] = 0 /\ Used[o] = 0 /\ AutoTaken[o] = 0 /\ AutoTaken'[o] = Amount(o)
      BY <2>1, <2>2, <3>3, <3>4, TakenFacts
    <3>6. SumFunctionOnSet(AutoTaken, OrdersOf(Owner(o))) <= act[Owner(o)].resv + act[Owner(o)].used
      BY <2>2, TakenHeld DEF WithinLimit
    <3>7. SumFunctionOnSet(AutoTaken, OrdersOf(Owner(o))) \in Nat
      <4>1. PICK f : f = AutoTaken
        OBVIOUS
      <4>2. \A x \in Order : f[x] \in Nat
        BY <4>1, TakenFacts
      <4> QED BY <4>1, <4>2, SumOwn
    <3>8. SumFunctionOnSet(AutoTaken, OrdersOf(Owner(o))) - AutoTaken[o] + AutoTaken'[o] <= Limit
      BY <1>b, <2>1, <2>2, <3>2, <3>3, <3>5, <3>6, <3>7
    <3>9. act'[Owner(o)].used = act[Owner(o)].used - Used[o] + Used'[o]
      BY <1>b, <2>1, <2>2, <3>5
    <3> QED BY <2>1, <2>2, <3>8, <3>9, LimitMove
  <2>3. CASE ConfirmedStatus(o) # "APPROVED"
    BY <1>1, <2>1, <2>3
  <2>4. CASE Owner(o) \notin Agent
    BY <2>1, <2>4, LimitMove
  <2> QED BY <2>2, <2>3, <2>4
<1>8. ASSUME NEW h \in env.handlers, ConfirmAborted(h) PROVE WithinLimit'
  <2>0. PICK o : o = read[h].o
    OBVIOUS
  <2>1. o \in Order /\ OnlyOrder(o) /\ UNCHANGED <<order, act>> /\ tally'[o].value = tally[o].value
    BY <1>8, <1>a, <2>0, ConfirmAbortedEffect
  <2> QED BY <1>1, <1>b, <2>1 DEF OnlyAgent
<1>9. ASSUME NEW h \in env.handlers, ConfirmExpired(h) \/ ApproveOrder(h) PROVE WithinLimit'
  <2>0. PICK o : o = read[h].o
    OBVIOUS
  <2>1. o \in Order /\ OnlyOrder(o) /\ act' = act /\ order'[o].appr # "auto" /\ tally'[o] = tally[o]
    BY <1>9, <1>a, <2>0, ConfirmExpiredEffect, ApproveEffect DEF SameTally
  <2> QED BY <1>1, <2>1 DEF OnlyAgent
<1>10. CASE Quiet
  <2>1. Used' = Used /\ AutoTaken' = AutoTaken /\ \A a \in Agent : OrdersOf(a)' = OrdersOf(a)
    BY <1>10 DEF Quiet, Used, AutoTaken, Exposed, BankFunded, IsFund, IsSell, OrdersOf, Owner, Template
  <2> QED BY <1>10, <1>a, <2>1 DEF Quiet, WithinLimit
<1> QED BY <1>2, <1>3, <1>4, <1>5, <1>6, <1>7, <1>8, <1>9, <1>10, <1>a, StepKinds

\* No limit is used or taken at the start.
LEMMA LimitInit == Init => LimitInv
<1> SUFFICES ASSUME Init PROVE LimitInv
  OBVIOUS
<1>1. ExposureInv /\ TypeOK
  BY ExposureInit DEF ExposureInv, DeskInv
<1>2. PICK f, g : f = Used /\ g = AutoTaken
  OBVIOUS
<1>3. (\A x \in Order : f[x] = 0) /\ (\A x \in Order : g[x] = 0)
  BY <1>2 DEF Init, Used, AutoTaken
<1>4. ASSUME NEW a \in Agent
      PROVE  /\ act[a].limit = Limit /\ act[a].used = SumFunctionOnSet(f, OrdersOf(a))
             /\ SumFunctionOnSet(g, OrdersOf(a)) <= Limit
  <2>1. IsFiniteSet(OrdersOf(a)) /\ OrdersOf(a) \subseteq Order
    BY DeskAssumption, FS_Subset DEF OrdersOf
  <2>2. SumFunctionOnSet(f, OrdersOf(a)) = 0
    BY <1>3, <2>1, SumZero
  <2>3. SumFunctionOnSet(g, OrdersOf(a)) = 0
    BY <1>3, <2>1, SumZero
  <2> QED BY <2>2, <2>3, DeskAssumption DEF Init
<1> QED BY <1>1, <1>2, <1>4 DEF LimitInv, WithinLimit

\* Every step keeps the invariant about the limits.
LEMMA LimitNext == LimitInv /\ [Next]_vars => LimitInv'
<1> SUFFICES ASSUME LimitInv, [Next]_vars PROVE LimitInv'
  OBVIOUS
<1>1. ExposureInv /\ ExposureInv' /\ TypeOK /\ TypeOK' /\ env' = env
  BY ExposureNext, EnvFixed DEF LimitInv, ExposureInv, DeskInv
<1>2. ASSUME (Without({"race", "reset"}) /\ env.limits = {} /\ Modest)' PROVE WithinLimit'
  <2>1. Without({"race", "reset"}) /\ env.limits = {} /\ Modest /\ Without({"race"})
    BY <1>1, <1>2 DEF Without, Modest
  <2>2. RowsInOrder /\ ResvAccounted /\ (\A x \in Order : HoldsEnough(x)) /\ WithinLimit
    BY <1>1, <2>1 DEF LimitInv, ExposureInv, DeskInv, Accounted, ResvAccounted
  <2> QED BY <1>1, <2>1, <2>2, LimitStep
<1> QED BY <1>1, <1>2 DEF LimitInv

\* Orders that went through without a supervisor never take an agent past the
\* daily limit, by what they hold and what they have spent together, through any
\* interleaving of confirmations, fills and cancellations
\* (determineOrderStatusAndReserveExposure, under the lock of the agent's row).
THEOREM LimitSafety == Spec => []AutoApprovedWithinLimit
<1>1. LimitInv => AutoApprovedWithinLimit
  BY DEF LimitInv, AutoApprovedWithinLimit, WithinLimit
<1> QED BY <1>1, LimitInit, LimitNext, PTL DEF Spec
=============================================================================
