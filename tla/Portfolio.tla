----------------------------- MODULE Portfolio -----------------------------
(***************************************************************************)
(* What happens to a position of trading-service outside of trading: it is  *)
(* offered to the public, an option is exercised against the state, and the *)
(* quarterly run pays a dividend on every stock position, the bank's share  *)
(* of it apart, with the tax to the state.                                  *)
(*                                                                         *)
(* A request is a process; a transaction's statements and the calls to      *)
(* banking-core between them are steps.  Credits and payments are applied   *)
(* at once at banking-core and outlive a rolled back transaction.           *)
(***************************************************************************)
EXTENDS Integers, Sequences, FiniteSets, FiniteSetsExt, TLC

CONSTANTS
  Positions0,    \* portfolio rows, by id: [user, listing, type, qty, res, pub, avg]
  Quotes,        \* [listing -> [type, cur, price, yield, opt, strike, settle, under]]
  BankBought,    \* [<<user, listing>> -> executed quantity of BUY orders for the bank]
  OwnAccounts,   \* <<user, currency>> of the accounts that exist
  Calendar,      \* days, in order: [month, weekday]; weekday 6 and 7 are the weekend
  QuarterEnds,   \* quarterEndMonths
  ContractShares,\* optionContractShares
  DivRateNum, DivRateDen, DollarRsd,
  PositionScenarios \* [reqs, today, may, budget, overlap]

VARIABLES
  henv,
  hdb,     \* [pos, payouts, bal, cash]: the tables; credits by account; the state's cash from exercises
  hat,     \* where each request stands
  hghost,  \* history: every dividend credit; every exercise settled
  hfaults

hvars == <<henv, hdb, hat, hghost, hfaults>>

Requests == DOMAIN henv.reqs
Req(i) == henv.reqs[i]
HMay(F) == F \cap henv.may # {}
HFault(f) == f \in henv.may /\ hfaults < henv.budget /\ hfaults' = hfaults + 1
HNoFault == UNCHANGED hfaults
HSum(S, V(_)) == MapThenSumSet(V, S)
HGo(i, r) == hat' = [hat EXCEPT ![i] = r]
HEnd(i, how) == HGo(i, [hat[i] EXCEPT !.st = how])
Gone == [user |-> 0, listing |-> "", type |-> "", qty |-> 0, res |-> 0, pub |-> 0, avg |-> 0]
--------------------------------------------------------------------------
(* portfolio: one operator a query; a deleted row is Gone.                  *)

FindPosition(d, id) == IF id \in DOMAIN d.pos THEN d.pos[id] ELSE Gone
FindByUserIDAndListingID(d, u, l) ==
  LET S == {k \in DOMAIN d.pos : d.pos[k].user = u /\ d.pos[k].listing = l} IN
  IF S = {} THEN 0 ELSE CHOOSE k \in S : TRUE
FindStockHoldersByListingID(d, l) ==
  SelectSeq([k \in 1 .. Len(d.pos) |-> [id |-> k, user |-> d.pos[k].user, qty |-> d.pos[k].qty]],
            LAMBDA h : d.pos[h.id].listing = l /\ d.pos[h.id].type = "STOCK" /\ h.qty > 0)
InsertPosition(d, p) == [d EXCEPT !.pos = Append(@, p)]
UpdateQuantityAndAvg(d, id, q, avg) == [d EXCEPT !.pos[id].qty = q, !.pos[id].avg = avg]
UpdateQuantity(d, id, q) == [d EXCEPT !.pos[id].qty = q]
UpdatePublic(d, id, n) == [d EXCEPT !.pos[id].pub = n]
UpdateReservedQuantity(d, id, n) == [d EXCEPT !.pos[id].res = n]
DeletePosition(d, id) == [d EXCEPT !.pos[id] = Gone]
--------------------------------------------------------------------------
(* Offering shares to the public: checked and written without a lock, while *)
(* the confirmation of a sell order reserves shares of the position.        *)

\* getOwnedPortfolio and the checks of SetPublicQuantity.
MayOffer(p, u, n) == /\ p.user = u /\ p.type = "STOCK" /\ n >= 0 /\ n <= p.qty - p.res
SetPublicQuantity(i) ==
  /\ hat[i].st = "idle" /\ Req(i).op = "public" /\ HNoFault
  /\ IF MayOffer(FindPosition(hdb, Req(i).pos), Req(i).user, Req(i).n)
     THEN HEnd(i, "write") ELSE HEnd(i, "refused")
  /\ UNCHANGED <<henv, hdb, hghost>>
WritePublic(i) ==
  /\ hat[i].st = "write" /\ Req(i).op = "public" /\ HNoFault /\ HEnd(i, "done")
  /\ hdb' = UpdatePublic(hdb, Req(i).pos, Req(i).n)
  /\ UNCHANGED <<henv, hghost>>
\* The row is locked from the check to the write; the public quantity is not looked at.
reserveSellQuantityIfNeeded(i) ==
  /\ hat[i].st = "idle" /\ Req(i).op = "reserve" /\ HNoFault
  /\ LET k == FindByUserIDAndListingID(hdb, Req(i).user, Req(i).listing) IN
     IF k # 0 /\ hdb.pos[k].qty - hdb.pos[k].res >= Req(i).n
     THEN HEnd(i, "done") /\ hdb' = UpdateReservedQuantity(hdb, k, hdb.pos[k].res + Req(i).n)
     ELSE HEnd(i, "refused") /\ UNCHANGED hdb
  /\ UNCHANGED <<henv, hghost>>
--------------------------------------------------------------------------
(* Exercising an option.                                                    *)

RunDay == henv.today
\* The settlement day has begun once it is today.
Expired(q) == q.settle <= RunDay
InTheMoney(q) == IF q.opt = "CALL" THEN q.price > q.strike ELSE q.price < q.strike
Underlying(d, u, q) == FindByUserIDAndListingID(d, u, q.under)
\* A mutant: a put is exercised on a position that need not cover it.
CoveredPutLater(d, u, q, n) == TRUE
CoveredPut(d, u, q, n) ==
  q.opt = "PUT" => Underlying(d, u, q) # 0 /\ d.pos[Underlying(d, u, q)].qty >= n

Exercising(i) == Req(i).op = "exercise" /\ hat[i].st \notin {"idle", "done", "refused", "dead"}
\* Step by step: the option's row, its listing, the underlying listing, the cover of a put.
ExerciseOption(i) ==
  /\ hat[i].st = "idle" /\ Req(i).op = "exercise"
  /\ henv.overlap \/ ~\E j \in Requests : Exercising(j)
  /\ LET p == FindPosition(hdb, Req(i).pos) IN
     \/ /\ HNoFault
        /\ IF Req(i).agent /\ p.user = Req(i).user /\ p.type = "OPTION"
           THEN HGo(i, [hat[i] EXCEPT !.st = "option", !.row = p, !.n = p.qty * ContractShares])
           ELSE HEnd(i, "refused")
     \/ HFault("db") /\ HEnd(i, "refused")
  /\ UNCHANGED <<henv, hdb, hghost>>
GetOptionListing(i) ==
  /\ hat[i].st = "option"
  /\ LET q == Quotes[hat[i].row.listing] IN
     \/ HNoFault /\ HEnd(i, IF ~Expired(q) /\ InTheMoney(q) /\ hat[i].n > 0 THEN "underlying" ELSE "refused")
     \/ HFault("refuse") /\ HEnd(i, "refused")
  /\ UNCHANGED <<henv, hdb, hghost>>
resolveUnderlying(i) ==
  /\ hat[i].st = "underlying"
  /\ (HNoFault /\ HEnd(i, "cover")) \/ (HFault("refuse") /\ HEnd(i, "refused"))
  /\ UNCHANGED <<henv, hdb, hghost>>
CheckCover(i) ==
  /\ hat[i].st = "cover"
  /\ \/ HNoFault /\ HEnd(i, IF CoveredPut(hdb, hat[i].row.user, Quotes[hat[i].row.listing], hat[i].n)
                           THEN "funds" ELSE "refused")
     \/ HFault("db") /\ HEnd(i, "refused")
  /\ UNCHANGED <<henv, hdb, hghost>>

\* The strike goes to the state for a call and comes from it for a put.
moveExerciseFunds(i) ==
  /\ hat[i].st = "funds"
  /\ LET q == Quotes[hat[i].row.listing]
         pays == IF q.opt = "CALL" THEN q.strike * hat[i].n ELSE -(q.strike * hat[i].n) IN
     \/ HNoFault /\ HEnd(i, "under") /\ hdb' = [hdb EXCEPT !.cash = @ + pays]
     \/ HFault("refuse") /\ HEnd(i, "refused") /\ UNCHANGED hdb
     \/ HFault("lost") /\ HEnd(i, "refused") /\ hdb' = [hdb EXCEPT !.cash = @ + pays]
  /\ UNCHANGED <<henv, hghost>>
\* updateUnderlyingPortfolio reads the row and later writes absolute values.
ReadUnderlying(i) ==
  /\ hat[i].st = "under"
  /\ LET u == Underlying(hdb, hat[i].row.user, Quotes[hat[i].row.listing]) IN
     \/ /\ HNoFault
        /\ HGo(i, [hat[i] EXCEPT !.st = "shares", !.under = u, !.seen = IF u = 0 THEN Gone ELSE hdb.pos[u]])
     \/ HFault("db") /\ HEnd(i, "refused")
  /\ UNCHANGED <<henv, hdb, hghost>>
DivRound(a, b) == (2 * a + b) \div (2 * b)
updateUnderlyingPortfolio(d, u, l, old, q, n) ==
  IF q.opt = "CALL"
  THEN IF old.user = 0
       THEN InsertPosition(d, [Gone EXCEPT !.user = u, !.listing = q.under, !.type = Quotes[q.under].type,
                                           !.qty = n, !.avg = q.strike])
       ELSE UpdateQuantityAndAvg(d, l, old.qty + n,
                                 DivRound(old.avg * old.qty + q.strike * n, old.qty + n))
  ELSE IF old.qty = n THEN DeletePosition(d, l) ELSE UpdateQuantity(d, l, old.qty - n)
\* The position of the option is deleted whether or not it is still there.
CommitExercise(i) ==
  /\ hat[i].st = "shares"
  /\ LET q == Quotes[hat[i].row.listing]
         old == hat[i].seen
         n == hat[i].n IN
     IF q.opt = "PUT" /\ (old.user = 0 \/ old.qty < n)
     THEN HEnd(i, "refused") /\ UNCHANGED <<hdb, hghost>>
     ELSE /\ HEnd(i, "done")
          /\ hdb' = DeletePosition(updateUnderlyingPortfolio(hdb, hat[i].row.user, hat[i].under, old, q, n),
                                   Req(i).pos)
          /\ hghost' = [hghost EXCEPT !.exercised = Append(@, [pos |-> Req(i).pos, opt |-> q.opt,
                                                               n |-> n, strike |-> q.strike])]
  /\ HNoFault /\ UNCHANGED henv
--------------------------------------------------------------------------
(* Dividends: when the run is due, and what it pays.                        *)

isWeekend(t) == Calendar[t].weekday \in {6, 7}
lastBusinessDayOfMonth(t) ==
  LET days == {x \in DOMAIN Calendar : Calendar[x].month = Calendar[t].month}
      back[x \in DOMAIN Calendar] == IF x > 1 /\ isWeekend(x) THEN back[x - 1] ELSE x IN
  back[Max(days)]
IsLastBusinessDayOfQuarterMonth(t) ==
  /\ Calendar[t].month \in QuarterEnds /\ ~isWeekend(t) /\ t = lastBusinessDayOfMonth(t)

\* quantity * price * (yield / 4), rounded; the yield is in hundredths.
computeGross(qty, q) ==
  IF qty <= 0 \/ q.price <= 0 \/ q.yield <= 0 THEN 0 ELSE DivRound(qty * q.price * q.yield, 400)
\* The rates may be missing: the amount then stays as it is.
convertToRsd(x, cur, fx) == IF cur = "RSD" \/ ~fx THEN x ELSE x * DollarRsd
convertFromRsd(x, cur, fx) == IF cur = "RSD" \/ ~fx THEN x ELSE DivRound(x, DollarRsd)

NoAccount == <<0, "">>
StateAccount == <<0, "STATE">>
BankAccount == <<0, "BANK">>
\* The calls of a payment; a failed one (in fails) is taken as a missing rate or account.
Rates == {"toRsd", "fromRsd"}
Lookups == {"inCurrency", "inRsd", "default", "owner"}
\* Listing currency first, then RSD, then the default RSD account.
resolvePersonalTarget(u, cur, fails) ==
  IF cur # "RSD" /\ <<u, cur>> \in OwnAccounts /\ "inCurrency" \notin fails THEN <<u, cur>>
  ELSE IF <<u, "RSD">> \in OwnAccounts /\ ({"inRsd", "default"} \ fails # {}) THEN <<u, "RSD">>
  ELSE NoAccount

PayoutKey(r) == <<r.user, r.listing, r.date, r.bank>>
Credit(acct, amt) == IF acct = NoAccount THEN <<>> ELSE <<[acct |-> acct, amt |-> amt]>>
\* payPersonal: the row and the credits that follow it.
payPersonal(u, l, date, qty, fails) ==
  LET q == Quotes[l]
      gross == computeGross(qty, q)
      grossRsd == convertToRsd(gross, q.cur, "toRsd" \notin fails)
      tax == DivRound(grossRsd * DivRateNum, DivRateDen)
      net == gross - convertFromRsd(tax, q.cur, "fromRsd" \notin fails)
      target == resolvePersonalTarget(u, q.cur, fails) IN
  [row |-> [user |-> u, listing |-> l, date |-> date, bank |-> FALSE, qty |-> qty, gross |-> gross,
            tax |-> tax, net |-> net],
   credits |-> Credit(target, IF target[2] = q.cur THEN net ELSE grossRsd - tax)
               \o IF tax > 0 /\ "owner" \notin fails THEN Credit(StateAccount, tax) ELSE <<>>]
\* payBankHeld: untaxed, in RSD, to the bank.
payBankHeld(u, l, date, qty, fails) ==
  LET q == Quotes[l]
      gross == computeGross(qty, q) IN
  [row |-> [user |-> u, listing |-> l, date |-> date, bank |-> TRUE, qty |-> qty, gross |-> gross,
            tax |-> 0, net |-> gross],
   credits |-> IF "owner" \in fails THEN <<>>
               ELSE Credit(BankAccount, convertToRsd(gross, q.cur, "toRsd" \notin fails))]
BankHeldBuyQuantity(u, l) == IF <<u, l>> \in DOMAIN BankBought THEN BankBought[<<u, l>>] ELSE 0
BankPart(h, l) == Max({0, Min({BankHeldBuyQuantity(h.user, l), h.qty})})
PersonalPart(h, l) == h.qty - BankPart(h, l)
--------------------------------------------------------------------------
(* The distribution run.                                                    *)

ListingsWithYield == {l \in DOMAIN Quotes : Quotes[l].type = "STOCK" /\ Quotes[l].yield > 0}
HIdle == [st |-> "idle", row |-> Gone, n |-> 0, under |-> 0, seen |-> Gone, stocks |-> {}, listing |-> "",
          todo |-> <<>>, part |-> 1, rows |-> {}, credits |-> <<>>]
\* RunQuarterlyPayout is gated by the calendar; DividendTrigger is not.
Distribute(i) ==
  /\ hat[i].st = "idle" /\ Req(i).op \in {"quarterly", "trigger"}
  /\ IF Req(i).op = "quarterly" /\ ~IsLastBusinessDayOfQuarterMonth(RunDay)
     THEN HNoFault /\ HEnd(i, "refused")
     ELSE \/ HNoFault /\ HGo(i, [hat[i] EXCEPT !.st = "stocks", !.stocks = ListingsWithYield])
          \/ HFault("refuse") /\ HEnd(i, "done")   \* no dividend data: nothing to pay
  /\ UNCHANGED <<henv, hdb, hghost>>
NextStock(i) ==
  /\ hat[i].st = "stocks"
  /\ IF hat[i].stocks = {} THEN HNoFault /\ HEnd(i, "done")
     ELSE \E l \in hat[i].stocks :
            LET r == [hat[i] EXCEPT !.stocks = @ \ {l}, !.listing = l] IN
            \/ HNoFault /\ HGo(i, [r EXCEPT !.st = "holder", !.todo = FindStockHoldersByListingID(hdb, l)])
            \/ HFault("db") /\ HGo(i, r)
  /\ UNCHANGED <<henv, hdb, hghost>>

NextHolder(i) == [hat[i] EXCEPT !.st = "holder", !.todo = Tail(@), !.part = 1, !.rows = {}, !.credits = <<>>]
NextPart(i) == [hat[i] EXCEPT !.st = "holder", !.part = @ + 1]
Holder(i) == Head(hat[i].todo)
PartQty(i) ==
  IF hat[i].part = 1 THEN PersonalPart(Holder(i), hat[i].listing) ELSE BankPart(Holder(i), hat[i].listing)
PartKey(i) == <<Holder(i).user, hat[i].listing, Req(i).date, hat[i].part = 2>>
ExistsForDate(d, key) == \E r \in d.payouts : PayoutKey(r) = key
\* One part of one holder; after the second part the transaction commits.
payoutForHolder(i) ==
  /\ hat[i].st = "holder"
  /\ IF hat[i].todo = <<>> THEN HNoFault /\ HEnd(i, "stocks") /\ UNCHANGED hdb
     ELSE IF hat[i].part > 2
     THEN /\ HNoFault /\ HGo(i, NextHolder(i))
          /\ hdb' = [hdb EXCEPT !.payouts = @ \cup hat[i].rows]
     ELSE /\ UNCHANGED hdb
          /\ \/ /\ HNoFault
                /\ HGo(i, IF PartQty(i) > 0 /\ ~ExistsForDate(hdb, PartKey(i))
                             /\ computeGross(PartQty(i), Quotes[hat[i].listing]) > 0
                          THEN [hat[i] EXCEPT !.st = "insert"] ELSE NextPart(i))
             \/ HFault("db") /\ HGo(i, NextHolder(i))
  /\ UNCHANGED <<henv, hghost>>
\* The unique constraint: the insert waits for a transaction that holds the key, and fails
\* once it has committed.
InsertPayout(i) ==
  /\ hat[i].st = "insert"
  /\ ~\E j \in Requests \ {i} : \E r \in hat[j].rows : PayoutKey(r) = PartKey(i)
  /\ LET paid(fails) == IF hat[i].part = 1
           THEN payPersonal(Holder(i).user, hat[i].listing, Req(i).date, PartQty(i), fails)
           ELSE payBankHeld(Holder(i).user, hat[i].listing, Req(i).date, PartQty(i), fails)
         insert(p) == IF ExistsForDate(hdb, PartKey(i)) THEN HGo(i, NextHolder(i))
           ELSE HGo(i, [hat[i] EXCEPT !.st = "credit", !.rows = @ \cup {p.row}, !.credits = p.credits]) IN
     \/ HNoFault /\ insert(paid({}))
     \/ HFault("fx") /\ \E fails \in SUBSET Rates : insert(paid(fails))
     \/ HFault("resolve") /\ \E fails \in SUBSET Lookups : insert(paid(fails))
  /\ UNCHANGED <<henv, hdb, hghost>>
\* A failed credit - banking-core refuses an amount that is not positive - rolls the rows of
\* both parts back; credits already made stay.
CreditAccount(i) ==
  /\ hat[i].st = "credit"
  /\ LET c == Head(hat[i].credits)
         applied == /\ hdb' = [hdb EXCEPT !.bal = (c.acct :> c.amt + (IF c.acct \in DOMAIN @ THEN @[c.acct] ELSE 0)) @@ @]
                    /\ hghost' = [hghost EXCEPT !.credits = Append(@, [key |-> PartKey(i), acct |-> c.acct, amt |-> c.amt])] IN
     IF hat[i].credits = <<>> THEN HNoFault /\ HGo(i, NextPart(i)) /\ UNCHANGED <<hdb, hghost>>
     ELSE IF c.amt <= 0 THEN HNoFault /\ HGo(i, NextHolder(i)) /\ UNCHANGED <<hdb, hghost>>
     ELSE \/ HNoFault /\ applied /\ HGo(i, [hat[i] EXCEPT !.credits = Tail(@)])
          \/ HFault("refuse") /\ HGo(i, NextHolder(i)) /\ UNCHANGED <<hdb, hghost>>
          \/ HFault("lost") /\ HGo(i, NextHolder(i)) /\ applied
  /\ UNCHANGED henv
PositionCrash ==
  /\ \E i \in Requests : hat[i].st \notin {"idle", "done", "refused", "dead"}
  /\ HFault("crash")
  /\ hat' = [i \in Requests |-> IF hat[i].st \in {"idle", "done", "refused"} THEN hat[i] ELSE [HIdle EXCEPT !.st = "dead"]]
  /\ UNCHANGED <<henv, hdb, hghost>>

PositionInit ==
  /\ henv \in PositionScenarios
  /\ hdb = [pos |-> Positions0, payouts |-> {}, bal |-> <<>>, cash |-> 0]
  /\ hat = [i \in Requests |-> HIdle]
  /\ hghost = [credits |-> <<>>, exercised |-> <<>>] /\ hfaults = 0
PositionNext ==
  \/ \E i \in Requests :
       \/ SetPublicQuantity(i) \/ WritePublic(i) \/ reserveSellQuantityIfNeeded(i)
       \/ ExerciseOption(i) \/ GetOptionListing(i) \/ resolveUnderlying(i) \/ CheckCover(i) \/ moveExerciseFunds(i) \/ ReadUnderlying(i) \/ CommitExercise(i)
       \/ Distribute(i) \/ NextStock(i) \/ payoutForHolder(i) \/ InsertPayout(i) \/ CreditAccount(i)
  \/ PositionCrash
PositionSpec == PositionInit /\ [][PositionNext]_hvars
--------------------------------------------------------------------------
(* The summary and the dividend history.                                    *)

isOptionExercisable(q) ==
  /\ q.settle > RunDay
  /\ IF q.opt = "CALL" THEN q.price > q.strike ELSE q.price < q.strike
mapToResponse(d, k) ==
  LET p == d.pos[k]
      q == Quotes[p.listing] IN
  [id |-> k, qty |-> p.qty, profit |-> (q.price - p.avg) * p.qty,
   exercisable |-> p.type = "OPTION" /\ isOptionExercisable(q)]
GetPortfolio(d, u) ==
  LET rows == {mapToResponse(d, k) : k \in {x \in DOMAIN d.pos : d.pos[x].user = u}} IN
  [holdings |-> rows, totalProfit |-> HSum(rows, LAMBDA r : r.profit)]
--------------------------------------------------------------------------
\* Types of the positions and of the dividend rows.
PositionTypeOK ==
  /\ \A k \in DOMAIN hdb.pos : hdb.pos[k].qty >= 0 /\ hdb.pos[k].pub >= 0
  /\ hdb.payouts \subseteq [user : Nat, listing : ListingsWithYield, date : Nat, bank : BOOLEAN, qty : Nat,
                            gross : Nat, tax : Nat, net : Int]
  /\ \A i \in Requests : hat[i].part \in 1 .. 3

Rows == hdb.payouts \cup UNION {hat[i].rows : i \in Requests}
ExerciseFlow(e) == IF e.opt = "CALL" THEN e.strike * e.n ELSE -(e.strike * e.n)

(***************************************************************************)
(* DividendBooks: overlapping runs and repeated triggers for one day pay    *)
(* each holder's part once, every credit has its row, the parts of a        *)
(* position are paid apart and never for more than the position, and the    *)
(* tax and the net amount make up the gross amount.                         *)
(***************************************************************************)
DividendBooks ==
  /\ ~HMay({"refuse", "lost", "crash", "db"}) =>
       /\ \A m, n \in DOMAIN hghost.credits :
            (hghost.credits[m].key = hghost.credits[n].key /\ hghost.credits[m].acct = hghost.credits[n].acct) => m = n
       /\ \A m \in DOMAIN hghost.credits : \E r \in Rows : PayoutKey(r) = hghost.credits[m].key
  /\ \A r, s \in Rows : PayoutKey(r) = PayoutKey(s) => r = s
  /\ (~\E i \in Requests : Req(i).op = "exercise") =>
       \A k \in DOMAIN hdb.pos : \A t \in {r.date : r \in Rows} :
          HSum({r \in Rows : <<r.user, r.listing, r.date>> = <<hdb.pos[k].user, hdb.pos[k].listing, t>>},
               LAMBDA r : r.qty) <= hdb.pos[k].qty
  /\ ~HMay({"fx"}) => \A r \in Rows :
       LET q == Quotes[r.listing] IN
       /\ r.net + convertFromRsd(r.tax, q.cur, TRUE) = r.gross
       /\ r.net >= 0 /\ (r.bank => r.tax = 0)

(***************************************************************************)
(* ExerciseBooks: the state has received and paid exactly the strikes of    *)
(* the exercises that moved shares, and an option is exercised once; only   *)
(* an option the summary shows as exercisable is paid for (not the other    *)
(* way round: the summary does not look at the cover of a put, which the    *)
(* exercise then refuses); a public quantity exceeds the shares that are    *)
(* not reserved by no more than sell orders confirmed since have reserved;  *)
(* and the quarterly run is due on exactly one weekday of a quarter's end.  *)
(***************************************************************************)
ExerciseBooks ==
  /\ ~(henv.overlap \/ HMay({"lost", "crash", "db"})) =>
       /\ hdb.cash = HSum(DOMAIN hghost.exercised, LAMBDA m : ExerciseFlow(hghost.exercised[m]))
                     + HSum({i \in Requests : hat[i].st \in {"under", "shares"}},
                            LAMBDA i : ExerciseFlow([opt |-> Quotes[hat[i].row.listing].opt, n |-> hat[i].n,
                                                     strike |-> Quotes[hat[i].row.listing].strike]))
       /\ \A m, n \in DOMAIN hghost.exercised : hghost.exercised[m].pos = hghost.exercised[n].pos => m = n
  /\ \A i \in Requests : hat[i].st \in {"funds", "under", "shares"} =>
       \A r \in GetPortfolio(hdb, Req(i).user).holdings : r.id = Req(i).pos => r.exercisable
  /\ (~\E i \in Requests : Req(i).op = "exercise") => \A k \in DOMAIN hdb.pos :
       hdb.pos[k].pub <= (hdb.pos[k].qty - hdb.pos[k].res)
                         + HSum({i \in Requests : /\ Req(i).op = "reserve" /\ hat[i].st = "done"
                                                  /\ FindByUserIDAndListingID(hdb, Req(i).user, Req(i).listing) = k},
                                LAMBDA i : Req(i).n)
  /\ \A m \in QuarterEnds :
       LET days == {t \in DOMAIN Calendar : Calendar[t].month = m /\ ~isWeekend(t)} IN
       days # {} => {t \in days : IsLastBusinessDayOfQuarterMonth(t)} = {Max(days)}
==============================================================================
