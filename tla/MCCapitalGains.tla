-------------------------- MODULE MCCapitalGains --------------------------
(* Six trades of two users and three exercised contracts, over two months. *)
EXTENDS CapitalGains

T(u, l, s, q, p, t, a) == [user |-> u, listing |-> l, side |-> s, qty |-> q, price |-> p, at |-> t, acct |-> a]
TaxTrades == << T(1, "A", "BUY", 2, 10, 0, 11), T(1, "A", "BUY", 2, 12, 1, 12), T(1, "A", "SELL", 1, 30, 1, 11),
   T(1, "A", "SELL", 2, 40, 2, 11), T(2, "R", "SELL", 1, 50, 3, 21), T(1, "O", "SELL", 1, 90, 3, 11) >>
TaxListed == [A |-> [type |-> "STOCK", cur |-> "USD"], R |-> [type |-> "STOCK", cur |-> "RSD"], O |-> [type |-> "OPTION", cur |-> "USD"]]
TaxContracts == << [seller |-> 2, listing |-> "A", amount |-> 2, price |-> 30, at |-> 2, moved |-> TRUE],
           [seller |-> 3, listing |-> "A", amount |-> 1, price |-> 30, at |-> 3, moved |-> TRUE],
           [seller |-> 2, listing |-> "A", amount |-> 1, price |-> 30, at |-> 3, moved |-> FALSE] >>
TaxAverage == (<<1, "A">> :> 11 @@ <<2, "R">> :> 20 @@ <<1, "O">> :> 5 @@ <<2, "A">> :> 8 @@ <<3, "A">> :> 9)
TaxCustomers == <<1, 2>>
TaxActuaries == <<3>>
Sc(r, n, l, may, b) == [reqs |-> r, now |-> n, last |-> l, avgs |-> {0, 9}, may |-> may, budget |-> b]
TaxCases == { Sc(<<"previous", "previous">>, 4, 4, {"refuse"}, 1),
          Sc(<<"current", "previous">>, 3, 4, {"crash"}, 1),
          Sc(<<"previous">>, 4, 4, {"fx", "update"}, 2),
          Sc(<<"previous", "previous">>, 4, 4, {"update"}, 1),
          Sc(<<"current", "current">>, 3, 3, {"lost"}, 1),
          Sc(<<"current", "current">>, 3, 3, {"market"}, 1),
          Sc(<<"previous">>, 4, 4, {"db", "crash", "refuse"}, 2),
          Sc(<<"previous">>, 4, 4, {"avg", "lookup"}, 2) }
============================================================================
