-------------------------- MODULE MCCrossBankOtc --------------------------
(* One seller here, and a negotiation of each direction. *)
EXTENDS CrossBankOtc

CrossMoney == (1 :> 4) @@ (2 :> 4)
CrossShares == 1 :> [qty |-> 2, res |-> 0, pub |-> 2]
A(u) == Party(1, u)
B(u) == Party(2, u)
Negotiated(b, s, k, price, prem, day, by) ==
  [buyer |-> b, seller |-> s, amount |-> k, price |-> price, premium |-> prem, settle |-> day, by |-> by]
Sale(price, by) == Negotiated(B(1), A(1), 1, price, 1, 2, by)
Buy(price) == Negotiated(A(2), B(7), 1, price, 1, 2, 1)
\* Our own negotiation (we sell), and a mirror of the partner's (we buy).
Ours(by) == NewNegotiation(Sale(1, by), TRUE, 0, by)
Mirror(by) == NewNegotiation(Buy(1), FALSE, 100, by)
Closed(n) == [n EXCEPT !.open = FALSE]
BuyPs == << Posting("PERSON", A(2), -1, "MONAS", NoOption), Posting("ACCOUNT", B(7), 1, "MONAS", NoOption),
            Posting("OPTION", B(100), -1, "OPTION", [neg |-> 100, k |-> 1, price |-> 1]),
            Posting("PERSON", A(2), 1, "OPTION", [neg |-> 100, k |-> 1, price |-> 1]) >>
ExPs == ExercisePostings(ContractOf(Ours(2), 1), 1)
PayPs == << Posting("ACCOUNT", B(7), -1, "MONAS", NoOption), Posting("ACCOUNT", A(2), 1, "MONAS", NoOption) >>
Bad == << Posting("PERSON", A(2), -1, "MONAS", NoOption) >>
Counter(from, id, price) == [op |-> "counter", from |-> from, id |-> id, offer |-> Sale(price, from)]
CounterOut(u, id, price) == [op |-> "counterOut", user |-> u, id |-> id, offer |-> Sale(price, 1)]
Accept(from, id) == [op |-> "accept", from |-> from, id |-> id]
AcceptOut(id) == [op |-> "acceptOut", id |-> id]
DelIn(from, id) == [op |-> "delete", from |-> from, id |-> id]
DelOut(id) == [op |-> "deleteOut", id |-> id]
Create(from, o) == [op |-> "create", from |-> from, offer |-> o]
CreateOut(o) == [op |-> "createOut", offer |-> o, rid |-> 100]
NewTx(t, ps) == [op |-> "newTx", tx |-> t, ps |-> ps]
CommitTx(t) == [op |-> "commitTx", tx |-> t]
RollTx(t) == [op |-> "rollbackTx", tx |-> t]
Ex(u, admin, id) == [op |-> "exercise", user |-> u, admin |-> admin, id |-> id]
List(u, admin) == [op |-> "list", user |-> u, admin |-> admin]
Mine(u, admin) == [op |-> "contracts", user |-> u, admin |-> admin]
GetIn(id) == [op |-> "get", id |-> id]
GetOut(id) == [op |-> "getOne", id |-> id]
Sc(reqs, neg, con, may, budget) == [reqs |-> reqs, neg |-> neg, con |-> con, may |-> may, budget |-> budget]
CrossCases == {
  Sc(<<Create(0, Sale(1, 2)), Create(2, Sale(0, 2)), Create(2, Sale(1, 2)), GetIn(1), List(1, FALSE), List(0, FALSE)>>, <<>>, <<>>, {"db"}, 1),
  Sc(<<Counter(2, 1, 2), Counter(2, 1, 3), Counter(0, 1, 1), DelIn(2, 1), CounterOut(1, 1, 2)>>, <<Ours(1)>>, <<>>, {"db"}, 1),
  Sc(<<CounterOut(1, 1, 2), AcceptOut(1), Counter(2, 1, 3), DelOut(1)>>, <<Ours(2)>>, <<>>, {}, 0),
  Sc(<<Accept(2, 1), Accept(2, 1), Counter(2, 1, 2), Accept(3, 1), Accept(0, 1)>>, <<Ours(1)>>, <<>>, {}, 0),
  Sc(<<Accept(2, 1), DelIn(3, 1), [op |-> "publicStock"]>>, <<Ours(1)>>, <<>>, {"db", "settle", "reserve", "crash"}, 1),
  Sc(<<AcceptOut(1), AcceptOut(1), [op |-> "partnerStock", bank |-> 2]>>, <<Ours(2)>>, <<>>, {"db"}, 1),
  Sc(<<NewTx(501, ExPs), CommitTx(501), NewTx(502, ExPs), CommitTx(502)>>, <<Closed(Ours(2))>>, <<ContractOf(Ours(2), 1)>>, {"settle", "db"}, 1),
  Sc(<<CreateOut(Buy(1)), NewTx(503, BuyPs), CommitTx(503), CreateOut(Buy(0)), GetOut(100), GetOut(7)>>, <<>>, <<>>, {"db"}, 1),
  Sc(<<AcceptOut(100), NewTx(503, BuyPs), CommitTx(503), Ex(2, FALSE, 1), DelOut(100)>>, <<Mirror(2)>>, <<>>, {"db"}, 1),
  Sc(<<CounterOut(2, 1, 2), Counter(2, 100, 3), DelIn(2, 100), AcceptOut(1), DelOut(1)>>, <<Mirror(2)>>, <<>>, {}, 0),
  Sc(<<Ex(2, FALSE, 1), Ex(9, TRUE, 1), Ex(1, FALSE, 1), Mine(2, FALSE), Mine(0, FALSE)>>, <<Closed(Mirror(2))>>, <<ContractOf(Mirror(2), 1)>>, {"settle", "db", "crash", "clock"}, 1),
  Sc(<<NewTx(503, BuyPs), RollTx(503), NewTx(504, Bad), NewTx(505, PayPs), CommitTx(505)>>, <<Mirror(2)>>, <<>>, {"db", "reserve", "settle"}, 1),
  Sc(<<Accept(2, 1), NewTx(501, ExPs), CommitTx(501)>>, <<Ours(1)>>, <<>>, {"clock", "db"}, 1),
  Sc(<<NewTx(503, BuyPs), CommitTx(503), NewTx(504, BuyPs), CommitTx(504), Ex(2, FALSE, 1)>>, <<Mirror(2)>>, <<>>, {}, 0),
  Sc(<<Ex(2, FALSE, 1), Accept(2, 2)>>, <<Closed(Mirror(2)), [Ours(1) EXCEPT !.amount = 3]>>, <<[ContractOf(Mirror(2), 1) EXCEPT !.strike = 9]>>, {}, 0) }

\* The partner accepts our offer, and nothing fails.
OneAccept == { Sc(<<Accept(2, 1)>>, <<Ours(1)>>, <<>>, {}, 0) }
============================================================================
