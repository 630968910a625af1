--------------------------- MODULE MCPortfolio ---------------------------
(* Three holders of two stocks and of options on one of them. *)
EXTENDS Portfolio

P(u, l, t, q, r, a) == [user |-> u, listing |-> l, type |-> t, qty |-> q, res |-> r, pub |-> 0, avg |-> a]
PortfolioRows == << P(1, "A", "STOCK", 4, 1, 5), P(2, "A", "STOCK", 3, 0, 5), P(1, "C", "OPTION", 1, 0, 1),
                  P(2, "Q", "OPTION", 1, 0, 1), P(1, "B", "STOCK", 2, 0, 7), P(3, "B", "STOCK", 1, 0, 7), P(1, "Q", "OPTION", 3, 0, 1) >>
Q(t, c, p, y, o, k, s, u) == [type |-> t, cur |-> c, price |-> p, yield |-> y, opt |-> o, strike |-> k, settle |-> s, under |-> u]
PortfolioQuotes == [A |-> Q("STOCK", "USD", 100, 20, "", 0, 0, ""), B |-> Q("STOCK", "RSD", 50, 16, "", 0, 0, ""),
             C |-> Q("OPTION", "USD", 9, 0, "CALL", 7, 9, "A"), Q |-> Q("OPTION", "USD", 4, 0, "PUT", 7, 9, "A")]
PortfolioBought == (<<1, "A">> :> 1 @@ <<3, "B">> :> 5)
PortfolioAccounts == {<<1, "USD">>, <<1, "RSD">>, <<2, "RSD">>}
D(m, w) == [month |-> m, weekday |-> w]
PortfolioDays == << D(3, 3), D(3, 4), D(3, 5), D(3, 6), D(3, 7), D(4, 1), D(4, 2), D(6, 1), D(6, 2) >>
Div(o, t) == [op |-> o, date |-> t]
Ex(u, p, a) == [op |-> "exercise", user |-> u, pos |-> p, agent |-> a]
Pub(u, p, n) == [op |-> "public", user |-> u, pos |-> p, n |-> n]
Res(u, l, n) == [op |-> "reserve", user |-> u, listing |-> l, n |-> n]
Sc(r, t, may, b, o) == [reqs |-> r, today |-> t, may |-> may, budget |-> b, overlap |-> o]
PositionCases == { Sc(<<Div("quarterly", 3), Div("trigger", 3)>>, 3, {}, 0, FALSE),
          Sc(<<Div("quarterly", 4), Div("trigger", 2)>>, 4, {"resolve"}, 1, FALSE),
          Sc(<<Div("trigger", 2)>>, 4, {"refuse", "lost", "crash", "fx"}, 2, FALSE),
          Sc(<<Div("trigger", 2), Ex(1, 3, TRUE)>>, 4, {"db"}, 1, FALSE),
          Sc(<<Div("trigger", 2)>>, 4, {"resolve", "fx"}, 1, FALSE),
          Sc(<<Ex(1, 3, TRUE), Ex(1, 3, TRUE), Ex(2, 4, TRUE), Ex(1, 7, TRUE)>>, 4, {"refuse"}, 1, FALSE),
          Sc(<<Ex(1, 3, TRUE), Ex(1, 3, TRUE), Ex(2, 4, FALSE)>>, 4, {"lost", "crash"}, 1, TRUE),
          Sc(<<Ex(1, 3, TRUE), Ex(1, 1, TRUE)>>, 9, {}, 0, FALSE),
          Sc(<<Pub(1, 1, 3), Pub(1, 1, 4), Pub(2, 1, 1), Pub(1, 1, 2), Res(1, "A", 2), Res(1, "A", 2)>>, 4, {}, 0, FALSE) }
============================================================================
