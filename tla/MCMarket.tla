----------------------------- MODULE MCMarket -----------------------------
(* Two exchanges, four listings and three answers of the provider. *)
EXTENDS Market

X(mic, cur, o, c, po, pc, act) == [mic |-> mic, cur |-> cur, open |-> o, close |-> c, preOpen |-> po, preClose |-> pc, postOpen |-> 17, postClose |-> 23, active |-> act]
MarketExchanges == <<X("XNAS", "USD", 9, 17, 6, 9, TRUE), X("XTKS", "EUR", 23, 6, -1, -1, TRUE)>>
Sn(p, c, v) == [price |-> p, ask |-> p, bid |-> p, change |-> c, vol |-> v]
L(t, x, p) == [type |-> t, x |-> x, size |-> 1, snap |-> Sn(p, 0, 5)]
MarketListings == <<L("STOCK", 1, 10), L("FOREX", 1, 12), L("FUTURES", 1, 8), L("STOCK", 2, 12)>>
MarketStocks == <<[shares |-> 5, yield |-> 1], [shares |-> 0, yield |-> 0], [shares |-> 0, yield |-> 0], [shares |-> 7, yield |-> 2]>>
MarketOptions == <<[stock |-> 1, type |-> "CALL", strike |-> 9, day |-> 1], [stock |-> 1, type |-> "PUT", strike |-> 9, day |-> 1], [stock |-> 1, type |-> "CALL", strike |-> 12, day |-> 2]>>
Fx(a, b, d1, d2) == [USD |-> [rate |-> a, day |-> d1], EUR |-> [rate |-> b, day |-> d2]]
Q(p, c, d) == [price |-> p, change |-> c, vol |-> 6, day |-> d]
P(p1, c1, p2, fx) == [quote |-> <<Q(p1, c1, 3), Q(p2, 0, 0), Q(0, 0, 0), Q(p1 + 2, 0, 2)>>,
  daily |-> <<<<[day |-> 1, close |-> 9, vol |-> 4], [day |-> 3, close |-> p1, vol |-> 6], [day |-> 2, close |-> 7, vol |-> 4]>>, <<>>, <<>>, <<[day |-> 2, close |-> p1, vol |-> 3]>>>>,
  overview |-> <<[known |-> TRUE, shares |-> 0, yield |-> IF c1 = 0 THEN 3 ELSE 0], [known |-> FALSE, shares |-> 0, yield |-> 0], [known |-> FALSE, shares |-> 0, yield |-> 0], [known |-> FALSE, shares |-> 0, yield |-> 0]>>,
  fx |-> fx]
MarketProvider == <<P(10, 0, 12, Fx(10000, 11700, 2, 2)), P(8, -2, 13, Fx(10100, 11600, 3, 3)), P(11, 3, 11, Fx(10150, 11650, 3, 2))>>
R(c, v) == [buy |-> DivRound(MarketProvider[v].fx[c].rate * 99, 100), sell |-> DivRound(MarketProvider[v].fx[c].rate * 101, 100), src |-> v]
MarketRates == <<[c \in {"USD", "EUR"} |-> NoRate], [c \in {"USD", "EUR"} |-> R(c, 1)], [c \in {"USD", "EUR"} |-> NoRate]>>
Row(m, c, o, cl) == [X(m, c, o, cl, -1, -1, TRUE) EXCEPT !.postOpen = -1]
MarketCsv == [good |-> [headers |-> {"mic", "cur", "open", "close"}, rows |-> <<Row("XNAS", "dollar", 9, 17), Row("XLON", "pound", 8, 16), Row("", "", -1, -1)>>],
          twice |-> [headers |-> {"mic", "cur", "open", "close"}, rows |-> <<Row("XLON", "EUR", 8, 16), Row("XLON", "EUR", 8, 16)>>],
          bad |-> [headers |-> {"mic", "cur", "open", "close"}, rows |-> <<Row("XPAR", "EUR", -2, 16)>>]]
Al(l, c, t) == [op |-> "createAlert", user |-> 1, l |-> l, cond |-> c, thr |-> t, kind |-> "ALL"]
Job(o) == [op |-> o]
Ref(o, l) == [op |-> o, l |-> l]
W(o, u, w, l) == [op |-> o, user |-> u, w |-> w, l |-> l, name |-> "n"]
A(o, a) == [op |-> o, user |-> 1, a |-> a]
Cv(f, t, a, d, rpc) == [op |-> "calculate", from |-> f, to |-> t, amount |-> a, day |-> d, rpc |-> rpc]
S(reqs, work, feeds, may, b) == [reqs |-> reqs, hour |-> 10, workday |-> work, feeds |-> feeds, may |-> may, budget |-> b]
NewList(n) == [op |-> "createList", user |-> 1, name |-> n]
Imp(f) == [op |-> "import", file |-> f]
Pg(b, n) == [op |-> "list", page |-> 0, size |-> n, sortBy |-> b, dir |-> "asc"]
Dt(r) == [op |-> "details", role |-> r, l |-> 2]
MarketCases == {
  S(<<Al(1, "BELOW", 9), Job("refreshOpen"), A("toggleAlert", 1)>>, TRUE, 2, {"publish"}, 1),
  S(<<Al(1, "PCT_DROP_INTRADAY", 15), Ref("refreshStock", 1), Job("refreshAll")>>, TRUE, 2, {"db"}, 1),
  S(<<Al(1, "ABOVE", 10), Job("refreshOpen"), Job("refreshOpen"), A("deleteAlert", 1)>>, FALSE, 1, {}, 0),
  S(<<Al(1, "ABOVE", 10), Job("refreshOpen"), A("toggleAlert", 1), Ref("refreshListing", 1), Job("refreshOpen")>>, FALSE, 2, {}, 0),
  S(<<Ref("refreshListing", 2), Ref("refreshListing", 2), Ref("refreshListing", 3)>>, TRUE, 2, {"provider", "db", "influx"}, 1),
  S(<<Ref("refreshListing", 1), Ref("refreshStock", 1)>>, TRUE, 2, {"influx"}, 1),
  S(<<Job("fetchRates"), Job("fetchRates"), Cv("USD", "EUR", 100, 0, FALSE)>>, TRUE, 3, {"provider", "db"}, 1),
  S(<<Job("fetchRates"), Cv("USD", "RSD", 100, 0, FALSE), Cv("RSD", "EUR", 0, 3, TRUE), Cv("GBP", "RSD", 100, 0, FALSE)>>, TRUE, 3, {}, 0),
  S(<<Ref("feed", 1), Ref("feed", 1), Ref("feed", 1)>>, TRUE, 1, {"tick", "redis", "provider"}, 1),
  S(<<NewList("n"), W("addItem", 1, 1, 1), W("addItem", 1, 1, 1), W("removeItem", 1, 1, 1), W("deleteList", 1, 1, 1), W("addItem", 2, 1, 2)>>, TRUE, 1, {}, 0),
  S(<<Imp("good"), Imp("good"), Imp("twice"), Imp("bad")>>, TRUE, 1, {}, 0),
  S(<<Al(1, "NEVER", 3), Al(9, "ABOVE", 3), A("toggleAlert", 5), A("deleteAlert", 5), NewList(""), Pg("ticker", 2), Pg("name", 2), Dt("CLIENT_TRADING"), Dt("AGENT")>>, TRUE, 1, {}, 0)}
============================================================================
