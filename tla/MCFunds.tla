----------------------------- MODULE MCFunds -----------------------------
(* Two funds with three holdings, two investors and the bank. *)
EXTENDS Funds

FundRows == << [name |-> 2, mgr |-> 7, liq |-> 3, min |-> 2, strat |-> "REINVEST"], [name |-> 1, mgr |-> 7, liq |-> 5, min |-> 1, strat |-> "PAYOUT_CLIENTS"] >>
FundHoldings == << [fund |-> 1, ticker |-> "a", qty |-> 2, avg |-> 1, del |-> FALSE], [fund |-> 1, ticker |-> "b", qty |-> 1, avg |-> 2, del |-> FALSE],
             [fund |-> 2, ticker |-> "a", qty |-> 1, avg |-> 1, del |-> FALSE] >>
FundPositions0 == [k \in {<<1, 1>>, <<2, 1>>, <<-1, 1>>, <<1, 2>>} |-> IF k[1] = -1 THEN 1 ELSE 4]
FundMoney == [a \in {1, 2, 9, 11, 12} |-> CASE a = 1 -> 3 [] a = 2 -> 5 [] OTHER -> 6]
FundPrices == [t \in {"a", "b"} |-> IF t = "a" THEN 2 ELSE 3]
Inv(f, who, amt) == [kind |-> "invest", by |-> "CLIENT_TRADING", who |-> who, fund |-> f, amt |-> amt]
Red(f, who, amt) == [kind |-> "redeem", by |-> "CLIENT_TRADING", who |-> who, fund |-> f, amt |-> amt]
AsBank(r) == [r EXCEPT !.by = "SUPERVISOR"]
Sell(f, t, q) == [kind |-> "sell", by |-> "SUPERVISOR", fund |-> f, ticker |-> t, qty |-> q]
Buy(f, t, q, amt) == [kind |-> "order", fund |-> f, ticker |-> t, qty |-> q, amt |-> amt]
Div(f, t, d, per, cur, strat) == [kind |-> "dividend", by |-> "SERVICE", fund |-> f, ticker |-> t, day |-> d, per |-> per, cur |-> cur, strat |-> strat]
Capture(d) == [kind |-> "capture", day |-> d]
New == [kind |-> "create", by |-> "SUPERVISOR", who |-> 8, name |-> 3, min |-> 1, strat |-> "REINVEST"]
Hand(a, b) == [kind |-> "reassign", by |-> "SERVICE", from |-> a, to |-> b]
Sc(what, may, budget) == [what |-> what, market |-> TRUE, premiums |-> <<>>, today |-> 3, may |-> may, budget |-> budget]
FundCases == {
 Sc(<<Inv(1, 1, 2), AsBank(Inv(1, 9, 3)), Red(1, 1, 2)>>, {"pub", "dup"}, 1),
 Sc(<<Inv(1, 1, 2), Red(1, 1, 2)>>, {"db", "crash", "pub"}, 2),
 Sc(<<Red(1, 1, 4), Sell(1, "a", 1), Inv(1, 2, 2)>>, {"account"}, 1),
 Sc(<<Red(1, 1, 4), Sell(1, "a", 1)>>, {"db", "crash"}, 2),
 Sc(<<Red(1, 1, 3), Red(1, 2, 3), AsBank(Red(1, 9, 1))>>, {"lost"}, 1),
 [Sc(<<Red(1, 1, 3), Buy(1, "a", 1, 2), Capture(4)>>, {"crash", "snap"}, 1) EXCEPT !.market = FALSE],
 Sc(<<Capture(0), Capture(1), Capture(2), Buy(1, "a", 1, 2), Sell(2, "a", 1)>>, {"db", "snap"}, 1),
 Sc(<<New, Hand(7, 8), Hand(8, 7), Inv(3, 1, 2)>>, {"account", "db"}, 1),
 Sc(<<Div(1, "b", 3, 2, "RSD", ""), Div(1, "b", 3, 2, "RSD", ""), Div(1, "a", 3, 3, "USD", "")>>, {"account"}, 1),
 Sc(<<Div(2, "a", 3, 2, "USD", ""), Div(2, "c", 3, 2, "USD", ""), Inv(2, 1, 1)>>, {"account"}, 1),
 [Sc(<<Inv(1, 1, 2)>>, {"crash", "db", "lost", "pub"}, 2) EXCEPT !.premiums = << [kind |-> "premium", id |-> 1] >>] }
============================================================================
