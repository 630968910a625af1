----------------------------- MODULE MCLoans -----------------------------
(* Four loan requests of two clients, with one or two officers; two of them *)
(* are of one amount, and three pay into one account.                       *)
EXTENDS Loans

LoanRole == [u1 |-> "CLIENT_BASIC", u2 |-> "CLIENT_TRADING", s1 |-> "AGENT"]
F(by, ac, cur, amt, per, kind, var) ==
  [by |-> by, account |-> ac, cur |-> cur, amount |-> amt, period |-> per, kind |-> kind, variable |-> var]
LoanForm == [r1 |-> F("u1", "ac1", "RSD", 8, 3, "AUTO", TRUE),
             r2 |-> F("u1", "ac1", "RSD", 5, 2, "STAMBENI", FALSE),
             r3 |-> F("u2", "ac2", "EUR", 3, 1, "AUTO", FALSE),
             r4 |-> F("u1", "ac1", "RSD", 5, 1, "AUTO", FALSE)]
LoanOwner == [ac1 |-> "u1", ac2 |-> "u2"]
LoanCurrency == [ac1 |-> "RSD", ac2 |-> "EUR"]
LoanTiers == <<2, 4, 6, 8>>
LoanMargin == [AUTO |-> 1, STAMBENI |-> 2]
LoanFx == [RSD |-> 1, EUR |-> 2]
S(rs, os, may, b) == [requests |-> rs, officers |-> os, may |-> may, budget |-> b]
LoanCases == {S({"r1"}, {"o1"}, {"refuse", "lost"}, 2), S({"r1", "r3"}, {"o1"}, {"refuse", "lost"}, 1),
              S({"r2", "r3"}, {"o1"}, {"db", "crash"}, 1), S({"r2"}, {"o1", "o2"}, {"race", "refuse"}, 1),
              S({"r1", "r2"}, {"o1"}, {}, 0), S({"r2", "r4"}, {"o1"}, {}, 0)}
============================================================================
