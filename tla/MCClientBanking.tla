------------------------- MODULE MCClientBanking -------------------------
(* The bank, two clients, and the requests that meet on their accounts. *)
EXTENDS ClientBanking

A(o, c, own, name, bal, fee, rem) ==
  [insertAccount(o, c, IF c = "RSD" THEN "CHECKING" ELSE "FX", own, name, bal) EXCEPT !.fee = fee, !.rem = rem, !.dlim = 8, !.mlim = 20]
BankAccounts == <<A(Bank, "RSD", "BUSINESS", "bank", 20, 0, -1), A(Bank, "EUR", "BUSINESS", "bank", 10, 0, -1),
   A(1, "RSD", "PERSONAL", "a", 7, 1, 8), A(1, "EUR", "PERSONAL", "b", 3, 0, -1), A(2, "RSD", "PERSONAL", "c", 2, 1, -1)>>
V(c, op, e, st) == [Session(c, op, e) EXCEPT !.st = st]
Pay(c, f, t, a, s) == [kind |-> "payment", client |-> c, from |-> f, to |-> t, amt |-> a, session |-> s, privileged |-> FALSE]
Trf(c, f, t, a, s) == [kind |-> "transfer", client |-> c, from |-> f, to |-> t, amt |-> a, session |-> s, privileged |-> FALSE]
pay1 == Pay(1, 3, 5, 4, 1)
pay2 == Pay(1, 4, 5, 2, 1)
pay3 == Pay(1, 3, 2, 2, 1)
trf1 == Trf(1, 3, 4, 4, 1)
trf2 == Trf(1, 4, 3, 1, 1)
trf3 == Trf(1, 3, 4, 2, 2)
gen1 == [kind |-> "generate", client |-> 1, op |-> "PAYMENT", entity |-> 3]
gen2 == [kind |-> "generate", client |-> 2, op |-> "PAYMENT", entity |-> 3]
val1 == [kind |-> "validate", session |-> 1, right |-> TRUE]
val2 == [kind |-> "validate", session |-> 1, right |-> FALSE]
st1 == [kind |-> "status", session |-> 1]
hold1 == [kind |-> "reserve", client |-> 1, amt |-> 3]
rel1 == [kind |-> "release", k |-> 1]
rel2 == [kind |-> "release", k |-> 1]
com1 == [kind |-> "commit", k |-> 1]
it1 == [kind |-> "itransfer", from |-> 3, to |-> 5, amt |-> 2]
it2 == [kind |-> "itransfer", from |-> 3, to |-> 4, amt |-> 5]
rev1 == [kind |-> "reverse", k |-> 1]
rev2 == [kind |-> "reverse", k |-> 2]
open1 == [kind |-> "open", type |-> "CHECKING", client |-> 2, concrete |-> "DOO", firm |-> TRUE, name |-> "a", init |-> 1, cur |-> "RSD"]
open2 == [kind |-> "open", type |-> "FX", client |-> 2, concrete |-> "PERSONAL", firm |-> FALSE, name |-> "d", init |-> 0, cur |-> "EUR"]
sys1 == [kind |-> "system", client |-> State, cur |-> "RSD", name |-> "s", init |-> 0]
es1 == [kind |-> "editstatus", i |-> 5, st |-> "INACTIVE"]
ax1 == [kind |-> "expiry", i |-> 3]
en1 == [kind |-> "editname", client |-> 1, i |-> 3, name |-> "n"]
en2 == [kind |-> "editname", client |-> 1, i |-> 4, name |-> "n"]
el1 == [kind |-> "editlimit", client |-> 1, i |-> 3, day |-> 3, month |-> 5, session |-> 1]
fb1 == [kind |-> "frombank", from |-> 0, to |-> 5, amt |-> 3]
fb2 == [kind |-> "frombank", from |-> 5, to |-> 0, amt |-> 2]
cb1 == [kind |-> "creditbank", cur |-> "EUR", amt |-> 1]
db1 == [kind |-> "debitbank", cur |-> "RSD", amt |-> 1]
ex1 == [kind |-> "exchange", i |-> 3, amt |-> 2, buy |-> TRUE]
ex2 == [kind |-> "exchange", i |-> 5, amt |-> 1, buy |-> FALSE]
tx1 == [kind |-> "transaction", client |-> 1, from |-> 3, to |-> 5, amt |-> 1, same |-> FALSE]
tx2 == [kind |-> "transaction", client |-> 1, from |-> 3, to |-> 2, amt |-> 2, same |-> FALSE]
nr1 == [kind |-> "newrecipient", client |-> 1, name |-> "x", to |-> 5]
nr2 == [kind |-> "newrecipient", client |-> 1, name |-> "y", to |-> 5]
er1 == [kind |-> "editrecipient", client |-> 1, k |-> 2, name |-> "x", to |-> 5]
dr1 == [kind |-> "delrecipient", client |-> 1, k |-> 1]
day1 == [kind |-> "daily"]
mon1 == [kind |-> "monthly"]
cl1 == [kind |-> "cleanup"]
S(rs, ss, may, b) == [what |-> rs, sess |-> ss, may |-> may, budget |-> b]
P == <<V(1, "PAYMENT", 3, "PENDING")>>
OK1 == <<V(1, "PAYMENT", 3, "VERIFIED")>>
OK2 == <<V(1, "PAYMENT", 3, "VERIFIED"), V(1, "TRANSFER", 3, "VERIFIED")>>
BankCases == {S(<<gen1, gen2, val1, val2, st1, pay1>>, P, {"late"}, 0),
         S(<<pay1, pay2, pay3, day1>>, OK1, {}, 0), S(<<pay1, trf3, cl1>>, OK2, {"old", "lostcommit", "db", "crash"}, 2),
         S(<<pay2, pay3, ax1>>, OK1, {"lostcommit", "db"}, 1),
         S(<<trf1, trf2, trf3, el1>>, OK2, {"db", "lostcommit"}, 1),
         S(<<hold1, rel1, rel2, com1, pay1>>, OK1, {}, 0),
         S(<<it1, it2, rev1, rev2, fb1>>, OK1, {}, 0),
         S(<<open1, open2, sys1, es1, fb1, fb2>>, OK1, {"refuse"}, 1),
         S(<<en1, en2, el1, day1, ex1>>, OK1, {"db"}, 1),
         S(<<tx2, trf2>>, OK1, {"lostcommit", "db"}, 1),
         S(<<cb1, db1, ex1, ex2, tx1>>, OK1, {"db", "lostcommit"}, 1),
         S(<<nr1, nr2, er1, dr1>>, OK1, {}, 0), S(<<mon1, pay1, ex2, fb1>>, OK1, {}, 0)}
============================================================================
