-------------------------- MODULE MCBankProducts --------------------------
(* Cards, margin accounts and external transfers on four accounts. *)
EXTENDS BankProducts

ProductAccounts == << [owner |-> -1, type |-> "BUSINESS", del |-> FALSE, bal |-> 20],
                 [owner |-> -3, type |-> "BUSINESS", del |-> FALSE, bal |-> 10],
                 [owner |-> 1, type |-> "PERSONAL", del |-> FALSE, bal |-> 5],
                 [owner |-> 2, type |-> "BUSINESS", del |-> FALSE, bal |-> 5] >>
ProductTransfers == << [st |-> "PENDING", n |-> 0, old |-> TRUE], [st |-> "PENDING", n |-> 2, old |-> TRUE],
                  [st |-> "PENDING", n |-> 0, old |-> FALSE] >>
Personal(role, who) == [kind |-> "personal", role |-> role, who |-> who, acc |-> 3, brand |-> "VISA", limit |-> 5, verified |-> TRUE]
Business(p, own) == [kind |-> "business", role |-> "CLIENT_TRADING", who |-> 2, acc |-> 4, brand |-> "DINACARD", limit |-> 5,
                verified |-> TRUE, forOwner |-> own, personId |-> None, person |-> p]
Auto == [kind |-> "auto", role |-> "SERVICE", who |-> 1, acc |-> 3]
Do(kind, role, i) == [kind |-> kind, role |-> role, card |-> i, acc |-> 0]
Erase == [kind |-> "erase", who |-> 1, event |-> "e"]
Mk(kind, who, init, maint, part) == [kind |-> kind, who |-> who, init |-> init, maint |-> maint, part |-> part]
Op(kind, o, amt) == [kind |-> kind, owner |-> o, amt |-> amt]
U == <<"marginUser", 1>>
C == <<"marginCompany", 2>>
Job == [kind |-> "retryjob"]
Worker == [kind |-> "consumer"]
ProductCases == {
 [what |-> <<Auto, Personal("CLIENT_BASIC", 1), Personal("ADMIN", 0), Do("DEACTIVATE", "AGENT", 1)>>, may |-> {"cardinsert"}, budget |-> 1],
 [what |-> <<Personal("CLIENT_TRADING", 1), Do("BLOCK", "CLIENT_BASIC", 1), Do("UNBLOCK", "CLIENT_BASIC", 1), Do("UNBLOCK", "BASIC", 1), Do("DEACTIVATE", "ADMIN", 1)>>, may |-> {}, budget |-> 0],
 [what |-> <<Personal("CLIENT_BASIC", 1), [Personal("CLIENT_BASIC", 1) EXCEPT !.brand = "MASTERCARD"], Personal("CLIENT_BASIC", 1), Do("BLOCK", "BASIC", 1)>>, may |-> {}, budget |-> 0],
 [what |-> <<Business("p", FALSE), Business("p", FALSE), Business("p", TRUE), [Business("q", FALSE) EXCEPT !.personId = 1]>>, may |-> {}, budget |-> 0],
 [what |-> <<Personal("CLIENT_BASIC", 1), [kind |-> "limit", role |-> "BASIC", card |-> 1, limit |-> 2, acc |-> 0], Erase, Erase, Business("p", FALSE)>>, may |-> {"erase"}, budget |-> 1],
 [what |-> <<Mk("marginUser", 1, 6, 3, 5), Mk("marginUser", 1, 6, 3, 5), Op("buy", U, 5), Op("sell", U, 7), Op("add", U, 3), Op("withdraw", U, 2)>>, may |-> {}, budget |-> 0],
 [what |-> <<Mk("marginCompany", 2, 4, 3, 3), Op("buy", C, 3), Op("buy", C, 1), Op("sell", C, 4), Op("add", C, 1)>>, may |-> {}, budget |-> 0],
 [what |-> <<Job, Job, Worker, Worker>>, may |-> {"jobcommit", "retrycommit", "noanswer", "refused"}, budget |-> 2],
 [what |-> <<Job, Job, Worker>>, may |-> {"noanswer", "refused"}, budget |-> 5] }
============================================================================
