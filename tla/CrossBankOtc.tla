---------------------------- MODULE CrossBankOtc ----------------------------
(***************************************************************************)
(* Options traded between two banks, seen from ours (interbank-service):    *)
(* negotiations and their mirrors, the accept and the exercise run as       *)
(* two-phase transactions, the contracts they leave, and the shares and     *)
(* the money that trading-service and banking-core hold for them.           *)
(*                                                                         *)
(* Every request is a process; a statement on a database, a call to another *)
(* service or to the partner bank is a step, so requests interleave between *)
(* them.  The partner is external: it answers anything the protocol allows, *)
(* or nothing.  One stock and one currency are traded; a client without an  *)
(* account or a position is a client outside the DOMAIN of the table.       *)
(***************************************************************************)
EXTENDS Integers, SequencesExt, FiniteSets, TLC

CONSTANTS
  Us, Them,        \* routing numbers
  Money0, Shares0, \* [client -> balance], [client -> [qty, res, pub]]
  LastDay,         \* bound on the clock
  CrossScenarios   \* [reqs, neg, con, may, budget]

VARIABLES
  xenv,
  xdb,     \* [neg, con, tx, money, held, port, sres, ores]
  xnow,    \* the day
  xat,     \* where each request stands
  xghost,  \* history: [turns, twice, moved, orphans]
  xfaults

xvars == <<xenv, xdb, xnow, xat, xghost, xfaults>>

XReq == xenv.reqs
XReqs == DOMAIN XReq
XMay(f) == f \in xenv.may
XFail(f) == XMay(f) /\ xfaults < xenv.budget /\ xfaults' = xfaults + 1
XNoFail == UNCHANGED xfaults
Party(r, u) == [r |-> r, u |-> u]
NoNeg == [auth |-> FALSE, rid |-> 0, buyer |-> Party(0, 0), seller |-> Party(0, 0), amount |-> 0,
          price |-> 0, premium |-> 0, settle |-> 0, by |-> 0, open |-> FALSE, ver |-> 0]
NoCon == [neg |-> 0, buyer |-> Party(0, 0), seller |-> Party(0, 0), amount |-> 0, strike |-> 0,
          settle |-> 0, st |-> "NONE"]
RECURSIVE XSum(_, _)
XSum(S, f) == IF S = {} THEN 0 ELSE LET x == CHOOSE y \in S : TRUE IN f[x] + XSum(S \ {x}, f)
FirstOf(S) == IF S = {} THEN 0 ELSE CHOOSE x \in S : \A y \in S : x <= y
--------------------------------------------------------------------------
(* interbank_negotiations and interbank_contracts: one operator a query.    *)

InsertNegotiation(d, n) == [d EXCEPT !.neg = Append(@, n)]
FindNegByID(d, id) == IF id \in DOMAIN d.neg THEN id ELSE 0
\* The routing number is an argument of the query that restricts nothing.
FindByAuthoritativeRef(d, id) ==
  FirstOf({i \in DOMAIN d.neg : IF d.neg[i].auth THEN i = id ELSE d.neg[i].rid = id})
\* Optimistic: the answer is FALSE when the version read is not the stored one.
UpdateCounterRow(d, id, n) ==
  IF d.neg[id].ver = n.ver
  THEN <<TRUE, [d EXCEPT !.neg[id] = [n EXCEPT !.ver = @ + 1, !.open = d.neg[id].open]]>>
  ELSE <<FALSE, d>>
\* By our own number: a mirror addressed by the partner's number is not found.
MarkClosed(d, id) ==
  IF id \in DOMAIN d.neg /\ d.neg[id].open THEN [d EXCEPT !.neg[id].open = FALSE, !.neg[id].ver = @ + 1] ELSE d
ListNegForUser(d, u, all) ==
  {i \in DOMAIN d.neg : all \/ (d.neg[i].open /\ u \in {d.neg[i].buyer.u, d.neg[i].seller.u})}

InsertContract(d, c) == [d EXCEPT !.con = Append(@, c)]
FindByNegotiationID(d, id) == FirstOf({c \in DOMAIN d.con : d.con[c].neg = id})
FindConByID(d, id) == IF id \in DOMAIN d.con THEN id ELSE 0
ClaimExerciseByID(d, id) ==
  <<d.con[id].st = "ACTIVE", IF d.con[id].st = "ACTIVE" THEN [d EXCEPT !.con[id].st = "EXERCISING"] ELSE d>>
RevertExercising(d, id) == IF d.con[id].st = "EXERCISING" THEN [d EXCEPT !.con[id].st = "ACTIVE"] ELSE d
ListConForUser(d, u, all) ==
  {c \in DOMAIN d.con : all \/ u \in {d.con[c].buyer.u, d.con[c].seller.u}}
\* The option's number is ours, or the partner's number of a mirror.
ConOfOption(d, id) ==
  FirstOf({c \in DOMAIN d.con : d.con[c].neg = id \/ (d.con[c].neg \in DOMAIN d.neg /\ d.neg[d.con[c].neg].rid = id)})
\* A mutant: an exercised contract can be claimed again.
ClaimAgain(d, id) ==
  LET c == ConOfOption(d, id)
  IN  IF c = 0 THEN <<FALSE, FALSE, d>> ELSE <<TRUE, TRUE, [d EXCEPT !.con[c].st = "EXERCISED"]>>
ClaimExerciseByNegotiation(d, id) ==
  LET c == ConOfOption(d, id)
  IN  IF c = 0 THEN <<FALSE, FALSE, d>>
      ELSE IF d.con[c].st \in {"ACTIVE", "EXERCISING"}
           THEN <<TRUE, TRUE, [d EXCEPT !.con[c].st = "EXERCISED"]>>
           ELSE <<TRUE, FALSE, d>>
ReleaseExerciseClaimByNegotiation(d, id) ==
  LET c == ConOfOption(d, id)
  IN  IF c # 0 /\ d.con[c].st = "EXERCISED" THEN [d EXCEPT !.con[c].st = "ACTIVE"] ELSE d
UpdateStatus(d, id, st) == [d EXCEPT !.con[id].st = st]
FindTx(d, id) == FirstOf({t \in DOMAIN d.tx : d.tx[t].id = id})
PersistPrepared(d, id, ps, refs) == [d EXCEPT !.tx = Append(@, [id |-> id, ps |-> ps, refs |-> refs, st |-> "PREPARED"])]
UpdateTxStatus(d, t, st) == [d EXCEPT !.tx[t].st = st]
--------------------------------------------------------------------------
(* trading-service: shares held for an option, and shares received.         *)

InsertStockReservation(d, u, q) == [d EXCEPT !.sres = Append(@, [user |-> u, qty |-> q, st |-> "HELD"])]
FinalizeStockReservation(d, r, st) == [d EXCEPT !.sres[r].st = st]
FindOptionReservation(d, neg) == FirstOf({o \in DOMAIN d.ores : d.ores[o].neg = neg})
InsertOptionReservation(d, neg, r) == [d EXCEPT !.ores = Append(@, [neg |-> neg, sres |-> r, st |-> "RESERVED"])]
UpdateOptionReservationStatus(d, o, st) == [d EXCEPT !.ores[o].st = st]
CanReserveStock(d, u, q) == q > 0 /\ u \in DOMAIN d.port /\ d.port[u].qty - d.port[u].res >= q
reserveStockTx(d, u, q) == InsertStockReservation([d EXCEPT !.port[u].res = @ + q], u, q)
Floor0(n) == IF n < 0 THEN 0 ELSE n
\* A reservation found COMMITTED or RELEASED is answered as done or with 409.
\* Only the option of a reservation commits or releases it, and only once, so
\* neither is met here: HELD goes with RESERVED (CrossBooks).
commitStockTx(d, r) ==
  IF d.sres[r].st # "HELD" THEN d
  ELSE FinalizeStockReservation(
         [d EXCEPT !.port[d.sres[r].user] = [@ EXCEPT !.qty = Floor0(@ - d.sres[r].qty), !.res = Floor0(@ - d.sres[r].qty)]],
         r, "COMMITTED")
releaseStockTx(d, r) ==
  IF d.sres[r].st # "HELD" THEN d
  ELSE FinalizeStockReservation([d EXCEPT !.port[d.sres[r].user].res = Floor0(@ - d.sres[r].qty)], r, "RELEASED")
CanReserveOption(d, neg, u, q) == FindOptionReservation(d, neg) # 0 \/ CanReserveStock(d, u, q)
ReserveOption(d, neg, u, q) ==
  IF FindOptionReservation(d, neg) # 0 THEN d
  ELSE InsertOptionReservation(reserveStockTx(d, u, q), neg, Len(d.sres) + 1)
ExerciseOption(d, neg) ==
  LET o == FindOptionReservation(d, neg)
  IN  IF o = 0 \/ d.ores[o].st # "RESERVED" THEN d
      ELSE UpdateOptionReservationStatus(commitStockTx(d, d.ores[o].sres), o, "EXERCISED")
ReleaseOption(d, neg) ==
  LET o == FindOptionReservation(d, neg)
  IN  IF o = 0 \/ d.ores[o].st # "RESERVED" THEN d
      ELSE UpdateOptionReservationStatus(releaseStockTx(d, d.ores[o].sres), o, "RELEASED")
CreditStock(d, u, q) ==
  IF u \in DOMAIN d.port THEN [d EXCEPT !.port[u].qty = @ + q]
  ELSE [d EXCEPT !.port = (u :> [qty |-> q, res |-> 0, pub |-> 0]) @@ @]
PublicStocks(d) == {[seller |-> Party(Us, u), amount |-> d.port[u].pub] : u \in {v \in DOMAIN d.port : d.port[v].pub > 0}}
\* banking-core, through its interbank interface (module MonasLedger).
ReserveMonas(d, u, a) == [d EXCEPT !.money[u] = @ - a, !.held = Append(@, [user |-> u, amt |-> a, st |-> "HELD"])]
CommitMonas(d, h) == [d EXCEPT !.held[h].st = "COMMITTED"]
ReleaseMonas(d, h) ==
  IF d.held[h].st # "HELD" THEN d ELSE [d EXCEPT !.held[h].st = "RELEASED", !.money[d.held[h].user] = @ + d.held[h].amt]
CreditMonas(d, u, a) == [d EXCEPT !.money[u] = @ + a]
--------------------------------------------------------------------------
(* The postings of the two transactions. *)

NoOption == [neg |-> 0, k |-> 0, price |-> 0]
Posting(acc, own, amt, asset, opt) == [acc |-> acc, own |-> own, amt |-> amt, asset |-> asset, opt |-> opt]
\* A client of ours is addressed by his account, a client of the partner by
\* his person; without an account he too is a person.
resolveMonasAccount(d, p) == IF p.r = Us /\ p.u \in DOMAIN d.money THEN "ACCOUNT" ELSE "PERSON"
AcceptPostings(d, n, host, id) ==
  LET total == n.premium * n.amount
      opt == [neg |-> id, k |-> n.amount, price |-> n.price]
  IN  << Posting(resolveMonasAccount(d, n.buyer), n.buyer, 0 - total, "MONAS", NoOption),
         Posting(resolveMonasAccount(d, n.seller), n.seller, total, "MONAS", NoOption),
         Posting("OPTION", Party(host, id), -1, "OPTION", opt),
         Posting("PERSON", n.buyer, 1, "OPTION", opt) >>
SellerNegotiationID(d, id) == IF id \in DOMAIN d.neg /\ d.neg[id].rid # 0 THEN d.neg[id].rid ELSE id
ExercisePostings(c, id) ==
  LET strike == c.strike * c.amount
      pseudo == Party(c.seller.r, id)
  IN  << Posting("OPTION", pseudo, strike, "MONAS", NoOption),
         Posting("PERSON", c.seller, 0 - strike, "MONAS", NoOption),
         Posting("OPTION", pseudo, 0 - c.amount, "STOCK", NoOption),
         Posting("PERSON", c.buyer, c.amount, "STOCK", NoOption) >>
--------------------------------------------------------------------------
(* Validation of the postings on our side: "" or the reason of a NO vote.   *)

assetKey(p) == <<p.asset, p.opt.neg>>
BalanceCheck(ps) ==
  \A i \in DOMAIN ps :
    XSum({j \in DOMAIN ps : assetKey(ps[j]) = assetKey(ps[i])}, [j \in DOMAIN ps |-> ps[j].amt]) = 0
isOurs(p) == p.own.r = Us
OursOf(ps) == SelectSeq(ps, isOurs)
FindNegotiation(d, id) ==
  LET i == FindByAuthoritativeRef(d, id)
      c == FindByNegotiationID(d, i)
  IN  IF i = 0 THEN [found |-> FALSE, n |-> NoNeg, cst |-> "NONE", csettle |-> 0]
      ELSE [found |-> TRUE, n |-> d.neg[i], cst |-> IF c = 0 THEN "NONE" ELSE d.con[c].st,
            csettle |-> IF c = 0 THEN 0 ELSE d.con[c].settle]
negotiationAcceptable(f, now) == f.n.open /\ ~(f.n.settle < now)
negotiationExercisable(f, now) == f.cst = "ACTIVE" /\ f.csettle > now
validateNegotiationOpen(d, id, now) ==
  LET f == FindNegotiation(d, id)
  IN  IF ~f.found THEN "OPTION_NEGOTIATION_NOT_FOUND"
      ELSE IF negotiationAcceptable(f, now) \/ negotiationExercisable(f, now) THEN "" ELSE "OPTION_USED_OR_EXPIRED"
validateOption(d, p, now) ==
  LET f == FindNegotiation(d, p.own.u)
      abs == IF p.amt < 0 THEN 0 - p.amt ELSE p.amt
      open == validateNegotiationOpen(d, p.own.u, now)
  IN  IF open # "" THEN open
      ELSE IF abs \in {1, f.n.amount, f.n.amount * f.n.price} THEN "" ELSE "OPTION_AMOUNT_INCORRECT"
validateRealAccount(d, p) ==
  CASE p.asset # "MONAS" -> "UNACCEPTABLE_ASSET"
    [] p.own.u \notin DOMAIN d.money -> "NO_SUCH_ACCOUNT"
    [] p.amt < 0 /\ d.money[p.own.u] < 0 - p.amt -> "INSUFFICIENT_ASSET"
    [] OTHER -> ""
validatePersonAccount(d, p) ==
  CASE p.asset = "MONAS" -> validateRealAccount(d, p)
    [] p.asset = "OPTION" -> ""
    [] p.asset = "STOCK" -> IF p.amt > 0 THEN "" ELSE "UNACCEPTABLE_ASSET"
validateOptionPseudoAccount(d, p, now) ==
  IF p.asset = "OPTION" THEN validateOption(d, p, now) ELSE validateNegotiationOpen(d, p.own.u, now)
ValidatePosting(d, p, now) ==
  CASE p.acc = "ACCOUNT" -> validateRealAccount(d, p)
    [] p.acc = "PERSON" -> validatePersonAccount(d, p)
    [] p.acc = "OPTION" -> validateOptionPseudoAccount(d, p, now)

--------------------------------------------------------------------------
(* The executor: what a posting of ours becomes when it is prepared, and    *)
(* what its reservation becomes on commit and on rollback.                  *)

Ref(kind, u, amt, id) == [kind |-> kind, u |-> u, amt |-> amt, id |-> id]
Abs(n) == IF n < 0 THEN 0 - n ELSE n
optionExerciseDeliveryRef(p) == p.acc = "OPTION" /\ isOurs(p) /\ p.asset = "STOCK" /\ p.amt < 0
isOptionPseudoSideLeg(p) == p.acc = "OPTION" /\ p.asset \in {"MONAS", "STOCK"}
isExerciseTx(ours) == \E i \in DOMAIN ours : optionExerciseDeliveryRef(ours[i])
isExerciseSellerCashLeg(p) == p.asset = "MONAS" /\ p.acc = "PERSON" /\ isOurs(p)
creditSellerExerciseStrike(p) == Ref("MONAS_CREDIT", p.own.u, Abs(p.amt), 0)
creditMonasPosting(p) == Ref("MONAS_CREDIT", p.own.u, p.amt, 0)
creditStockPosting(p) == Ref("STOCK_CREDIT", p.own.u, p.amt, 0)
FindSellerID(d, id) == d.neg[FindByAuthoritativeRef(d, id)].seller.u
\* <<reserved?, references, database>>
reserveMonasPosting(d, p) ==
  IF d.money[p.own.u] < Abs(p.amt) THEN <<FALSE, <<>>, d>>
  ELSE <<TRUE, <<Ref("MONAS", p.own.u, Abs(p.amt), Len(d.held) + 1)>>, ReserveMonas(d, p.own.u, Abs(p.amt))>>
reserveOptionPosting(d, p) ==
  LET u == FindSellerID(d, p.opt.neg)
  IN  IF CanReserveOption(d, p.opt.neg, u, p.opt.k)
      THEN <<TRUE, <<Ref("OPTION", u, p.opt.k, p.opt.neg)>>, ReserveOption(d, p.opt.neg, u, p.opt.k)>>
      ELSE <<FALSE, <<>>, d>>
reservePosting(d, p) == IF p.asset = "MONAS" THEN reserveMonasPosting(d, p) ELSE reserveOptionPosting(d, p)
PreparePosting(d, p, exercise) ==
  CASE optionExerciseDeliveryRef(p) -> <<TRUE, <<Ref("OPTION_EXERCISE", 0, 0, p.own.u)>>, d>>
    [] isOptionPseudoSideLeg(p) /\ ~optionExerciseDeliveryRef(p) -> <<TRUE, <<>>, d>>
    [] exercise /\ isExerciseSellerCashLeg(p) ->
         IF p.own.u \in DOMAIN d.money THEN <<TRUE, <<creditSellerExerciseStrike(p)>>, d>> ELSE <<FALSE, <<>>, d>>
    [] OTHER ->
         CASE p.amt < 0 -> reservePosting(d, p)
           [] p.amt >= 0 /\ p.asset = "STOCK" -> <<TRUE, <<creditStockPosting(p)>>, d>>
           [] p.amt >= 0 /\ p.asset = "MONAS" -> <<TRUE, <<creditMonasPosting(p)>>, d>>
           [] p.amt >= 0 /\ p.asset = "OPTION" -> <<TRUE, <<>>, d>>
\* Every posting of ours but the strike our seller receives is validated.
VotesYes(d, ps, now) ==
  /\ BalanceCheck(ps)
  /\ LET ours == OursOf(ps)
     IN  \A i \in DOMAIN ours :
           \/ isExerciseTx(ours) /\ isExerciseSellerCashLeg(ours[i])
           \/ ValidatePosting(d, ours[i], now) = ""
commitRef(d, ref) ==
  CASE ref.kind = "MONAS" -> CommitMonas(d, ref.id)
    [] ref.kind = "MONAS_CREDIT" -> CreditMonas(d, ref.u, ref.amt)
    [] ref.kind = "STOCK_CREDIT" -> CreditStock(d, ref.u, ref.amt)
    [] ref.kind \in {"OPTION", "OPTION_EXERCISE"} -> ExerciseOption(d, ref.id)
releaseRef(d, ref) ==
  CASE ref.kind = "MONAS" -> ReleaseMonas(d, ref.id)
    [] ref.kind = "OPTION" -> ReleaseOption(d, ref.id)
    [] OTHER -> d
isExerciseSettlementRef(ref) == ref.kind \in {"OPTION_EXERCISE", "STOCK_CREDIT", "MONAS_CREDIT"}
\* The option a transaction exercises, or 0.
exerciseNegotiationIDFromPostings(ps) ==
  LET legs == {i \in DOMAIN ps : ps[i].acc = "OPTION" /\ ps[i].asset = "STOCK"}
  IN  IF legs = {} THEN 0 ELSE ps[FirstOf(legs)].own.u
--------------------------------------------------------------------------
(* Requests.  A request is done when it has its answer. *)

P0 == [pc |-> "start", n |-> NoNeg, nid |-> 0, c |-> NoCon, ps |-> <<>>, refs |-> <<>>, k |-> 1,
       strike |-> 0, claim |-> 0, skip |-> FALSE, out |-> "", view |-> {}]
Op(r) == XReq[r].op
At(r, pc) == xat[r].pc = pc
Begins(r, op) == At(r, "start") /\ Op(r) = op
Go(r, p) == xat' = [xat EXCEPT ![r] = p]
Reply(r, code) == Go(r, [P0 EXCEPT !.pc = "done", !.out = code])
Show(r, view) == Go(r, [P0 EXCEPT !.pc = "done", !.out = "200", !.view = view])
Same(vs) == UNCHANGED <<xenv, xnow, vs>>
Silent == Same(<<xdb, xghost, xfaults>>)
Turned(id, by) == xghost' = [xghost EXCEPT !.turns[id] = Append(@, by)]
Closing(id) ==
  IF id \in DOMAIN xdb.neg /\ xdb.neg[id].open THEN Turned(id, 0) ELSE UNCHANGED xghost
TxId(r) == IF Op(r) \in {"newTx", "commitTx", "rollbackTx"} THEN XReq[r].tx ELSE r
InFlight(nid) == {r \in XReqs : xat[r].nid = nid /\ Op(r) \in {"accept", "acceptOut"} /\ xat[r].ps # <<>>}

OfferInvalid(o) == o.settle <= xnow \/ o.amount <= 0 \/ o.price <= 0 \/ o.premium < 0
Terms(n, o, by) ==
  [n EXCEPT !.amount = o.amount, !.price = o.price, !.premium = o.premium, !.settle = o.settle, !.by = by]
ClosedOrPast(n) == ~n.open \/ n.settle < xnow
IsParty(n, bank) == bank \in {n.buyer.r, n.seller.r}
requirePartnerRouting(r) == XReq[r].from # 0
findByLocalOrRemote(d, id) ==
  IF FindNegByID(d, id) # 0 THEN FindNegByID(d, id) ELSE FindByAuthoritativeRef(d, id)
--------------------------------------------------------------------------
(* The partner's requests on a negotiation (api/otc.go). *)

NewNegotiation(o, auth, rid, by) ==
  [auth |-> auth, rid |-> rid, buyer |-> o.buyer, seller |-> o.seller, amount |-> o.amount, price |-> o.price,
   premium |-> o.premium, settle |-> o.settle, by |-> by, open |-> TRUE, ver |-> 0]
Inserted(n) ==
  /\ xdb' = InsertNegotiation(xdb, n)
  /\ xghost' = [xghost EXCEPT !.turns = Append(@, <<n.by>>)]
CreateNegotiation(r) ==
  /\ Begins(r, "create")
  /\ LET q == XReq[r]
         o == q.offer
     IN  \/ ~requirePartnerRouting(r) /\ Reply(r, "401") /\ Silent
         \/ /\ requirePartnerRouting(r)
            /\ o.seller.r # Us \/ o.buyer.r # q.from \/ o.by # q.from \/ OfferInvalid(o)
            /\ Reply(r, "400") /\ Silent
         \/ /\ requirePartnerRouting(r)
            /\ ~(o.seller.r # Us \/ o.buyer.r # q.from \/ o.by # q.from \/ OfferInvalid(o))
            /\ \/ Inserted(NewNegotiation(o, TRUE, 0, o.by)) /\ Reply(r, "200") /\ XNoFail /\ Same(<<>>)
               \/ XFail("db") /\ Reply(r, "500") /\ Same(<<xdb, xghost>>)
GetNegotiation(r) ==
  /\ Begins(r, "get")
  /\ LET i == FindByAuthoritativeRef(xdb, XReq[r].id)
     IN  IF i = 0 THEN Reply(r, "404") ELSE Show(r, {i})
  /\ Silent
\* "" when the sender may counter with this offer, else the status answered.
CounterRefusal(n, o, by, sender) ==
  CASE ClosedOrPast(n) -> "409"
    [] ~ClosedOrPast(n) /\ by # sender -> "400"
    [] ~ClosedOrPast(n) /\ by = sender /\ n.by = sender -> "409"
    [] ~ClosedOrPast(n) /\ by = sender /\ n.by # sender -> IF OfferInvalid(o) THEN "400" ELSE ""
ReadForCounter(r, id, by, sender) ==
  LET i == FindByAuthoritativeRef(xdb, id)
      o == XReq[r].offer
  IN  IF i = 0 THEN Reply(r, "404")
      ELSE IF CounterRefusal(xdb.neg[i], o, by, sender) # "" THEN Reply(r, CounterRefusal(xdb.neg[i], o, by, sender))
      ELSE Go(r, [P0 EXCEPT !.pc = "write", !.n = Terms(xdb.neg[i], o, by), !.nid = i])
UpdateCounter(r) ==
  /\ Begins(r, "counter")
  /\ IF requirePartnerRouting(r) THEN ReadForCounter(r, XReq[r].id, XReq[r].offer.by, XReq[r].from) ELSE Reply(r, "401")
  /\ Silent
\* The write of a counter-offer, from the partner or from us: a row that has
\* changed since it was read refuses it.
WriteCounter(r) ==
  /\ At(r, "write")
  /\ LET i == xat[r].nid
         w == UpdateCounterRow(xdb, i, xat[r].n)
     IN  \/ /\ w[1]
            /\ xdb' = w[2]
            /\ xghost' = [xghost EXCEPT !.turns[i] = Append(@, xat[r].n.by),
                                        !.moved = IF InFlight(i) = {} THEN @ ELSE @ \cup {i}]
            /\ Reply(r, "204") /\ XNoFail /\ Same(<<>>)
         \/ ~w[1] /\ Reply(r, "500") /\ Silent
         \/ XFail("db") /\ Reply(r, "500") /\ Same(<<xdb, xghost>>)
Delete(r) ==
  /\ Begins(r, "delete")
  /\ LET i == FindByAuthoritativeRef(xdb, XReq[r].id)
     IN  CASE ~requirePartnerRouting(r) -> Reply(r, "401")
           [] requirePartnerRouting(r) /\ i = 0 -> Reply(r, "204")
           [] requirePartnerRouting(r) /\ i # 0 ->
                IF ~IsParty(xdb.neg[i], XReq[r].from) THEN Reply(r, "403")
                ELSE IF ~xdb.neg[i].open THEN Reply(r, "204")
                ELSE Go(r, [P0 EXCEPT !.pc = "close", !.nid = XReq[r].id])
  /\ Silent
\* Also the end of our own users' DELETE: there a failed write is only logged.
CloseDeleted(r) ==
  /\ At(r, "close") /\ Op(r) \in {"delete", "deleteOut"}
  /\ \/ xdb' = MarkClosed(xdb, xat[r].nid) /\ Closing(xat[r].nid) /\ Reply(r, "204") /\ XNoFail /\ Same(<<>>)
     \/ XFail("db") /\ Reply(r, IF Op(r) = "delete" THEN "500" ELSE "204") /\ Same(<<xdb, xghost>>)
AcceptRefusal(i, sender) ==
  CASE i = 0 -> "404"
    [] i # 0 -> LET n == xdb.neg[i]
                IN  IF ~IsParty(n, sender) THEN "403"
                    ELSE IF ClosedOrPast(n) \/ n.by = sender THEN "409" ELSE ""
\* The checks of AcceptNegotiation, then the transaction of the coordinator.
StartAccept(r, i, sender) ==
  LET no == AcceptRefusal(i, sender)
  IN  IF no # "" THEN Reply(r, no) /\ UNCHANGED xghost
      ELSE /\ Go(r, [P0 EXCEPT !.pc = "prepare", !.n = xdb.neg[i], !.nid = i,
                               !.ps = AcceptPostings(xdb, xdb.neg[i], Us, i)])
           /\ xghost' = [xghost EXCEPT !.twice = IF InFlight(i) = {} THEN @ ELSE @ \cup {i}]
AcceptNegotiation(r) ==
  /\ Begins(r, "accept")
  /\ IF requirePartnerRouting(r) THEN StartAccept(r, FindByAuthoritativeRef(xdb, XReq[r].id), XReq[r].from)
     ELSE Reply(r, "401") /\ UNCHANGED xghost
  /\ Same(<<xdb, xfaults>>)
--------------------------------------------------------------------------
(* Requests of our own users (api/otc_outbound.go, api/otc_contracts.go).   *)

CreateOutbound(r) ==
  /\ Begins(r, "createOut")
  /\ LET q == XReq[r]
     IN  IF q.offer.buyer.u = 0 \/ q.offer.seller.r = Us \/ OfferInvalid(q.offer) THEN Reply(r, "400")
         ELSE Go(r, [P0 EXCEPT !.pc = "askCreate"])
  /\ Silent
OutboundCreateNegotiation(r) ==
  /\ At(r, "askCreate")
  /\ \/ Go(r, [P0 EXCEPT !.pc = "mirror"])
     \/ Reply(r, "500")
  /\ Silent
InsertMirror(r) ==
  /\ At(r, "mirror")
  /\ \/ Inserted(NewNegotiation(XReq[r].offer, FALSE, XReq[r].rid, Us)) /\ Reply(r, "200") /\ XNoFail /\ Same(<<>>)
     \/ XFail("db") /\ Reply(r, "500") /\ Same(<<xdb, xghost>>)
ListForUser(r) ==
  /\ Begins(r, "list")
  /\ IF XReq[r].user = 0 /\ ~XReq[r].admin THEN Reply(r, "400")
     ELSE Show(r, ListNegForUser(xdb, XReq[r].user, XReq[r].admin))
  /\ Silent
GetOne(r) ==
  /\ Begins(r, "getOne")
  /\ LET i == findByLocalOrRemote(xdb, XReq[r].id) IN IF i = 0 THEN Reply(r, "404") ELSE Show(r, {i})
  /\ Silent
CounterOutbound(r) ==
  /\ Begins(r, "counterOut")
  /\ LET q == XReq[r]
         i == findByLocalOrRemote(xdb, q.id)
         no == IF i = 0 THEN "404" ELSE CounterRefusal(xdb.neg[i], q.offer, Us, Us)
     IN  IF q.user = 0 THEN Reply(r, "400")
         ELSE IF no # "" THEN Reply(r, no)
         ELSE Go(r, [P0 EXCEPT !.pc = IF xdb.neg[i].auth THEN "recounter" ELSE "askCounter",
                               !.n = Terms(xdb.neg[i], q.offer, Us), !.nid = i])
  /\ Silent
\* On our own negotiation the checks are made again on a fresh read.
CounterAuthoritative(r) == At(r, "recounter") /\ ReadForCounter(r, xat[r].nid, Us, Us) /\ Silent
OutboundPutCounter(r) ==
  /\ At(r, "askCounter")
  /\ \/ Go(r, [xat[r] EXCEPT !.pc = "writeMirror"])
     \/ \E code \in {"404", "409", "500"} : Reply(r, code)
  /\ Silent
\* The partner has the counter-offer: a mirror that cannot follow is only logged.
WriteMirror(r) ==
  /\ At(r, "writeMirror")
  /\ LET w == UpdateCounterRow(xdb, xat[r].nid, xat[r].n)
     IN  /\ xdb' = w[2]
         /\ IF w[1] THEN Turned(xat[r].nid, Us) ELSE UNCHANGED xghost
  /\ Reply(r, "204") /\ XNoFail /\ Same(<<>>)
AcceptOutbound(r) ==
  /\ Begins(r, "acceptOut")
  /\ LET i == findByLocalOrRemote(xdb, XReq[r].id)
     IN  IF i = 0 THEN Reply(r, "404")
         ELSE IF ClosedOrPast(xdb.neg[i]) \/ xdb.neg[i].by = Us THEN Reply(r, "409")
         ELSE IF ~xdb.neg[i].auth /\ xdb.neg[i].buyer.r # Us THEN Reply(r, "400")
         ELSE Go(r, [P0 EXCEPT !.pc = IF xdb.neg[i].auth THEN "reaccept" ELSE "askAccept", !.nid = i])
  /\ Silent
AcceptAuthoritative(r) ==
  At(r, "reaccept") /\ StartAccept(r, FindByAuthoritativeRef(xdb, xat[r].nid), Us) /\ Same(<<xdb, xfaults>>)
\* The partner coordinates; it reports success once we have voted for it.
OutboundAccept(r) ==
  /\ At(r, "askAccept")
  /\ \/ /\ \E t \in DOMAIN xdb.tx : \E i \in DOMAIN xdb.tx[t].ps : xdb.tx[t].ps[i].opt.neg = xdb.neg[xat[r].nid].rid
        /\ Go(r, [xat[r] EXCEPT !.pc = "closeMirror"])
     \/ \E code \in {"404", "409", "500"} : Reply(r, code)
  /\ Silent
CloseMirror(r) ==
  /\ At(r, "closeMirror")
  /\ \/ xdb' = MarkClosed(xdb, xat[r].nid) /\ Closing(xat[r].nid) /\ XNoFail
     \/ XFail("db") /\ UNCHANGED <<xdb, xghost>>
  /\ Reply(r, "204") /\ Same(<<>>)
DeleteOutbound(r) ==
  /\ Begins(r, "deleteOut")
  /\ LET i == findByLocalOrRemote(xdb, XReq[r].id)
     IN  IF i = 0 THEN Reply(r, "204") ELSE Go(r, [P0 EXCEPT !.pc = "askDelete", !.n = xdb.neg[i], !.nid = i])
  /\ Silent
OutboundDelete(r) ==
  /\ At(r, "askDelete")
  /\ \/ xat[r].n.open /\ Go(r, [P0 EXCEPT !.pc = "close", !.nid = xat[r].nid])
     \/ ~xat[r].n.open /\ Reply(r, "204")
     \/ Reply(r, "500")
  /\ Silent
GetPublicStocks(r) ==
  /\ Begins(r, "publicStock")
  /\ \/ Show(r, PublicStocks(xdb)) /\ Silent
     \/ XFail("db") /\ Reply(r, "500") /\ Same(<<xdb, xghost>>)
\* The partner's list, or none when it cannot be had or the bank is ours.
FetchPartnerPublicStock(r) ==
  /\ Begins(r, "partnerStock")
  /\ \/ Show(r, {})
     \/ XReq[r].bank # Us /\ Show(r, {[seller |-> Party(XReq[r].bank, 1), amount |-> 1]})
  /\ Silent
ListContracts(r) ==
  /\ Begins(r, "contracts")
  /\ IF XReq[r].user = 0 /\ ~XReq[r].admin THEN Reply(r, "403")
     ELSE Show(r, ListConForUser(xdb, XReq[r].user, XReq[r].admin))
  /\ Silent
Exercise(r) ==
  /\ Begins(r, "exercise")
  /\ LET q == XReq[r]
         i == FindConByID(xdb, q.id)
     IN  IF i = 0 THEN Reply(r, "404")
         ELSE LET c == xdb.con[i]
              IN  IF (~q.admin /\ (q.user = 0 \/ c.buyer.u # q.user)) \/ c.buyer.r # Us THEN Reply(r, "403")
                  ELSE IF c.st # "ACTIVE" \/ c.settle < xnow THEN Reply(r, "409")
                  ELSE Go(r, [P0 EXCEPT !.pc = "claimEntry", !.c = c, !.nid = i])
  /\ Silent
\* The one place where two exercises of a contract are put in order.
ClaimEntry(r) ==
  /\ At(r, "claimEntry")
  /\ LET w == ClaimExerciseByID(xdb, xat[r].nid)
         c == xat[r].c
     IN  /\ xdb' = w[2]
         /\ IF ~w[1] THEN Reply(r, "409")
            ELSE Go(r, [xat[r] EXCEPT !.pc = "strike", !.ps = ExercisePostings(c, SellerNegotiationID(xdb, c.neg))])
  /\ Same(<<xghost, xfaults>>)
\* The strike is set aside off the wire, before the transaction.
reserveBuyerStrike(r) ==
  /\ At(r, "strike")
  /\ LET c == xat[r].c
         a == c.strike * c.amount
     IN  IF c.buyer.u \in DOMAIN xdb.money /\ xdb.money[c.buyer.u] >= a
         THEN /\ xdb' = ReserveMonas(xdb, c.buyer.u, a)
              /\ Go(r, [xat[r] EXCEPT !.pc = "prepare", !.strike = Len(xdb.held) + 1])
         ELSE Go(r, [xat[r] EXCEPT !.pc = "abort"]) /\ UNCHANGED xdb
  /\ Same(<<xghost, xfaults>>)
--------------------------------------------------------------------------
(* The transaction: of an accept or an exercise that we coordinate, or of   *)
(* the partner, which asks us to prepare and then tells us the outcome.     *)

RefusedAs(r) ==
  CASE Op(r) = "accept" -> "502"
    [] Op(r) = "acceptOut" -> "500"
    [] Op(r) \in {"newTx", "commitTx", "rollbackTx"} -> "500"
\* An exercise gives back the strike and the claim before it answers.
Fail(r) == IF Op(r) = "exercise" THEN Go(r, [xat[r] EXCEPT !.pc = "abort"]) ELSE Reply(r, RefusedAs(r))
\* External: the partner exercises only an option whose accept it was told of.
NewTxArrives(r) ==
  /\ Begins(r, "newTx")
  /\ LET id == exerciseNegotiationIDFromPostings(XReq[r].ps)
     IN  \/ id = 0
         \/ \E c \in DOMAIN xenv.con : xenv.con[c].neg = id
         \/ \E q \in XReqs : Op(q) \in {"accept", "acceptOut"} /\ XReq[q].id = id /\ xat[q].out = "204"
  /\ Go(r, [P0 EXCEPT !.pc = "prepare", !.ps = XReq[r].ps])
  /\ Silent
PrepareLocal(r) ==
  /\ At(r, "prepare")
  /\ IF VotesYes(xdb, xat[r].ps, xnow) THEN Go(r, [xat[r] EXCEPT !.pc = "reserve", !.k = 1])
     ELSE IF Op(r) = "newTx" THEN Reply(r, "NO") ELSE Fail(r)
  /\ Silent
\* A failure gives back what was reserved, last first, a call each.
GiveBack(r) == IF xat[r].refs = <<>> THEN Fail(r) ELSE Go(r, [xat[r] EXCEPT !.pc = "compensate"])
\* One posting at a time.  The shares of a person are never reserved by a
\* posting (RefKindStock): validatePersonAccount has refused such a posting.
ReservePostings(r) ==
  /\ At(r, "reserve")
  /\ LET p == xat[r]
         ours == OursOf(p.ps)
     IN  /\ p.k <= Len(ours)
         /\ LET w == PreparePosting(xdb, ours[p.k], isExerciseTx(ours))
            IN  \/ /\ w[1]
                   /\ xdb' = w[3]
                   /\ Go(r, [p EXCEPT !.k = @ + 1, !.refs = @ \o w[2]])
                   /\ Same(<<xghost, xfaults>>)
                \/ ~w[1] /\ GiveBack(r) /\ Silent
                \/ XFail("reserve") /\ GiveBack(r) /\ Same(<<xdb, xghost>>)
Persist(r) ==
  /\ At(r, "reserve") /\ xat[r].k > Len(OursOf(xat[r].ps))
  /\ \/ /\ xdb' = PersistPrepared(xdb, TxId(r), xat[r].ps, xat[r].refs)
        /\ IF Op(r) = "newTx" THEN Reply(r, "YES") ELSE Go(r, [xat[r] EXCEPT !.pc = "vote", !.refs = <<>>])
        /\ Same(<<xghost, xfaults>>)
     \/ XFail("db") /\ GiveBack(r) /\ Same(<<xdb, xghost>>)
\* A release that fails is logged and passed over.  A rollback writes the
\* status once everything was given back.
compensate(r) ==
  /\ xat[r].pc \in {"compensate", "undo"} /\ xat[r].refs # <<>>
  /\ LET p == xat[r]
         rest == Front(p.refs)
     IN  /\ \/ xdb' = releaseRef(xdb, Last(p.refs)) /\ XNoFail
            \/ XFail("settle") /\ UNCHANGED xdb
         /\ IF rest = <<>> /\ p.pc = "compensate" THEN Fail(r) ELSE Go(r, [p EXCEPT !.refs = rest])
  /\ Same(xghost)
SendNewTx(r) ==
  /\ At(r, "vote")
  /\ \E pc \in {"commit", "rollback"} : Go(r, [xat[r] EXCEPT !.pc = pc])
  /\ Silent
\* RollbackLocal: the row is read; anything but a PREPARED one is left alone.
Undone(r) == IF Op(r) = "rollbackTx" THEN Reply(r, "204") ELSE Fail(r)
RollbackLocal(r) ==
  LET t == FindTx(xdb, TxId(r))
  IN  \/ /\ IF t # 0 /\ xdb.tx[t].st = "PREPARED"
            THEN Go(r, [xat[r] EXCEPT !.pc = "undo", !.refs = xdb.tx[t].refs]) ELSE Undone(r)
         /\ Silent
      \/ XFail("db") /\ Fail(r) /\ Same(<<xdb, xghost>>)
MarkRolledBack(r) ==
  /\ At(r, "undo") /\ xat[r].refs = <<>>
  /\ \/ xdb' = UpdateTxStatus(xdb, FindTx(xdb, TxId(r)), "ROLLED_BACK") /\ Undone(r) /\ XNoFail
     \/ XFail("db") /\ Fail(r) /\ UNCHANGED xdb
  /\ Same(xghost)
safeRollbackLocal(r) == At(r, "rollback") /\ RollbackLocal(r)
\* External: the partner commits what we voted for, and may roll back what it
\* has sent, even before our answer reaches it.
PartnerDecides(r, when) == \E q \in XReqs : Op(q) = "newTx" /\ XReq[q].tx = XReq[r].tx /\ when[q]
CommitTxArrives(r) ==
  /\ Begins(r, "commitTx")
  /\ PartnerDecides(r, [q \in XReqs |-> xat[q].out = "YES"])
  /\ ~PartnerDecides(r, [q \in XReqs |-> \E b \in XReqs : Op(b) = "rollbackTx" /\ XReq[b].tx = XReq[r].tx /\ ~At(b, "start")])
  /\ Go(r, [P0 EXCEPT !.pc = "commit"]) /\ Silent
RollbackTxArrives(r) ==
  /\ Begins(r, "rollbackTx")
  /\ PartnerDecides(r, [q \in XReqs |-> ~At(q, "start")])
  /\ ~PartnerDecides(r, [q \in XReqs |-> \E b \in XReqs : Op(b) = "commitTx" /\ XReq[b].tx = XReq[r].tx /\ ~At(b, "start")])
  /\ RollbackLocal(r)
Committed(r) ==
  CASE Op(r) \in {"accept", "acceptOut"} -> Go(r, [xat[r] EXCEPT !.pc = "close"])
    [] Op(r) = "exercise" -> Go(r, [xat[r] EXCEPT !.pc = "payStrike"])
    [] Op(r) = "commitTx" -> Go(r, [P0 EXCEPT !.pc = "record"])
CommitLocal(r) ==
  /\ At(r, "commit")
  /\ LET t == FindTx(xdb, TxId(r))
         st == IF t = 0 THEN "COMMITTED" ELSE xdb.tx[t].st
     IN  CASE st = "COMMITTED" -> Committed(r)
           [] st \in {"ROLLED_BACK", "FAILED"} -> Fail(r)
           [] st = "PREPARED" ->
                Go(r, [xat[r] EXCEPT !.pc = IF exerciseNegotiationIDFromPostings(xdb.tx[t].ps) = 0 THEN "settle" ELSE "claim",
                                     !.refs = xdb.tx[t].refs, !.k = 1])
  /\ Silent
\* A contract is settled by the transaction that claims it; another one skips.
ClaimExercise(r) ==
  /\ At(r, "claim")
  /\ LET t == FindTx(xdb, TxId(r))
         id == exerciseNegotiationIDFromPostings(xdb.tx[t].ps)
         w == ClaimExerciseByNegotiation(xdb, id)
     IN  \/ /\ xdb' = w[3]
            /\ Go(r, [xat[r] EXCEPT !.pc = "settle", !.skip = w[1] /\ ~w[2], !.claim = IF w[2] THEN id ELSE 0])
            /\ Same(<<xghost, xfaults>>)
         \/ XFail("db") /\ xdb' = UpdateTxStatus(xdb, t, "FAILED") /\ Fail(r) /\ Same(xghost)
\* Settlement of one reference.  A call that fails may have taken effect; the
\* claim is given back and the transaction is FAILED for good.
SettleRef(r) ==
  /\ At(r, "settle") /\ xat[r].k <= Len(xat[r].refs)
  /\ LET ref == xat[r].refs[xat[r].k]
         t == FindTx(xdb, TxId(r))
         giveUp(d) == UpdateTxStatus(IF xat[r].claim = 0 THEN d ELSE ReleaseExerciseClaimByNegotiation(d, xat[r].claim), t, "FAILED")
     IN  \/ /\ xdb' = IF xat[r].skip /\ isExerciseSettlementRef(ref) THEN xdb ELSE commitRef(xdb, ref)
            /\ Go(r, [xat[r] EXCEPT !.k = @ + 1])
            /\ Same(<<xghost, xfaults>>)
         \/ /\ ~(xat[r].skip /\ isExerciseSettlementRef(ref))
            /\ XFail("settle")
            /\ \/ xdb' = giveUp(xdb)
               \/ xdb' = giveUp(commitRef(xdb, ref))
            /\ Fail(r) /\ Same(xghost)
FinishCommit(r) ==
  /\ At(r, "settle") /\ xat[r].k > Len(xat[r].refs)
  /\ \/ xdb' = UpdateTxStatus(xdb, FindTx(xdb, TxId(r)), "COMMITTED") /\ Committed(r) /\ Same(<<xghost, xfaults>>)
     \/ XFail("db") /\ Fail(r) /\ Same(<<xdb, xghost>>)
\* After the commit of an accept: failures are logged and passed over.
CloseAccepted(r) ==
  /\ At(r, "close") /\ Op(r) \in {"accept", "acceptOut"}
  /\ \/ xdb' = MarkClosed(xdb, xat[r].nid) /\ Closing(xat[r].nid) /\ XNoFail
     \/ XFail("db") /\ UNCHANGED <<xdb, xghost>>
  /\ Go(r, [xat[r] EXCEPT !.pc = "contract"]) /\ Same(<<>>)
ContractOf(n, nid) ==
  [neg |-> nid, buyer |-> n.buyer, seller |-> n.seller, amount |-> n.amount, strike |-> n.price, settle |-> n.settle,
   st |-> "ACTIVE"]
InsertAccepted(r) ==
  /\ At(r, "contract")
  /\ \/ xdb' = InsertContract(xdb, ContractOf(xat[r].n, xat[r].nid)) /\ XNoFail
     \/ XFail("db") /\ UNCHANGED xdb
  /\ Reply(r, "204") /\ Same(xghost)
commitBuyerStrike(r) ==
  /\ At(r, "payStrike")
  /\ \/ xdb' = CommitMonas(xdb, xat[r].strike) /\ XNoFail
     \/ XFail("settle") /\ UNCHANGED xdb
  /\ Go(r, [xat[r] EXCEPT !.pc = "flip"]) /\ Same(xghost)
FlipExercised(r) ==
  /\ At(r, "flip")
  /\ \/ xdb' = UpdateStatus(xdb, xat[r].nid, "EXERCISED") /\ XNoFail
     \/ XFail("db") /\ UNCHANGED xdb
  /\ Reply(r, "200") /\ Same(xghost)
releaseBuyerStrike(r) ==
  /\ At(r, "abort")
  /\ \/ xdb' = (IF xat[r].strike = 0 THEN xdb ELSE ReleaseMonas(xdb, xat[r].strike)) /\ XNoFail
     \/ xat[r].strike # 0 /\ XFail("settle") /\ UNCHANGED xdb
  /\ Go(r, [xat[r] EXCEPT !.pc = "revert"]) /\ Same(xghost)
RevertClaim(r) ==
  /\ At(r, "revert")
  /\ \/ xdb' = RevertExercising(xdb, xat[r].nid) /\ XNoFail
     \/ XFail("db") /\ UNCHANGED xdb
  /\ Reply(r, "409") /\ Same(xghost)
--------------------------------------------------------------------------
(* After an inbound commit: our seller's contract is exercised, or our      *)
(* buyer's contract is recorded.                                            *)

exerciseNegotiationID(ps) ==
  LET legs == {i \in DOMAIN ps : ps[i].acc = "OPTION" /\ ps[i].asset = "STOCK" /\ isOurs(ps[i])}
  IN  IF legs = {} THEN 0 ELSE ps[FirstOf(legs)].own.u
findBuyerOptionReceipt(ps) ==
  FirstOf({i \in DOMAIN ps : ps[i].asset = "OPTION" /\ ps[i].acc = "PERSON" /\ isOurs(ps[i]) /\ ps[i].amt > 0})
sellerRoutingFrom(ps) ==
  LET legs == {i \in DOMAIN ps : ps[i].acc = "OPTION"} IN IF legs = {} THEN 0 ELSE ps[FirstOf(legs)].own.r
resolveLocalNegotiation(d, id) ==
  IF FindByAuthoritativeRef(d, id) # 0 THEN FindByAuthoritativeRef(d, id) ELSE FindNegByID(d, id)
markSellerContractExercised(d, id) ==
  LET c == FindByNegotiationID(d, id) IN IF c = 0 THEN d ELSE UpdateStatus(d, c, "EXERCISED")
\* The option's terms travel in its description; the day is the mirror's.
BuyerContract(d, ps, i, nid) ==
  [neg |-> nid, buyer |-> ps[i].own, seller |-> Party(sellerRoutingFrom(ps), d.neg[nid].seller.u), amount |-> ps[i].opt.k,
   strike |-> ps[i].opt.price, settle |-> d.neg[nid].settle, st |-> "ACTIVE"]
RecordOnCommit(r) ==
  /\ At(r, "record")
  /\ LET t == FindTx(xdb, XReq[r].tx)
         ps == xdb.tx[t].ps
         id == exerciseNegotiationID(ps)
         i == findBuyerOptionReceipt(ps)
         nid == resolveLocalNegotiation(xdb, ps[i].opt.neg)
     IN  CASE id # 0 -> /\ \/ xdb' = markSellerContractExercised(xdb, id) /\ XNoFail
                           \/ XFail("db") /\ UNCHANGED xdb
                        /\ Reply(r, "204") /\ UNCHANGED xghost
           [] id = 0 /\ i = 0 -> Reply(r, "204") /\ UNCHANGED <<xdb, xghost, xfaults>>
           [] id = 0 /\ i # 0 ->
                /\ IF nid = 0 \/ (nid # 0 /\ FindByNegotiationID(xdb, nid) # 0) THEN Reply(r, "204")
                   ELSE Go(r, [xat[r] EXCEPT !.pc = "receipt", !.c = BuyerContract(xdb, ps, i, nid)])
                /\ xghost' = [xghost EXCEPT !.orphans = IF nid = 0 THEN @ \cup {ps[i].opt.neg} ELSE @]
                /\ UNCHANGED <<xdb, xfaults>>
  /\ Same(<<>>)
InsertReceipt(r) ==
  /\ At(r, "receipt")
  /\ \/ xdb' = InsertContract(xdb, xat[r].c) /\ XNoFail
     \/ XFail("db") /\ UNCHANGED xdb
  /\ Reply(r, "204") /\ Same(xghost)
--------------------------------------------------------------------------
\* The service stops: requests in progress are gone, the tables stay.
CrossCrash ==
  /\ \E r \in XReqs : xat[r].pc \notin {"start", "done"}
  /\ XFail("crash")
  /\ xat' = [r \in XReqs |-> IF xat[r].pc \in {"start", "done"} THEN xat[r] ELSE [P0 EXCEPT !.pc = "done", !.out = "crash"]]
  /\ Same(<<xdb, xghost>>)
CrossTick == XMay("clock") /\ xnow < LastDay /\ xnow' = xnow + 1 /\ UNCHANGED <<xenv, xdb, xat, xghost, xfaults>>
CrossInit ==
  /\ xenv \in CrossScenarios
  /\ LET sold == SelectSeq(xenv.con, LAMBDA c : c.seller.r = Us)
     IN  xdb = [neg |-> xenv.neg, con |-> xenv.con, tx |-> <<>>, money |-> Money0, held |-> <<>>, port |-> Shares0,
                sres |-> [i \in DOMAIN sold |-> [user |-> sold[i].seller.u, qty |-> sold[i].amount, st |-> "COMMITTED"]],
                ores |-> [i \in DOMAIN sold |-> [neg |-> sold[i].neg, sres |-> i, st |-> "EXERCISED"]]]
  /\ xnow = 1
  /\ xat = [r \in XReqs |-> P0]
  /\ xghost = [turns |-> [i \in DOMAIN xenv.neg |-> <<xenv.neg[i].by>> \o (IF xenv.neg[i].open THEN <<>> ELSE <<0>>)],
               twice |-> {}, moved |-> {}, orphans |-> {}]
  /\ xfaults = 0
CrossStep(r) ==
  \/ CreateNegotiation(r) \/ GetNegotiation(r) \/ UpdateCounter(r) \/ WriteCounter(r) \/ Delete(r) \/ CloseDeleted(r)
  \/ AcceptNegotiation(r) \/ CreateOutbound(r) \/ OutboundCreateNegotiation(r) \/ InsertMirror(r) \/ ListForUser(r)
  \/ GetOne(r) \/ CounterOutbound(r) \/ CounterAuthoritative(r) \/ OutboundPutCounter(r) \/ WriteMirror(r)
  \/ AcceptOutbound(r) \/ AcceptAuthoritative(r) \/ OutboundAccept(r) \/ CloseMirror(r) \/ DeleteOutbound(r)
  \/ OutboundDelete(r) \/ GetPublicStocks(r) \/ FetchPartnerPublicStock(r) \/ ListContracts(r) \/ Exercise(r)
  \/ ClaimEntry(r) \/ reserveBuyerStrike(r) \/ NewTxArrives(r) \/ PrepareLocal(r) \/ ReservePostings(r) \/ Persist(r)
  \/ compensate(r) \/ MarkRolledBack(r) \/ SendNewTx(r) \/ safeRollbackLocal(r) \/ CommitTxArrives(r) \/ RollbackTxArrives(r) \/ CommitLocal(r)
  \/ ClaimExercise(r) \/ SettleRef(r) \/ FinishCommit(r) \/ CloseAccepted(r) \/ InsertAccepted(r)
  \/ commitBuyerStrike(r) \/ FlipExercised(r) \/ releaseBuyerStrike(r) \/ RevertClaim(r) \/ RecordOnCommit(r)
  \/ InsertReceipt(r)
CrossNext == (\E r \in XReqs : CrossStep(r)) \/ CrossCrash \/ CrossTick
CrossSpec == CrossInit /\ [][CrossNext]_xvars
--------------------------------------------------------------------------
AtRest == \A r \in XReqs : xat[r].pc \in {"start", "done"}
Calm == AtRest /\ xfaults = 0
Of(S, f(_)) == XSum(S, [x \in S |-> f(x)])
CommittedTxs == {t \in DOMAIN xdb.tx : xdb.tx[t].st = "COMMITTED"}
OptionLegs(t) == {i \in DOMAIN xdb.tx[t].ps : xdb.tx[t].ps[i].asset = "OPTION"}
Accepts == {t \in CommittedTxs : OptionLegs(t) # {}}
OptionOf(t) == xdb.tx[t].ps[FirstOf(OptionLegs(t))].opt.neg
Paid(t, u) ==
  Of({i \in DOMAIN xdb.tx[t].ps : LET p == xdb.tx[t].ps[i] IN p.asset = "MONAS" /\ p.own = Party(Us, u)},
     LAMBDA i : xdb.tx[t].ps[i].amt)
ExercisedBy(p(_), u) == {c \in DOMAIN xdb.con : xdb.con[c].st = "EXERCISED" /\ p(xdb.con[c]) = Party(Us, u)}
Buyer(c) == c.buyer
Seller(c) == c.seller
Strike(c) == xdb.con[c].strike * xdb.con[c].amount
Sold0 == {c \in DOMAIN xenv.con : xenv.con[c].seller.r = Us}

\* Types of the tables and of the requests.
CrossTypeOK ==
  /\ \A u \in DOMAIN xdb.money : xdb.money[u] \in Nat
  /\ \A u \in DOMAIN xdb.port : xdb.port[u].res \in 0 .. xdb.port[u].qty
  /\ \A c \in DOMAIN xdb.con : xdb.con[c].st \in {"ACTIVE", "EXERCISING", "EXERCISED"} /\ xdb.con[c].neg \in DOMAIN xdb.neg
  /\ \A t \in DOMAIN xdb.tx : xdb.tx[t].st \in {"PREPARED", "COMMITTED", "ROLLED_BACK", "FAILED"}
  /\ \A h \in DOMAIN xdb.held : xdb.held[h].st \in {"HELD", "COMMITTED", "RELEASED"}
  /\ Len(xghost.turns) = Len(xdb.neg)
  /\ xfaults \in 0 .. xenv.budget /\ xnow \in 1 .. LastDay

\* The books of cross-bank options, whatever the order of the two banks'
\* messages.  Shares are reserved exactly for the options that are reserved.
\* When no request is in progress and no call has failed: a client's money is
\* what he started with, less what is held, plus the payments and premiums of
\* the committed transactions and one strike an exercised contract; his shares have left once a
\* reservation committed, at most one an option, and arrived once a contract exercised; money is held only for a
\* transaction still prepared; no contract is left half-way; a negotiation of ours was
\* accepted once and its contract has its terms, unless two accepts, or an
\* accept and a counter-offer, were in progress at once.
CrossBooks ==
  /\ \A u \in DOMAIN xdb.port :
       xdb.port[u].res = Of({s \in DOMAIN xdb.sres : xdb.sres[s].user = u /\ xdb.sres[s].st = "HELD"}, LAMBDA s : xdb.sres[s].qty)
  /\ \A s \in DOMAIN xdb.sres :
       xdb.sres[s].st = "HELD" <=> \E o \in DOMAIN xdb.ores : xdb.ores[o].sres = s /\ xdb.ores[o].st = "RESERVED"
  /\ Calm =>
       /\ \A u \in DOMAIN xdb.money :
            xdb.money[u] = Money0[u]
              - Of({h \in DOMAIN xdb.held : xdb.held[h].user = u /\ xdb.held[h].st = "HELD"}, LAMBDA h : xdb.held[h].amt)
              + Of({t \in CommittedTxs : exerciseNegotiationIDFromPostings(xdb.tx[t].ps) = 0}, LAMBDA t : Paid(t, u))
              + Of(ExercisedBy(Seller, u), Strike) - Of(ExercisedBy(Buyer, u), Strike)
       /\ \A u \in DOMAIN xdb.port :
            xdb.port[u].qty = (IF u \in DOMAIN Shares0 THEN Shares0[u].qty ELSE 0)
              - Of({s \in DOMAIN xdb.sres : s > Cardinality(Sold0) /\ xdb.sres[s].user = u /\ xdb.sres[s].st = "COMMITTED"},
                   LAMBDA s : xdb.sres[s].qty)
              + Of(ExercisedBy(Buyer, u), LAMBDA c : xdb.con[c].amount)
       /\ \A o1, o2 \in DOMAIN xdb.ores : xdb.ores[o1].neg = xdb.ores[o2].neg => o1 = o2
       /\ \A h \in DOMAIN xdb.held : xdb.held[h].st = "HELD" =>
            \E t \in DOMAIN xdb.tx : xdb.tx[t].st = "PREPARED" /\ Ref("MONAS", xdb.held[h].user, xdb.held[h].amt, h) \in
                                       {xdb.tx[t].refs[i] : i \in DOMAIN xdb.tx[t].refs}
       /\ \A c \in DOMAIN xdb.con : xdb.con[c].st # "EXERCISING"
       /\ \A t1, t2 \in Accepts :
            OptionOf(t1) = OptionOf(t2) => t1 = t2 \/ OptionOf(t1) \in xghost.twice \/ OptionOf(t1) \notin DOMAIN xdb.neg
       /\ \A t \in Accepts : OptionOf(t) \in xghost.orphans \/ ConOfOption(xdb, OptionOf(t)) # 0
       /\ \A c \in DOMAIN xdb.con :
            LET n == xdb.neg[xdb.con[c].neg]
            IN  n.auth /\ xdb.con[c].neg \notin xghost.moved =>
                  [xdb.con[c] EXCEPT !.st = "ACTIVE"] = ContractOf(n, xdb.con[c].neg) /\ ~n.open

\* The shares of an option our client sold stay with him, reserved, for as long
\* as its contract can be exercised: the accept reserves them and the delivery
\* leg of the exercise commits that reservation (RefKindOptionExercise).
SharesHeldUntilExercise ==
  \A c \in DOMAIN xdb.con : xdb.con[c].seller.r = Us /\ xdb.con[c].st \in {"ACTIVE", "EXERCISING"} =>
    LET o == FindOptionReservation(xdb, xdb.con[c].neg) IN o # 0 /\ xdb.ores[o].st = "RESERVED"

\* A negotiation is countered by the two banks in turn, whichever of them
\* holds it and however their requests overlap, and is never changed once it
\* is closed; a client is shown only negotiations with a party of his number.
CrossTurns ==
  /\ \A i \in DOMAIN xghost.turns : \A j \in 2 .. Len(xghost.turns[i]) :
       xghost.turns[i][j - 1] # 0 /\ xghost.turns[i][j] # xghost.turns[i][j - 1]
  /\ \A i \in DOMAIN xdb.neg : xghost.turns[i][Len(xghost.turns[i])] = (IF xdb.neg[i].open THEN xdb.neg[i].by ELSE 0)
  /\ \A r \in XReqs : Op(r) = "list" /\ ~XReq[r].admin =>
       \A i \in xat[r].view : XReq[r].user \in {xdb.neg[i].buyer.u, xdb.neg[i].seller.u}

=============================================================================
