---------------------------- MODULE BankProducts ----------------------------
(***************************************************************************)
(* The products of banking-core beside payments: cards, margin accounts,   *)
(* external transfers with their retry job and circuit breaker, and the    *)
(* erasure of a client's data (banking-core-service-go/internal).          *)
(*                                                                         *)
(* A request is a process whose steps are the statements that commit on    *)
(* their own.  Margin operations run in one transaction under the row lock *)
(* of the margin account and are one step.  Amounts are whole units, a     *)
(* participation is in tenths.                                             *)
(***************************************************************************)
EXTENDS Integers, Sequences, FiniteSets, FiniteSetsExt, SequencesExt

CONSTANTS
  Accounts0p,        \* accounts at the start: the bank's, the exchange's, clients'
  Transfers0,        \* external transfers at the start
  RetryMaxAttempts,
  FailureThreshold, SuccessThreshold,   \* of the circuit breaker
  ProductScenarios   \* [what: the requests, may, budget]

VARIABLES
  penv,      \* the scenario
  pacc,      \* accounts: owner, type, del, bal
  cards, persons,
  margin, mlog,
  ext, rlog, lock, breaker, mq,
  settled,   \* transfers the clearing house carried out (external)
  gdprlog,
  pat, pghost, pfaults

cardVars == <<cards, persons>>
marginVars == <<margin, mlog>>
extVars == <<ext, rlog, lock, breaker, mq, settled>>
pvars == <<penv, pacc, cards, persons, margin, mlog, ext, rlog, lock, breaker, mq, settled,
           gdprlog, pat, pghost, pfaults>>

Ask == penv.what
Asked == DOMAIN Ask
BankAcc == 1
ExchangeAcc == 2
None == 0

PMay(f) == f \in penv.may
PFail(f) == PMay(f) /\ pfaults < penv.budget /\ pfaults' = pfaults + 1

ProductInit ==
  /\ penv \in ProductScenarios
  /\ pacc = Accounts0p
  /\ cards = <<>> /\ persons = <<>>
  /\ margin = <<>> /\ mlog = <<>>
  /\ ext = Transfers0 /\ rlog = {} /\ mq = <<>> /\ settled = {}
  /\ lock = [by |-> None, live |-> FALSE]
  /\ breaker = [st |-> "CLOSED", fails |-> 0, succ |-> 0, cool |-> FALSE]
  /\ gdprlog = {}
  /\ pat = [r \in Asked |-> [pc |-> "start"]]
  /\ pghost = [overlap |-> {}, odd |-> {}, dead |-> {}, by |-> {}, twoJobs |-> FALSE]
  /\ pfaults = 0

PGoto(r, s) == pat' = [pat EXCEPT ![r] = s]
PFini(r) == PGoto(r, [pc |-> "done"])
PIs(r, kinds, pc) == Ask[r].kind \in kinds /\ pat[r].pc = pc
--------------------------------------------------------------------------
\* Who may call what: the routes' roles and the role hierarchy.
roleImplies == [ADMIN |-> {"SUPERVISOR"}, SUPERVISOR |-> {"AGENT"}, AGENT |-> {"BASIC"},
                CLIENT_TRADING |-> {"CLIENT_BASIC"}, BASIC |-> {}, CLIENT_BASIC |-> {}, SERVICE |-> {}]
Implied(S) == S \cup UNION {roleImplies[x] : x \in S}
expandRole(role) == Implied(Implied(Implied({role})))
hasAnyRoleHierarchical(held, allowed) == expandRole(held) \cap allowed # {}

\* Routes the table does not name need only a valid principal.
routeAuth(kind) ==
  CASE kind = "auto" -> {"SERVICE", "ADMIN"}
    [] kind \in {"personal", "business"} -> {"CLIENT_BASIC", "ADMIN"}
    [] kind \in {"UNBLOCK", "DEACTIVATE"} -> {"BASIC"}
    [] kind \in {"BLOCK", "limit"} -> {"CLIENT_BASIC", "BASIC"}
    [] OTHER -> DOMAIN roleImplies

enforceAuth(r) == hasAnyRoleHierarchical(Ask[r].role, routeAuth(Ask[r].kind))
--------------------------------------------------------------------------
\* Card numbers are digit sequences.  Random draws are sampled at the ends
\* of their range.
secureRange(lo, hi) == {lo, hi}
randomDigits(n) == {[i \in 1 .. n |-> d] : d \in secureRange(0, 9)}

Doubled(d) == IF 2 * d > 9 THEN 2 * d - 9 ELSE 2 * d
LuhnDigit(pan, i) == IF (Len(pan) - i) % 2 = 1 THEN Doubled(pan[i]) ELSE pan[i]
SumOf(seq) == FoldSeq(LAMBDA d, s : d + s, 0, seq)
IsValid(pan) ==
  /\ \E i \in 1 .. Len(pan) : pan[i] # 0
  /\ SumOf([i \in 1 .. Len(pan) |-> LuhnDigit(pan, i)]) % 10 = 0

Lowest(S) == IF S = {} THEN {} ELSE {Min(S)}
CalculateCheckDigit(payload) == Lowest({d \in 0 .. 9 : IsValid(Append(payload, d))})

CardNumberLength(brand) == IF brand = "AMEX" THEN 15 ELSE 16

Digits(n, w) == [i \in 1 .. w |-> (n \div 10 ^ (w - i)) % 10]
hasPrefixRange(pan, w, lo, hi) ==
  Len(pan) >= w /\ SumOf([i \in 1 .. w |-> pan[i] * 10 ^ (w - i)]) \in lo .. hi

MatchesBrand(pan, brand) ==
  /\ Len(pan) = CardNumberLength(brand)
  /\ CASE brand = "VISA" -> pan[1] = 4
       [] brand = "MASTERCARD" -> hasPrefixRange(pan, 2, 51, 55) \/ hasPrefixRange(pan, 4, 2221, 2720)
       [] brand = "DINACARD" -> hasPrefixRange(pan, 4, 9891, 9891)
       [] brand = "AMEX" -> hasPrefixRange(pan, 2, 34, 34) \/ hasPrefixRange(pan, 2, 37, 37)
       [] OTHER -> FALSE

randomBrandPrefix(brand) ==
  CASE brand = "VISA" -> {<<4>>}
    [] brand = "DINACARD" -> {<<9, 8, 9, 1>>}
    [] brand = "AMEX" -> {Digits(34, 2), Digits(37, 2)}
    [] brand = "MASTERCARD" -> {Digits(n, 2) : n \in secureRange(51, 55)}
                               \cup {Digits(n, 4) : n \in secureRange(2221, 2720)}

cardBrands == {"VISA", "MASTERCARD", "DINACARD", "AMEX"}

\* The numbers one draw can give, and those still free.
DrawnNumbers ==
  [b \in cardBrands |->
     {n \in UNION {{Append(p \o d, c) : c \in CalculateCheckDigit(p \o d)} :
                     <<p, d>> \in UNION {{p} \X randomDigits(CardNumberLength(b) - Len(p) - 1) :
                                           p \in randomBrandPrefix(b)}} :
        MatchesBrand(n, b) /\ IsValid(n)}]
Taken == {cards[i].number : i \in DOMAIN cards}
generateCardNumber(brand) == DrawnNumbers[brand] \ Taken
--------------------------------------------------------------------------
CardRow(number, brand, a, client, person, limit, auto) ==
  [number |-> number, brand |-> brand, acc |-> a, client |-> client, person |-> person,
   limit |-> limit, st |-> "ACTIVE", del |-> FALSE, auto |-> auto]

CardIds(P(_)) == SelectSeq([i \in 1 .. Len(cards) |-> i], P)
Undeleted(i) == ~cards[i].del
Counts(i) == cards[i].st # "DEACTIVATED" /\ ~cards[i].del

GetCardsForClient(c) == CardIds(LAMBDA i : cards[i].client = c /\ Undeleted(i))
GetCardsByAccount(a) == CardIds(LAMBDA i : cards[i].acc = a /\ Undeleted(i))
GetInternalCardsByAccount(a) == CardIds(LAMBDA i : cards[i].acc = a /\ Undeleted(i))
findCard(i) == i \in DOMAIN cards /\ ~cards[i].del

NewPage(total, size) == (total + size - 1) \div size
GetAllCards(page, size, status) ==
  LET all == CardIds(LAMBDA i : Undeleted(i) /\ (status = "" \/ cards[i].st = status))
  IN SubSeq(all, page * size + 1, Min({(page + 1) * size, Len(all)}))

OwnCards(a, c) == {i \in DOMAIN cards : cards[i].acc = a /\ cards[i].client = c /\ cards[i].person = None /\ Counts(i)}
PersonCards(a, p) == {i \in DOMAIN cards : cards[i].acc = a /\ cards[i].person = p /\ Counts(i)}

enforcePersonalLimit(a, c) == Cardinality(OwnCards(a, c)) < 2
enforceBusinessLimit(a, c, p) ==
  Cardinality(IF p = None THEN OwnCards(a, c) ELSE PersonCards(a, p)) < 1

validateCardRequest(q) == q.brand \in cardBrands /\ q.limit >= 0
FoundAccount(a) == a \in DOMAIN pacc /\ ~pacc[a].del

\* An authorized person is found by id, found by identity, or inserted; the
\* unique index lets one of two equal inserts fail.
resolveAuthorizedPerson(q) ==
  IF q.personId # None THEN {q.personId} \cap DOMAIN persons
  ELSE {i \in DOMAIN persons : persons[i] = q.person}

\* The requests between counting the cards of an account and inserting one.
Counted(a) == {r \in Asked : pat[r].pc = "create" /\ Ask[r].acc = a}
MarkOverlap(r, a) == [pghost EXCEPT !.overlap = IF Counted(a) \ {r} # {} THEN @ \cup {a} ELSE @]

MayRequest(r, business) ==
  LET q == Ask[r] IN
  /\ enforceAuth(r) /\ validateCardRequest(q)
  /\ FoundAccount(q.acc)
  /\ (pacc[q.acc].type = "BUSINESS") = business
  /\ q.who # None => q.who = pacc[q.acc].owner
  /\ q.verified

RequestPersonalCard(r) ==
  LET a == Ask[r].acc IN
  /\ PIs(r, {"personal"}, "start")
  /\ IF MayRequest(r, FALSE) /\ enforcePersonalLimit(a, pacc[a].owner)
     THEN /\ PGoto(r, [pc |-> "create", person |-> None, client |-> pacc[a].owner])
          /\ pghost' = MarkOverlap(r, a)
     ELSE PFini(r) /\ UNCHANGED pghost
  /\ UNCHANGED <<persons, cards>>

\* The person is resolved before the limit is checked, so an inserted
\* person stays when the card is refused.
RequestBusinessCard(r) ==
  LET q == Ask[r]
      owner == [pc |-> "count", person |-> None] IN
  /\ PIs(r, {"business"}, "start")
  /\ IF ~MayRequest(r, TRUE) THEN PFini(r) /\ UNCHANGED persons
     ELSE \/ q.forOwner /\ PGoto(r, owner) /\ UNCHANGED persons
          \/ /\ ~q.forOwner
             /\ \E p \in resolveAuthorizedPerson(q) : PGoto(r, [owner EXCEPT !.person = p])
             /\ UNCHANGED persons
          \/ /\ ~q.forOwner /\ resolveAuthorizedPerson(q) = {}
             /\ IF q.personId = None
                THEN /\ persons' = Append(persons, q.person)
                     /\ PGoto(r, [owner EXCEPT !.person = Len(persons) + 1])
                ELSE PFini(r) /\ UNCHANGED persons
  /\ UNCHANGED <<cards, pghost>>

CountBusiness(r) ==
  LET a == Ask[r].acc  p == pat[r].person IN
  /\ PIs(r, {"business"}, "count")
  /\ IF enforceBusinessLimit(a, pacc[a].owner, p)
     THEN /\ PGoto(r, [pc |-> "create", person |-> p, client |-> pacc[a].owner])
          /\ pghost' = MarkOverlap(r, a)
     ELSE PFini(r) /\ UNCHANGED pghost
  /\ UNCHANGED <<persons, cards>>

\* The insert's transaction; the account is not looked at again.  Drawing
\* only taken numbers twenty times gives up.
createCard(r, brands, client, person, limit, auto) ==
  \/ /\ \E b \in brands : \E n \in generateCardNumber(b) :
          cards' = Append(cards, CardRow(n, b, Ask[r].acc, client, person, limit, auto))
     /\ pghost' = [pghost EXCEPT
          !.odd = IF pacc[Ask[r].acc].del THEN @ \cup {"card on a deleted account"} ELSE @,
          !.by = @ \cup {<<Ask[r].kind, Ask[r].role>>}]
     /\ UNCHANGED pfaults
  \/ (\E b \in brands : DrawnNumbers[b] \cap Taken # {}) /\ UNCHANGED <<cards, pghost, pfaults>>
  \/ PFail("cardinsert") /\ UNCHANGED <<cards, pghost>>

CreateRequestedCard(r) ==
  /\ PIs(r, {"personal", "business"}, "create")
  /\ createCard(r, {Ask[r].brand}, pat[r].client, pat[r].person, Ask[r].limit, FALSE)
  /\ PFini(r) /\ UNCHANGED persons

\* Issued with a new account: neither the account nor the limit is checked.
CreateAutomaticCard(r) ==
  /\ PIs(r, {"auto"}, "start") /\ enforceAuth(r)
  /\ createCard(r, cardBrands, Ask[r].who, None, 1000, TRUE)
  /\ PFini(r) /\ UNCHANGED persons

Target == [BLOCK |-> "BLOCKED", UNBLOCK |-> "ACTIVE", DEACTIVATE |-> "DEACTIVATED"]
TransitionAllowed(from, to) ==
  \/ from = "ACTIVE" /\ to \in {"BLOCKED", "DEACTIVATED"}
  \/ from = "BLOCKED" /\ to \in {"ACTIVE", "DEACTIVATED"}

\* The status is read, then written by id: the write does not look again.
BlockUnblockDeactivate(r) ==
  LET i == Ask[r].card IN
  /\ PIs(r, DOMAIN Target, "start")
  /\ IF enforceAuth(r) /\ findCard(i) /\ TransitionAllowed(cards[i].st, Target[Ask[r].kind])
     THEN PGoto(r, [pc |-> "write", was |-> cards[i].st])
     ELSE PFini(r)
  /\ UNCHANGED <<cards, persons, pghost>>

transitionCard(r) ==
  LET i == Ask[r].card  to == Target[Ask[r].kind] IN
  /\ PIs(r, DOMAIN Target, "write")
  /\ cards' = IF findCard(i) THEN [cards EXCEPT ![i].st = to] ELSE cards
  /\ pghost' = [pghost EXCEPT
       !.dead = IF findCard(i) /\ to = "DEACTIVATED" THEN @ \cup {i} ELSE @,
       !.odd = IF cards[i].st # pat[r].was THEN @ \cup {"status changed underneath"} ELSE @,
       !.by = @ \cup {<<Ask[r].kind, Ask[r].role>>}]
  /\ PFini(r) /\ UNCHANGED persons

UpdateCardLimit(r) ==
  LET i == Ask[r].card IN
  /\ PIs(r, {"limit"}, "start")
  /\ cards' = IF enforceAuth(r) /\ Ask[r].limit >= 0 /\ findCard(i)
              THEN [cards EXCEPT ![i].limit = Ask[r].limit] ELSE cards
  /\ PFini(r) /\ UNCHANGED <<persons, pghost>>

CardStep(r) ==
  /\ \/ CreateRequestedCard(r) \/ CreateAutomaticCard(r)
     \/ /\ \/ RequestPersonalCard(r) \/ RequestBusinessCard(r) \/ CountBusiness(r)
           \/ BlockUnblockDeactivate(r) \/ transitionCard(r) \/ UpdateCardLimit(r)
        /\ UNCHANGED pfaults
  /\ UNCHANGED <<penv, pacc, marginVars, extVars, gdprlog>>
--------------------------------------------------------------------------
\* The client's accounts and the cards on them go in one transaction, once
\* per event; a failed transaction puts the message back.
OnClientSoftDeleted(r) ==
  LET c == Ask[r].who IN
  /\ PIs(r, {"erase"}, "start")
  /\ \/ /\ IF Ask[r].event \in gdprlog THEN UNCHANGED <<pacc, cards, gdprlog>>
           ELSE /\ pacc' = [i \in DOMAIN pacc |-> [pacc[i] EXCEPT !.del = @ \/ pacc[i].owner = c]]
                /\ cards' = [i \in DOMAIN cards |->
                               [cards[i] EXCEPT !.del = @ \/ pacc[cards[i].acc].owner = c]]
                /\ gdprlog' = gdprlog \cup {Ask[r].event}
        /\ PFini(r) /\ UNCHANGED pfaults
     \/ PFail("erase") /\ UNCHANGED <<pacc, cards, gdprlog, pat>>
  /\ UNCHANGED <<penv, persons, marginVars, extVars, pghost>>
--------------------------------------------------------------------------
\* decimal.Round: half away from zero.
RoundHalfUp(n, d) == (2 * n + d) \div (2 * d)

\* A debit and a credit of account rows inside the transaction; the empty
\* set when refused.  (The limits of DebitTx are ClientBanking's.)
DebitRow(A, i, amt) ==
  IF amt > 0 /\ ~A[i].del /\ A[i].bal >= amt THEN {[A EXCEPT ![i].bal = @ - amt]} ELSE {}
CreditRow(A, i, amt) == IF amt > 0 /\ ~A[i].del THEN {[A EXCEPT ![i].bal = @ + amt]} ELSE {}

sendToExchange(amt) == UNION {CreditRow(A, ExchangeAcc, amt) : A \in DebitRow(pacc, BankAcc, amt)}
receiveFromExchange(amt) == UNION {CreditRow(A, BankAcc, amt) : A \in DebitRow(pacc, ExchangeAcc, amt)}

marginAccount(owner, q) ==
  [owner |-> owner, init |-> q.init, start |-> q.init, loan |-> 0, maint |-> q.maint, part |-> q.part,
   active |-> q.init >= q.maint]
findMargin(owner) == {m \in DOMAIN margin : margin[m].owner = owner}
recalcActive(row) == [row EXCEPT !.active = row.init >= row.maint]

validateMarginCreate(q) == q.init > 0 /\ q.maint > 0 /\ q.part \in 0 .. 10

\* One margin account per user and per company: the check, and the unique
\* column behind it.
CreateMargin(r, kind) ==
  /\ PIs(r, {kind}, "start")
  /\ margin' = IF validateMarginCreate(Ask[r]) /\ findMargin(<<kind, Ask[r].who>>) = {}
               THEN Append(margin, marginAccount(<<kind, Ask[r].who>>, Ask[r])) ELSE margin
  /\ PFini(r) /\ UNCHANGED <<pacc, mlog>>
CreateForUser(r) == CreateMargin(r, "marginUser")
CreateForCompany(r) == CreateMargin(r, "marginCompany")

recordMarginTx(m, row, amt, type) ==
  mlog' = Append(mlog, [m |-> m, amt |-> amt, type |-> type, loan |-> row.loan, init |-> row.init])
updateAccountTx(m, row) == margin' = [margin EXCEPT ![m] = row]
History(m) == SelectSeq(Reverse(mlog), LAMBDA e : e.m = m)

bankPart(row, amt) == RoundHalfUp(amt * row.part, 10)

\* The bank lends its part and sends it to the exchange.  A part of zero is
\* refused there: with no participation nothing can be bought.
BuyOnMargin(m, amt) ==
  LET row == margin[m]  bank == bankPart(row, amt)  client == amt - bank
      new == recalcActive([row EXCEPT !.init = @ - client, !.loan = @ + bank]) IN
  /\ row.active /\ row.init >= client
  /\ pacc' \in sendToExchange(bank)
  /\ updateAccountTx(m, new) /\ recordMarginTx(m, new, -amt, "STOCK_BUY")

\* Mutant: the bank's part goes to the loan even where less is owed.
SellRepaysAll(m, amt) ==
  LET row == margin[m]  bank == bankPart(row, amt)
      new == recalcActive([row EXCEPT !.loan = @ - bank, !.init = @ + (amt - bank)]) IN
  /\ row.active
  /\ IF bank > 0 THEN pacc' \in receiveFromExchange(bank) ELSE pacc' = pacc
  /\ updateAccountTx(m, new) /\ recordMarginTx(m, new, amt, "STOCK_SELL")

SellOnMargin(m, amt) ==
  LET row == margin[m]  bank == bankPart(row, amt)
      back == Min({row.loan, bank})
      new == recalcActive([row EXCEPT !.loan = @ - back, !.init = @ + (amt - bank) + (bank - back)]) IN
  /\ row.active
  /\ IF back > 0 THEN pacc' \in receiveFromExchange(back) ELSE pacc' = pacc
  /\ updateAccountTx(m, new) /\ recordMarginTx(m, new, amt, "STOCK_SELL")

resolveCheckingAccount(u) == Lowest({i \in DOMAIN pacc : pacc[i].owner = u /\ ~pacc[i].del})

AddToMarginForUser(m, amt) ==
  LET new == recalcActive([margin[m] EXCEPT !.init = @ + amt]) IN
  /\ \E i \in resolveCheckingAccount(margin[m].owner[2]) : pacc' \in DebitRow(pacc, i, amt)
  /\ updateAccountTx(m, new) /\ recordMarginTx(m, new, amt, "ADD_TO_MARGIN")

WithdrawFromMarginForUser(m, amt) ==
  LET new == recalcActive([margin[m] EXCEPT !.init = @ - amt]) IN
  /\ margin[m].active /\ new.init >= new.maint
  /\ \E i \in resolveCheckingAccount(margin[m].owner[2]) : pacc' \in CreditRow(pacc, i, amt)
  /\ updateAccountTx(m, new) /\ recordMarginTx(m, new, -amt, "WITHDRAW_FROM_MARGIN")

validateStockMarginRequest(q) == q.amt > 0 /\ q.owner[1] \in {"marginUser", "marginCompany"}

\* Every request may be refused where the step above has a guard; a failed
\* commit leaves nothing.
MarginOp(r) ==
  LET q == Ask[r] IN
  /\ PIs(r, {"buy", "sell", "add", "withdraw"}, "start")
  /\ \E m \in findMargin(q.owner) :
       /\ validateStockMarginRequest(q)
       /\ \/ q.kind = "buy" /\ BuyOnMargin(m, q.amt)
          \/ q.kind = "sell" /\ SellOnMargin(m, q.amt)
          \/ q.kind = "add" /\ q.owner[1] = "marginUser" /\ AddToMarginForUser(m, q.amt)
          \/ q.kind = "withdraw" /\ q.owner[1] = "marginUser" /\ WithdrawFromMarginForUser(m, q.amt)
  /\ PFini(r)
MarginRefused(r) == PIs(r, {"buy", "sell", "add", "withdraw"}, "start") /\ PFini(r) /\ UNCHANGED <<pacc, marginVars>>

MarginStep(r) ==
  /\ CreateForUser(r) \/ CreateForCompany(r) \/ MarginOp(r) \/ MarginRefused(r)
  /\ UNCHANGED <<penv, cardVars, extVars, gdprlog, pghost, pfaults>>
--------------------------------------------------------------------------
\* The circuit breaker in front of the clearing house; cool says that its
\* recovery time has passed.
Allow(b) == b.st # "OPEN" \/ b.cool
Allowed(b) == IF b.st = "OPEN" THEN [b EXCEPT !.st = "HALF_OPEN", !.succ = 0] ELSE b
RecordSuccess(b) ==
  IF b.st = "CLOSED" THEN [b EXCEPT !.fails = 0]
  ELSE IF b.st = "HALF_OPEN"
       THEN IF b.succ + 1 >= SuccessThreshold THEN [b EXCEPT !.st = "CLOSED", !.fails = 0, !.succ = 0]
            ELSE [b EXCEPT !.succ = @ + 1]
       ELSE b
Opened(b) == [b EXCEPT !.st = "OPEN", !.cool = FALSE]
RecordFailure(b) ==
  IF b.st = "CLOSED"
  THEN IF b.fails + 1 >= FailureThreshold THEN [Opened(b) EXCEPT !.fails = @ + 1]
       ELSE [b EXCEPT !.fails = @ + 1]
  ELSE IF b.st = "HALF_OPEN" THEN [Opened(b) EXCEPT !.succ = 0] ELSE b

CoolDown ==
  /\ breaker.st = "OPEN" /\ ~breaker.cool
  /\ breaker' = [breaker EXCEPT !.cool = TRUE]
  /\ UNCHANGED <<penv, pacc, cardVars, marginVars, ext, rlog, lock, mq, settled, gdprlog, pat, pghost, pfaults>>

\* Rows older than 72 hours.
externalTransfersForEscalation == {t \in DOMAIN ext : ext[t].st = "PENDING" /\ ext[t].old /\ ext[t].n >= RetryMaxAttempts}
externalTransfersForRetry == {t \in DOMAIN ext : ext[t].st = "PENDING" /\ ext[t].old /\ ext[t].n < RetryMaxAttempts}

\* The database lock on the job: taken when its time is over, kept for a
\* while by whoever still owns the row when the job ends.
TryLock(r) ==
  /\ PIs(r, {"retryjob"}, "start")
  /\ IF lock.live THEN PFini(r) /\ UNCHANGED <<lock, pghost>>
     ELSE /\ lock' = [by |-> r, live |-> TRUE]
          /\ PGoto(r, [pc |-> "scan"])
          /\ pghost' = [pghost EXCEPT !.twoJobs = @ \/ \E s \in Asked : pat[s].pc \in {"scan", "escalate", "publish"}]
  /\ UNCHANGED <<ext, rlog, breaker, mq, settled, pfaults>>
LockExpires ==
  /\ lock.live /\ lock' = [lock EXCEPT !.live = FALSE]
  /\ UNCHANGED <<penv, pacc, cardVars, marginVars, ext, rlog, breaker, mq, settled, gdprlog, pat, pghost, pfaults>>
ReleaseLock(r) == lock' = IF lock.by = r THEN [lock EXCEPT !.live = TRUE] ELSE lock

\* The job's transaction reads the rows to escalate, updates and announces
\* them, and only then reads the rows to retry.  Its updates show when it
\* commits; its messages are out even when it is rolled back.
ScanEscalations(r) ==
  /\ PIs(r, {"retryjob"}, "scan")
  /\ PGoto(r, [pc |-> "escalate", escalate |-> externalTransfersForEscalation])
  /\ UNCHANGED <<ext, rlog, lock, breaker, mq, settled, pghost, pfaults>>

QueueMessage(kind, t, n) == [kind |-> kind, id |-> t, n |-> n]
Announced(kind, ts, n) ==
  [i \in 1 .. Cardinality(ts) |-> LET t == SetToSeq(ts)[i] IN QueueMessage(kind, t, n[t])]

\* A statement, a message or the commit fails: some messages are out.
JobFails(r, out) ==
  /\ PFail("jobcommit") /\ UNCHANGED ext
  /\ \E k \in 0 .. Len(out) : mq' = mq \o SubSeq(out, 1, k)
  /\ ReleaseLock(r) /\ PFini(r)

ScanRetries(r) ==
  LET p == pat[r]
      tried == [t \in DOMAIN ext |-> ext[t].n]
      out == Announced("escalated", p.escalate, tried) IN
  /\ PIs(r, {"retryjob"}, "escalate")
  /\ \/ /\ mq' = mq \o out
        /\ PGoto(r, [pc |-> "publish", escalate |-> p.escalate, retry |-> externalTransfersForRetry,
                     next |-> [t \in DOMAIN ext |-> tried[t] + 1]])
        /\ UNCHANGED <<ext, lock, pfaults>>
     \/ JobFails(r, out)
  /\ UNCHANGED <<rlog, breaker, settled, pghost>>

RetryFailedExternalTransfers(r) ==
  LET p == pat[r]  out == Announced("retry", p.retry, p.next) IN
  /\ PIs(r, {"retryjob"}, "publish")
  /\ \/ /\ ext' = [t \in DOMAIN ext |->
                     IF t \in p.escalate THEN [ext[t] EXCEPT !.st = "ESCALATED"]
                     ELSE IF t \in p.retry THEN [ext[t] EXCEPT !.st = "RETRYING", !.n = @ + 1]
                     ELSE ext[t]]
        /\ mq' = mq \o out
        /\ ReleaseLock(r) /\ PFini(r) /\ UNCHANGED pfaults
     \/ JobFails(r, out)
  /\ UNCHANGED <<rlog, breaker, settled, pghost>>

ClearingAttempts == 3
Rest(i) == SubSeq(mq, 1, i - 1) \o SubSeq(mq, i + 1, Len(mq))

\* A consumer takes a message; one already in the log is acknowledged.
TakeRetry(r) ==
  /\ PIs(r, {"consumer"}, "start")
  /\ \E i \in DOMAIN mq :
       LET m == mq[i] IN
       /\ mq' = Rest(i)
       /\ IF m.kind = "escalated" \/ <<m.id, m.n>> \in rlog THEN UNCHANGED <<pat, breaker>>
          ELSE IF Allow(breaker)
               THEN /\ breaker' = Allowed(breaker)
                    /\ PGoto(r, [pc |-> "call", msg |-> m, left |-> ClearingAttempts])
               ELSE PGoto(r, [pc |-> "log", msg |-> m, ok |-> FALSE]) /\ UNCHANGED breaker
  /\ UNCHANGED <<ext, rlog, lock, settled, pghost, pfaults>>

\* One call: accepted, refused, or no answer, with the transfer carried out
\* or not.  The transfer's id is the idempotency key.
issueClearingHouseTransferOnce(r) ==
  LET p == pat[r]  t == p.msg.id
      over(ok) == [pc |-> "log", msg |-> p.msg, ok |-> ok] IN
  /\ PIs(r, {"consumer"}, "call")
  /\ \/ /\ settled' = settled \cup {t} /\ breaker' = RecordSuccess(breaker)
        /\ PGoto(r, over(TRUE)) /\ UNCHANGED pfaults
     \/ PFail("refused") /\ PGoto(r, over(FALSE)) /\ UNCHANGED <<settled, breaker>>
     \/ /\ PFail("noanswer") /\ settled' \in {settled, settled \cup {t}}
        /\ breaker' = RecordFailure(breaker)
        /\ PGoto(r, IF p.left = 1 THEN over(FALSE) ELSE [p EXCEPT !.left = @ - 1])
  /\ UNCHANGED <<ext, rlog, lock, mq, pghost>>

\* Mutant: a call without an answer is taken for a transfer made.
OnRetryUnanswered(r) ==
  LET p == pat[r]  t == p.msg.id  key == <<t, p.msg.n>> IN
  /\ PIs(r, {"consumer"}, "log") /\ key \notin rlog
  /\ ext' = [ext EXCEPT ![t].st = "COMPLETED"]
  /\ rlog' = rlog \cup {key} /\ UNCHANGED <<mq, pfaults>>
  /\ PGoto(r, [pc |-> "start"])
  /\ UNCHANGED <<lock, breaker, settled, pghost>>

\* A message logged meanwhile, or a failed commit, puts the message back.  So
\* does a failed status update: the code only logs it, but the transaction is
\* aborted by it and the insert into the log that follows is refused.
onRetry(r) ==
  LET p == pat[r]  t == p.msg.id  key == <<t, p.msg.n>> IN
  /\ PIs(r, {"consumer"}, "log")
  /\ \/ /\ key \notin rlog
        /\ ext' = IF p.ok THEN [ext EXCEPT ![t].st = "COMPLETED"] ELSE ext
        /\ rlog' = rlog \cup {key} /\ UNCHANGED <<mq, pfaults>>
     \/ /\ (key \in rlog /\ UNCHANGED pfaults) \/ PFail("retrycommit")
        /\ mq' = Append(mq, p.msg) /\ UNCHANGED <<ext, rlog>>
  /\ PGoto(r, [pc |-> "start"])
  /\ UNCHANGED <<lock, breaker, settled, pghost>>

TransferStep(r) ==
  /\ \/ TryLock(r) \/ ScanEscalations(r) \/ ScanRetries(r) \/ RetryFailedExternalTransfers(r)
     \/ TakeRetry(r) \/ issueClearingHouseTransferOnce(r) \/ onRetry(r)
  /\ UNCHANGED <<penv, pacc, cardVars, marginVars, gdprlog>>

ProductNext ==
  \/ \E r \in Asked : CardStep(r) \/ OnClientSoftDeleted(r) \/ MarginStep(r) \/ TransferStep(r)
  \/ LockExpires \/ CoolDown

ProductSpec == ProductInit /\ [][ProductNext]_pvars
--------------------------------------------------------------------------
\* Types.
ProductTypeOK ==
  /\ \A i \in DOMAIN pacc : pacc[i].bal \in Nat
  /\ \A i \in DOMAIN cards : cards[i].st \in {"ACTIVE", "BLOCKED", "DEACTIVATED"}
  /\ \A m \in DOMAIN margin : margin[m].init \in Nat /\ margin[m].loan \in Nat
  /\ \A t \in DOMAIN ext : ext[t].st \in {"PENDING", "RETRYING", "ESCALATED", "COMPLETED"}
  /\ breaker.st \in {"CLOSED", "OPEN", "HALF_OPEN"}

\* Every card number is unique, belongs to its brand and passes the Luhn
\* check.
NumbersValid ==
  \A i \in DOMAIN cards :
    /\ Len(cards[i].number) = CardNumberLength(cards[i].brand)
    /\ (SumOf([k \in DOMAIN cards[i].number |->
                IF (Len(cards[i].number) - k) % 2 = 1 THEN Doubled(cards[i].number[k])
                ELSE cards[i].number[k]])) % 10 = 0
    /\ \A j \in DOMAIN cards : cards[j].number = cards[i].number => i = j

\* Cards stay in order: numbers are valid and unique; requested cards stay
\* within two per personal account and one per person of a business
\* account, unless two requests counted at the same time; a deactivated
\* card stays so unless a status was changed between reading and writing;
\* only an employee unblocks or deactivates; a card of an erased account is
\* in no list, unless it was created after the erasure; and the pages of
\* the overview show every remaining card once.
CardsInOrder ==
  /\ NumbersValid
  /\ \A a \in DOMAIN pacc \ pghost.overlap : \A p \in 0 .. Len(persons) :
       Cardinality({i \in DOMAIN cards : cards[i].acc = a /\ cards[i].person = p /\ Counts(i) /\ ~cards[i].auto})
         <= IF pacc[a].type = "BUSINESS" THEN 1 ELSE 2
  /\ "status changed underneath" \notin pghost.odd => \A i \in pghost.dead : cards[i].st = "DEACTIVATED"
  /\ \A <<kind, role>> \in pghost.by :
       /\ kind \in {"UNBLOCK", "DEACTIVATE"} => role \in {"ADMIN", "SUPERVISOR", "AGENT", "BASIC"}
       /\ kind \in {"personal", "business"} => role \in {"CLIENT_BASIC", "CLIENT_TRADING", "ADMIN"}
  /\ "card on a deleted account" \notin pghost.odd =>
       \A a \in DOMAIN pacc : pacc[a].del => GetCardsByAccount(a) = <<>>
  /\ \A i \in DOMAIN cards : ~cards[i].del =>
       /\ Cardinality({k \in 1 .. Len(GetCardsForClient(cards[i].client)) : GetCardsForClient(cards[i].client)[k] = i}) = 1
       /\ i \in Range(GetInternalCardsByAccount(cards[i].acc))
  /\ LET n == Len(CardIds(Undeleted)) IN
     CardIds(Undeleted) = FlattenSeq([k \in 1 .. NewPage(n, 2) |-> GetAllCards(k - 1, 2, "")])

\* Margin accounts agree with their log and with the bank: what the client
\* owns of an account is what was paid in plus every logged amount; what
\* the bank lent is missing on its account and lies at the exchange; the
\* last log line is the account, and the account is active exactly above
\* its maintenance margin.
MarginBooks ==
  /\ \A m \in DOMAIN margin :
       LET row == margin[m]  log == History(m) IN
       /\ row.init - row.loan = row.start + SumOf([i \in DOMAIN log |-> log[i].amt])
       /\ log # <<>> => row.loan = log[1].loan /\ row.init = log[1].init
       /\ row.active = (row.init >= row.maint)
  /\ LET lent == SumOf([m \in DOMAIN margin |-> margin[m].loan]) IN
     /\ pacc[BankAcc].bal = Accounts0p[BankAcc].bal - lent
     /\ pacc[ExchangeAcc].bal = Accounts0p[ExchangeAcc].bal + lent
  /\ \A a \in DOMAIN pacc \ {BankAcc, ExchangeAcc} :
       pacc[a].bal = Accounts0p[a].bal -
         SumOf([i \in DOMAIN mlog |->
                  IF margin[mlog[i].m].owner[2] = pacc[a].owner /\ mlog[i].type \in {"ADD_TO_MARGIN", "WITHDRAW_FROM_MARGIN"}
                  THEN mlog[i].amt ELSE 0])

\* External transfers are tracked: a completed one was carried out by the
\* clearing house, an escalated one used up its retries, and one marked
\* RETRYING has its message queued, in a consumer's hands or in the log,
\* with the current attempt unless two jobs ran at once.
Pending(t) == {mq[i].n : i \in {k \in DOMAIN mq : mq[k].kind = "retry" /\ mq[k].id = t}}
              \cup {pat[r].msg.n : r \in {k \in Asked : pat[k].pc \in {"call", "log"} /\ pat[k].msg.id = t}}
              \cup {e[2] : e \in {x \in rlog : x[1] = t}}
TransfersTracked ==
  \A t \in DOMAIN ext :
    /\ ext[t].st = "COMPLETED" => t \in settled
    /\ ext[t].st = "ESCALATED" => ext[t].n >= RetryMaxAttempts
    /\ ext[t].st = "RETRYING" =>
         IF pghost.twoJobs THEN Pending(t) # {} ELSE ext[t].n \in Pending(t)
=============================================================================
