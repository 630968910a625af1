--------------------------- MODULE ClientBanking ---------------------------
(***************************************************************************)
(* The client side of banking-core: accounts, verification sessions,       *)
(* payments, transfers, fund reservations, internal transfers and the      *)
(* scheduled jobs (banking-core-service-go/internal/service).              *)
(*                                                                         *)
(* A request is a process; its steps are the statements and transactions   *)
(* that commit on their own.  stanje and raspolozivo_stanje move together  *)
(* in every operation here, so an account has one balance.  An account is  *)
(* named by its position in the table, which is also its id order.         *)
(***************************************************************************)
EXTENDS Integers, Sequences, FiniteSets, FiniteSetsExt, SequencesExt

CONSTANTS
  Accounts0,       \* the accounts at the start
  MaxAttempts,     \* wrong codes a verification session takes
  BankScenarios    \* [what: the requests and jobs, sess, may, budget]

VARIABLES
  benv,      \* the scenario
  acc,       \* accounts
  sess,      \* verification sessions
  paid,      \* payment_table rows of client payments
  trf,       \* transfers rows
  fundresv,  \* fund_reservations rows
  ilog,      \* internal_transfer_log rows
  rcpt,      \* payment_recipient rows: owner, name
  at,        \* where each request stands, with what it has read
  ghost,     \* history: money that entered or left, applied payments, oddities
  bfaults

bvars == <<benv, acc, sess, paid, trf, fundresv, ilog, rcpt, at, ghost, bfaults>>

What == benv.what
Req == DOMAIN What

Bank == -1
State == -2
Currency == {"RSD", "EUR"}
NoLimit == 1000
Done == [pc |-> "done"]

\* A new account row: the same default limits for everybody, nothing spent,
\* no remaining-limit column until the first midnight.
insertAccount(owner, cur, type, ownership, name, bal) ==
  [owner |-> owner, cur |-> cur, st |-> "ACTIVE", del |-> FALSE, bal |-> bal,
   day |-> 0, month |-> 0, dlim |-> NoLimit, mlim |-> NoLimit, rem |-> -1,
   type |-> type, own |-> ownership, name |-> name, fee |-> 0, past |-> FALSE]

Session(client, op, entity) ==
  [client |-> client, op |-> op, entity |-> entity, st |-> "PENDING", tries |-> 0, late |-> FALSE]
--------------------------------------------------------------------------
\* The rows of the tables, and the requests: each is about accounts that are
\* there at the start, and its amounts were checked by the handlers.
AccountRow ==
  [owner : Int, cur : Currency, st : {"ACTIVE", "INACTIVE"}, del : BOOLEAN, bal : Nat,
   day : Int, month : Int, dlim : Int, mlim : Int, rem : Int,
   type : {"CHECKING", "FX"}, own : {"PERSONAL", "BUSINESS"}, name : STRING, fee : Nat,
   past : BOOLEAN]
SessionRow ==
  [client : Int, op : STRING, entity : Nat, st : {"PENDING", "VERIFIED", "CANCELLED", "EXPIRED"},
   tries : 0 .. MaxAttempts, late : BOOLEAN]

Known == DOMAIN Accounts0
RequestOK(w) ==
  /\ w.kind \in {"payment", "transfer", "transaction", "itransfer"} => w.from \in Known /\ w.to \in Known
  /\ w.kind \in {"payment", "transfer", "transaction", "itransfer", "reserve", "frombank", "creditbank",
                 "debitbank", "exchange"} => w.amt \in Int
  /\ w.kind = "frombank" => IF w.from = 0 THEN w.to \in Known ELSE w.from \in Known
  /\ w.kind = "exchange" => w.i \in Known /\ w.buy \in BOOLEAN
  /\ w.kind \in {"creditbank", "system"} => w.cur \in Currency
  /\ w.kind \in {"payment", "transfer", "validate", "status"} => w.session \in Nat
  /\ w.kind \in {"generate", "reserve", "open", "system", "newrecipient"} => w.client \in Int
  /\ w.kind = "generate" => w.op \in STRING /\ w.entity \in Nat
  /\ w.kind \in {"open", "system"} => w.init \in Nat
  /\ w.kind \in {"open", "system", "editname", "newrecipient", "editrecipient"} => w.name \in STRING
  /\ w.kind = "open" /\ w.type = "FX" => w.concrete \in {"PERSONAL", "BUSINESS"}
  /\ w.kind = "editstatus" => w.st \in {"ACTIVE", "INACTIVE"}
  /\ w.kind = "editlimit" => w.day \in Int /\ w.month \in Int
  /\ w.kind \in {"newrecipient", "editrecipient"} => w.to \in Nat

\* The bank has an account in every currency, and only a client's checking
\* account in dinars is charged a fee.
ASSUME AccountsAssumption ==
  /\ Accounts0 \in Seq(AccountRow)
  /\ \A c \in Currency : \E i \in Known : Accounts0[i].owner = Bank /\ Accounts0[i].cur = c /\ ~Accounts0[i].del
  /\ \A i \in Known : Accounts0[i].fee > 0 => Accounts0[i].owner # Bank /\ Accounts0[i].cur = "RSD"

\* Sessions at the start are ones the service made: those still open have
\* attempts left, and only one is pending for an operation on an entity.
SessionsApart(S) ==
  \A i, j \in 1 .. Len(S) :
    i # j /\ S[i].st = "PENDING" /\ S[j].st = "PENDING" => S[i].op # S[j].op \/ S[i].entity # S[j].entity

ASSUME RequestsAssumption ==
  /\ MaxAttempts \in Nat \ {0}
  /\ \A e \in BankScenarios :
       /\ IsFiniteSet(DOMAIN e.what) /\ \A r \in DOMAIN e.what : RequestOK(e.what[r])
       /\ e.sess \in Seq(SessionRow) /\ SessionsApart(e.sess)
       /\ \A i \in 1 .. Len(e.sess) : e.sess[i].st # "CANCELLED" => e.sess[i].tries < MaxAttempts
       /\ e.budget \in Nat
--------------------------------------------------------------------------
BMay(f) == f \in benv.may
BFail(f) == BMay(f) /\ bfaults < benv.budget /\ bfaults' = bfaults + 1
BNoFail == UNCHANGED bfaults

BankStart ==
  /\ acc = Accounts0
  /\ sess = benv.sess
  /\ paid = <<>> /\ trf = <<>> /\ fundresv = <<>> /\ ilog = <<>> /\ rcpt = <<>>
  /\ at = [r \in Req |-> [pc |-> "start"]]
  /\ ghost = [side |-> [c \in Currency |-> 0], applied |-> [r \in Req |-> 0], odd |-> {}]
  /\ bfaults = 0

BankInit == benv \in BankScenarios /\ BankStart

Goto(r, s) == at' = [at EXCEPT ![r] = s]
Fini(r) == Goto(r, Done)
Is(r, kind, pc) == What[r].kind = kind /\ at[r].pc = pc

\* History only: a step met a state its own earlier read had excluded.
Odd(what) == [ghost EXCEPT !.odd = @ \cup {what}]
OddIf(cond, what) == ghost' = IF cond THEN Odd(what) ELSE ghost

--------------------------------------------------------------------------
\* Reading accounts.  A deleted account is never found.
getByNumber(i) == {j \in 1 .. Len(acc) : j = i /\ ~acc[j].del}
Lowest(S) == IF S = {} THEN {} ELSE {Min(S)}
getByOwnerAndCurrency(A, o, c) ==
  Lowest({i \in 1 .. Len(A) : A[i].owner = o /\ A[i].cur = c /\ ~A[i].del})

GetBankAccount(c) == getByOwnerAndCurrency(acc, Bank, c)
FindDefaultRSDByOwner(o) == getByOwnerAndCurrency(acc, o, "RSD")
\* past: the account's date of expiry is over.
validateMutable(row, client) ==
  row.st # "INACTIVE" /\ ~row.past /\ (row.owner = Bank \/ row.owner = client)

\* A debit or credit inside a transaction: the set of tables it can leave,
\* empty when it is refused and the transaction rolls back.
WithinLimits(row, amt) ==
  /\ row.day + amt <= row.dlim
  /\ row.rem >= 0 => amt <= row.rem
  /\ row.month + amt <= row.mlim

Debited(row, amt) ==
  [row EXCEPT !.bal = row.bal - amt, !.day = row.day + amt, !.month = row.month + amt,
              !.rem = IF row.rem >= 0 THEN row.rem - amt ELSE row.rem]
Credited(row, amt) == [row EXCEPT !.bal = row.bal + amt]

DebitTx(A, i, amt, client) ==
  IF /\ amt > 0 /\ ~A[i].del /\ validateMutable(A[i], client)
     /\ amt <= A[i].bal /\ WithinLimits(A[i], amt)
  THEN {[A EXCEPT ![i] = Debited(A[i], amt)]}
  ELSE {}

CreditTx(A, i, amt, client) ==
  IF amt > 0 /\ ~A[i].del /\ validateMutable(A[i], client)
  THEN {[A EXCEPT ![i] = Credited(A[i], amt)]} ELSE {}

Move(A, from, fc, out, to, tc, in) ==
  UNION {CreditTx(B, to, in, tc) : B \in DebitTx(A, from, out, fc)}

\* A transaction of its own around one debit or credit.
DebitAlone(i, amt, client) == DebitTx(acc, i, amt, client)
CreditAlone(i, amt, client) == CreditTx(acc, i, amt, client)

\* The market service's conversion: the rate, and a commission in the
\* source currency (external).
RateOf == [RSD |-> 1, EUR |-> 2]
MarketConvert(amt, from, to) == [in |-> (amt * RateOf[from]) \div RateOf[to], fee |-> 1]
convert(amt, from, to) ==
  IF from = to THEN [in |-> amt, fee |-> 0] ELSE MarketConvert(amt, from, to)
PaymentOf(w) ==
  LET c == convert(w.amt, acc[w.from].cur, acc[w.to].cur) IN [amt |-> w.amt, in |-> c.in, fee |-> c.fee]

\* Within a currency the commission goes to the bank's account; between
\* currencies the bank stands in the middle: it takes the sender's amount with
\* the commission and pays the converted amount.
applyPaymentTx(A, f, t, p) ==
  LET fo == A[f].owner  to == A[t].owner
      banks(c) == getByOwnerAndCurrency(A, Bank, c) IN
  IF A[f].cur = A[t].cur
  THEN UNION {IF p.fee = 0 THEN {B} ELSE UNION {CreditTx(B, b, p.fee, Bank) : b \in banks(A[f].cur)} :
                B \in Move(A, f, fo, p.amt + p.fee, t, to, p.in)}
  ELSE IF to = Bank THEN Move(A, f, fo, p.amt, t, to, p.in)
  ELSE UNION {UNION {Move(B, b, Bank, p.in, t, to, p.in) : b \in banks(A[t].cur)} :
                B \in UNION {Move(A, f, fo, p.amt + p.fee, b, Bank, p.amt + p.fee) : b \in banks(A[f].cur)}}

accountsForTransfer(A, i) == ~A[i].del /\ validateMutable(A[i], A[i].owner)

applyPaymentOperation(f, t, p, client, sameOwner) ==
  IF /\ accountsForTransfer(acc, f) /\ accountsForTransfer(acc, t)
     /\ acc[f].owner = client
     /\ sameOwner <=> acc[f].owner = acc[t].owner
  THEN applyPaymentTx(acc, f, t, p) ELSE {}

\* One attempt to apply the money: it commits, it is refused, or it commits
\* and the answer is lost.
Applies(r, f, t, p, client, same, yes, no) ==
  LET B == applyPaymentOperation(f, t, p, client, same)
      moved == ghost' = [ghost EXCEPT !.applied[r] = @ + 1] IN
  \/ B # {} /\ BNoFail /\ acc' \in B /\ moved /\ Goto(r, yes)
  \/ /\ B # {} /\ BFail("lostcommit") /\ acc' \in B /\ Goto(r, no)
     /\ ghost' = [Odd("lost") EXCEPT !.applied[r] = @ + 1]
  \/ (IF B = {} THEN BNoFail ELSE BFail("db")) /\ UNCHANGED <<acc, ghost>> /\ Goto(r, no)
--------------------------------------------------------------------------
\* Verification sessions.
validOperationType(op) == op \in {"PAYMENT", "TRANSFER", "LIMIT_CHANGE", "CARD_REQUEST", "LOAN_REQUEST"}

\* Older pending sessions of the same client, operation and entity are
\* cancelled; another client's pending one on that entity is a conflict.
Generate(r) ==
  LET w == What[r]
      S == [i \in 1 .. Len(sess) |->
              IF /\ sess[i].client = w.client /\ sess[i].op = w.op
                 /\ sess[i].entity = w.entity /\ sess[i].st = "PENDING"
              THEN [sess[i] EXCEPT !.st = "CANCELLED"] ELSE sess[i]] IN
  /\ Is(r, "generate", "start") /\ validOperationType(w.op)
  /\ sess' = IF \E i \in 1 .. Len(S) : S[i].op = w.op /\ S[i].entity = w.entity /\ S[i].st = "PENDING"
             THEN sess ELSE Append(S, Session(w.client, w.op, w.entity))
  /\ Fini(r)
  /\ UNCHANGED <<benv, acc, paid, trf, fundresv, ilog, rcpt, ghost, bfaults>>

\* Under the row's lock; matchesOTP is the code the client typed.
matchesOTP(w) == w.right

ValidateCode(r) ==
  LET w == What[r] IN
  \E i \in 1 .. Len(sess) :
    LET s == sess[i] IN
    /\ Is(r, "validate", "start") /\ i = w.session
    /\ sess' = [sess EXCEPT ![i] =
         CASE s.st \in {"CANCELLED", "VERIFIED", "EXPIRED"} -> s
           [] s.st = "PENDING" /\ s.late -> [s EXCEPT !.st = "EXPIRED"]
           [] s.st = "PENDING" /\ ~s.late /\ matchesOTP(w) -> [s EXCEPT !.st = "VERIFIED"]
           [] s.st = "PENDING" /\ ~s.late /\ ~matchesOTP(w) ->
                [s EXCEPT !.tries = @ + 1,
                          !.st = IF s.tries + 1 >= MaxAttempts THEN "CANCELLED" ELSE "PENDING"]]
    /\ Fini(r)
    /\ UNCHANGED <<benv, acc, paid, trf, fundresv, ilog, rcpt, ghost, bfaults>>

\* A session's time runs out; nothing is written yet.
SessionLate(i) ==
  /\ BMay("late") /\ i <= Len(sess) /\ sess[i].st = "PENDING" /\ ~sess[i].late
  /\ sess' = [sess EXCEPT ![i].late = TRUE]
  /\ UNCHANGED <<benv, acc, paid, trf, fundresv, ilog, rcpt, at, ghost, bfaults>>

\* Status reads the session and then writes EXPIRED, without a lock.
findSession(i) == IF i \in 1 .. Len(sess) THEN {sess[i]} ELSE {}

\* Mutant: any session that was not cancelled will do.
NotCancelled(i) == \E s \in findSession(i) : s.st # "CANCELLED"

verificationVerified(i) == \E s \in findSession(i) : s.st = "VERIFIED"

Status(r) ==
  /\ Is(r, "status", "start")
  /\ \E s \in findSession(What[r].session) :
       IF s.st = "PENDING" /\ s.late THEN Goto(r, [pc |-> "expire"]) ELSE Fini(r)
  /\ UNCHANGED <<benv, acc, sess, paid, trf, fundresv, ilog, rcpt, ghost, bfaults>>

\* Payments and transfers ask Status too, so they end here with a late session.
Expire(r) ==
  /\ at[r].pc = "expire" /\ Fini(r)
  /\ sess' = [sess EXCEPT ![What[r].session].st = "EXPIRED"]
  /\ OddIf(sess[What[r].session].st # "PENDING", "expired")
  /\ UNCHANGED <<benv, acc, paid, trf, fundresv, ilog, rcpt, bfaults>>

MustExpire(i) == \E s \in findSession(i) : s.st = "PENDING" /\ s.late
--------------------------------------------------------------------------
\* A client payment: the session, the accounts and their owner, the conversion
\* and the IN_PROGRESS row (either call may fail), up to three attempts to
\* move the money, the final status.
Info(f, t) == \A i \in {f, t} : ~acc[i].del /\ acc[i].st # "INACTIVE"
IsPrivileged(w) == w.privileged

createPayment(r, p) ==
  Append(paid, [r |-> r, st |-> "IN_PROGRESS", from |-> What[r].from, to |-> What[r].to,
                sender |-> acc[What[r].from].owner, rec |-> acc[What[r].to].owner, old |-> FALSE, p |-> p])
finishPayment(k, st) == paid' = [paid EXCEPT ![k].st = st]

NewPayment(r) ==
  LET w == What[r]  a == at[r] IN
  \/ /\ Is(r, "payment", "start") /\ UNCHANGED <<paid, acc, ghost, bfaults>>
     /\ IF verificationVerified(w.session) THEN Goto(r, [pc |-> "info"])
        ELSE IF MustExpire(w.session) THEN Goto(r, [pc |-> "expire"]) ELSE Fini(r)
  \/ /\ Is(r, "payment", "info") /\ UNCHANGED <<paid, acc, ghost, bfaults>>
     /\ IF Info(w.from, w.to) /\ (acc[w.from].owner = w.client \/ IsPrivileged(w))
        THEN Goto(r, [pc |-> "create", client |-> acc[w.from].owner,
                      same |-> acc[w.from].owner = acc[w.to].owner])
        ELSE Fini(r)
  \/ /\ Is(r, "payment", "create") /\ UNCHANGED <<acc, ghost>>
     /\ \/ /\ BNoFail /\ paid' = createPayment(r, PaymentOf(w))
           /\ Goto(r, [pc |-> "apply", k |-> Len(paid) + 1, n |-> 3, p |-> PaymentOf(w),
                       client |-> a.client, same |-> a.same])
        \/ BFail("db") /\ UNCHANGED paid /\ Fini(r)
  \/ /\ Is(r, "payment", "apply")
     /\ Applies(r, w.from, w.to, a.p, a.client, a.same,
                [pc |-> "finish", k |-> a.k, st |-> "COMPLETED"],
                IF a.n = 1 THEN [pc |-> "finish", k |-> a.k, st |-> "DENIED"] ELSE [a EXCEPT !.n = @ - 1])
     /\ UNCHANGED paid
  \/ /\ Is(r, "payment", "finish") /\ Fini(r)
     /\ \/ BNoFail /\ finishPayment(a.k, a.st) /\ UNCHANGED ghost
        \/ BFail("crash") /\ UNCHANGED paid /\ ghost' = Odd("crash")
     /\ UNCHANGED acc

PaymentStep(r) == NewPayment(r) /\ UNCHANGED <<benv, sess, trf, fundresv, ilog, rcpt>>

\* Mutant: the session's earlier transfer is not looked for.
TransferNeverExists(s) == FALSE

\* A transfer between one's own accounts: the money first, then the row
\* whose session must be new.
transferByVerificationExists(s) == \E k \in 1 .. Len(trf) : trf[k].session = s

insertTransfer(r) ==
  IF transferByVerificationExists(What[r].session) THEN trf
  ELSE Append(trf, [r |-> r, session |-> What[r].session, client |-> at[r].client,
                    from |-> What[r].from, to |-> What[r].to])

Execute(r) ==
  LET w == What[r]  a == at[r] IN
  \/ /\ Is(r, "transfer", "start")
     /\ IF transferByVerificationExists(w.session) THEN Fini(r)
        ELSE IF MustExpire(w.session) THEN Goto(r, [pc |-> "expire"]) ELSE Goto(r, [pc |-> "check"])
     /\ UNCHANGED <<acc, trf, ghost, bfaults>>
  \/ /\ Is(r, "transfer", "check")
     /\ IF /\ verificationVerified(w.session)
           /\ getByNumber(w.from) # {} /\ getByNumber(w.to) # {}
           /\ acc[w.from].owner = w.client \/ IsPrivileged(w)
           /\ acc[w.from].owner = acc[w.to].owner
        THEN Goto(r, [pc |-> "apply", client |-> acc[w.from].owner, p |-> PaymentOf(w)])
        ELSE Fini(r)
     /\ UNCHANGED <<acc, trf, ghost, bfaults>>
  \/ /\ Is(r, "transfer", "apply") /\ UNCHANGED trf
     /\ Applies(r, w.from, w.to, a.p, a.client, TRUE,
                [pc |-> "insert", client |-> a.client], Done)
  \/ /\ Is(r, "transfer", "insert") /\ Fini(r) /\ UNCHANGED acc
     /\ \/ BNoFail /\ trf' = insertTransfer(r) /\ OddIf(trf' = trf, "twice")
        \/ BFail("db") /\ UNCHANGED trf /\ ghost' = Odd("crash")

TransferStep(r) == Execute(r) /\ UNCHANGED <<benv, sess, paid, fundresv, ilog, rcpt>>
--------------------------------------------------------------------------
\* Money held for a buyer: debited at once, given back on release.  Release
\* reads the row without a lock; its update is conditional, its credit not.
ReserveFunds(r) ==
  LET w == What[r]
      from == FindDefaultRSDByOwner(w.client)
      B == UNION {DebitTx(acc, i, w.amt, w.client) : i \in from} IN
  /\ Is(r, "reserve", "start") /\ Fini(r) /\ UNCHANGED ghost
  /\ IF B = {} THEN UNCHANGED <<acc, fundresv>>
     ELSE \E i \in from :
            acc' \in B /\ fundresv' = Append(fundresv, [a |-> i, owner |-> w.client, amt |-> w.amt, st |-> "HELD"])

loadFundReservation(k) == IF k \in 1 .. Len(fundresv) THEN {fundresv[k]} ELSE {}

ReleaseFunds(r) ==
  LET k == What[r].k IN
  \/ /\ Is(r, "release", "start") /\ UNCHANGED <<acc, fundresv, ghost>>
     /\ IF \E row \in loadFundReservation(k) : row.st = "HELD" THEN Goto(r, [pc |-> "credit"]) ELSE Fini(r)
  \/ /\ Is(r, "release", "credit") /\ Fini(r)
     /\ LET B == CreditTx(acc, fundresv[k].a, fundresv[k].amt, fundresv[k].owner) IN
        IF B = {} THEN UNCHANGED <<acc, fundresv, ghost>>
        ELSE /\ acc' \in B /\ OddIf(fundresv[k].st # "HELD", "release")
             /\ fundresv' = IF fundresv[k].st = "HELD" THEN [fundresv EXCEPT ![k].st = "RELEASED"] ELSE fundresv

CommitFunds(r) ==
  /\ Is(r, "commit", "start") /\ Fini(r) /\ UNCHANGED <<acc, ghost>>
  /\ fundresv' = IF \E row \in loadFundReservation(What[r].k) : row.st = "HELD"
             THEN [fundresv EXCEPT ![What[r].k].st = "COMMITTED"] ELSE fundresv

FundsStep(r) ==
  /\ ReserveFunds(r) \/ ReleaseFunds(r) \/ CommitFunds(r)
  /\ UNCHANGED <<benv, sess, paid, trf, ilog, rcpt, bfaults>>

\* An internal transfer in one transaction.  Between currencies the receiver
\* gets the converted amount less the commission, which the bank keeps; the
\* log keeps the sender's amount only, and a reversal moves that amount back.
Transfer(r) ==
  LET w == What[r]
      c == convert(w.amt, acc[w.from].cur, acc[w.to].cur)
      same == acc[w.from].cur = acc[w.to].cur
      in == IF same THEN w.amt ELSE convert(w.amt - c.fee, acc[w.from].cur, acc[w.to].cur).in
      moved == Move(acc, w.from, acc[w.from].owner, w.amt, w.to, acc[w.to].owner, in)
      B == IF same THEN moved
           ELSE IF w.amt <= c.fee THEN {}
           ELSE UNION {UNION {CreditTx(A, b, c.fee, Bank) : b \in getByOwnerAndCurrency(A, Bank, acc[w.from].cur)} : A \in moved} IN
  /\ Is(r, "itransfer", "start") /\ Fini(r)
  /\ IF ~acc[w.from].del /\ ~acc[w.to].del /\ B # {}
     THEN /\ acc' \in B
          /\ ilog' = Append(ilog, [from |-> w.from, to |-> w.to, amt |-> w.amt, st |-> "COMPLETED", in |-> in,
                                   fee |-> IF same THEN 0 ELSE c.fee])
     ELSE UNCHANGED <<acc, ilog>>

CrossRows == {k \in 1 .. Len(ilog) : acc[ilog[k].from].cur # acc[ilog[k].to].cur}
ReverseTransfer(r) ==
  LET k == What[r].k IN
  /\ Is(r, "reverse", "start") /\ Fini(r)
  /\ LET B == IF k \in 1 .. Len(ilog) /\ ilog[k].st = "COMPLETED"
              THEN Move(acc, ilog[k].to, acc[ilog[k].to].owner, ilog[k].amt,
                        ilog[k].from, acc[ilog[k].from].owner, ilog[k].amt) ELSE {} IN
     IF B = {} THEN UNCHANGED <<acc, ilog, ghost>>
     ELSE /\ acc' \in B /\ ilog' = [ilog EXCEPT ![k].st = "REVERSED"]
          /\ OddIf(k \in CrossRows, "reverse")

InternalStep(r) ==
  /\ (Transfer(r) /\ UNCHANGED ghost) \/ ReverseTransfer(r)
  /\ UNCHANGED <<benv, sess, paid, trf, fundresv, rcpt, bfaults>>
--------------------------------------------------------------------------
\* Opening accounts: by an employee for a client of the user service, or by
\* a service for itself, which gets the existing one when there is one.
accountConcrete(kind) ==
  CASE kind \in {"DOO", "AD", "FONDACIJA"} -> {"BUSINESS"}
    [] kind \in {"STANDARDNI", "STEDNI", "ZA_MLADE"} -> {"PERSONAL"}
    [] OTHER -> {}
validateCompanyPresence(firm, own) == firm <=> own = "BUSINESS"
currencyID(c) == c \in Currency

\* The client is looked up in the user service (external); nothing is
\* created when the call fails.
resolveClient(r) == BNoFail

CreateAccount(r, row) ==
  /\ acc' = Append(acc, row)
  /\ ghost' = [ghost EXCEPT !.side[row.cur] = @ + row.bal]

CreateCheckingAccount(r) ==
  LET w == What[r] IN
  /\ Is(r, "open", "start") /\ w.type = "CHECKING" /\ Fini(r)
  /\ \/ BFail("refuse") /\ UNCHANGED <<acc, ghost>>
     \/ /\ resolveClient(r)
        /\ IF \E own \in accountConcrete(w.concrete) : validateCompanyPresence(w.firm, own)
           THEN \E own \in accountConcrete(w.concrete) :
                  CreateAccount(r, insertAccount(w.client, "RSD", "CHECKING", own, w.name, w.init))
           ELSE UNCHANGED <<acc, ghost>>

CreateFXAccount(r) ==
  LET w == What[r] IN
  /\ Is(r, "open", "start") /\ w.type = "FX" /\ Fini(r)
  /\ \/ BFail("refuse") /\ UNCHANGED <<acc, ghost>>
     \/ /\ resolveClient(r)
        /\ IF w.cur # "RSD" /\ currencyID(w.cur) /\ validateCompanyPresence(w.firm, w.concrete)
           THEN CreateAccount(r, insertAccount(w.client, w.cur, "FX", w.concrete, w.name, w.init))
           ELSE UNCHANGED <<acc, ghost>>

CreateSystemAccount(r) ==
  LET w == What[r] IN
  /\ Is(r, "system", "start") /\ Fini(r) /\ BNoFail
  /\ IF \E i \in 1 .. Len(acc) : acc[i].owner = w.client
     THEN UNCHANGED <<acc, ghost>>
     ELSE CreateAccount(r, insertAccount(w.client, w.cur, "CHECKING", "BUSINESS", w.name, w.init))

\* Editing an account: each reads the row and writes one column of it later.
EditStatus(r) ==
  LET w == What[r] IN
  /\ Is(r, "editstatus", "start") /\ Fini(r) /\ UNCHANGED <<ghost, bfaults>>
  /\ acc' = IF \E i \in getByNumber(w.i) : acc[i].owner >= 0
            THEN [acc EXCEPT ![w.i].st = w.st] ELSE acc

\* Time passes over the date of expiry of an account; nothing is written.
AccountExpires(r) ==
  /\ Is(r, "expiry", "start") /\ Fini(r) /\ UNCHANGED <<ghost, bfaults>>
  /\ acc' = IF getByNumber(What[r].i) = {} THEN acc ELSE [acc EXCEPT ![What[r].i].past = TRUE]

NameTaken(o, name, i) ==
  \E j \in 1 .. Len(acc) : acc[j].owner = o /\ acc[j].name = name /\ j # i /\ ~acc[j].del

editAccountName(r) ==
  LET w == What[r] IN
  /\ UNCHANGED bfaults
  /\ \/ /\ Is(r, "editname", "start") /\ UNCHANGED <<acc, ghost>>
        /\ IF /\ \E i \in getByNumber(w.i) : acc[i].owner = w.client /\ acc[i].name # w.name
              /\ ~NameTaken(w.client, w.name, w.i)
           THEN Goto(r, [pc |-> "write"]) ELSE Fini(r)
     \/ /\ Is(r, "editname", "write") /\ Fini(r)
        /\ acc' = IF acc[w.i].del THEN acc ELSE [acc EXCEPT ![w.i].name = w.name]
        /\ OddIf(NameTaken(w.client, w.name, w.i), "name")

editAccountLimit(r) ==
  LET w == What[r] IN
  /\ UNCHANGED <<ghost, bfaults>>
  /\ \/ /\ Is(r, "editlimit", "start") /\ UNCHANGED acc
        /\ IF /\ w.day > 0 /\ w.day <= w.month
              /\ \E i \in getByNumber(w.i) : acc[i].owner = w.client
              /\ verificationVerified(w.session)
           THEN Goto(r, [pc |-> "write"]) ELSE Fini(r)
     \/ /\ Is(r, "editlimit", "write") /\ Fini(r)
        /\ acc' = IF acc[w.i].del THEN acc ELSE [acc EXCEPT ![w.i].dlim = w.day, ![w.i].mlim = w.month]

\* Money between a client and the bank, and money that enters or leaves on
\* one side only; the booking rows that follow are best effort.
TransactionFromBank(r) ==
  LET w == What[r]
      i == IF w.from = 0 THEN w.to ELSE w.from
      B == UNION {IF w.from = 0 THEN Move(acc, b, Bank, w.amt, i, acc[i].owner, w.amt)
                  ELSE Move(acc, i, acc[i].owner, w.amt, b, Bank, w.amt) :
                    b \in UNION {GetBankAccount(acc[j].cur) : j \in getByNumber(i)}} IN
  /\ Is(r, "frombank", "start") /\ Fini(r) /\ UNCHANGED <<ghost, bfaults>>
  /\ IF B = {} THEN UNCHANGED acc ELSE acc' \in B

OneSided(r, i, amt, debit) ==
  LET B == IF debit THEN DebitAlone(i, amt, acc[i].owner) ELSE CreditAlone(i, amt, acc[i].owner) IN
  IF B = {} THEN UNCHANGED <<acc, ghost>> /\ Fini(r)
  ELSE /\ acc' \in B
       /\ ghost' = [ghost EXCEPT !.side[acc[i].cur] = IF debit THEN @ - amt ELSE @ + amt,
                                 !.applied[r] = 1]
       /\ Goto(r, [pc |-> "record"])

CreditBank(r) ==
  /\ Is(r, "creditbank", "start") /\ UNCHANGED bfaults
  /\ \E i \in GetBankAccount(What[r].cur) : OneSided(r, i, What[r].amt, FALSE)
DebitBank(r) ==
  /\ Is(r, "debitbank", "start") /\ UNCHANGED bfaults
  /\ \E i \in GetBankAccount(What[r].cur) : OneSided(r, i, What[r].amt, TRUE)

resolveOneSidedAccount(i) == {j \in getByNumber(i) : validateMutable(acc[j], acc[j].owner)}
exchangeOneSided(r) ==
  /\ Is(r, "exchange", "start") /\ UNCHANGED bfaults
  /\ IF resolveOneSidedAccount(What[r].i) = {} THEN Fini(r) /\ UNCHANGED <<acc, ghost>>
     ELSE OneSided(r, What[r].i, What[r].amt, What[r].buy)

\* A payment another service asks for, already verified there.
Transaction(r) ==
  LET w == What[r] IN
  /\ Is(r, "transaction", "start")
  /\ Applies(r, w.from, w.to, PaymentOf(w), w.client, w.same, [pc |-> "record"], Done)

AccountsStep(r) ==
  /\ \/ CreateCheckingAccount(r) \/ CreateFXAccount(r) \/ CreateSystemAccount(r)
     \/ EditStatus(r) \/ AccountExpires(r) \/ editAccountName(r) \/ editAccountLimit(r)
     \/ TransactionFromBank(r) \/ CreditBank(r) \/ DebitBank(r) \/ exchangeOneSided(r)
     \/ Transaction(r)
  /\ UNCHANGED <<benv, sess, paid, trf, fundresv, ilog, rcpt>>

\* recordPayment: the row is COMPLETED from the start, or is never written.
recordPayment(r, from, to) ==
  Append(paid, [r |-> r, st |-> "COMPLETED", from |-> from, to |-> to, sender |-> acc[from].owner,
                rec |-> acc[to].owner, old |-> FALSE, p |-> [amt |-> What[r].amt, in |-> What[r].amt, fee |-> 0]])
recordTransferPayment(r) == recordPayment(r, What[r].from, What[r].to)
recordExchangePayment(r) ==
  LET i == What[r].i  b == CHOOSE b \in GetBankAccount(acc[i].cur) : TRUE IN
  IF What[r].buy THEN recordPayment(r, i, b) ELSE recordPayment(r, b, i)

RecordStep(r) ==
  /\ at[r].pc = "record" /\ Fini(r)
  /\ \/ BFail("db") /\ UNCHANGED paid
     \/ BNoFail /\ paid' = CASE What[r].kind = "transaction" -> recordTransferPayment(r)
                              [] What[r].kind = "exchange" -> recordExchangePayment(r)
                              [] OTHER -> paid
  /\ UNCHANGED <<benv, acc, sess, trf, fundresv, ilog, rcpt, ghost>>
--------------------------------------------------------------------------
\* Saved recipients.  The name is unique per owner among all rows, the
\* deleted ones included.
RecipientTaken(o, name, k) ==
  \E j \in 1 .. Len(rcpt) : j # k /\ rcpt[j].owner = o /\ rcpt[j].name = name

CreateRecipient(r) ==
  LET w == What[r] IN
  /\ Is(r, "newrecipient", "start")
  /\ rcpt' = IF RecipientTaken(w.client, w.name, 0) THEN rcpt
             ELSE Append(rcpt, [owner |-> w.client, name |-> w.name, to |-> w.to, del |-> FALSE])

OwnRecipient(o, k) == k \in 1 .. Len(rcpt) /\ rcpt[k].owner = o /\ ~rcpt[k].del

UpdateRecipient(r) ==
  LET w == What[r] IN
  /\ Is(r, "editrecipient", "start")
  /\ rcpt' = IF OwnRecipient(w.client, w.k) /\ ~RecipientTaken(w.client, w.name, w.k)
             THEN [rcpt EXCEPT ![w.k].name = w.name, ![w.k].to = w.to] ELSE rcpt

DeleteRecipient(r) ==
  LET w == What[r] IN
  /\ Is(r, "delrecipient", "start")
  /\ rcpt' = IF OwnRecipient(w.client, w.k) THEN [rcpt EXCEPT ![w.k].del = TRUE] ELSE rcpt

RecipientStep(r) ==
  /\ CreateRecipient(r) \/ UpdateRecipient(r) \/ DeleteRecipient(r)
  /\ Fini(r)
  /\ UNCHANGED <<benv, acc, sess, paid, trf, fundresv, ilog, ghost, bfaults>>
--------------------------------------------------------------------------
\* The scheduled jobs.  Time enters as "the row is old enough".
resetDailySpending(r) ==
  /\ Is(r, "daily", "start") /\ Fini(r) /\ UNCHANGED <<paid, ghost>>
  /\ acc' = [i \in 1 .. Len(acc) |->
              IF acc[i].del THEN acc[i] ELSE [acc[i] EXCEPT !.day = 0, !.rem = acc[i].dlim]]

resetMonthlySpending(r) ==
  /\ Is(r, "monthly", "start") /\ UNCHANGED <<paid, ghost>>
  /\ Goto(r, [pc |-> "fees"])
  /\ acc' = [i \in 1 .. Len(acc) |-> IF acc[i].del THEN acc[i] ELSE [acc[i] EXCEPT !.month = 0]]

cleanupStuckPayments(r) ==
  /\ Is(r, "cleanup", "start") /\ Fini(r) /\ UNCHANGED <<acc, ghost>>
  /\ paid' = [k \in 1 .. Len(paid) |->
               IF paid[k].st = "IN_PROGRESS" /\ paid[k].old THEN [paid[k] EXCEPT !.st = "DENIED"] ELSE paid[k]]

\* The fee job reads the bank's balance, then the charged accounts, both
\* without a lock, and writes absolute values in one transaction.
Charged(A) == {i \in 1 .. Len(A) : A[i].type = "CHECKING" /\ A[i].st = "ACTIVE" /\ ~A[i].del
                                   /\ A[i].fee > 0 /\ A[i].bal >= A[i].fee}

runMaintenanceFees(r) ==
  \/ /\ Is(r, "monthly", "fees") /\ UNCHANGED <<acc, paid, ghost>>
     /\ Goto(r, [pc |-> "feelist", read |-> acc])
  \/ /\ Is(r, "monthly", "feelist") /\ UNCHANGED <<acc, paid, ghost>>
     /\ LET b == CHOOSE b \in getByOwnerAndCurrency(at[r].read, Bank, "RSD") : TRUE IN
        Goto(r, [pc |-> "feewrite", read |-> [acc EXCEPT ![b].bal = at[r].read[b].bal]])
  \/ /\ Is(r, "monthly", "feewrite") /\ Fini(r) /\ UNCHANGED paid
     /\ LET A == at[r].read
            b == CHOOSE b \in getByOwnerAndCurrency(A, Bank, "RSD") : TRUE
            total == SumFunctionOnSet([i \in Charged(A) |-> A[i].fee], Charged(A)) IN
        /\ acc' = [i \in 1 .. Len(acc) |->
                     IF i = b THEN [acc[i] EXCEPT !.bal = A[b].bal + total]
                     ELSE IF i \in 1 .. Len(A) /\ i \in Charged(A) THEN [acc[i] EXCEPT !.bal = A[i].bal - A[i].fee]
                     ELSE acc[i]]
        /\ OddIf(\E i \in Charged(A) \cup {b} : acc[i].bal # A[i].bal, "fees")

JobStep(r) ==
  /\ \/ resetDailySpending(r) \/ resetMonthlySpending(r) \/ cleanupStuckPayments(r)
     \/ runMaintenanceFees(r)
  /\ UNCHANGED <<benv, sess, trf, fundresv, ilog, rcpt, bfaults>>

\* Five minutes pass over a payment that is still in progress.
PaymentOld(k) ==
  /\ BMay("old") /\ k <= Len(paid) /\ paid[k].st = "IN_PROGRESS" /\ ~paid[k].old
  /\ paid' = [paid EXCEPT ![k].old = TRUE]
  /\ UNCHANGED <<benv, acc, sess, trf, fundresv, ilog, rcpt, at, ghost, bfaults>>

--------------------------------------------------------------------------
\* What the service shows.  A list is ordered, cut into pages, and says how
\* many pages there are.
Ascending(T, P(_)) == SelectSeq([i \in 1 .. Len(T) |-> i], P)
Descending(T, P(_)) == SelectSeq([i \in 1 .. Len(T) |-> Len(T) + 1 - i], P)

\* Mutant: the last page that is not full is not counted.
FullPages(total, size) == total \div size

TotalPages(total, size) == (total + size - 1) \div size

NewPage(s, page, size) ==
  LET n == Len(s)  last == IF (page + 1) * size < n THEN (page + 1) * size ELSE n IN
  [content |-> SubSeq(s, page * size + 1, last), pages |-> TotalPages(n, size), total |-> n]

\* All pages a client sees who starts at page 0 and asks for as many as the
\* first one announced.
Browse(s, size) ==
  FlattenSeq([p \in 1 .. NewPage(s, 0, size).pages |-> NewPage(s, p - 1, size).content])

Alive(i) == ~acc[i].del
SearchAccounts(S) == Ascending(acc, LAMBDA i : Alive(i) /\ acc[i].owner \in S)
GetClientAccountsPage(o) == Ascending(acc, LAMBDA i : acc[i].owner = o /\ acc[i].st = "ACTIVE" /\ Alive(i))
FindClientAccounts(o) == Ascending(acc, LAMBDA i : acc[i].owner = o /\ Alive(i))
\* The bank's accounts are listed by id, and one missing answer fails it all.
GetBankAccounts == {i \in 1 .. Len(acc) : acc[i].owner = Bank}
GetAccountDetailsByID(i, guard) == {j \in getByNumber(i) : guard = 0 \/ acc[j].owner = guard}
GetAccountDetailsByNumber(i, guard) == {j \in getByNumber(i) : guard = 0 \/ acc[j].owner = guard}
GetBankAccountDetailsByCurrency(c) == GetBankAccount(c)

queryPayments(match) == Descending(paid, LAMBDA k : k \in match)
FindByClient(c) == queryPayments({k \in DOMAIN paid : paid[k].sender = c \/ paid[k].rec = c})
FindBySenderClient(c) == queryPayments({k \in DOMAIN paid : paid[k].sender = c})
FindByRecipientClient(c) == queryPayments({k \in DOMAIN paid : paid[k].rec = c})
MayReadAccount(c, i) == \E j \in getByNumber(i) : acc[j].owner = c
FindForAccount(c, i) ==
  IF MayReadAccount(c, i) THEN queryPayments({k \in DOMAIN paid : i \in {paid[k].from, paid[k].to}}) ELSE <<>>
FindPayments(c, i, st) ==
  IF MayReadAccount(c, i)
  THEN queryPayments({k \in DOMAIN paid : i \in {paid[k].from, paid[k].to} /\ paid[k].st \in st}) ELSE <<>>

queryTransfers(match) == Descending(trf, LAMBDA k : k \in match)
ListByClient(c) == queryTransfers({k \in DOMAIN trf : trf[k].client = c})
ListByAccount(c, i) ==
  IF MayReadAccount(c, i) THEN queryTransfers({k \in DOMAIN trf : i \in {trf[k].from, trf[k].to}}) ELSE <<>>
transferByOrder(k) == IF k \in 1 .. Len(trf) THEN {trf[k]} ELSE {}
GetDetails(c, k) == {row \in transferByOrder(k) : row.client = c}
ListRecipients(o) == Ascending(rcpt, LAMBDA k : rcpt[k].owner = o /\ ~rcpt[k].del)
--------------------------------------------------------------------------
BankNext ==
  \/ \E r \in Req :
       \/ Generate(r) \/ ValidateCode(r) \/ Status(r) \/ Expire(r)
       \/ PaymentStep(r) \/ TransferStep(r) \/ FundsStep(r) \/ InternalStep(r)
       \/ AccountsStep(r) \/ RecordStep(r) \/ RecipientStep(r) \/ JobStep(r)
  \/ \E k \in 1 .. Cardinality(Req) : SessionLate(k) \/ PaymentOld(k)

BankSpec == BankInit /\ [][BankNext]_bvars
--------------------------------------------------------------------------
\* Type invariant of the account, session, payment and transfer tables.
BankTypeOK ==
  /\ \A i \in 1 .. Len(acc) : /\ acc[i].cur \in Currency /\ acc[i].st \in {"ACTIVE", "INACTIVE"}
                               /\ acc[i].bal \in Int /\ acc[i].own \in {"PERSONAL", "BUSINESS"}
  /\ \A i \in 1 .. Len(sess) : /\ sess[i].st \in {"PENDING", "VERIFIED", "CANCELLED", "EXPIRED"}
                                /\ sess[i].tries \in 0 .. MaxAttempts
  /\ \A k \in 1 .. Len(paid) : paid[k].st \in {"IN_PROGRESS", "COMPLETED", "DENIED"}
  /\ \A k \in 1 .. Len(fundresv) : fundresv[k].st \in {"HELD", "RELEASED", "COMMITTED"}
  /\ \A k \in 1 .. Len(ilog) : ilog[k].st \in {"COMPLETED", "REVERSED"}

\* The money of one currency, wherever it is: on accounts and in reservations
\* that took it off an account and have not given it back.
Total(f) == SumFunctionOnSet(f, DOMAIN f)
OnAccounts(A, c) == Total([i \in 1 .. Len(A) |-> IF A[i].cur = c THEN A[i].bal ELSE 0])
HeldIn(row, c) == IF row.st # "RELEASED" /\ acc[row.a].cur = c THEN row.amt ELSE 0
Reserved(c) == Total([k \in 1 .. Len(fundresv) |-> HeldIn(fundresv[k], c)])

\* What a conversion leaves behind: an internal transfer between currencies
\* and a payment to the bank change no bank position in the other currency.
In(i, c, amt) == IF acc[i].cur = c THEN amt ELSE 0
CrossLogGap(c) ==
  Total([k \in 1 .. Len(ilog) |->
           IF k \in CrossRows THEN In(ilog[k].from, c, ilog[k].fee - ilog[k].amt) + In(ilog[k].to, c, ilog[k].in)
           ELSE 0])

ToBank(w) ==
  /\ w.kind \in {"payment", "transfer", "transaction"}
  /\ acc[w.to].owner = Bank /\ acc[w.from].cur # acc[w.to].cur
PaidIn(w, c) == IF ToBank(w) THEN In(w.to, c, PaymentOf(w).in) - In(w.from, c, w.amt) ELSE 0
ToBankGap(c) == Total([r \in Req |-> ghost.applied[r] * PaidIn(What[r], c)])

\* Money is neither made nor lost.  For every currency the accounts and open
\* reservations hold what was there at the start plus what entered from
\* outside, with the two known conversion gaps; a COMPLETED payment moved its
\* money exactly once and a DENIED one that has ended moved none; a transfer
\* has at most one row per session.  The exceptions are the races the code
\* has, each recorded when it happens: an answer to a commit that was lost,
\* a crash before the final status, two releases or two transfers that both
\* passed their check, fees computed from stale balances, and the reversal of
\* a transfer between currencies.
Books ==
  /\ \A i \in 1 .. Len(acc) : acc[i].bal >= 0
  /\ (ghost.odd \cap {"release", "fees", "reverse"}) = {} =>
       \A c \in Currency :
         OnAccounts(acc, c) + Reserved(c)
           = OnAccounts(Accounts0, c) + ghost.side[c] + CrossLogGap(c) + ToBankGap(c)
  /\ \A k \in 1 .. Len(paid) :
       LET n == ghost.applied[paid[k].r] IN
       /\ paid[k].st = "COMPLETED" => n >= 1 /\ ("lost" \notin ghost.odd => n = 1)
       /\ paid[k].st = "DENIED" /\ at[paid[k].r] = Done /\ (ghost.odd \cap {"lost", "crash"}) = {} => n = 0
  /\ \A k \in 1 .. Len(trf) :
       /\ ghost.applied[trf[k].r] = 1
       /\ \A m \in 1 .. Len(trf) : trf[m].session = trf[k].session => m = k
  /\ (ghost.odd \cap {"lost", "twice", "crash"}) = {} =>
       \A k \in 1 .. Len(trf), r \in Req :
         /\ What[r].kind = "transfer" /\ What[r].session = trf[k].session /\ r # trf[k].r
         /\ at[r] = Done
         => ghost.applied[r] = 0

\* Money moves only for a session somebody confirmed in time, whose wrong
\* codes stayed below the limit; the saved names stay distinct.  The two
\* races: Status writing EXPIRED over VERIFIED, and two clients' renames.
OnlyVerified ==
  /\ \A r \in Req :
       What[r].kind \in {"payment", "transfer"} /\ ghost.applied[r] > 0 =>
         \E s \in findSession(What[r].session) :
           /\ s.tries < MaxAttempts
           /\ s.st = "VERIFIED" \/ (s.st = "EXPIRED" /\ "expired" \in ghost.odd)
  /\ SessionsApart(sess)
  /\ \A i, j \in 1 .. Len(rcpt) : rcpt[i].owner = rcpt[j].owner /\ rcpt[i].name = rcpt[j].name => i = j

\* Lists agree with each other and lose nothing between pages: what a client
\* reads page by page is the whole list, sender and recipient lists make up
\* the client's list, an account's payments split by status, and every
\* transfer of one's own account is among one's transfers.
Sees(s) == {s[n] : n \in 1 .. Len(s)}
ViewsAgree ==
  /\ \A o \in {acc[i].owner : i \in 1 .. Len(acc)} :
       /\ \A size \in 1 .. 3 :
            /\ Browse(FindByClient(o), size) = FindByClient(o)
            /\ Browse(FindClientAccounts(o), size) = FindClientAccounts(o)
            /\ Browse(ListRecipients(o), size) = ListRecipients(o)
       /\ Sees(FindByClient(o)) = Sees(FindBySenderClient(o)) \cup Sees(FindByRecipientClient(o))
       /\ Sees(GetClientAccountsPage(o)) \subseteq Sees(FindClientAccounts(o))
       /\ Sees(FindClientAccounts(o)) = Sees(SearchAccounts({o}))
       /\ \A i \in 1 .. Len(acc) :
            /\ Sees(FindForAccount(o, i)) \subseteq Sees(FindByClient(o))
            /\ Sees(FindForAccount(o, i)) =
                 UNION {Sees(FindPayments(o, i, {st})) : st \in {"IN_PROGRESS", "COMPLETED", "DENIED"}}
            /\ Sees(ListByAccount(o, i)) \subseteq Sees(ListByClient(o))
            /\ GetAccountDetailsByID(i, o) = GetAccountDetailsByNumber(i, o)
       /\ \A k \in Sees(ListByClient(o)) : GetDetails(o, k) = transferByOrder(k)
  /\ \A c \in Currency : GetBankAccountDetailsByCurrency(c) \subseteq GetBankAccounts
==========================================================================
