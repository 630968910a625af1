------------------------------ MODULE Loans ------------------------------
(***************************************************************************)
(* The credit service: loan requests, their approval with the payout by    *)
(* banking-core, and the daily collection of installments                  *)
(* (credit-service-go/internal).                                           *)
(*                                                                         *)
(* An approval reads the request, pays the client through banking-core and *)
(* only then books loan and first installment in one transaction; each is  *)
(* a step.  The collection job is one goroutine: it lists the due          *)
(* installments and per installment charges the account and writes three   *)
(* rows in three statements.  Every call may be refused, or take effect    *)
(* and lose its answer; every statement may fail; the process may die.     *)
(* Amounts are whole units.  Dates are days still to wait, 0 when due.     *)
(***************************************************************************)
EXTENDS Integers, Sequences, FiniteSets, SequencesExt

CONSTANTS
  Request,     \* loan requests; the loan of a request has its id
  Officer,     \* concurrent calls of the confirmation endpoint
  User,        \* callers, with Role[u]
  Role,
  Form,        \* what a request asks for: [by, account, cur, amount, period, kind, variable]
  Account,     \* accounts, with AccountOwner[a] and AccountCurrency[a]
  AccountOwner,
  AccountCurrency,
  Tiers,       \* amountTiers, ascending
  BasePercent, TierStep, KindMargin, OverdueStep, ReferenceStep,
  RateBase,    \* a monthly rate is a number of parts of RateBase
  FxRate,      \* units of RSD per unit of a currency
  Month,       \* days to the next installment
  LoanScenarios  \* [requests, officers, may, budget]

VARIABLES
  lenv,        \* the scenario
  req,         \* status of each loan request
  loan,        \* loan rows
  inst,        \* installments of each loan, in the order they were created
  conf,        \* where each confirmation stands
  job,         \* where the collection job stands
  flow,        \* money moved per loan: paid out, charged; margin permissions
  lfaults      \* faults so far

lvars == <<lenv, req, loan, inst, conf, job, flow, lfaults>>

RequestStatus == {"none", "PENDING", "APPROVED", "DECLINED"}
LoanStatus == {"ACTIVE", "OVERDUE", "PAID_OFF"}
PaymentStatus == {"UNPAID", "OVERDUE", "PAID"}

NoLoan == [st |-> "none"]
Idle == [at |-> "idle"]
--------------------------------------------------------------------------
\* The interest table: larger amounts fall into higher, cheaper tiers.
TierIndex(amount) == Cardinality({i \in 1 .. Len(Tiers) - 1 : amount > Tiers[i]})

loanTypeMargin(kind) == KindMargin[kind]

calculateInterestRate(amount, kind, variable, status) ==
  BasePercent - TierStep * TierIndex(amount) + loanTypeMargin(kind)
  + (IF status = "OVERDUE" THEN OverdueStep ELSE 0)
  + (IF variable THEN ReferenceStep ELSE 0)

RoundDiv(x, y) == (2 * x + y) \div (2 * y)
Power(b, n) == FoldSeq(LAMBDA x, acc : x * acc, 1, [i \in 1 .. n |-> b])

\* The annuity that repays debt in n months at rate / RateBase a month.
monthlyRate(debt, n, rate) ==
  LET g == Power(RateBase + rate, n) IN
  RoundDiv(debt * rate * g, RateBase * (g - Power(RateBase, n)))

\* Exchange.Calculate.
ToRSD(cur, amount) == FxRate[cur] * amount

--------------------------------------------------------------------------
\* Handlers: who may call what.
HasAnyRole(u, roles) == Role[u] \in roles
Clients == {"CLIENT_BASIC", "CLIENT_TRADING"}
Staff == {"BASIC", "ADMIN", "SUPERVISOR", "AGENT"}
MayRequest(u) == HasAnyRole(u, Clients)
MayDecide(u) == HasAnyRole(u, Staff)
MayListRequests(u) == HasAnyRole(u, Staff)
MayListOwn(u) == HasAnyRole(u, Clients)
MayListAll(u) == HasAnyRole(u, Staff)
MayRead(u) == HasAnyRole(u, Clients \cup {"BASIC"})

validateLoanRequest(f) == f.amount > 0 /\ f.period > 0

Can(f) == f \in lenv.may
Fail(f) == Can(f) /\ lfaults < lenv.budget /\ lfaults' = lfaults + 1
NoFail == UNCHANGED lfaults

LoanInit ==
  /\ lenv \in LoanScenarios
  /\ req = [r \in Request |-> "none"]
  /\ loan = [r \in Request |-> NoLoan]
  /\ inst = [r \in Request |-> <<>>]
  /\ conf = [o \in Officer |-> Idle]
  /\ job = Idle
  /\ flow = [r \in Request |-> [out |-> 0, in |-> 0, margin |-> FALSE]]
  /\ lfaults = 0

GetDetails(a) == [ownerId |-> AccountOwner[a], currency |-> AccountCurrency[a]]
Save(r) == req' = [req EXCEPT ![r] = "PENDING"]

\* A client asks for a loan on an account of his, in the account's currency.
SubmitRequest(u, r) ==
  LET f == Form[r] IN
  /\ req[r] = "none"
  /\ MayRequest(u) /\ validateLoanRequest(f)
  /\ GetDetails(f.account) = [ownerId |-> u, currency |-> f.cur]
  /\ Save(r)
  /\ UNCHANGED <<lenv, loan, inst, conf, job, flow, lfaults>>

--------------------------------------------------------------------------
RequestByID(r) == req[r]

\* The read of the request at the start of a confirmation.
BeginConfirmation(u, o, r, verdict) ==
  /\ conf[o] = Idle /\ MayDecide(u)
  /\ RequestByID(r) = "PENDING"
  /\ Can("race") \/ \A p \in Officer : conf[p] = Idle
  /\ conf' = [conf EXCEPT ![o] =
       [at |-> IF verdict = "DECLINED" THEN "decline" ELSE "disburse", r |-> r]]
  /\ UNCHANGED <<lenv, req, loan, inst, job, flow, lfaults>>

UpdateStatusIfPending(r, status) ==
  req' = IF req[r] = "PENDING" THEN [req EXCEPT ![r] = status] ELSE req

Decline(o) ==
  /\ conf[o].at = "decline"
  /\ UpdateStatusIfPending(conf[o].r, "DECLINED")
  /\ conf' = [conf EXCEPT ![o] = Idle]
  /\ UNCHANGED <<lenv, loan, inst, job, flow, lfaults>>

\* TransactionFromBank: takes effect and answers, is refused, or takes effect
\* and loses its answer; the last two end the confirmation with an error.
TransactionFromBank(o) ==
  /\ conf[o].at = "disburse"
  /\ \E effect \in BOOLEAN, answered \in BOOLEAN :
       /\ answered => effect
       /\ IF answered THEN NoFail ELSE Fail(IF effect THEN "lost" ELSE "refuse")
       /\ flow' = [flow EXCEPT ![conf[o].r].out = @ + IF effect THEN 1 ELSE 0]
       /\ conf' = [conf EXCEPT ![o] = IF answered THEN [@ EXCEPT !.at = "book"] ELSE Idle]
  /\ UNCHANGED <<lenv, req, loan, inst, job>>

NewLoan(f) ==
  LET rate == calculateInterestRate(ToRSD(f.cur, f.amount), f.kind, f.variable, "ACTIVE") IN
  [st |-> "ACTIVE", debt |-> f.amount, count |-> 0,
   amt |-> monthlyRate(f.amount, f.period, rate), rate |-> rate]

NewInstallment(amt, rate) ==
  [amt |-> amt, rate |-> rate, due |-> Month, st |-> "UNPAID", retry |-> 0, principal |-> 0]

\* Mutant: the request's status is not looked at again.
ApproveUnconditionally(o) ==
  LET r == conf[o].r  l == NewLoan(Form[r]) IN
  /\ req' = [req EXCEPT ![r] = "APPROVED"]
  /\ loan' = [loan EXCEPT ![r] = l]
  /\ inst' = [inst EXCEPT ![r] = Append(@, NewInstallment(l.amt, l.rate))]
  /\ conf' = [conf EXCEPT ![o].at = "margin"]

\* One transaction: the status if still PENDING, the loan, its installment.
ApproveWithLoanAndInstallment(o) ==
  LET r == conf[o].r  l == NewLoan(Form[r]) IN
  IF req[r] = "PENDING"
  THEN /\ req' = [req EXCEPT ![r] = "APPROVED"]
       /\ loan' = [loan EXCEPT ![r] = l]
       /\ inst' = [inst EXCEPT ![r] = Append(@, NewInstallment(l.amt, l.rate))]
       /\ conf' = [conf EXCEPT ![o].at = "margin"]
  ELSE /\ conf' = [conf EXCEPT ![o] = Idle]
       /\ UNCHANGED <<req, loan, inst>>

Book(o) ==
  /\ conf[o].at = "book"
  /\ \/ ApproveWithLoanAndInstallment(o) /\ NoFail
     \/ /\ Fail("db")
        /\ conf' = [conf EXCEPT ![o] = Idle]
        /\ UNCHANGED <<req, loan, inst>>
  /\ UNCHANGED <<lenv, job, flow>>

\* The user service is asked for the client's margin permission; a failure is
\* answered as an error although the loan is booked.
AddMarginPermission(o) ==
  /\ conf[o].at = "margin"
  /\ \/ flow' = [flow EXCEPT ![conf[o].r].margin = TRUE] /\ NoFail
     \/ UNCHANGED flow /\ Fail("refuse")
  /\ conf' = [conf EXCEPT ![o] = Idle]
  /\ UNCHANGED <<lenv, req, loan, inst, job>>

--------------------------------------------------------------------------
\* Mutant: an OVERDUE installment is never tried again.
FindDueNotOverdue ==
  {r \in Request : \E k \in 1 .. Len(inst[r]) :
     inst[r][k].due = 0 /\ inst[r][k].st = "UNPAID"}

\* The due installments: at most one of a loan is open.
FindDueUnpaid ==
  {r \in Request : \E k \in 1 .. Len(inst[r]) :
     inst[r][k].due = 0 /\ inst[r][k].st # "PAID"}

Open(r) == CHOOSE k \in 1 .. Len(inst[r]) : inst[r][k].due = 0 /\ inst[r][k].st # "PAID"

\* The scheduler's tick starts a pass, which works on the list it reads now.
ProcessDueInstallments ==
  /\ job = Idle
  /\ FindDueUnpaid # {}
  /\ job' = [at |-> "charge", todo |-> FindDueUnpaid]
  /\ UNCHANGED <<lenv, req, loan, inst, conf, flow, lfaults>>

NextOf(j) ==
  IF j.todo = {j.r} THEN Idle ELSE [at |-> "charge", todo |-> j.todo \ {j.r}]

LoanByID(r) == loan[r]

\* TransactionToBank for the next installment of the list.
TransactionToBank(r) ==
  /\ job.at = "charge" /\ r \in job.todo
  /\ \E effect \in BOOLEAN, answered \in BOOLEAN :
       /\ answered => effect
       /\ IF answered THEN NoFail ELSE Fail(IF effect THEN "lost" ELSE "refuse")
       /\ flow' = [flow EXCEPT ![r].in = @ + IF effect THEN inst[r][Open(r)].amt ELSE 0]
       /\ job' = [at |-> IF answered THEN "paid" ELSE "retry", todo |-> job.todo,
                  r |-> r, k |-> Open(r), row |-> LoanByID(r)]
  /\ UNCHANGED <<lenv, req, loan, inst, conf>>

\* The first refusal waits three days, every later one is OVERDUE for a day.
MarkRetryOrOverdue(i) ==
  IF i.st # "OVERDUE" /\ i.retry = 0
  THEN [i EXCEPT !.retry = 1, !.due = 3]
  ELSE [i EXCEPT !.st = "OVERDUE", !.due = 1]

Retry ==
  LET i == inst[job.r][job.k] IN
  /\ job.at = "retry"
  /\ \/ /\ NoFail
        /\ inst' = [inst EXCEPT ![job.r][job.k] = MarkRetryOrOverdue(i)]
        /\ job' = IF i.retry > 0 \/ i.st = "OVERDUE"
                  THEN [job EXCEPT !.at = "overdue"] ELSE NextOf(job)
     \/ Fail("db") /\ job' = Idle /\ UNCHANGED inst
  /\ UNCHANGED <<lenv, req, loan, conf, flow>>

MarkOverdue ==
  /\ job.at = "overdue"
  /\ \/ NoFail /\ loan' = [loan EXCEPT ![job.r].st = "OVERDUE"] /\ job' = NextOf(job)
     \/ Fail("db") /\ job' = Idle /\ UNCHANGED loan
  /\ UNCHANGED <<lenv, req, inst, conf, flow>>

interestPart(j) == RoundDiv(j.row.debt * inst[j.r][j.k].rate, RateBase)
principalPart(j) == inst[j.r][j.k].amt - interestPart(j)

MarkPaid ==
  /\ job.at = "paid"
  /\ \/ /\ NoFail
        /\ inst' = [inst EXCEPT ![job.r][job.k] =
             [@ EXCEPT !.st = "PAID", !.principal = principalPart(job)]]
        /\ job' = [job EXCEPT !.at = "loan"]
     \/ Fail("db") /\ job' = Idle /\ UNCHANGED inst
  /\ UNCHANGED <<lenv, req, loan, conf, flow>>

NewDebt(j) == j.row.debt - principalPart(j)

Continues(j) == NewDebt(j) > 0 /\ j.row.count + 1 < Form[j.r].period

UpdateAfterInstallmentPayment ==
  /\ job.at = "loan"
  /\ \/ /\ NoFail
        /\ loan' = [loan EXCEPT ![job.r] =
             [@ EXCEPT !.debt = IF Continues(job) THEN NewDebt(job) ELSE 0,
                       !.count = job.row.count + 1,
                       !.st = IF Continues(job) THEN job.row.st ELSE "PAID_OFF"]]
        /\ job' = IF Continues(job) THEN [job EXCEPT !.at = "next"] ELSE NextOf(job)
     \/ Fail("db") /\ job' = Idle /\ UNCHANGED loan
  /\ UNCHANGED <<lenv, req, inst, conf, flow>>

\* The next installment, at the rate of the remaining debt.
NextInstallment(j) ==
  LET f == Form[j.r]
      rate == calculateInterestRate(NewDebt(j), f.kind, f.variable, j.row.st)
  IN NewInstallment(monthlyRate(NewDebt(j), f.period - j.row.count - 1, rate), rate)

CreateInstallment ==
  /\ job.at = "next"
  /\ \/ NoFail /\ inst' = [inst EXCEPT ![job.r] = Append(@, NextInstallment(job))]
               /\ job' = NextOf(job)
     \/ Fail("db") /\ job' = Idle /\ UNCHANGED inst
  /\ UNCHANGED <<lenv, req, loan, conf, flow>>

--------------------------------------------------------------------------
NextDay ==
  /\ job = Idle
  /\ FindDueUnpaid = {}
  /\ \E r \in Request, k \in 1 .. 9 : k <= Len(inst[r]) /\ inst[r][k].due > 0
  /\ inst' = [r \in Request |-> [k \in 1 .. Len(inst[r]) |->
       [inst[r][k] EXCEPT !.due = IF @ = 0 THEN 0 ELSE @ - 1]]]
  /\ UNCHANGED <<lenv, req, loan, conf, job, flow, lfaults>>

\* The process dies: confirmations and the pass of the job are forgotten.
CreditCrash ==
  /\ Fail("crash")
  /\ job # Idle \/ \E o \in Officer : conf[o] # Idle
  /\ conf' = [o \in Officer |-> Idle] /\ job' = Idle
  /\ UNCHANGED <<lenv, req, loan, inst, flow>>

JobStep ==
  \/ ProcessDueInstallments \/ (\E r \in Request : TransactionToBank(r))
  \/ Retry \/ MarkOverdue \/ MarkPaid \/ UpdateAfterInstallmentPayment
  \/ CreateInstallment \/ NextDay

LoanNext ==
  \/ \E u \in User, r \in lenv.requests : SubmitRequest(u, r)
  \/ \E u \in User, o \in lenv.officers, r \in Request, v \in {"APPROVED", "DECLINED"} :
       BeginConfirmation(u, o, r, v)
  \/ \E o \in Officer :
       Decline(o) \/ TransactionFromBank(o) \/ Book(o) \/ AddMarginPermission(o)
  \/ JobStep
  \/ CreditCrash

LoanSpec == LoanInit /\ [][LoanNext]_lvars
--------------------------------------------------------------------------
\* Lists come in pages; a page number starts at 0.
Page(s, page, size) ==
  SubSeq(s, page * size + 1, IF (page + 1) * size < Len(s) THEN (page + 1) * size ELSE Len(s))
TotalPages(total, size) == IF size > 0 THEN (total + size - 1) \div size ELSE 0

Booked == {r \in Request : loan[r] # NoLoan}
\* The orders that agree with the column a query sorts by: rows that tie come as they come,
\* and perhaps otherwise on the next page.
Orders(S, key(_)) ==
  {s \in [1 .. Cardinality(S) -> S] : \A i, j \in DOMAIN s : i < j => s[i] # s[j] /\ key(s[i]) <= key(s[j])}
AccountNumber(a) == CHOOSE n \in 1 .. Cardinality(Account) : SetToSeq(Account)[n] = a
\* The answers a page may give: by amount, the largest first, and by account number.
FindByClientID(c, page, size) ==
  {Page(s, page, size) : s \in Orders({r \in Booked : Form[r].by = c}, LAMBDA r : -Form[r].amount)}
FindAllWithFilters(kinds, accounts, statuses, page, size) ==
  {Page(s, page, size) :
     s \in Orders({r \in Booked : Form[r].kind \in kinds /\ Form[r].account \in accounts /\ loan[r].st \in statuses},
                  LAMBDA r : AccountNumber(Form[r].account))}
FindAll(kinds, accounts) ==
  {r \in Request : req[r] # "none" /\ Form[r].kind \in kinds /\ Form[r].account \in accounts}
FindAllLoanRequests(u, kinds, accounts) ==
  IF MayListRequests(u) THEN FindAll(kinds, accounts) ELSE {}
FindByLoanID(r) == inst[r]

\* The endpoint admits clients and BASIC, the service the owner and staff.
GetLoanInfo(u, r) ==
  /\ r \in Booked
  /\ MayRead(u)
  /\ Form[r].by = u \/ HasAnyRole(u, {"BASIC", "ADMIN"})
  /\ FindByLoanID(r) # <<>>

FindClientLoans(u, page, size) == IF MayListOwn(u) THEN FindByClientID(u, page, size) ELSE {<<>>}
FindAllLoans(u, kinds, accounts, statuses, page, size) ==
  IF MayListAll(u) THEN FindAllWithFilters(kinds, accounts, statuses, page, size) ELSE {<<>>}

--------------------------------------------------------------------------
\* Types of the requests, the loans and the workers.
LoanTypeOK ==
  /\ lenv \in LoanScenarios
  /\ req \in [Request -> RequestStatus]
  /\ \A r \in Booked :
       /\ loan[r].st \in LoanStatus /\ loan[r].debt \in Nat /\ loan[r].count \in Nat
       /\ \A k \in 1 .. Len(inst[r]) :
            inst[r][k].st \in PaymentStatus /\ inst[r][k].amt \in Nat /\ inst[r][k].due \in Nat
  /\ \A o \in Officer :
       conf[o].at \in {"idle", "decline", "disburse", "book", "margin"}
  /\ job.at \in {"idle", "charge", "retry", "overdue", "paid", "loan", "next"}
  /\ \A r \in Request : flow[r].out \in Nat /\ flow[r].in \in Nat /\ flow[r].margin \in BOOLEAN

WithoutL(fs) == lenv.may \cap fs = {}
PaidOf(r) == {k \in 1 .. Len(inst[r]) : inst[r][k].st = "PAID"}
SumOver(S, f(_)) == FoldSeq(LAMBDA k, acc : f(k) + acc, 0, SetToSeq(S))
Working(r) == job # Idle /\ "r" \in DOMAIN job /\ job.r = r

\* A loan is booked only for an approved request that was paid out, and, when
\* confirmations of a request do not overlap and none fails half-way, paid
\* out exactly once.
PaidOutOnce ==
  \A r \in Request :
    /\ req[r] = "APPROVED" <=> r \in Booked
    /\ r \in Booked => flow[r].out >= 1
    /\ WithoutL({"race", "lost", "db", "crash"}) /\ (\A o \in Officer : conf[o] = Idle) =>
         flow[r].out = IF r \in Booked THEN 1 ELSE 0

\* The installments of a loan: all but the last are paid, the loan's debt is
\* what their principal parts left of it, nothing is charged twice, and only a
\* fully paid loan is PAID_OFF, unless a statement fails in between.
ScheduleKept ==
  \A r \in Booked :
    /\ 1 .. Len(inst[r]) - 1 \subseteq PaidOf(r)
    /\ flow[r].in >= SumOver(PaidOf(r), LAMBDA k : inst[r][k].amt)
    /\ loan[r].st = "PAID_OFF" => loan[r].debt = 0 /\ PaidOf(r) = 1 .. Len(inst[r])
    /\ Len(inst[r]) <= Form[r].period
    /\ WithoutL({"db", "crash"}) /\ ~Working(r) =>
         /\ loan[r].count = Cardinality(PaidOf(r))
         /\ loan[r].debt + SumOver(PaidOf(r), LAMBDA k : inst[r][k].principal) = Form[r].amount
         /\ PaidOf(r) = 1 .. Len(inst[r]) => loan[r].st = "PAID_OFF"
         /\ WithoutL({"lost"}) =>
              flow[r].in = SumOver(PaidOf(r), LAMBDA k : inst[r][k].amt)

\* Whatever answers a reader gets who asks for n pages, he has seen r.
Seen(r, n, answers(_)) == \E p \in 0 .. n - 1 : \A page \in answers(p) : r \in ToSet(page)
\* The pages of a client's list are full but the last and hold each of his
\* loans when no two are of one amount, and the pages of the staff's list each
\* loan when no two are of one account; loans that tie may come twice or not
\* at all.  A page long enough holds all.  A client can open his own loans and
\* no other, and the staff's list of requests holds every booked one.
ListsComplete ==
  \A u \in User, size \in 1 .. 2 :
    LET mine == {r \in Booked : Form[r].by = u}
        pagesOf(S) == TotalPages(Cardinality(S), size)
        all(p, n) == FindAllLoans(u, DOMAIN KindMargin, Account, LoanStatus, p, n)
    IN /\ MayRequest(u) =>
            /\ \A p \in 0 .. pagesOf(mine) - 2 : \A page \in FindClientLoans(u, p, size) : Len(page) = size
            /\ (\A r, s \in mine : Form[r].amount = Form[s].amount => r = s) =>
                 \A r \in mine : Seen(r, pagesOf(mine), LAMBDA p : FindClientLoans(u, p, size))
            /\ {r \in Request : GetLoanInfo(u, r)} = mine
       /\ MayDecide(u) =>
            /\ (\A r, s \in Booked : Form[r].account = Form[s].account => r = s) =>
                 \A r \in Booked : Seen(r, pagesOf(Booked), LAMBDA p : all(p, size))
            /\ \A page \in all(0, Cardinality(Request)) : ToSet(page) = Booked
            /\ Booked \subseteq FindAllLoanRequests(u, DOMAIN KindMargin, Account)

\* The loan books are in order: paid out once, collected on schedule.
LoanBooks == PaidOutOnce /\ ScheduleKept

\* Every granted loan is paid off again and again, that is for good: through
\* refused charges, retries and overdue days, if no statement fails and the
\* process does not die.
AllRepaid ==
  \A r \in Request : loan[r] # NoLoan /\ WithoutL({"db", "crash"}) => loan[r].st = "PAID_OFF"
LoanRepaid == []<>AllRepaid

\* The scheduler ticks every day, and its pass runs to its end.
LoanFairness == WF_lvars(JobStep)
==========================================================================
