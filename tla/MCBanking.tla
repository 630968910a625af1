----------------------------- MODULE MCBanking -----------------------------
(***************************************************************************)
(* The banking side as one instance for TLC: ledger, client banking, bank   *)
(* products, loans, notifications and users.  These components have         *)
(* databases of their own and meet here through no variable, so a behaviour *)
(* is of one of them (part); the ledger and the accounts rest in their      *)
(* first state, the notifications without a row, the users without a        *)
(* request, and the others at 0.                                            *)
(***************************************************************************)
EXTENDS MonasLedger, ClientBanking, MCNotifications, MCUsers

CONSTANTS
  Accounts0p, Transfers0, RetryMaxAttempts, FailureThreshold, SuccessThreshold, ProductScenarios,
  Request, Officer, User, Role, Form, Account, AccountOwner, AccountCurrency, Tiers, BasePercent,
  TierStep, KindMargin, OverdueStep, ReferenceStep, RateBase, FxRate, Month, LoanScenarios

VARIABLES
  part,
  penv, pacc, cards, persons, margin, mlog, ext, rlog, lock, breaker, mq, settled, gdprlog,
  pat, pghost, pfaults,
  lenv, req, loan, inst, lconf, job, flow, lfaults

P == INSTANCE BankProducts
L == INSTANCE Loans WITH conf <- lconf

\* The values of their constants, which depend on no constant that gets a value here.
BV == INSTANCE MCClientBanking WITH Accounts0 <- 0, BankScenarios <- 0
PV == INSTANCE MCBankProducts WITH Accounts0p <- 0, Transfers0 <- 0, ProductScenarios <- 0
LV == INSTANCE MCLoans WITH Role <- 0, Form <- 0, AccountOwner <- 0, AccountCurrency <- 0, Tiers <- 0,
                            KindMargin <- 0, FxRate <- 0, LoanScenarios <- 0, conf <- lconf

\* Two accounts, three reservations, two of them on the same account.
Sources == [t1 |-> "a1", t2 |-> "a1", t3 |-> "a2"]
Amounts == [t1 |-> 1, t2 |-> 2, t3 |-> 2]
Opening == [a1 |-> 2, a2 |-> 2]
BankAccounts == BV!BankAccounts
BankCases == BV!BankCases
ProductAccounts == PV!ProductAccounts
ProductTransfers == PV!ProductTransfers
ProductCases == PV!ProductCases
LoanRole == LV!LoanRole
LoanForm == LV!LoanForm
LoanOwner == LV!LoanOwner
LoanCurrency == LV!LoanCurrency
LoanTiers == LV!LoanTiers
LoanMargin == LV!LoanMargin
LoanFx == LV!LoanFx
LoanCases == LV!LoanCases

productVars == <<penv, pacc, cards, persons, margin, mlog, ext, rlog, lock, breaker, mq, settled, gdprlog,
                 pat, pghost, pfaults>>
loanVars == <<lenv, req, loan, inst, lconf, job, flow, lfaults>>

NoRequests == [what |-> <<>>, sess |-> <<>>, may |-> {}, budget |-> 0]
BankRests == benv = NoRequests /\ BankStart
ProductsRest ==
  /\ penv = 0 /\ pacc = 0 /\ cards = 0 /\ persons = 0 /\ margin = 0 /\ mlog = 0 /\ ext = 0 /\ rlog = 0
  /\ lock = 0 /\ breaker = 0 /\ mq = 0 /\ settled = 0 /\ gdprlog = 0 /\ pat = 0 /\ pghost = 0 /\ pfaults = 0
LoansRest == lenv = 0 /\ req = 0 /\ loan = 0 /\ inst = 0 /\ lconf = 0 /\ job = 0 /\ flow = 0 /\ lfaults = 0
MailsRest == nenv = 0 /\ msg = 0 /\ rows = <<>> /\ att = 0 /\ device = 0 /\ sent = 0 /\ nfaults = 0
NoCalls == U({}, {}, {}, 0, FALSE, {}, 0, St("live", "live"))
UsersRest == uenv = NoCalls /\ UserStart /\ fund = "e2"

BankingInit ==
  /\ part \in {"ledger", "bank", "products", "loans", "mails", "users"}
  /\ LedgerInit
  /\ IF part = "bank" THEN BankInit ELSE BankRests
  /\ IF part = "products" THEN P!ProductInit ELSE ProductsRest
  /\ IF part = "loans" THEN L!LoanInit ELSE LoansRest
  /\ IF part = "mails" THEN NotifyInit ELSE MailsRest
  /\ IF part = "users" THEN UserInit ELSE UsersRest

LedgerStep ==
  part = "ledger" /\ LedgerNext /\ UNCHANGED <<part, bvars, productVars, loanVars, nvars, uvars>>
BankStep ==
  part = "bank" /\ BankNext /\ UNCHANGED <<part, ledgerVars, productVars, loanVars, nvars, uvars>>
ProductStep ==
  part = "products" /\ P!ProductNext /\ UNCHANGED <<part, ledgerVars, bvars, loanVars, nvars, uvars>>
LoanStep ==
  part = "loans" /\ L!LoanNext /\ UNCHANGED <<part, ledgerVars, bvars, productVars, nvars, uvars>>
MailStep ==
  part = "mails" /\ NotifyNext /\ UNCHANGED <<part, ledgerVars, bvars, productVars, loanVars, uvars>>
UserStep ==
  part = "users" /\ UserNext /\ UNCHANGED <<part, ledgerVars, bvars, productVars, loanVars, nvars>>

BankingNext == LedgerStep \/ BankStep \/ ProductStep \/ LoanStep \/ MailStep \/ UserStep

\* The installment job runs every day (LoanFairness of Loans), and the workers
\* and the retry poller of the notification service go on.
BankingSpec ==
  /\ BankingInit
  /\ [][BankingNext]_<<part, ledgerVars, bvars, productVars, loanVars, nvars, uvars>>
  /\ WF_loanVars(part = "loans" /\ L!JobStep)
  /\ WF_nvars(part = "mails" /\ WorkStep)
----------------------------------------------------------------------------
\* Every component keeps to its types.
BankingTypeOK ==
  /\ LedgerTypeOK
  /\ BankTypeOK
  /\ part = "products" => P!ProductTypeOK
  /\ part = "loans" => L!LoanTypeOK
  /\ part = "mails" => NotifyTypeOK
  /\ part = "users" => UserTypeOK

\* Cards stay within the limits of their account and leave their states in the
\* permitted order, margin loans add up, and an external transfer is settled as
\* it was answered, through retries and redelivered messages (CardsInOrder,
\* MarginBooks and TransfersTracked of BankProducts).
ProductsInOrder == part = "products" => P!CardsInOrder /\ P!MarginBooks /\ P!TransfersTracked

\* A loan is paid out once and collected on schedule (LoanBooks of Loans).
LoanBooks == part = "loans" => L!LoanBooks

\* What the services list, page by page, is what their tables hold, for the
\* readers who may see it (ViewsAgree of ClientBanking, ListsComplete of Loans
\* and SearchesComplete of Users).
ListsComplete ==
  /\ part = "bank" => ViewsAgree
  /\ part = "loans" => L!ListsComplete
  /\ part = "users" => SearchesComplete

\* What the background workers owe comes about: every granted loan is paid off,
\* through refused charges and overdue days, and every mail is sent or given up
\* (AllRepaid of Loans, AllDecided of Notifications).
WorkGetsDone == []<>((part = "loans" => L!AllRepaid) /\ (part = "mails" => AllDecided))
============================================================================
