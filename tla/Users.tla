------------------------------- MODULE Users -------------------------------
(***************************************************************************)
(* The user service: employees and clients, login with lockout, refresh    *)
(* tokens, activation and password reset by mailed tokens, and the removal *)
(* of a supervisor who manages funds (user-service-go/internal/user).      *)
(*                                                                         *)
(* Every endpoint is a sequence of single SQL statements; the steps below  *)
(* are those statements.  A call carries the row it read, so overlapping   *)
(* calls may write back what another has changed.  Employees and clients   *)
(* have disjoint ids here.  Addresses and the JMBG are left out, a name is  *)
(* its place in the alphabet (two people may share one), and a             *)
(* password is the number of times it was set.                             *)
(***************************************************************************)
EXTENDS Integers, Sequences, FiniteSets, SequencesExt

CONSTANTS
  Employee, Client,
  EmpOrder,       \* employees in id order
  Named,          \* [Person -> Nat]: the place of their surname and name in the alphabet
  Call,           \* requests in progress
  MaxFails,       \* EmployeeLockoutAttempts
  MaxTokens,      \* bound: random tokens drawn
  MaxTries,       \* bound: wrong passwords per employee
  UserScenarios   \* [ops, who, changes, tokens, overlap, may, budget, start]

VARIABLES
  uenv,      \* the scenario
  person,    \* rows of employees and clients
  conf,      \* the confirmation token row of each person
  refresh,   \* live refresh tokens
  ucall,     \* where each request stands
  mint,      \* tokens drawn so far
  mailed,    \* confirmation tokens that reached their owner
  fund,      \* who manages the funds, in the trading service
  past,      \* history: wrong tries, uses of a token, switched off, moved to a role
  ufaults

uvars == <<uenv, person, conf, refresh, ucall, mint, mailed, fund, past, ufaults>>

Person == Employee \cup Client
Free == [at |-> "idle"]
NoToken == [tok |-> 0, live |-> FALSE]

\* The roles the code tells apart ("SERVICE" stands for any it does not), and
\* the permissions, by groups that no code separates.
UserRole == {"ADMIN", "SUPERVISOR", "AGENT", "BASIC", "SERVICE", "CLIENT_BASIC", "CLIENT_TRADING"}
Permission == {"basic", "limited", "unlimited", "manage", "trade", "access", "MARGIN_TRADE"}
PersonRow ==
  [row : {"none", "live", "deleted"}, active : BOOLEAN, role : UserRole, pw : Nat, fails : Nat,
   locked : BOOLEAN, perms : SUBSET Permission]
\* A request to change an employee may leave out each field.
Change == [active : {"keep", "yes", "no"}, role : UserRole \cup {"keep"}, margin : {"keep", "yes", "no"}]
--------------------------------------------------------------------------
employeePermissions(role) ==
  CASE role = "ADMIN" -> {"basic", "limited", "unlimited", "manage"}
    [] role = "SUPERVISOR" -> {"basic", "limited", "unlimited"}
    [] role = "AGENT" -> {"basic", "limited"}
    [] role = "BASIC" -> {"basic"}
    [] OTHER -> {}
clientPermissions(role) == IF role = "CLIENT_TRADING" THEN {"trade"} ELSE {"access"}

EmployeePermissions(e) ==
  IF person[e].perms = {} THEN employeePermissions(person[e].role) ELSE person[e].perms
ClientPermissions(c) ==
  IF person[c].perms = {} THEN clientPermissions(person[c].role) ELSE person[c].perms

\* Tables as the service writes them: nobody has failed to log in yet, and the
\* permissions stored are those of the role.
StartRow(p, r) ==
  /\ r.fails = 0 /\ ~r.locked
  /\ p \in Employee /\ r.perms # {} => r.perms \ {"MARGIN_TRADE"} = employeePermissions(r.role)
  /\ p \in Client /\ r.row # "none" => r.perms \ {"MARGIN_TRADE"} = clientPermissions(r.role)

ASSUME UsersAssumption ==
  /\ Employee \cap Client = {} /\ EmpOrder \in Seq(Employee)
  /\ MaxFails \in Nat \ {0} /\ MaxTokens \in Nat
  /\ \A e \in UserScenarios :
       /\ e.tokens \in 0 .. MaxTokens /\ e.budget \in Nat /\ e.overlap \in BOOLEAN
       /\ e.changes \subseteq Change
       /\ e.start \in [Person -> PersonRow] /\ \A p \in Person : StartRow(p, e.start[p])

\* Reads see rows that are not deleted.
Live(p) == person[p].row = "live"
EmployeeByID(e) == IF Live(e) THEN {person[e]} ELSE {}
ClientByID(c) == IF Live(c) THEN {person[c]} ELSE {}
EmployeeByLogin(e) == IF Live(e) THEN {person[e]} ELSE {}
ClientByEmail(c) == IF Live(c) THEN {person[c]} ELSE {}

FirstActiveEmployeeIDByRoleExcluding(role, e) ==
  LET fit == {i \in 1 .. Len(EmpOrder) :
               LET x == EmpOrder[i] IN Live(x) /\ person[x].active /\ person[x].role = role /\ x # e}
  IN {EmpOrder[i] : i \in {j \in fit : \A m \in fit : j <= m}}

OTCTradingClientIDs ==
  {c \in Client : Live(c) /\ person[c].active
                  /\ (person[c].role = "CLIENT_TRADING" \/ "trade" \in person[c].perms)}

\* RegisterRoutes: the roles an endpoint admits.
RequireAnyRole(u, roles) == Live(u) /\ person[u].role \in roles
MayEditClients(u) == RequireAnyRole(u, {"AGENT", "ADMIN", "SUPERVISOR"})

--------------------------------------------------------------------------
On(op) == op \in uenv.ops
UMay(f) == f \in uenv.may
UFail(f) == UMay(f) /\ ufaults < uenv.budget /\ ufaults' = ufaults + 1
UNoFail == UNCHANGED ufaults
Alone == uenv.overlap \/ \A j \in Call : ucall[j] = Free
Starts(k) == Alone /\ ucall[k] = Free
StepTo(k, at) == ucall' = [ucall EXCEPT ![k].at = at]
EndCall(k) == ucall' = [ucall EXCEPT ![k] = Free]
At(k, at) == ucall[k].at = at

UserStart ==
  /\ person = uenv.start
  /\ conf = [p \in Person |-> NoToken]
  /\ refresh = {} /\ mint = 0 /\ mailed = {}
  /\ ucall = [k \in Call |-> Free]
  /\ past = [wrong |-> [e \in Employee |-> 0], ended |-> [e \in Employee |-> FALSE],
             expired |-> [p \in Person |-> FALSE],
             spent |-> [t \in 1 .. MaxTokens |-> 0], off |-> {}, moved |-> {}, orphan |-> FALSE]
  /\ ufaults = 0

MayManage(e) == Live(e) /\ person[e].active /\ person[e].role = "SUPERVISOR"
UserInit == uenv \in UserScenarios /\ UserStart /\ fund \in {e \in Employee : MayManage(e)}

--------------------------------------------------------------------------
\* EmployeeLogin: the row, its checks and the password, read at once.
EmployeeLogin(k, e, ok) ==
  /\ On("login") /\ Starts(k)
  /\ \E row \in EmployeeByLogin(e) :
       /\ row.active /\ ~row.locked
       /\ ok => row.pw > 0
       /\ ~ok => past.wrong[e] < MaxTries
       /\ ucall' = [ucall EXCEPT ![k] =
            [at |-> IF ok THEN "issue" ELSE "fail", p |-> e, row |-> row]]
  /\ UNCHANGED <<uenv, person, conf, refresh, mint, mailed, fund, past, ufaults>>

\* Mutant: the attempt that reaches the limit does not lock.
RegisterFailureOffByOne(row) ==
  [row EXCEPT !.fails = @ + 1, !.locked = row.fails >= MaxFails]

\* The failure counter and the lock, computed from the row that was read.
RegisterFailedEmployeeLogin(row) ==
  [row EXCEPT !.fails = @ + 1, !.locked = row.fails + 1 >= MaxFails]

FailLogin(k) ==
  LET e == ucall[k].p  row == RegisterFailedEmployeeLogin(ucall[k].row) IN
  /\ At(k, "fail")
  /\ \/ UNoFail /\ person' = [person EXCEPT ![e].fails = row.fails, ![e].locked = row.locked]
     \/ UFail("db") /\ UNCHANGED person
  /\ past' = [past EXCEPT !.wrong[e] = @ + 1,
                          !.ended[e] = @ /\ row.fails < MaxFails]
  /\ EndCall(k)
  /\ UNCHANGED <<uenv, conf, refresh, mint, mailed, fund>>

Draw == mint < uenv.tokens /\ mint' = mint + 1

StoreEmployeeRefreshToken(e, s) ==
  refresh' = refresh \cup {[tok |-> mint', of |-> e, session |-> s]}

IssueTokens(k) ==
  /\ At(k, "issue") /\ Draw
  /\ \/ UNoFail /\ StoreEmployeeRefreshToken(ucall[k].p, mint') /\ StepTo(k, "reset")
     \/ UFail("db") /\ UNCHANGED refresh /\ EndCall(k)
  /\ UNCHANGED <<uenv, person, conf, mailed, fund, past>>

ResetEmployeeLoginFailures(k) ==
  LET e == ucall[k].p IN
  /\ At(k, "reset")
  /\ \/ UNoFail /\ person' = [person EXCEPT ![e].fails = 0, ![e].locked = FALSE]
     \/ UFail("db") /\ UNCHANGED person
  /\ past' = [past EXCEPT !.wrong[e] = 0]
  /\ EndCall(k)
  /\ UNCHANGED <<uenv, conf, refresh, mint, mailed, fund>>

\* The lockout's time passes; the counter stays.
LockEnds(e) ==
  /\ On("login") /\ person[e].locked
  /\ person' = [person EXCEPT ![e].locked = FALSE]
  /\ past' = [past EXCEPT !.ended[e] = TRUE]
  /\ UNCHANGED <<uenv, conf, refresh, ucall, mint, mailed, fund, ufaults>>

\* A client has no lockout and no refresh token: nothing is written.
ClientLogin(c) == {row \in ClientByEmail(c) : row.active /\ row.pw > 0}

\* EmployeeRefresh: the token is read, then deleted, then a new one stored.
EmployeeByRefreshToken(t) == {r \in refresh : r.tok = t /\ Live(r.of)}

EmployeeRefresh(k, t) ==
  /\ On("refresh") /\ Starts(k)
  /\ \E r \in EmployeeByRefreshToken(t) :
       ucall' = [ucall EXCEPT ![k] = [at |-> "rotate", p |-> r.of, r |-> r]]
  /\ UNCHANGED <<uenv, person, conf, refresh, mint, mailed, fund, past, ufaults>>

DeleteRefreshToken(t) == {r \in refresh : r.tok # t}

RotateDelete(k) ==
  /\ At(k, "rotate")
  /\ \/ UNoFail /\ refresh' = DeleteRefreshToken(ucall[k].r.tok)
     \/ UFail("db") /\ UNCHANGED refresh
  /\ StepTo(k, "restore")
  /\ UNCHANGED <<uenv, person, conf, mint, mailed, fund, past>>

RotateStore(k) ==
  /\ At(k, "restore") /\ Draw
  /\ \/ UNoFail /\ StoreEmployeeRefreshToken(ucall[k].p, ucall[k].r.session)
     \/ UFail("db") /\ UNCHANGED refresh
  /\ EndCall(k)
  /\ UNCHANGED <<uenv, person, conf, mailed, fund, past>>

\* Logout, and the expiry of a refresh token.
Logout(t) ==
  /\ On("refresh") /\ refresh # DeleteRefreshToken(t)
  /\ refresh' = DeleteRefreshToken(t)
  /\ UNCHANGED <<uenv, person, conf, ucall, mint, mailed, fund, past, ufaults>>

--------------------------------------------------------------------------
\* One confirmation row per person: a new token replaces the old one.
UpsertConfirmation(p) ==
  /\ conf' = [conf EXCEPT ![p] = [tok |-> mint', live |-> TRUE]]
  /\ past' = [past EXCEPT !.expired[p] = FALSE]
UpsertEmployeeConfirmation(p) == p \in Employee /\ UpsertConfirmation(p)
UpsertClientConfirmation(p) == p \in Client /\ UpsertConfirmation(p)

\* publishEmail: a lost mail leaves the stored token unknown to its owner.
publishEmail(p) ==
  \/ UNoFail /\ mailed' = mailed \cup {[tok |-> mint', of |-> p]}
  \/ UFail("mail") /\ UNCHANGED mailed

SendToken(p) ==
  /\ Alone /\ Draw
  /\ UpsertEmployeeConfirmation(p) \/ UpsertClientConfirmation(p)
  /\ publishEmail(p)
  /\ UNCHANGED <<uenv, person, refresh, ucall, fund>>

EmployeeForgotPassword(e) ==
  On("reset") /\ (\E row \in EmployeeByLogin(e) : row.active) /\ SendToken(e)
EmployeeResendActivation(e) ==
  On("reset") /\ (\E row \in EmployeeByLogin(e) : ~row.active) /\ SendToken(e)
ClientForgotPassword(c) ==
  On("reset") /\ (\E row \in ClientByEmail(c) : row.active) /\ SendToken(c)
ClientResendActivation(c) ==
  On("reset") /\ (\E row \in ClientByEmail(c) : ~row.active) /\ SendToken(c)

ConfirmationIDByToken(t) == {p \in Person : conf[p].live /\ conf[p].tok = t}
CheckEmployeeToken(t) == ConfirmationIDByToken(t) \cap Employee
CheckClientToken(t) == ConfirmationIDByToken(t) \cap Client

\* The first statement sets the password and switches the account on; the
\* second, whose error is ignored, spends the person's token row.
SetPassword(k, t, who) ==
  \E p \in who :
    /\ person' = [person EXCEPT ![p].pw = @ + 1, ![p].active = TRUE]
    /\ past' = [past EXCEPT !.spent[t] = @ + 1, !.off = @ \ {p}]
    /\ ucall' = [ucall EXCEPT ![k] = [at |-> "spend", p |-> p]]
ActivateEmployeePassword(k, t) == SetPassword(k, t, CheckEmployeeToken(t))
ActivateClientPassword(k, t) == SetPassword(k, t, CheckClientToken(t))

\* employeeActivate: a token no employee has is tried as a client's.
Activate(k, m) ==
  /\ On("reset") /\ Starts(k) /\ m \in mailed
  /\ \/ ActivateEmployeePassword(k, m.tok)
     \/ CheckEmployeeToken(m.tok) = {} /\ ActivateClientPassword(k, m.tok)
  /\ UNCHANGED <<uenv, conf, refresh, mint, mailed, fund, ufaults>>

SpendToken(k) ==
  /\ At(k, "spend")
  /\ \/ UNoFail /\ conf' = [conf EXCEPT ![ucall[k].p].live = FALSE]
     \/ UFail("db") /\ UNCHANGED conf
  /\ EndCall(k)
  /\ UNCHANGED <<uenv, person, refresh, mint, mailed, fund, past>>

TokenExpires(p) ==
  /\ On("reset") /\ conf[p].live
  /\ conf' = [conf EXCEPT ![p].live = FALSE]
  /\ past' = [past EXCEPT !.expired[p] = TRUE]
  /\ UNCHANGED <<uenv, person, refresh, ucall, mint, mailed, fund, ufaults>>

--------------------------------------------------------------------------
NewRow(role, active, perms) ==
  [row |-> "live", active |-> active, role |-> role, pw |-> 0, fails |-> 0,
   locked |-> FALSE, perms |-> perms]

\* A new employee is active unless the request says no, a client never is;
\* the token row and its mail follow, and their errors are ignored.
CreateEmployee(u, e, role) ==
  /\ Alone /\ On("staff") /\ RequireAnyRole(u, {"ADMIN"}) /\ person[e].row = "none"
  /\ \E active \in BOOLEAN :
       person' = [person EXCEPT ![e] = NewRow(role, active, employeePermissions(role))]
  /\ Draw /\ UpsertEmployeeConfirmation(e) /\ publishEmail(e)
  /\ UNCHANGED <<uenv, refresh, ucall, fund>>

CreateClient(u, c, role) ==
  /\ Alone /\ On("client") /\ MayEditClients(u) /\ person[c].row = "none"
  /\ person' = [person EXCEPT ![c] = NewRow(role, FALSE, clientPermissions(role))]
  /\ Draw /\ UpsertClientConfirmation(c) /\ publishEmail(c)
  /\ UNCHANGED <<uenv, refresh, ucall, fund>>

\* UpdateClient writes back the row it read; permissions are not touched.
BeginUpdateClient(k, u, c, role) ==
  /\ On("client") /\ Starts(k) /\ MayEditClients(u)
  /\ \E row \in ClientByID(c) :
       ucall' = [ucall EXCEPT ![k] =
         [at |-> "client", p |-> c, role |-> IF role = "keep" THEN row.role ELSE role]]
  /\ UNCHANGED <<uenv, person, conf, refresh, mint, mailed, fund, past, ufaults>>

UpdateClient(k) ==
  LET c == ucall[k].p IN
  /\ At(k, "client")
  /\ IF Live(c)
     THEN /\ person' = [person EXCEPT ![c].role = ucall[k].role]
          /\ past' = [past EXCEPT !.moved = IF ucall[k].role = person[c].role THEN @ ELSE @ \cup {c}]
     ELSE UNCHANGED <<person, past>>
  /\ EndCall(k)
  /\ UNCHANGED <<uenv, conf, refresh, mint, mailed, fund, ufaults>>

AddClientMarginPermission(c) ==
  /\ Alone /\ On("client") /\ person[c].row # "none"
  /\ person' = [person EXCEPT ![c].perms = @ \cup {"MARGIN_TRADE"}]
  /\ UNCHANGED <<uenv, conf, refresh, ucall, mint, mailed, fund, past, ufaults>>

SoftDeleteClient(u, c) ==
  /\ Alone /\ On("client") /\ RequireAnyRole(u, {"ADMIN"}) /\ Live(c)
  /\ person' = [person EXCEPT ![c].row = "deleted"]
  /\ UNCHANGED <<uenv, conf, refresh, ucall, mint, mailed, fund, past, ufaults>>

\* UpdateEmployee, statement by statement: the service reads the row, the
\* repository reads it again and writes it, then permissions and funds.
BeginUpdateEmployee(k, u, e, ch) ==
  /\ On("staff") /\ Starts(k)
  /\ RequireAnyRole(u, {"AGENT", "ADMIN", "SUPERVISOR"})
  /\ \E row \in EmployeeByID(e) :
       /\ ~(person[u].role = "ADMIN" /\ row.role = "ADMIN" /\ u # e)
       /\ ucall' = [ucall EXCEPT ![k] = [at |-> "reread", p |-> e, row |-> row, cur |-> row, ch |-> ch]]
  /\ UNCHANGED <<uenv, person, conf, refresh, mint, mailed, fund, past, ufaults>>

\* editEmployee: one's own row, without role and activity.
EditEmployee(k, e) ==
  BeginUpdateEmployee(k, e, e, [active |-> "keep", role |-> "keep", margin |-> "keep"])

RereadEmployee(k) ==
  LET e == ucall[k].p IN
  /\ At(k, "reread")
  /\ IF Live(e) THEN ucall' = [ucall EXCEPT ![k].at = "update", ![k].cur = person[e]] ELSE EndCall(k)
  /\ UNCHANGED <<uenv, person, conf, refresh, mint, mailed, fund, past, ufaults>>

\* Every column is written: a field the request omits gets the value read.
WrittenRow(row, ch) ==
  [role |-> IF ch.role = "keep" THEN row.role ELSE ch.role,
   active |-> IF ch.active = "keep" THEN row.active ELSE ch.active = "yes"]

UpdateEmployee(k) ==
  LET e == ucall[k].p  ch == ucall[k].ch  w == WrittenRow(ucall[k].cur, ch) IN
  /\ At(k, "update")
  /\ IF Live(e)
     THEN /\ person' = [person EXCEPT ![e].role = w.role, ![e].active = w.active]
          /\ past' = [past EXCEPT !.off = IF ch.active = "no" THEN @ \cup {e}
                                          ELSE IF ch.active = "yes" THEN @ \ {e} ELSE @]
          /\ StepTo(k, IF ch.role # "keep" \/ ch.margin # "keep" THEN "perms" ELSE "funds")
     ELSE UNCHANGED <<person, past>> /\ EndCall(k)
  /\ UNCHANGED <<uenv, conf, refresh, mint, mailed, fund, ufaults>>

ReplaceEmployeePermissions(k) ==
  LET e == ucall[k].p IN
  /\ At(k, "perms")
  /\ \/ /\ UNoFail /\ StepTo(k, "funds")
        /\ person' = [person EXCEPT ![e].perms = employeePermissions(person[e].role)
             \cup IF ucall[k].ch.margin = "yes" THEN {"MARGIN_TRADE"} ELSE {}]
     \/ UFail("db") /\ EndCall(k) /\ UNCHANGED person
  /\ UNCHANGED <<uenv, conf, refresh, mint, mailed, fund, past>>

\* DeleteEmployee.
SoftDeleteEmployee(k, u, e) ==
  /\ On("staff") /\ Starts(k) /\ RequireAnyRole(u, {"ADMIN"}) /\ Live(e)
  /\ person' = [person EXCEPT ![e].row = "deleted"]
  /\ ucall' = [ucall EXCEPT ![k] = [at |-> "funds", p |-> e, row |-> person[e], cur |-> person[e],
                                    ch |-> [active |-> "no", role |-> "keep", margin |-> "keep"]]]
  /\ UNCHANGED <<uenv, conf, refresh, mint, mailed, fund, past, ufaults>>

\* The trading service moves the old manager's funds to the new one.
callFundManagerReassign(old, new) == fund' = IF fund = old THEN new ELSE fund

Removed(k) ==
  /\ ucall[k].row.role = "SUPERVISOR"
  /\ \/ ucall[k].ch.active = "no"
     \/ ucall[k].ch.role \notin {"keep", "SUPERVISOR"}

\* A removed supervisor's funds go to the first other one; the call may fail
\* or find nobody, and neither is an error.
reassignFundsIfSupervisorRemoved(k) ==
  LET e == ucall[k].p  heir == FirstActiveEmployeeIDByRoleExcluding("SUPERVISOR", e) IN
  /\ At(k, "funds")
  /\ \/ ~Removed(k) /\ UNoFail /\ UNCHANGED <<fund, past>>
     \/ /\ Removed(k) /\ heir = {} /\ UNoFail
        /\ past' = [past EXCEPT !.orphan = TRUE] /\ UNCHANGED fund
     \/ Removed(k) /\ UNoFail /\ (\E h \in heir : callFundManagerReassign(e, h)) /\ UNCHANGED past
     \/ Removed(k) /\ heir # {} /\ UFail("trading") /\ UNCHANGED <<fund, past>>
  /\ EndCall(k)
  /\ UNCHANGED <<uenv, person, conf, refresh, mint, mailed>>

--------------------------------------------------------------------------
Staff == Employee \cap uenv.who
Customers == Client \cap uenv.who

UserNext ==
  \/ \E k \in Call, e \in Staff, ok \in BOOLEAN : EmployeeLogin(k, e, ok)
  \/ \E k \in Call :
       \/ FailLogin(k) \/ IssueTokens(k) \/ ResetEmployeeLoginFailures(k)
       \/ RotateDelete(k) \/ RotateStore(k) \/ SpendToken(k) \/ UpdateClient(k)
       \/ RereadEmployee(k) \/ UpdateEmployee(k) \/ ReplaceEmployeePermissions(k)
       \/ reassignFundsIfSupervisorRemoved(k)
  \/ \E e \in Staff :
       LockEnds(e) \/ EmployeeForgotPassword(e) \/ EmployeeResendActivation(e)
  \/ \E k \in Call, r \in refresh : EmployeeRefresh(k, r.tok)
  \/ \E r \in refresh : Logout(r.tok)
  \/ \E c \in Customers : ClientForgotPassword(c) \/ ClientResendActivation(c)
                       \/ AddClientMarginPermission(c)
  \/ \E k \in Call, m \in mailed : Activate(k, m)
  \/ \E p \in Person : TokenExpires(p)
  \/ \E u \in Employee, e \in Staff, role \in {"AGENT", "SUPERVISOR"} : CreateEmployee(u, e, role)
  \/ \E u \in Employee, c \in Customers, role \in {"CLIENT_BASIC", "CLIENT_TRADING"} :
       CreateClient(u, c, role)
  \/ \E k \in Call, u \in Employee, c \in Customers, role \in {"keep", "CLIENT_TRADING"} :
       BeginUpdateClient(k, u, c, role)
  \/ \E u \in Employee, c \in Customers : SoftDeleteClient(u, c)
  \/ \E k \in Call, u \in Employee, e \in Staff, ch \in uenv.changes : BeginUpdateEmployee(k, u, e, ch)
  \/ \E k \in Call, e \in Staff : EditEmployee(k, e)
  \/ \E k \in Call, u \in Employee, e \in Staff : SoftDeleteEmployee(k, u, e)

UserSpec == UserInit /\ [][UserNext]_uvars
--------------------------------------------------------------------------
\* Searches show the live rows in pages of 1 to 100.
normalizePage(page, size) ==
  [page |-> IF page < 0 THEN 0 ELSE page,
   size |-> IF size <= 0 THEN 10 ELSE IF size > 100 THEN 100 ELSE size]

Slice(s, q) ==
  SubSeq(s, q.page * q.size + 1,
         IF (q.page + 1) * q.size < Len(s) THEN (q.page + 1) * q.size ELSE Len(s))

\* page: the content with what the caller needs to go on.
PageResponse(s, q) ==
  LET pages == (Len(s) + q.size - 1) \div q.size IN
  [content |-> Slice(s, q), totalPages |-> pages, last |-> pages = 0 \/ q.page >= pages - 1]

\* ORDER BY prezime, ime: any order that agrees with the names; people of one name come as
\* they come, and perhaps otherwise on the next page.
NameOrders(S) ==
  {s \in [1 .. Cardinality(S) -> S] :
     \A i, j \in DOMAIN s : i < j => s[i] # s[j] /\ Named[s[i]] <= Named[s[j]]}
\* The answers a search may give.
queryEmployees(match, q) == {PageResponse(s, q) : s \in NameOrders({e \in Employee : Live(e) /\ e \in match})}
queryClients(match, q) == {PageResponse(s, q) : s \in NameOrders({c \in Client : Live(c) /\ c \in match})}
SearchEmployees(match, page, size) == queryEmployees(match, normalizePage(page, size))
SearchClients(match, page, size) == queryClients(match, normalizePage(page, size))

\* Another bank shows a name by kind and id.
InterbankUserDisplay(kind, p) ==
  CASE kind = "CLIENT" /\ p \in Client -> ClientByID(p)
    [] kind = "EMPLOYEE" /\ p \in Employee -> EmployeeByID(p)
    [] OTHER -> {}

--------------------------------------------------------------------------
\* Types of the rows, the tokens and the fund's manager.
UserTypeOK ==
  /\ person \in [Person -> PersonRow]
  /\ mint \in 0 .. MaxTokens
  /\ conf \in [Person -> [tok : 0 .. mint, live : BOOLEAN]]
  /\ refresh \subseteq [tok : 1 .. mint, of : Employee, session : 1 .. mint]
  /\ mailed \subseteq [tok : 1 .. mint, of : Person]
  /\ fund \in Employee

Calm == ~uenv.overlap /\ ~UMay("db")
Rest == \A k \in Call : ucall[k] = Free

\* Wrong passwords are counted, and enough of them lock the account until
\* the lockout ends, when logins do not overlap.
LockoutKept ==
  \A e \in Employee :
    /\ person[e].locked => person[e].fails >= MaxFails
    /\ Calm /\ Rest =>
         /\ person[e].fails = past.wrong[e]
         /\ person[e].fails >= MaxFails /\ ~past.ended[e] => person[e].locked

\* A login leaves one valid refresh token however often it is renewed.
OneTokenPerSession ==
  Calm => \A r, s \in refresh : r.session = s.session => r = s

\* A mailed token sets a password once; the latest one works until it is
\* used, replaced or out of date; a token never sets another's password.
TokensWork ==
  Calm /\ Rest =>
    /\ \A t \in 1 .. MaxTokens : past.spent[t] <= 1
    /\ \A m \in mailed : conf[m.of].tok = m.tok /\ ~past.expired[m.of] =>
         (conf[m.of].live <=> past.spent[m.tok] = 0)

\* A switched-off account stays off until someone switches it on.
StaysOff == ~uenv.overlap => \A e \in past.off : ~person[e].active

\* The permissions at a login are those of the role, plus margin trading: an
\* employee's once an update has run to its end, a client's unless an update
\* gave him another role, which leaves his stored permissions as they are.
PermissionsFollowRole ==
  /\ Calm /\ Rest => \A e \in Employee : Live(e) =>
       EmployeePermissions(e) \ {"MARGIN_TRADE"} = employeePermissions(person[e].role)
  /\ \A c \in Client : ClientLogin(c) # {} /\ c \notin past.moved =>
       ClientPermissions(c) \ {"MARGIN_TRADE"} = clientPermissions(person[c].role)

\* The funds' manager is an active supervisor unless none was left when the
\* manager was removed, or the trading service could not be told.
FundsManaged ==
  Calm /\ Rest /\ ~UMay("trading") /\ ~past.orphan => MayManage(fund)

\* A reader who turns pages up to the first that says it is the last has seen
\* full pages of live employees and, when no two of them have one name, every
\* one of them (with a shared name one may come twice and another not at all);
\* a search that fits one page shows every live client, and OTC lists only
\* clients another bank can be shown.
SearchesComplete ==
  /\ \A size \in 1 .. 2 :
       LET live == {e \in Employee : Live(e)}
           end == (Cardinality(live) - 1) \div size
       IN /\ \A p \in 0 .. end : \A a \in SearchEmployees(Employee, p, size) :
               a.last = (p = end) /\ (p < end => Len(a.content) = size)
          /\ (\A e, f \in live : Named[e] = Named[f] => e = f) =>
               \A e \in live : \E p \in 0 .. end : \A a \in SearchEmployees(Employee, p, size) : e \in ToSet(a.content)
  /\ \A r \in SearchClients(Client, 0, 0) : ToSet(r.content) = {c \in Client : Live(c)}
  /\ \A c \in OTCTradingClientIDs : InterbankUserDisplay("CLIENT", c) # {}

\* What the user service promises of its accounts, whichever requests it served.
AccountsInOrder ==
  /\ LockoutKept /\ OneTokenPerSession /\ TokensWork /\ StaysOff
  /\ PermissionsFollowRole /\ FundsManaged
==========================================================================
