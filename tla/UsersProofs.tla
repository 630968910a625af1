---------------------------- MODULE UsersProofs ----------------------------
(***************************************************************************)
(* Machine-checked proofs about Users, for every number of employees,      *)
(* clients, requests, tokens and wrong passwords, and any scenarios.       *)
(*                                                                         *)
(* UserInv says what each call carries, that what it read is still so when *)
(* calls do not overlap, and how the counters, the tokens, the permissions *)
(* and the fund's manager stand while a call is under way.  One lemma per  *)
(* kind of state and a step per action.                                    *)
(***************************************************************************)
EXTENDS Users, TLAPS

\* What is stored.
Past ==
  [wrong : [Employee -> Nat], ended : [Employee -> BOOLEAN], expired : [Person -> BOOLEAN],
   spent : [1 .. MaxTokens -> Nat], off : SUBSET Employee, moved : SUBSET Client, orphan : BOOLEAN]
Stored == uenv \in UserScenarios /\ UserTypeOK /\ past \in Past /\ ufaults \in Nat

\* What a call carries.
Refresh(n) == [tok : 1 .. n, of : Employee, session : 1 .. n]
LoginCall(c) ==
  /\ c.at \in {"fail", "issue", "reset"} /\ c = [at |-> c.at, p |-> c.p, row |-> c.row]
  /\ c.p \in Employee /\ c.row \in PersonRow
RenewCall(c, n) ==
  /\ c.at \in {"rotate", "restore"} /\ c = [at |-> c.at, p |-> c.p, r |-> c.r]
  /\ c.p \in Employee /\ c.r \in Refresh(n)
SpendCall(c) == c.at = "spend" /\ c = [at |-> c.at, p |-> c.p] /\ c.p \in Person
ClientCall(c) ==
  c.at = "client" /\ c = [at |-> c.at, p |-> c.p, role |-> c.role] /\ c.p \in Client /\ c.role \in UserRole
StaffCall(c) ==
  /\ c.at \in {"reread", "update", "perms", "funds"}
  /\ c = [at |-> c.at, p |-> c.p, row |-> c.row, cur |-> c.cur, ch |-> c.ch]
  /\ c.p \in Employee /\ c.row \in PersonRow /\ c.cur \in PersonRow /\ c.ch \in Change
Carries(c, n) ==
  c = Free \/ LoginCall(c) \/ RenewCall(c, n) \/ SpendCall(c) \/ ClientCall(c) \/ StaffCall(c)
CallsOK == DOMAIN ucall = Call /\ \A k \in Call : Carries(ucall[k], mint)

\* Without overlap there is one call, and what it read is still so.
OneCall ==
  ~uenv.overlap => \A j, k \in Call : ucall[j] # Free /\ ucall[k] # Free => j = k
ReadOK ==
  \A k \in Call :
    /\ At(k, "fail") => person[ucall[k].p].row # "none"
    /\ ~uenv.overlap =>
         /\ At(k, "fail") => ucall[k].row.fails = person[ucall[k].p].fails
         /\ At(k, "reread") \/ At(k, "update") => ucall[k].row.role = person[ucall[k].p].role
         /\ At(k, "update") =>
              /\ ucall[k].cur.role = person[ucall[k].p].role
              /\ ucall[k].cur.active = person[ucall[k].p].active

\* Wrong passwords.
CountOK ==
  \A e \in Employee :
    /\ person[e].row = "none" => past.wrong[e] = 0
    /\ person[e].locked => person[e].fails >= MaxFails
    /\ Calm =>
         /\ person[e].fails = past.wrong[e]
         /\ person[e].fails >= MaxFails /\ ~past.ended[e] => person[e].locked

\* A session has a token, unless its only one is being replaced.
SessionsOK ==
  Calm =>
    /\ \A r, s \in refresh : r.session = s.session => r = s
    /\ \A k \in Call, s \in refresh :
         /\ At(k, "rotate") /\ s.session = ucall[k].r.session => s.tok = ucall[k].r.tok
         /\ At(k, "restore") => s.session # ucall[k].r.session

\* Tokens that were mailed: whose they are and whether they were used.
Spending(p) == \E k \in Call : At(k, "spend") /\ ucall[k].p = p
OwnersOK ==
  /\ \A m \in mailed, p \in Person : conf[p].tok = m.tok => m.of = p
  /\ \A p \in Person : conf[p].live => conf[p].tok # 0 /\ ~past.expired[p]
  /\ \A t \in 1 .. MaxTokens : t > mint => past.spent[t] = 0
SpentOK ==
  Calm =>
    /\ \A t \in 1 .. MaxTokens : past.spent[t] <= 1
    /\ \A p \in Person : conf[p].tok # 0 =>
         IF Spending(p) THEN past.spent[conf[p].tok] = 1
         ELSE ~past.expired[p] => (conf[p].live <=> past.spent[conf[p].tok] = 0)
    /\ \A p \in Person : Spending(p) => conf[p].tok # 0

OffOK ==
  \A e \in past.off : person[e].row # "none" /\ (~uenv.overlap => ~person[e].active)

\* Stored permissions.
StaffFit(perms, role) == perms # {} => perms \ {"MARGIN_TRADE"} = employeePermissions(role)
ClientFit(perms, role) == perms \ {"MARGIN_TRADE"} = clientPermissions(role)
StaffPerms ==
  Calm => \A e \in Employee : Live(e) /\ (\A k \in Call : At(k, "perms") => ucall[k].p # e) =>
    StaffFit(person[e].perms, person[e].role)
ClientPerms ==
  \A c \in Client : person[c].row # "none" /\ c \notin past.moved =>
    ClientFit(person[c].perms, person[c].role)

\* The fund's manager may manage it, or the call that removed him is about to
\* hand the fund over.
Leaving(k) == ucall[k].at \in {"perms", "funds"} /\ ucall[k].p = fund /\ Removed(k)
FundOK ==
  Calm /\ ~UMay("trading") /\ ~past.orphan => MayManage(fund) \/ \E k \in Call : Leaving(k)

UserInv ==
  /\ Stored /\ CallsOK /\ OneCall /\ ReadOK /\ CountOK /\ SessionsOK /\ OwnersOK /\ SpentOK
  /\ OffOK /\ StaffPerms /\ ClientPerms /\ FundOK
--------------------------------------------------------------------------
(* What a step leaves alone. *)

\* Call k becomes c, and is the only one unless calls overlap.
Moves(k, c) ==
  /\ k \in Call /\ DOMAIN ucall' = Call /\ ucall'[k] = c
  /\ \A j \in Call : j # k => ucall'[j] = ucall[j]
  /\ ucall[k] # Free \/ Alone

\* The row of one person becomes r.
RowSet(e, r) ==
  /\ person' \in [Person -> PersonRow] /\ person'[e] = r
  /\ \A q \in Person : q # e => person'[q] = person[q]

LEMMA CallMoves ==
  ASSUME CallsOK, NEW k \in Call, NEW c, ucall' = [ucall EXCEPT ![k] = c], ucall[k] # Free \/ Alone
  PROVE  Moves(k, c)
  BY DEF Moves, CallsOK

LEMMA OnlyCall ==
  ASSUME CallsOK, OneCall, NEW k, NEW c, Moves(k, c), ~uenv.overlap, NEW j \in Call, j # k
  PROVE  ucall[j] = Free /\ ucall'[j] = Free
  BY DEF Moves, CallsOK, OneCall, Alone

LEMMA AloneFree ==
  ASSUME Alone, ~uenv.overlap, NEW j \in Call
  PROVE  ucall[j] = Free /\ ucall[j].at = "idle"
  BY DEF Alone, Free

LEMMA CarriesMore ==
  ASSUME NEW n \in Nat, NEW m \in Nat, n =< m, NEW c, Carries(c, n)
  PROVE  Carries(c, m)
<1>1. \A r : r \in Refresh(n) => r \in Refresh(m)
  BY DEF Refresh
<1>2. RenewCall(c, n) => RenewCall(c, m)
  BY <1>1 DEF RenewCall
<1> QED BY <1>2 DEF Carries

LEMMA CallsFrame ==
  ASSUME CallsOK, NEW k, NEW c, Moves(k, c), mint \in Nat, mint' \in Nat, mint =< mint', Carries(c, mint')
  PROVE  CallsOK'
<1>1. \A j \in Call : j # k => Carries(ucall[j], mint')
  BY CarriesMore DEF CallsOK
<1>2. \A j \in Call : Carries(ucall'[j], mint')
  BY <1>1 DEF Moves
<1> QED BY <1>2 DEF CallsOK, Moves

LEMMA CallsStill ==
  ASSUME CallsOK, UNCHANGED ucall, mint \in Nat, mint' \in Nat, mint =< mint'
  PROVE  CallsOK'
<1>1. \A j \in Call : Carries(ucall[j], mint')
  BY CarriesMore DEF CallsOK
<1> QED BY <1>1 DEF CallsOK

LEMMA OneCallFrame ==
  ASSUME CallsOK, OneCall, NEW k, NEW c, Moves(k, c), UNCHANGED uenv
  PROVE  OneCall'
<1>1. ASSUME ~uenv.overlap, NEW i \in Call, NEW j \in Call, ucall'[i] # Free, ucall'[j] # Free PROVE i = j
  BY <1>1, OnlyCall
<1> QED BY <1>1 DEF OneCall

LEMMA OneCallStill ==
  ASSUME OneCall, UNCHANGED <<uenv, ucall>>
  PROVE  OneCall'
  BY DEF OneCall

\* What a call has read: another call's step does not fall in between.
ReadFits(c, P, alone) ==
  /\ c.at = "fail" => P[c.p].row # "none"
  /\ alone =>
       /\ c.at = "fail" => c.row.fails = P[c.p].fails
       /\ c.at \in {"reread", "update"} => c.row.role = P[c.p].role
       /\ c.at = "update" => c.cur.role = P[c.p].role /\ c.cur.active = P[c.p].active
RowsStay == \A q \in Person : person[q].row # "none" => person'[q].row # "none"

LEMMA Whose ==
  ASSUME CallsOK, NEW k \in Call, ucall[k] # Free
  PROVE  ucall[k].p \in Person
  BY DEF CallsOK, Carries, LoginCall, RenewCall, SpendCall, ClientCall, StaffCall, Person

LEMMA ReadIs ==
  ReadOK <=> \A k \in Call : ReadFits(ucall[k], person, ~uenv.overlap)
  BY DEF ReadOK, ReadFits, At

LEMMA ReadIsNext ==
  ReadOK' <=> \A k \in Call : ReadFits(ucall'[k], person', ~uenv'.overlap)
  BY DEF ReadOK, ReadFits, At

LEMMA ReadFrame ==
  ASSUME CallsOK, OneCall, ReadOK, NEW k, NEW c, Moves(k, c), UNCHANGED uenv, RowsStay,
         ReadFits(c, person', ~uenv.overlap)
  PROVE  ReadOK'
<1>1. ASSUME NEW j \in Call, j # k PROVE ReadFits(ucall'[j], person', ~uenv.overlap)
  <2>1. ucall'[j] = ucall[j] /\ ReadFits(ucall[j], person, ~uenv.overlap)
    BY <1>1, ReadIs DEF Moves
  <2>2. CASE ~uenv.overlap
    BY <1>1, <2>2, OnlyCall DEF ReadFits, Free
  <2>3. CASE uenv.overlap
    <3>1. ucall[j].at = "fail" => ucall[j].p \in Person
      BY Whose DEF Free
    <3> QED BY <2>1, <2>3, <3>1 DEF ReadFits, RowsStay
  <2> QED BY <2>2, <2>3
<1> QED BY <1>1, ReadIsNext DEF Moves

LEMMA ReadStill ==
  ASSUME CallsOK, ReadOK, UNCHANGED <<uenv, ucall>>, RowsStay,
         \/ Alone
         \/ \A q \in Person : /\ person'[q].fails = person[q].fails /\ person'[q].role = person[q].role
                              /\ person'[q].active = person[q].active
  PROVE  ReadOK'
<1>1. ASSUME NEW j \in Call PROVE ReadFits(ucall[j], person', ~uenv.overlap)
  <2>1. ReadFits(ucall[j], person, ~uenv.overlap)
    BY ReadIs
  <2>2. ucall[j].at \in {"fail", "reread", "update"} => ucall[j].p \in Person
    BY Whose DEF Free
  <2>3. CASE Alone /\ ~uenv.overlap
    BY <2>3, AloneFree DEF ReadFits
  <2>4. CASE uenv.overlap
    BY <2>1, <2>2, <2>4 DEF ReadFits, RowsStay
  <2>5. CASE ~Alone
    BY <2>1, <2>2, <2>5 DEF ReadFits, RowsStay
  <2> QED BY <2>3, <2>4, <2>5
<1> QED BY <1>1, ReadIsNext

LEMMA CountFrame ==
  ASSUME CountOK, UNCHANGED uenv, past'.wrong = past.wrong, past'.ended = past.ended,
         \A e \in Employee : /\ person'[e].row = "none" => person[e].row = "none"
                             /\ person'[e].fails = person[e].fails /\ person'[e].locked = person[e].locked
  PROVE  CountOK'
  BY DEF CountOK, Calm, UMay

LEMMA SessionsFrame ==
  ASSUME SessionsOK, UNCHANGED uenv, refresh' \subseteq refresh, NEW k, NEW c, Moves(k, c),
         c.at \notin {"rotate", "restore"}
  PROVE  SessionsOK'
<1>1. \A j \in Call : ucall'[j].at \in {"rotate", "restore"} => ucall'[j] = ucall[j]
  BY DEF Moves
<1> QED BY <1>1 DEF SessionsOK, Calm, UMay, At

LEMMA SessionsStill ==
  ASSUME SessionsOK, UNCHANGED <<uenv, ucall>>, refresh' \subseteq refresh
  PROVE  SessionsOK'
  BY DEF SessionsOK, Calm, UMay, At

LEMMA OwnersFrame ==
  ASSUME Stored, OwnersOK, UNCHANGED <<conf, mailed>>, mint' \in Nat, mint =< mint',
         past'.expired = past.expired, past'.spent = past.spent
  PROVE  OwnersOK'
<1>1. mint \in Nat /\ MaxTokens \in Nat
  BY UsersAssumption DEF Stored, UserTypeOK
<1>2. \A t \in 1 .. MaxTokens : t > mint' => t > mint
  BY <1>1
<1> QED BY <1>2 DEF OwnersOK

LEMMA SpentFrame ==
  ASSUME SpentOK, UNCHANGED <<uenv, conf>>, past'.spent = past.spent, past'.expired = past.expired,
         NEW k, NEW c, Moves(k, c), ucall[k].at # "spend", c.at # "spend"
  PROVE  SpentOK'
<1>1. \A p \in Person : Spending(p)' <=> Spending(p)
  BY DEF Spending, At, Moves
<1> QED BY <1>1 DEF SpentOK, Calm, UMay

LEMMA SpentStill ==
  ASSUME SpentOK, UNCHANGED <<uenv, conf, ucall>>, past'.spent = past.spent, past'.expired = past.expired
  PROVE  SpentOK'
<1>1. \A p \in Person : Spending(p)' <=> Spending(p)
  BY DEF Spending, At
<1> QED BY <1>1 DEF SpentOK, Calm, UMay

LEMMA OffFrame ==
  ASSUME OffOK, UNCHANGED uenv, past'.off = past.off,
         \A e \in past.off : /\ person[e].row # "none" => person'[e].row # "none"
                             /\ person'[e].active = person[e].active
  PROVE  OffOK'
  BY DEF OffOK

LEMMA StaffFrame ==
  ASSUME CallsOK, StaffPerms, UNCHANGED uenv, NEW k, NEW c, Moves(k, c),
         \A e \in Employee : person'[e].row = "live" =>
           \/ c.at = "perms" /\ c.p = e
           \/ StaffFit(person'[e].perms, person'[e].role)
           \/ /\ ~(ucall[k].at = "perms" /\ ucall[k].p = e) /\ person[e].row = "live"
              /\ person'[e].perms = person[e].perms /\ person'[e].role = person[e].role
  PROVE  StaffPerms'
<1>1. ASSUME Calm, NEW e \in Employee, person'[e].row = "live", \A j \in Call : ucall'[j].at = "perms" => ucall'[j].p # e
      PROVE  StaffFit(person'[e].perms, person'[e].role)
  <2>1. ~(c.at = "perms" /\ c.p = e)
    BY <1>1 DEF Moves
  <2>2. CASE StaffFit(person'[e].perms, person'[e].role)
    BY <2>2
  <2>3. CASE /\ ~(ucall[k].at = "perms" /\ ucall[k].p = e) /\ person[e].row = "live"
             /\ person'[e].perms = person[e].perms /\ person'[e].role = person[e].role
    <3>1. \A j \in Call : ucall[j].at = "perms" => ucall[j].p # e
      BY <1>1, <2>3 DEF Moves
    <3>2. StaffFit(person[e].perms, person[e].role)
      BY <1>1, <2>3, <3>1 DEF StaffPerms, Live, At
    <3> QED BY <2>3, <3>2
  <2> QED BY <1>1, <2>1, <2>2, <2>3
<1>2. Calm' <=> Calm
  BY DEF Calm, UMay
<1> QED BY <1>1, <1>2 DEF StaffPerms, Live, At

LEMMA StaffStill ==
  ASSUME CallsOK, StaffPerms, UNCHANGED <<uenv, ucall>>,
         \A e \in Employee : person'[e].row = "live" =>
           \/ StaffFit(person'[e].perms, person'[e].role)
           \/ /\ person[e].row = "live"
              /\ person'[e].perms = person[e].perms /\ person'[e].role = person[e].role
  PROVE  StaffPerms'
<1>1. ASSUME Calm, NEW e \in Employee, person'[e].row = "live", \A j \in Call : ucall[j].at = "perms" => ucall[j].p # e
      PROVE  StaffFit(person'[e].perms, person'[e].role)
  <2>1. CASE StaffFit(person'[e].perms, person'[e].role)
    BY <2>1
  <2>2. CASE person[e].row = "live" /\ person'[e].perms = person[e].perms /\ person'[e].role = person[e].role
    <3>1. StaffFit(person[e].perms, person[e].role)
      BY <1>1, <2>2 DEF StaffPerms, Live, At
    <3> QED BY <2>2, <3>1
  <2> QED BY <1>1, <2>1, <2>2
<1>2. Calm' <=> Calm
  BY DEF Calm, UMay
<1> QED BY <1>1, <1>2 DEF StaffPerms, Live, At

LEMMA ClientFrame ==
  ASSUME ClientPerms, past.moved \subseteq past'.moved,
         \A c \in Client :
           \/ c \in past'.moved
           \/ person'[c].row # "none" => ClientFit(person'[c].perms, person'[c].role)
           \/ /\ person'[c].row # "none" => person[c].row # "none"
              /\ person'[c].perms = person[c].perms /\ person'[c].role = person[c].role
  PROVE  ClientPerms'
<1>1. ASSUME NEW c \in Client, person'[c].row # "none", c \notin past'.moved
      PROVE  ClientFit(person'[c].perms, person'[c].role)
  <2>1. c \notin past.moved
    BY <1>1
  <2>2. CASE ClientFit(person'[c].perms, person'[c].role)
    BY <2>2
  <2>3. CASE person[c].row # "none" /\ person'[c].perms = person[c].perms /\ person'[c].role = person[c].role
    <3>1. ClientFit(person[c].perms, person[c].role)
      BY <2>1, <2>3 DEF ClientPerms
    <3> QED BY <2>3, <3>1
  <2> QED BY <1>1, <2>2, <2>3
<1> QED BY <1>1 DEF ClientPerms

LEMMA FundFrame ==
  ASSUME FundOK, UNCHANGED <<uenv, fund>>, past'.orphan = past.orphan, NEW k, NEW c, Moves(k, c),
         ucall[k].at \notin {"perms", "funds"}, MayManage(fund) => MayManage(fund)'
  PROVE  FundOK'
<1>1. ASSUME NEW j \in Call, Leaving(j) PROVE Leaving(j)'
  <2>1. ucall'[j] = ucall[j]
    BY <1>1 DEF Leaving, Moves
  <2> QED BY <1>1, <2>1 DEF Leaving, Removed
<1> QED BY <1>1 DEF FundOK, Calm, UMay

LEMMA FundStill ==
  ASSUME FundOK, UNCHANGED <<uenv, fund, ucall>>, past'.orphan = past.orphan, MayManage(fund) => MayManage(fund)'
  PROVE  FundOK'
<1>1. ASSUME NEW j \in Call, Leaving(j) PROVE Leaving(j)'
  BY <1>1 DEF Leaving, Removed
<1> QED BY <1>1 DEF FundOK, Calm, UMay

--------------------------------------------------------------------------
(* Types. *)

LEMMA Bounds ==
  ASSUME Stored
  PROVE  /\ mint \in Nat /\ MaxTokens \in Nat /\ MaxFails \in Nat /\ mint =< MaxTokens
         /\ uenv.tokens \in Nat /\ uenv.tokens =< MaxTokens
  BY UsersAssumption DEF Stored, UserTypeOK

LEMMA TablesGrow ==
  ASSUME Stored, mint' \in Nat, mint =< mint'
  PROVE  /\ conf \in [Person -> [tok : 0 .. mint', live : BOOLEAN]]
         /\ refresh \subseteq Refresh(mint')
         /\ mailed \subseteq [tok : 1 .. mint', of : Person]
<1>1. mint \in Nat
  BY Bounds
<1>2. \A i : i \in 0 .. mint => i \in 0 .. mint'
  BY <1>1
<1>3. \A i : i \in 1 .. mint => i \in 1 .. mint'
  BY <1>1
<1>4. conf \in [Person -> [tok : 0 .. mint, live : BOOLEAN]]
  BY DEF Stored, UserTypeOK
<1>5. \A p \in Person : conf[p] \in [tok : 0 .. mint', live : BOOLEAN]
  BY <1>2, <1>4
<1>6. conf \in [Person -> [tok : 0 .. mint', live : BOOLEAN]]
  BY <1>4, <1>5
<1>7. refresh \subseteq Refresh(mint')
  BY <1>3 DEF Stored, UserTypeOK, Refresh
<1>8. mailed \subseteq [tok : 1 .. mint', of : Person]
  BY <1>3 DEF Stored, UserTypeOK
<1> QED BY <1>6, <1>7, <1>8

LEMMA StoredNext ==
  ASSUME Stored, UNCHANGED uenv, person' \in [Person -> PersonRow], mint' \in Nat, mint' =< MaxTokens,
         conf' \in [Person -> [tok : 0 .. mint', live : BOOLEAN]], refresh' \subseteq Refresh(mint'),
         mailed' \subseteq [tok : 1 .. mint', of : Person], fund' \in Employee, past' \in Past, ufaults' \in Nat
  PROVE  Stored'
<1>1. mint' \in 0 .. MaxTokens
  BY Bounds
<1> QED BY <1>1 DEF Stored, UserTypeOK, Refresh, Past

LEMMA FaultsCount ==
  ASSUME Stored, NEW f, UNoFail \/ UFail(f)
  PROVE  ufaults' \in Nat
  BY DEF Stored, UNoFail, UFail

LEMMA Rows ==
  ASSUME Stored, NEW p \in Person
  PROVE  /\ person[p] \in PersonRow
         /\ person[p].fails \in Nat /\ person[p].locked \in BOOLEAN /\ person[p].active \in BOOLEAN
         /\ person[p].role \in UserRole /\ person[p].perms \in SUBSET Permission /\ person[p].pw \in Nat
  BY DEF Stored, UserTypeOK, PersonRow

LEMMA RowIsSet ==
  ASSUME Stored, NEW e \in Person, NEW r \in PersonRow, person' = [person EXCEPT ![e] = r]
  PROVE  RowSet(e, r)
  BY DEF Stored, UserTypeOK, RowSet

LEMMA Staffed ==
  /\ \A e \in Employee : e \in Person /\ e \notin Client
  /\ \A c \in Client : c \in Person /\ c \notin Employee
  BY UsersAssumption DEF Person

--------------------------------------------------------------------------
(* Calls that begin. *)

LEMMA BeginInv ==
  ASSUME UserInv, NEW k \in Call, NEW c, Starts(k), ucall' = [ucall EXCEPT ![k] = c],
         UNCHANGED <<uenv, person, conf, refresh, mint, mailed, fund, past, ufaults>>,
         Carries(c, mint), c.at \notin {"restore", "spend", "perms", "funds"},
         ReadFits(c, person, ~uenv.overlap), c.at = "rotate" => c.r \in refresh
  PROVE  UserInv'
<1>1. CallsOK /\ Stored /\ ucall[k] = Free /\ ucall[k].at = "idle" /\ Alone
  BY DEF UserInv, Starts, Free
<1>2. Moves(k, c)
  BY <1>1, CallMoves
<1>3. Stored'
  BY <1>1 DEF Stored, UserTypeOK, Past
<1>4. CallsOK'
  BY <1>1, <1>2, Bounds, CallsFrame
<1>5. OneCall'
  BY <1>1, <1>2, OneCallFrame DEF UserInv
<1>6. ReadOK'
  <2>1. RowsStay
    BY DEF RowsStay
  <2> QED BY <1>1, <1>2, <2>1, ReadFrame DEF UserInv
<1>7. CountOK'
  BY DEF UserInv, CountOK, Calm, UMay
<1>8. SessionsOK'
  <2>1. CASE c.at # "rotate"
    BY <1>2, <2>1, SessionsFrame DEF UserInv
  <2>2. CASE c.at = "rotate"
    <3>1. ASSUME Calm PROVE \A j \in Call : j # k => ucall'[j].at = "idle"
      BY <1>1, <1>2, <3>1, OnlyCall DEF UserInv, Calm, Free
    <3>2. ucall'[k] = c
      BY <1>2 DEF Moves
    <3> QED BY <2>2, <3>1, <3>2 DEF UserInv, SessionsOK, Calm, UMay, At
  <2> QED BY <2>1, <2>2
<1>9. OwnersOK'
  BY DEF UserInv, OwnersOK
<1>10. SpentOK'
  BY <1>1, <1>2, SpentFrame DEF UserInv
<1>11. OffOK'
  BY DEF UserInv, OffOK
<1>12. StaffPerms'
  <2>1. \A e \in Employee : person'[e] = person[e]
    OBVIOUS
  <2> QED BY <1>1, <1>2, <2>1, StaffFrame DEF UserInv
<1>13. ClientPerms'
  BY DEF UserInv, ClientPerms
<1>14. FundOK'
  <2>1. MayManage(fund) => MayManage(fund)'
    BY DEF MayManage, Live
  <2> QED BY <1>1, <1>2, <2>1, FundFrame DEF UserInv
<1> QED BY <1>3, <1>4, <1>5, <1>6, <1>7, <1>8, <1>9, <1>10, <1>11, <1>12, <1>13, <1>14 DEF UserInv

LEMMA EmployeeLoginInv ==
  ASSUME UserInv, NEW k \in Call, NEW e \in Employee, NEW ok \in BOOLEAN, EmployeeLogin(k, e, ok)
  PROVE  UserInv'
<1> DEFINE c == [at |-> IF ok THEN "issue" ELSE "fail", p |-> e, row |-> person[e]]
<1>1. /\ Starts(k) /\ person[e].row = "live" /\ ucall' = [ucall EXCEPT ![k] = c]
      /\ UNCHANGED <<uenv, person, conf, refresh, mint, mailed, fund, past, ufaults>>
  BY DEF EmployeeLogin, EmployeeByLogin, Live
<1>2. person[e] \in PersonRow
  BY Rows, Staffed DEF UserInv
<1>3. c.at \in {"issue", "fail"} /\ c.p = e /\ c.row = person[e] /\ c = [at |-> c.at, p |-> c.p, row |-> c.row]
  OBVIOUS
<1> HIDE DEF c
<1>4. Carries(c, mint)
  BY <1>2, <1>3 DEF Carries, LoginCall
<1>5. ReadFits(c, person, ~uenv.overlap)
  BY <1>1, <1>3 DEF ReadFits
<1> QED BY <1>1, <1>3, <1>4, <1>5, BeginInv

LEMMA EmployeeRefreshInv ==
  ASSUME UserInv, NEW k \in Call, NEW t, EmployeeRefresh(k, t)
  PROVE  UserInv'
<1>1. PICK r \in refresh : ucall' = [ucall EXCEPT ![k] = [at |-> "rotate", p |-> r.of, r |-> r]]
  BY DEF EmployeeRefresh, EmployeeByRefreshToken
<1> DEFINE c == [at |-> "rotate", p |-> r.of, r |-> r]
<1>2. r \in Refresh(mint) /\ r.of \in Employee
  BY DEF UserInv, Stored, UserTypeOK, Refresh
<1>3. Starts(k) /\ UNCHANGED <<uenv, person, conf, refresh, mint, mailed, fund, past, ufaults>>
  BY DEF EmployeeRefresh
<1>4. ucall' = [ucall EXCEPT ![k] = c] /\ c.at = "rotate" /\ c.p = r.of /\ c.r = r /\ c = [at |-> c.at, p |-> c.p, r |-> c.r]
  BY <1>1
<1> HIDE DEF c
<1>5. Carries(c, mint)
  BY <1>2, <1>4 DEF Carries, RenewCall
<1>6. ReadFits(c, person, ~uenv.overlap)
  BY <1>4 DEF ReadFits
<1> QED BY <1>3, <1>4, <1>5, <1>6, BeginInv

LEMMA BeginUpdateClientInv ==
  ASSUME UserInv, NEW k \in Call, NEW u, NEW c \in Client, NEW role \in UserRole \cup {"keep"}, BeginUpdateClient(k, u, c, role)
  PROVE  UserInv'
<1> DEFINE d == [at |-> "client", p |-> c, role |-> IF role = "keep" THEN person[c].role ELSE role]
<1>1. /\ Starts(k) /\ ucall' = [ucall EXCEPT ![k] = d]
      /\ UNCHANGED <<uenv, person, conf, refresh, mint, mailed, fund, past, ufaults>>
  BY DEF BeginUpdateClient, ClientByID, Live
<1>2. person[c].role \in UserRole
  BY Rows, Staffed DEF UserInv
<1>3. d.at = "client" /\ d.p = c /\ d.role \in UserRole /\ d = [at |-> d.at, p |-> d.p, role |-> d.role]
  BY <1>2
<1> HIDE DEF d
<1>4. Carries(d, mint)
  BY <1>3 DEF Carries, ClientCall
<1>5. ReadFits(d, person, ~uenv.overlap)
  BY <1>3 DEF ReadFits
<1> QED BY <1>1, <1>3, <1>4, <1>5, BeginInv

LEMMA BeginUpdateEmployeeInv ==
  ASSUME UserInv, NEW k \in Call, NEW u, NEW e \in Employee, NEW ch \in Change, BeginUpdateEmployee(k, u, e, ch)
  PROVE  UserInv'
<1> DEFINE c == [at |-> "reread", p |-> e, row |-> person[e], cur |-> person[e], ch |-> ch]
<1>1. /\ Starts(k) /\ ucall' = [ucall EXCEPT ![k] = c]
      /\ UNCHANGED <<uenv, person, conf, refresh, mint, mailed, fund, past, ufaults>>
  BY DEF BeginUpdateEmployee, EmployeeByID, Live
<1>2. person[e] \in PersonRow
  BY Rows, Staffed DEF UserInv
<1>3. /\ c.at = "reread" /\ c.p = e /\ c.row = person[e] /\ c.cur = person[e] /\ c.ch = ch
      /\ c = [at |-> c.at, p |-> c.p, row |-> c.row, cur |-> c.cur, ch |-> c.ch]
  OBVIOUS
<1> HIDE DEF c
<1>4. Carries(c, mint)
  BY <1>2, <1>3 DEF Carries, StaffCall
<1>5. ReadFits(c, person, ~uenv.overlap)
  BY <1>3 DEF ReadFits
<1> QED BY <1>1, <1>3, <1>4, <1>5, BeginInv

--------------------------------------------------------------------------
(* Wrong passwords and the lock. *)

\* Nothing but the login columns changes.
SameStanding ==
  \A q \in Person : /\ person'[q].row = person[q].row /\ person'[q].active = person[q].active
                    /\ person'[q].role = person[q].role /\ person'[q].perms = person[q].perms
SameHistory ==
  /\ past' \in Past /\ past'.expired = past.expired /\ past'.spent = past.spent /\ past'.off = past.off
  /\ past'.moved = past.moved /\ past'.orphan = past.orphan

LEMMA MayManageSame ==
  ASSUME Stored, SameStanding, UNCHANGED fund
  PROVE  MayManage(fund) => MayManage(fund)'
<1>1. fund \in Person
  BY Staffed DEF Stored, UserTypeOK
<1> QED BY <1>1 DEF MayManage, Live, SameStanding

LEMMA LoginEnds ==
  ASSUME UserInv, NEW k \in Call, At(k, "fail") \/ At(k, "reset"), EndCall(k), SameStanding, SameHistory,
         person' \in [Person -> PersonRow], CountOK', ufaults' \in Nat,
         UNCHANGED <<uenv, conf, refresh, mint, mailed, fund>>
  PROVE  UserInv'
<1>1. CallsOK /\ Stored /\ ucall[k] # Free /\ ucall[k].at \in {"fail", "reset"}
  BY DEF UserInv, At, Free
<1>2. Moves(k, Free)
  BY <1>1, CallMoves DEF EndCall
<1>3. Stored'
  <2>1. /\ mint' \in Nat /\ mint' =< MaxTokens /\ conf' \in [Person -> [tok : 0 .. mint', live : BOOLEAN]]
        /\ refresh' \subseteq Refresh(mint') /\ mailed' \subseteq [tok : 1 .. mint', of : Person]
    BY <1>1, Bounds, TablesGrow
  <2>2. fund' \in Employee /\ past' \in Past
    BY <1>1 DEF Stored, UserTypeOK, SameHistory
  <2> QED BY <1>1, <2>1, <2>2, StoredNext
<1>4. CallsOK'
  BY <1>1, <1>2, Bounds, CallsFrame DEF Carries
<1>5. OneCall'
  BY <1>1, <1>2, OneCallFrame DEF UserInv
<1>6. ReadOK'
  <2>1. RowsStay
    BY DEF RowsStay, SameStanding
  <2>2. ReadFits(Free, person', ~uenv.overlap)
    BY DEF ReadFits, Free
  <2> QED BY <1>1, <1>2, <2>1, <2>2, ReadFrame DEF UserInv
<1>7. Free.at = "idle"
  BY DEF Free
<1>8. SessionsOK'
  BY <1>2, <1>7, SessionsFrame DEF UserInv
<1>9. OwnersOK'
  BY <1>1, Bounds, OwnersFrame DEF UserInv, SameHistory
<1>10. SpentOK'
  BY <1>1, <1>2, <1>7, SpentFrame DEF UserInv, SameHistory
<1>11. OffOK'
  <2>1. \A e \in past.off : e \in Person
    BY Staffed DEF UserInv, Stored, Past
  <2>2. \A e \in past.off : person'[e].row = person[e].row /\ person'[e].active = person[e].active
    BY <2>1 DEF SameStanding
  <2> QED BY <2>2, OffFrame DEF UserInv, SameHistory
<1>12. StaffPerms'
  <2>1. \A e \in Employee : /\ person'[e].row = person[e].row /\ person'[e].perms = person[e].perms
                            /\ person'[e].role = person[e].role
    BY Staffed DEF SameStanding
  <2> QED BY <1>1, <1>2, <2>1, StaffFrame DEF UserInv
<1>13. ClientPerms'
  <2>1. \A c \in Client : /\ person'[c].row = person[c].row /\ person'[c].perms = person[c].perms
                          /\ person'[c].role = person[c].role
    BY Staffed DEF SameStanding
  <2>2. past.moved \subseteq past'.moved
    BY DEF SameHistory
  <2> QED BY <2>1, <2>2, ClientFrame DEF UserInv
<1>14. FundOK'
  BY <1>1, <1>2, MayManageSame, FundFrame DEF UserInv, SameHistory
<1> QED BY <1>3, <1>4, <1>5, <1>6, <1>8, <1>9, <1>10, <1>11, <1>12, <1>13, <1>14 DEF UserInv

LEMMA LoginRow ==
  ASSUME Stored, NEW e \in Employee, NEW n \in Nat, NEW b \in BOOLEAN,
         person' = [person EXCEPT ![e].fails = n, ![e].locked = b]
  PROVE  /\ person' \in [Person -> PersonRow] /\ SameStanding
         /\ person'[e].fails = n /\ person'[e].locked = b
         /\ \A q \in Person : q # e => person'[q] = person[q]
<1> DEFINE r == [person[e] EXCEPT !.fails = n, !.locked = b]
<1>1. person \in [Person -> PersonRow] /\ e \in Person /\ person[e] \in PersonRow
  BY Staffed DEF Stored, UserTypeOK
<1>2. person' = [person EXCEPT ![e] = r]
  BY <1>1
<1>3. /\ r \in PersonRow /\ r.fails = n /\ r.locked = b /\ r.row = person[e].row /\ r.active = person[e].active
      /\ r.role = person[e].role /\ r.perms = person[e].perms
  BY <1>1 DEF PersonRow
<1> HIDE DEF r
<1>4. RowSet(e, r)
  BY <1>1, <1>2, <1>3, RowIsSet
<1> QED BY <1>3, <1>4 DEF RowSet, SameStanding

LEMMA PastFields ==
  ASSUME Stored
  PROVE  /\ past.wrong \in [Employee -> Nat] /\ past.ended \in [Employee -> BOOLEAN]
         /\ past.expired \in [Person -> BOOLEAN] /\ past.spent \in [1 .. MaxTokens -> Nat]
         /\ past.off \in SUBSET Employee /\ past.moved \in SUBSET Client /\ past.orphan \in BOOLEAN
  BY DEF Stored, Past

\* The login columns of the history.
LEMMA LoginPast ==
  ASSUME Stored, NEW e \in Employee, NEW w \in Nat, NEW b \in BOOLEAN,
         past' = [past EXCEPT !.wrong = [past.wrong EXCEPT ![e] = w], !.ended = [past.ended EXCEPT ![e] = b]]
  PROVE  /\ SameHistory /\ past'.wrong[e] = w /\ past'.ended[e] = b
         /\ \A q \in Employee : q # e => past'.wrong[q] = past.wrong[q] /\ past'.ended[q] = past.ended[q]
<1> DEFINE W == [past.wrong EXCEPT ![e] = w]
           E == [past.ended EXCEPT ![e] = b]
<1>1. past.wrong \in [Employee -> Nat] /\ past.ended \in [Employee -> BOOLEAN] /\ past \in Past
  BY PastFields DEF Stored
<1>2. /\ W \in [Employee -> Nat] /\ W[e] = w /\ E \in [Employee -> BOOLEAN] /\ E[e] = b
      /\ \A q \in Employee : q # e => W[q] = past.wrong[q] /\ E[q] = past.ended[q]
  BY <1>1
<1>3. past' = [past EXCEPT !.wrong = W, !.ended = E]
  OBVIOUS
<1> HIDE DEF W, E
<1>4. /\ past' \in Past /\ past'.wrong = W /\ past'.ended = E /\ past'.expired = past.expired
      /\ past'.spent = past.spent /\ past'.off = past.off /\ past'.moved = past.moved /\ past'.orphan = past.orphan
  BY <1>1, <1>2, <1>3 DEF Past
<1> QED BY <1>2, <1>4 DEF SameHistory

LEMMA FailLoginInv ==
  ASSUME UserInv, NEW k \in Call, FailLogin(k)
  PROVE  UserInv'
<1> DEFINE e == ucall[k].p
           old == ucall[k].row
           n == old.fails + 1
           b == past.ended[e] /\ n < MaxFails
           w == past.wrong[e] + 1
<1>1. /\ Stored /\ CallsOK /\ CountOK /\ At(k, "fail") /\ EndCall(k) /\ ucall[k] # Free
      /\ UNCHANGED <<uenv, conf, refresh, mint, mailed, fund>>
  BY DEF UserInv, FailLogin, At, Free
<1>2. e \in Employee /\ old \in PersonRow
  BY <1>1 DEF CallsOK, Carries, LoginCall, RenewCall, SpendCall, ClientCall, StaffCall, At
<1>3. old.fails \in Nat /\ n \in Nat /\ MaxFails \in Nat
  BY <1>1, <1>2, Bounds DEF PersonRow
<1>4. /\ RegisterFailedEmployeeLogin(old).fails = n
      /\ RegisterFailedEmployeeLogin(old).locked = (n >= MaxFails)
  BY <1>2, <1>3 DEF RegisterFailedEmployeeLogin, PersonRow
<1>5. past.wrong \in [Employee -> Nat] /\ past.ended \in [Employee -> BOOLEAN] /\ past \in Past
  BY <1>1, PastFields DEF Stored
<1>6. /\ \/ UNoFail /\ person' = [person EXCEPT ![e].fails = n, ![e].locked = (n >= MaxFails)]
         \/ UFail("db") /\ UNCHANGED person
      /\ past' = [past EXCEPT !.wrong[e] = @ + 1, !.ended[e] = @ /\ n < MaxFails]
  BY <1>4 DEF FailLogin
<1>7. past' = [past EXCEPT !.wrong = [past.wrong EXCEPT ![e] = w], !.ended = [past.ended EXCEPT ![e] = b]]
  BY <1>2, <1>5, <1>6 DEF Past
<1>8. w \in Nat /\ b \in BOOLEAN
  BY <1>2, <1>3, <1>5
<1>9. /\ ReadOK /\ person[e].row # "none" /\ (~uenv.overlap => old.fails = person[e].fails)
  BY <1>1 DEF UserInv, ReadOK, At
<1>10. b => n < MaxFails
  OBVIOUS
<1> HIDE DEF n, b, w, e
<1>11. /\ SameHistory /\ past'.wrong[e] = w /\ past'.ended[e] = b
       /\ \A q \in Employee : q # e => past'.wrong[q] = past.wrong[q] /\ past'.ended[q] = past.ended[q]
  BY <1>1, <1>2, <1>7, <1>8, LoginPast
<1>12. ufaults' \in Nat
  BY <1>1, <1>6, FaultsCount
<1>13. CASE UFail("db") /\ UNCHANGED person
  <2>1. ~Calm
    BY <1>13 DEF UFail, Calm
  <2>2. SameStanding /\ person' \in [Person -> PersonRow]
    BY <1>1, <1>13 DEF SameStanding, Stored, UserTypeOK
  <2>3. CountOK'
    <3>1. ~Calm'
      BY <1>1, <2>1 DEF Calm, UMay
    <3>2. \A q \in Employee : person'[q].row = "none" => past'.wrong[q] = 0
      BY <1>1, <1>9, <1>11, <1>13 DEF CountOK
    <3> QED BY <1>1, <1>13, <3>1, <3>2 DEF CountOK
  <2> QED BY <1>1, <1>11, <1>12, <2>2, <2>3, LoginEnds
<1>14. CASE UNoFail /\ person' = [person EXCEPT ![e].fails = n, ![e].locked = (n >= MaxFails)]
  <2>1. (n >= MaxFails) \in BOOLEAN
    OBVIOUS
  <2>2. /\ person' \in [Person -> PersonRow] /\ SameStanding
        /\ person'[e].fails = n /\ person'[e].locked = (n >= MaxFails)
        /\ \A q \in Person : q # e => person'[q] = person[q]
    BY <1>1, <1>2, <1>3, <1>14, <2>1, LoginRow
  <2>3. CountOK'
    <3>1. Calm' <=> Calm
      BY <1>1 DEF Calm, UMay
    <3>2. ASSUME NEW q \in Employee, q # e
          PROVE  /\ person'[q].row = "none" => past'.wrong[q] = 0
                 /\ person'[q].locked => person'[q].fails >= MaxFails
                 /\ Calm => /\ person'[q].fails = past'.wrong[q]
                            /\ person'[q].fails >= MaxFails /\ ~past'.ended[q] => person'[q].locked
      BY <1>1, <1>11, <2>2, <3>2, Staffed DEF CountOK
    <3>3. person'[e].row # "none"
      BY <1>2, <1>9, <2>2, Staffed DEF SameStanding
    <3>4. Calm => n = w
      BY <1>1, <1>2, <1>9 DEF CountOK, Calm, n, w
    <3>5. n >= MaxFails <=> ~(n < MaxFails)
      BY <1>3
    <3> QED BY <1>10, <1>11, <2>2, <3>1, <3>2, <3>3, <3>4 DEF CountOK
  <2> QED BY <1>1, <1>11, <1>12, <2>2, <2>3, LoginEnds
<1> QED BY <1>6, <1>13, <1>14

LEMMA ResetInv ==
  ASSUME UserInv, NEW k \in Call, ResetEmployeeLoginFailures(k)
  PROVE  UserInv'
<1> DEFINE e == ucall[k].p
           b == past.ended[e]
           w == 0
<1>1. /\ Stored /\ CallsOK /\ CountOK /\ At(k, "reset") /\ EndCall(k) /\ ucall[k] # Free
      /\ UNCHANGED <<uenv, conf, refresh, mint, mailed, fund>>
      /\ \/ UNoFail /\ person' = [person EXCEPT ![e].fails = 0, ![e].locked = FALSE]
         \/ UFail("db") /\ UNCHANGED person
      /\ past' = [past EXCEPT !.wrong[e] = 0]
  BY DEF UserInv, ResetEmployeeLoginFailures, At, Free
<1>2. e \in Employee
  BY <1>1 DEF CallsOK, Carries, LoginCall, RenewCall, SpendCall, ClientCall, StaffCall, At
<1>3. past.wrong \in [Employee -> Nat] /\ past.ended \in [Employee -> BOOLEAN] /\ past \in Past /\ MaxFails \in Nat \ {0}
  BY <1>1, PastFields, UsersAssumption DEF Stored
<1>4. past' = [past EXCEPT !.wrong = [past.wrong EXCEPT ![e] = w], !.ended = [past.ended EXCEPT ![e] = b]]
  BY <1>1, <1>2, <1>3 DEF Past
<1>5. b \in BOOLEAN /\ w \in Nat /\ w = 0
  BY <1>2, <1>3
<1> HIDE DEF e, b, w
<1>6. /\ SameHistory /\ past'.wrong[e] = w
      /\ \A q \in Employee : q # e => past'.wrong[q] = past.wrong[q] /\ past'.ended[q] = past.ended[q]
  <2>1. Stored
    BY <1>1
  <2> QED BY <1>2, <1>4, <1>5, <2>1, LoginPast
<1>7. /\ SameHistory /\ past'.wrong[e] = 0
      /\ \A q \in Employee : q # e => past'.wrong[q] = past.wrong[q] /\ past'.ended[q] = past.ended[q]
  BY <1>5, <1>6
<1>8. ufaults' \in Nat
  BY <1>1, FaultsCount
<1>9. CASE UFail("db") /\ UNCHANGED person
  <2>1. ~Calm'
    BY <1>1, <1>9 DEF UFail, Calm, UMay
  <2>2. SameStanding /\ person' \in [Person -> PersonRow]
    BY <1>1, <1>9 DEF SameStanding, Stored, UserTypeOK
  <2>3. CountOK'
    <3>1. \A q \in Employee : person'[q].row = "none" => past'.wrong[q] = 0
      BY <1>1, <1>7, <1>9 DEF CountOK
    <3> QED BY <1>1, <1>9, <2>1, <3>1 DEF CountOK
  <2> QED BY <1>1, <1>7, <1>8, <2>2, <2>3, LoginEnds
<1>10. CASE UNoFail /\ person' = [person EXCEPT ![e].fails = 0, ![e].locked = FALSE]
  <2>1. /\ person' \in [Person -> PersonRow] /\ SameStanding
        /\ person'[e].fails = 0 /\ person'[e].locked = FALSE
        /\ \A q \in Person : q # e => person'[q] = person[q]
    BY <1>1, <1>2, <1>10, LoginRow
  <2>2. CountOK'
    <3>1. Calm' <=> Calm
      BY <1>1 DEF Calm, UMay
    <3>2. ASSUME NEW q \in Employee, q # e
          PROVE  /\ person'[q].row = "none" => past'.wrong[q] = 0
                 /\ person'[q].locked => person'[q].fails >= MaxFails
                 /\ Calm => /\ person'[q].fails = past'.wrong[q]
                            /\ person'[q].fails >= MaxFails /\ ~past'.ended[q] => person'[q].locked
      BY <1>1, <1>7, <2>1, <3>2, Staffed DEF CountOK
    <3>3. ~(0 >= MaxFails)
      BY <1>3
    <3> QED BY <1>7, <2>1, <3>1, <3>2, <3>3 DEF CountOK
  <2> QED BY <1>1, <1>7, <1>8, <2>1, <2>2, LoginEnds
<1> QED BY <1>1, <1>9, <1>10

LEMMA LockEndsInv ==
  ASSUME UserInv, NEW e \in Employee, LockEnds(e)
  PROVE  UserInv'
<1>1. /\ Stored /\ CallsOK /\ CountOK /\ person' = [person EXCEPT ![e].locked = FALSE]
      /\ past' = [past EXCEPT !.ended[e] = TRUE]
      /\ UNCHANGED <<uenv, conf, refresh, ucall, mint, mailed, fund, ufaults>>
  BY DEF UserInv, LockEnds
<1>2. past.wrong \in [Employee -> Nat] /\ past.ended \in [Employee -> BOOLEAN] /\ past \in Past
  BY <1>1, PastFields DEF Stored
<1>3. past' = [past EXCEPT !.wrong = [past.wrong EXCEPT ![e] = past.wrong[e]], !.ended = [past.ended EXCEPT ![e] = TRUE]]
  BY <1>1, <1>2 DEF Past
<1>4. /\ SameHistory /\ past'.wrong[e] = past.wrong[e] /\ past'.ended[e] = TRUE
      /\ \A q \in Employee : q # e => past'.wrong[q] = past.wrong[q] /\ past'.ended[q] = past.ended[q]
  BY <1>1, <1>2, <1>3, LoginPast
<1>5. person[e].fails \in Nat /\ person[e] \in PersonRow /\ e \in Person
  BY <1>1, Rows, Staffed
<1>6. person' = [person EXCEPT ![e].fails = person[e].fails, ![e].locked = FALSE]
  BY <1>1, <1>5 DEF Stored, UserTypeOK, PersonRow
<1>7. /\ person' \in [Person -> PersonRow] /\ SameStanding
      /\ person'[e].fails = person[e].fails /\ person'[e].locked = FALSE
      /\ \A q \in Person : q # e => person'[q] = person[q]
  BY <1>1, <1>5, <1>6, LoginRow
<1>8. Stored'
  BY <1>1, <1>4, <1>7 DEF Stored, UserTypeOK, SameHistory, Past
<1>9. CallsOK' /\ OneCall'
  BY <1>1, Bounds, CallsStill, OneCallStill DEF UserInv
<1>10. ReadOK'
  <2>1. RowsStay
    BY <1>7 DEF RowsStay, SameStanding
  <2>2. \A q \in Person : /\ person'[q].fails = person[q].fails /\ person'[q].role = person[q].role
                          /\ person'[q].active = person[q].active
    BY <1>7 DEF SameStanding
  <2> QED BY <1>1, <2>1, <2>2, ReadStill DEF UserInv
<1>11. CountOK'
  <2>1. Calm' <=> Calm
    BY <1>1 DEF Calm, UMay
  <2>2. ASSUME NEW q \in Employee, q # e
        PROVE  /\ person'[q].row = "none" => past'.wrong[q] = 0
               /\ person'[q].locked => person'[q].fails >= MaxFails
               /\ Calm => /\ person'[q].fails = past'.wrong[q]
                          /\ person'[q].fails >= MaxFails /\ ~past'.ended[q] => person'[q].locked
    BY <1>1, <1>4, <1>7, <2>2, Staffed DEF CountOK
  <2>3. person'[e].row = person[e].row
    BY <1>5, <1>7 DEF SameStanding
  <2> QED BY <1>1, <1>4, <1>7, <2>1, <2>2, <2>3 DEF CountOK
<1>12. SessionsOK'
  BY <1>1, SessionsStill DEF UserInv
<1>13. OwnersOK' /\ SpentOK'
  BY <1>1, <1>4, Bounds, OwnersFrame, SpentStill DEF UserInv, SameHistory
<1>14. OffOK'
  <2>1. \A q \in past.off : q \in Person
    BY Staffed DEF UserInv, Stored, Past
  <2>2. \A q \in past.off : person'[q].row = person[q].row /\ person'[q].active = person[q].active
    BY <1>7, <2>1 DEF SameStanding
  <2> QED BY <1>1, <1>4, <2>2, OffFrame DEF UserInv, SameHistory
<1>15. StaffPerms'
  <2>1. \A q \in Employee : /\ person'[q].row = person[q].row /\ person'[q].perms = person[q].perms
                            /\ person'[q].role = person[q].role
    BY <1>7, Staffed DEF SameStanding
  <2> QED BY <1>1, <2>1, StaffStill DEF UserInv
<1>16. ClientPerms'
  <2>1. \A q \in Client : /\ person'[q].row = person[q].row /\ person'[q].perms = person[q].perms
                          /\ person'[q].role = person[q].role
    BY <1>7, Staffed DEF SameStanding
  <2> QED BY <1>4, <2>1, ClientFrame DEF UserInv, SameHistory
<1>17. FundOK'
  BY <1>1, <1>4, <1>7, MayManageSame, FundStill DEF UserInv, SameHistory
<1> QED BY <1>8, <1>9, <1>10, <1>11, <1>12, <1>13, <1>14, <1>15, <1>16, <1>17 DEF UserInv

--------------------------------------------------------------------------
(* Refresh tokens. *)

LEMMA StepMoves ==
  ASSUME CallsOK, NEW k \in Call, NEW at, StepTo(k, at), ucall[k] # Free
  PROVE  Moves(k, [ucall[k] EXCEPT !.at = at])
<1>1. ucall' = [ucall EXCEPT ![k] = [ucall[k] EXCEPT !.at = at]]
  BY DEF StepTo
<1> QED BY <1>1, CallMoves

LEMMA EndMoves ==
  ASSUME CallsOK, NEW k \in Call, EndCall(k), ucall[k] # Free
  PROVE  Moves(k, Free)
  BY CallMoves DEF EndCall

LEMMA Drawn ==
  ASSUME Stored, Draw
  PROVE  mint' = mint + 1 /\ mint' \in Nat /\ mint =< mint' /\ mint' =< MaxTokens /\ mint < mint'
  BY Bounds DEF Draw

LEMMA SessionStep ==
  ASSUME UserInv, NEW k \in Call, NEW c, Moves(k, c), ucall[k].at \in {"issue", "rotate", "restore"},
         c.at \in {"idle", "reset", "restore"}, Carries(c, mint'), SessionsOK',
         mint' \in Nat, mint =< mint', mint' =< MaxTokens, refresh' \subseteq Refresh(mint'), ufaults' \in Nat,
         UNCHANGED <<uenv, person, conf, mailed, fund, past>>
  PROVE  UserInv'
<1>1. CallsOK /\ Stored /\ mint \in Nat
  BY Bounds DEF UserInv
<1>2. Stored'
  <2>1. conf' \in [Person -> [tok : 0 .. mint', live : BOOLEAN]] /\ mailed' \subseteq [tok : 1 .. mint', of : Person]
    BY <1>1, TablesGrow
  <2>2. fund' \in Employee /\ past' \in Past /\ person' \in [Person -> PersonRow]
    BY <1>1 DEF Stored, UserTypeOK
  <2> QED BY <1>1, <2>1, <2>2, StoredNext
<1>3. CallsOK'
  BY <1>1, CallsFrame
<1>4. OneCall'
  BY <1>1, OneCallFrame DEF UserInv
<1>5. ReadOK'
  <2>1. RowsStay /\ ReadFits(c, person', ~uenv.overlap)
    BY DEF RowsStay, ReadFits
  <2> QED BY <1>1, <2>1, ReadFrame DEF UserInv
<1>6. CountOK' /\ OffOK' /\ ClientPerms'
  BY DEF UserInv, CountOK, OffOK, ClientPerms, Calm, UMay
<1>7. OwnersOK'
  BY <1>1, OwnersFrame DEF UserInv
<1>8. SpentOK'
  BY SpentFrame DEF UserInv
<1>9. StaffPerms'
  <2>1. \A e \in Employee : person'[e] = person[e]
    OBVIOUS
  <2> QED BY <1>1, <2>1, StaffFrame DEF UserInv
<1>10. FundOK'
  <2>1. MayManage(fund) => MayManage(fund)'
    BY DEF MayManage, Live
  <2> QED BY <2>1, FundFrame DEF UserInv
<1> QED BY <1>2, <1>3, <1>4, <1>5, <1>6, <1>7, <1>8, <1>9, <1>10 DEF UserInv

\* While one call runs alone, no other renews a token.
LEMMA OthersIdle ==
  ASSUME CallsOK, OneCall, NEW k, NEW c, Moves(k, c), Calm, NEW j \in Call, j # k
  PROVE  ucall'[j].at = "idle"
  BY OnlyCall DEF Calm, Free

LEMMA TokenStored ==
  ASSUME Stored, mint' \in Nat, mint < mint', NEW e \in Employee, NEW s \in 1 .. mint',
         StoreEmployeeRefreshToken(e, s)
  PROVE  /\ refresh' \subseteq Refresh(mint')
         /\ \E r : r.session = s /\ refresh' = refresh \cup {r}
<1> DEFINE r == [tok |-> mint', of |-> e, session |-> s]
<1>1. refresh' = refresh \cup {r} /\ mint \in Nat
  BY Bounds DEF StoreEmployeeRefreshToken
<1>2. r \in Refresh(mint') /\ r.session = s
  BY <1>1 DEF Refresh
<1>3. refresh \subseteq Refresh(mint')
  BY <1>1, TablesGrow
<1> QED BY <1>1, <1>2, <1>3

LEMMA IssueTokensInv ==
  ASSUME UserInv, NEW k \in Call, IssueTokens(k)
  PROVE  UserInv'
<1> DEFINE e == ucall[k].p
<1>1. /\ Stored /\ CallsOK /\ OneCall /\ SessionsOK /\ ucall[k].at = "issue" /\ ucall[k] # Free /\ Draw
      /\ UNCHANGED <<uenv, person, conf, mailed, fund, past>>
      /\ \/ UNoFail /\ StoreEmployeeRefreshToken(e, mint') /\ StepTo(k, "reset")
         \/ UFail("db") /\ UNCHANGED refresh /\ EndCall(k)
  BY DEF UserInv, IssueTokens, At, Free
<1>2. LoginCall(ucall[k]) /\ e \in Employee
  BY <1>1 DEF CallsOK, Carries, LoginCall, RenewCall, SpendCall, ClientCall, StaffCall
<1>3. /\ mint' = mint + 1 /\ mint' \in Nat /\ mint =< mint' /\ mint' =< MaxTokens /\ mint < mint'
      /\ mint' \in 1 .. mint' /\ mint \in Nat
  BY <1>1, Drawn, Bounds
<1>4. ufaults' \in Nat
  BY <1>1, FaultsCount
<1>5. CASE UFail("db") /\ UNCHANGED refresh /\ EndCall(k)
  <2>1. Moves(k, Free)
    BY <1>1, <1>5, EndMoves
  <2>2. Free.at = "idle" /\ Carries(Free, mint')
    BY DEF Free, Carries
  <2>3. SessionsOK'
    BY <1>1, <1>5, <2>1, <2>2, SessionsFrame
  <2>4. refresh' \subseteq Refresh(mint')
    BY <1>1, <1>3, <1>5, TablesGrow
  <2> QED BY <1>1, <1>3, <1>4, <2>1, <2>2, <2>3, <2>4, SessionStep
<1>6. CASE UNoFail /\ StoreEmployeeRefreshToken(e, mint') /\ StepTo(k, "reset")
  <2> DEFINE c == [ucall[k] EXCEPT !.at = "reset"]
  <2>1. Moves(k, c)
    BY <1>1, <1>6, StepMoves
  <2>2. c.at = "reset" /\ LoginCall(c)
    BY <1>2 DEF LoginCall
  <2> HIDE DEF c
  <2>3. Carries(c, mint')
    BY <2>2 DEF Carries
  <2> HIDE DEF e
  <2>4. refresh' \subseteq Refresh(mint') /\ \E r : r.session = mint' /\ refresh' = refresh \cup {r}
    BY <1>1, <1>2, <1>3, <1>6, TokenStored
  <2>5. SessionsOK'
    <3>1. PICK r : r.session = mint' /\ refresh' = refresh \cup {r}
      BY <2>4
    <3>2. \A s \in refresh : s.session # mint'
      BY <1>1, <1>3 DEF Stored, UserTypeOK
    <3>3. ASSUME Calm PROVE \A j \in Call : ucall'[j].at \notin {"rotate", "restore"}
      BY <1>1, <2>1, <2>2, <3>3, OthersIdle DEF Moves
    <3>4. Calm' <=> Calm
      BY <1>1 DEF Calm, UMay
    <3> QED BY <1>1, <3>1, <3>2, <3>3, <3>4 DEF SessionsOK, At
  <2> QED BY <1>1, <1>3, <1>4, <2>1, <2>2, <2>3, <2>4, <2>5, SessionStep
<1> QED BY <1>1, <1>5, <1>6

LEMMA RotateDeleteInv ==
  ASSUME UserInv, NEW k \in Call, RotateDelete(k)
  PROVE  UserInv'
<1> DEFINE c == [ucall[k] EXCEPT !.at = "restore"]
           old == ucall[k].r
<1>1. /\ Stored /\ CallsOK /\ OneCall /\ SessionsOK /\ ucall[k].at = "rotate" /\ ucall[k] # Free /\ StepTo(k, "restore")
      /\ UNCHANGED <<uenv, person, conf, mint, mailed, fund, past>>
      /\ \/ UNoFail /\ refresh' = DeleteRefreshToken(old.tok)
         \/ UFail("db") /\ UNCHANGED refresh
  BY DEF UserInv, RotateDelete, At, Free
<1>2. RenewCall(ucall[k], mint)
  BY <1>1 DEF CallsOK, Carries, LoginCall, RenewCall, SpendCall, ClientCall, StaffCall
<1>3. mint' \in Nat /\ mint =< mint' /\ mint' =< MaxTokens
  BY <1>1, Bounds
<1>4. ufaults' \in Nat
  BY <1>1, FaultsCount
<1>5. Moves(k, c)
  BY <1>1, StepMoves
<1>6. c.at = "restore" /\ c.r = old /\ RenewCall(c, mint)
  BY <1>2 DEF RenewCall
<1> HIDE DEF c, old
<1>7. Carries(c, mint')
  BY <1>1, <1>6 DEF Carries
<1>8. refresh' \subseteq refresh
  BY <1>1 DEF DeleteRefreshToken
<1>9. refresh' \subseteq Refresh(mint')
  BY <1>1, <1>3, <1>8, TablesGrow
<1>10. SessionsOK'
  <2>1. Calm' <=> Calm
    BY <1>1 DEF Calm, UMay
  <2>2. ASSUME Calm, NEW s \in refresh' PROVE s.session # old.session
    <3>1. s \in refresh /\ s.tok # old.tok
      BY <1>1, <2>2 DEF DeleteRefreshToken, UFail, Calm
    <3> QED BY <1>1, <2>2, <3>1 DEF SessionsOK, At, old
  <2>3. ASSUME Calm, NEW j \in Call PROVE ucall'[j].at # "rotate" /\ (ucall'[j].at = "restore" => ucall'[j].r = old)
    BY <1>1, <1>5, <1>6, <2>3, OthersIdle DEF Moves
  <2> QED BY <1>1, <1>8, <2>1, <2>2, <2>3 DEF SessionsOK, At
<1> QED BY <1>1, <1>3, <1>4, <1>5, <1>6, <1>7, <1>9, <1>10, SessionStep

LEMMA RotateStoreInv ==
  ASSUME UserInv, NEW k \in Call, RotateStore(k)
  PROVE  UserInv'
<1> DEFINE e == ucall[k].p
           n == ucall[k].r.session
<1>1. /\ Stored /\ CallsOK /\ OneCall /\ SessionsOK /\ ucall[k].at = "restore" /\ ucall[k] # Free /\ Draw /\ EndCall(k)
      /\ UNCHANGED <<uenv, person, conf, mailed, fund, past>>
      /\ \/ UNoFail /\ StoreEmployeeRefreshToken(e, n)
         \/ UFail("db") /\ UNCHANGED refresh
  BY DEF UserInv, RotateStore, At, Free
<1>2. RenewCall(ucall[k], mint)
  BY <1>1 DEF CallsOK, Carries, LoginCall, RenewCall, SpendCall, ClientCall, StaffCall
<1>3. mint' = mint + 1 /\ mint' \in Nat /\ mint =< mint' /\ mint' =< MaxTokens /\ mint < mint' /\ mint \in Nat
  BY <1>1, Drawn, Bounds
<1>4. e \in Employee /\ n \in 1 .. mint'
  BY <1>2, <1>3 DEF RenewCall, Refresh
<1>5. ufaults' \in Nat
  BY <1>1, FaultsCount
<1>6. Moves(k, Free)
  BY <1>1, EndMoves
<1>7. Free.at = "idle" /\ Carries(Free, mint')
  BY DEF Free, Carries
<1> HIDE DEF e, n
<1>8. CASE UFail("db") /\ UNCHANGED refresh
  <2>1. SessionsOK'
    BY <1>1, <1>6, <1>7, <1>8, SessionsFrame
  <2>2. refresh' \subseteq Refresh(mint')
    BY <1>1, <1>3, <1>8, TablesGrow
  <2> QED BY <1>1, <1>3, <1>5, <1>6, <1>7, <2>1, <2>2, SessionStep
<1>9. CASE UNoFail /\ StoreEmployeeRefreshToken(e, n)
  <2>1. refresh' \subseteq Refresh(mint') /\ \E r : r.session = n /\ refresh' = refresh \cup {r}
    BY <1>1, <1>3, <1>4, <1>9, TokenStored
  <2>2. SessionsOK'
    <3>1. PICK r : r.session = n /\ refresh' = refresh \cup {r}
      BY <2>1
    <3>2. Calm => \A s \in refresh : s.session # n
      BY <1>1 DEF SessionsOK, At, n
    <3>3. ASSUME Calm PROVE \A j \in Call : ucall'[j].at \notin {"rotate", "restore"}
      BY <1>1, <1>6, <1>7, <3>3, OthersIdle DEF Moves
    <3>4. Calm' <=> Calm
      BY <1>1 DEF Calm, UMay
    <3> QED BY <1>1, <3>1, <3>2, <3>3, <3>4 DEF SessionsOK, At
  <2> QED BY <1>1, <1>3, <1>5, <1>6, <1>7, <2>1, <2>2, SessionStep
<1> QED BY <1>1, <1>8, <1>9

LEMMA LogoutInv ==
  ASSUME UserInv, NEW t, Logout(t)
  PROVE  UserInv'
<1>1. /\ Stored /\ refresh' \subseteq refresh
      /\ UNCHANGED <<uenv, person, conf, ucall, mint, mailed, fund, past, ufaults>>
  BY DEF UserInv, Logout, DeleteRefreshToken
<1>2. Stored'
  BY <1>1 DEF Stored, UserTypeOK, Past
<1>3. CallsOK' /\ OneCall' /\ ReadOK' /\ CountOK' /\ OwnersOK' /\ OffOK' /\ ClientPerms'
  BY <1>1 DEF UserInv, CallsOK, OneCall, ReadOK, CountOK, OwnersOK, OffOK, ClientPerms, At, Calm, UMay
<1>4. SessionsOK'
  BY <1>1, SessionsStill DEF UserInv
<1>5. SpentOK'
  BY <1>1, SpentStill DEF UserInv
<1>6. StaffPerms'
  BY <1>1, StaffStill DEF UserInv
<1>7. FundOK'
  <2>1. MayManage(fund) => MayManage(fund)'
    BY <1>1 DEF MayManage, Live
  <2> QED BY <1>1, <2>1, FundStill DEF UserInv
<1> QED BY <1>2, <1>3, <1>4, <1>5, <1>6, <1>7 DEF UserInv

--------------------------------------------------------------------------
(* Confirmation tokens: a new one is stored and mailed. *)

LEMMA StaffPlain ==
  ASSUME NEW role
  PROVE  employeePermissions(role) \in SUBSET Permission /\ "MARGIN_TRADE" \notin employeePermissions(role)
<1> DEFINE E == employeePermissions(role)
           all == {"basic", "limited", "unlimited", "manage"}
<1>1. all \in SUBSET Permission /\ "MARGIN_TRADE" \notin all
  BY DEF Permission
<1>2. CASE role = "ADMIN"
  BY <1>1, <1>2 DEF employeePermissions
<1>3. CASE role = "SUPERVISOR"
  <2>1. E = {"basic", "limited", "unlimited"}
    BY <1>3 DEF employeePermissions
  <2> QED BY <1>1, <2>1
<1>4. CASE role = "AGENT"
  <2>1. E = {"basic", "limited"}
    BY <1>4 DEF employeePermissions
  <2> QED BY <1>1, <2>1
<1>5. CASE role = "BASIC"
  <2>1. E = {"basic"}
    BY <1>5 DEF employeePermissions
  <2> QED BY <1>1, <2>1
<1>6. CASE role \notin {"ADMIN", "SUPERVISOR", "AGENT", "BASIC"}
  <2>1. E = {}
    BY <1>6 DEF employeePermissions
  <2> QED BY <2>1
<1> QED BY <1>2, <1>3, <1>4, <1>5, <1>6

LEMMA ClientPlain ==
  ASSUME NEW role
  PROVE  /\ clientPermissions(role) \in SUBSET Permission /\ "MARGIN_TRADE" \notin clientPermissions(role)
         /\ clientPermissions(role) # {}
<1>1. CASE role = "CLIENT_TRADING"
  <2>1. clientPermissions(role) = {"trade"}
    BY <1>1 DEF clientPermissions
  <2> QED BY <2>1 DEF Permission
<1>2. CASE role # "CLIENT_TRADING"
  <2>1. clientPermissions(role) = {"access"}
    BY <1>2 DEF clientPermissions
  <2> QED BY <2>1 DEF Permission
<1> QED BY <1>1, <1>2

\* The person is new and gets row r.
Fresh(p, r) ==
  /\ person[p].row = "none" /\ person' = [person EXCEPT ![p] = r]
  /\ r \in PersonRow /\ r.row = "live" /\ r.fails = 0 /\ ~r.locked
  /\ p \in Employee => StaffFit(r.perms, r.role)
  /\ p \in Client => ClientFit(r.perms, r.role)

LEMMA UpsertPast ==
  ASSUME Stored, NEW p \in Person, UpsertConfirmation(p)
  PROVE  /\ past' \in Past /\ past'.wrong = past.wrong /\ past'.ended = past.ended /\ past'.spent = past.spent
         /\ past'.off = past.off /\ past'.moved = past.moved /\ past'.orphan = past.orphan
         /\ past'.expired[p] = FALSE /\ \A q \in Person : q # p => past'.expired[q] = past.expired[q]
<1> DEFINE X == [past.expired EXCEPT ![p] = FALSE]
<1>1. past.expired \in [Person -> BOOLEAN] /\ past \in Past
  BY PastFields DEF Stored
<1>2. past' = [past EXCEPT !.expired = X]
  BY DEF UpsertConfirmation
<1>3. X \in [Person -> BOOLEAN] /\ X[p] = FALSE /\ \A q \in Person : q # p => X[q] = past.expired[q]
  BY <1>1
<1> HIDE DEF X
<1>4. /\ past' \in Past /\ past'.wrong = past.wrong /\ past'.ended = past.ended /\ past'.spent = past.spent
      /\ past'.off = past.off /\ past'.moved = past.moved /\ past'.orphan = past.orphan /\ past'.expired = X
  BY <1>1, <1>2, <1>3 DEF Past
<1> QED BY <1>3, <1>4

LEMMA UpsertConf ==
  ASSUME Stored, NEW p \in Person, UpsertConfirmation(p), mint' \in Nat, mint =< mint'
  PROVE  /\ conf' \in [Person -> [tok : 0 .. mint', live : BOOLEAN]]
         /\ conf'[p].tok = mint' /\ conf'[p].live = TRUE /\ \A q \in Person : q # p => conf'[q] = conf[q]
<1> DEFINE r == [tok |-> mint', live |-> TRUE]
<1>1. conf' = [conf EXCEPT ![p] = r]
  BY DEF UpsertConfirmation
<1>2. conf \in [Person -> [tok : 0 .. mint', live : BOOLEAN]]
  BY TablesGrow
<1>3. r \in [tok : 0 .. mint', live : BOOLEAN] /\ r.tok = mint' /\ r.live = TRUE
  OBVIOUS
<1> HIDE DEF r
<1> QED BY <1>1, <1>2, <1>3

LEMMA Mailed ==
  ASSUME Stored, NEW p \in Person, publishEmail(p), mint' \in Nat, mint < mint'
  PROVE  /\ mailed' \subseteq [tok : 1 .. mint', of : Person] /\ ufaults' \in Nat
         /\ \A m \in mailed' : m \in mailed \/ (m.tok = mint' /\ m.of = p)
<1>1. mint \in Nat /\ mailed \subseteq [tok : 1 .. mint', of : Person]
  BY Bounds, TablesGrow
<1>2. [tok |-> mint', of |-> p] \in [tok : 1 .. mint', of : Person]
  BY <1>1
<1>3. ufaults' \in Nat
  BY FaultsCount DEF publishEmail
<1> QED BY <1>1, <1>2, <1>3 DEF publishEmail

LEMMA UpsertInv ==
  ASSUME UserInv, Alone, Draw, NEW p \in Person, UpsertConfirmation(p), publishEmail(p),
         UNCHANGED <<uenv, refresh, ucall, fund>>, UNCHANGED person \/ \E r : Fresh(p, r)
  PROVE  UserInv'
<1>1. Stored /\ CallsOK /\ OneCall /\ mint \in Nat /\ MaxTokens \in Nat /\ MaxFails \in Nat \ {0}
  BY Bounds, UsersAssumption DEF UserInv
<1>2. mint' = mint + 1 /\ mint' \in Nat /\ mint =< mint' /\ mint' =< MaxTokens /\ mint < mint'
  BY <1>1, Drawn
<1>3. /\ past' \in Past /\ past'.wrong = past.wrong /\ past'.ended = past.ended /\ past'.spent = past.spent
      /\ past'.off = past.off /\ past'.moved = past.moved /\ past'.orphan = past.orphan
      /\ past'.expired[p] = FALSE /\ \A q \in Person : q # p => past'.expired[q] = past.expired[q]
  BY <1>1, UpsertPast
<1>4. /\ conf' \in [Person -> [tok : 0 .. mint', live : BOOLEAN]]
      /\ conf'[p].tok = mint' /\ conf'[p].live = TRUE /\ \A q \in Person : q # p => conf'[q] = conf[q]
  BY <1>1, <1>2, UpsertConf
<1>5. /\ mailed' \subseteq [tok : 1 .. mint', of : Person] /\ ufaults' \in Nat
      /\ \A m \in mailed' : m \in mailed \/ (m.tok = mint' /\ m.of = p)
  BY <1>1, <1>2, Mailed
<1>6. /\ person' \in [Person -> PersonRow]
      /\ \A q \in Person : q # p => person'[q] = person[q]
      /\ \/ person'[p] = person[p]
         \/ /\ person[p].row = "none" /\ person'[p].row = "live" /\ person'[p].fails = 0 /\ ~person'[p].locked
            /\ p \in Employee => StaffFit(person'[p].perms, person'[p].role)
            /\ p \in Client => ClientFit(person'[p].perms, person'[p].role)
  <2>1. CASE UNCHANGED person
    BY <1>1, <2>1 DEF Stored, UserTypeOK
  <2>2. ASSUME NEW r, Fresh(p, r) PROVE <1>6!1 /\ <1>6!2 /\ <1>6!3
    <3>1. RowSet(p, r)
      BY <1>1, <2>2, RowIsSet DEF Fresh
    <3> QED BY <2>2, <3>1 DEF Fresh, RowSet
  <2> QED BY <2>1, <2>2
<1>7. Stored'
  <2>1. fund' \in Employee /\ refresh' \subseteq Refresh(mint')
    BY <1>1, <1>2, TablesGrow DEF Stored, UserTypeOK
  <2> QED BY <1>1, <1>2, <1>3, <1>4, <1>5, <1>6, <2>1, StoredNext
<1>8. CallsOK' /\ OneCall'
  BY <1>1, <1>2, CallsStill, OneCallStill
<1>9. ReadOK'
  <2>1. RowsStay
    BY <1>6 DEF RowsStay
  <2> QED BY <1>1, <2>1, ReadStill DEF UserInv
<1>10. CountOK'
  <2>1. Calm' <=> Calm
    BY DEF Calm, UMay
  <2>2. ~(0 >= MaxFails)
    BY <1>1
  <2>3. ASSUME NEW e \in Employee
        PROVE  /\ person'[e].row = "none" => past'.wrong[e] = 0
               /\ person'[e].locked => person'[e].fails >= MaxFails
               /\ Calm => /\ person'[e].fails = past'.wrong[e]
                          /\ person'[e].fails >= MaxFails /\ ~past'.ended[e] => person'[e].locked
    <3>1. CASE person'[e] = person[e]
      BY <1>3, <3>1 DEF UserInv, CountOK
    <3>2. CASE e = p /\ person'[p] # person[p]
      <4>1. past.wrong[e] = 0
        BY <1>6, <3>2 DEF UserInv, CountOK
      <4> QED BY <1>3, <1>6, <2>2, <3>2, <4>1
    <3> QED BY <1>6, <3>1, <3>2, Staffed
  <2> QED BY <2>1, <2>3 DEF CountOK
<1>11. SessionsOK'
  BY SessionsStill DEF UserInv
<1>12. OwnersOK'
  <2>1. \A m \in mailed : m.tok # mint'
    BY <1>1, <1>2 DEF Stored, UserTypeOK
  <2>2. \A q \in Person : conf[q].tok # mint'
    BY <1>1, <1>2 DEF Stored, UserTypeOK
  <2>3. ASSUME NEW m \in mailed', NEW q \in Person, conf'[q].tok = m.tok PROVE m.of = q
    <3>1. CASE q = p
      BY <1>4, <1>5, <2>1, <2>3, <3>1
    <3>2. CASE q # p
      BY <1>4, <1>5, <2>2, <2>3, <3>2 DEF UserInv, OwnersOK
    <3> QED BY <3>1, <3>2
  <2>4. ASSUME NEW q \in Person, conf'[q].live PROVE conf'[q].tok # 0 /\ ~past'.expired[q]
    <3>1. mint' # 0
      BY <1>1, <1>2
    <3>2. CASE q = p
      BY <1>3, <1>4, <3>1, <3>2
    <3>3. CASE q # p
      BY <1>3, <1>4, <2>4, <3>3 DEF UserInv, OwnersOK
    <3> QED BY <3>2, <3>3
  <2>5. \A t \in 1 .. MaxTokens : t > mint' => past'.spent[t] = 0
    <3>1. \A t \in 1 .. MaxTokens : t > mint' => t > mint
      BY <1>1, <1>2
    <3> QED BY <1>3, <3>1 DEF UserInv, OwnersOK
  <2> QED BY <2>3, <2>4, <2>5 DEF OwnersOK
<1>13. SpentOK'
  <2>1. ASSUME Calm, NEW q \in Person PROVE ~Spending(q) /\ ~Spending(q)'
    BY <2>1, AloneFree DEF Spending, At, Calm
  <2>2. Calm' <=> Calm
    BY DEF Calm, UMay
  <2>3. past.spent[mint'] = 0
    <3>1. mint' \in 1 .. MaxTokens /\ mint' > mint
      BY <1>1, <1>2
    <3> QED BY <3>1 DEF UserInv, OwnersOK
  <2>4. ASSUME Calm, NEW q \in Person, conf'[q].tok # 0
        PROVE  ~past'.expired[q] => (conf'[q].live <=> past'.spent[conf'[q].tok] = 0)
    <3>1. CASE q = p
      BY <1>3, <1>4, <2>3, <3>1
    <3>2. CASE q # p
      <4>1. conf'[q] = conf[q] /\ past'.expired[q] = past.expired[q]
        BY <1>3, <1>4, <3>2
      <4>2. ~past.expired[q] => (conf[q].live <=> past.spent[conf[q].tok] = 0)
        BY <2>1, <2>4, <4>1 DEF UserInv, SpentOK
      <4> QED BY <1>3, <4>1, <4>2
    <3> QED BY <3>1, <3>2
  <2>5. Calm => \A t \in 1 .. MaxTokens : past'.spent[t] <= 1
    BY <1>3 DEF UserInv, SpentOK
  <2> QED BY <2>1, <2>2, <2>4, <2>5 DEF SpentOK
<1>14. OffOK'
  <2>1. \A e \in past.off : e \in Person /\ person[e].row # "none"
    BY Staffed DEF UserInv, OffOK, Stored, Past
  <2>2. \A e \in past.off : person'[e] = person[e]
    BY <1>6, <2>1
  <2> QED BY <1>3, <2>2, OffFrame DEF UserInv
<1>15. StaffPerms'
  <2>1. ASSUME NEW e \in Employee, person'[e].row = "live"
        PROVE  \/ StaffFit(person'[e].perms, person'[e].role)
               \/ /\ person[e].row = "live"
                  /\ person'[e].perms = person[e].perms /\ person'[e].role = person[e].role
    <3>1. CASE person'[e] = person[e]
      BY <2>1, <3>1
    <3>2. CASE person'[e] # person[e]
      BY <1>6, <3>2, Staffed
    <3> QED BY <3>1, <3>2
  <2> QED BY <1>1, <2>1, StaffStill DEF UserInv
<1>16. ClientPerms'
  <2>1. ASSUME NEW c \in Client
        PROVE  \/ ClientFit(person'[c].perms, person'[c].role)
               \/ /\ person'[c].row # "none" => person[c].row # "none"
                  /\ person'[c].perms = person[c].perms /\ person'[c].role = person[c].role
    <3>1. CASE person'[c] = person[c]
      BY <3>1
    <3>2. CASE person'[c] # person[c]
      BY <1>6, <3>2, Staffed
    <3> QED BY <3>1, <3>2
  <2> QED BY <1>3, <2>1, ClientFrame DEF UserInv
<1>17. FundOK'
  <2>1. fund \in Person
    BY <1>1, Staffed DEF Stored, UserTypeOK
  <2>2. MayManage(fund) => MayManage(fund)'
    BY <1>6, <2>1 DEF MayManage, Live
  <2> QED BY <1>3, <2>2, FundStill DEF UserInv
<1> QED BY <1>7, <1>8, <1>9, <1>10, <1>11, <1>12, <1>13, <1>14, <1>15, <1>16, <1>17 DEF UserInv

LEMMA SendTokenInv ==
  ASSUME UserInv, NEW p \in Person, SendToken(p)
  PROVE  UserInv'
  BY UpsertInv DEF SendToken, UpsertEmployeeConfirmation, UpsertClientConfirmation

LEMMA CreateEmployeeInv ==
  ASSUME UserInv, NEW u, NEW e \in Employee, NEW role \in UserRole, CreateEmployee(u, e, role)
  PROVE  UserInv'
<1>1. PICK active \in BOOLEAN : person' = [person EXCEPT ![e] = NewRow(role, active, employeePermissions(role))]
  BY DEF CreateEmployee
<1> DEFINE perms == employeePermissions(role)
           r == NewRow(role, active, perms)
<1>2. perms \in SUBSET Permission /\ StaffFit(perms, role)
  BY StaffPlain DEF StaffFit
<1>3. e \in Person /\ e \notin Client
  BY Staffed
<1>4. person' = [person EXCEPT ![e] = r] /\ person[e].row = "none"
  BY <1>1 DEF CreateEmployee
<1> HIDE DEF perms
<1>5. r \in PersonRow /\ r.row = "live" /\ r.fails = 0 /\ ~r.locked /\ r.perms = perms /\ r.role = role
  BY <1>2 DEF NewRow, PersonRow
<1> HIDE DEF r
<1>6. Fresh(e, r)
  BY <1>2, <1>3, <1>4, <1>5 DEF Fresh
<1> QED BY <1>3, <1>6, UpsertInv DEF CreateEmployee, UpsertEmployeeConfirmation

LEMMA CreateClientInv ==
  ASSUME UserInv, NEW u, NEW c \in Client, NEW role \in UserRole, CreateClient(u, c, role)
  PROVE  UserInv'
<1> DEFINE perms == clientPermissions(role)
           r == NewRow(role, FALSE, perms)
<1>1. perms \in SUBSET Permission /\ ClientFit(perms, role)
  BY ClientPlain DEF ClientFit
<1>2. c \in Person /\ c \notin Employee
  BY Staffed
<1>3. person' = [person EXCEPT ![c] = r] /\ person[c].row = "none"
  BY DEF CreateClient
<1> HIDE DEF perms
<1>4. r \in PersonRow /\ r.row = "live" /\ r.fails = 0 /\ ~r.locked /\ r.perms = perms /\ r.role = role
  BY <1>1 DEF NewRow, PersonRow
<1> HIDE DEF r
<1>5. Fresh(c, r)
  BY <1>1, <1>2, <1>3, <1>4 DEF Fresh
<1> QED BY <1>2, <1>5, UpsertInv DEF CreateClient, UpsertClientConfirmation

--------------------------------------------------------------------------
(* Confirmation tokens: used, spent, expired. *)

LEMMA ConfOff ==
  ASSUME Stored, NEW p \in Person, conf' = [conf EXCEPT ![p].live = FALSE], UNCHANGED mint
  PROVE  /\ conf' \in [Person -> [tok : 0 .. mint', live : BOOLEAN]] /\ conf'[p].live = FALSE
         /\ \A q \in Person : conf'[q].tok = conf[q].tok
         /\ \A q \in Person : q # p => conf'[q] = conf[q]
<1> DEFINE r == [conf[p] EXCEPT !.live = FALSE]
<1>1. conf \in [Person -> [tok : 0 .. mint', live : BOOLEAN]] /\ conf[p] \in [tok : 0 .. mint', live : BOOLEAN]
  BY DEF Stored, UserTypeOK
<1>2. conf' = [conf EXCEPT ![p] = r]
  BY <1>1
<1>3. r \in [tok : 0 .. mint', live : BOOLEAN] /\ r.live = FALSE /\ r.tok = conf[p].tok
  BY <1>1
<1> HIDE DEF r
<1> QED BY <1>1, <1>2, <1>3

\* Nothing but the confirmation rows and their history changes.
LEMMA ConfStep ==
  ASSUME UserInv, UNCHANGED <<uenv, person, refresh, mint, mailed, fund>>,
         conf' \in [Person -> [tok : 0 .. mint', live : BOOLEAN]], past' \in Past, ufaults' \in Nat,
         past'.wrong = past.wrong, past'.ended = past.ended, past'.off = past.off, past'.moved = past.moved,
         past'.orphan = past.orphan, OwnersOK', SpentOK',
         UNCHANGED ucall \/ \E k \in Call : Moves(k, Free) /\ ucall[k].at = "spend"
  PROVE  UserInv'
<1>1. Stored /\ CallsOK /\ mint' \in Nat /\ mint \in Nat /\ mint =< mint' /\ mint' =< MaxTokens
  BY Bounds DEF UserInv
<1>2. Stored'
  <2>1. /\ person' \in [Person -> PersonRow] /\ refresh' \subseteq Refresh(mint') /\ fund' \in Employee
        /\ mailed' \subseteq [tok : 1 .. mint', of : Person]
    BY <1>1, TablesGrow DEF Stored, UserTypeOK
  <2> QED BY <1>1, <2>1, StoredNext
<1>3. CountOK' /\ OffOK' /\ ClientPerms'
  BY DEF UserInv, CountOK, OffOK, ClientPerms, Calm, UMay
<1>4. RowsStay /\ (MayManage(fund) => MayManage(fund)')
  BY DEF RowsStay, MayManage, Live
<1>5. CASE UNCHANGED ucall
  <2>1. CallsOK' /\ OneCall'
    BY <1>1, <1>5, CallsStill, OneCallStill DEF UserInv
  <2>2. ReadOK'
    BY <1>5 DEF UserInv, ReadOK, At
  <2>3. SessionsOK'
    BY <1>5, SessionsStill DEF UserInv
  <2>4. StaffPerms'
    BY <1>1, <1>5, StaffStill DEF UserInv
  <2>5. FundOK'
    BY <1>4, <1>5, FundStill DEF UserInv
  <2> QED BY <1>2, <1>3, <2>1, <2>2, <2>3, <2>4, <2>5 DEF UserInv
<1>6. ASSUME NEW k \in Call, Moves(k, Free), ucall[k].at = "spend" PROVE UserInv'
  <2>1. Free.at = "idle" /\ Carries(Free, mint') /\ ReadFits(Free, person', ~uenv.overlap)
    BY DEF Free, Carries, ReadFits
  <2>2. CallsOK' /\ OneCall'
    BY <1>1, <1>6, <2>1, CallsFrame, OneCallFrame DEF UserInv
  <2>3. ReadOK'
    BY <1>1, <1>4, <1>6, <2>1, ReadFrame DEF UserInv
  <2>4. SessionsOK'
    BY <1>6, <2>1, SessionsFrame DEF UserInv
  <2>5. StaffPerms'
    <3>1. \A e \in Employee : person'[e] = person[e]
      OBVIOUS
    <3> QED BY <1>1, <1>6, <3>1, StaffFrame DEF UserInv
  <2>6. FundOK'
    BY <1>4, <1>6, FundFrame DEF UserInv
  <2> QED BY <1>2, <1>3, <2>2, <2>3, <2>4, <2>5, <2>6 DEF UserInv
<1> QED BY <1>5, <1>6

LEMMA TokenExpiresInv ==
  ASSUME UserInv, NEW p \in Person, TokenExpires(p)
  PROVE  UserInv'
<1> DEFINE X == [past.expired EXCEPT ![p] = TRUE]
<1>1. Stored /\ UNCHANGED <<uenv, person, refresh, ucall, mint, mailed, fund, ufaults>> /\ ufaults' \in Nat
  BY DEF UserInv, TokenExpires, Stored
<1>2. /\ conf' \in [Person -> [tok : 0 .. mint', live : BOOLEAN]] /\ conf'[p].live = FALSE
      /\ \A q \in Person : conf'[q].tok = conf[q].tok
      /\ \A q \in Person : q # p => conf'[q] = conf[q]
  BY <1>1, ConfOff DEF TokenExpires
<1>3. past.expired \in [Person -> BOOLEAN] /\ past \in Past /\ past' = [past EXCEPT !.expired = X]
  BY <1>1, PastFields DEF Stored, TokenExpires
<1>4. X \in [Person -> BOOLEAN] /\ X[p] = TRUE /\ \A q \in Person : q # p => X[q] = past.expired[q]
  BY <1>3
<1> HIDE DEF X
<1>5. /\ past' \in Past /\ past'.wrong = past.wrong /\ past'.ended = past.ended /\ past'.spent = past.spent
      /\ past'.off = past.off /\ past'.moved = past.moved /\ past'.orphan = past.orphan /\ past'.expired = X
  BY <1>3, <1>4 DEF Past
<1>6. OwnersOK'
  <2>1. ASSUME NEW q \in Person, conf'[q].live PROVE conf'[q].tok # 0 /\ ~past'.expired[q]
    BY <1>2, <1>4, <1>5, <2>1 DEF UserInv, OwnersOK
  <2>2. \A m \in mailed', q \in Person : conf'[q].tok = m.tok => m.of = q
    BY <1>1, <1>2 DEF UserInv, OwnersOK
  <2>3. \A t \in 1 .. MaxTokens : t > mint' => past'.spent[t] = 0
    BY <1>1, <1>5 DEF UserInv, OwnersOK
  <2> QED BY <2>1, <2>2, <2>3 DEF OwnersOK
<1>7. SpentOK'
  <2>1. \A q \in Person : Spending(q)' <=> Spending(q)
    BY <1>1 DEF Spending, At
  <2>2. Calm' <=> Calm
    BY <1>1 DEF Calm, UMay
  <2>3. ASSUME Calm, NEW q \in Person, conf'[q].tok # 0
        PROVE  IF Spending(q)' THEN past'.spent[conf'[q].tok] = 1
               ELSE ~past'.expired[q] => (conf'[q].live <=> past'.spent[conf'[q].tok] = 0)
    <3>1. IF Spending(q) THEN past.spent[conf[q].tok] = 1
          ELSE ~past.expired[q] => (conf[q].live <=> past.spent[conf[q].tok] = 0)
      BY <1>2, <2>3 DEF UserInv, SpentOK
    <3>2. CASE q = p
      BY <1>2, <1>4, <1>5, <2>1, <3>1, <3>2
    <3>3. CASE q # p
      BY <1>2, <1>4, <1>5, <2>1, <3>1, <3>3
    <3> QED BY <3>2, <3>3
  <2>4. Calm => \A t \in 1 .. MaxTokens : past'.spent[t] <= 1
    BY <1>5 DEF UserInv, SpentOK
  <2>5. Calm => \A q \in Person : Spending(q)' => conf'[q].tok # 0
    BY <1>2, <2>1 DEF UserInv, SpentOK
  <2> QED BY <2>2, <2>3, <2>4, <2>5 DEF SpentOK
<1> QED BY <1>1, <1>2, <1>5, <1>6, <1>7, ConfStep

LEMMA SpendTokenInv ==
  ASSUME UserInv, NEW k \in Call, SpendToken(k)
  PROVE  UserInv'
<1> DEFINE p == ucall[k].p
<1>1. /\ Stored /\ CallsOK /\ OneCall /\ ucall[k].at = "spend" /\ ucall[k] # Free /\ EndCall(k)
      /\ UNCHANGED <<uenv, person, refresh, mint, mailed, fund, past>>
      /\ \/ UNoFail /\ conf' = [conf EXCEPT ![p].live = FALSE]
         \/ UFail("db") /\ UNCHANGED conf
  BY DEF UserInv, SpendToken, At, Free
<1>2. p \in Person
  BY <1>1, Whose
<1>3. Moves(k, Free) /\ ufaults' \in Nat /\ past' \in Past
  BY <1>1, EndMoves, FaultsCount DEF Stored
<1>4. p = ucall[k].p
  OBVIOUS
<1> HIDE DEF p
<1>5. /\ conf' \in [Person -> [tok : 0 .. mint', live : BOOLEAN]]
      /\ \A q \in Person : conf'[q].tok = conf[q].tok
      /\ \A q \in Person : q # p => conf'[q] = conf[q]
      /\ conf'[p].live = FALSE \/ (~Calm /\ conf' = conf)
  <2>1. CASE UNoFail /\ conf' = [conf EXCEPT ![p].live = FALSE]
    BY <1>1, <1>2, <2>1, ConfOff
  <2>2. CASE UFail("db") /\ UNCHANGED conf
    BY <1>1, <2>2 DEF UFail, Calm, Stored, UserTypeOK
  <2> QED BY <1>1, <2>1, <2>2
<1>6. \A q \in Person : conf'[q].live => conf[q].live
  BY <1>2, <1>5
<1>7. OwnersOK'
  BY <1>1, <1>5, <1>6 DEF UserInv, OwnersOK
<1>8. SpentOK'
  <2>1. Calm' <=> Calm
    BY <1>1 DEF Calm, UMay
  <2>2. ASSUME Calm, NEW q \in Person PROVE ~Spending(q)' /\ (Spending(q) <=> q = p)
    <3>1. \A j \in Call : j # k => ucall[j].at = "idle" /\ ucall'[j].at = "idle"
      BY <1>1, <1>3, <2>2, OnlyCall DEF Calm, Free
    <3>2. ucall'[k].at = "idle"
      BY <1>3 DEF Moves, Free
    <3> QED BY <1>1, <1>4, <3>1, <3>2 DEF Spending, At
  <2>3. ASSUME Calm, NEW q \in Person, conf'[q].tok # 0
        PROVE  ~past.expired[q] => (conf'[q].live <=> past.spent[conf'[q].tok] = 0)
    <3>1. IF Spending(q) THEN past.spent[conf[q].tok] = 1
          ELSE ~past.expired[q] => (conf[q].live <=> past.spent[conf[q].tok] = 0)
      BY <1>5, <2>3 DEF UserInv, SpentOK
    <3>2. CASE q = p
      BY <1>5, <2>2, <2>3, <3>1, <3>2
    <3>3. CASE q # p
      BY <1>5, <2>2, <2>3, <3>1, <3>3
    <3> QED BY <3>2, <3>3
  <2>4. Calm => \A t \in 1 .. MaxTokens : past.spent[t] <= 1
    BY DEF UserInv, SpentOK
  <2> QED BY <1>1, <2>1, <2>2, <2>3, <2>4 DEF SpentOK
<1> QED BY <1>1, <1>3, <1>5, <1>7, <1>8, ConfStep

LEMMA SetPasswordRow ==
  ASSUME Stored, NEW p \in Person, person' = [person EXCEPT ![p].pw = @ + 1, ![p].active = TRUE]
  PROVE  /\ person' \in [Person -> PersonRow] /\ person'[p].active = TRUE
         /\ \A q \in Person : q # p => person'[q] = person[q]
         /\ \A q \in Person :
              /\ person'[q].row = person[q].row /\ person'[q].role = person[q].role
              /\ person'[q].perms = person[q].perms /\ person'[q].fails = person[q].fails
              /\ person'[q].locked = person[q].locked /\ (person[q].active => person'[q].active)
<1> DEFINE n == person[p].pw + 1
           r == [person[p] EXCEPT !.pw = n, !.active = TRUE]
<1>1. person \in [Person -> PersonRow] /\ person[p] \in PersonRow /\ n \in Nat
  BY Rows DEF Stored, UserTypeOK
<1>2. person' = [person EXCEPT ![p] = r]
  BY <1>1
<1> HIDE DEF n
<1>3. /\ r \in PersonRow /\ r.active = TRUE /\ r.row = person[p].row /\ r.role = person[p].role
      /\ r.perms = person[p].perms /\ r.fails = person[p].fails /\ r.locked = person[p].locked
  BY <1>1 DEF PersonRow
<1> HIDE DEF r
<1>4. RowSet(p, r)
  BY <1>2, <1>3, RowIsSet
<1> QED BY <1>3, <1>4 DEF RowSet

LEMMA SetPasswordPast ==
  ASSUME Stored, NEW p \in Person, NEW t \in 1 .. MaxTokens,
         past' = [past EXCEPT !.spent[t] = @ + 1, !.off = @ \ {p}]
  PROVE  /\ past' \in Past /\ past'.wrong = past.wrong /\ past'.ended = past.ended /\ past'.expired = past.expired
         /\ past'.off = past.off \ {p} /\ past'.moved = past.moved /\ past'.orphan = past.orphan
         /\ past'.spent[t] = past.spent[t] + 1
         /\ \A n \in 1 .. MaxTokens : n # t => past'.spent[n] = past.spent[n]
<1> DEFINE i == past.spent[t] + 1
           S == [past.spent EXCEPT ![t] = i]
           O == past.off \ {p}
<1>1. past.spent \in [1 .. MaxTokens -> Nat] /\ past \in Past /\ past.off \in SUBSET Employee
  BY PastFields DEF Stored
<1>2. past' = [past EXCEPT !.spent = S, !.off = O]
  OBVIOUS
<1>3. i \in Nat /\ i = past.spent[t] + 1
  <2>1. past.spent[t] \in Nat
    BY <1>1, Zenon
  <2> QED BY <2>1
<1> HIDE DEF i
<1>4. /\ S \in [1 .. MaxTokens -> Nat] /\ S[t] = past.spent[t] + 1
      /\ \A n \in 1 .. MaxTokens : n # t => S[n] = past.spent[n]
  BY <1>1, <1>3
<1>5. O \in SUBSET Employee /\ O = past.off \ {p}
  BY <1>1
<1> HIDE DEF S, O
<1>6. /\ past' \in Past /\ past'.wrong = past.wrong /\ past'.ended = past.ended /\ past'.expired = past.expired
      /\ past'.off = O /\ past'.moved = past.moved /\ past'.orphan = past.orphan /\ past'.spent = S
  BY <1>1, <1>2, <1>4, <1>5 DEF Past
<1> QED BY <1>4, <1>5, <1>6

LEMMA ActivateInv ==
  ASSUME UserInv, NEW k \in Call, NEW m \in mailed, Activate(k, m)
  PROVE  UserInv'
<1> DEFINE t == m.tok
<1>1. PICK p \in Person : /\ conf[p].live /\ conf[p].tok = t
                          /\ person' = [person EXCEPT ![p].pw = @ + 1, ![p].active = TRUE]
                          /\ past' = [past EXCEPT !.spent[t] = @ + 1, !.off = @ \ {p}]
                          /\ ucall' = [ucall EXCEPT ![k] = [at |-> "spend", p |-> p]]
  BY DEF Activate, ActivateEmployeePassword, ActivateClientPassword, SetPassword, CheckEmployeeToken,
         CheckClientToken, ConfirmationIDByToken
<1>2. /\ Stored /\ CallsOK /\ OneCall /\ Starts(k) /\ UNCHANGED <<uenv, conf, refresh, mint, mailed, fund, ufaults>>
      /\ ucall[k] = Free /\ ucall[k].at = "idle" /\ Alone
  BY DEF UserInv, Activate, Starts, Free
<1>3. t \in 1 .. MaxTokens /\ t =< mint /\ mint \in Nat /\ MaxTokens \in Nat /\ mint =< MaxTokens
  BY <1>2, Bounds DEF Stored, UserTypeOK
<1> DEFINE c == [at |-> "spend", p |-> p]
<1>4. c.at = "spend" /\ c.p = p /\ Carries(c, mint')
  BY DEF Carries, SpendCall
<1>5. ucall' = [ucall EXCEPT ![k] = c]
  BY <1>1
<1>6. t = m.tok
  OBVIOUS
<1> HIDE DEF c, t
<1>7. Moves(k, c)
  BY <1>2, <1>5, CallMoves
<1>8. /\ person' \in [Person -> PersonRow] /\ person'[p].active = TRUE
      /\ \A q \in Person : q # p => person'[q] = person[q]
      /\ \A q \in Person :
           /\ person'[q].row = person[q].row /\ person'[q].role = person[q].role
           /\ person'[q].perms = person[q].perms /\ person'[q].fails = person[q].fails
           /\ person'[q].locked = person[q].locked /\ (person[q].active => person'[q].active)
  BY <1>1, <1>2, SetPasswordRow
<1>9. /\ past' \in Past /\ past'.wrong = past.wrong /\ past'.ended = past.ended /\ past'.expired = past.expired
      /\ past'.off = past.off \ {p} /\ past'.moved = past.moved /\ past'.orphan = past.orphan
      /\ past'.spent[t] = past.spent[t] + 1
      /\ \A n \in 1 .. MaxTokens : n # t => past'.spent[n] = past.spent[n]
  <2>1. past' = [past EXCEPT !.spent[t] = @ + 1, !.off = @ \ {p}]
    BY <1>1
  <2>2. Stored
    BY <1>2
  <2> QED BY <1>3, <2>1, <2>2, SetPasswordPast
<1>10. Stored'
  <2>1. /\ mint' \in Nat /\ mint' =< MaxTokens /\ conf' \in [Person -> [tok : 0 .. mint', live : BOOLEAN]]
        /\ refresh' \subseteq Refresh(mint') /\ mailed' \subseteq [tok : 1 .. mint', of : Person]
    BY <1>2, Bounds, TablesGrow
  <2>2. fund' \in Employee /\ ufaults' \in Nat
    BY <1>2 DEF Stored, UserTypeOK
  <2> QED BY <1>2, <1>8, <1>9, <2>1, <2>2, StoredNext
<1>11. CallsOK' /\ OneCall'
  BY <1>2, <1>3, <1>4, <1>7, CallsFrame, OneCallFrame
<1>12. ReadOK'
  <2>1. RowsStay /\ ReadFits(c, person', ~uenv.overlap)
    BY <1>4, <1>8 DEF RowsStay, ReadFits
  <2> QED BY <1>2, <1>7, <2>1, ReadFrame DEF UserInv
<1>13. CountOK'
  BY <1>2, <1>8, <1>9, Staffed, CountFrame DEF UserInv
<1>14. SessionsOK'
  BY <1>2, <1>4, <1>7, SessionsFrame DEF UserInv
<1>15. OwnersOK'
  <2>1. \A n \in 1 .. MaxTokens : n > mint => n # t
    BY <1>3
  <2> QED BY <1>2, <1>9, <2>1 DEF UserInv, OwnersOK
<1>16. SpentOK'
  <2>1. Calm' <=> Calm
    BY <1>2 DEF Calm, UMay
  <2>2. ASSUME Calm, NEW q \in Person PROVE ~Spending(q) /\ (Spending(q)' <=> q = p)
    <3>1. \A j \in Call : ucall[j].at = "idle" /\ (j # k => ucall'[j].at = "idle")
      BY <1>2, <1>7, <2>2, AloneFree DEF Calm, Moves
    <3>2. ucall'[k] = c /\ k \in Call
      BY <1>7 DEF Moves
    <3> QED BY <1>4, <3>1, <3>2 DEF Spending, At
  <2>3. conf[p].tok # 0 /\ ~past.expired[p]
    BY <1>1 DEF UserInv, OwnersOK
  <2>4. Calm => past.spent[t] = 0
    <3>1. Calm => (~past.expired[p] => (conf[p].live <=> past.spent[conf[p].tok] = 0))
      BY <2>2, <2>3 DEF UserInv, SpentOK
    <3> QED BY <1>1, <2>3, <3>1
  <2>5. \A q \in Person : q # p => conf[q].tok # t
    BY <1>1, <1>6 DEF UserInv, OwnersOK
  <2>6. \A q \in Person : conf[q].tok # 0 => conf[q].tok \in 1 .. MaxTokens
    BY <1>2, <1>3 DEF Stored, UserTypeOK
  <2>7. ASSUME Calm, NEW q \in Person, conf[q].tok # 0
        PROVE  IF q = p THEN past'.spent[conf[q].tok] = 1
               ELSE ~past'.expired[q] => (conf[q].live <=> past'.spent[conf[q].tok] = 0)
    <3>1. CASE q = p
      BY <1>1, <1>9, <2>4, <2>7, <3>1
    <3>2. CASE q # p
      <4>1. past'.spent[conf[q].tok] = past.spent[conf[q].tok]
        BY <1>9, <2>5, <2>6, <2>7, <3>2
      <4>2. ~past.expired[q] => (conf[q].live <=> past.spent[conf[q].tok] = 0)
        BY <2>2, <2>7 DEF UserInv, SpentOK
      <4> QED BY <1>9, <3>2, <4>1, <4>2
    <3> QED BY <3>1, <3>2
  <2>8. ASSUME Calm, NEW n \in 1 .. MaxTokens PROVE past'.spent[n] <= 1
    <3>1. CASE n = t
      BY <1>9, <2>4, <2>8, <3>1
    <3>2. CASE n # t
      BY <1>9, <2>8, <3>2 DEF UserInv, SpentOK
    <3> QED BY <3>1, <3>2
  <2> QED BY <1>2, <2>1, <2>2, <2>3, <2>7, <2>8 DEF SpentOK
<1>17. OffOK'
  <2>1. \A e \in past.off : e \in Person
    BY <1>2, Staffed DEF Stored, Past
  <2> QED BY <1>2, <1>8, <1>9, <2>1 DEF UserInv, OffOK
<1>18. StaffPerms'
  <2>1. \A e \in Employee : /\ person'[e].row = person[e].row /\ person'[e].perms = person[e].perms
                            /\ person'[e].role = person[e].role
    BY <1>8, Staffed
  <2> QED BY <1>2, <1>7, <2>1, StaffFrame DEF UserInv
<1>19. ClientPerms'
  <2>1. \A q \in Client : /\ person'[q].row = person[q].row /\ person'[q].perms = person[q].perms
                          /\ person'[q].role = person[q].role
    BY <1>8, Staffed
  <2> QED BY <1>9, <2>1, ClientFrame DEF UserInv
<1>20. FundOK'
  <2>1. fund \in Person
    BY <1>2, Staffed DEF Stored, UserTypeOK
  <2>2. MayManage(fund) => MayManage(fund)'
    BY <1>2, <1>8, <2>1 DEF MayManage, Live
  <2> QED BY <1>2, <1>7, <1>9, <2>2, FundFrame DEF UserInv
<1> QED BY <1>10, <1>11, <1>12, <1>13, <1>14, <1>15, <1>16, <1>17, <1>18, <1>19, <1>20 DEF UserInv

--------------------------------------------------------------------------
(* Clients. *)

LEMMA ClientStep ==
  ASSUME UserInv, NEW c \in Client, NEW r \in PersonRow, person' = [person EXCEPT ![c] = r],
         r.row = "none" <=> person[c].row = "none",
         UNCHANGED <<uenv, conf, refresh, mint, mailed, fund, ufaults>>, past' \in Past,
         past'.wrong = past.wrong, past'.ended = past.ended, past'.expired = past.expired,
         past'.spent = past.spent, past'.off = past.off, past'.orphan = past.orphan,
         past.moved \subseteq past'.moved,
         \/ c \in past'.moved \/ ClientFit(r.perms, r.role)
         \/ r.perms = person[c].perms /\ r.role = person[c].role,
         \/ UNCHANGED ucall /\ Alone
         \/ \E k \in Call : Moves(k, Free) /\ ucall[k].at = "client"
  PROVE  UserInv'
<1>1. Stored /\ CallsOK /\ mint' \in Nat /\ mint \in Nat /\ mint =< mint' /\ mint' =< MaxTokens
  BY Bounds DEF UserInv
<1>2. c \in Person /\ c \notin Employee
  BY Staffed
<1>3. RowSet(c, r)
  BY <1>1, <1>2, RowIsSet
<1>4. person'[c] = r /\ (\A q \in Person : q # c => person'[q] = person[q]) /\ \A e \in Employee : person'[e] = person[e]
  BY <1>2, <1>3, Staffed DEF RowSet
<1>5. Stored'
  <2>1. /\ refresh' \subseteq Refresh(mint') /\ mailed' \subseteq [tok : 1 .. mint', of : Person]
        /\ conf' \in [Person -> [tok : 0 .. mint', live : BOOLEAN]]
    BY <1>1, TablesGrow
  <2>2. fund' \in Employee /\ ufaults' \in Nat
    BY <1>1 DEF Stored, UserTypeOK
  <2> QED BY <1>1, <1>3, <2>1, <2>2, StoredNext DEF RowSet
<1>6. RowsStay
  BY <1>4 DEF RowsStay
<1>7. CountOK'
  BY <1>4 DEF UserInv, CountOK, Calm, UMay
<1>8. OwnersOK'
  BY <1>1, OwnersFrame DEF UserInv
<1>9. OffOK'
  <2>1. past.off \subseteq Employee
    BY <1>1, PastFields
  <2> QED BY <1>4, <2>1, OffFrame DEF UserInv
<1>10. ClientPerms'
  <2>1. ASSUME NEW q \in Client
        PROVE  \/ q \in past'.moved
               \/ person'[q].row # "none" => ClientFit(person'[q].perms, person'[q].role)
               \/ /\ person'[q].row # "none" => person[q].row # "none"
                  /\ person'[q].perms = person[q].perms /\ person'[q].role = person[q].role
    <3>1. CASE q = c
      BY <1>4, <3>1
    <3>2. CASE q # c
      BY <1>4, <3>2, Staffed
    <3> QED BY <3>1, <3>2
  <2> QED BY <2>1, ClientFrame DEF UserInv
<1>11. MayManage(fund) => MayManage(fund)'
  BY <1>1, <1>4 DEF MayManage, Live, Stored, UserTypeOK
<1>12. CASE UNCHANGED ucall /\ Alone
  <2>1. CallsOK' /\ OneCall'
    BY <1>1, <1>12, CallsStill, OneCallStill DEF UserInv
  <2>2. ReadOK'
    BY <1>1, <1>6, <1>12, ReadStill DEF UserInv
  <2>3. SessionsOK' /\ SpentOK'
    BY <1>12, SessionsStill, SpentStill DEF UserInv
  <2>4. StaffPerms'
    BY <1>1, <1>4, <1>12, StaffStill DEF UserInv
  <2>5. FundOK'
    BY <1>11, <1>12, FundStill DEF UserInv
  <2> QED BY <1>5, <1>7, <1>8, <1>9, <1>10, <2>1, <2>2, <2>3, <2>4, <2>5 DEF UserInv
<1>13. ASSUME NEW k \in Call, Moves(k, Free), ucall[k].at = "client" PROVE UserInv'
  <2>1. Free.at = "idle" /\ Carries(Free, mint') /\ ReadFits(Free, person', ~uenv.overlap)
    BY DEF Free, Carries, ReadFits
  <2>2. CallsOK' /\ OneCall'
    BY <1>1, <1>13, <2>1, CallsFrame, OneCallFrame DEF UserInv
  <2>3. ReadOK'
    BY <1>1, <1>6, <1>13, <2>1, ReadFrame DEF UserInv
  <2>4. SessionsOK' /\ SpentOK'
    BY <1>13, <2>1, SessionsFrame, SpentFrame DEF UserInv
  <2>5. StaffPerms'
    BY <1>1, <1>4, <1>13, StaffFrame DEF UserInv
  <2>6. FundOK'
    BY <1>11, <1>13, FundFrame DEF UserInv
  <2> QED BY <1>5, <1>7, <1>8, <1>9, <1>10, <2>2, <2>3, <2>4, <2>5, <2>6 DEF UserInv
<1> QED BY <1>12, <1>13

LEMMA UpdateClientInv ==
  ASSUME UserInv, NEW k \in Call, UpdateClient(k)
  PROVE  UserInv'
<1> DEFINE c == ucall[k].p
           role == ucall[k].role
<1>1. /\ Stored /\ CallsOK /\ ucall[k].at = "client" /\ ucall[k] # Free /\ EndCall(k)
      /\ UNCHANGED <<uenv, conf, refresh, mint, mailed, fund, ufaults>>
  BY DEF UserInv, UpdateClient, At, Free
<1>2. c \in Client /\ role \in UserRole
  BY <1>1 DEF CallsOK, Carries, LoginCall, RenewCall, SpendCall, ClientCall, StaffCall
<1>3. Moves(k, Free)
  BY <1>1, EndMoves
<1>4. /\ c \in Person /\ person \in [Person -> PersonRow] /\ person[c] \in PersonRow
      /\ past \in Past /\ past.moved \in SUBSET Client
  BY <1>1, <1>2, Staffed, PastFields DEF Stored, UserTypeOK
<1>5. CASE ~Live(c)
  <2> DEFINE r == person[c]
  <2>1. UNCHANGED <<person, past>>
    BY <1>5 DEF UpdateClient
  <2>2. person' = [person EXCEPT ![c] = r] /\ r \in PersonRow
    BY <1>4, <2>1
  <2> QED BY <1>1, <1>2, <1>3, <1>4, <2>1, <2>2, ClientStep
<1>6. CASE Live(c)
  <2> DEFINE r == [person[c] EXCEPT !.role = role]
             M == IF role = person[c].role THEN past.moved ELSE past.moved \cup {c}
  <2>1. person' = [person EXCEPT ![c] = r] /\ past' = [past EXCEPT !.moved = M]
    BY <1>4, <1>6 DEF UpdateClient
  <2>2. r \in PersonRow /\ r.row = person[c].row /\ r.perms = person[c].perms /\ r.role = role
    BY <1>2, <1>4 DEF PersonRow
  <2>3. M \in SUBSET Client /\ past.moved \subseteq M /\ (role = person[c].role \/ c \in M)
    BY <1>2, <1>4
  <2> HIDE DEF r, M, c, role
  <2>4. /\ past' \in Past /\ past'.wrong = past.wrong /\ past'.ended = past.ended /\ past'.expired = past.expired
        /\ past'.spent = past.spent /\ past'.off = past.off /\ past'.moved = M /\ past'.orphan = past.orphan
    BY <1>4, <2>1, <2>3 DEF Past
  <2> QED BY <1>1, <1>2, <1>3, <2>1, <2>2, <2>3, <2>4, ClientStep
<1> QED BY <1>5, <1>6

LEMMA AddClientMarginPermissionInv ==
  ASSUME UserInv, NEW c \in Client, AddClientMarginPermission(c)
  PROVE  UserInv'
<1> DEFINE P == person[c].perms \cup {"MARGIN_TRADE"}
           r == [person[c] EXCEPT !.perms = P]
<1>1. /\ Stored /\ Alone /\ person[c].row # "none" /\ person' = [person EXCEPT ![c].perms = P]
      /\ UNCHANGED <<uenv, conf, refresh, ucall, mint, mailed, fund, past, ufaults>>
  BY DEF UserInv, AddClientMarginPermission
<1>2. c \in Person /\ person \in [Person -> PersonRow] /\ person[c] \in PersonRow /\ past \in Past
  BY <1>1, Staffed DEF Stored, UserTypeOK
<1>3. person[c].perms \subseteq Permission
  BY <1>1, <1>2, Rows
<1>4. P \in SUBSET Permission /\ P \ {"MARGIN_TRADE"} = person[c].perms \ {"MARGIN_TRADE"}
  BY <1>3 DEF Permission
<1> HIDE DEF P
<1>5. person' = [person EXCEPT ![c] = r]
  BY <1>1, <1>2
<1>6. r \in PersonRow /\ r.row = person[c].row /\ r.perms = P /\ r.role = person[c].role
  BY <1>2, <1>4 DEF PersonRow
<1> HIDE DEF r
<1>7. c \in past'.moved \/ ClientFit(r.perms, r.role)
  <2>1. c \in past.moved \/ ClientFit(person[c].perms, person[c].role)
    BY <1>1 DEF UserInv, ClientPerms
  <2> QED BY <1>1, <1>4, <1>6, <2>1 DEF ClientFit
<1> QED BY <1>1, <1>2, <1>5, <1>6, <1>7, ClientStep

LEMMA SoftDeleteClientInv ==
  ASSUME UserInv, NEW u, NEW c \in Client, SoftDeleteClient(u, c)
  PROVE  UserInv'
<1> DEFINE r == [person[c] EXCEPT !.row = "deleted"]
<1>1. /\ Stored /\ Alone /\ person[c].row = "live" /\ person' = [person EXCEPT ![c].row = "deleted"]
      /\ UNCHANGED <<uenv, conf, refresh, ucall, mint, mailed, fund, past, ufaults>>
  BY DEF UserInv, SoftDeleteClient, Live
<1>2. c \in Person /\ person \in [Person -> PersonRow] /\ person[c] \in PersonRow /\ past \in Past
  BY <1>1, Staffed DEF Stored, UserTypeOK
<1>3. person' = [person EXCEPT ![c] = r]
  BY <1>1, <1>2
<1>4. r \in PersonRow /\ r.row = "deleted" /\ r.perms = person[c].perms /\ r.role = person[c].role
  BY <1>2 DEF PersonRow
<1> HIDE DEF r
<1> QED BY <1>1, <1>2, <1>3, <1>4, ClientStep

--------------------------------------------------------------------------
(* Employees. *)

SamePast ==
  /\ past' \in Past /\ past'.wrong = past.wrong /\ past'.ended = past.ended /\ past'.expired = past.expired
  /\ past'.spent = past.spent /\ past'.moved = past.moved

\* The row of employee e becomes r: neither created nor counted on.
StaffRow(e, r) ==
  /\ RowSet(e, r) /\ (r.row = "none" <=> person[e].row = "none")
  /\ r.fails = person[e].fails /\ r.locked = person[e].locked

LEMMA StaffStep ==
  ASSUME UserInv, NEW k \in Call, NEW c, Moves(k, c), Carries(c, mint),
         c.at \in {"idle", "update", "perms", "funds"}, c.at = "update" => ReadFits(c, person', ~uenv.overlap),
         ucall[k].at \in {"idle", "reread", "update", "perms", "funds"},
         UNCHANGED <<uenv, conf, refresh, mint, mailed>>, NEW e \in Employee, NEW r,
         StaffRow(e, r) \/ UNCHANGED person, fund' \in Employee, ufaults' \in Nat, SamePast,
         OffOK', StaffPerms', FundOK'
  PROVE  UserInv'
<1>1. Stored /\ CallsOK /\ mint' \in Nat /\ mint \in Nat /\ mint =< mint' /\ mint' =< MaxTokens
  BY Bounds DEF UserInv
<1>2. e \in Person /\ e \notin Client
  BY Staffed
<1>3. /\ person' \in [Person -> PersonRow] /\ \A q \in Client : person'[q] = person[q]
      /\ \A q \in Person : /\ person'[q].row = "none" <=> person[q].row = "none"
                           /\ person'[q].fails = person[q].fails /\ person'[q].locked = person[q].locked
  <2>1. CASE UNCHANGED person
    BY <1>1, <2>1 DEF Stored, UserTypeOK
  <2>2. CASE StaffRow(e, r)
    BY <1>2, <2>2, Staffed DEF StaffRow, RowSet
  <2> QED BY <2>1, <2>2
<1>4. Stored'
  <2>1. /\ refresh' \subseteq Refresh(mint') /\ mailed' \subseteq [tok : 1 .. mint', of : Person]
        /\ conf' \in [Person -> [tok : 0 .. mint', live : BOOLEAN]]
    BY <1>1, TablesGrow
  <2> QED BY <1>1, <1>3, <2>1, StoredNext DEF SamePast
<1>5. CallsOK' /\ OneCall'
  BY <1>1, CallsFrame, OneCallFrame DEF UserInv
<1>6. ReadOK'
  <2>1. RowsStay /\ ReadFits(c, person', ~uenv.overlap)
    BY <1>3 DEF RowsStay, ReadFits
  <2> QED BY <1>1, <2>1, ReadFrame DEF UserInv
<1>7. CountOK'
  BY <1>3, Staffed, CountFrame DEF UserInv, SamePast
<1>8. SessionsOK'
  BY SessionsFrame DEF UserInv
<1>9. OwnersOK'
  BY <1>1, OwnersFrame DEF UserInv, SamePast
<1>10. SpentOK'
  BY SpentFrame DEF UserInv, SamePast
<1>11. ClientPerms'
  BY <1>3, ClientFrame DEF UserInv, SamePast
<1> QED BY <1>4, <1>5, <1>6, <1>7, <1>8, <1>9, <1>10, <1>11 DEF UserInv

\* While one call runs alone, it alone can be about to hand the fund over.
LEMMA FundAlone ==
  ASSUME UserInv, NEW k, NEW c, Moves(k, c), Calm, ~UMay("trading"), ~past.orphan
  PROVE  MayManage(fund) \/ Leaving(k)
<1>1. \A j \in Call : j # k => ucall[j].at = "idle"
  BY OnlyCall DEF UserInv, Calm, Free
<1> QED BY <1>1 DEF UserInv, FundOK, Leaving

LEMMA StaffCallIs ==
  ASSUME CallsOK, NEW k \in Call, ucall[k].at \in {"reread", "update", "perms", "funds"}
  PROVE  /\ ucall[k].p \in Employee /\ ucall[k].row \in PersonRow /\ ucall[k].cur \in PersonRow
         /\ ucall[k].ch \in Change /\ ucall[k] # Free /\ StaffCall(ucall[k])
         /\ \A at \in {"update", "perms", "funds"} : LET c == [ucall[k] EXCEPT !.at = at] IN
              /\ StaffCall(c) /\ c.at = at /\ c.p = ucall[k].p /\ c.row = ucall[k].row /\ c.ch = ucall[k].ch
<1>1. StaffCall(ucall[k])
  BY DEF CallsOK, Carries, LoginCall, RenewCall, SpendCall, ClientCall, StaffCall, Free
<1>2. ucall[k] # Free
  BY DEF Free
<1> QED BY <1>1, <1>2 DEF StaffCall

\* The second read of an update.
LEMMA RereadEmployeeInv ==
  ASSUME UserInv, NEW k \in Call, RereadEmployee(k)
  PROVE  UserInv'
<1> DEFINE e == ucall[k].p
           c == [ucall[k] EXCEPT !.at = "update", !.cur = person[e]]
<1>1. /\ Stored /\ CallsOK /\ ucall[k].at = "reread" /\ ucall[k] # Free
      /\ UNCHANGED <<uenv, person, conf, refresh, mint, mailed, fund, past, ufaults>>
      /\ ucall' = [ucall EXCEPT ![k].at = "update", ![k].cur = person[e]] \/ EndCall(k)
  BY DEF UserInv, RereadEmployee, At, Free
<1>2. e \in Employee /\ e \in Person /\ person[e] \in PersonRow /\ StaffCall(ucall[k])
  BY <1>1, StaffCallIs, Staffed DEF Stored, UserTypeOK
<1>3. SamePast /\ fund' \in Employee /\ ufaults' \in Nat
  BY <1>1 DEF SamePast, Stored, UserTypeOK
<1>4. ASSUME NEW d, Moves(k, d), Carries(d, mint), d.at \in {"idle", "update"},
             d.at = "update" => ReadFits(d, person', ~uenv.overlap)
      PROVE  UserInv'
  <2>1. OffOK'
    BY <1>1 DEF UserInv, OffOK
  <2>2. StaffPerms'
    <3>1. \A q \in Employee : person'[q] = person[q]
      BY <1>1
    <3> QED BY <1>1, <1>4, <3>1, StaffFrame DEF UserInv
  <2>3. FundOK'
    <3>1. MayManage(fund) => MayManage(fund)'
      BY <1>1 DEF MayManage, Live
    <3> QED BY <1>1, <1>4, <3>1, FundFrame DEF UserInv
  <2> QED BY <1>1, <1>2, <1>3, <1>4, <2>1, <2>2, <2>3, StaffStep
<1>5. CASE EndCall(k)
  BY <1>1, <1>4, <1>5, EndMoves DEF Free, Carries
<1>6. CASE ucall' = [ucall EXCEPT ![k].at = "update", ![k].cur = person[e]]
  <2>1. /\ c.at = "update" /\ c.p = e /\ c.row = ucall[k].row /\ c.cur = person[e] /\ c.ch = ucall[k].ch
        /\ c = [at |-> c.at, p |-> c.p, row |-> c.row, cur |-> c.cur, ch |-> c.ch]
    <3> DEFINE u == ucall[k]
    <3>1. u = [at |-> u.at, p |-> u.p, row |-> u.row, cur |-> u.cur, ch |-> u.ch]
      BY <1>2 DEF StaffCall
    <3>2. c = [u EXCEPT !.at = "update", !.cur = person[e]]
      OBVIOUS
    <3>3. e = u.p
      OBVIOUS
    <3> HIDE DEF u, c, e
    <3>4. c = [at |-> "update", p |-> u.p, row |-> u.row, cur |-> person[e], ch |-> u.ch]
      BY <3>1, <3>2
    <3>5. c.row = u.row /\ c.ch = u.ch
      BY <3>4
    <3> QED BY <3>3, <3>4, <3>5 DEF u
  <2>2. ucall' = [ucall EXCEPT ![k] = c]
    BY <1>1, <1>6 DEF CallsOK
  <2>3. ~uenv.overlap => ucall[k].row.role = person[e].role
    BY <1>1 DEF UserInv, ReadOK, At
  <2> HIDE DEF c, e
  <2>4. Moves(k, c)
    BY <1>1, <2>2, CallMoves
  <2>5. Carries(c, mint)
    BY <1>1, <1>2, <2>1, StaffCallIs DEF Carries, StaffCall
  <2>6. ReadFits(c, person', ~uenv.overlap)
    BY <1>1, <2>1, <2>3 DEF ReadFits
  <2> QED BY <1>4, <2>1, <2>4, <2>5, <2>6
<1> QED BY <1>1, <1>5, <1>6

LEMMA WrittenFits ==
  ASSUME NEW row \in PersonRow, NEW ch \in Change
  PROVE  /\ WrittenRow(row, ch).role \in UserRole /\ WrittenRow(row, ch).active \in BOOLEAN
         /\ ch.role = "keep" => WrittenRow(row, ch).role = row.role
         /\ ch.role # "keep" => WrittenRow(row, ch).role = ch.role
         /\ ch.active = "keep" => WrittenRow(row, ch).active = row.active
         /\ ch.active = "no" => WrittenRow(row, ch).active = FALSE
         /\ ch.active = "yes" => WrittenRow(row, ch).active = TRUE
         /\ ch.active \in {"keep", "yes", "no"}
  BY DEF WrittenRow, PersonRow, Change

LEMMA UpdateEmployeeInv ==
  ASSUME UserInv, NEW k \in Call, UpdateEmployee(k)
  PROVE  UserInv'
<1> DEFINE e == ucall[k].p
           ch == ucall[k].ch
           old == ucall[k].cur
           w == WrittenRow(old, ch)
<1>1. /\ Stored /\ CallsOK /\ ucall[k].at = "update" /\ ucall[k] # Free
      /\ UNCHANGED <<uenv, conf, refresh, mint, mailed, fund, ufaults>>
  BY DEF UserInv, UpdateEmployee, At, Free
<1>2. e \in Employee /\ old \in PersonRow /\ ch \in Change /\ e \in Person /\ e \notin Client
  BY <1>1, StaffCallIs, Staffed
<1>3. /\ w.role \in UserRole /\ w.active \in BOOLEAN
      /\ ch.role = "keep" => w.role = old.role
      /\ ch.role # "keep" => w.role = ch.role
      /\ ch.active = "keep" => w.active = old.active
      /\ ch.active = "no" => w.active = FALSE
      /\ ch.active = "yes" => w.active = TRUE
      /\ ch.active \in {"keep", "yes", "no"}
  BY <1>2, WrittenFits
<1>4. ~uenv.overlap => old.role = person[e].role /\ old.active = person[e].active /\ ucall[k].row.role = person[e].role
  BY <1>1 DEF UserInv, ReadOK, At
<1>5. /\ past \in Past /\ past.off \in SUBSET Employee /\ past.moved \in SUBSET Client /\ fund' \in Employee
      /\ ufaults' \in Nat /\ person \in [Person -> PersonRow] /\ person[e] \in PersonRow
  BY <1>1, <1>2, PastFields DEF Stored, UserTypeOK
<1>6. Calm' <=> Calm
  BY <1>1 DEF Calm, UMay
<1>7. CASE ~Live(e)
  <2>1. UNCHANGED <<person, past>> /\ EndCall(k)
    BY <1>7 DEF UpdateEmployee
  <2>2. Moves(k, Free) /\ Free.at = "idle" /\ Carries(Free, mint)
    BY <1>1, <2>1, EndMoves DEF Free, Carries
  <2>3. SamePast /\ OffOK'
    BY <1>1, <1>5, <2>1 DEF SamePast, UserInv, OffOK
  <2>4. StaffPerms'
    <3>1. \A q \in Employee : person'[q] = person[q]
      BY <2>1
    <3> QED BY <1>1, <2>2, <3>1, StaffFrame DEF UserInv
  <2>5. FundOK'
    <3>1. MayManage(fund) => MayManage(fund)'
      BY <1>1, <2>1 DEF MayManage, Live
    <3> QED BY <1>1, <2>1, <2>2, <3>1, FundFrame DEF UserInv
  <2> QED BY <1>1, <1>2, <1>5, <2>1, <2>2, <2>3, <2>4, <2>5, StaffStep
<1>8. CASE Live(e)
  <2> DEFINE at == IF ch.role # "keep" \/ ch.margin # "keep" THEN "perms" ELSE "funds"
             c == [ucall[k] EXCEPT !.at = at]
             r == [person[e] EXCEPT !.role = w.role, !.active = w.active]
             O == IF ch.active = "no" THEN past.off \cup {e}
                  ELSE IF ch.active = "yes" THEN past.off \ {e} ELSE past.off
  <2>1. /\ person' = [person EXCEPT ![e].role = w.role, ![e].active = w.active]
        /\ past' = [past EXCEPT !.off = O] /\ StepTo(k, at)
    BY <1>8 DEF UpdateEmployee
  <2>2. at \in {"perms", "funds"} /\ (at = "funds" => ch.role = "keep")
    OBVIOUS
  <2> HIDE DEF at
  <2>3. Moves(k, c)
    BY <1>1, <2>1, StepMoves
  <2>4. StaffCall(c) /\ c.at = at /\ c.p = e /\ c.row = ucall[k].row /\ c.ch = ch
    BY <1>1, <2>2, StaffCallIs
  <2>5. O \in SUBSET Employee
    BY <1>2, <1>5
  <2>6. /\ ch.active = "no" => O = past.off \cup {e}
        /\ ch.active = "yes" => O = past.off \ {e}
        /\ ch.active = "keep" => O = past.off
    OBVIOUS
  <2>7. person' = [person EXCEPT ![e] = r]
    BY <1>5, <2>1
  <2>8. /\ r \in PersonRow /\ r.row = person[e].row /\ r.role = w.role /\ r.active = w.active
        /\ r.perms = person[e].perms /\ r.fails = person[e].fails /\ r.locked = person[e].locked
    BY <1>3, <1>5 DEF PersonRow
  <2>9. e = ucall[k].p /\ ch = ucall[k].ch /\ old = ucall[k].cur
    OBVIOUS
  <2> HIDE DEF O, r, c, e, ch, old, w
  <2>10. SamePast /\ past'.off = O /\ past'.orphan = past.orphan
    BY <1>5, <2>1, <2>5 DEF SamePast, Past
  <2>11. StaffRow(e, r) /\ person[e].row = "live"
    <3>1. RowSet(e, r)
      BY <1>1, <1>2, <2>7, <2>8, RowIsSet
    <3> QED BY <1>8, <2>8, <3>1 DEF StaffRow, Live
  <2>12. /\ person'[e] = r /\ \A q \in Employee : q # e => person'[q] = person[q]
    BY <2>11, Staffed DEF StaffRow, RowSet
  <2>13. Carries(c, mint)
    BY <2>4 DEF Carries
  <2>14. OffOK'
    <3>1. ASSUME NEW q \in O, q # e PROVE person'[q].row # "none" /\ (~uenv.overlap => ~person'[q].active)
      <4>1. q \in past.off /\ q \in Employee
        BY <1>3, <2>5, <2>6, <3>1
      <4> QED BY <2>12, <3>1, <4>1 DEF UserInv, OffOK
    <3>2. ASSUME e \in O PROVE person'[e].row # "none" /\ (~uenv.overlap => ~person'[e].active)
      <4>1. CASE ch.active = "no"
        BY <1>3, <2>8, <2>11, <2>12, <4>1
      <4>2. CASE ch.active = "keep"
        <5>1. ~uenv.overlap => ~person[e].active
          BY <2>6, <3>2, <4>2 DEF UserInv, OffOK
        <5> QED BY <1>3, <1>4, <2>8, <2>11, <2>12, <4>2, <5>1
      <4>3. ch.active # "yes"
        BY <2>6, <3>2
      <4> QED BY <1>3, <4>1, <4>2, <4>3
    <3> QED BY <1>1, <2>10, <3>1, <3>2 DEF OffOK
  <2>15. StaffPerms'
    <3>1. CASE ~Calm
      BY <1>6, <3>1 DEF StaffPerms
    <3>2. CASE Calm
      <4>1. at = "perms" \/ r.role = person[e].role
        BY <1>3, <1>4, <2>2, <2>8, <3>2 DEF Calm
      <4>2. ASSUME NEW q \in Employee, person'[q].row = "live"
            PROVE  \/ c.at = "perms" /\ c.p = q
                   \/ StaffFit(person'[q].perms, person'[q].role)
                   \/ /\ ~(ucall[k].at = "perms" /\ ucall[k].p = q) /\ person[q].row = "live"
                      /\ person'[q].perms = person[q].perms /\ person'[q].role = person[q].role
        <5>1. CASE q = e
          BY <1>1, <2>4, <2>8, <2>11, <2>12, <4>1, <5>1
        <5>2. CASE q # e
          BY <1>1, <2>12, <4>2, <5>2
        <5> QED BY <5>1, <5>2
      <4> QED BY <1>1, <2>3, <4>2, StaffFrame DEF UserInv
    <3> QED BY <3>1, <3>2
  <2>16. FundOK'
    <3>1. ASSUME Calm, ~UMay("trading"), ~past.orphan PROVE MayManage(fund)' \/ Leaving(k)'
      <4>1. MayManage(fund)
        BY <1>1, <2>3, <3>1, FundAlone DEF Leaving
      <4>2. CASE fund # e
        BY <1>1, <1>5, <2>12, <4>1, <4>2 DEF MayManage, Live
      <4>3. CASE fund = e
        <5>1. old.role = "SUPERVISOR" /\ old.active /\ ucall[k].row.role = "SUPERVISOR"
          BY <1>4, <3>1, <4>1, <4>3 DEF MayManage, Calm
        <5>2. ucall'[k] = c
          BY <2>3 DEF Moves
        <5>3. CASE w.role = "SUPERVISOR" /\ w.active
          BY <1>1, <2>8, <2>11, <2>12, <4>3, <5>3 DEF MayManage, Live
        <5>4. CASE ~(w.role = "SUPERVISOR" /\ w.active)
          <6>1. ch.active = "no" \/ ch.role \notin {"keep", "SUPERVISOR"}
            BY <1>3, <5>1, <5>4
          <6>2. Removed(k)'
            BY <2>4, <5>1, <5>2, <6>1 DEF Removed
          <6> QED BY <1>1, <2>2, <2>4, <4>3, <5>2, <6>2 DEF Leaving
        <5> QED BY <5>3, <5>4
      <4> QED BY <4>2, <4>3
    <3> QED BY <1>1, <1>6, <2>10, <3>1 DEF FundOK, UMay
  <2> QED BY <1>1, <1>2, <1>5, <2>2, <2>3, <2>4, <2>10, <2>11, <2>13, <2>14, <2>15, <2>16, StaffStep
<1> QED BY <1>7, <1>8

LEMMA ReplaceEmployeePermissionsInv ==
  ASSUME UserInv, NEW k \in Call, ReplaceEmployeePermissions(k)
  PROVE  UserInv'
<1> DEFINE e == ucall[k].p
           base == employeePermissions(person[e].role)
           P == base \cup IF ucall[k].ch.margin = "yes" THEN {"MARGIN_TRADE"} ELSE {}
           r == [person[e] EXCEPT !.perms = P]
           c == [ucall[k] EXCEPT !.at = "funds"]
<1>1. /\ Stored /\ CallsOK /\ ucall[k].at = "perms" /\ ucall[k] # Free
      /\ UNCHANGED <<uenv, conf, refresh, mint, mailed, fund, past>>
      /\ \/ UNoFail /\ StepTo(k, "funds") /\ person' = [person EXCEPT ![e].perms = P]
         \/ UFail("db") /\ EndCall(k) /\ UNCHANGED person
  BY DEF UserInv, ReplaceEmployeePermissions, At, Free
<1>2. e \in Employee /\ e \in Person /\ e \notin Client
  BY <1>1, StaffCallIs, Staffed
<1>3. fund' \in Employee /\ ufaults' \in Nat /\ SamePast /\ person \in [Person -> PersonRow] /\ person[e] \in PersonRow
  BY <1>1, <1>2, FaultsCount DEF Stored, UserTypeOK, SamePast
<1>4. Calm' <=> Calm
  BY <1>1 DEF Calm, UMay
<1>5. StaffCall(c) /\ c.at = "funds" /\ c.p = e /\ c.row = ucall[k].row /\ c.ch = ucall[k].ch
  BY <1>1, StaffCallIs
<1>6. base \subseteq Permission /\ "MARGIN_TRADE" \notin base /\ base = employeePermissions(person[e].role)
  BY StaffPlain
<1> HIDE DEF base
<1>7. P \subseteq Permission /\ P \ {"MARGIN_TRADE"} = base
  BY <1>6 DEF Permission
<1>8. e = ucall[k].p
  OBVIOUS
<1> HIDE DEF P, c, e
<1>9. CASE UFail("db") /\ EndCall(k) /\ UNCHANGED person
  <2>1. Moves(k, Free) /\ Free.at = "idle" /\ Carries(Free, mint)
    BY <1>1, <1>9, EndMoves DEF Free, Carries
  <2>2. ~Calm'
    BY <1>4, <1>9 DEF UFail, Calm
  <2>3. OffOK' /\ StaffPerms' /\ FundOK'
    BY <1>1, <1>9, <2>2 DEF UserInv, OffOK, StaffPerms, FundOK
  <2> QED BY <1>1, <1>2, <1>3, <1>9, <2>1, <2>3, StaffStep
<1>10. CASE UNoFail /\ StepTo(k, "funds") /\ person' = [person EXCEPT ![e].perms = P]
  <2>1. Moves(k, c) /\ Carries(c, mint)
    BY <1>1, <1>5, <1>10, StepMoves DEF Carries, c
  <2>2. person' = [person EXCEPT ![e] = r]
    BY <1>3, <1>10
  <2>3. /\ r \in PersonRow /\ r.row = person[e].row /\ r.role = person[e].role /\ r.active = person[e].active
        /\ r.perms = P /\ r.fails = person[e].fails /\ r.locked = person[e].locked
    BY <1>3, <1>7 DEF PersonRow
  <2> HIDE DEF r
  <2>4. RowSet(e, r)
    BY <1>1, <1>2, <2>2, <2>3, RowIsSet
  <2>5. person'[e] = r /\ \A q \in Employee : q # e => person'[q] = person[q]
    BY <2>4, Staffed DEF RowSet
  <2>6. \A q \in Employee : person'[q].row = person[q].row /\ person'[q].active = person[q].active /\ person'[q].role = person[q].role
    BY <2>3, <2>5
  <2>7. OffOK'
    <3>1. past.off \subseteq Employee
      BY <1>1, PastFields
    <3> QED BY <1>1, <2>6, <3>1, OffFrame DEF UserInv
  <2>8. StaffPerms'
    <3>1. StaffFit(P, r.role)
      BY <1>6, <1>7, <2>3 DEF StaffFit
    <3>2. \A q \in Employee : person'[q].row = "live" =>
            \/ StaffFit(person'[q].perms, person'[q].role)
            \/ /\ ~(ucall[k].at = "perms" /\ ucall[k].p = q) /\ person[q].row = "live"
               /\ person'[q].perms = person[q].perms /\ person'[q].role = person[q].role
      BY <1>8, <2>3, <2>5, <3>1
    <3> QED BY <1>1, <2>1, <3>2, StaffFrame DEF UserInv
  <2>9. FundOK'
    <3>1. ASSUME Calm, ~UMay("trading"), ~past.orphan PROVE MayManage(fund)' \/ Leaving(k)'
      <4>1. CASE MayManage(fund)
        BY <1>1, <1>3, <2>6, <4>1 DEF MayManage, Live
      <4>2. CASE Leaving(k)
        <5>1. ucall'[k] = c
          BY <2>1 DEF Moves
        <5>2. Removed(k)'
          BY <1>5, <4>2, <5>1 DEF Leaving, Removed
        <5> QED BY <1>1, <1>5, <1>8, <4>2, <5>1, <5>2 DEF Leaving
      <4> QED BY <2>1, <3>1, <4>1, <4>2, FundAlone
    <3> QED BY <1>1, <1>4, <3>1 DEF FundOK, UMay
  <2>10. StaffRow(e, r)
    BY <2>3, <2>4 DEF StaffRow
  <2> QED BY <1>1, <1>2, <1>3, <1>5, <2>1, <2>7, <2>8, <2>9, <2>10, StaffStep
<1> QED BY <1>1, <1>9, <1>10


LEMMA SoftDeleteEmployeeInv ==
  ASSUME UserInv, NEW k \in Call, NEW u, NEW e \in Employee, SoftDeleteEmployee(k, u, e)
  PROVE  UserInv'
<1> DEFINE r == [person[e] EXCEPT !.row = "deleted"]
           no == [active |-> "no", role |-> "keep", margin |-> "keep"]
           c == [at |-> "funds", p |-> e, row |-> person[e], cur |-> person[e], ch |-> no]
<1>1. /\ Stored /\ CallsOK /\ Starts(k) /\ Alone /\ ucall[k] = Free /\ ucall[k].at = "idle" /\ person[e].row = "live"
      /\ person' = [person EXCEPT ![e].row = "deleted"] /\ ucall' = [ucall EXCEPT ![k] = c]
      /\ UNCHANGED <<uenv, conf, refresh, mint, mailed, fund, past, ufaults>>
  BY DEF UserInv, SoftDeleteEmployee, Starts, Free, Live
<1>2. e \in Person /\ e \notin Client /\ person \in [Person -> PersonRow] /\ person[e] \in PersonRow
  BY <1>1, Staffed DEF Stored, UserTypeOK
<1>3. person' = [person EXCEPT ![e] = r]
  BY <1>1, <1>2
<1>4. /\ r \in PersonRow /\ r.row = "deleted" /\ r.role = person[e].role /\ r.active = person[e].active
      /\ r.fails = person[e].fails /\ r.locked = person[e].locked
  BY <1>2 DEF PersonRow
<1>5. no \in Change /\ no.active = "no"
  BY DEF Change
<1> HIDE DEF r, no
<1>6. /\ c.at = "funds" /\ c.p = e /\ c.row = person[e] /\ c.cur = person[e] /\ c.ch = no
      /\ c = [at |-> c.at, p |-> c.p, row |-> c.row, cur |-> c.cur, ch |-> c.ch]
  OBVIOUS
<1> HIDE DEF c
<1>7. Carries(c, mint)
  BY <1>2, <1>5, <1>6 DEF Carries, StaffCall
<1>8. Moves(k, c)
  BY <1>1, CallMoves
<1>9. RowSet(e, r)
  BY <1>1, <1>2, <1>3, <1>4, RowIsSet
<1>10. StaffRow(e, r)
  BY <1>1, <1>4, <1>9 DEF StaffRow
<1>11. person'[e] = r /\ \A q \in Employee : q # e => person'[q] = person[q]
  BY <1>9, Staffed DEF RowSet
<1>12. SamePast /\ fund' \in Employee /\ ufaults' \in Nat
  BY <1>1 DEF SamePast, Stored, UserTypeOK
<1>13. OffOK'
  <2>1. past.off \subseteq Employee
    BY <1>1, PastFields
  <2> QED BY <1>1, <1>4, <1>11, <2>1, OffFrame DEF UserInv
<1>14. StaffPerms'
  <2>1. \A q \in Employee : person'[q].row = "live" => person'[q] = person[q]
    BY <1>4, <1>11
  <2> QED BY <1>1, <1>8, <2>1, StaffFrame DEF UserInv
<1>15. FundOK'
  <2>1. ASSUME Calm, ~UMay("trading"), ~past.orphan PROVE MayManage(fund)' \/ Leaving(k)'
    <3>1. MayManage(fund)
      BY <1>1, <1>8, <2>1, FundAlone DEF Leaving
    <3>2. CASE fund # e
      BY <1>1, <1>11, <1>12, <3>1, <3>2 DEF MayManage, Live
    <3>3. CASE fund = e
      <4>1. ucall'[k] = c
        BY <1>8 DEF Moves
      <4>2. Removed(k)'
        BY <1>5, <1>6, <3>1, <3>3, <4>1 DEF MayManage, Removed
      <4> QED BY <1>1, <1>6, <3>3, <4>1, <4>2 DEF Leaving
    <3> QED BY <3>2, <3>3
  <2> QED BY <1>1, <2>1 DEF FundOK, Calm, UMay
<1> QED BY <1>1, <1>6, <1>7, <1>8, <1>10, <1>12, <1>13, <1>14, <1>15, StaffStep

\* Whom the query finds may manage a fund.
LEMMA HeirManages ==
  ASSUME NEW e, NEW h \in FirstActiveEmployeeIDByRoleExcluding("SUPERVISOR", e)
  PROVE  h \in Employee /\ MayManage(h)
<1>1. PICK i \in 1 .. Len(EmpOrder) :
        h = EmpOrder[i] /\ Live(EmpOrder[i]) /\ person[EmpOrder[i]].active /\ person[EmpOrder[i]].role = "SUPERVISOR"
  BY DEF FirstActiveEmployeeIDByRoleExcluding
<1>2. EmpOrder \in Seq(Employee)
  BY UsersAssumption
<1>3. EmpOrder[i] \in Employee
  BY <1>2
<1> QED BY <1>1, <1>3 DEF MayManage

LEMMA ReassignFundsInv ==
  ASSUME UserInv, NEW k \in Call, reassignFundsIfSupervisorRemoved(k)
  PROVE  UserInv'
<1> DEFINE e == ucall[k].p
           heir == FirstActiveEmployeeIDByRoleExcluding("SUPERVISOR", e)
<1>1. /\ Stored /\ CallsOK /\ ucall[k].at = "funds" /\ ucall[k] # Free /\ EndCall(k)
      /\ UNCHANGED <<uenv, person, conf, refresh, mint, mailed>>
  BY DEF UserInv, reassignFundsIfSupervisorRemoved, At, Free
<1>2. \/ ~Removed(k) /\ UNoFail /\ UNCHANGED <<fund, past>>
      \/ UNoFail /\ past' = [past EXCEPT !.orphan = TRUE] /\ UNCHANGED fund
      \/ Removed(k) /\ UNoFail /\ (\E h \in heir : callFundManagerReassign(e, h)) /\ UNCHANGED past
      \/ UFail("trading") /\ UNCHANGED <<fund, past>>
  BY DEF reassignFundsIfSupervisorRemoved
<1>3. e \in Employee
  BY <1>1, StaffCallIs
<1>4. Moves(k, Free) /\ Free.at = "idle" /\ Carries(Free, mint)
  BY <1>1, EndMoves DEF Free, Carries
<1>5. past \in Past /\ fund \in Employee /\ (UNCHANGED past => SamePast)
  BY <1>1 DEF SamePast, Stored, UserTypeOK
<1>6. ufaults' \in Nat
  BY <1>1, <1>2, FaultsCount
<1>7. StaffPerms'
  <2>1. \A q \in Employee : person'[q] = person[q]
    BY <1>1
  <2> QED BY <1>1, <1>4, <2>1, StaffFrame DEF UserInv
<1>8. MayManage(fund) => (UNCHANGED fund => MayManage(fund)')
  BY <1>1 DEF MayManage, Live
<1> HIDE DEF heir
<1>9. CASE ~Removed(k) /\ UNoFail /\ UNCHANGED <<fund, past>>
  <2>1. FundOK'
    <3>1. ASSUME Calm, ~UMay("trading"), ~past.orphan PROVE MayManage(fund)'
      BY <1>4, <1>8, <1>9, <3>1, FundAlone DEF Leaving
    <3> QED BY <1>1, <1>9, <3>1 DEF FundOK, Calm, UMay
  <2>2. OffOK'
    BY <1>1, <1>9 DEF UserInv, OffOK
  <2> QED BY <1>1, <1>3, <1>4, <1>5, <1>6, <1>7, <1>9, <2>1, <2>2, StaffStep
<1>10. CASE UNoFail /\ past' = [past EXCEPT !.orphan = TRUE] /\ UNCHANGED fund
  <2>1. SamePast /\ past'.off = past.off /\ past'.orphan = TRUE
    BY <1>5, <1>10 DEF SamePast, Past
  <2>2. OffOK' /\ FundOK'
    BY <1>1, <2>1 DEF UserInv, OffOK, FundOK
  <2> QED BY <1>1, <1>3, <1>4, <1>5, <1>6, <1>7, <1>10, <2>1, <2>2, StaffStep
<1>11. CASE Removed(k) /\ UNoFail /\ (\E h \in heir : callFundManagerReassign(e, h)) /\ UNCHANGED past
  <2>1. PICK h \in heir : fund' = IF fund = e THEN h ELSE fund
    BY <1>11 DEF callFundManagerReassign
  <2>2. h \in Employee /\ MayManage(h)
    BY HeirManages DEF heir
  <2>3. fund' \in Employee
    BY <1>5, <2>1, <2>2
  <2>4. FundOK'
    <3>1. ASSUME Calm, ~UMay("trading"), ~past.orphan PROVE MayManage(fund)'
      <4>1. CASE fund = e
        BY <1>1, <2>1, <2>2, <4>1 DEF MayManage, Live
      <4>2. CASE fund # e
        <5>1. ~Leaving(k)
          BY <4>2 DEF Leaving
        <5>2. MayManage(fund)
          BY <1>4, <3>1, <5>1, FundAlone
        <5> QED BY <1>8, <2>1, <4>2, <5>2
      <4> QED BY <4>1, <4>2
    <3> QED BY <1>1, <1>11, <3>1 DEF FundOK, Calm, UMay
  <2>5. OffOK'
    BY <1>1, <1>11 DEF UserInv, OffOK
  <2> QED BY <1>1, <1>3, <1>4, <1>5, <1>6, <1>7, <1>11, <2>3, <2>4, <2>5, StaffStep
<1>12. CASE UFail("trading") /\ UNCHANGED <<fund, past>>
  <2>1. UMay("trading")'
    BY <1>1, <1>12 DEF UFail, UMay
  <2>2. OffOK' /\ FundOK'
    BY <1>1, <1>12, <2>1 DEF UserInv, OffOK, FundOK
  <2> QED BY <1>1, <1>3, <1>4, <1>5, <1>6, <1>7, <1>12, <2>2, StaffStep
<1> QED BY <1>2, <1>9, <1>10, <1>11, <1>12

--------------------------------------------------------------------------
(* The start, the steps and the theorems. *)

LEMMA InitInv == UserInit => UserInv
<1> SUFFICES ASSUME UserInit PROVE UserInv
  OBVIOUS
<1>1. /\ uenv \in UserScenarios /\ person = uenv.start /\ conf = [p \in Person |-> NoToken] /\ refresh = {}
      /\ mint = 0 /\ mailed = {} /\ ucall = [k \in Call |-> Free] /\ ufaults = 0 /\ fund \in Employee /\ MayManage(fund)
      /\ past = [wrong |-> [e \in Employee |-> 0], ended |-> [e \in Employee |-> FALSE],
                 expired |-> [p \in Person |-> FALSE],
                 spent |-> [t \in 1 .. MaxTokens |-> 0], off |-> {}, moved |-> {}, orphan |-> FALSE]
  BY DEF UserInit, UserStart
<1>2. /\ person \in [Person -> PersonRow] /\ MaxTokens \in Nat /\ MaxFails \in Nat \ {0}
      /\ \A p \in Person : StartRow(p, person[p])
  BY <1>1, UsersAssumption
<1>3. /\ past \in Past /\ past.wrong = [e \in Employee |-> 0] /\ past.spent = [t \in 1 .. MaxTokens |-> 0]
      /\ past.off = {} /\ past.expired = [p \in Person |-> FALSE]
  BY <1>1 DEF Past
<1>4. NoToken \in [tok : 0 .. 0, live : BOOLEAN] /\ NoToken.tok = 0 /\ NoToken.live = FALSE
  BY DEF NoToken
<1>5. conf \in [Person -> [tok : 0 .. mint, live : BOOLEAN]] /\ \A p \in Person : conf[p].tok = 0 /\ conf[p].live = FALSE
  BY <1>1, <1>4
<1>6. Stored
  BY <1>1, <1>2, <1>3, <1>5 DEF Stored, UserTypeOK
<1>7. \A k \in Call : ucall[k] = Free /\ ucall[k].at = "idle"
  BY <1>1 DEF Free
<1>8. CallsOK /\ OneCall /\ ReadOK
  BY <1>1, <1>7 DEF CallsOK, OneCall, ReadOK, Carries, At
<1>9. CountOK
  <2>1. \A e \in Employee : person[e].fails = 0 /\ ~person[e].locked /\ past.wrong[e] = 0
    BY <1>2, <1>3, Staffed DEF StartRow
  <2>2. ~(0 >= MaxFails)
    BY <1>2
  <2> QED BY <2>1, <2>2 DEF CountOK
<1>10. SessionsOK
  BY <1>1 DEF SessionsOK
<1>11. OwnersOK
  BY <1>1, <1>3, <1>5 DEF OwnersOK
<1>12. SpentOK
  <2>1. \A p \in Person : ~Spending(p)
    BY <1>7 DEF Spending, At
  <2>2. \A t \in 1 .. MaxTokens : past.spent[t] <= 1
    BY <1>3
  <2> QED BY <1>5, <2>1, <2>2 DEF SpentOK
<1>13. OffOK
  BY <1>3 DEF OffOK
<1>14. StaffPerms /\ ClientPerms
  BY <1>2, Staffed DEF StaffPerms, ClientPerms, StaffFit, ClientFit, StartRow
<1>15. FundOK
  BY <1>1 DEF FundOK
<1> QED BY <1>6, <1>8, <1>9, <1>10, <1>11, <1>12, <1>13, <1>14, <1>15 DEF UserInv

LEMMA KeepIsChange == [active |-> "keep", role |-> "keep", margin |-> "keep"] \in Change
  BY DEF Change

\* One step per action.
LEMMA NextInv ==
  ASSUME UserInv, UserNext
  PROVE  UserInv'
<1>1. ASSUME NEW k \in Call, NEW e \in Staff, NEW ok \in BOOLEAN, EmployeeLogin(k, e, ok) PROVE UserInv'
  BY <1>1, EmployeeLoginInv DEF Staff
<1>2. ASSUME NEW k \in Call,
             \/ FailLogin(k) \/ IssueTokens(k) \/ ResetEmployeeLoginFailures(k)
             \/ RotateDelete(k) \/ RotateStore(k) \/ SpendToken(k) \/ UpdateClient(k)
             \/ RereadEmployee(k) \/ UpdateEmployee(k) \/ ReplaceEmployeePermissions(k) \/ reassignFundsIfSupervisorRemoved(k)
      PROVE  UserInv'
  BY <1>2, FailLoginInv, IssueTokensInv, ResetInv, RotateDeleteInv, RotateStoreInv, SpendTokenInv,
     UpdateClientInv, RereadEmployeeInv, UpdateEmployeeInv, ReplaceEmployeePermissionsInv, ReassignFundsInv
<1>3. ASSUME NEW e \in Staff, LockEnds(e) \/ EmployeeForgotPassword(e) \/ EmployeeResendActivation(e) PROVE UserInv'
  BY <1>3, LockEndsInv, SendTokenInv, Staffed DEF Staff, EmployeeForgotPassword, EmployeeResendActivation
<1>4. ASSUME NEW k \in Call, NEW r \in refresh, EmployeeRefresh(k, r.tok) PROVE UserInv'
  BY <1>4, EmployeeRefreshInv
<1>5. ASSUME NEW r \in refresh, Logout(r.tok) PROVE UserInv'
  BY <1>5, LogoutInv
<1>6. ASSUME NEW c \in Customers,
             ClientForgotPassword(c) \/ ClientResendActivation(c) \/ AddClientMarginPermission(c)
      PROVE  UserInv'
  BY <1>6, SendTokenInv, AddClientMarginPermissionInv, Staffed DEF Customers, ClientForgotPassword, ClientResendActivation
<1>7. ASSUME NEW k \in Call, NEW m \in mailed, Activate(k, m) PROVE UserInv'
  BY <1>7, ActivateInv
<1>8. ASSUME NEW p \in Person, TokenExpires(p) PROVE UserInv'
  BY <1>8, TokenExpiresInv
<1>9. ASSUME NEW u \in Employee, NEW e \in Staff, NEW role \in {"AGENT", "SUPERVISOR"}, CreateEmployee(u, e, role)
      PROVE  UserInv'
  BY <1>9, CreateEmployeeInv DEF Staff, UserRole
<1>10. ASSUME NEW u \in Employee, NEW c \in Customers, NEW role \in {"CLIENT_BASIC", "CLIENT_TRADING"},
              CreateClient(u, c, role)
       PROVE  UserInv'
  BY <1>10, CreateClientInv DEF Customers, UserRole
<1>11. ASSUME NEW k \in Call, NEW u \in Employee, NEW c \in Customers, NEW role \in {"keep", "CLIENT_TRADING"},
              BeginUpdateClient(k, u, c, role)
       PROVE  UserInv'
  BY <1>11, BeginUpdateClientInv DEF Customers, UserRole
<1>12. ASSUME NEW u \in Employee, NEW c \in Customers, SoftDeleteClient(u, c) PROVE UserInv'
  BY <1>12, SoftDeleteClientInv DEF Customers
<1>13. ASSUME NEW k \in Call, NEW u \in Employee, NEW e \in Staff, NEW ch \in uenv.changes,
              BeginUpdateEmployee(k, u, e, ch)
       PROVE  UserInv'
  <2>1. ch \in Change /\ e \in Employee
    BY UsersAssumption DEF UserInv, Stored, Staff
  <2> QED BY <1>13, <2>1, BeginUpdateEmployeeInv
<1>14. ASSUME NEW k \in Call, NEW e \in Staff, EditEmployee(k, e) PROVE UserInv'
  BY <1>14, KeepIsChange, BeginUpdateEmployeeInv DEF EditEmployee, Staff
<1>15. ASSUME NEW k \in Call, NEW u \in Employee, NEW e \in Staff, SoftDeleteEmployee(k, u, e) PROVE UserInv'
  BY <1>15, SoftDeleteEmployeeInv DEF Staff
<1> QED BY <1>1, <1>2, <1>3, <1>4, <1>5, <1>6, <1>7, <1>8, <1>9, <1>10, <1>11, <1>12, <1>13, <1>14, <1>15 DEF UserNext

LEMMA StutterInv ==
  ASSUME UserInv, UNCHANGED uvars
  PROVE  UserInv'
<1>1. /\ UNCHANGED <<uenv, person, conf, refresh, ucall, mint, mailed, fund, past, ufaults>>
  BY DEF uvars
<1>2. Stored'
  BY <1>1 DEF UserInv, Stored, UserTypeOK, Past
<1>3. CallsOK' /\ OneCall' /\ ReadOK' /\ CountOK' /\ SessionsOK' /\ OwnersOK' /\ OffOK' /\ ClientPerms'
  BY <1>1 DEF UserInv, CallsOK, OneCall, ReadOK, CountOK, SessionsOK, OwnersOK, OffOK, ClientPerms, At, Calm, UMay
<1>4. SpentOK'
  BY <1>1, SpentStill DEF UserInv
<1>5. StaffPerms'
  BY <1>1, StaffStill DEF UserInv
<1>6. FundOK'
  <2>1. MayManage(fund) => MayManage(fund)'
    BY <1>1 DEF MayManage, Live
  <2> QED BY <1>1, <2>1, FundStill DEF UserInv
<1> QED BY <1>2, <1>3, <1>4, <1>5, <1>6 DEF UserInv

\* The inductive invariant of the user service.
THEOREM UsersInductive == UserSpec => []UserInv
<1>1. UserInv /\ [UserNext]_uvars => UserInv'
  BY NextInv, StutterInv
<1> QED BY InitInv, <1>1, PTL DEF UserSpec

\* Rows, tokens and the fund's manager keep their types under every request.
THEOREM UserTypesHold == UserSpec => []UserTypeOK
<1>1. UserInv => UserTypeOK
  BY DEF UserInv, Stored
<1> QED BY <1>1, UsersInductive, PTL

LEMMA PromisesHold ==
  ASSUME UserInv
  PROVE  AccountsInOrder
<1>1. LockoutKept /\ OneTokenPerSession
  BY DEF UserInv, CountOK, SessionsOK, LockoutKept, OneTokenPerSession
<1>2. TokensWork
  <2> SUFFICES ASSUME Calm, Rest PROVE TokensWork!2
    BY DEF TokensWork
  <2>1. \A p \in Person : ~Spending(p)
    BY DEF Rest, Spending, At, Free
  <2>2. ASSUME NEW m \in mailed, conf[m.of].tok = m.tok, ~past.expired[m.of]
        PROVE  conf[m.of].live <=> past.spent[m.tok] = 0
    <3>1. m.of \in Person /\ m.tok # 0
      BY Bounds DEF UserInv, Stored, UserTypeOK
    <3> QED BY <2>1, <2>2, <3>1 DEF UserInv, SpentOK
  <2>3. \A t \in 1 .. MaxTokens : past.spent[t] <= 1
    BY DEF UserInv, SpentOK
  <2> QED BY <2>2, <2>3
<1>3. StaysOff
  BY DEF UserInv, OffOK, StaysOff
<1>4. PermissionsFollowRole
  <2>1. ASSUME Calm, Rest, NEW e \in Employee, Live(e)
        PROVE  EmployeePermissions(e) \ {"MARGIN_TRADE"} = employeePermissions(person[e].role)
    <3>1. StaffFit(person[e].perms, person[e].role)
      BY <2>1 DEF UserInv, StaffPerms, Rest, At, Free
    <3>2. "MARGIN_TRADE" \notin employeePermissions(person[e].role)
      BY StaffPlain
    <3> QED BY <3>1, <3>2 DEF StaffFit, EmployeePermissions
  <2>2. ASSUME NEW c \in Client, ClientLogin(c) # {}, c \notin past.moved
        PROVE  ClientPermissions(c) \ {"MARGIN_TRADE"} = clientPermissions(person[c].role)
    <3>1. person[c].row = "live"
      BY <2>2 DEF ClientLogin, ClientByEmail, Live
    <3>2. ClientFit(person[c].perms, person[c].role)
      BY <2>2, <3>1 DEF UserInv, ClientPerms
    <3>3. "MARGIN_TRADE" \notin clientPermissions(person[c].role)
      BY ClientPlain
    <3> QED BY <3>2, <3>3 DEF ClientFit, ClientPermissions
  <2> QED BY <2>1, <2>2 DEF PermissionsFollowRole
<1>5. FundsManaged
  <2> SUFFICES ASSUME Calm, Rest, ~UMay("trading"), ~past.orphan PROVE MayManage(fund)
    BY DEF FundsManaged
  <2>1. \A k \in Call : ~Leaving(k)
    BY DEF Rest, Leaving, Free
  <2> QED BY <2>1 DEF UserInv, FundOK
<1> QED BY <1>1, <1>2, <1>3, <1>4, <1>5 DEF AccountsInOrder

\* What the user service promises of its accounts holds in every state: the
\* lockout counts, a session keeps one refresh token, a mailed token works
\* once, a switched-off account stays off, permissions are those of the role
\* and the fund has a manager, each under the condition its definition states.
THEOREM AccountsSafety == UserSpec => []AccountsInOrder
  BY UsersInductive, PromisesHold, PTL

=============================================================================
