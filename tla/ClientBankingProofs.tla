------------------------ MODULE ClientBankingProofs ------------------------
(***************************************************************************)
(* Proofs about ClientBanking for every set of accounts and requests: money *)
(* moves only on a confirmed session (OnlyVerified), and it is neither made *)
(* nor lost (Books).  The inductive invariant says where each request       *)
(* stands, which row it owns and how often its money has moved.             *)
(***************************************************************************)
EXTENDS ClientBanking, SumTheorems, TLAPS

PaidRow ==
  [r : Req, st : {"IN_PROGRESS", "COMPLETED", "DENIED"}, from : Nat, to : Nat, sender : Int, rec : Int,
   old : BOOLEAN, p : [amt : Int, in : Int, fee : Int]]
TransferRow == [r : Req, session : Nat, client : Int, from : Nat, to : Nat]
HoldRow == [a : Nat, owner : Int, amt : Int, st : {"HELD", "RELEASED", "COMMITTED"}]
LogRow == [from : Known, to : Known, amt : Int, st : {"COMPLETED", "REVERSED"}, in : Int, fee : Int]
RecipientRow == [owner : Int, name : STRING, to : Nat, del : BOOLEAN]

\* What never changes in the accounts of A: B has them all.
Kept(A, B) ==
  /\ Len(A) =< Len(B)
  /\ \A i \in 1 .. Len(A) : /\ B[i].owner = A[i].owner /\ B[i].cur = A[i].cur /\ B[i].del = A[i].del
                            /\ B[i].type = A[i].type /\ B[i].fee = A[i].fee
AccountsOf(A) ==
  /\ A \in Seq(AccountRow) /\ Kept(Accounts0, A)
  /\ \A i \in 1 .. Len(A) : A[i].fee > 0 => A[i].owner # Bank /\ A[i].cur = "RSD"

GhostOK ==
  /\ DOMAIN ghost = {"side", "applied", "odd"}
  /\ ghost.side \in [Currency -> Int] /\ ghost.applied \in [Req -> Nat]

TablesOK ==
  /\ benv \in BankScenarios
  /\ AccountsOf(acc)
  /\ sess \in Seq(SessionRow) /\ paid \in Seq(PaidRow) /\ trf \in Seq(TransferRow)
  /\ fundresv \in Seq(HoldRow) /\ ilog \in Seq(LogRow) /\ rcpt \in Seq(RecipientRow)
  /\ bfaults \in Nat /\ GhostOK

\* Where a request stands.
Paying(r) ==
  /\ What[r].kind = "payment"
  /\ \/ /\ at[r].pc = "apply"
        /\ at[r] = [pc |-> "apply", k |-> at[r].k, n |-> at[r].n, p |-> PaymentOf(What[r]),
                    client |-> at[r].client, same |-> at[r].same]
        /\ at[r].n \in Int
     \/ /\ at[r].pc = "finish"
        /\ at[r] = [pc |-> "finish", k |-> at[r].k, st |-> at[r].st]
        /\ at[r].st \in {"COMPLETED", "DENIED"}
  /\ at[r].k \in 1 .. Len(paid) /\ paid[at[r].k].r = r
Transferring(r) ==
  /\ What[r].kind = "transfer"
  /\ \/ at[r] = [pc |-> "check"]
     \/ /\ at[r].pc = "apply"
        /\ at[r] = [pc |-> "apply", client |-> at[r].client, p |-> PaymentOf(What[r])]
        /\ at[r].client \in Int
     \/ /\ at[r].pc = "insert"
        /\ at[r] = [pc |-> "insert", client |-> at[r].client]
        /\ at[r].client \in Int
Between(r) ==
  \/ /\ What[r].kind \in {"status", "payment", "transfer"} /\ at[r] = [pc |-> "expire"]
     /\ What[r].session \in 1 .. Len(sess)
  \/ What[r].kind = "release" /\ at[r] = [pc |-> "credit"] /\ What[r].k \in 1 .. Len(fundresv)
  \/ What[r].kind \in {"editname", "editlimit"} /\ at[r] = [pc |-> "write"] /\ What[r].i \in 1 .. Len(acc)
  \/ What[r].kind \in {"creditbank", "debitbank", "exchange", "transaction"} /\ at[r] = [pc |-> "record"]
  \/ What[r].kind = "monthly" /\ at[r] = [pc |-> "fees"]
  \/ /\ What[r].kind = "monthly" /\ at[r].pc \in {"feelist", "feewrite"} /\ at[r] = [pc |-> at[r].pc, read |-> at[r].read]
     /\ AccountsOf(at[r].read) /\ Kept(at[r].read, acc)
  \/ What[r].kind = "payment" /\ at[r] = [pc |-> "info"]
  \/ /\ What[r].kind = "payment" /\ at[r].pc = "create"
     /\ at[r] = [pc |-> "create", client |-> at[r].client, same |-> at[r].same]
Stands(r) == at[r] = [pc |-> "start"] \/ at[r] = Done \/ Paying(r) \/ Transferring(r) \/ Between(r)
ControlOK == DOMAIN at = Req /\ \A r \in Req : Stands(r)

\* How often a request's money has moved.
NoneOf(odds) == odds \cap ghost.odd = {}
Applied(r) == ghost.applied[r]
CountKept(r) ==
  /\ at[r].pc \in {"start", "check", "expire"} => Applied(r) = 0
  /\ What[r].kind = "payment" =>
       /\ at[r].pc \in {"info", "create"} => Applied(r) = 0
       /\ at[r].pc = "apply" => (NoneOf({"lost"}) => Applied(r) = 0)
       /\ at[r].pc = "finish" /\ at[r].st = "COMPLETED" => Applied(r) >= 1 /\ (NoneOf({"lost"}) => Applied(r) = 1)
       /\ at[r].pc = "finish" /\ at[r].st = "DENIED" => (NoneOf({"lost"}) => Applied(r) = 0)
  /\ What[r].kind = "transfer" =>
       /\ at[r].pc = "apply" => Applied(r) = 0
       /\ at[r].pc = "insert" => Applied(r) = 1
       /\ at[r] = Done /\ Applied(r) > 0 /\ NoneOf({"lost", "twice", "crash"}) =>
            \E k \in 1 .. Len(trf) : trf[k].r = r
  /\ at[r].pc = "record" => Applied(r) = 1
CountsOK == \A r \in Req : CountKept(r)

\* A payment row belongs to a request under way or says what became of it.
RowKept(k) ==
  LET r == paid[k].r IN
  IF What[r].kind = "payment"
  THEN \/ at[r].pc \in {"apply", "finish"} /\ at[r].k = k /\ paid[k].st # "COMPLETED"
       \/ /\ at[r] = Done
          /\ paid[k].st = "COMPLETED" => Applied(r) >= 1 /\ (NoneOf({"lost"}) => Applied(r) = 1)
          /\ paid[k].st = "IN_PROGRESS" => ~NoneOf({"crash"})
          /\ paid[k].st = "DENIED" /\ NoneOf({"lost", "crash"}) => Applied(r) = 0
  ELSE What[r].kind \in {"transaction", "exchange"} /\ at[r] = Done /\ paid[k].st = "COMPLETED" /\ Applied(r) = 1
PaidOK == \A k \in 1 .. Len(paid) : RowKept(k)

TransfersOK ==
  /\ \A k \in 1 .. Len(trf) :
       /\ What[trf[k].r].kind = "transfer" /\ trf[k].session = What[trf[k].r].session
       /\ at[trf[k].r] = Done /\ Applied(trf[k].r) = 1
  /\ \A k, m \in 1 .. Len(trf) : trf[m].session = trf[k].session => m = k

\* A request that got past its check has a session that was confirmed.
Confirmed(i) ==
  /\ i \in 1 .. Len(sess) /\ sess[i].tries < MaxAttempts
  /\ sess[i].st = "VERIFIED" \/ (sess[i].st = "EXPIRED" /\ ~NoneOf({"expired"}))
PastCheck(r) ==
  /\ What[r].kind \in {"payment", "transfer"}
  /\ at[r].pc \in {"info", "create", "apply", "finish", "insert"} \/ Applied(r) > 0
SessionsOK ==
  /\ SessionsApart(sess)
  /\ \A i \in 1 .. Len(sess) : sess[i].st \in {"PENDING", "VERIFIED"} => sess[i].tries < MaxAttempts
  /\ \A r \in Req : PastCheck(r) => Confirmed(What[r].session)

RecipientsApart ==
  \A i, j \in 1 .. Len(rcpt) : rcpt[i].owner = rcpt[j].owner /\ rcpt[i].name = rcpt[j].name => i = j

\* Holds and log rows name accounts of the start, and a transfer within one
\* currency credits what it debits.
HoldsOK == \A k \in 1 .. Len(fundresv) : fundresv[k].a \in 1 .. Len(acc)

\* Every currency's money is accounted for, until a race the code has.
Balanced(c) ==
  OnAccounts(acc, c) + Reserved(c) = OnAccounts(Accounts0, c) + ghost.side[c] + CrossLogGap(c) + ToBankGap(c)
MoneyOK == NoneOf({"release", "fees", "reverse"}) => \A c \in Currency : Balanced(c)

BankInv ==
  /\ TablesOK /\ ControlOK /\ CountsOK /\ PaidOK /\ TransfersOK /\ SessionsOK /\ RecipientsApart
  /\ HoldsOK /\ MoneyOK
--------------------------------------------------------------------------
(* Rows and sums. *)

\* A balance changes, and everything that names the account stays.
LEMMA DebitedRow ==
  ASSUME NEW row \in AccountRow, NEW amt \in Int, amt =< row.bal
  PROVE  /\ Debited(row, amt) \in AccountRow /\ Debited(row, amt).bal = row.bal - amt
         /\ Debited(row, amt).owner = row.owner /\ Debited(row, amt).cur = row.cur
         /\ Debited(row, amt).del = row.del /\ Debited(row, amt).type = row.type
         /\ Debited(row, amt).fee = row.fee
<1> DEFINE rest == IF row.rem >= 0 THEN row.rem - amt ELSE row.rem
           left == row.bal - amt
<1>1. row.bal \in Nat /\ row.day \in Int /\ row.month \in Int /\ row.rem \in Int
  BY DEF AccountRow
<1>2. rest \in Int /\ left \in Nat /\ row.day + amt \in Int /\ row.month + amt \in Int
  BY <1>1
<1>3. Debited(row, amt) = [row EXCEPT !.bal = left, !.day = row.day + amt, !.month = row.month + amt, !.rem = rest]
  BY DEF Debited
<1> HIDE DEF rest, left
<1>4. \A d, m \in Int : [row EXCEPT !.bal = left, !.day = d, !.month = m, !.rem = rest] \in AccountRow
  BY <1>2 DEF AccountRow
<1>5. Debited(row, amt) \in AccountRow
  BY <1>2, <1>3, <1>4
<1>6. /\ Debited(row, amt).bal = left /\ Debited(row, amt).owner = row.owner /\ Debited(row, amt).cur = row.cur
      /\ Debited(row, amt).del = row.del /\ Debited(row, amt).type = row.type
      /\ Debited(row, amt).fee = row.fee
  BY <1>3 DEF AccountRow
<1> QED BY <1>5, <1>6 DEF left

LEMMA CreditedRow ==
  ASSUME NEW row \in AccountRow, NEW amt \in Int, amt > 0
  PROVE  /\ Credited(row, amt) \in AccountRow /\ Credited(row, amt).bal = row.bal + amt
         /\ Credited(row, amt).owner = row.owner /\ Credited(row, amt).cur = row.cur
         /\ Credited(row, amt).del = row.del /\ Credited(row, amt).type = row.type
         /\ Credited(row, amt).fee = row.fee
  BY DEF AccountRow, Credited

\* What keeps the names of its accounts, and does so in two steps.
LEMMA KeptTwice ==
  ASSUME NEW A, NEW B, NEW C, Kept(A, B), Kept(B, C), Len(A) \in Nat, Len(B) \in Nat, Len(C) \in Nat
  PROVE  Kept(A, C)
<1>1. Len(A) =< Len(B) /\ Len(B) =< Len(C) /\ \A i \in 1 .. Len(A) : i \in 1 .. Len(B)
  BY DEF Kept
<1>2. \A i \in 1 .. Len(A) :
        /\ C[i].owner = A[i].owner /\ C[i].cur = A[i].cur /\ C[i].del = A[i].del
        /\ C[i].type = A[i].type /\ C[i].fee = A[i].fee
  BY <1>1 DEF Kept
<1> QED BY <1>1, <1>2 DEF Kept

\* The sum over a sequence of whole numbers: a number, and one entry at a time.
LEMMA TotalInt ==
  ASSUME NEW f, IsFiniteSet(DOMAIN f), \A i \in DOMAIN f : f[i] \in Int
  PROVE  Total(f) \in Int
  BY SumInt DEF Total

LEMMA TotalSame ==
  ASSUME NEW f, NEW g, IsFiniteSet(DOMAIN f), DOMAIN g = DOMAIN f, \A i \in DOMAIN f : g[i] = f[i]
  PROVE  Total(g) = Total(f)
  BY SumSame DEF Total

LEMMA TotalUpdate ==
  ASSUME NEW f, NEW g, IsFiniteSet(DOMAIN f), DOMAIN g = DOMAIN f,
         \A i \in DOMAIN f : f[i] \in Int /\ g[i] \in Int,
         NEW y \in DOMAIN f, \A i \in DOMAIN f : i # y => g[i] = f[i]
  PROVE  Total(g) = Total(f) - f[y] + g[y]
  BY SumUpdate DEF Total

LEMMA TotalAppend ==
  ASSUME NEW f, NEW g, NEW n \in Nat, DOMAIN f = 1 .. n, DOMAIN g = 1 .. n + 1,
         \A i \in 1 .. n : f[i] \in Int /\ g[i] = f[i], g[n + 1] \in Int
  PROVE  Total(g) = Total(f) + g[n + 1]
<1>1. /\ n + 1 \notin 1 .. n /\ 1 .. n + 1 = (1 .. n) \cup {n + 1}
      /\ \A i \in (1 .. n) \cup {n + 1} : g[i] \in Int
  OBVIOUS
<1>4. IsFiniteSet(1 .. n)
  BY FS_Interval
<1>2. SumFunctionOnSet(g, (1 .. n) \cup {n + 1}) = SumFunctionOnSet(g, 1 .. n) + g[n + 1]
  <2> DEFINE T == 1 .. n
             y == n + 1
  <2>1. IsFiniteSet(T) /\ y \notin T /\ \A i \in T \cup {y} : g[i] \in Int
    BY <1>1, <1>4
  <2> HIDE DEF T, y
  <2>2. SumFunctionOnSet(g, T \cup {y}) = SumFunctionOnSet(g, T) + g[y]
    BY <2>1, SumAdd
  <2> QED BY <2>2 DEF T, y
<1>3. SumFunctionOnSet(g, 1 .. n) = SumFunctionOnSet(f, 1 .. n)
  BY <1>4, SumSame
<1> QED BY <1>1, <1>2, <1>3 DEF Total

\* The balance sheet of one currency, and one row changed or added.
Share(row, c) == IF row.cur = c THEN row.bal ELSE 0
Sheet(A, c) == [i \in 1 .. Len(A) |-> Share(A[i], c)]

LEMMA SheetOf ==
  ASSUME NEW A \in Seq(AccountRow), NEW c
  PROVE  /\ OnAccounts(A, c) = Total(Sheet(A, c))
         /\ DOMAIN Sheet(A, c) = 1 .. Len(A) /\ IsFiniteSet(1 .. Len(A)) /\ Len(A) \in Nat
         /\ \A i \in 1 .. Len(A) : A[i] \in AccountRow /\ Sheet(A, c)[i] = Share(A[i], c) /\ Share(A[i], c) \in Int
<1>1. OnAccounts(A, c) = Total(Sheet(A, c)) /\ DOMAIN Sheet(A, c) = 1 .. Len(A)
  BY DEF OnAccounts, Sheet, Share
<1>2. Len(A) \in Nat /\ \A i \in 1 .. Len(A) : A[i] \in AccountRow
  OBVIOUS
<1>3. IsFiniteSet(1 .. Len(A))
  BY <1>2, FS_Interval
<1>4. \A i \in 1 .. Len(A) : Sheet(A, c)[i] = Share(A[i], c)
  BY DEF Sheet
<1>5. \A row \in AccountRow : Share(row, c) \in Int
  BY DEF AccountRow, Share
<1> QED BY <1>1, <1>2, <1>3, <1>4, <1>5

LEMMA OnAccountsInt ==
  ASSUME NEW A \in Seq(AccountRow), NEW c
  PROVE  OnAccounts(A, c) \in Int
<1>1. /\ OnAccounts(A, c) = Total(Sheet(A, c)) /\ IsFiniteSet(DOMAIN Sheet(A, c))
      /\ \A i \in DOMAIN Sheet(A, c) : Sheet(A, c)[i] \in Int
  BY SheetOf
<1> QED BY <1>1, TotalInt

LEMMA RowChanged ==
  ASSUME NEW A \in Seq(AccountRow), NEW c, NEW i \in 1 .. Len(A), NEW row \in AccountRow
  PROVE  /\ [A EXCEPT ![i] = row] \in Seq(AccountRow) /\ Len([A EXCEPT ![i] = row]) = Len(A)
         /\ OnAccounts([A EXCEPT ![i] = row], c) = OnAccounts(A, c) - Share(A[i], c) + Share(row, c)
<1> DEFINE B == [A EXCEPT ![i] = row]
<1>1. B \in Seq(AccountRow) /\ Len(B) = Len(A) /\ B[i] = row /\ \A j \in 1 .. Len(A) : j # i => B[j] = A[j]
  OBVIOUS
<1> HIDE DEF B
<1>2. /\ IsFiniteSet(DOMAIN Sheet(A, c)) /\ DOMAIN Sheet(B, c) = DOMAIN Sheet(A, c) /\ i \in DOMAIN Sheet(A, c)
      /\ \A j \in DOMAIN Sheet(A, c) : Sheet(A, c)[j] \in Int /\ Sheet(B, c)[j] \in Int
      /\ \A j \in DOMAIN Sheet(A, c) : j # i => Sheet(B, c)[j] = Sheet(A, c)[j]
      /\ Sheet(A, c)[i] = Share(A[i], c) /\ Sheet(B, c)[i] = Share(row, c)
  <2>1. Len(B) = Len(A) /\ DOMAIN Sheet(B, c) = 1 .. Len(A)
    BY <1>1, SheetOf
  <2>2. \A j \in 1 .. Len(A) : Sheet(A, c)[j] = Share(A[j], c) /\ Sheet(B, c)[j] = Share(B[j], c)
    BY <1>1, SheetOf
  <2>3. \A j \in 1 .. Len(A) : Share(A[j], c) \in Int /\ Share(B[j], c) \in Int
    BY <1>1, SheetOf
  <2>4. IsFiniteSet(1 .. Len(A)) /\ DOMAIN Sheet(A, c) = 1 .. Len(A)
    BY SheetOf
  <2>5. /\ \A j \in 1 .. Len(A) : Sheet(A, c)[j] \in Int /\ Sheet(B, c)[j] \in Int
        /\ \A j \in 1 .. Len(A) : j # i => Sheet(B, c)[j] = Sheet(A, c)[j]
    BY <1>1, <2>2, <2>3
  <2> QED BY <1>1, <2>1, <2>2, <2>4, <2>5
<1>3. Total(Sheet(B, c)) = Total(Sheet(A, c)) - Share(A[i], c) + Share(row, c)
  BY <1>2, TotalUpdate
<1>4. OnAccounts(B, c) = OnAccounts(A, c) - Share(A[i], c) + Share(row, c)
  BY <1>1, <1>3, SheetOf
<1> QED BY <1>1, <1>4 DEF B

LEMMA RowAdded ==
  ASSUME NEW A \in Seq(AccountRow), NEW c, NEW row \in AccountRow
  PROVE  /\ Append(A, row) \in Seq(AccountRow) /\ Len(Append(A, row)) = Len(A) + 1
         /\ OnAccounts(Append(A, row), c) = OnAccounts(A, c) + Share(row, c)
<1> DEFINE B == Append(A, row)
<1>1. /\ B \in Seq(AccountRow) /\ Len(B) = Len(A) + 1 /\ Len(A) \in Nat
      /\ B[Len(A) + 1] = row /\ \A j \in 1 .. Len(A) : B[j] = A[j]
  OBVIOUS
<1> HIDE DEF B
<1>2. /\ DOMAIN Sheet(A, c) = 1 .. Len(A) /\ DOMAIN Sheet(B, c) = 1 .. Len(A) + 1
      /\ \A j \in 1 .. Len(A) : Sheet(A, c)[j] \in Int /\ Sheet(B, c)[j] = Sheet(A, c)[j]
      /\ Sheet(B, c)[Len(A) + 1] = Share(row, c) /\ Share(row, c) \in Int
  <2>1. /\ \A j \in 1 .. Len(A) + 1 : Sheet(B, c)[j] = Share(B[j], c) /\ Share(B[j], c) \in Int
        /\ \A j \in 1 .. Len(A) : Sheet(A, c)[j] = Share(A[j], c) /\ Share(A[j], c) \in Int
    BY <1>1, SheetOf
  <2>2. Len(A) + 1 \in 1 .. Len(A) + 1 /\ \A j \in 1 .. Len(A) : j \in 1 .. Len(A) + 1
    BY <1>1
  <2>3. DOMAIN Sheet(A, c) = 1 .. Len(A) /\ DOMAIN Sheet(B, c) = 1 .. Len(B)
    BY <1>1, SheetOf
  <2>4. \A j \in 1 .. Len(A) : Sheet(A, c)[j] \in Int /\ Sheet(B, c)[j] = Sheet(A, c)[j]
    BY <1>1, <2>1, <2>2
  <2>5. Sheet(B, c)[Len(A) + 1] = Share(row, c) /\ Share(row, c) \in Int
    BY <1>1, <2>1, <2>2
  <2> QED BY <1>1, <2>3, <2>4, <2>5
<1>3. Total(Sheet(B, c)) = Total(Sheet(A, c)) + Share(row, c)
  BY <1>1, <1>2, TotalAppend
<1>4. OnAccounts(B, c) = OnAccounts(A, c) + Share(row, c)
  BY <1>1, <1>3, SheetOf
<1> QED BY <1>1, <1>4 DEF B
--------------------------------------------------------------------------
(* Debits and credits. *)

\* B has the accounts of A, with other balances.
Shifted(A, B) == AccountsOf(B) /\ Kept(A, B) /\ Len(B) = Len(A)
Gain(A, i, amt, c) == IF A[i].cur = c THEN amt ELSE 0
SameNames(row, old) ==
  /\ row.owner = old.owner /\ row.cur = old.cur /\ row.del = old.del
  /\ row.type = old.type /\ row.fee = old.fee

LEMMA AccountsAreRows ==
  ASSUME NEW A, AccountsOf(A)
  PROVE  /\ A \in Seq(AccountRow) /\ Len(A) \in Nat
         /\ \A i \in 1 .. Len(A) : A[i] \in AccountRow /\ A[i].cur \in Currency /\ A[i].bal \in Nat /\ A[i].owner \in Int
<1>1. \A row \in AccountRow : row.cur \in Currency /\ row.bal \in Nat /\ row.owner \in Int
  BY DEF AccountRow
<1>2. A \in Seq(AccountRow)
  BY DEF AccountsOf
<1>3. Len(A) \in Nat /\ \A i \in 1 .. Len(A) : A[i] \in AccountRow
  BY <1>2
<1> QED BY <1>1, <1>2, <1>3

LEMMA RowShifted ==
  ASSUME NEW A, AccountsOf(A), NEW i \in 1 .. Len(A), NEW row \in AccountRow, SameNames(row, A[i])
  PROVE  Shifted(A, [A EXCEPT ![i] = row])
<1> DEFINE B == [A EXCEPT ![i] = row]
<1>0. A \in Seq(AccountRow) /\ Len(A) \in Nat
  BY AccountsAreRows
<1>1. B \in Seq(AccountRow) /\ Len(B) = Len(A) /\ Len(A) \in Nat
  BY <1>0
<1>2. \A j \in 1 .. Len(A) : SameNames(B[j], A[j])
  <2>1. \A j \in 1 .. Len(A) : B[j] = IF j = i THEN row ELSE A[j]
    BY <1>0
  <2> QED BY <2>1 DEF SameNames
<1>3. A \in Seq(AccountRow) /\ Accounts0 \in Seq(AccountRow) /\ Len(Accounts0) \in Nat
  BY AccountsAreRows, AccountsAssumption
<1> HIDE DEF B
<1>4. Kept(A, B)
  BY <1>1, <1>2 DEF Kept, SameNames
<1>5. Kept(Accounts0, B)
  BY <1>1, <1>3, <1>4, KeptTwice DEF AccountsOf
<1>6. \A j \in 1 .. Len(B) : B[j].fee > 0 => B[j].owner # Bank /\ B[j].cur = "RSD"
  BY <1>1, <1>2 DEF SameNames, AccountsOf
<1>7. Shifted(A, B)
  BY <1>1, <1>4, <1>5, <1>6 DEF Shifted, AccountsOf
<1> QED BY <1>7 DEF B

LEMMA ShiftedTwice ==
  ASSUME NEW A, NEW B, NEW C, AccountsOf(A), Shifted(A, B), Shifted(B, C)
  PROVE  Shifted(A, C)
<1>1. Len(A) \in Nat /\ Len(B) \in Nat /\ Len(C) \in Nat
  BY AccountsAreRows DEF Shifted
<1>2. Kept(A, C)
  BY <1>1, KeptTwice DEF Shifted
<1> QED BY <1>2 DEF Shifted

LEMMA CreditEffect ==
  ASSUME NEW A, AccountsOf(A), NEW i \in 1 .. Len(A), NEW amt \in Int, NEW client, NEW B \in CreditTx(A, i, amt, client)
  PROVE  /\ Shifted(A, B)
         /\ \A c \in Currency : OnAccounts(B, c) = OnAccounts(A, c) + Gain(A, i, amt, c)
<1>1. amt > 0 /\ B = [A EXCEPT ![i] = Credited(A[i], amt)]
  BY DEF CreditTx
<1>2. A[i] \in AccountRow /\ A \in Seq(AccountRow) /\ A[i].bal \in Int
  BY AccountsAreRows
<1>3. /\ Credited(A[i], amt) \in AccountRow /\ SameNames(Credited(A[i], amt), A[i])
      /\ Credited(A[i], amt).bal = A[i].bal + amt
  BY <1>1, <1>2, CreditedRow DEF SameNames
<1> HIDE DEF Credited
<1>4. Shifted(A, B)
  BY <1>1, <1>3, RowShifted
<1>5. ASSUME NEW c \in Currency PROVE OnAccounts(B, c) = OnAccounts(A, c) + Gain(A, i, amt, c)
  <2>1. OnAccounts(B, c) = OnAccounts(A, c) - Share(A[i], c) + Share(Credited(A[i], amt), c)
    BY <1>1, <1>2, <1>3, RowChanged
  <2>2. OnAccounts(A, c) \in Int
    BY <1>2, OnAccountsInt
  <2> QED BY <2>1, <2>2, <1>2, <1>3 DEF Share, Gain, SameNames
<1> QED BY <1>4, <1>5

LEMMA DebitEffect ==
  ASSUME NEW A, AccountsOf(A), NEW i \in 1 .. Len(A), NEW amt \in Int, NEW client, NEW B \in DebitTx(A, i, amt, client)
  PROVE  /\ Shifted(A, B)
         /\ \A c \in Currency : OnAccounts(B, c) = OnAccounts(A, c) - Gain(A, i, amt, c)
<1>1. amt =< A[i].bal /\ B = [A EXCEPT ![i] = Debited(A[i], amt)]
  BY DEF DebitTx
<1>2. A[i] \in AccountRow /\ A \in Seq(AccountRow) /\ A[i].bal \in Int
  BY AccountsAreRows
<1>3. /\ Debited(A[i], amt) \in AccountRow /\ SameNames(Debited(A[i], amt), A[i])
      /\ Debited(A[i], amt).bal = A[i].bal - amt
  BY <1>1, <1>2, DebitedRow DEF SameNames
<1>4. Shifted(A, B)
  BY <1>1, <1>3, RowShifted
<1>5. ASSUME NEW c \in Currency PROVE OnAccounts(B, c) = OnAccounts(A, c) - Gain(A, i, amt, c)
  <2>1. OnAccounts(B, c) = OnAccounts(A, c) - Share(A[i], c) + Share(Debited(A[i], amt), c)
    BY <1>1, <1>2, <1>3, RowChanged
  <2>2. OnAccounts(A, c) \in Int
    BY <1>2, OnAccountsInt
  <2> QED BY <2>1, <2>2, <1>2, <1>3 DEF Share, Gain, SameNames
<1> QED BY <1>4, <1>5

LEMMA MoveEffect ==
  ASSUME NEW A, AccountsOf(A), NEW i \in 1 .. Len(A), NEW j \in 1 .. Len(A), NEW out \in Int, NEW in \in Int,
         NEW fc, NEW tc, NEW B \in Move(A, i, fc, out, j, tc, in)
  PROVE  /\ Shifted(A, B)
         /\ \A c \in Currency : OnAccounts(B, c) = OnAccounts(A, c) - Gain(A, i, out, c) + Gain(A, j, in, c)
<1>1. PICK D \in DebitTx(A, i, out, fc) : B \in CreditTx(D, j, in, tc)
  BY DEF Move
<1>2. Shifted(A, D) /\ \A c \in Currency : OnAccounts(D, c) = OnAccounts(A, c) - Gain(A, i, out, c)
  BY <1>1, DebitEffect
<1>3. AccountsOf(D) /\ j \in 1 .. Len(D) /\ D[j].cur = A[j].cur
  BY <1>2 DEF Shifted, Kept
<1>4. Shifted(D, B) /\ \A c \in Currency : OnAccounts(B, c) = OnAccounts(D, c) + Gain(D, j, in, c)
  BY <1>1, <1>3, CreditEffect
<1>5. Shifted(A, B)
  BY <1>2, <1>4, ShiftedTwice
<1>6. \A c \in Currency : Gain(D, j, in, c) = Gain(A, j, in, c)
  BY <1>3 DEF Gain
<1> QED BY <1>2, <1>4, <1>5, <1>6

\* The account found for an owner and a currency, and the bank's is there.
LEMMA FoundAccount ==
  ASSUME NEW A, AccountsOf(A), NEW o, NEW c, NEW i \in getByOwnerAndCurrency(A, o, c)
  PROVE  i \in 1 .. Len(A) /\ A[i].owner = o /\ A[i].cur = c
<1> DEFINE S == {j \in 1 .. Len(A) : A[j].owner = o /\ A[j].cur = c /\ ~A[j].del}
<1>1. S # {} /\ i = Min(S)
  BY DEF getByOwnerAndCurrency, Lowest
<1>2. S \in SUBSET Nat
  BY AccountsAreRows
<1>3. \E m \in S : \A k \in S : m =< k
  BY <1>1, <1>2, LeastNatural
<1>4. Min(S) \in S
  BY <1>3 DEF Min
<1> QED BY <1>1, <1>4

LEMMA BankAccountFound ==
  ASSUME NEW A, AccountsOf(A), NEW c \in Currency
  PROVE  \E i \in 1 .. Len(A) : getByOwnerAndCurrency(A, Bank, c) = {i}
<1> DEFINE S == {j \in 1 .. Len(A) : A[j].owner = Bank /\ A[j].cur = c /\ ~A[j].del}
<1>1. PICK k \in Known : Accounts0[k].owner = Bank /\ Accounts0[k].cur = c /\ ~Accounts0[k].del
  BY AccountsAssumption
<1>2. Accounts0 \in Seq(AccountRow) /\ Len(Accounts0) \in Nat /\ Len(A) \in Nat /\ Known = 1 .. Len(Accounts0)
  BY AccountsAssumption, AccountsAreRows DEF Known
<1>3. k \in S
  BY <1>1, <1>2 DEF AccountsOf, Kept
<1>4. getByOwnerAndCurrency(A, Bank, c) = {Min(S)}
  BY <1>3 DEF getByOwnerAndCurrency, Lowest
<1>5. Min(S) \in getByOwnerAndCurrency(A, Bank, c)
  BY <1>4
<1> HIDE DEF S
<1>6. Min(S) \in 1 .. Len(A)
  BY <1>5, FoundAccount
<1> QED BY <1>4, <1>6

\* What a payment adds to a currency: nothing, but for a payment to the bank
\* between currencies.
BankGain(A, f, t, p, c) ==
  IF A[t].owner = Bank /\ A[f].cur # A[t].cur THEN Gain(A, t, p.in, c) - Gain(A, f, p.amt, c) ELSE 0
IsPayment(A, f, t, p) ==
  /\ p.amt \in Int /\ p.in \in Int /\ p.fee \in Int
  /\ A[f].cur = A[t].cur => p.in = p.amt /\ p.fee = 0

LEMMA GainInt ==
  ASSUME NEW A, NEW i, NEW amt \in Int, NEW c
  PROVE  Gain(A, i, amt, c) \in Int
  BY DEF Gain

LEMMA PaymentEffect ==
  ASSUME NEW A, AccountsOf(A), NEW f \in 1 .. Len(A), NEW t \in 1 .. Len(A), NEW p, IsPayment(A, f, t, p),
         NEW B \in applyPaymentTx(A, f, t, p)
  PROVE  /\ Shifted(A, B)
         /\ \A c \in Currency : OnAccounts(B, c) = OnAccounts(A, c) + BankGain(A, f, t, p, c)
<1>1. p.amt \in Int /\ p.in \in Int /\ p.fee \in Int /\ p.amt + p.fee \in Int
  BY DEF IsPayment
<1>2. \A c \in Currency : OnAccounts(A, c) \in Int
  BY OnAccountsInt, AccountsAreRows
<1>3. CASE A[f].cur = A[t].cur
  <2>1. p.in = p.amt /\ p.fee = 0 /\ p.amt + p.fee = p.amt
    BY <1>1, <1>3 DEF IsPayment
  <2>2. B \in Move(A, f, A[f].owner, p.amt, t, A[t].owner, p.amt)
    BY <1>3, <2>1 DEF applyPaymentTx
  <2>3. /\ Shifted(A, B)
        /\ \A c \in Currency : OnAccounts(B, c) = OnAccounts(A, c) - Gain(A, f, p.amt, c) + Gain(A, t, p.amt, c)
    BY <1>1, <2>2, MoveEffect
  <2>4. \A c : Gain(A, f, p.amt, c) = Gain(A, t, p.amt, c) /\ Gain(A, f, p.amt, c) \in Int
    BY <1>1, <1>3 DEF Gain
  <2>5. \A c : BankGain(A, f, t, p, c) = 0
    BY <1>3 DEF BankGain
  <2> QED BY <1>2, <2>3, <2>4, <2>5
<1>4. CASE A[f].cur # A[t].cur /\ A[t].owner = Bank
  <2>1. B \in Move(A, f, A[f].owner, p.amt, t, A[t].owner, p.in)
    BY <1>4 DEF applyPaymentTx
  <2>2. /\ Shifted(A, B)
        /\ \A c \in Currency : OnAccounts(B, c) = OnAccounts(A, c) - Gain(A, f, p.amt, c) + Gain(A, t, p.in, c)
    BY <1>1, <2>1, MoveEffect
  <2>3. \A c : /\ BankGain(A, f, t, p, c) = Gain(A, t, p.in, c) - Gain(A, f, p.amt, c)
               /\ Gain(A, t, p.in, c) \in Int /\ Gain(A, f, p.amt, c) \in Int
    BY <1>1, <1>4, GainInt DEF BankGain
  <2> QED BY <1>2, <2>2, <2>3
<1>5. CASE A[f].cur # A[t].cur /\ A[t].owner # Bank
  <2> DEFINE sum == p.amt + p.fee
  <2>0. PICK b \in getByOwnerAndCurrency(A, Bank, A[f].cur), e \in getByOwnerAndCurrency(A, Bank, A[t].cur) :
             \E D \in Move(A, f, A[f].owner, sum, b, Bank, sum) : B \in Move(D, e, Bank, p.in, t, A[t].owner, p.in)
    BY <1>5 DEF applyPaymentTx
  <2>1. PICK D \in Move(A, f, A[f].owner, sum, b, Bank, sum) : B \in Move(D, e, Bank, p.in, t, A[t].owner, p.in)
    BY <2>0
  <2>2. b \in 1 .. Len(A) /\ A[b].cur = A[f].cur /\ e \in 1 .. Len(A) /\ A[e].cur = A[t].cur
    BY <2>1, FoundAccount
  <2> HIDE DEF sum
  <2>3. sum \in Int
    BY <1>1 DEF sum
  <2>4. /\ Shifted(A, D)
        /\ \A c \in Currency : OnAccounts(D, c) = OnAccounts(A, c) - Gain(A, f, sum, c) + Gain(A, b, sum, c)
    BY <2>1, <2>2, <2>3, MoveEffect
  <2>5. AccountsOf(D) /\ e \in 1 .. Len(D) /\ t \in 1 .. Len(D) /\ D[e].cur = D[t].cur
    BY <2>2, <2>4 DEF Shifted, Kept
  <2>6. /\ Shifted(D, B)
        /\ \A c \in Currency : OnAccounts(B, c) = OnAccounts(D, c) - Gain(D, e, p.in, c) + Gain(D, t, p.in, c)
    BY <1>1, <2>1, <2>5, MoveEffect
  <2>7. \A c : /\ Gain(A, f, sum, c) = Gain(A, b, sum, c) /\ Gain(A, f, sum, c) \in Int
               /\ Gain(D, e, p.in, c) = Gain(D, t, p.in, c) /\ Gain(D, e, p.in, c) \in Int
    BY <1>1, <2>2, <2>3, <2>5 DEF Gain
  <2>8. \A c : BankGain(A, f, t, p, c) = 0
    BY <1>5 DEF BankGain
  <2>9. \A c \in Currency : OnAccounts(D, c) \in Int
    BY <2>5, OnAccountsInt, AccountsAreRows
  <2>10. Shifted(A, B)
    BY <2>4, <2>6, ShiftedTwice
  <2>11. \A c \in Currency : OnAccounts(D, c) = OnAccounts(A, c)
    BY <1>2, <2>4, <2>7
  <2>12. \A c \in Currency : OnAccounts(B, c) = OnAccounts(D, c)
    BY <2>6, <2>7, <2>9
  <2> QED BY <1>2, <2>8, <2>10, <2>11, <2>12
<1> QED BY <1>3, <1>4, <1>5
--------------------------------------------------------------------------
(* The requests, and the sums over holds, log rows and payments. *)

LEMMA ConvertFits ==
  ASSUME NEW amt \in Int, NEW from \in Currency, NEW to \in Currency
  PROVE  /\ convert(amt, from, to).in \in Int /\ convert(amt, from, to).fee \in Int
         /\ from = to => convert(amt, from, to) = [in |-> amt, fee |-> 0]
<1>1. RateOf[from] \in Nat \ {0} /\ RateOf[to] \in Nat \ {0}
  BY DEF RateOf, Currency
<1>2. \A x \in Int, y, z \in Nat \ {0} : (x * y) \div z \in Int
  OBVIOUS
<1>3. (amt * RateOf[from]) \div RateOf[to] \in Int
  BY <1>1, <1>2
<1> QED BY <1>3 DEF convert, MarketConvert

LEMMA RequestFits ==
  ASSUME TablesOK
  PROVE  /\ IsFiniteSet(Req) /\ \A r \in Req : RequestOK(What[r])
         /\ Known \subseteq 1 .. Len(acc) /\ Len(acc) \in Nat
<1>1. benv \in BankScenarios
  BY DEF TablesOK
<1>2. IsFiniteSet(DOMAIN benv.what) /\ \A r \in DOMAIN benv.what : RequestOK(benv.what[r])
  BY <1>1, RequestsAssumption
<1>3. AccountsOf(acc) /\ Len(acc) \in Nat
  BY AccountsAreRows DEF TablesOK
<1>4. Known = 1 .. Len(Accounts0) /\ Len(Accounts0) \in Nat /\ Len(Accounts0) =< Len(acc)
  BY <1>3, AccountsAssumption DEF Known, AccountsOf, Kept
<1> QED BY <1>2, <1>3, <1>4 DEF Req, What

\* The payment a request asks for, on the accounts of A.
PayOn(A, w) ==
  [amt |-> w.amt, in |-> convert(w.amt, A[w.from].cur, A[w.to].cur).in,
   fee |-> convert(w.amt, A[w.from].cur, A[w.to].cur).fee]
Pays(w) == w.kind \in {"payment", "transfer", "transaction"}

LEMMA PaymentFits ==
  ASSUME NEW A, AccountsOf(A), NEW w, RequestOK(w), Pays(w), Known \subseteq 1 .. Len(A)
  PROVE  w.from \in 1 .. Len(A) /\ w.to \in 1 .. Len(A) /\ IsPayment(A, w.from, w.to, PayOn(A, w))
<1>1. w.from \in 1 .. Len(A) /\ w.to \in 1 .. Len(A) /\ w.amt \in Int
  BY DEF RequestOK, Pays
<1>2. A[w.from].cur \in Currency /\ A[w.to].cur \in Currency
  BY <1>1, AccountsAreRows
<1>3. /\ PayOn(A, w).in \in Int /\ PayOn(A, w).fee \in Int /\ PayOn(A, w).amt = w.amt
      /\ A[w.from].cur = A[w.to].cur => PayOn(A, w).in = w.amt /\ PayOn(A, w).fee = 0
  <2> DEFINE x == convert(w.amt, A[w.from].cur, A[w.to].cur)
  <2>1. x.in \in Int /\ x.fee \in Int /\ (A[w.from].cur = A[w.to].cur => x = [in |-> w.amt, fee |-> 0])
    BY <1>1, <1>2, ConvertFits
  <2>2. PayOn(A, w) = [amt |-> w.amt, in |-> x.in, fee |-> x.fee]
    BY DEF PayOn
  <2> HIDE DEF x
  <2> QED BY <2>1, <2>2
<1> QED BY <1>1, <1>3 DEF IsPayment

\* The sums as functions of the tables.
Hold(A, row, c) == IF row.st # "RELEASED" /\ A[row.a].cur = c THEN row.amt ELSE 0
Holds(A, R, c) == [k \in 1 .. Len(R) |-> Hold(A, R[k], c)]
Gap(A, row, c) ==
  IF A[row.from].cur # A[row.to].cur THEN Gain(A, row.from, row.fee - row.amt, c) + Gain(A, row.to, row.in, c) ELSE 0
Gaps(A, L, c) == [k \in 1 .. Len(L) |-> Gap(A, L[k], c)]
PaidOn(A, w, c) == IF Pays(w) THEN BankGain(A, w.from, w.to, PayOn(A, w), c) ELSE 0
ToBanks(A, W, n, c) == [r \in DOMAIN W |-> n[r] * PaidOn(A, W[r], c)]

LEMMA SumsAre ==
  ASSUME NEW c
  PROVE  /\ Reserved(c) = Total(Holds(acc, fundresv, c))
         /\ CrossLogGap(c) = Total(Gaps(acc, ilog, c))
         /\ ToBankGap(c) = Total(ToBanks(acc, What, ghost.applied, c))
<1>1. Reserved(c) = Total(Holds(acc, fundresv, c))
  BY DEF Reserved, Holds, Hold, HeldIn
<1>2. \A k \in 1 .. Len(ilog) : k \in CrossRows <=> acc[ilog[k].from].cur # acc[ilog[k].to].cur
  BY DEF CrossRows
<1>3. [k \in 1 .. Len(ilog) |->
        IF k \in CrossRows THEN In(ilog[k].from, c, ilog[k].fee - ilog[k].amt) + In(ilog[k].to, c, ilog[k].in)
        ELSE 0] = Gaps(acc, ilog, c)
  BY <1>2 DEF Gaps, Gap, In, Gain
<1>4. CrossLogGap(c) = Total(Gaps(acc, ilog, c))
  BY <1>3, Zenon DEF CrossLogGap
<1>5. \A w : PaidIn(w, c) = PaidOn(acc, w, c)
  <2>1. \A w : PaymentOf(w) = PayOn(acc, w)
    BY DEF PaymentOf, PayOn
  <2>2. \A w : PayOn(acc, w).amt = w.amt
    BY DEF PayOn
  <2> QED BY <2>1, <2>2 DEF PaidIn, ToBank, PaidOn, Pays, BankGain, In, Gain
<1>6. ToBankGap(c) = Total(ToBanks(acc, What, ghost.applied, c))
  BY <1>5, Zenon DEF ToBankGap, ToBanks, Req
<1> QED BY <1>1, <1>4, <1>6

LEMMA SequenceRange ==
  ASSUME NEW S, NEW R \in Seq(S)
  PROVE  /\ IsFiniteSet(1 .. Len(R)) /\ Len(R) \in Nat /\ DOMAIN R = 1 .. Len(R)
         /\ \A k \in 1 .. Len(R) : R[k] \in S
<1>1. Len(R) \in Nat /\ DOMAIN R = 1 .. Len(R) /\ \A k \in 1 .. Len(R) : R[k] \in S
  OBVIOUS
<1> QED BY <1>1, FS_Interval

\* Holds: a number, the same on other balances, one more, one released.
LEMMA HoldsInt ==
  ASSUME NEW A, NEW R \in Seq(HoldRow), NEW c
  PROVE  /\ Total(Holds(A, R, c)) \in Int /\ IsFiniteSet(DOMAIN Holds(A, R, c)) /\ DOMAIN Holds(A, R, c) = 1 .. Len(R)
         /\ \A k \in 1 .. Len(R) : Holds(A, R, c)[k] = Hold(A, R[k], c) /\ Hold(A, R[k], c) \in Int
<1>1. /\ IsFiniteSet(1 .. Len(R)) /\ DOMAIN Holds(A, R, c) = 1 .. Len(R)
      /\ \A k \in 1 .. Len(R) : Holds(A, R, c)[k] = Hold(A, R[k], c)
  BY SequenceRange DEF Holds
<1>2. \A row \in HoldRow : Hold(A, row, c) \in Int
  BY DEF HoldRow, Hold
<1>3. \A k \in 1 .. Len(R) : Hold(A, R[k], c) \in Int
  BY <1>2, SequenceRange
<1>4. Total(Holds(A, R, c)) \in Int
  BY <1>1, <1>3, TotalInt
<1> QED BY <1>1, <1>3, <1>4

LEMMA HoldsKept ==
  ASSUME NEW A, NEW B, Kept(A, B), NEW R \in Seq(HoldRow), \A k \in 1 .. Len(R) : R[k].a \in 1 .. Len(A), NEW c
  PROVE  Total(Holds(B, R, c)) = Total(Holds(A, R, c))
<1>1. \A k \in 1 .. Len(R) : Hold(B, R[k], c) = Hold(A, R[k], c)
  BY DEF Kept, Hold
<1>2. DOMAIN Holds(B, R, c) = DOMAIN Holds(A, R, c) /\ IsFiniteSet(DOMAIN Holds(A, R, c))
  BY HoldsInt
<1>3. \A k \in DOMAIN Holds(A, R, c) : Holds(B, R, c)[k] = Holds(A, R, c)[k]
  BY <1>1 DEF Holds
<1> QED BY <1>2, <1>3, TotalSame

LEMMA HoldAdded ==
  ASSUME NEW A, NEW R \in Seq(HoldRow), NEW row \in HoldRow, NEW c
  PROVE  Total(Holds(A, Append(R, row), c)) = Total(Holds(A, R, c)) + Hold(A, row, c)
<1> DEFINE Q == Append(R, row)
<1>1. /\ Q \in Seq(HoldRow) /\ Len(Q) = Len(R) + 1 /\ Len(R) \in Nat
      /\ Q[Len(R) + 1] = row /\ \A k \in 1 .. Len(R) : Q[k] = R[k]
  OBVIOUS
<1> HIDE DEF Q
<1>2. /\ DOMAIN Holds(A, R, c) = 1 .. Len(R) /\ DOMAIN Holds(A, Q, c) = 1 .. Len(R) + 1
      /\ \A k \in 1 .. Len(R) : Holds(A, R, c)[k] = Hold(A, R[k], c) /\ Holds(A, R, c)[k] \in Int
      /\ \A k \in 1 .. Len(R) + 1 : Holds(A, Q, c)[k] = Hold(A, Q[k], c) /\ Holds(A, Q, c)[k] \in Int
  <2>1. /\ DOMAIN Holds(A, R, c) = 1 .. Len(R)
        /\ \A k \in 1 .. Len(R) : Holds(A, R, c)[k] = Hold(A, R[k], c) /\ Hold(A, R[k], c) \in Int
    BY HoldsInt
  <2>2. /\ DOMAIN Holds(A, Q, c) = 1 .. Len(Q)
        /\ \A k \in 1 .. Len(Q) : Holds(A, Q, c)[k] = Hold(A, Q[k], c) /\ Hold(A, Q[k], c) \in Int
    BY <1>1, HoldsInt
  <2> QED BY <2>1, <2>2, <1>1
<1>3. Len(R) + 1 \in 1 .. Len(R) + 1 /\ \A k \in 1 .. Len(R) : k \in 1 .. Len(R) + 1
  BY <1>1
<1>4. /\ \A k \in 1 .. Len(R) : Holds(A, R, c)[k] \in Int /\ Holds(A, Q, c)[k] = Holds(A, R, c)[k]
      /\ Holds(A, Q, c)[Len(R) + 1] \in Int /\ Holds(A, Q, c)[Len(R) + 1] = Hold(A, row, c)
  BY <1>1, <1>2, <1>3
<1>5. Total(Holds(A, Q, c)) = Total(Holds(A, R, c)) + Hold(A, row, c)
  BY <1>1, <1>2, <1>4, TotalAppend
<1> QED BY <1>5 DEF Q

LEMMA HoldSwapped ==
  ASSUME NEW A, NEW R \in Seq(HoldRow), NEW Q \in Seq(HoldRow), Len(Q) = Len(R), NEW k \in 1 .. Len(R),
         \A m \in 1 .. Len(R) : m # k => Q[m] = R[m], NEW c
  PROVE  /\ Total(Holds(A, Q, c)) = Total(Holds(A, R, c)) - Hold(A, R[k], c) + Hold(A, Q[k], c)
         /\ Total(Holds(A, R, c)) \in Int /\ Hold(A, R[k], c) \in Int
<1>1. /\ DOMAIN Holds(A, Q, c) = DOMAIN Holds(A, R, c) /\ IsFiniteSet(DOMAIN Holds(A, R, c))
      /\ k \in DOMAIN Holds(A, R, c) /\ DOMAIN Holds(A, R, c) = 1 .. Len(R)
  BY HoldsInt
<1>2. \A m \in 1 .. Len(R) : Holds(A, R, c)[m] = Hold(A, R[m], c) /\ Holds(A, R, c)[m] \in Int
  BY HoldsInt
<1>3. \A m \in 1 .. Len(R) : Holds(A, Q, c)[m] = Hold(A, Q[m], c) /\ Holds(A, Q, c)[m] \in Int
  BY HoldsInt
<1>4. /\ \A m \in DOMAIN Holds(A, R, c) : Holds(A, R, c)[m] \in Int /\ Holds(A, Q, c)[m] \in Int
      /\ \A m \in DOMAIN Holds(A, R, c) : m # k => Holds(A, Q, c)[m] = Holds(A, R, c)[m]
  BY <1>1, <1>2, <1>3
<1>5. Total(Holds(A, Q, c)) = Total(Holds(A, R, c)) - Holds(A, R, c)[k] + Holds(A, Q, c)[k]
  BY <1>1, <1>4, TotalUpdate
<1>6. Total(Holds(A, R, c)) \in Int /\ Hold(A, R[k], c) \in Int
  BY HoldsInt
<1> QED BY <1>2, <1>3, <1>5, <1>6

LEMMA HoldMarked ==
  ASSUME NEW R \in Seq(HoldRow), NEW k \in 1 .. Len(R), NEW st \in {"HELD", "RELEASED", "COMMITTED"},
         NEW Q, Q = [R EXCEPT ![k].st = st]
  PROVE  /\ Q \in Seq(HoldRow) /\ Len(Q) = Len(R) /\ (\A m \in 1 .. Len(R) : Q[m].a = R[m].a)
         /\ (\A m \in 1 .. Len(R) : m # k => Q[m] = R[m])
         /\ Q[k].st = st /\ Q[k].amt = R[k].amt
<1> DEFINE row == [R[k] EXCEPT !.st = st]
<1>1. R[k] \in HoldRow /\ Len(R) \in Nat
  OBVIOUS
<1>2. row \in HoldRow /\ row.a = R[k].a /\ row.st = st /\ row.amt = R[k].amt
  BY <1>1 DEF HoldRow
<1>3. Q = [R EXCEPT ![k] = row]
  OBVIOUS
<1> HIDE DEF row
<1>4. Q \in Seq(HoldRow) /\ Len(Q) = Len(R) /\ Q[k] = row /\ \A m \in 1 .. Len(R) : m # k => Q[m] = R[m]
  BY <1>2, <1>3
<1> QED BY <1>2, <1>4

\* Log rows: likewise, and a row's status does not count.
LEMMA GapsInt ==
  ASSUME NEW A, NEW L \in Seq(LogRow), NEW c
  PROVE  /\ Total(Gaps(A, L, c)) \in Int /\ IsFiniteSet(DOMAIN Gaps(A, L, c)) /\ DOMAIN Gaps(A, L, c) = 1 .. Len(L)
         /\ \A k \in 1 .. Len(L) : Gaps(A, L, c)[k] = Gap(A, L[k], c) /\ Gap(A, L[k], c) \in Int
<1>1. /\ IsFiniteSet(1 .. Len(L)) /\ DOMAIN Gaps(A, L, c) = 1 .. Len(L)
      /\ \A k \in 1 .. Len(L) : Gaps(A, L, c)[k] = Gap(A, L[k], c)
  BY SequenceRange DEF Gaps
<1>2. ASSUME NEW row \in LogRow PROVE Gap(A, row, c) \in Int
  <2>1. row.fee - row.amt \in Int /\ row.in \in Int
    BY DEF LogRow
  <2>2. Gain(A, row.from, row.fee - row.amt, c) \in Int /\ Gain(A, row.to, row.in, c) \in Int
    BY <2>1, GainInt
  <2> QED BY <2>2 DEF Gap
<1>3. \A k \in 1 .. Len(L) : Gap(A, L[k], c) \in Int
  BY <1>2, SequenceRange
<1>4. Total(Gaps(A, L, c)) \in Int
  BY <1>1, <1>3, TotalInt
<1> QED BY <1>1, <1>3, <1>4

LEMMA GapsSame ==
  ASSUME NEW A, NEW B, Kept(A, B), Known \subseteq 1 .. Len(A), NEW L \in Seq(LogRow), NEW M \in Seq(LogRow),
         Len(M) = Len(L),
         \A k \in 1 .. Len(L) : /\ M[k].from = L[k].from /\ M[k].to = L[k].to /\ M[k].fee = L[k].fee
                                /\ M[k].amt = L[k].amt /\ M[k].in = L[k].in,
         NEW c
  PROVE  Total(Gaps(B, M, c)) = Total(Gaps(A, L, c))
<1>1. \A row \in LogRow : row.from \in 1 .. Len(A) /\ row.to \in 1 .. Len(A)
  BY DEF LogRow
<1>2. \A k \in 1 .. Len(L) : B[L[k].from].cur = A[L[k].from].cur /\ B[L[k].to].cur = A[L[k].to].cur
  BY <1>1, SequenceRange DEF Kept
<1>3. \A k \in 1 .. Len(L) : Gap(B, M[k], c) = Gap(A, L[k], c)
  BY <1>2 DEF Gap, Gain
<1>4. DOMAIN Gaps(B, M, c) = DOMAIN Gaps(A, L, c) /\ IsFiniteSet(DOMAIN Gaps(A, L, c))
  BY GapsInt
<1>5. \A k \in DOMAIN Gaps(A, L, c) : Gaps(B, M, c)[k] = Gaps(A, L, c)[k]
  BY <1>3 DEF Gaps
<1> QED BY <1>4, <1>5, TotalSame

LEMMA GapAdded ==
  ASSUME NEW A, NEW L \in Seq(LogRow), NEW row \in LogRow, NEW c
  PROVE  Total(Gaps(A, Append(L, row), c)) = Total(Gaps(A, L, c)) + Gap(A, row, c)
<1> DEFINE Q == Append(L, row)
<1>1. /\ Q \in Seq(LogRow) /\ Len(Q) = Len(L) + 1 /\ Len(L) \in Nat
      /\ Q[Len(L) + 1] = row /\ \A k \in 1 .. Len(L) : Q[k] = L[k]
  OBVIOUS
<1> HIDE DEF Q
<1>2. /\ DOMAIN Gaps(A, L, c) = 1 .. Len(L) /\ DOMAIN Gaps(A, Q, c) = 1 .. Len(L) + 1
      /\ \A k \in 1 .. Len(L) : Gaps(A, L, c)[k] = Gap(A, L[k], c) /\ Gaps(A, L, c)[k] \in Int
      /\ \A k \in 1 .. Len(L) + 1 : Gaps(A, Q, c)[k] = Gap(A, Q[k], c) /\ Gaps(A, Q, c)[k] \in Int
  <2>1. /\ DOMAIN Gaps(A, L, c) = 1 .. Len(L)
        /\ \A k \in 1 .. Len(L) : Gaps(A, L, c)[k] = Gap(A, L[k], c) /\ Gap(A, L[k], c) \in Int
    BY GapsInt
  <2>2. /\ DOMAIN Gaps(A, Q, c) = 1 .. Len(Q)
        /\ \A k \in 1 .. Len(Q) : Gaps(A, Q, c)[k] = Gap(A, Q[k], c) /\ Gap(A, Q[k], c) \in Int
    BY <1>1, GapsInt
  <2> QED BY <2>1, <2>2, <1>1
<1>3. Len(L) + 1 \in 1 .. Len(L) + 1 /\ \A k \in 1 .. Len(L) : k \in 1 .. Len(L) + 1
  BY <1>1
<1>4. /\ \A k \in 1 .. Len(L) : Gaps(A, L, c)[k] \in Int /\ Gaps(A, Q, c)[k] = Gaps(A, L, c)[k]
      /\ Gaps(A, Q, c)[Len(L) + 1] \in Int /\ Gaps(A, Q, c)[Len(L) + 1] = Gap(A, row, c)
  BY <1>1, <1>2, <1>3
<1>5. Total(Gaps(A, Q, c)) = Total(Gaps(A, L, c)) + Gap(A, row, c)
  BY <1>1, <1>2, <1>4, TotalAppend
<1> QED BY <1>5 DEF Q

\* Payments to the bank: a number, the same on other balances, applied once
\* more by one request.
LEMMA PaidOnInt ==
  ASSUME NEW A, AccountsOf(A), NEW w, RequestOK(w), Known \subseteq 1 .. Len(A), NEW c
  PROVE  PaidOn(A, w, c) \in Int
<1>1. CASE ~Pays(w)
  BY <1>1 DEF PaidOn
<1>2. CASE Pays(w)
  <2>1. PayOn(A, w).in \in Int /\ PayOn(A, w).amt \in Int
    BY <1>2, PaymentFits DEF IsPayment
  <2>2. Gain(A, w.to, PayOn(A, w).in, c) \in Int /\ Gain(A, w.from, PayOn(A, w).amt, c) \in Int
    BY <2>1, GainInt
  <2> QED BY <1>2, <2>2 DEF PaidOn, BankGain
<1> QED BY <1>1, <1>2

LEMMA PaidOnKept ==
  ASSUME NEW A, NEW B, Kept(A, B), Known \subseteq 1 .. Len(A), NEW w, RequestOK(w), NEW c
  PROVE  PaidOn(B, w, c) = PaidOn(A, w, c) /\ (Pays(w) => PayOn(B, w) = PayOn(A, w))
<1>1. CASE ~Pays(w)
  BY <1>1 DEF PaidOn
<1>2. CASE Pays(w)
  <2>1. w.from \in 1 .. Len(A) /\ w.to \in 1 .. Len(A)
    BY <1>2 DEF RequestOK, Pays
  <2>2. B[w.from].cur = A[w.from].cur /\ B[w.to].cur = A[w.to].cur /\ B[w.to].owner = A[w.to].owner
    BY <2>1 DEF Kept
  <2>3. PayOn(B, w) = PayOn(A, w)
    BY <2>2 DEF PayOn
  <2> QED BY <2>2, <2>3 DEF PaidOn, BankGain, Gain
<1> QED BY <1>1, <1>2

Asked(A, W) ==
  /\ AccountsOf(A) /\ IsFiniteSet(DOMAIN W) /\ Known \subseteq 1 .. Len(A) /\ \A r \in DOMAIN W : RequestOK(W[r])

LEMMA ToBanksInt ==
  ASSUME NEW A, NEW W, Asked(A, W), NEW n \in [DOMAIN W -> Nat], NEW c
  PROVE  /\ Total(ToBanks(A, W, n, c)) \in Int
         /\ \A r \in DOMAIN W : ToBanks(A, W, n, c)[r] \in Int /\ PaidOn(A, W[r], c) \in Int
<1>1. \A r \in DOMAIN W : PaidOn(A, W[r], c) \in Int
  BY PaidOnInt DEF Asked
<1>2. \A r \in DOMAIN W : n[r] \in Int
  OBVIOUS
<1>3. \A x, y \in Int : x * y \in Int
  OBVIOUS
<1>4. \A r \in DOMAIN W : n[r] * PaidOn(A, W[r], c) \in Int
  BY <1>1, <1>2, <1>3
<1>5. DOMAIN ToBanks(A, W, n, c) = DOMAIN W /\ \A r \in DOMAIN W : ToBanks(A, W, n, c)[r] \in Int
  BY <1>4 DEF ToBanks
<1>6. Total(ToBanks(A, W, n, c)) \in Int
  BY <1>5, TotalInt DEF Asked
<1> QED BY <1>1, <1>5, <1>6

\* Only the count of r, if any, changes; it matters if r pays the bank.
LEMMA ToBanksStep ==
  ASSUME NEW A, NEW B, NEW W, Asked(A, W), AccountsOf(B), Kept(A, B),
         NEW n \in [DOMAIN W -> Nat], NEW m \in [DOMAIN W -> Nat],
         NEW r \in DOMAIN W, \A q \in DOMAIN W : q # r => m[q] = n[q], NEW c
  PROVE  Total(ToBanks(B, W, m, c)) = Total(ToBanks(A, W, n, c)) + (m[r] - n[r]) * PaidOn(A, W[r], c)
<1> DEFINE f == ToBanks(A, W, n, c)
           g == ToBanks(B, W, m, c)
<1>1. Asked(B, W)
  BY DEF Asked, Kept
<1>2. /\ IsFiniteSet(DOMAIN f) /\ DOMAIN g = DOMAIN f /\ DOMAIN f = DOMAIN W
  BY DEF ToBanks, Asked
<1>3. \A q \in DOMAIN W : f[q] \in Int /\ g[q] \in Int
  BY <1>1, ToBanksInt
<1>4. \A q \in DOMAIN W : PaidOn(B, W[q], c) = PaidOn(A, W[q], c)
  BY PaidOnKept DEF Asked
<1>5. \A q \in DOMAIN W : f[q] = n[q] * PaidOn(A, W[q], c) /\ g[q] = m[q] * PaidOn(A, W[q], c)
  BY <1>4 DEF ToBanks
<1> HIDE DEF f, g
<1>6. \A q \in DOMAIN W : q # r => g[q] = f[q]
  BY <1>5
<1>7. Total(g) = Total(f) - f[r] + g[r]
  BY <1>2, <1>3, <1>6, TotalUpdate
<1>8. n[r] \in Int /\ m[r] \in Int /\ PaidOn(A, W[r], c) \in Int /\ Total(f) \in Int
  BY ToBanksInt DEF f
<1>9. \A x, y, z \in Int : (y - x) * z = y * z - x * z
  OBVIOUS
<1>10. (m[r] - n[r]) * PaidOn(A, W[r], c) = m[r] * PaidOn(A, W[r], c) - n[r] * PaidOn(A, W[r], c)
  BY <1>8, <1>9
<1>11. f[r] = n[r] * PaidOn(A, W[r], c) /\ g[r] = m[r] * PaidOn(A, W[r], c) /\ f[r] \in Int /\ g[r] \in Int
  BY <1>3, <1>5
<1>12. Total(g) = Total(f) + (m[r] - n[r]) * PaidOn(A, W[r], c)
  BY <1>7, <1>8, <1>10, <1>11
<1> QED BY <1>12 DEF f, g
--------------------------------------------------------------------------
(* What a step does not touch stays true. *)

\* Only the requests of R move, and the tables grow.
Grown(R) ==
  /\ benv' = benv /\ AccountsOf(acc') /\ Kept(acc, acc')
  /\ Len(sess) =< Len(sess') /\ Len(fundresv) =< Len(fundresv') /\ Len(paid) =< Len(paid') /\ Len(trf) =< Len(trf')
  /\ \A k \in 1 .. Len(paid) : paid'[k].r = paid[k].r
  /\ \A k \in 1 .. Len(trf) : trf'[k] = trf[k]
  /\ DOMAIN at' = Req /\ \A q \in Req : q \notin R => at'[q] = at[q] /\ ghost'.applied[q] = ghost.applied[q]
  /\ ghost.odd \subseteq ghost'.odd

\* The lengths of the tables.
LEMMA Lengths ==
  ASSUME TablesOK
  PROVE  /\ Len(acc) \in Nat /\ Len(sess) \in Nat /\ Len(paid) \in Nat /\ Len(trf) \in Nat
         /\ Len(fundresv) \in Nat /\ Len(ilog) \in Nat /\ Len(rcpt) \in Nat
  BY AccountsAreRows DEF TablesOK

LEMMA LengthsAfter ==
  ASSUME TablesOK'
  PROVE  /\ Len(acc') \in Nat /\ Len(sess') \in Nat /\ Len(paid') \in Nat /\ Len(trf') \in Nat
         /\ Len(fundresv') \in Nat /\ Len(ilog') \in Nat /\ Len(rcpt') \in Nat
  BY AccountsAreRows DEF TablesOK

LEMMA PaymentIs == ASSUME NEW w PROVE PaymentOf(w) = PayOn(acc, w)
  BY DEF PaymentOf, PayOn

LEMMA PaymentStays ==
  ASSUME TablesOK, NEW R, Grown(R), NEW r \in Req, Pays(What[r])
  PROVE  PaymentOf(What[r])' = PaymentOf(What[r])
<1>1. RequestOK(What[r]) /\ Known \subseteq 1 .. Len(acc) /\ Kept(acc, acc')
  BY RequestFits DEF Grown
<1>2. PayOn(acc', What[r]) = PayOn(acc, What[r])
  BY <1>1, PaidOnKept
<1>3. What' = What
  BY DEF Grown, What
<1>4. PaymentOf(What[r])' = PayOn(acc', What[r])
  BY <1>3 DEF PaymentOf, PayOn
<1> QED BY <1>2, <1>4, PaymentIs

LEMMA StandStays ==
  ASSUME TablesOK, TablesOK', NEW R, Grown(R), NEW r \in Req, r \notin R, Stands(r)
  PROVE  Stands(r)'
<1>1. What' = What /\ at'[r] = at[r]
  BY DEF Grown, What
<1>2. /\ \A k \in 1 .. Len(paid) : k \in 1 .. Len(paid') /\ paid'[k].r = paid[k].r
      /\ \A k \in 1 .. Len(sess) : k \in 1 .. Len(sess')
      /\ \A k \in 1 .. Len(fundresv) : k \in 1 .. Len(fundresv')
  <2>1. /\ Len(paid) \in Nat /\ Len(paid') \in Nat /\ Len(sess) \in Nat /\ Len(sess') \in Nat
        /\ Len(fundresv) \in Nat /\ Len(fundresv') \in Nat
    BY Lengths, LengthsAfter
  <2> QED BY <2>1 DEF Grown
<1>3. \A k \in 1 .. Len(acc) : k \in 1 .. Len(acc')
  <2>1. Len(acc) \in Nat /\ Len(acc') \in Nat
    BY AccountsAreRows DEF Grown, TablesOK
  <2> QED BY <2>1 DEF Grown, Kept
<1>4. CASE Paying(r)
  <2>1. PaymentOf(What[r])' = PaymentOf(What[r])
    BY <1>4, PaymentStays DEF Paying, Pays
  <2> QED BY <1>1, <1>2, <1>4, <2>1 DEF Stands, Paying
<1>5. CASE Transferring(r)
  <2>1. PaymentOf(What[r])' = PaymentOf(What[r])
    BY <1>5, PaymentStays DEF Transferring, Pays
  <2> QED BY <1>1, <1>5, <2>1 DEF Stands, Transferring
<1>6. CASE Between(r) /\ at[r].pc \in {"feelist", "feewrite"}
  <2>1. What[r].kind = "monthly" /\ at[r] = [pc |-> at[r].pc, read |-> at[r].read] /\ AccountsOf(at[r].read) /\ Kept(at[r].read, acc)
    BY <1>6 DEF Between
  <2>2. Len(at[r].read) \in Nat /\ Len(acc) \in Nat /\ Len(acc') \in Nat /\ Kept(acc, acc')
    BY <2>1, AccountsAreRows DEF Grown, TablesOK
  <2>3. Kept(at[r].read, acc')
    BY <2>1, <2>2, KeptTwice
  <2> QED BY <1>1, <1>6, <2>1, <2>3 DEF Stands, Between
<1>7. CASE Between(r) /\ at[r].pc \notin {"feelist", "feewrite"}
  BY <1>1, <1>2, <1>3, <1>7 DEF Stands, Between
<1>8. CASE at[r] = [pc |-> "start"] \/ at[r] = Done
  BY <1>1, <1>8 DEF Stands, Done
<1> QED BY <1>4, <1>5, <1>6, <1>7, <1>8 DEF Stands

LEMMA CountStays ==
  ASSUME TablesOK, TablesOK', NEW R, Grown(R), NEW r \in Req, r \notin R, CountKept(r)
  PROVE  CountKept(r)'
<1>1. What' = What /\ at'[r] = at[r] /\ Applied(r)' = Applied(r)
  BY DEF Grown, What, Applied
<1>2. \A S : NoneOf(S)' => NoneOf(S)
  BY DEF Grown, NoneOf
<1>3. Len(trf) \in Nat /\ Len(trf') \in Nat
  BY Lengths, LengthsAfter
<1>4. (\E k \in 1 .. Len(trf) : trf[k].r = r) => (\E k \in 1 .. Len(trf') : trf'[k].r = r)
  BY <1>3 DEF Grown
<1> QED BY <1>1, <1>2, <1>4 DEF CountKept, Done

LEMMA RowStays ==
  ASSUME NEW R, Grown(R), NEW k \in 1 .. Len(paid), RowKept(k), paid[k].r \in Req, paid[k].r \notin R,
         paid'[k].st = paid[k].st
  PROVE  RowKept(k)'
<1> DEFINE r == paid[k].r
<1>1. What' = What /\ at'[r] = at[r] /\ Applied(r)' = Applied(r) /\ paid'[k].r = r
  BY DEF Grown, What, Applied
<1>2. NoneOf({"lost"})' => NoneOf({"lost"})
  BY DEF Grown, NoneOf
<1>3. NoneOf({"crash"})' => NoneOf({"crash"})
  BY DEF Grown, NoneOf
<1>4. NoneOf({"lost", "crash"})' => NoneOf({"lost", "crash"})
  BY DEF Grown, NoneOf
<1>5. Applied(paid[k].r)' = ghost'.applied[paid'[k].r]
  BY DEF Applied
<1> QED BY <1>1, <1>2, <1>3, <1>4, <1>5 DEF RowKept, Done, Applied

\* The sums of the next state are the sums of its tables.
LEMMA SumsAfter ==
  ASSUME NEW c
  PROVE  /\ Reserved(c)' = Total(Holds(acc', fundresv', c))
         /\ CrossLogGap(c)' = Total(Gaps(acc', ilog', c))
         /\ ToBankGap(c)' = Total(ToBanks(acc', What', ghost'.applied, c))
<1>1. \A x : /\ Reserved(x) = Total(Holds(acc, fundresv, x))
             /\ CrossLogGap(x) = Total(Gaps(acc, ilog, x))
             /\ ToBankGap(x) = Total(ToBanks(acc, What, ghost.applied, x))
  BY SumsAre
<1>2. (\A x : /\ Reserved(x) = Total(Holds(acc, fundresv, x))
              /\ CrossLogGap(x) = Total(Gaps(acc, ilog, x))
              /\ ToBankGap(x) = Total(ToBanks(acc, What, ghost.applied, x)))'
  BY <1>1, PTL
<1> QED BY <1>2

\* The books stay balanced if the step's own changes balance.
Delta(c) == OnAccounts(acc', c) - OnAccounts(acc, c)
HeldDelta(c) == Total(Holds(acc', fundresv', c)) - Total(Holds(acc, fundresv, c))
GapDelta(c) == Total(Gaps(acc', ilog', c)) - Total(Gaps(acc, ilog, c))
PaidDelta(r, c) == (ghost'.applied[r] - ghost.applied[r]) * PaidOn(acc, What[r], c)

LEMMA RequestsAsk ==
  ASSUME TablesOK
  PROVE  Asked(acc, What) /\ ghost.applied \in [DOMAIN What -> Nat]
<1>1. AccountsOf(acc) /\ ghost.applied \in [Req -> Nat]
  BY DEF TablesOK, GhostOK
<1> QED BY <1>1, RequestFits DEF Asked, Req

LEMMA MoneyStep ==
  ASSUME TablesOK, TablesOK', MoneyOK, NEW r \in Req, Grown({r}),
         NoneOf({"release", "fees", "reverse"})' =>
           \A c \in Currency : Delta(c) + HeldDelta(c) = ghost'.side[c] - ghost.side[c] + GapDelta(c) + PaidDelta(r, c)
  PROVE  MoneyOK'
<1>1. SUFFICES ASSUME NoneOf({"release", "fees", "reverse"})', NEW c \in Currency PROVE Balanced(c)'
  BY DEF MoneyOK
<1>2. NoneOf({"release", "fees", "reverse"})
  BY <1>1 DEF NoneOf, Grown
<1>3. Balanced(c)
  BY <1>2 DEF MoneyOK
<1>4. What' = What /\ r \in DOMAIN What
  BY DEF Grown, What, Req
<1>5. /\ Asked(acc, What) /\ ghost.applied \in [DOMAIN What -> Nat] /\ ghost'.applied \in [DOMAIN What -> Nat]
      /\ AccountsOf(acc') /\ Kept(acc, acc')
  BY <1>4, RequestsAsk DEF Grown, TablesOK, GhostOK, Req
<1>6. \A q \in DOMAIN What : q # r => ghost'.applied[q] = ghost.applied[q]
  BY DEF Grown, Req
<1>7. Total(ToBanks(acc', What, ghost'.applied, c)) = Total(ToBanks(acc, What, ghost.applied, c)) + PaidDelta(r, c)
  BY <1>4, <1>5, <1>6, ToBanksStep DEF PaidDelta
<1>8. /\ OnAccounts(acc, c) \in Int /\ OnAccounts(acc', c) \in Int /\ OnAccounts(Accounts0, c) \in Int
      /\ ghost.side[c] \in Int /\ ghost'.side[c] \in Int
  <2>1. acc \in Seq(AccountRow) /\ acc' \in Seq(AccountRow) /\ Accounts0 \in Seq(AccountRow)
    BY AccountsAssumption DEF TablesOK, AccountsOf
  <2> QED BY <2>1, OnAccountsInt DEF TablesOK, GhostOK
<1>9. /\ Total(Holds(acc, fundresv, c)) \in Int /\ Total(Holds(acc', fundresv', c)) \in Int
      /\ Total(Gaps(acc, ilog, c)) \in Int /\ Total(Gaps(acc', ilog', c)) \in Int
  BY HoldsInt, GapsInt DEF TablesOK
<1>10. Total(ToBanks(acc, What, ghost.applied, c)) \in Int
  BY <1>5, ToBanksInt
<1>11. (ghost'.applied[r] - ghost.applied[r]) * PaidOn(acc, What[r], c) \in Int
  <2>1. ghost'.applied[r] - ghost.applied[r] \in Int /\ PaidOn(acc, What[r], c) \in Int
    BY <1>4, <1>5, ToBanksInt
  <2>2. \A x, y \in Int : x * y \in Int
    OBVIOUS
  <2> QED BY <2>1, <2>2
<1>12. PaidDelta(r, c) \in Int
  BY <1>11 DEF PaidDelta
<1>13. Delta(c) + HeldDelta(c) = ghost'.side[c] - ghost.side[c] + GapDelta(c) + PaidDelta(r, c)
  BY <1>1
<1>14. OnAccounts(acc, c) + Total(Holds(acc, fundresv, c))
         = OnAccounts(Accounts0, c) + ghost.side[c] + Total(Gaps(acc, ilog, c))
           + Total(ToBanks(acc, What, ghost.applied, c))
  BY <1>3, SumsAre DEF Balanced
<1>15. OnAccounts(acc', c) + Total(Holds(acc', fundresv', c))
         = OnAccounts(Accounts0, c) + ghost'.side[c] + Total(Gaps(acc', ilog', c))
           + Total(ToBanks(acc', What, ghost'.applied, c))
  BY <1>7, <1>8, <1>9, <1>10, <1>12, <1>13, <1>14 DEF Delta, HeldDelta, GapDelta
<1>16. /\ Reserved(c)' = Total(Holds(acc', fundresv', c)) /\ CrossLogGap(c)' = Total(Gaps(acc', ilog', c))
       /\ ToBankGap(c)' = Total(ToBanks(acc', What, ghost'.applied, c))
  BY <1>4, SumsAfter
<1> QED BY <1>15, <1>16 DEF Balanced

\* Holds that stay add nothing, nor do log rows.
LEMMA HoldsStill ==
  ASSUME TablesOK, HoldsOK, Kept(acc, acc'), fundresv' = fundresv, NEW c
  PROVE  HeldDelta(c) = 0
<1>1. fundresv \in Seq(HoldRow)
  BY DEF TablesOK
<1>2. Total(Holds(acc', fundresv, c)) = Total(Holds(acc, fundresv, c))
  BY <1>1, HoldsKept DEF HoldsOK
<1>3. Total(Holds(acc, fundresv, c)) \in Int
  BY <1>1, HoldsInt
<1> QED BY <1>2, <1>3 DEF HeldDelta

LEMMA RowsStill ==
  ASSUME TablesOK, HoldsOK, NEW R, Grown(R), fundresv' = fundresv, ilog' = ilog, NEW c
  PROVE  HeldDelta(c) = 0 /\ GapDelta(c) = 0
<1>1. Kept(acc, acc') /\ Known \subseteq 1 .. Len(acc) /\ fundresv \in Seq(HoldRow) /\ ilog \in Seq(LogRow)
  BY RequestFits DEF Grown, TablesOK
<1>2. Total(Holds(acc', fundresv, c)) = Total(Holds(acc, fundresv, c))
  BY <1>1, HoldsKept DEF HoldsOK
<1>3. Total(Gaps(acc', ilog, c)) = Total(Gaps(acc, ilog, c))
  BY <1>1, GapsSame
<1>4. Total(Holds(acc, fundresv, c)) \in Int /\ Total(Gaps(acc, ilog, c)) \in Int
  BY <1>1, HoldsInt, GapsInt
<1> QED BY <1>2, <1>3, <1>4 DEF HeldDelta, GapDelta

LEMMA MoneyStill ==
  ASSUME TablesOK, TablesOK', HoldsOK, MoneyOK, NEW R, Grown(R), acc' = acc, fundresv' = fundresv, ilog' = ilog,
         ghost'.side = ghost.side, ghost'.applied = ghost.applied
  PROVE  MoneyOK'
<1>1. SUFFICES ASSUME NoneOf({"release", "fees", "reverse"})', NEW c \in Currency PROVE Balanced(c)'
  BY DEF MoneyOK
<1>2. Balanced(c)
  BY <1>1 DEF MoneyOK, NoneOf, Grown
<1>3. What' = What
  BY DEF Grown, What
<1>4. Reserved(c)' = Reserved(c) /\ CrossLogGap(c)' = CrossLogGap(c) /\ ToBankGap(c)' = ToBankGap(c)
  BY <1>3, SumsAre, SumsAfter
<1> QED BY <1>2, <1>4 DEF Balanced
--------------------------------------------------------------------------
(* One step of one request. *)

LEMMA GotoIs ==
  ASSUME ControlOK, NEW r \in Req, NEW s, Goto(r, s)
  PROVE  DOMAIN at' = Req /\ at'[r] = s /\ \A q \in Req : q # r => at'[q] = at[q]
  BY DEF ControlOK, Goto

\* What a history step may do: the record keeps its shape and its oddities.
LEMMA OddIs ==
  ASSUME GhostOK, NEW w, ghost' = Odd(w)
  PROVE  /\ DOMAIN ghost' = {"side", "applied", "odd"} /\ ghost'.side = ghost.side
         /\ ghost'.applied = ghost.applied /\ ghost'.odd = ghost.odd \cup {w}
  BY DEF GhostOK, Odd

LEMMA OddIfIs ==
  ASSUME GhostOK, NEW w, NEW b \in BOOLEAN, OddIf(b, w)
  PROVE  /\ DOMAIN ghost' = {"side", "applied", "odd"} /\ ghost'.side = ghost.side
         /\ ghost'.applied = ghost.applied /\ ghost'.odd = IF b THEN ghost.odd \cup {w} ELSE ghost.odd
  BY OddIs DEF GhostOK, OddIf

\* No row of a transfer belongs to a request that still runs.
LEMMA TransfersStep ==
  ASSUME TablesOK, TransfersOK, NEW R, \A r \in R : at[r] # Done, Grown(R), trf' = trf
  PROVE  TransfersOK'
<1>1. \A k \in 1 .. Len(trf) : trf[k].r \in Req /\ trf[k].r \notin R
  <2>1. \A k \in 1 .. Len(trf) : trf[k] \in TransferRow
    BY SequenceRange DEF TablesOK
  <2>2. \A row \in TransferRow : row.r \in Req
    BY DEF TransferRow
  <2> QED BY <2>1, <2>2 DEF TransfersOK
<1>2. \A k \in 1 .. Len(trf) : at'[trf[k].r] = at[trf[k].r] /\ ghost'.applied[trf[k].r] = ghost.applied[trf[k].r]
  BY <1>1 DEF Grown
<1>3. What' = What
  BY DEF Grown, What
<1> QED BY <1>2, <1>3 DEF TransfersOK, Applied, Done

\* The acting requests' own places, counts, rows and sessions make the whole
\* invariant.
LEMMA StepInv ==
  ASSUME BankInv, TablesOK', NEW R, Grown(R), HoldsOK', MoneyOK', TransfersOK', RecipientsApart', sess' = sess,
         \A r \in R : Stands(r)' /\ CountKept(r)' /\ (PastCheck(r)' => Confirmed(What[r].session)),
         \A k \in 1 .. Len(paid') :
           RowKept(k)' \/ (k \in 1 .. Len(paid) /\ paid[k].r \notin R /\ paid'[k].st = paid[k].st)
  PROVE  BankInv'
<1>1. TablesOK /\ What' = What /\ Req' = Req
  BY DEF BankInv, Grown, What, Req
<1>2. ControlOK'
  <2>1. \A q \in Req : Stands(q)'
    <3> TAKE q \in Req
    <3>1. Stands(q)
      BY DEF BankInv, ControlOK
    <3>2. CASE q \notin R
      BY <1>1, <3>1, <3>2, StandStays
    <3> QED BY <3>2
  <2>2. DOMAIN at' = Req
    BY DEF Grown
  <2> QED BY <1>1, <2>1, <2>2 DEF ControlOK
<1>3. CountsOK'
  <2>1. \A q \in Req : CountKept(q)'
    <3> TAKE q \in Req
    <3>1. CountKept(q)
      BY DEF BankInv, CountsOK
    <3>2. CASE q \notin R
      BY <1>1, <3>1, <3>2, CountStays
    <3> QED BY <3>2
  <2> QED BY <1>1, <2>1 DEF CountsOK
<1>4. PaidOK'
  <2>1. ASSUME NEW k \in 1 .. Len(paid') PROVE RowKept(k)'
    <3>1. CASE k \in 1 .. Len(paid) /\ paid[k].r \notin R /\ paid'[k].st = paid[k].st
      <4>1. paid[k] \in PaidRow /\ \A row \in PaidRow : row.r \in Req
        BY <1>1, <3>1, SequenceRange DEF TablesOK, PaidRow
      <4>2. RowKept(k) /\ paid[k].r \in Req /\ paid[k].r \notin R /\ paid'[k].st = paid[k].st
        BY <3>1, <4>1 DEF BankInv, PaidOK
      <4> QED BY <3>1, <4>2, RowStays
    <3> QED BY <3>1
  <2> QED BY <2>1 DEF PaidOK
<1>5. SessionsOK'
  <2>0. SessionsOK
    BY DEF BankInv
  <2>1. \A q \in Req : PastCheck(q)' => Confirmed(What[q].session)'
    <3> TAKE q \in Req
    <3>1. ghost.odd \subseteq ghost'.odd
      BY DEF Grown
    <3>4. Confirmed(What[q].session) => Confirmed(What[q].session)'
      BY <1>1, <3>1 DEF Confirmed, NoneOf
    <3>2. CASE q \in R
      BY <1>1, <3>2, <3>4
    <3>3. CASE q \notin R
      <4>1. at'[q] = at[q] /\ ghost'.applied[q] = ghost.applied[q]
        BY <3>3 DEF Grown
      <4>2. PastCheck(q)' => PastCheck(q)
        BY <1>1, <4>1 DEF PastCheck, Applied
      <4> QED BY <2>0, <3>4, <4>2 DEF SessionsOK
    <3> QED BY <3>2, <3>3
  <2>2. SessionsApart(sess')
    BY <2>0 DEF SessionsOK
  <2> QED BY <1>1, <2>0, <2>1, <2>2 DEF SessionsOK, SessionsApart
<1> QED BY <1>2, <1>3, <1>4, <1>5 DEF BankInv

\* The history after a step of r.
GhostGrown(r) ==
  /\ DOMAIN ghost' = {"side", "applied", "odd"}
  /\ ghost'.side \in [Currency -> Int] /\ ghost'.applied \in [Req -> Nat]
  /\ ghost.odd \subseteq ghost'.odd /\ \A q \in Req : q # r => ghost'.applied[q] = ghost.applied[q]

LEMMA GhostStays ==
  ASSUME GhostOK, NEW r, ghost' = ghost
  PROVE  GhostGrown(r)
  BY DEF GhostOK, GhostGrown

LEMMA GhostOdd ==
  ASSUME GhostOK, NEW r, NEW w, ghost' = Odd(w)
  PROVE  GhostGrown(r)
  BY OddIs DEF GhostOK, GhostGrown

LEMMA GhostOddIf ==
  ASSUME GhostOK, NEW r, NEW w, NEW b \in BOOLEAN, OddIf(b, w)
  PROVE  GhostGrown(r)
  BY OddIfIs DEF GhostOK, GhostGrown

LEMMA KeptSelf ==
  ASSUME TablesOK
  PROVE  AccountsOf(acc) /\ Kept(acc, acc) /\ Len(acc) \in Nat
  BY Lengths DEF TablesOK, Kept

LEMMA HoldsStep ==
  ASSUME TablesOK, HoldsOK, AccountsOf(acc'), Kept(acc, acc'), fundresv' = fundresv
  PROVE  HoldsOK'
<1>1. Len(acc) \in Nat /\ Len(acc') \in Nat
  BY AccountsAreRows DEF TablesOK
<1> QED BY <1>1 DEF HoldsOK, Kept

\* The tables after a step of r that leaves sessions alone.
LEMMA StepTables ==
  ASSUME TablesOK, ControlOK, NEW r \in Req, NEW s, Goto(r, s), benv' = benv, sess' = sess, rcpt' \in Seq(RecipientRow),
         AccountsOf(acc'), Kept(acc, acc'),
         paid' \in Seq(PaidRow), Len(paid) =< Len(paid'), \A k \in 1 .. Len(paid) : paid'[k].r = paid[k].r,
         trf' \in Seq(TransferRow), Len(trf) =< Len(trf'), \A k \in 1 .. Len(trf) : trf'[k] = trf[k],
         fundresv' \in Seq(HoldRow), Len(fundresv) =< Len(fundresv'), ilog' \in Seq(LogRow),
         bfaults' \in Nat, GhostGrown(r)
  PROVE  TablesOK' /\ Grown({r})
<1>1. Req' = Req
  BY DEF Req, What
<1>2. PaidRow' = PaidRow /\ TransferRow' = TransferRow
  BY <1>1 DEF PaidRow, TransferRow
<1>3. GhostOK'
  BY <1>1 DEF GhostOK, GhostGrown
<1>4. TablesOK'
  BY <1>2, <1>3 DEF TablesOK
<1>5. DOMAIN at' = Req /\ \A q \in Req : q # r => at'[q] = at[q]
  BY GotoIs
<1>6. Len(sess) =< Len(sess')
  BY Lengths
<1>7. Grown({r})
  BY <1>5, <1>6 DEF Grown, GhostGrown
<1> QED BY <1>4, <1>7

LEMMA PaidDeltaZero ==
  ASSUME TablesOK, NEW r \in Req, GhostGrown(r), NEW c, ~Pays(What[r]) \/ ghost'.applied[r] = ghost.applied[r]
  PROVE  PaidDelta(r, c) = 0
<1>1. ghost.applied[r] \in Int /\ ghost'.applied[r] \in Int
  BY DEF TablesOK, GhostOK, GhostGrown
<1>2. PaidOn(acc, What[r], c) \in Int
  BY PaidOnInt, RequestFits DEF TablesOK
<1>3. CASE ~Pays(What[r])
  <2>1. PaidOn(acc, What[r], c) = 0
    BY <1>3 DEF PaidOn
  <2>2. \A x \in Int : x * 0 = 0
    OBVIOUS
  <2> QED BY <1>1, <2>1, <2>2 DEF PaidDelta
<1>4. CASE ghost'.applied[r] = ghost.applied[r]
  <2>1. ghost'.applied[r] - ghost.applied[r] = 0
    BY <1>1, <1>4
  <2>2. \A x \in Int : 0 * x = 0
    OBVIOUS
  <2> QED BY <1>2, <2>1, <2>2 DEF PaidDelta
<1> QED BY <1>3, <1>4

\* A step of a request that is neither a payment nor a transfer.
LEMMA PlainStep ==
  ASSUME BankInv, NEW r \in Req, NEW s, Goto(r, s), at[r] # Done, What[r].kind \notin {"payment", "transfer"},
         UNCHANGED <<benv, sess, paid, trf, rcpt>>, AccountsOf(acc'), Kept(acc, acc'),
         fundresv' \in Seq(HoldRow), Len(fundresv) =< Len(fundresv'), HoldsOK', ilog' \in Seq(LogRow),
         bfaults' \in Nat, GhostGrown(r), Stands(r)',
         s.pc \notin {"start", "check"}, s.pc = "expire" => ghost'.applied[r] = 0,
         s.pc = "record" => ghost'.applied[r] = 1,
         NoneOf({"release", "fees", "reverse"})' =>
           \A c \in Currency : Delta(c) + HeldDelta(c) = ghost'.side[c] - ghost.side[c] + GapDelta(c) + PaidDelta(r, c)
  PROVE  BankInv'
<1>1. /\ TablesOK /\ ControlOK /\ HoldsOK /\ MoneyOK /\ TransfersOK /\ paid \in Seq(PaidRow) /\ trf \in Seq(TransferRow)
      /\ Len(paid) \in Nat /\ Len(trf) \in Nat /\ RecipientsApart /\ rcpt \in Seq(RecipientRow)
  BY Lengths DEF BankInv, TablesOK
<1>2. TablesOK' /\ Grown({r})
  <2>1. /\ paid' \in Seq(PaidRow) /\ Len(paid) =< Len(paid') /\ (\A k \in 1 .. Len(paid) : paid'[k].r = paid[k].r)
        /\ trf' \in Seq(TransferRow) /\ Len(trf) =< Len(trf') /\ (\A k \in 1 .. Len(trf) : trf'[k] = trf[k])
        /\ rcpt' \in Seq(RecipientRow)
    BY <1>1
  <2> QED BY <1>1, <2>1, StepTables
<1>3. MoneyOK'
  BY <1>1, <1>2, MoneyStep
<1>4. TransfersOK'
  <2>1. \A q \in {r} : at[q] # Done
    OBVIOUS
  <2> QED BY <1>1, <1>2, <2>1, TransfersStep
<1>5. What' = What /\ at'[r] = s
  BY <1>1, GotoIs DEF What
<1>6. CountKept(r)'
  BY <1>5 DEF CountKept, Applied
<1>7. \A k \in 1 .. Len(paid) : paid[k].r # r
  <2>1. \A k \in 1 .. Len(paid) : paid[k].r = r => at[r] = Done
    BY DEF BankInv, PaidOK, RowKept
  <2> QED BY <2>1
<1>8. PastCheck(r)' => Confirmed(What[r].session)
  BY <1>5 DEF PastCheck
<1>9. RecipientsApart'
  BY <1>1 DEF RecipientsApart
<1>10. \A k \in 1 .. Len(paid') : k \in 1 .. Len(paid) /\ paid[k].r \notin {r} /\ paid'[k].st = paid[k].st
  BY <1>7
<1> QED BY <1>2, <1>3, <1>4, <1>6, <1>8, <1>9, <1>10, StepInv

\* Such a step that touches nothing but the accounts and the history.
LEMMA AccountsStepInv ==
  ASSUME BankInv, NEW r \in Req, NEW s, Goto(r, s), at[r] # Done, What[r].kind \notin {"payment", "transfer"},
         UNCHANGED <<benv, sess, paid, trf, rcpt, fundresv, ilog>>, AccountsOf(acc'), Kept(acc, acc'),
         bfaults' \in Nat, GhostGrown(r), Stands(r)',
         s.pc \notin {"start", "check"}, s.pc = "expire" => ghost'.applied[r] = 0,
         s.pc = "record" => ghost'.applied[r] = 1,
         NoneOf({"release", "fees", "reverse"})' =>
           \A c \in Currency : Delta(c) = ghost'.side[c] - ghost.side[c] + PaidDelta(r, c)
  PROVE  BankInv'
<1>1. /\ TablesOK /\ ControlOK /\ HoldsOK /\ fundresv \in Seq(HoldRow) /\ ilog \in Seq(LogRow)
      /\ Len(fundresv) \in Nat /\ paid \in Seq(PaidRow) /\ trf \in Seq(TransferRow) /\ Len(paid) \in Nat /\ Len(trf) \in Nat
      /\ rcpt' \in Seq(RecipientRow)
  BY Lengths DEF BankInv, TablesOK
<1>2. Grown({r}) /\ TablesOK'
  <2>1. /\ paid' \in Seq(PaidRow) /\ Len(paid) =< Len(paid') /\ \A k \in 1 .. Len(paid) : paid'[k].r = paid[k].r
        /\ trf' \in Seq(TransferRow) /\ Len(trf) =< Len(trf') /\ \A k \in 1 .. Len(trf) : trf'[k] = trf[k]
        /\ fundresv' \in Seq(HoldRow) /\ Len(fundresv) =< Len(fundresv') /\ ilog' \in Seq(LogRow)
    BY <1>1
  <2> QED BY <1>1, <2>1, StepTables
<1>3. \A c : HeldDelta(c) = 0 /\ GapDelta(c) = 0
  BY <1>1, <1>2, RowsStill
<1>4. HoldsOK'
  BY <1>1, HoldsStep
<1>5. \A c \in Currency : /\ ghost'.side[c] \in Int /\ ghost.side[c] \in Int
                          /\ OnAccounts(acc', c) \in Int /\ OnAccounts(acc, c) \in Int
  BY <1>1, OnAccountsInt, AccountsAreRows DEF TablesOK, GhostOK, GhostGrown
<1>6. ASSUME NoneOf({"release", "fees", "reverse"})', NEW c \in Currency
      PROVE  Delta(c) + HeldDelta(c) = ghost'.side[c] - ghost.side[c] + GapDelta(c) + PaidDelta(r, c)
  <2>1. Delta(c) \in Int /\ Delta(c) = ghost'.side[c] - ghost.side[c] + PaidDelta(r, c)
    BY <1>5, <1>6 DEF Delta
  <2>2. Delta(c) + 0 = Delta(c) /\ ghost'.side[c] - ghost.side[c] + 0 = ghost'.side[c] - ghost.side[c]
    BY <1>5, <2>1
  <2> QED BY <1>3, <2>1, <2>2
<1> QED BY <1>1, <1>4, <1>6, PlainStep

\* Such a step that moves no money at all.
LEMMA StillStep ==
  ASSUME BankInv, NEW r \in Req, NEW s, Goto(r, s), at[r] # Done, What[r].kind \notin {"payment", "transfer"},
         UNCHANGED <<benv, sess, paid, trf, rcpt, fundresv, ilog, acc, ghost>>,
         bfaults' \in Nat, Stands(r)', s.pc \notin {"start", "check"}, s.pc = "expire" => ghost.applied[r] = 0,
         s.pc = "record" => ghost.applied[r] = 1
  PROVE  BankInv'
<1>1. TablesOK /\ GhostOK
  BY DEF BankInv, TablesOK
<1>2. AccountsOf(acc') /\ Kept(acc, acc') /\ GhostGrown(r)
  BY <1>1, KeptSelf, GhostStays
<1>3. \A c \in Currency : ghost.side[c] \in Int /\ OnAccounts(acc, c) \in Int
  BY <1>1, OnAccountsInt, AccountsAreRows DEF TablesOK, GhostOK
<1>4. \A c : PaidDelta(r, c) = 0
  BY <1>1, <1>2, PaidDeltaZero
<1>5. \A c \in Currency : Delta(c) = ghost'.side[c] - ghost.side[c] + PaidDelta(r, c)
  BY <1>3, <1>4 DEF Delta
<1> QED BY <1>2, <1>5, AccountsStepInv
--------------------------------------------------------------------------
(* Verification sessions. *)

\* A step on the sessions, by requests R that own no row and are not past
\* their check, that keeps what was confirmed.
LEMMA SessionStepInv ==
  ASSUME BankInv, TablesOK', NEW R, Grown(R), \A r \in R : at[r] # Done /\ at[r].pc \notin {"apply", "finish"},
         \A r \in R : Stands(r)' /\ CountKept(r)' /\ ~PastCheck(r)',
         UNCHANGED <<acc, paid, trf, fundresv, ilog, rcpt>>,
         ghost'.side = ghost.side, ghost'.applied = ghost.applied,
         SessionsApart(sess'), \A i : Confirmed(i) => Confirmed(i)',
         \A i \in 1 .. Len(sess') : sess'[i].st \in {"PENDING", "VERIFIED"} => sess'[i].tries < MaxAttempts
  PROVE  BankInv'
<1>1. /\ TablesOK /\ HoldsOK /\ MoneyOK /\ TransfersOK /\ SessionsOK /\ ControlOK /\ CountsOK /\ PaidOK
      /\ What' = What /\ Req' = Req /\ DOMAIN at' = Req
  BY DEF BankInv, Grown, What, Req
<1>2. ControlOK'
  <2>1. \A q \in Req : q \notin R => Stands(q)'
    BY <1>1, StandStays DEF ControlOK
  <2>2. \A q \in Req : Stands(q)'
    BY <2>1
  <2> QED BY <1>1, <2>2 DEF ControlOK
<1>3. CountsOK'
  <2>1. \A q \in Req : q \notin R => CountKept(q)'
    BY <1>1, CountStays DEF CountsOK
  <2>2. \A q \in Req : CountKept(q)'
    BY <2>1
  <2> QED BY <1>1, <2>2 DEF CountsOK
<1>4. PaidOK'
  <2>1. ASSUME NEW k \in 1 .. Len(paid) PROVE RowKept(k)'
    <3>1. paid[k] \in PaidRow /\ \A row \in PaidRow : row.r \in Req
      BY <1>1, SequenceRange DEF TablesOK, PaidRow
    <3>2. RowKept(k)
      BY <1>1 DEF PaidOK
    <3>3. paid[k].r \notin R
      BY <3>2 DEF RowKept
    <3> QED BY <3>1, <3>2, <3>3, RowStays
  <2> QED BY <2>1 DEF PaidOK
<1>5. TransfersOK' /\ MoneyOK'
  BY <1>1, TransfersStep, MoneyStill
<1>6. HoldsOK' /\ RecipientsApart'
  BY DEF BankInv, HoldsOK, RecipientsApart
<1>7. SessionsOK'
  <2>1. \A q \in Req : PastCheck(q)' => PastCheck(q)
    BY <1>1 DEF PastCheck, Applied, Grown
  <2>2. ASSUME NEW q \in Req, PastCheck(q)' PROVE Confirmed(What[q].session)'
    <3>1. Confirmed(What[q].session)
      BY <1>1, <2>1, <2>2 DEF SessionsOK
    <3>2. \A i : Confirmed(i) => i \in 1 .. Len(sess') /\ sess'[i].tries < MaxAttempts
                   /\ (sess'[i].st = "VERIFIED" \/ (sess'[i].st = "EXPIRED" /\ ~NoneOf({"expired"})'))
      BY DEF Confirmed
    <3> QED BY <1>1, <3>1, <3>2 DEF Confirmed
  <2>3. \A q \in Req : PastCheck(q)' => Confirmed(What[q].session)'
    BY <2>2
  <2>4. SessionsApart(sess)'
    BY DEF SessionsApart
  <2> QED BY <1>1, <2>3, <2>4 DEF SessionsOK
<1> QED BY <1>2, <1>3, <1>4, <1>5, <1>6, <1>7 DEF BankInv

LEMMA SessionChanged ==
  ASSUME NEW row \in SessionRow, NEW st \in {"PENDING", "VERIFIED", "CANCELLED", "EXPIRED"}
  PROVE  /\ [row EXCEPT !.st = st] \in SessionRow /\ [row EXCEPT !.st = st].st = st
         /\ [row EXCEPT !.st = st].op = row.op /\ [row EXCEPT !.st = st].entity = row.entity
         /\ [row EXCEPT !.st = st].tries = row.tries
  BY DEF SessionRow

\* The tables when only sessions and history change.
LEMMA SessionTables ==
  ASSUME BankInv, NEW R, DOMAIN at' = Req, \A q \in Req : q \notin R => at'[q] = at[q],
         UNCHANGED <<benv, acc, paid, trf, fundresv, ilog, rcpt, bfaults>>,
         sess' \in Seq(SessionRow), Len(sess) =< Len(sess'),
         DOMAIN ghost' = {"side", "applied", "odd"}, ghost'.side = ghost.side, ghost'.applied = ghost.applied,
         ghost.odd \subseteq ghost'.odd
  PROVE  TablesOK' /\ Grown(R)
<1>1. /\ TablesOK /\ AccountsOf(acc) /\ Kept(acc, acc)
      /\ Len(paid) \in Nat /\ Len(trf) \in Nat /\ Len(fundresv) \in Nat
  BY KeptSelf, Lengths DEF BankInv
<1>2. Req' = Req
  BY DEF Req, What
<1>3. PaidRow' = PaidRow /\ TransferRow' = TransferRow /\ GhostOK'
  BY <1>1, <1>2 DEF PaidRow, TransferRow, GhostOK, TablesOK
<1>4. TablesOK'
  BY <1>1, <1>3 DEF TablesOK
<1>5. Grown(R)
  BY <1>1 DEF Grown
<1> QED BY <1>4, <1>5

LEMMA DoneIs ==
  ASSUME BankInv, NEW r \in Req, Fini(r), benv' = benv, ghost'.applied = ghost.applied,
         Applied(r) = 0 \/ What[r].kind \notin {"payment", "transfer"}
  PROVE  /\ DOMAIN at' = Req /\ (\A q \in Req : q \notin {r} => at'[q] = at[q]) /\ at'[r] = Done
         /\ Stands(r)' /\ CountKept(r)' /\ ~PastCheck(r)'
<1>1. DOMAIN at' = Req /\ at'[r] = Done /\ What' = What /\ \A q \in Req : q # r => at'[q] = at[q]
  BY GotoIs DEF Fini, BankInv, What
<1>2. ghost.applied[r] \in Int
  BY DEF BankInv, TablesOK, GhostOK
<1>3. Stands(r)' /\ ~PastCheck(r)'
  BY <1>1, <1>2 DEF Stands, PastCheck, Done, Applied
<1>4. CountKept(r)'
  BY <1>1, <1>2 DEF CountKept, Done, Applied
<1> QED BY <1>1, <1>3, <1>4

\* What a session change must keep.
LEMMA SessionsKept ==
  ASSUME BankInv, NEW S \in Seq(SessionRow), NEW new \in SessionRow,
         Len(S) = Len(sess),
         \A i \in 1 .. Len(S) : S[i] = sess[i] \/ (S[i].st = "CANCELLED" /\ sess[i].st = "PENDING"),
         \A i \in 1 .. Len(S) : ~(S[i].op = new.op /\ S[i].entity = new.entity /\ S[i].st = "PENDING"),
         new.tries = 0, sess' = Append(S, new)
  PROVE  /\ sess' \in Seq(SessionRow) /\ Len(sess) =< Len(sess') /\ SessionsApart(sess')
         /\ \A i \in 1 .. Len(sess') : sess'[i].st \in {"PENDING", "VERIFIED"} => sess'[i].tries < MaxAttempts
         /\ \A i \in 1 .. Len(sess) : sess[i].st # "PENDING" => sess'[i] = sess[i]
<1>1. /\ Len(S) \in Nat /\ sess' \in Seq(SessionRow) /\ Len(sess') = Len(S) + 1 /\ sess'[Len(S) + 1] = new
      /\ \A i \in 1 .. Len(S) : sess'[i] = S[i]
  OBVIOUS
<1>2. \A i \in 1 .. Len(sess') : i \in 1 .. Len(S) \/ i = Len(S) + 1
  BY <1>1
<1>3. SessionsOK /\ MaxAttempts \in Nat \ {0}
  BY RequestsAssumption DEF BankInv
<1>4. \A i \in 1 .. Len(sess') : sess'[i].st \in {"PENDING", "VERIFIED"} => sess'[i].tries < MaxAttempts
  BY <1>1, <1>2, <1>3 DEF SessionsOK
<1>5. \A i, j \in 1 .. Len(S) :
        i # j /\ S[i].st = "PENDING" /\ S[j].st = "PENDING" => S[i].op # S[j].op \/ S[i].entity # S[j].entity
  BY <1>3 DEF SessionsOK, SessionsApart
<1>6. SessionsApart(sess')
  BY <1>1, <1>2, <1>5 DEF SessionsApart
<1>7. \A i \in 1 .. Len(sess) : sess[i].st # "PENDING" => sess'[i] = sess[i]
  BY <1>1
<1> QED BY <1>1, <1>4, <1>6, <1>7

\* One session takes another state: a pending one, or a verified one that
\* Status lets expire.
LEMMA SessionMoved ==
  ASSUME BankInv, NEW i \in 1 .. Len(sess), NEW row \in SessionRow, sess' = [sess EXCEPT ![i] = row],
         row.op = sess[i].op, row.entity = sess[i].entity, row.st = "PENDING" => sess[i].st = "PENDING",
         row.st \in {"PENDING", "VERIFIED"} => row.tries < MaxAttempts
  PROVE  /\ sess' \in Seq(SessionRow) /\ Len(sess) =< Len(sess') /\ SessionsApart(sess')
         /\ \A j \in 1 .. Len(sess') : sess'[j].st \in {"PENDING", "VERIFIED"} => sess'[j].tries < MaxAttempts
         /\ Len(sess') = Len(sess) /\ sess'[i] = row /\ \A j \in 1 .. Len(sess) : j # i => sess'[j] = sess[j]
<1>1. sess \in Seq(SessionRow) /\ SessionsOK
  BY DEF BankInv, TablesOK
<1>2. /\ sess' \in Seq(SessionRow) /\ Len(sess') = Len(sess) /\ Len(sess) \in Nat /\ sess'[i] = row
      /\ \A j \in 1 .. Len(sess) : j # i => sess'[j] = sess[j]
  BY <1>1
<1>3. SessionsApart(sess')
  BY <1>1, <1>2 DEF SessionsOK, SessionsApart
<1>4. \A j \in 1 .. Len(sess') : sess'[j].st \in {"PENDING", "VERIFIED"} => sess'[j].tries < MaxAttempts
  BY <1>1, <1>2 DEF SessionsOK
<1> QED BY <1>2, <1>3, <1>4

LEMMA GenerateInv ==
  ASSUME BankInv, NEW r \in Req, Generate(r)
  PROVE  BankInv'
<1> DEFINE w == What[r]
           S == [i \in 1 .. Len(sess) |->
                  IF /\ sess[i].client = w.client /\ sess[i].op = w.op
                     /\ sess[i].entity = w.entity /\ sess[i].st = "PENDING"
                  THEN [sess[i] EXCEPT !.st = "CANCELLED"] ELSE sess[i]]
           new == Session(w.client, w.op, w.entity)
           clash == \E i \in 1 .. Len(S) : S[i].op = w.op /\ S[i].entity = w.entity /\ S[i].st = "PENDING"
<1>1. /\ w.kind = "generate" /\ at[r].pc = "start" /\ Fini(r) /\ sess' = IF clash THEN sess ELSE Append(S, new)
      /\ UNCHANGED <<benv, acc, paid, trf, fundresv, ilog, rcpt, ghost, bfaults>>
  BY DEF Generate, Is
<1>2. TablesOK /\ sess \in Seq(SessionRow) /\ Len(sess) \in Nat /\ SessionsOK /\ GhostOK /\ RequestOK(w)
  BY Lengths, RequestFits DEF BankInv, TablesOK
<1>3. new \in SessionRow /\ new.tries = 0 /\ new.op = w.op /\ new.entity = w.entity
  BY <1>1, <1>2, RequestsAssumption DEF RequestOK, Session, SessionRow
<1>4. \A i \in 1 .. Len(sess) : sess[i] \in SessionRow
  BY <1>2
<1>5. /\ S \in Seq(SessionRow) /\ Len(S) = Len(sess)
      /\ \A i \in 1 .. Len(S) : S[i] = sess[i] \/ (S[i].st = "CANCELLED" /\ sess[i].st = "PENDING")
  <2>1. \A i \in 1 .. Len(sess) :
          S[i] \in SessionRow /\ (S[i] = sess[i] \/ (S[i].st = "CANCELLED" /\ sess[i].st = "PENDING"))
    BY <1>4, SessionChanged
  <2>2. S \in [1 .. Len(sess) -> SessionRow]
    BY <2>1
  <2>3. S \in Seq(SessionRow) /\ Len(S) = Len(sess)
    BY <1>2, <2>2
  <2> QED BY <2>1, <2>3
<1> HIDE DEF S, new
<1>6. /\ sess' \in Seq(SessionRow) /\ Len(sess) =< Len(sess') /\ SessionsApart(sess')
      /\ \A i \in 1 .. Len(sess') : sess'[i].st \in {"PENDING", "VERIFIED"} => sess'[i].tries < MaxAttempts
      /\ \A i \in 1 .. Len(sess) : sess[i].st # "PENDING" => sess'[i] = sess[i]
  <2>1. CASE clash
    BY <1>1, <1>2, <2>1 DEF SessionsOK
  <2>2. CASE ~clash
    BY <1>1, <1>3, <1>5, <2>2, SessionsKept
  <2> QED BY <2>1, <2>2
<1>7. \A i : Confirmed(i) => Confirmed(i)'
  <2>1. Len(sess') \in Nat
    BY <1>6
  <2> QED BY <1>1, <1>2, <1>6, <2>1 DEF Confirmed, NoneOf
<1>8. /\ DOMAIN at' = Req /\ (\A q \in Req : q \notin {r} => at'[q] = at[q])
      /\ Stands(r)' /\ CountKept(r)' /\ ~PastCheck(r)'
  BY <1>1, DoneIs
<1>9. TablesOK' /\ Grown({r})
  BY <1>1, <1>2, <1>6, <1>8, SessionTables DEF GhostOK
<1>10. at[r] # Done
  BY <1>1 DEF Done
<1> QED BY <1>1, <1>6, <1>7, <1>8, <1>9, <1>10, SessionStepInv

LEMMA ValidateInv ==
  ASSUME BankInv, NEW r \in Req, ValidateCode(r)
  PROVE  BankInv'
<1>1. PICK i \in 1 .. Len(sess) :
        LET s == sess[i] IN
        /\ sess' = [sess EXCEPT ![i] =
             CASE s.st \in {"CANCELLED", "VERIFIED", "EXPIRED"} -> s
               [] s.st = "PENDING" /\ s.late -> [s EXCEPT !.st = "EXPIRED"]
               [] s.st = "PENDING" /\ ~s.late /\ matchesOTP(What[r]) -> [s EXCEPT !.st = "VERIFIED"]
               [] s.st = "PENDING" /\ ~s.late /\ ~matchesOTP(What[r]) ->
                    [s EXCEPT !.tries = @ + 1,
                              !.st = IF s.tries + 1 >= MaxAttempts THEN "CANCELLED" ELSE "PENDING"]]
        /\ What[r].kind = "validate" /\ at[r].pc = "start" /\ Fini(r)
        /\ UNCHANGED <<benv, acc, paid, trf, fundresv, ilog, rcpt, ghost, bfaults>>
  BY DEF ValidateCode, Is
<1>2. TablesOK /\ sess \in Seq(SessionRow) /\ Len(sess) \in Nat /\ SessionsOK /\ GhostOK /\ sess[i] \in SessionRow
  BY Lengths DEF BankInv, TablesOK
<1> DEFINE s == sess[i]
           b == IF s.tries + 1 >= MaxAttempts THEN "CANCELLED" ELSE "PENDING"
           row == CASE s.st \in {"CANCELLED", "VERIFIED", "EXPIRED"} -> s
               [] s.st = "PENDING" /\ s.late -> [s EXCEPT !.st = "EXPIRED"]
               [] s.st = "PENDING" /\ ~s.late /\ matchesOTP(What[r]) -> [s EXCEPT !.st = "VERIFIED"]
               [] s.st = "PENDING" /\ ~s.late /\ ~matchesOTP(What[r]) -> [s EXCEPT !.tries = @ + 1, !.st = b]
<1>3. sess' = [sess EXCEPT ![i] = row]
  BY <1>1
<1>4. s \in SessionRow /\ (s.st \in {"PENDING", "VERIFIED"} => s.tries < MaxAttempts)
  BY <1>2 DEF SessionsOK
<1> HIDE DEF s
<1>5. /\ row \in SessionRow /\ row.op = s.op /\ row.entity = s.entity /\ (row.st = "PENDING" => s.st = "PENDING")
      /\ (row.st \in {"PENDING", "VERIFIED"} => row.tries < MaxAttempts)
      /\ (s.st \in {"VERIFIED", "EXPIRED"} => row = s)
  <2>1. CASE s.st \in {"CANCELLED", "VERIFIED", "EXPIRED"}
    BY <1>4, <2>1
  <2>2. CASE s.st = "PENDING" /\ s.late
    <3>1. row = [s EXCEPT !.st = "EXPIRED"]
      BY <2>2
    <3> QED BY <1>4, <2>2, <3>1, SessionChanged
  <2>3. CASE s.st = "PENDING" /\ ~s.late /\ matchesOTP(What[r])
    <3>1. row = [s EXCEPT !.st = "VERIFIED"]
      BY <2>3
    <3> QED BY <1>4, <2>3, <3>1, SessionChanged
  <2>4. CASE s.st = "PENDING" /\ ~s.late /\ ~matchesOTP(What[r])
    <3>1. row = [s EXCEPT !.tries = s.tries + 1, !.st = b]
      BY <2>4
    <3>2. s.tries + 1 \in 0 .. MaxAttempts /\ b \in {"CANCELLED", "PENDING"} /\ (b = "PENDING" => s.tries + 1 < MaxAttempts)
      BY <1>4, <2>4, RequestsAssumption DEF SessionRow
    <3> HIDE DEF b, row
    <3>3. /\ row \in SessionRow /\ row.st = b /\ row.tries = s.tries + 1 /\ row.op = s.op /\ row.entity = s.entity
      BY <1>4, <3>1, <3>2 DEF SessionRow
    <3> QED BY <2>4, <3>2, <3>3
  <2>5. s.st \in {"PENDING", "VERIFIED", "CANCELLED", "EXPIRED"} /\ s.late \in BOOLEAN
    BY <1>4 DEF SessionRow
  <2> QED BY <2>1, <2>2, <2>3, <2>4, <2>5
<1> HIDE DEF row
<1>6. /\ sess' \in Seq(SessionRow) /\ Len(sess) =< Len(sess') /\ SessionsApart(sess')
      /\ \A j \in 1 .. Len(sess') : sess'[j].st \in {"PENDING", "VERIFIED"} => sess'[j].tries < MaxAttempts
      /\ Len(sess') = Len(sess) /\ sess'[i] = row /\ \A j \in 1 .. Len(sess) : j # i => sess'[j] = sess[j]
  BY <1>3, <1>5, SessionMoved DEF s
<1>7. \A j : Confirmed(j) => Confirmed(j)'
  BY <1>1, <1>5, <1>6 DEF Confirmed, NoneOf, s
<1>8. /\ DOMAIN at' = Req /\ (\A q \in Req : q \notin {r} => at'[q] = at[q])
      /\ Stands(r)' /\ CountKept(r)' /\ ~PastCheck(r)'
  BY <1>1, DoneIs
<1>9. TablesOK' /\ Grown({r})
  BY <1>1, <1>2, <1>6, <1>8, SessionTables DEF GhostOK
<1>10. at[r] # Done
  BY <1>1 DEF Done
<1> QED BY <1>1, <1>6, <1>7, <1>8, <1>9, <1>10, SessionStepInv

LEMMA LateInv ==
  ASSUME BankInv, NEW k \in 1 .. Cardinality(Req), SessionLate(k)
  PROVE  BankInv'
<1>1. /\ k <= Len(sess) /\ sess[k].st = "PENDING" /\ sess' = [sess EXCEPT ![k].late = TRUE]
      /\ UNCHANGED <<benv, acc, paid, trf, fundresv, ilog, rcpt, at, ghost, bfaults>>
  BY DEF SessionLate
<1>2. /\ TablesOK /\ sess \in Seq(SessionRow) /\ Len(sess) \in Nat /\ SessionsOK /\ GhostOK /\ DOMAIN at = Req
      /\ IsFiniteSet(Req)
  BY Lengths, RequestFits DEF BankInv, TablesOK, ControlOK
<1>3. k \in 1 .. Len(sess)
  <2>1. Cardinality(Req) \in Nat
    BY <1>2, FS_CardinalityType
  <2> QED BY <1>1, <1>2, <2>1
<1> DEFINE row == [sess[k] EXCEPT !.late = TRUE]
<1>4. sess[k] \in SessionRow /\ sess' = [sess EXCEPT ![k] = row]
  BY <1>1, <1>2, <1>3
<1>5. /\ row \in SessionRow /\ row.op = sess[k].op /\ row.entity = sess[k].entity /\ row.st = sess[k].st
      /\ row.tries = sess[k].tries
  BY <1>4 DEF SessionRow
<1> HIDE DEF row
<1>6. /\ sess' \in Seq(SessionRow) /\ Len(sess) =< Len(sess') /\ SessionsApart(sess')
      /\ \A j \in 1 .. Len(sess') : sess'[j].st \in {"PENDING", "VERIFIED"} => sess'[j].tries < MaxAttempts
      /\ Len(sess') = Len(sess) /\ sess'[k] = row /\ \A j \in 1 .. Len(sess) : j # k => sess'[j] = sess[j]
  <2>1. row.st \in {"PENDING", "VERIFIED"} => row.tries < MaxAttempts
    BY <1>2, <1>3, <1>5 DEF SessionsOK
  <2> QED BY <1>3, <1>4, <1>5, <2>1, SessionMoved
<1>7. \A j : Confirmed(j) => Confirmed(j)'
  BY <1>1, <1>6 DEF Confirmed, NoneOf
<1>8. DOMAIN at' = Req /\ \A q \in Req : q \notin {} => at'[q] = at[q]
  BY <1>1, <1>2
<1>9. TablesOK' /\ Grown({})
  BY <1>1, <1>2, <1>6, <1>8, SessionTables DEF GhostOK
<1> QED BY <1>1, <1>6, <1>7, <1>9, SessionStepInv

LEMMA FiniIs ==
  ASSUME BankInv, NEW r \in Req, Fini(r)
  PROVE  Goto(r, Done) /\ Stands(r)' /\ Done.pc = "done"
<1>1. at'[r] = Done /\ Goto(r, Done)
  BY GotoIs DEF Fini, BankInv
<1> QED BY <1>1 DEF Stands, Done

\* A request about to act is not done, and one at its start moved nothing.
LEMMA StartsAtZero ==
  ASSUME BankInv, NEW r \in Req,
         at[r].pc \in {"start", "check", "expire"} \/ (What[r].kind = "payment" /\ at[r].pc \in {"info", "create"})
  PROVE  ghost.applied[r] = 0
  BY DEF BankInv, CountsOK, CountKept, Applied

LEMMA StatusInv ==
  ASSUME BankInv, NEW r \in Req, Status(r)
  PROVE  BankInv'
<1>1. /\ What[r].kind = "status" /\ at[r].pc = "start" /\ at[r] # Done /\ bfaults' = bfaults
      /\ UNCHANGED <<benv, sess, paid, trf, rcpt, fundresv, ilog, acc, ghost>>
      /\ What[r].session \in 1 .. Len(sess) /\ (Fini(r) \/ Goto(r, [pc |-> "expire"]))
  BY DEF Status, Is, findSession, Done
<1>2. bfaults' \in Nat /\ ghost.applied[r] = 0 /\ ControlOK
  BY <1>1, StartsAtZero DEF BankInv, TablesOK
<1>3. CASE Fini(r)
  BY <1>1, <1>2, <1>3, FiniIs, StillStep
<1>4. CASE Goto(r, [pc |-> "expire"])
  <2>1. at'[r] = [pc |-> "expire"] /\ What' = What
    BY <1>1, <1>2, <1>4, GotoIs DEF What
  <2>2. Stands(r)'
    BY <1>1, <2>1 DEF Stands, Between
  <2> QED BY <1>1, <1>2, <1>4, <2>2, StillStep
<1> QED BY <1>1, <1>3, <1>4

LEMMA ExpireInv ==
  ASSUME BankInv, NEW r \in Req, Expire(r)
  PROVE  BankInv'
<1> DEFINE i == What[r].session
<1>1. /\ at[r].pc = "expire" /\ Fini(r) /\ sess' = [sess EXCEPT ![i].st = "EXPIRED"]
      /\ OddIf(sess[i].st # "PENDING", "expired")
      /\ UNCHANGED <<benv, acc, paid, trf, fundresv, ilog, rcpt, bfaults>>
  BY DEF Expire
<1>2. TablesOK /\ sess \in Seq(SessionRow) /\ Len(sess) \in Nat /\ SessionsOK /\ GhostOK /\ Stands(r)
  BY Lengths DEF BankInv, TablesOK, ControlOK
<1>3. i \in 1 .. Len(sess)
  BY <1>1, <1>2 DEF Stands, Between, Paying, Transferring, Done
<1>4. Applied(r) = 0
  BY <1>1, StartsAtZero DEF Applied
<1> DEFINE row == [sess[i] EXCEPT !.st = "EXPIRED"]
<1>5. sess[i] \in SessionRow /\ sess' = [sess EXCEPT ![i] = row]
  BY <1>1, <1>2, <1>3
<1>6. /\ row \in SessionRow /\ row.op = sess[i].op /\ row.entity = sess[i].entity /\ row.st = "EXPIRED"
      /\ row.tries = sess[i].tries
  BY <1>5, SessionChanged
<1> HIDE DEF row
<1>7. /\ sess' \in Seq(SessionRow) /\ Len(sess) =< Len(sess') /\ SessionsApart(sess')
      /\ \A j \in 1 .. Len(sess') : sess'[j].st \in {"PENDING", "VERIFIED"} => sess'[j].tries < MaxAttempts
      /\ Len(sess') = Len(sess) /\ sess'[i] = row /\ \A j \in 1 .. Len(sess) : j # i => sess'[j] = sess[j]
  BY <1>3, <1>5, <1>6, SessionMoved
<1>8. /\ DOMAIN ghost' = {"side", "applied", "odd"} /\ ghost'.side = ghost.side
      /\ ghost'.applied = ghost.applied
      /\ ghost'.odd = IF sess[i].st # "PENDING" THEN ghost.odd \cup {"expired"} ELSE ghost.odd
  <2>1. (sess[i].st # "PENDING") \in BOOLEAN
    OBVIOUS
  <2> QED BY <1>1, <1>2, <2>1, OddIfIs
<1>9. \A j : Confirmed(j) => Confirmed(j)'
  <2>1. ghost.odd \subseteq ghost'.odd /\ (sess[i].st = "VERIFIED" => "expired" \in ghost'.odd)
    BY <1>8
  <2> QED BY <1>3, <1>6, <1>7, <2>1 DEF Confirmed, NoneOf
<1>10. /\ DOMAIN at' = Req /\ (\A q \in Req : q \notin {r} => at'[q] = at[q])
       /\ Stands(r)' /\ CountKept(r)' /\ ~PastCheck(r)'
  BY <1>1, <1>4, <1>8, DoneIs
<1>11. ghost.odd \subseteq ghost'.odd
  BY <1>8
<1>12. TablesOK' /\ Grown({r})
  BY <1>1, <1>7, <1>8, <1>10, <1>11, SessionTables
<1>13. at[r] # Done
  BY <1>1 DEF Done
<1> QED BY <1>1, <1>7, <1>8, <1>9, <1>10, <1>12, <1>13, SessionStepInv
--------------------------------------------------------------------------
(* Holds and internal transfers. *)

LEMMA CommitInv ==
  ASSUME BankInv, NEW r \in Req, CommitFunds(r), UNCHANGED <<benv, sess, paid, trf, ilog, rcpt, bfaults>>
  PROVE  BankInv'
<1> DEFINE k == What[r].k
<1>1. /\ What[r].kind = "commit" /\ at[r].pc = "start" /\ at[r] # Done /\ Fini(r) /\ UNCHANGED <<acc, ghost>>
      /\ fundresv' = IF \E row \in loadFundReservation(k) : row.st = "HELD"
                     THEN [fundresv EXCEPT ![k].st = "COMMITTED"] ELSE fundresv
  BY DEF CommitFunds, Is, Done
<1>2. TablesOK /\ HoldsOK /\ fundresv \in Seq(HoldRow) /\ ilog \in Seq(LogRow) /\ bfaults' \in Nat /\ GhostOK
  BY DEF BankInv, TablesOK
<1>3. Goto(r, Done) /\ Stands(r)' /\ Done.pc = "done"
  BY <1>1, FiniIs
<1>4. CASE fundresv' = fundresv
  BY <1>1, <1>2, <1>3, <1>4, StillStep
<1>5. CASE fundresv' # fundresv
  <2>1. /\ k \in 1 .. Len(fundresv) /\ fundresv[k].st = "HELD" /\ fundresv' = [fundresv EXCEPT ![k].st = "COMMITTED"]
    BY <1>1, <1>5 DEF loadFundReservation
  <2>2. /\ fundresv' \in Seq(HoldRow) /\ Len(fundresv') = Len(fundresv)
        /\ (\A m \in 1 .. Len(fundresv) : fundresv'[m].a = fundresv[m].a)
        /\ (\A m \in 1 .. Len(fundresv) : m # k => fundresv'[m] = fundresv[m])
        /\ fundresv'[k].st = "COMMITTED" /\ fundresv'[k].amt = fundresv[k].amt
    BY <1>2, <2>1, HoldMarked
  <2>11. \A c : Total(Holds(acc, fundresv', c))
                  = Total(Holds(acc, fundresv, c)) - Hold(acc, fundresv[k], c) + Hold(acc, fundresv'[k], c)
    <3>1. fundresv \in Seq(HoldRow) /\ k \in 1 .. Len(fundresv)
      BY <1>2, <2>1
    <3> HIDE DEF k
    <3> QED BY <2>2, <3>1, HoldSwapped
  <2>3. \A c : Hold(acc, fundresv'[k], c) = Hold(acc, fundresv[k], c)
    <3>1. fundresv'[k].st # "RELEASED" /\ fundresv[k].st # "RELEASED" /\ fundresv'[k].a = fundresv[k].a
      BY <2>1, <2>2
    <3> QED BY <2>2, <3>1 DEF Hold
  <2>4. \A c : Total(Holds(acc, fundresv, c)) \in Int /\ Hold(acc, fundresv[k], c) \in Int /\ Total(Gaps(acc, ilog, c)) \in Int
    BY <1>2, <2>1, HoldsInt, GapsInt
  <2>5. AccountsOf(acc') /\ Kept(acc, acc') /\ GhostGrown(r)
    BY <1>1, <1>2, KeptSelf, GhostStays
  <2>6. \A c \in Currency : ghost.side[c] \in Int /\ OnAccounts(acc, c) \in Int
    BY <1>2, OnAccountsInt, AccountsAreRows DEF TablesOK, GhostOK
  <2>7. \A c : PaidDelta(r, c) = 0
    BY <1>1, <1>2, <2>5, PaidDeltaZero
  <2>8. \A c \in Currency : HeldDelta(c) = 0 /\ Delta(c) = 0 /\ GapDelta(c) = 0
    <3>1. acc' = acc /\ ilog' = ilog
      BY <1>1
    <3>2. \A c : Total(Holds(acc, fundresv', c)) = Total(Holds(acc, fundresv, c))
      BY <2>11, <2>3, <2>4
    <3> QED BY <2>4, <2>6, <3>1, <3>2 DEF HeldDelta, Delta, GapDelta
  <2>9. \A c \in Currency : Delta(c) + HeldDelta(c) = ghost'.side[c] - ghost.side[c] + GapDelta(c) + PaidDelta(r, c)
    BY <1>1, <2>6, <2>7, <2>8
  <2>10. HoldsOK' /\ Len(fundresv) =< Len(fundresv') /\ fundresv' \in Seq(HoldRow)
    <3>1. Len(fundresv) \in Nat /\ acc' = acc
      BY <1>1, <1>2
    <3> QED BY <1>2, <2>2, <3>1 DEF HoldsOK
  <2> QED BY <1>1, <1>2, <1>3, <2>5, <2>9, <2>10, PlainStep
<1> QED BY <1>4, <1>5

LEMMA OneFound ==
  ASSUME NEW A, NEW o, NEW c, NEW i \in getByOwnerAndCurrency(A, o, c), NEW j \in getByOwnerAndCurrency(A, o, c)
  PROVE  i = j
<1> DEFINE S == {m \in 1 .. Len(A) : A[m].owner = o /\ A[m].cur = c /\ ~A[m].del}
<1>1. getByOwnerAndCurrency(A, o, c) = Lowest(S)
  BY DEF getByOwnerAndCurrency
<1> HIDE DEF S
<1> QED BY <1>1 DEF Lowest

\* The whole numbers of a state, for the sums below.
LEMMA Numbers ==
  ASSUME TablesOK, AccountsOf(acc'), NEW c \in Currency
  PROVE  /\ OnAccounts(acc, c) \in Int /\ OnAccounts(acc', c) \in Int /\ ghost.side[c] \in Int
         /\ Total(Holds(acc, fundresv, c)) \in Int /\ Total(Gaps(acc, ilog, c)) \in Int
<1>1. acc \in Seq(AccountRow) /\ acc' \in Seq(AccountRow)
  BY AccountsAreRows DEF TablesOK
<1> QED BY <1>1, OnAccountsInt, HoldsInt, GapsInt DEF TablesOK, GhostOK

LEMMA ReserveInv ==
  ASSUME BankInv, NEW r \in Req, ReserveFunds(r), UNCHANGED <<benv, sess, paid, trf, ilog, rcpt, bfaults>>
  PROVE  BankInv'
<1> DEFINE w == What[r]
           from == FindDefaultRSDByOwner(w.client)
           B == UNION {DebitTx(acc, i, w.amt, w.client) : i \in from}
<1>1. /\ w.kind = "reserve" /\ at[r].pc = "start" /\ at[r] # Done /\ Fini(r) /\ ghost' = ghost
      /\ IF B = {} THEN UNCHANGED <<acc, fundresv>>
         ELSE \E i \in from :
            acc' \in B /\ fundresv' = Append(fundresv, [a |-> i, owner |-> w.client, amt |-> w.amt, st |-> "HELD"])
  <2>1. What[r].kind = "reserve" /\ at[r].pc = "start" /\ Fini(r) /\ ghost' = ghost
    BY DEF ReserveFunds, Is
  <2>2. IF B = {} THEN UNCHANGED <<acc, fundresv>>
        ELSE \E i \in from :
            acc' \in B /\ fundresv' = Append(fundresv, [a |-> i, owner |-> w.client, amt |-> w.amt, st |-> "HELD"])
    BY Zenon DEF ReserveFunds
  <2>3. at[r] # Done
    BY <2>1 DEF Done
  <2> QED BY <2>1, <2>2, <2>3, Zenon
<1>2. /\ TablesOK /\ HoldsOK /\ fundresv \in Seq(HoldRow) /\ ilog \in Seq(LogRow) /\ bfaults' \in Nat /\ GhostOK
      /\ Known \subseteq 1 .. Len(acc) /\ RequestOK(w) /\ AccountsOf(acc) /\ Len(fundresv) \in Nat /\ Len(acc) \in Nat
  BY RequestFits, Lengths DEF BankInv, TablesOK
<1>3. Goto(r, Done) /\ Stands(r)' /\ Done.pc = "done"
  BY <1>1, FiniIs
<1>4. CASE B = {}
  BY <1>1, <1>2, <1>3, <1>4, StillStep
<1>5. CASE B # {}
  <2>1. PICK i \in from :
          acc' \in B /\ fundresv' = Append(fundresv, [a |-> i, owner |-> w.client, amt |-> w.amt, st |-> "HELD"])
    BY <1>1, <1>5
  <2>2. acc' \in DebitTx(acc, i, w.amt, w.client)
    <3>1. PICK j \in from : acc' \in DebitTx(acc, j, w.amt, w.client)
      BY <2>1
    <3>2. i = j
      BY OneFound DEF FindDefaultRSDByOwner
    <3> QED BY <3>1, <3>2
  <2>3. i \in 1 .. Len(acc) /\ i \in Nat
    BY <1>2, FoundAccount DEF FindDefaultRSDByOwner
  <2>4. w.amt \in Int /\ w.client \in Int
    BY <1>1, <1>2 DEF RequestOK
  <2> DEFINE row == [a |-> i, owner |-> w.client, amt |-> w.amt, st |-> "HELD"]
  <2>5. row \in HoldRow /\ row.a = i /\ row.amt = w.amt /\ row.st # "RELEASED" /\ fundresv' = Append(fundresv, row)
    BY <2>1, <2>3, <2>4 DEF HoldRow
  <2> HIDE DEF row, from, B, w
  <2>6. Shifted(acc, acc') /\ \A c \in Currency : OnAccounts(acc', c) = OnAccounts(acc, c) - Gain(acc, i, w.amt, c)
    BY <1>2, <2>2, <2>3, <2>4, DebitEffect
  <2>7. AccountsOf(acc') /\ Kept(acc, acc') /\ Len(acc') = Len(acc) /\ GhostGrown(r)
    BY <1>1, <1>2, <2>6, GhostStays DEF Shifted
  <2>8. /\ fundresv' \in Seq(HoldRow) /\ Len(fundresv) =< Len(fundresv') /\ Len(fundresv') = Len(fundresv) + 1
        /\ fundresv'[Len(fundresv) + 1] = row /\ \A k \in 1 .. Len(fundresv) : fundresv'[k] = fundresv[k]
    BY <1>2, <2>5
  <2>9. HoldsOK'
    BY <1>2, <2>3, <2>5, <2>7, <2>8 DEF HoldsOK
  <2>10. \A c : Total(Holds(acc', fundresv', c)) = Total(Holds(acc, fundresv, c)) + Gain(acc, i, w.amt, c)
    <3>1. \A c : Total(Holds(acc', fundresv', c)) = Total(Holds(acc', fundresv, c)) + Hold(acc', row, c)
      BY <1>2, <2>5, HoldAdded
    <3>2. \A c : Total(Holds(acc', fundresv, c)) = Total(Holds(acc, fundresv, c))
      BY <1>2, <2>7, HoldsKept DEF HoldsOK
    <3>3. \A c : Hold(acc', row, c) = Gain(acc, i, w.amt, c)
      BY <2>3, <2>5, <2>7 DEF Hold, Gain, Kept
    <3> QED BY <3>1, <3>2, <3>3
  <2>11. \A c : Total(Gaps(acc', ilog, c)) = Total(Gaps(acc, ilog, c))
    BY <1>2, <2>7, GapsSame
  <2>12. \A c : PaidDelta(r, c) = 0
    BY <1>1, <1>2, <2>7, PaidDeltaZero
  <2>13. \A c \in Currency : Delta(c) + HeldDelta(c) = ghost'.side[c] - ghost.side[c] + GapDelta(c) + PaidDelta(r, c)
    <3> TAKE c \in Currency
    <3>1. Gain(acc, i, w.amt, c) \in Int
      BY <2>4, GainInt
    <3>2. ghost' = ghost /\ ilog' = ilog
      BY <1>1
    <3>3. GapDelta(c) = 0 /\ ghost'.side[c] - ghost.side[c] = 0
      BY <1>2, <2>7, <2>11, <3>2, Numbers DEF GapDelta
    <3>4. Delta(c) + HeldDelta(c) = 0
      BY <1>2, <2>6, <2>7, <2>10, <3>1, Numbers DEF Delta, HeldDelta
    <3> QED BY <2>12, <3>3, <3>4
  <2> QED BY <1>1, <1>2, <1>3, <2>7, <2>8, <2>9, <2>13, PlainStep DEF w
<1> QED BY <1>4, <1>5

LEMMA ReleaseInv ==
  ASSUME BankInv, NEW r \in Req, ReleaseFunds(r), UNCHANGED <<benv, sess, paid, trf, ilog, rcpt, bfaults>>
  PROVE  BankInv'
<1> DEFINE k == What[r].k
           row == fundresv[k]
           B == CreditTx(acc, row.a, row.amt, row.owner)
<1>1. What[r].kind = "release" /\ at[r] # Done
  BY DEF ReleaseFunds, Is, Done
<1>2. /\ TablesOK /\ HoldsOK /\ fundresv \in Seq(HoldRow) /\ ilog \in Seq(LogRow) /\ bfaults' \in Nat /\ GhostOK
      /\ Known \subseteq 1 .. Len(acc) /\ AccountsOf(acc) /\ Len(fundresv) \in Nat /\ Len(acc) \in Nat /\ ControlOK
  BY RequestFits, Lengths DEF BankInv, TablesOK
<1>3. CASE UNCHANGED <<acc, fundresv, ghost>> /\ Fini(r)
  <2>1. Goto(r, Done) /\ Stands(r)' /\ Done.pc = "done"
    BY <1>3, FiniIs
  <2> QED BY <1>1, <1>2, <1>3, <2>1, StillStep
<1>4. CASE /\ at[r].pc = "start" /\ UNCHANGED <<acc, fundresv, ghost>>
           /\ k \in 1 .. Len(fundresv) /\ Goto(r, [pc |-> "credit"])
  <2>1. at'[r] = [pc |-> "credit"] /\ What' = What
    BY <1>2, <1>4, GotoIs DEF What
  <2>2. Stands(r)'
    BY <1>1, <1>4, <2>1 DEF Stands, Between
  <2> QED BY <1>1, <1>2, <1>4, <2>2, StillStep
<1>5. CASE /\ at[r].pc = "credit" /\ Fini(r) /\ acc' \in B /\ OddIf(row.st # "HELD", "release")
           /\ fundresv' = IF row.st = "HELD" THEN [fundresv EXCEPT ![k].st = "RELEASED"] ELSE fundresv
  <2>1. k \in 1 .. Len(fundresv)
    BY <1>1, <1>2, <1>5 DEF ControlOK, Stands, Between, Paying, Transferring, Done
  <2>2. row.a \in 1 .. Len(acc) /\ row.amt \in Int
    <3>1. row \in HoldRow /\ \A x \in HoldRow : x.amt \in Int
      BY <1>2, <2>1, SequenceRange DEF HoldRow
    <3> QED BY <1>2, <2>1, <3>1 DEF HoldsOK
  <2>3. Shifted(acc, acc') /\ \A c \in Currency : OnAccounts(acc', c) = OnAccounts(acc, c) + Gain(acc, row.a, row.amt, c)
    BY <1>2, <1>5, <2>2, CreditEffect
  <2>4. (row.st # "HELD") \in BOOLEAN /\ OddIf(row.st # "HELD", "release")
    BY <1>5
  <2>5. /\ GhostGrown(r) /\ ghost'.side = ghost.side /\ ghost'.applied = ghost.applied
        /\ (row.st # "HELD" => "release" \in ghost'.odd)
    BY <1>2, <2>4, GhostOddIf, OddIfIs
  <2>6. AccountsOf(acc') /\ Kept(acc, acc') /\ Len(acc') = Len(acc)
    BY <2>3 DEF Shifted
  <2>7. Goto(r, Done) /\ Stands(r)' /\ Done.pc = "done"
    BY <1>5, FiniIs
  <2>8. row.st = "HELD" =>
          /\ fundresv' \in Seq(HoldRow) /\ Len(fundresv') = Len(fundresv)
          /\ (\A m \in 1 .. Len(fundresv) : fundresv'[m].a = fundresv[m].a)
          /\ (\A m \in 1 .. Len(fundresv) : m # k => fundresv'[m] = fundresv[m])
          /\ fundresv'[k].st = "RELEASED"
    <3>1. row.st = "HELD" => fundresv' = [fundresv EXCEPT ![k].st = "RELEASED"]
      BY <1>5
    <3> HIDE DEF k, row
    <3> QED BY <1>2, <2>1, <3>1, HoldMarked
  <2>9. row.st # "HELD" => fundresv' = fundresv
    BY <1>5
  <2>10. /\ fundresv' \in Seq(HoldRow) /\ Len(fundresv') = Len(fundresv)
         /\ \A m \in 1 .. Len(fundresv) : fundresv'[m].a = fundresv[m].a
    BY <1>2, <2>8, <2>9
  <2>11. HoldsOK' /\ Len(fundresv) =< Len(fundresv')
    BY <1>2, <2>6, <2>10 DEF HoldsOK
  <2>12. \A c : PaidDelta(r, c) = 0
    BY <1>1, <1>2, <2>5, PaidDeltaZero
  <2>13. \A c : Total(Gaps(acc', ilog, c)) = Total(Gaps(acc, ilog, c))
    BY <1>2, <2>6, GapsSame
  <2>14. ASSUME NoneOf({"release", "fees", "reverse"})', NEW c \in Currency
         PROVE  Delta(c) + HeldDelta(c) = ghost'.side[c] - ghost.side[c] + GapDelta(c) + PaidDelta(r, c)
    <3>1. row.st = "HELD"
      BY <2>5, <2>14 DEF NoneOf
    <3>2. /\ Total(Holds(acc', fundresv', c))
               = Total(Holds(acc', fundresv, c)) - Hold(acc', fundresv[k], c) + Hold(acc', fundresv'[k], c)
          /\ Total(Holds(acc', fundresv, c)) \in Int
      <4> HIDE DEF k, row, B
      <4> QED BY <1>2, <2>1, <2>8, <3>1, HoldSwapped
    <3>3. Total(Holds(acc', fundresv, c)) = Total(Holds(acc, fundresv, c))
      BY <1>2, <2>6, HoldsKept DEF HoldsOK
    <3>4. Hold(acc', fundresv'[k], c) = 0
      BY <2>8, <3>1 DEF Hold
    <3>5. Hold(acc', fundresv[k], c) = Gain(acc, row.a, row.amt, c)
      BY <2>2, <2>6, <3>1 DEF Hold, Gain, Kept
    <3>6. Gain(acc, row.a, row.amt, c) \in Int
      BY <2>2, GainInt
    <3>7. GapDelta(c) = 0 /\ ghost'.side[c] - ghost.side[c] = 0
      <4>1. ilog' = ilog
        OBVIOUS
      <4> QED BY <1>2, <2>5, <2>6, <2>13, <4>1, Numbers DEF GapDelta
    <3>8. Delta(c) + HeldDelta(c) = 0
      BY <1>2, <2>3, <2>6, <3>2, <3>3, <3>4, <3>5, <3>6, Numbers DEF Delta, HeldDelta
    <3> QED BY <2>12, <3>7, <3>8
  <2> HIDE DEF k, row, B
  <2> QED BY <1>1, <1>2, <2>5, <2>6, <2>7, <2>10, <2>11, <2>14, PlainStep
<1>6. \/ UNCHANGED <<acc, fundresv, ghost>> /\ Fini(r)
      \/ /\ at[r].pc = "start" /\ UNCHANGED <<acc, fundresv, ghost>>
         /\ k \in 1 .. Len(fundresv) /\ Goto(r, [pc |-> "credit"])
      \/ /\ at[r].pc = "credit" /\ Fini(r) /\ acc' \in B /\ OddIf(row.st # "HELD", "release")
         /\ fundresv' = IF row.st = "HELD" THEN [fundresv EXCEPT ![k].st = "RELEASED"] ELSE fundresv
  BY DEF ReleaseFunds, Is, loadFundReservation
<1> HIDE DEF k, row, B
<1> QED BY <1>3, <1>4, <1>5, <1>6

\* An internal transfer: what it gives and takes in each currency, and the
\* gap its log row accounts for.
IsTransfer(A, f, t, amt, in, fee, B) ==
  /\ f \in 1 .. Len(A) /\ t \in 1 .. Len(A) /\ amt \in Int /\ in \in Int /\ fee \in Int
  /\ A[f].cur = A[t].cur => in = amt
  /\ \E D \in Move(A, f, A[f].owner, amt, t, A[t].owner, in) :
       IF A[f].cur = A[t].cur THEN B = D
       ELSE \E b \in getByOwnerAndCurrency(D, Bank, A[f].cur) : B \in CreditTx(D, b, fee, Bank)

LEMMA TransferEffect ==
  ASSUME NEW A, AccountsOf(A), NEW f, NEW t, NEW amt, NEW in, NEW fee, NEW B, IsTransfer(A, f, t, amt, in, fee, B)
  PROVE  /\ Shifted(A, B)
         /\ \A c \in Currency : OnAccounts(B, c) = OnAccounts(A, c)
              + (IF A[f].cur # A[t].cur THEN Gain(A, f, fee - amt, c) + Gain(A, t, in, c) ELSE 0)
<1>6. PICK D \in Move(A, f, A[f].owner, amt, t, A[t].owner, in) :
        IF A[f].cur = A[t].cur THEN B = D
        ELSE \E b \in getByOwnerAndCurrency(D, Bank, A[f].cur) : B \in CreditTx(D, b, fee, Bank)
  BY DEF IsTransfer
<1>7. /\ f \in 1 .. Len(A) /\ t \in 1 .. Len(A) /\ amt \in Int /\ in \in Int /\ fee \in Int
      /\ A[f].cur = A[t].cur => in = amt
  BY DEF IsTransfer
<1>1. /\ Shifted(A, D)
      /\ \A c \in Currency : OnAccounts(D, c) = OnAccounts(A, c) - Gain(A, f, amt, c) + Gain(A, t, in, c)
  BY <1>7, MoveEffect
<1>2. \A c \in Currency : OnAccounts(A, c) \in Int
  BY OnAccountsInt, AccountsAreRows
<1>3. \A c : Gain(A, f, amt, c) \in Int /\ Gain(A, t, in, c) \in Int /\ Gain(A, f, fee, c) \in Int
  BY <1>7, GainInt
<1>4. CASE A[f].cur = A[t].cur
  <2>1. \A c : Gain(A, f, amt, c) = Gain(A, t, in, c)
    BY <1>4, <1>7 DEF Gain
  <2> QED BY <1>1, <1>2, <1>3, <1>4, <1>6, <2>1
<1>5. CASE A[f].cur # A[t].cur
  <2>1. PICK b \in getByOwnerAndCurrency(D, Bank, A[f].cur) : B \in CreditTx(D, b, fee, Bank)
    BY <1>5, <1>6
  <2>2. AccountsOf(D) /\ b \in 1 .. Len(D) /\ D[b].cur = A[f].cur
    BY <1>1, FoundAccount DEF Shifted
  <2>3. Shifted(D, B) /\ \A c \in Currency : OnAccounts(B, c) = OnAccounts(D, c) + Gain(D, b, fee, c)
    BY <1>7, <2>1, <2>2, CreditEffect
  <2>4. Shifted(A, B)
    BY <1>1, <2>3, ShiftedTwice
  <2>5. \A c : Gain(D, b, fee, c) = Gain(A, f, fee, c)
    BY <2>2 DEF Gain
  <2>6. \A c : Gain(A, f, fee - amt, c) = Gain(A, f, fee, c) - Gain(A, f, amt, c)
    BY <1>7 DEF Gain
  <2>7. ASSUME NEW c \in Currency
        PROVE  OnAccounts(B, c) = OnAccounts(A, c) + (Gain(A, f, fee - amt, c) + Gain(A, t, in, c))
    BY <1>1, <1>2, <1>3, <2>3, <2>5, <2>6
  <2> QED BY <1>5, <2>4, <2>7
<1> QED BY <1>4, <1>5

\* Its row goes to the log.
LEMMA LogStep ==
  ASSUME BankInv, NEW r \in Req, Fini(r), at[r] # Done, What[r].kind \notin {"payment", "transfer"},
         UNCHANGED <<benv, sess, paid, trf, rcpt, fundresv, bfaults>>,
         Shifted(acc, acc'), GhostGrown(r), ghost'.side = ghost.side, ghost'.applied = ghost.applied,
         ilog' \in Seq(LogRow),
         NoneOf({"release", "fees", "reverse"})' => \A c \in Currency : Delta(c) = GapDelta(c)
  PROVE  BankInv'
<1>1. /\ TablesOK /\ HoldsOK /\ fundresv \in Seq(HoldRow) /\ bfaults' \in Nat /\ GhostOK /\ Len(fundresv) \in Nat
      /\ ilog \in Seq(LogRow)
  BY Lengths DEF BankInv, TablesOK
<1>2. Goto(r, Done) /\ Stands(r)' /\ Done.pc = "done"
  BY FiniIs
<1>3. AccountsOf(acc') /\ Kept(acc, acc')
  BY DEF Shifted
<1>4. HoldsOK'
  BY <1>1, <1>3, HoldsStep
<1>5. \A c : PaidDelta(r, c) = 0
  BY <1>1, PaidDeltaZero
<1>6. ASSUME NoneOf({"release", "fees", "reverse"})', NEW c \in Currency
      PROVE  Delta(c) + HeldDelta(c) = ghost'.side[c] - ghost.side[c] + GapDelta(c) + PaidDelta(r, c)
  <2>1. HeldDelta(c) = 0
    BY <1>1, <1>3, HoldsStill
  <2>2. ghost'.side[c] - ghost.side[c] = 0
    BY <1>1, <1>3, Numbers
  <2>3. Delta(c) \in Int /\ Delta(c) = GapDelta(c)
    BY <1>1, <1>3, <1>6, Numbers DEF Delta
  <2> QED BY <1>5, <2>1, <2>2, <2>3
<1>7. Len(fundresv) =< Len(fundresv') /\ fundresv' \in Seq(HoldRow)
  BY <1>1
<1> QED BY <1>1, <1>2, <1>3, <1>4, <1>6, <1>7, PlainStep

LEMMA InternalInv ==
  ASSUME BankInv, NEW r \in Req, Transfer(r), UNCHANGED <<benv, sess, paid, trf, fundresv, rcpt, bfaults, ghost>>
  PROVE  BankInv'
<1> DEFINE w == What[r]
           c0 == convert(w.amt, acc[w.from].cur, acc[w.to].cur)
           same == acc[w.from].cur = acc[w.to].cur
           in == IF same THEN w.amt ELSE convert(w.amt - c0.fee, acc[w.from].cur, acc[w.to].cur).in
           fee == IF same THEN 0 ELSE c0.fee
           moved == Move(acc, w.from, acc[w.from].owner, w.amt, w.to, acc[w.to].owner, in)
           B == IF same THEN moved
                ELSE IF w.amt <= c0.fee THEN {}
                ELSE UNION {UNION {CreditTx(A, b, c0.fee, Bank) : b \in getByOwnerAndCurrency(A, Bank, acc[w.from].cur)} : A \in moved}
           row == [from |-> w.from, to |-> w.to, amt |-> w.amt, st |-> "COMPLETED", in |-> in, fee |-> fee]
<1>1. w.kind = "itransfer" /\ at[r].pc = "start" /\ at[r] # Done /\ Fini(r)
  <2>1. Is(r, "itransfer", "start") /\ Fini(r)
    BY Zenon DEF Transfer
  <2> QED BY <2>1 DEF Is, Done
<1>2. UNCHANGED <<acc, ilog>> \/ (acc' \in B /\ ilog' = Append(ilog, row))
  BY Zenon DEF Transfer
<1>3. /\ TablesOK /\ AccountsOf(acc) /\ ilog \in Seq(LogRow) /\ GhostOK /\ bfaults' \in Nat
      /\ Known \subseteq 1 .. Len(acc) /\ RequestOK(w)
  BY RequestFits DEF BankInv, TablesOK
<1>4. /\ w.from \in Known /\ w.to \in Known /\ w.amt \in Int
  BY <1>1, <1>3 DEF RequestOK
<1>5. w.from \in 1 .. Len(acc) /\ w.to \in 1 .. Len(acc)
  BY <1>3, <1>4
<1>6. acc[w.from].cur \in Currency /\ acc[w.to].cur \in Currency
  BY <1>3, <1>5, AccountsAreRows
<1>7. fee \in Int /\ in \in Int
  <2>1. c0.fee \in Int
    BY <1>4, <1>6, ConvertFits
  <2>2. w.amt - c0.fee \in Int
    BY <1>4, <2>1
  <2>3. convert(w.amt - c0.fee, acc[w.from].cur, acc[w.to].cur).in \in Int
    BY <1>6, <2>2, ConvertFits
  <2> QED BY <1>4, <2>1, <2>3
<1>8. CASE UNCHANGED <<acc, ilog>>
  <2>1. Goto(r, Done) /\ Stands(r)' /\ Done.pc = "done"
    BY <1>1, FiniIs
  <2> QED BY <1>1, <1>3, <1>8, <2>1, StillStep
<1>9. CASE acc' \in B /\ ilog' = Append(ilog, row)
  <2>1. PICK D \in moved :
          IF same THEN acc' = D /\ fee = 0
          ELSE \E b \in getByOwnerAndCurrency(D, Bank, acc[w.from].cur) : acc' \in CreditTx(D, b, fee, Bank)
    <3>1. CASE same
      BY <1>9, <3>1
    <3>2. CASE ~same
      <4>1. fee = c0.fee
        BY <3>2
      <4>2. \E D \in moved : acc' \in UNION {CreditTx(D, b, c0.fee, Bank) : b \in getByOwnerAndCurrency(D, Bank, acc[w.from].cur)}
        BY <1>9, <3>2
      <4> HIDE DEF moved, fee, same, c0, in, B
      <4> QED BY <3>2, <4>1, <4>2
    <3> QED BY <3>1, <3>2
  <2>2. row \in LogRow /\ row.from = w.from /\ row.to = w.to /\ row.amt = w.amt /\ row.in = in /\ row.fee = fee
    BY <1>4, <1>7 DEF LogRow
  <2>3. same => in = w.amt
    OBVIOUS
  <2> HIDE DEF in, fee, c0, B, row
  <2>4. /\ Shifted(acc, acc')
        /\ \A c \in Currency : OnAccounts(acc', c) = OnAccounts(acc, c)
             + (IF acc[w.from].cur # acc[w.to].cur THEN Gain(acc, w.from, fee - w.amt, c) + Gain(acc, w.to, in, c) ELSE 0)
    <3> DEFINE f == w.from
               t == w.to
    <3>1. f \in 1 .. Len(acc) /\ t \in 1 .. Len(acc)
      BY <1>5
    <3>2. D \in Move(acc, f, acc[f].owner, w.amt, t, acc[t].owner, in) /\ w.amt \in Int
      BY <1>4
    <3> HIDE DEF f, t, moved
    <3>3. IsTransfer(acc, f, t, w.amt, in, fee, acc')
      BY <1>4, <1>7, <2>1, <2>3, <3>1, <3>2 DEF f, t, IsTransfer
    <3>4. /\ Shifted(acc, acc')
          /\ \A c \in Currency : OnAccounts(acc', c) = OnAccounts(acc, c)
               + (IF acc[f].cur # acc[t].cur THEN Gain(acc, f, fee - w.amt, c) + Gain(acc, t, in, c) ELSE 0)
      BY <1>3, <3>3, TransferEffect
    <3> QED BY <3>4 DEF f, t
  <2>5. \A c : Gap(acc, row, c) = IF acc[w.from].cur # acc[w.to].cur
                                  THEN Gain(acc, w.from, fee - w.amt, c) + Gain(acc, w.to, in, c) ELSE 0
    BY <2>2 DEF Gap
  <2>6. \A c \in Currency : OnAccounts(acc', c) = OnAccounts(acc, c) + Gap(acc, row, c)
    BY <2>4, <2>5
  <2>7. ilog' \in Seq(LogRow) /\ Kept(acc, acc') /\ AccountsOf(acc') /\ ilog' = Append(ilog, row)
    BY <1>3, <1>9, <2>2, <2>4 DEF Shifted
  <2>8. ASSUME NEW c \in Currency PROVE Delta(c) = GapDelta(c)
    <3>1. Total(Gaps(acc', ilog', c)) = Total(Gaps(acc', ilog, c)) + Gap(acc', row, c)
      BY <1>3, <2>2, <2>7, GapAdded
    <3>2. Total(Gaps(acc', ilog, c)) = Total(Gaps(acc, ilog, c))
      BY <1>3, <2>7, GapsSame
    <3>3. Gap(acc', row, c) = Gap(acc, row, c)
      BY <1>5, <2>2, <2>7 DEF Gap, Gain, Kept
    <3>4. Gap(acc, row, c) \in Int
      <4>1. fee - w.amt \in Int
        BY <1>4, <1>7
      <4>2. Gain(acc, w.from, fee - w.amt, c) \in Int /\ Gain(acc, w.to, in, c) \in Int
        BY <1>7, <4>1, GainInt
      <4> QED BY <2>5, <4>2
    <3> QED BY <1>3, <2>6, <2>7, <3>1, <3>2, <3>3, <3>4, Numbers DEF Delta, GapDelta
  <2>9. GhostGrown(r)
    BY <1>3, GhostStays
  <2> QED BY <1>1, <2>4, <2>7, <2>8, <2>9, LogStep
<1> HIDE DEF B, row
<1> QED BY <1>2, <1>8, <1>9

SameFields(M, L) ==
  \A m \in 1 .. Len(L) : /\ M[m].from = L[m].from /\ M[m].to = L[m].to /\ M[m].fee = L[m].fee
                         /\ M[m].amt = L[m].amt /\ M[m].in = L[m].in
LEMMA LogMarked ==
  ASSUME NEW L \in Seq(LogRow), NEW k \in 1 .. Len(L), NEW M, M = [L EXCEPT ![k].st = "REVERSED"]
  PROVE  M \in Seq(LogRow) /\ Len(M) = Len(L) /\ SameFields(M, L)
<1> DEFINE row == [L[k] EXCEPT !.st = "REVERSED"]
<1>1. L[k] \in LogRow /\ Len(L) \in Nat
  OBVIOUS
<1>2. /\ row \in LogRow /\ row.from = L[k].from /\ row.to = L[k].to /\ row.fee = L[k].fee
      /\ row.amt = L[k].amt /\ row.in = L[k].in
  BY <1>1 DEF LogRow
<1>3. M = [L EXCEPT ![k] = row]
  OBVIOUS
<1> HIDE DEF row
<1>4. M \in Seq(LogRow) /\ Len(M) = Len(L) /\ M[k] = row /\ \A m \in 1 .. Len(L) : m # k => M[m] = L[m]
  BY <1>2, <1>3
<1> QED BY <1>2, <1>4 DEF SameFields

LEMMA ReverseInv ==
  ASSUME BankInv, NEW r \in Req, ReverseTransfer(r), UNCHANGED <<benv, sess, paid, trf, fundresv, rcpt, bfaults>>
  PROVE  BankInv'
<1> DEFINE k == What[r].k
           row == ilog[k]
           B == IF k \in 1 .. Len(ilog) /\ ilog[k].st = "COMPLETED"
                THEN Move(acc, ilog[k].to, acc[ilog[k].to].owner, ilog[k].amt,
                          ilog[k].from, acc[ilog[k].from].owner, ilog[k].amt) ELSE {}
<1>1. What[r].kind = "reverse" /\ at[r] # Done /\ Fini(r)
  <2>1. Is(r, "reverse", "start") /\ Fini(r)
    BY Zenon DEF ReverseTransfer
  <2> QED BY <2>1 DEF Is, Done
<1>2. /\ TablesOK /\ AccountsOf(acc) /\ ilog \in Seq(LogRow) /\ GhostOK /\ bfaults' \in Nat /\ Known \subseteq 1 .. Len(acc)
  BY RequestFits DEF BankInv, TablesOK
<1>3. \/ UNCHANGED <<acc, ilog, ghost>>
      \/ acc' \in B /\ ilog' = [ilog EXCEPT ![k].st = "REVERSED"] /\ OddIf(k \in CrossRows, "reverse")
  BY Zenon DEF ReverseTransfer
<1>4. CASE UNCHANGED <<acc, ilog, ghost>>
  <2>1. Goto(r, Done) /\ Stands(r)' /\ Done.pc = "done"
    BY <1>1, FiniIs
  <2> QED BY <1>1, <1>2, <1>4, <2>1, StillStep
<1>5. CASE acc' \in B /\ ilog' = [ilog EXCEPT ![k].st = "REVERSED"] /\ OddIf(k \in CrossRows, "reverse")
  <2>1. k \in 1 .. Len(ilog) /\ acc' \in Move(acc, row.to, acc[row.to].owner, row.amt, row.from, acc[row.from].owner, row.amt)
    BY <1>5
  <2>2. row.from \in 1 .. Len(acc) /\ row.to \in 1 .. Len(acc) /\ row.amt \in Int
    <3>1. row \in LogRow /\ \A x \in LogRow : x.from \in Known /\ x.to \in Known /\ x.amt \in Int
      BY <1>2, <2>1, SequenceRange DEF LogRow
    <3> QED BY <1>2, <3>1
  <2>3. ilog' \in Seq(LogRow) /\ Len(ilog') = Len(ilog) /\ SameFields(ilog', ilog)
    <3>1. ilog' = [ilog EXCEPT ![k].st = "REVERSED"]
      BY <1>5
    <3>2. k \in 1 .. Len(ilog)
      BY <2>1
    <3>3. ilog \in Seq(LogRow)
      BY <1>2
    <3> HIDE DEF k, row, B
    <3> QED BY ONLY <3>1, <3>2, <3>3, LogMarked
  <2>4. OddIf(k \in CrossRows, "reverse") /\ (k \in CrossRows) \in BOOLEAN
    BY <1>5
  <2>5. /\ GhostGrown(r) /\ ghost'.side = ghost.side /\ ghost'.applied = ghost.applied
        /\ (k \in CrossRows => "reverse" \in ghost'.odd)
    BY <1>2, <2>4, GhostOddIf, OddIfIs
  <2>6. k \in CrossRows <=> acc[row.from].cur # acc[row.to].cur
    BY <2>1 DEF CrossRows
  <2> HIDE DEF B, row, k
  <2>7. /\ Shifted(acc, acc')
        /\ \A c \in Currency :
             OnAccounts(acc', c) = OnAccounts(acc, c) - Gain(acc, row.to, row.amt, c) + Gain(acc, row.from, row.amt, c)
    BY <1>2, <2>1, <2>2, MoveEffect
  <2>8. Kept(acc, acc') /\ AccountsOf(acc')
    BY <2>7 DEF Shifted
  <2>9. ASSUME NoneOf({"release", "fees", "reverse"})', NEW c \in Currency PROVE Delta(c) = GapDelta(c)
    <3>1. acc[row.from].cur = acc[row.to].cur
      BY <2>5, <2>6, <2>9 DEF NoneOf
    <3>2. Gain(acc, row.to, row.amt, c) = Gain(acc, row.from, row.amt, c)
      BY <3>1 DEF Gain
    <3>3. Gain(acc, row.to, row.amt, c) \in Int
      BY <2>2, GainInt
    <3>4. Total(Gaps(acc', ilog', c)) = Total(Gaps(acc, ilog, c))
      BY <1>2, <2>3, <2>8, GapsSame DEF SameFields
    <3> QED BY <1>2, <2>7, <2>8, <3>2, <3>3, <3>4, Numbers DEF Delta, GapDelta
  <2> QED BY <1>1, <2>3, <2>5, <2>7, <2>9, LogStep
<1> HIDE DEF B, row, k
<1> QED BY <1>3, <1>4, <1>5
--------------------------------------------------------------------------
(* Accounts. *)

LEMMA AddedInv ==
  ASSUME BankInv, NEW r \in Req, Fini(r), at[r] # Done, What[r].kind \notin {"payment", "transfer"},
         UNCHANGED <<benv, sess, paid, trf, fundresv, ilog, rcpt>>, bfaults' \in Nat,
         NEW row \in AccountRow, row.fee = 0, CreateAccount(r, row)
  PROVE  BankInv'
<1>1. TablesOK /\ AccountsOf(acc) /\ acc \in Seq(AccountRow) /\ Len(acc) \in Nat /\ GhostOK
  BY AccountsAreRows DEF BankInv, TablesOK
<1>2. acc' = Append(acc, row)
  BY DEF CreateAccount
<1>3. /\ acc' \in Seq(AccountRow) /\ Len(acc') = Len(acc) + 1 /\ acc'[Len(acc) + 1] = row
      /\ \A i \in 1 .. Len(acc) : acc'[i] = acc[i]
  BY <1>1, <1>2
<1>4. \A c : OnAccounts(acc', c) = OnAccounts(acc, c) + Share(row, c)
  BY <1>1, <1>2, RowAdded
<1>5. row.cur \in Currency /\ row.bal \in Int
  BY DEF AccountRow
<1>6. /\ GhostGrown(r) /\ ghost'.applied = ghost.applied
      /\ \A c \in Currency : ghost'.side[c] = ghost.side[c] + (IF c = row.cur THEN row.bal ELSE 0)
  <2>1. ghost' = [ghost EXCEPT !.side = [ghost.side EXCEPT ![row.cur] = ghost.side[row.cur] + row.bal]]
    BY DEF CreateAccount
  <2> DEFINE new == [ghost.side EXCEPT ![row.cur] = ghost.side[row.cur] + row.bal]
  <2>2. new \in [Currency -> Int] /\ \A c \in Currency : new[c] = ghost.side[c] + (IF c = row.cur THEN row.bal ELSE 0)
    BY <1>1, <1>5 DEF GhostOK
  <2> HIDE DEF new
  <2>3. ghost' = [ghost EXCEPT !.side = new]
    BY <2>1 DEF new
  <2>4. DOMAIN ghost' = {"side", "applied", "odd"} /\ ghost'.side = new /\ ghost'.applied = ghost.applied /\ ghost'.odd = ghost.odd
    BY <1>1, <2>3 DEF GhostOK
  <2> QED BY <1>1, <2>2, <2>4 DEF GhostGrown, GhostOK
<1>7. AccountsOf(acc') /\ Kept(acc, acc')
  <2>1. Kept(acc, acc')
    BY <1>1, <1>3 DEF Kept
  <2>2. Accounts0 \in Seq(AccountRow) /\ Len(Accounts0) \in Nat
    BY AccountsAssumption
  <2>3. Kept(Accounts0, acc')
    BY <1>1, <1>3, <2>1, <2>2, KeptTwice DEF AccountsOf
  <2>4. \A i \in 1 .. Len(acc') : acc'[i].fee > 0 => acc'[i].owner # Bank /\ acc'[i].cur = "RSD"
    BY <1>1, <1>3 DEF AccountsOf
  <2> QED BY <1>3, <2>1, <2>3, <2>4 DEF AccountsOf
<1>8. Goto(r, Done) /\ Stands(r)' /\ Done.pc = "done"
  BY FiniIs
<1>9. ASSUME NEW c \in Currency PROVE Delta(c) = ghost'.side[c] - ghost.side[c] + PaidDelta(r, c)
  <2>1. PaidDelta(r, c) = 0
    BY <1>1, <1>6, PaidDeltaZero
  <2>2. Share(row, c) = IF c = row.cur THEN row.bal ELSE 0
    BY DEF Share
  <2>3. Share(row, c) \in Int
    BY <1>5, <2>2
  <2> QED BY <1>1, <1>4, <1>6, <1>7, <2>1, <2>2, <2>3, Numbers DEF Delta
<1> QED BY <1>6, <1>7, <1>8, <1>9, AccountsStepInv

LEMMA NewAccountIs ==
  ASSUME NEW owner \in Int, NEW cur \in Currency, NEW type \in {"CHECKING", "FX"}, NEW own \in {"PERSONAL", "BUSINESS"},
         NEW name \in STRING, NEW bal \in Nat
  PROVE  insertAccount(owner, cur, type, own, name, bal) \in AccountRow /\ insertAccount(owner, cur, type, own, name, bal).fee = 0
  BY DEF insertAccount, AccountRow, NoLimit
LEMMA StillDone ==
  ASSUME BankInv, NEW r \in Req, Fini(r), at[r] # Done, What[r].kind \notin {"payment", "transfer"},
         UNCHANGED <<benv, sess, paid, trf, rcpt, fundresv, ilog, acc, ghost>>, bfaults' \in Nat
  PROVE  BankInv'
<1>1. Goto(r, Done) /\ Stands(r)' /\ Done.pc = "done"
  BY FiniIs
<1> QED BY <1>1, StillStep

LEMMA OpenCheckingInv ==
  ASSUME BankInv, NEW r \in Req, CreateCheckingAccount(r), UNCHANGED <<benv, sess, paid, trf, fundresv, ilog, rcpt>>
  PROVE  BankInv'
<1> DEFINE w == What[r]
           row(own) == insertAccount(w.client, "RSD", "CHECKING", own, w.name, w.init)
<1>1. w.kind = "open" /\ at[r] # Done /\ Fini(r)
  <2>1. Is(r, "open", "start") /\ Fini(r)
    BY Zenon DEF CreateCheckingAccount
  <2> QED BY <2>1 DEF Is, Done
<1>2. bfaults \in Nat /\ RequestOK(w) /\ BankInv
  BY RequestFits DEF BankInv, TablesOK
<1>3. bfaults' \in Nat
  BY <1>2 DEF CreateCheckingAccount, BFail, resolveClient, BNoFail
<1>4. \/ UNCHANGED <<acc, ghost>>
      \/ \E own \in accountConcrete(w.concrete) : CreateAccount(r, row(own))
  BY Zenon DEF CreateCheckingAccount
<1>5. CASE UNCHANGED <<acc, ghost>>
  BY <1>1, <1>3, <1>5, StillDone
<1>6. ASSUME NEW own \in accountConcrete(w.concrete), CreateAccount(r, row(own)) PROVE BankInv'
  <2>1. own \in {"PERSONAL", "BUSINESS"}
    BY <1>6 DEF accountConcrete
  <2>2. w.client \in Int /\ w.name \in STRING /\ w.init \in Nat
    BY <1>1, <1>2 DEF RequestOK
  <2>3. row(own) \in AccountRow /\ row(own).fee = 0
    BY <2>1, <2>2, NewAccountIs DEF Currency
  <2> HIDE DEF row
  <2> QED BY <1>1, <1>3, <1>6, <2>3, AddedInv
<1> QED BY <1>4, <1>5, <1>6

LEMMA OpenFXInv ==
  ASSUME BankInv, NEW r \in Req, CreateFXAccount(r), UNCHANGED <<benv, sess, paid, trf, fundresv, ilog, rcpt>>
  PROVE  BankInv'
<1> DEFINE w == What[r]
           row == insertAccount(w.client, w.cur, "FX", w.concrete, w.name, w.init)
<1>1. w.kind = "open" /\ w.type = "FX" /\ at[r] # Done /\ Fini(r)
  <2>1. Is(r, "open", "start") /\ Fini(r) /\ w.type = "FX"
    BY Zenon DEF CreateFXAccount
  <2> QED BY <2>1 DEF Is, Done
<1>2. bfaults \in Nat /\ RequestOK(w) /\ BankInv
  BY RequestFits DEF BankInv, TablesOK
<1>3. bfaults' \in Nat
  BY <1>2 DEF CreateFXAccount, BFail, resolveClient, BNoFail
<1>4. UNCHANGED <<acc, ghost>> \/ (w.cur \in Currency /\ CreateAccount(r, row))
  BY Zenon DEF CreateFXAccount, currencyID
<1>5. CASE UNCHANGED <<acc, ghost>>
  BY <1>1, <1>3, <1>5, StillDone
<1>6. CASE w.cur \in Currency /\ CreateAccount(r, row)
  <2>2. w.client \in Int /\ w.name \in STRING /\ w.init \in Nat /\ w.concrete \in {"PERSONAL", "BUSINESS"}
    BY <1>1, <1>2 DEF RequestOK
  <2>3. row \in AccountRow /\ row.fee = 0
    BY <1>6, <2>2, NewAccountIs
  <2> HIDE DEF row
  <2> QED BY <1>1, <1>3, <1>6, <2>3, AddedInv
<1> QED BY <1>4, <1>5, <1>6

LEMMA OpenSystemInv ==
  ASSUME BankInv, NEW r \in Req, CreateSystemAccount(r), UNCHANGED <<benv, sess, paid, trf, fundresv, ilog, rcpt>>
  PROVE  BankInv'
<1> DEFINE w == What[r]
           row == insertAccount(w.client, w.cur, "CHECKING", "BUSINESS", w.name, w.init)
<1>1. w.kind = "system" /\ at[r] # Done /\ Fini(r)
  <2>1. Is(r, "system", "start") /\ Fini(r)
    BY Zenon DEF CreateSystemAccount
  <2> QED BY <2>1 DEF Is, Done
<1>2. bfaults \in Nat /\ RequestOK(w) /\ BankInv
  BY RequestFits DEF BankInv, TablesOK
<1>3. bfaults' \in Nat
  BY <1>2 DEF CreateSystemAccount, BNoFail
<1>4. UNCHANGED <<acc, ghost>> \/ CreateAccount(r, row)
  BY Zenon DEF CreateSystemAccount
<1>5. CASE UNCHANGED <<acc, ghost>>
  BY <1>1, <1>3, <1>5, StillDone
<1>6. CASE CreateAccount(r, row)
  <2>2. w.client \in Int /\ w.name \in STRING /\ w.init \in Nat /\ w.cur \in Currency
    BY <1>1, <1>2 DEF RequestOK
  <2>3. row \in AccountRow /\ row.fee = 0
    BY <2>2, NewAccountIs
  <2> HIDE DEF row
  <2> QED BY <1>1, <1>3, <1>6, <2>3, AddedInv
<1> QED BY <1>4, <1>5, <1>6

\* Columns other than the balance change.
SameMoney(B, A) ==
  /\ B \in Seq(AccountRow) /\ Len(B) = Len(A)
  /\ \A i \in 1 .. Len(A) : SameNames(B[i], A[i]) /\ B[i].bal = A[i].bal

LEMMA SameMoneyIs ==
  ASSUME NEW A, AccountsOf(A), NEW B, SameMoney(B, A)
  PROVE  Shifted(A, B) /\ \A c : OnAccounts(B, c) = OnAccounts(A, c)
<1>1. /\ A \in Seq(AccountRow) /\ B \in Seq(AccountRow) /\ Len(A) \in Nat /\ Len(B) = Len(A)
      /\ Accounts0 \in Seq(AccountRow) /\ Len(Accounts0) \in Nat
  BY AccountsAreRows, AccountsAssumption DEF SameMoney
<1>2. Kept(A, B)
  BY <1>1 DEF Kept, SameMoney, SameNames
<1>3. Kept(Accounts0, B)
  BY <1>1, <1>2, KeptTwice DEF AccountsOf
<1>4. \A i \in 1 .. Len(B) : B[i].fee > 0 => B[i].owner # Bank /\ B[i].cur = "RSD"
  BY <1>1, <1>2 DEF AccountsOf, Kept
<1>5. Shifted(A, B)
  BY <1>1, <1>2, <1>3, <1>4 DEF Shifted, AccountsOf
<1>6. ASSUME NEW c PROVE OnAccounts(B, c) = OnAccounts(A, c)
  <2>1. /\ OnAccounts(A, c) = Total(Sheet(A, c)) /\ DOMAIN Sheet(A, c) = 1 .. Len(A) /\ IsFiniteSet(1 .. Len(A))
        /\ \A i \in 1 .. Len(A) : Sheet(A, c)[i] = Share(A[i], c)
    BY <1>1, SheetOf
  <2>2. /\ OnAccounts(B, c) = Total(Sheet(B, c)) /\ DOMAIN Sheet(B, c) = 1 .. Len(A)
        /\ \A i \in 1 .. Len(A) : Sheet(B, c)[i] = Share(B[i], c)
    BY <1>1, SheetOf
  <2>3. \A i \in 1 .. Len(A) : Share(B[i], c) = Share(A[i], c)
    BY DEF SameMoney, SameNames, Share
  <2>4. \A i \in DOMAIN Sheet(A, c) : Sheet(B, c)[i] = Sheet(A, c)[i]
    BY <2>1, <2>2, <2>3
  <2> QED BY <2>1, <2>2, <2>4, TotalSame
<1> QED BY <1>5, <1>6

LEMMA EditedInv ==
  ASSUME BankInv, NEW r \in Req, NEW s, Goto(r, s), at[r] # Done, What[r].kind \notin {"payment", "transfer"},
         UNCHANGED <<benv, sess, paid, trf, rcpt, fundresv, ilog>>, SameMoney(acc', acc), bfaults' \in Nat,
         GhostGrown(r), ghost'.side = ghost.side, ghost'.applied = ghost.applied,
         Stands(r)', s.pc \notin {"start", "check", "expire", "record"}
  PROVE  BankInv'
<1>1. TablesOK /\ AccountsOf(acc)
  BY DEF BankInv, TablesOK
<1>2. Shifted(acc, acc') /\ \A c : OnAccounts(acc', c) = OnAccounts(acc, c)
  BY <1>1, SameMoneyIs
<1>3. AccountsOf(acc') /\ Kept(acc, acc')
  BY <1>2 DEF Shifted
<1>4. ASSUME NEW c \in Currency PROVE Delta(c) = ghost'.side[c] - ghost.side[c] + PaidDelta(r, c)
  <2>1. PaidDelta(r, c) = 0
    BY <1>1, PaidDeltaZero
  <2> QED BY <1>1, <1>2, <1>3, <2>1, Numbers DEF Delta
<1> QED BY <1>3, <1>4, AccountsStepInv

\* One row gets a new status, name or limits.
LEMMA RowEdited ==
  ASSUME NEW A, AccountsOf(A), NEW i \in 1 .. Len(A), NEW row \in AccountRow,
         SameNames(row, A[i]), row.bal = A[i].bal
  PROVE  SameMoney([A EXCEPT ![i] = row], A)
<1>1. A \in Seq(AccountRow) /\ Len(A) \in Nat
  BY AccountsAreRows
<1> DEFINE B == [A EXCEPT ![i] = row]
<1>2. B \in Seq(AccountRow) /\ Len(B) = Len(A) /\ B[i] = row /\ \A j \in 1 .. Len(A) : j # i => B[j] = A[j]
  BY <1>1
<1> HIDE DEF B
<1>3. \A j \in 1 .. Len(A) : SameNames(B[j], A[j]) /\ B[j].bal = A[j].bal
  BY <1>2 DEF SameNames
<1>4. SameMoney(B, A)
  BY <1>2, <1>3 DEF SameMoney
<1> QED BY <1>4 DEF B

LEMMA Unedited ==
  ASSUME NEW A, AccountsOf(A)
  PROVE  SameMoney(A, A)
  BY AccountsAreRows DEF SameMoney, SameNames

LEMMA EditStatusInv ==
  ASSUME BankInv, NEW r \in Req, EditStatus(r), UNCHANGED <<benv, sess, paid, trf, fundresv, ilog, rcpt>>
  PROVE  BankInv'
<1> DEFINE w == What[r]
           row == [acc[w.i] EXCEPT !.st = w.st]
<1>1. w.kind = "editstatus" /\ at[r] # Done /\ Fini(r) /\ UNCHANGED <<ghost, bfaults>>
  <2>1. Is(r, "editstatus", "start") /\ Fini(r) /\ UNCHANGED <<ghost, bfaults>>
    BY Zenon DEF EditStatus
  <2> QED BY <2>1 DEF Is, Done
<1>2. bfaults \in Nat /\ RequestOK(w) /\ AccountsOf(acc) /\ GhostOK
  BY RequestFits DEF BankInv, TablesOK
<1>3. acc' = acc \/ (w.i \in 1 .. Len(acc) /\ acc' = [acc EXCEPT ![w.i].st = w.st])
  BY DEF EditStatus, getByNumber
<1>4. SameMoney(acc', acc)
  <2>1. CASE acc' = acc
    BY <1>2, <2>1, Unedited
  <2>2. CASE w.i \in 1 .. Len(acc) /\ acc' = [acc EXCEPT ![w.i].st = w.st]
    <3>1. w.i \in 1 .. Len(acc) /\ acc' = [acc EXCEPT ![w.i] = row]
      BY <2>2
    <3>2. acc[w.i] \in AccountRow /\ w.st \in {"ACTIVE", "INACTIVE"}
      BY <1>1, <1>2, <3>1, AccountsAreRows DEF RequestOK
    <3>3. row \in AccountRow /\ SameNames(row, acc[w.i]) /\ row.bal = acc[w.i].bal
      BY <3>2 DEF AccountRow, SameNames
    <3> HIDE DEF row
    <3> QED BY <1>2, <3>1, <3>3, RowEdited
  <2> QED BY <1>3, <2>1, <2>2
<1>5. Goto(r, Done) /\ Stands(r)' /\ Done.pc = "done" /\ GhostGrown(r)
  BY <1>1, <1>2, FiniIs, GhostStays
<1> QED BY <1>1, <1>2, <1>4, <1>5, EditedInv

LEMMA ExpiryInv ==
  ASSUME BankInv, NEW r \in Req, AccountExpires(r), UNCHANGED <<benv, sess, paid, trf, fundresv, ilog, rcpt>>
  PROVE  BankInv'
<1> DEFINE i == What[r].i
           row == [acc[i] EXCEPT !.past = TRUE]
<1>1. What[r].kind = "expiry" /\ at[r] # Done /\ Fini(r) /\ UNCHANGED <<ghost, bfaults>>
  <2>1. Is(r, "expiry", "start") /\ Fini(r) /\ UNCHANGED <<ghost, bfaults>>
    BY Zenon DEF AccountExpires
  <2> QED BY <2>1 DEF Is, Done
<1>2. bfaults \in Nat /\ AccountsOf(acc) /\ GhostOK
  BY DEF BankInv, TablesOK
<1>3. acc' = acc \/ (i \in 1 .. Len(acc) /\ acc' = [acc EXCEPT ![i] = row])
  BY DEF AccountExpires, getByNumber
<1>4. SameMoney(acc', acc)
  <2>1. CASE acc' = acc
    BY <1>2, <2>1, Unedited
  <2>2. CASE i \in 1 .. Len(acc) /\ acc' = [acc EXCEPT ![i] = row]
    <3>1. acc[i] \in AccountRow
      BY <1>2, <2>2, AccountsAreRows
    <3>2. row \in AccountRow /\ SameNames(row, acc[i]) /\ row.bal = acc[i].bal
      BY <3>1 DEF AccountRow, SameNames
    <3> HIDE DEF row
    <3> QED BY <1>2, <2>2, <3>2, RowEdited
  <2> QED BY <1>3, <2>1, <2>2
<1>5. Goto(r, Done) /\ Stands(r)' /\ Done.pc = "done" /\ GhostGrown(r)
  BY <1>1, <1>2, FiniIs, GhostStays
<1> QED BY <1>1, <1>2, <1>4, <1>5, EditedInv

LEMMA WriteStands ==
  ASSUME BankInv, NEW r \in Req, What[r].kind \in {"editname", "editlimit"}, at[r].pc = "write"
  PROVE  What[r].i \in 1 .. Len(acc) /\ at[r] # Done
<1>1. Stands(r)
  BY DEF BankInv, ControlOK
<1> QED BY <1>1 DEF Stands, Between, Paying, Transferring, Done

LEMMA EditNameInv ==
  ASSUME BankInv, NEW r \in Req, editAccountName(r), UNCHANGED <<benv, sess, paid, trf, fundresv, ilog, rcpt>>
  PROVE  BankInv'
<1> DEFINE w == What[r]
           row == [acc[w.i] EXCEPT !.name = w.name]
<1>1. w.kind = "editname" /\ bfaults' = bfaults
  <2>1. (Is(r, "editname", "start") \/ Is(r, "editname", "write")) /\ bfaults' = bfaults
    BY Zenon DEF editAccountName
  <2> QED BY <2>1 DEF Is
<1>2. bfaults \in Nat /\ RequestOK(w) /\ AccountsOf(acc) /\ GhostOK /\ ControlOK
  BY RequestFits DEF BankInv, TablesOK
<1>3. CASE /\ at[r].pc = "start" /\ UNCHANGED <<acc, ghost>>
           /\ (w.i \in 1 .. Len(acc) /\ Goto(r, [pc |-> "write"])) \/ Fini(r)
  <2>0. at[r] # Done
    BY <1>3 DEF Done
  <2>1. CASE Fini(r)
    BY <1>1, <1>2, <1>3, <2>0, <2>1, StillDone
  <2>2. CASE w.i \in 1 .. Len(acc) /\ Goto(r, [pc |-> "write"])
    <3>1. at'[r] = [pc |-> "write"] /\ What' = What
      BY <1>2, <2>2, GotoIs DEF What
    <3>2. Stands(r)'
      BY <1>1, <1>3, <2>2, <3>1 DEF Stands, Between
    <3> QED BY <1>1, <1>2, <1>3, <2>0, <2>2, <3>2, StillStep
  <2> QED BY <1>3, <2>1, <2>2
<1>4. CASE /\ at[r].pc = "write" /\ Fini(r) /\ OddIf(NameTaken(w.client, w.name, w.i), "name")
           /\ acc' = IF acc[w.i].del THEN acc ELSE [acc EXCEPT ![w.i].name = w.name]
  <2>1. w.i \in 1 .. Len(acc) /\ at[r] # Done
    BY <1>1, <1>4, WriteStands
  <2>2. SameMoney(acc', acc)
    <3>1. acc' = acc \/ acc' = [acc EXCEPT ![w.i] = row]
      BY <1>4
    <3>2. acc[w.i] \in AccountRow /\ w.name \in STRING
      BY <1>1, <1>2, <2>1, AccountsAreRows DEF RequestOK
    <3>3. row \in AccountRow /\ SameNames(row, acc[w.i]) /\ row.bal = acc[w.i].bal
      BY <3>2 DEF AccountRow, SameNames
    <3> HIDE DEF row
    <3>4. SameMoney([acc EXCEPT ![w.i] = row], acc)
      BY <1>2, <2>1, <3>3, RowEdited
    <3> QED BY <1>2, <3>1, <3>4, Unedited
  <2>3. NameTaken(w.client, w.name, w.i) \in BOOLEAN
    BY DEF NameTaken
  <2>4. GhostGrown(r) /\ ghost'.side = ghost.side /\ ghost'.applied = ghost.applied
    BY <1>2, <1>4, <2>3, GhostOddIf, OddIfIs
  <2>5. Goto(r, Done) /\ Stands(r)' /\ Done.pc = "done"
    BY <1>4, FiniIs
  <2> QED BY <1>1, <1>2, <2>1, <2>2, <2>4, <2>5, EditedInv
<1>5. \/ /\ at[r].pc = "start" /\ UNCHANGED <<acc, ghost>>
         /\ (w.i \in 1 .. Len(acc) /\ Goto(r, [pc |-> "write"])) \/ Fini(r)
      \/ /\ at[r].pc = "write" /\ Fini(r) /\ OddIf(NameTaken(w.client, w.name, w.i), "name")
         /\ acc' = IF acc[w.i].del THEN acc ELSE [acc EXCEPT ![w.i].name = w.name]
  BY Zenon DEF editAccountName, Is, getByNumber
<1> QED BY <1>3, <1>4, <1>5

LEMMA EditLimitInv ==
  ASSUME BankInv, NEW r \in Req, editAccountLimit(r), UNCHANGED <<benv, sess, paid, trf, fundresv, ilog, rcpt>>
  PROVE  BankInv'
<1> DEFINE w == What[r]
           row == [acc[w.i] EXCEPT !.dlim = w.day, !.mlim = w.month]
<1>1. w.kind = "editlimit" /\ bfaults' = bfaults /\ ghost' = ghost
  <2>1. (Is(r, "editlimit", "start") \/ Is(r, "editlimit", "write")) /\ UNCHANGED <<ghost, bfaults>>
    BY Zenon DEF editAccountLimit
  <2> QED BY <2>1 DEF Is
<1>2. bfaults \in Nat /\ RequestOK(w) /\ AccountsOf(acc) /\ GhostOK /\ ControlOK
  BY RequestFits DEF BankInv, TablesOK
<1>3. CASE /\ at[r].pc = "start" /\ UNCHANGED acc
           /\ (w.i \in 1 .. Len(acc) /\ Goto(r, [pc |-> "write"])) \/ Fini(r)
  <2>0. at[r] # Done
    BY <1>3 DEF Done
  <2>1. CASE Fini(r)
    BY <1>1, <1>2, <1>3, <2>0, <2>1, StillDone
  <2>2. CASE w.i \in 1 .. Len(acc) /\ Goto(r, [pc |-> "write"])
    <3>1. at'[r] = [pc |-> "write"] /\ What' = What
      BY <1>2, <2>2, GotoIs DEF What
    <3>2. Stands(r)'
      BY <1>1, <1>3, <2>2, <3>1 DEF Stands, Between
    <3> QED BY <1>1, <1>2, <1>3, <2>0, <2>2, <3>2, StillStep
  <2> QED BY <1>3, <2>1, <2>2
<1>4. CASE /\ at[r].pc = "write" /\ Fini(r)
           /\ acc' = IF acc[w.i].del THEN acc ELSE [acc EXCEPT ![w.i].dlim = w.day, ![w.i].mlim = w.month]
  <2>1. w.i \in 1 .. Len(acc) /\ at[r] # Done
    BY <1>1, <1>4, WriteStands
  <2>2. SameMoney(acc', acc)
    <3>1. acc' = acc \/ acc' = [acc EXCEPT ![w.i] = row]
      <4>1. acc \in Seq(AccountRow)
        BY <1>2, AccountsAreRows
      <4> QED BY <1>4, <2>1, <4>1
    <3>2. acc[w.i] \in AccountRow /\ w.day \in Int /\ w.month \in Int
      BY <1>1, <1>2, <2>1, AccountsAreRows DEF RequestOK
    <3>3. row \in AccountRow /\ SameNames(row, acc[w.i]) /\ row.bal = acc[w.i].bal
      BY <3>2 DEF AccountRow, SameNames
    <3> HIDE DEF row
    <3>4. SameMoney([acc EXCEPT ![w.i] = row], acc)
      BY <1>2, <2>1, <3>3, RowEdited
    <3> QED BY <1>2, <3>1, <3>4, Unedited
  <2>4. GhostGrown(r) /\ ghost'.side = ghost.side /\ ghost'.applied = ghost.applied
    BY <1>1, <1>2, GhostStays
  <2>5. Goto(r, Done) /\ Stands(r)' /\ Done.pc = "done"
    BY <1>4, FiniIs
  <2> QED BY <1>1, <1>2, <2>1, <2>2, <2>4, <2>5, EditedInv
<1>5. \/ /\ at[r].pc = "start" /\ UNCHANGED acc
         /\ (w.i \in 1 .. Len(acc) /\ Goto(r, [pc |-> "write"])) \/ Fini(r)
      \/ /\ at[r].pc = "write" /\ Fini(r)
         /\ acc' = IF acc[w.i].del THEN acc ELSE [acc EXCEPT ![w.i].dlim = w.day, ![w.i].mlim = w.month]
  BY Zenon DEF editAccountLimit, Is, getByNumber
<1> QED BY <1>3, <1>4, <1>5

\* A new day.
Fresh(a, n, d) == [a EXCEPT !.day = n, !.rem = d]
LEMMA FreshRow ==
  ASSUME NEW a \in AccountRow, NEW n \in Int, NEW d \in Int
  PROVE  Fresh(a, n, d) \in AccountRow /\ SameNames(Fresh(a, n, d), a) /\ Fresh(a, n, d).bal = a.bal
<1>1. [a EXCEPT !.day = n, !.rem = d] \in AccountRow
  BY DEF AccountRow
<1>2. /\ Fresh(a, n, d).owner = a.owner /\ Fresh(a, n, d).cur = a.cur /\ Fresh(a, n, d).del = a.del
      /\ Fresh(a, n, d).type = a.type /\ Fresh(a, n, d).fee = a.fee /\ Fresh(a, n, d).bal = a.bal
  BY DEF AccountRow, Fresh
<1> QED BY <1>1, <1>2 DEF SameNames, Fresh

LEMMA DailyInv ==
  ASSUME BankInv, NEW r \in Req, resetDailySpending(r), UNCHANGED <<benv, sess, trf, fundresv, ilog, rcpt, bfaults>>
  PROVE  BankInv'
<1> DEFINE row(i) == IF acc[i].del THEN acc[i] ELSE [acc[i] EXCEPT !.day = 0, !.rem = acc[i].dlim]
<1>1. What[r].kind = "daily" /\ at[r] # Done /\ Fini(r) /\ UNCHANGED <<paid, ghost>>
  <2>1. Is(r, "daily", "start") /\ Fini(r) /\ UNCHANGED <<paid, ghost>>
    BY Zenon DEF resetDailySpending
  <2> QED BY <2>1 DEF Is, Done
<1>2. bfaults \in Nat /\ AccountsOf(acc) /\ GhostOK
  BY DEF BankInv, TablesOK
<1>3. SameMoney(acc', acc)
  <2>1. acc' = [i \in 1 .. Len(acc) |-> row(i)]
    BY DEF resetDailySpending
  <2>2. \A i \in 1 .. Len(acc) : acc[i] \in AccountRow
    BY <1>2, AccountsAreRows
  <2>3. ASSUME NEW i \in 1 .. Len(acc)
        PROVE  row(i) \in AccountRow /\ SameNames(row(i), acc[i]) /\ row(i).bal = acc[i].bal
    <3>1. acc[i] \in AccountRow /\ acc[i].dlim \in Int
      BY <2>2 DEF AccountRow
    <3>3. CASE acc[i].del
      BY <3>1, <3>3 DEF SameNames
    <3>4. CASE ~acc[i].del
      <4>1. row(i) = Fresh(acc[i], 0, acc[i].dlim)
        BY <3>4 DEF Fresh
      <4>2. 0 \in Int
        OBVIOUS
      <4> HIDE DEF row
      <4> QED BY <3>1, <4>1, <4>2, FreshRow
    <3> QED BY <3>3, <3>4
  <2> HIDE DEF row
  <2>4. Len(acc) \in Nat
    BY <1>2, AccountsAreRows
  <2>5. acc' \in Seq(AccountRow) /\ Len(acc') = Len(acc) /\ \A i \in 1 .. Len(acc) : acc'[i] = row(i)
    BY <2>1, <2>3, <2>4
  <2> QED BY <2>3, <2>5 DEF SameMoney
<1>4. GhostGrown(r) /\ Goto(r, Done) /\ Stands(r)' /\ Done.pc = "done"
  BY <1>1, <1>2, GhostStays, FiniIs
<1> QED BY <1>1, <1>2, <1>3, <1>4, EditedInv

LEMMA MonthlyInv ==
  ASSUME BankInv, NEW r \in Req, resetMonthlySpending(r), UNCHANGED <<benv, sess, trf, fundresv, ilog, rcpt, bfaults>>
  PROVE  BankInv'
<1> DEFINE row(i) == IF acc[i].del THEN acc[i] ELSE [acc[i] EXCEPT !.month = 0]
<1>1. What[r].kind = "monthly" /\ at[r] # Done /\ Goto(r, [pc |-> "fees"]) /\ UNCHANGED <<paid, ghost>>
  BY DEF resetMonthlySpending, Is, Done
<1>2. bfaults \in Nat /\ AccountsOf(acc) /\ GhostOK /\ ControlOK
  BY DEF BankInv, TablesOK
<1>3. SameMoney(acc', acc)
  <2>1. acc' = [i \in 1 .. Len(acc) |-> row(i)]
    BY DEF resetMonthlySpending
  <2>2. \A i \in 1 .. Len(acc) : acc[i] \in AccountRow
    BY <1>2, AccountsAreRows
  <2>3. ASSUME NEW i \in 1 .. Len(acc)
        PROVE  row(i) \in AccountRow /\ SameNames(row(i), acc[i]) /\ row(i).bal = acc[i].bal
    <3>1. CASE acc[i].del
      BY <2>2, <3>1 DEF SameNames
    <3>2. CASE ~acc[i].del
      <4>1. row(i) = [acc[i] EXCEPT !.month = 0]
        BY <3>2
      <4>2. ASSUME NEW x \in AccountRow
            PROVE  [x EXCEPT !.month = 0] \in AccountRow /\ [x EXCEPT !.month = 0].bal = x.bal
        BY DEF AccountRow
      <4>3. ASSUME NEW x \in AccountRow PROVE SameNames([x EXCEPT !.month = 0], x)
        BY DEF AccountRow, SameNames
      <4> HIDE DEF row
      <4> QED BY <2>2, <4>1, <4>2, <4>3
    <3> QED BY <3>1, <3>2
  <2> HIDE DEF row
  <2>4. Len(acc) \in Nat
    BY <1>2, AccountsAreRows
  <2>5. acc' \in Seq(AccountRow) /\ Len(acc') = Len(acc) /\ \A i \in 1 .. Len(acc) : acc'[i] = row(i)
    BY <2>1, <2>3, <2>4
  <2> QED BY <2>3, <2>5 DEF SameMoney
<1>4. at'[r] = [pc |-> "fees"] /\ What' = What
  BY <1>1, <1>2, GotoIs DEF What
<1>5. GhostGrown(r) /\ Stands(r)'
  BY <1>1, <1>2, <1>4, GhostStays DEF Stands, Between
<1> QED BY <1>1, <1>2, <1>3, <1>5, EditedInv

LEMMA FromBankInv ==
  ASSUME BankInv, NEW r \in Req, TransactionFromBank(r), UNCHANGED <<benv, sess, paid, trf, fundresv, ilog, rcpt>>
  PROVE  BankInv'
<1> DEFINE w == What[r]
           i == IF w.from = 0 THEN w.to ELSE w.from
           In1(b) == Move(acc, b, Bank, w.amt, i, acc[i].owner, w.amt)
           Out1(b) == Move(acc, i, acc[i].owner, w.amt, b, Bank, w.amt)
<1>1. w.kind = "frombank" /\ at[r] # Done /\ Fini(r) /\ UNCHANGED <<ghost, bfaults>>
  <2>1. Is(r, "frombank", "start") /\ Fini(r) /\ UNCHANGED <<ghost, bfaults>>
    BY Zenon DEF TransactionFromBank
  <2> QED BY <2>1 DEF Is, Done
<1>2. bfaults' \in Nat /\ TablesOK /\ RequestOK(w) /\ AccountsOf(acc) /\ GhostOK
  BY <1>1, RequestFits DEF BankInv, TablesOK
<1>3. acc' = acc \/ \E b \in GetBankAccount(acc[i].cur) : i \in 1 .. Len(acc) /\ (acc' \in In1(b) \/ acc' \in Out1(b))
  BY DEF TransactionFromBank, getByNumber
<1>4. w.amt \in Int
  BY <1>1, <1>2 DEF RequestOK
<1> HIDE DEF i
<1>5. Shifted(acc, acc') /\ \A c \in Currency : OnAccounts(acc', c) = OnAccounts(acc, c)
  <2>1. CASE acc' = acc
    BY <1>2, <2>1, KeptSelf DEF Shifted
  <2>2. ASSUME NEW b \in GetBankAccount(acc[i].cur), i \in 1 .. Len(acc), acc' \in In1(b) \/ acc' \in Out1(b)
        PROVE  Shifted(acc, acc') /\ \A c \in Currency : OnAccounts(acc', c) = OnAccounts(acc, c)
    <3>1. b \in 1 .. Len(acc) /\ acc[b].cur = acc[i].cur
      BY <1>2, FoundAccount DEF GetBankAccount
    <3>2. \A c : Gain(acc, b, w.amt, c) = Gain(acc, i, w.amt, c) /\ Gain(acc, i, w.amt, c) \in Int
      BY <1>4, <3>1 DEF Gain
    <3>3. \A c \in Currency : OnAccounts(acc, c) \in Int
      BY <1>2, AccountsAreRows, OnAccountsInt
    <3>4. CASE acc' \in In1(b)
      <4>1. /\ Shifted(acc, acc')
            /\ \A c \in Currency : OnAccounts(acc', c) = OnAccounts(acc, c) - Gain(acc, b, w.amt, c) + Gain(acc, i, w.amt, c)
        BY <1>2, <1>4, <2>2, <3>1, <3>4, MoveEffect
      <4> QED BY <3>2, <3>3, <4>1
    <3>5. CASE acc' \in Out1(b)
      <4>1. /\ Shifted(acc, acc')
            /\ \A c \in Currency : OnAccounts(acc', c) = OnAccounts(acc, c) - Gain(acc, i, w.amt, c) + Gain(acc, b, w.amt, c)
        BY <1>2, <1>4, <2>2, <3>1, <3>5, MoveEffect
      <4> QED BY <3>2, <3>3, <4>1
    <3> QED BY <2>2, <3>4, <3>5
  <2> HIDE DEF In1, Out1
  <2> QED BY <1>3, <2>1, <2>2
<1>6. AccountsOf(acc') /\ Kept(acc, acc')
  BY <1>5 DEF Shifted
<1>7. Goto(r, Done) /\ Stands(r)' /\ Done.pc = "done" /\ GhostGrown(r)
  BY <1>1, <1>2, FiniIs, GhostStays
<1>8. ASSUME NEW c \in Currency PROVE Delta(c) = ghost'.side[c] - ghost.side[c] + PaidDelta(r, c)
  <2>1. PaidDelta(r, c) = 0
    BY <1>1, <1>2, <1>7, PaidDeltaZero
  <2> QED BY <1>1, <1>2, <1>5, <1>6, <2>1, Numbers DEF Delta
<1> QED BY <1>1, <1>2, <1>6, <1>7, <1>8, AccountsStepInv

\* Money enters or leaves on one side.
LEMMA OneSidedInv ==
  ASSUME BankInv, NEW r \in Req, at[r].pc = "start", What[r].kind \in {"creditbank", "debitbank", "exchange"},
         NEW i \in 1 .. Len(acc), NEW amt \in Int, NEW debit \in BOOLEAN, OneSided(r, i, amt, debit),
         UNCHANGED <<benv, sess, paid, trf, fundresv, ilog, rcpt, bfaults>>
  PROVE  BankInv'
<1> DEFINE g == Gain(acc, i, amt, acc[i].cur)
           side == [ghost.side EXCEPT ![acc[i].cur] = IF debit THEN ghost.side[acc[i].cur] - amt
                                                      ELSE ghost.side[acc[i].cur] + amt]
           applied == [ghost.applied EXCEPT ![r] = 1]
           to == [pc |-> "record"]
<1>1. bfaults' \in Nat /\ TablesOK /\ ControlOK /\ AccountsOf(acc) /\ GhostOK /\ at[r] # Done
  BY DEF BankInv, TablesOK, Done
<1>2. \/ UNCHANGED <<acc, ghost>> /\ Fini(r)
      \/ /\ (acc' \in DebitTx(acc, i, amt, acc[i].owner) /\ debit) \/ (acc' \in CreditTx(acc, i, amt, acc[i].owner) /\ ~debit)
         /\ ghost' = [ghost EXCEPT !.side = side, !.applied = applied]
         /\ Goto(r, to)
  <2> DEFINE B == IF debit THEN DebitTx(acc, i, amt, acc[i].owner) ELSE CreditTx(acc, i, amt, acc[i].owner)
  <2>1. \/ UNCHANGED <<acc, ghost>> /\ Fini(r)
        \/ /\ acc' \in B /\ Goto(r, to)
           /\ ghost' = [ghost EXCEPT !.side[acc[i].cur] = IF debit THEN @ - amt ELSE @ + amt, !.applied[r] = 1]
    BY Zenon DEF OneSided, DebitAlone, CreditAlone
  <2>2. ASSUME acc' \in B PROVE (acc' \in DebitTx(acc, i, amt, acc[i].owner) /\ debit) \/ (acc' \in CreditTx(acc, i, amt, acc[i].owner) /\ ~debit)
    BY <2>2
  <2>3. [ghost EXCEPT !.side[acc[i].cur] = IF debit THEN @ - amt ELSE @ + amt, !.applied[r] = 1]
          = [ghost EXCEPT !.side = side, !.applied = applied]
    BY <1>1 DEF GhostOK
  <2> HIDE DEF B, side, applied, to
  <2> QED BY <2>1, <2>2, <2>3
<1>3. CASE UNCHANGED <<acc, ghost>> /\ Fini(r)
  BY <1>1, <1>3, StillDone
<1>4. CASE /\ (acc' \in DebitTx(acc, i, amt, acc[i].owner) /\ debit) \/ (acc' \in CreditTx(acc, i, amt, acc[i].owner) /\ ~debit)
           /\ ghost' = [ghost EXCEPT !.side = side, !.applied = applied]
           /\ Goto(r, to)
  <2>1. /\ Shifted(acc, acc')
        /\ \A c \in Currency : OnAccounts(acc', c) =
             IF debit THEN OnAccounts(acc, c) - Gain(acc, i, amt, c) ELSE OnAccounts(acc, c) + Gain(acc, i, amt, c)
    <3>1. CASE debit
      BY <1>1, <1>4, <3>1, DebitEffect
    <3>2. CASE ~debit
      BY <1>1, <1>4, <3>2, CreditEffect
    <3> QED BY <3>1, <3>2
  <2>2. /\ side \in [Currency -> Int]
        /\ \A c \in Currency : side[c] = IF debit THEN ghost.side[c] - Gain(acc, i, amt, c) ELSE ghost.side[c] + Gain(acc, i, amt, c)
    <3>1. acc[i].cur \in Currency /\ ghost.side \in [Currency -> Int]
      BY <1>1, AccountsAreRows DEF GhostOK
    <3>2. side \in [Currency -> Int]
      BY <3>1
    <3>3. \A c \in Currency : side[c] = IF debit THEN ghost.side[c] - Gain(acc, i, amt, c) ELSE ghost.side[c] + Gain(acc, i, amt, c)
      BY <3>1 DEF Gain
    <3> QED BY <3>2, <3>3
  <2>3. applied \in [Req -> Nat] /\ applied[r] = 1 /\ \A q \in Req : q # r => applied[q] = ghost.applied[q]
    BY <1>1 DEF GhostOK
  <2> HIDE DEF side, applied
  <2>4. /\ DOMAIN ghost' = {"side", "applied", "odd"}
        /\ ghost'.side = side /\ ghost'.applied = applied /\ ghost'.odd = ghost.odd
    BY <1>1, <1>4 DEF GhostOK
  <2>5. GhostGrown(r)
    BY <2>2, <2>3, <2>4 DEF GhostGrown
  <2>6. AccountsOf(acc') /\ Kept(acc, acc')
    BY <2>1 DEF Shifted
  <2>7. at'[r] = to /\ What' = What
    BY <1>1, <1>4, GotoIs DEF What
  <2>8. Stands(r)'
    BY <2>7 DEF Stands, Between
  <2>9. ASSUME NEW c \in Currency PROVE Delta(c) = ghost'.side[c] - ghost.side[c] + PaidDelta(r, c)
    <3>1. PaidDelta(r, c) = 0
      BY <1>1, <2>5, PaidDeltaZero DEF Pays
    <3>2. Gain(acc, i, amt, c) \in Int
      BY GainInt
    <3>3. /\ OnAccounts(acc, c) \in Int /\ OnAccounts(acc', c) \in Int
          /\ ghost.side[c] \in Int /\ ghost'.side[c] \in Int /\ ghost'.side[c] = side[c]
      BY <1>1, <2>2, <2>4, <2>6, Numbers
    <3>4. CASE debit
      <4>1. OnAccounts(acc', c) = OnAccounts(acc, c) - Gain(acc, i, amt, c) /\ side[c] = ghost.side[c] - Gain(acc, i, amt, c)
        BY <2>1, <2>2, <3>4
      <4>2. Delta(c) = 0 - Gain(acc, i, amt, c)
        BY <3>2, <3>3, <4>1 DEF Delta
      <4>3. ghost'.side[c] - ghost.side[c] = 0 - Gain(acc, i, amt, c)
        BY <3>2, <3>3, <4>1
      <4> QED BY <3>1, <3>2, <4>2, <4>3
    <3>5. CASE ~debit
      <4>1. OnAccounts(acc', c) = OnAccounts(acc, c) + Gain(acc, i, amt, c) /\ side[c] = ghost.side[c] + Gain(acc, i, amt, c)
        BY <2>1, <2>2, <3>5
      <4>2. Delta(c) = Gain(acc, i, amt, c)
        BY <3>2, <3>3, <4>1 DEF Delta
      <4>3. ghost'.side[c] - ghost.side[c] = Gain(acc, i, amt, c)
        BY <3>2, <3>3, <4>1
      <4> QED BY <3>1, <3>2, <4>2, <4>3
    <3> QED BY <3>4, <3>5
  <2>10. to.pc = "record"
    OBVIOUS
  <2> HIDE DEF to
  <2> QED BY <1>1, <1>4, <2>3, <2>4, <2>5, <2>6, <2>8, <2>9, <2>10, AccountsStepInv
<1> HIDE DEF side, applied, to
<1> QED BY <1>2, <1>3, <1>4

LEMMA CreditBankInv ==
  ASSUME BankInv, NEW r \in Req, CreditBank(r), UNCHANGED <<benv, sess, paid, trf, fundresv, ilog, rcpt>>
  PROVE  BankInv'
<1>1. /\ What[r].kind = "creditbank" /\ at[r].pc = "start" /\ bfaults' = bfaults
      /\ \E i \in GetBankAccount(What[r].cur) : OneSided(r, i, What[r].amt, FALSE)
  BY Zenon DEF CreditBank, Is
<1>2. AccountsOf(acc) /\ What[r].amt \in Int
  BY <1>1, RequestFits DEF BankInv, TablesOK, RequestOK
<1>3. PICK i \in GetBankAccount(What[r].cur) : OneSided(r, i, What[r].amt, FALSE)
  BY <1>1
<1>4. i \in 1 .. Len(acc)
  BY <1>2, FoundAccount DEF GetBankAccount
<1> QED BY <1>1, <1>2, <1>3, <1>4, OneSidedInv

LEMMA DebitBankInv ==
  ASSUME BankInv, NEW r \in Req, DebitBank(r), UNCHANGED <<benv, sess, paid, trf, fundresv, ilog, rcpt>>
  PROVE  BankInv'
<1>1. /\ What[r].kind = "debitbank" /\ at[r].pc = "start" /\ bfaults' = bfaults
      /\ \E i \in GetBankAccount(What[r].cur) : OneSided(r, i, What[r].amt, TRUE)
  BY Zenon DEF DebitBank, Is
<1>2. AccountsOf(acc) /\ What[r].amt \in Int
  BY <1>1, RequestFits DEF BankInv, TablesOK, RequestOK
<1>3. PICK i \in GetBankAccount(What[r].cur) : OneSided(r, i, What[r].amt, TRUE)
  BY <1>1
<1>4. i \in 1 .. Len(acc)
  BY <1>2, FoundAccount DEF GetBankAccount
<1> QED BY <1>1, <1>2, <1>3, <1>4, OneSidedInv

LEMMA ExchangeInv ==
  ASSUME BankInv, NEW r \in Req, exchangeOneSided(r), UNCHANGED <<benv, sess, paid, trf, fundresv, ilog, rcpt>>
  PROVE  BankInv'
<1> DEFINE w == What[r]
<1>1. /\ w.kind = "exchange" /\ at[r].pc = "start" /\ bfaults' = bfaults
      /\ (Fini(r) /\ UNCHANGED <<acc, ghost>>) \/ OneSided(r, w.i, w.amt, w.buy)
  BY Zenon DEF exchangeOneSided, Is
<1>2. /\ AccountsOf(acc) /\ w.amt \in Int /\ w.i \in 1 .. Len(acc) /\ w.buy \in BOOLEAN /\ bfaults' \in Nat
      /\ at[r] # Done
  BY <1>1, RequestFits DEF BankInv, TablesOK, RequestOK, Done
<1>3. CASE Fini(r) /\ UNCHANGED <<acc, ghost>>
  BY <1>1, <1>2, <1>3, StillDone
<1>4. CASE OneSided(r, w.i, w.amt, w.buy)
  BY <1>1, <1>2, <1>4, OneSidedInv
<1> QED BY <1>1, <1>3, <1>4
--------------------------------------------------------------------------
(* Payments and transfers. *)

\* A request's money moved once more.
Committed(r) ==
  /\ Shifted(acc, acc') /\ \A c \in Currency : OnAccounts(acc', c) = OnAccounts(acc, c) + PaidOn(acc, What[r], c)
  /\ GhostGrown(r) /\ ghost'.side = ghost.side /\ ghost'.applied[r] = ghost.applied[r] + 1

LEMMA AppliedGrown ==
  ASSUME GhostOK, NEW r \in Req, NEW old, ghost.odd \subseteq old.odd,
         DOMAIN old = {"side", "applied", "odd"}, old.side = ghost.side, old.applied = ghost.applied,
         ghost' = [old EXCEPT !.applied[r] = @ + 1]
  PROVE  /\ GhostGrown(r) /\ ghost'.side = ghost.side /\ ghost'.applied[r] = ghost.applied[r] + 1
         /\ ghost'.odd = old.odd
<1> DEFINE applied == [ghost.applied EXCEPT ![r] = ghost.applied[r] + 1]
<1>1. ghost' = [old EXCEPT !.applied = applied]
  OBVIOUS
<1>2. applied \in [Req -> Nat] /\ applied[r] = ghost.applied[r] + 1 /\ \A q \in Req : q # r => applied[q] = ghost.applied[q]
  BY DEF GhostOK
<1> HIDE DEF applied
<1>3. /\ DOMAIN ghost' = {"side", "applied", "odd"} /\ ghost'.side = ghost.side /\ ghost'.applied = applied
      /\ ghost'.odd = old.odd
  BY <1>1
<1> QED BY <1>2, <1>3 DEF GhostGrown, GhostOK

LEMMA PaymentCommitted ==
  ASSUME BankInv, NEW r \in Req, Pays(What[r]), NEW client, NEW same,
         acc' \in applyPaymentOperation(What[r].from, What[r].to, PaymentOf(What[r]), client, same)
  PROVE  Shifted(acc, acc') /\ \A c \in Currency : OnAccounts(acc', c) = OnAccounts(acc, c) + PaidOn(acc, What[r], c)
<1> DEFINE w == What[r]
<1>1. TablesOK /\ AccountsOf(acc) /\ RequestOK(w) /\ Known \subseteq 1 .. Len(acc)
  BY RequestFits DEF BankInv, TablesOK
<1>2. w.from \in 1 .. Len(acc) /\ w.to \in 1 .. Len(acc) /\ IsPayment(acc, w.from, w.to, PayOn(acc, w))
  BY <1>1, PaymentFits
<1>3. acc' \in applyPaymentTx(acc, w.from, w.to, PayOn(acc, w))
  BY PaymentIs, Zenon DEF applyPaymentOperation
<1> HIDE DEF w
<1>4. /\ Shifted(acc, acc')
      /\ \A c \in Currency : OnAccounts(acc', c) = OnAccounts(acc, c) + BankGain(acc, w.from, w.to, PayOn(acc, w), c)
  BY <1>1, <1>2, <1>3, PaymentEffect
<1> QED BY <1>4 DEF PaidOn, w

\* What one attempt can leave.
LEMMA AppliesIs ==
  ASSUME BankInv, NEW r \in Req, Pays(What[r]), NEW client, NEW same, NEW yes, NEW no,
         Applies(r, What[r].from, What[r].to, PaymentOf(What[r]), client, same, yes, no)
  PROVE  /\ bfaults' \in Nat
         /\ \/ Committed(r) /\ ghost'.odd = ghost.odd /\ Goto(r, yes)
            \/ Committed(r) /\ "lost" \in ghost'.odd /\ Goto(r, no)
            \/ UNCHANGED <<acc, ghost>> /\ Goto(r, no)
<1> DEFINE B == applyPaymentOperation(What[r].from, What[r].to, PaymentOf(What[r]), client, same)
<1>1. bfaults \in Nat /\ GhostOK
  BY DEF BankInv, TablesOK
<1>2. BNoFail \/ BFail("lostcommit") \/ BFail("db")
  BY Zenon DEF Applies
<1>3. bfaults' \in Nat
  BY <1>1, <1>2 DEF BFail, BNoFail
<1>4. \/ acc' \in B /\ ghost' = [ghost EXCEPT !.applied[r] = @ + 1] /\ Goto(r, yes)
      \/ acc' \in B /\ ghost' = [Odd("lost") EXCEPT !.applied[r] = @ + 1] /\ Goto(r, no)
      \/ UNCHANGED <<acc, ghost>> /\ Goto(r, no)
  BY Zenon DEF Applies
<1>5. CASE acc' \in B /\ ghost' = [ghost EXCEPT !.applied[r] = @ + 1] /\ Goto(r, yes)
  <2>1. DOMAIN ghost = {"side", "applied", "odd"}
    BY <1>1 DEF GhostOK
  <2>2. /\ GhostGrown(r) /\ ghost'.side = ghost.side /\ ghost'.applied[r] = ghost.applied[r] + 1
        /\ ghost'.odd = ghost.odd
    BY <1>1, <1>5, <2>1, AppliedGrown
  <2>3. Shifted(acc, acc') /\ \A c \in Currency : OnAccounts(acc', c) = OnAccounts(acc, c) + PaidOn(acc, What[r], c)
    BY <1>5, PaymentCommitted
  <2> QED BY <1>3, <1>5, <2>2, <2>3 DEF Committed
<1>6. CASE acc' \in B /\ ghost' = [Odd("lost") EXCEPT !.applied[r] = @ + 1] /\ Goto(r, no)
  <2> DEFINE old == Odd("lost")
  <2>1. /\ DOMAIN old = {"side", "applied", "odd"} /\ old.side = ghost.side /\ old.applied = ghost.applied
        /\ old.odd = ghost.odd \cup {"lost"}
    BY <1>1 DEF Odd, GhostOK
  <2>4. ghost' = [old EXCEPT !.applied[r] = @ + 1]
    BY <1>6
  <2> HIDE DEF old
  <2>2. /\ GhostGrown(r) /\ ghost'.side = ghost.side /\ ghost'.applied[r] = ghost.applied[r] + 1
        /\ ghost'.odd = ghost.odd \cup {"lost"}
    BY <1>1, <2>1, <2>4, AppliedGrown
  <2>3. Shifted(acc, acc') /\ \A c \in Currency : OnAccounts(acc', c) = OnAccounts(acc, c) + PaidOn(acc, What[r], c)
    BY <1>6, PaymentCommitted
  <2> QED BY <1>3, <1>6, <2>2, <2>3 DEF Committed
<1> HIDE DEF B
<1> QED BY <1>3, <1>4, <1>5, <1>6

\* The money of such a step is what the request's count says.
LEMMA CommittedMoney ==
  ASSUME BankInv, NEW r \in Req, Committed(r)
  PROVE  \A c \in Currency : Delta(c) = PaidDelta(r, c) /\ PaidDelta(r, c) = ghost'.side[c] - ghost.side[c] + PaidDelta(r, c)
<1>1. TablesOK /\ AccountsOf(acc) /\ RequestOK(What[r]) /\ Known \subseteq 1 .. Len(acc)
  BY RequestFits DEF BankInv, TablesOK
<1>2. AccountsOf(acc') /\ ghost.applied[r] \in Int
  BY <1>1 DEF Committed, Shifted, TablesOK, GhostOK
<1>3. ASSUME NEW c \in Currency PROVE Delta(c) = PaidDelta(r, c) /\ PaidDelta(r, c) = ghost'.side[c] - ghost.side[c] + PaidDelta(r, c)
  <2> DEFINE p == PaidOn(acc, What[r], c)
  <2>1. p \in Int
    BY <1>1, PaidOnInt
  <2>2. PaidDelta(r, c) = (ghost'.applied[r] - ghost.applied[r]) * p
    BY DEF PaidDelta
  <2>3. OnAccounts(acc', c) = OnAccounts(acc, c) + p /\ ghost'.side[c] = ghost.side[c] /\ ghost'.applied[r] = ghost.applied[r] + 1
    BY DEF Committed
  <2> HIDE DEF p
  <2>4. ghost'.applied[r] - ghost.applied[r] = 1
    BY <1>2, <2>3
  <2>5. PaidDelta(r, c) = p
    BY <2>1, <2>2, <2>4
  <2> QED BY <1>1, <1>2, <2>1, <2>3, <2>5, Numbers DEF Delta
<1> QED BY <1>3

LEMMA UnmovedMoney ==
  ASSUME BankInv, NEW r \in Req, UNCHANGED acc, GhostGrown(r), ghost'.applied[r] = ghost.applied[r], NEW c \in Currency
  PROVE  Delta(c) = PaidDelta(r, c)
<1>1. TablesOK /\ AccountsOf(acc')
  BY DEF BankInv, TablesOK
<1>2. PaidDelta(r, c) = 0
  BY <1>1, PaidDeltaZero
<1> QED BY <1>1, <1>2, Numbers DEF Delta

\* A step of a payment or a transfer.
LEMMA PayStep ==
  ASSUME BankInv, NEW r \in Req, NEW s, Goto(r, s), at[r] # Done,
         UNCHANGED <<benv, sess, fundresv, ilog, rcpt>>, AccountsOf(acc'), Kept(acc, acc'),
         paid' \in Seq(PaidRow), Len(paid) =< Len(paid'), \A k \in 1 .. Len(paid) : paid'[k].r = paid[k].r,
         trf' \in Seq(TransferRow), Len(trf) =< Len(trf'), \A k \in 1 .. Len(trf) : trf'[k] = trf[k],
         trf' = trf \/ TransfersOK', bfaults' \in Nat,
         GhostGrown(r), ghost'.side = ghost.side, \A c \in Currency : Delta(c) = PaidDelta(r, c),
         Stands(r)', CountKept(r)', PastCheck(r)' => Confirmed(What[r].session),
         \A k \in 1 .. Len(paid') :
           RowKept(k)' \/ (k \in 1 .. Len(paid) /\ paid[k].r # r /\ paid'[k].st = paid[k].st)
  PROVE  BankInv'
<1>1. TablesOK /\ ControlOK /\ HoldsOK /\ MoneyOK /\ TransfersOK /\ RecipientsApart
  BY DEF BankInv
<1>2. TablesOK' /\ Grown({r})
  <2>1. /\ fundresv' \in Seq(HoldRow) /\ Len(fundresv) =< Len(fundresv') /\ ilog' \in Seq(LogRow)
        /\ rcpt' \in Seq(RecipientRow)
    BY <1>1, Lengths DEF TablesOK
  <2> QED BY <1>1, <2>1, StepTables
<1>3. HoldsOK'
  BY <1>1, HoldsStep
<1>4. MoneyOK'
  <2>1. \A c : HeldDelta(c) = 0 /\ GapDelta(c) = 0
    BY <1>1, <1>2, RowsStill
  <2>2. ASSUME NEW c \in Currency
        PROVE  Delta(c) + HeldDelta(c) = ghost'.side[c] - ghost.side[c] + GapDelta(c) + PaidDelta(r, c)
    <3>1. Delta(c) \in Int /\ Delta(c) = PaidDelta(r, c) /\ ghost.side[c] \in Int
      BY <1>1, Numbers DEF Delta
    <3> QED BY <2>1, <3>1
  <2> QED BY <1>1, <1>2, <2>2, MoneyStep
<1>5. TransfersOK'
  <2>1. \A q \in {r} : at[q] # Done
    OBVIOUS
  <2> QED BY <1>1, <1>2, <2>1, TransfersStep
<1>6. RecipientsApart'
  BY <1>1 DEF RecipientsApart
<1>7. \A q \in {r} : Stands(q)' /\ CountKept(q)' /\ (PastCheck(q)' => Confirmed(What[q].session))
  OBVIOUS
<1>8. \A k \in 1 .. Len(paid') :
        RowKept(k)' \/ (k \in 1 .. Len(paid) /\ paid[k].r \notin {r} /\ paid'[k].st = paid[k].st)
  OBVIOUS
<1> QED BY <1>2, <1>3, <1>4, <1>5, <1>6, <1>7, <1>8, StepInv

LEMMA TransactionInv ==
  ASSUME BankInv, NEW r \in Req, Transaction(r), UNCHANGED <<benv, sess, paid, trf, fundresv, ilog, rcpt>>
  PROVE  BankInv'
<1> DEFINE w == What[r]
           to == [pc |-> "record"]
<1>1. /\ w.kind = "transaction" /\ at[r].pc = "start" /\ at[r] # Done /\ Pays(w)
      /\ Applies(r, w.from, w.to, PaymentOf(w), w.client, w.same, to, Done)
  <2>1. Is(r, "transaction", "start") /\ Applies(r, w.from, w.to, PaymentOf(w), w.client, w.same, to, Done)
    BY Zenon DEF Transaction
  <2> QED BY <2>1 DEF Is, Done, Pays
<1>2. TablesOK /\ ControlOK /\ GhostOK /\ ghost.applied[r] = 0
  BY <1>1, StartsAtZero DEF BankInv, TablesOK
<1>3. /\ bfaults' \in Nat
      /\ \/ Committed(r) /\ Goto(r, to)
         \/ Committed(r) /\ Goto(r, Done)
         \/ UNCHANGED <<acc, ghost>> /\ Goto(r, Done)
  <2> HIDE DEF to, w
  <2>1. /\ bfaults' \in Nat
        /\ \/ Committed(r) /\ ghost'.odd = ghost.odd /\ Goto(r, to)
           \/ Committed(r) /\ "lost" \in ghost'.odd /\ Goto(r, Done)
           \/ UNCHANGED <<acc, ghost>> /\ Goto(r, Done)
    BY <1>1, AppliesIs DEF w
  <2> QED BY <2>1
<1>4. CASE UNCHANGED <<acc, ghost>> /\ Goto(r, Done)
  BY <1>1, <1>3, <1>4, StillDone DEF Fini
<1>5. ASSUME Committed(r), NEW s \in {to, Done}, Goto(r, s) PROVE BankInv'
  <2>1. AccountsOf(acc') /\ Kept(acc, acc') /\ GhostGrown(r) /\ ghost'.applied[r] = 1
    BY <1>2, <1>5 DEF Committed, Shifted
  <2>2. at'[r] = s /\ What' = What
    BY <1>2, <1>5, GotoIs DEF What
  <2>3. Stands(r)' /\ s.pc \notin {"start", "check", "expire"}
    BY <1>1, <1>5, <2>2 DEF Stands, Between, Done
  <2>4. \A c \in Currency : Delta(c) = ghost'.side[c] - ghost.side[c] + PaidDelta(r, c)
    BY <1>5, CommittedMoney
  <2> HIDE DEF to
  <2> QED BY <1>1, <1>3, <1>5, <2>1, <2>3, <2>4, AccountsStepInv
<1> HIDE DEF to
<1> QED BY <1>3, <1>4, <1>5

\* What a payment's step finds: its session, and which row is its own.
LEMMA SessionConfirmed ==
  ASSUME BankInv, NEW i, verificationVerified(i)
  PROVE  Confirmed(i)
  BY DEF BankInv, SessionsOK, verificationVerified, findSession, Confirmed

LEMMA OwnRows ==
  ASSUME BankInv, NEW r \in Req, What[r].kind \in {"payment", "transfer"}, at[r] # Done
  PROVE  \A k \in 1 .. Len(paid) :
           paid[k].r = r => at[r].pc \in {"apply", "finish"} /\ at[r].k = k /\ paid[k].st # "COMPLETED"
                            /\ What[r].kind = "payment"
<1>1. \A k \in 1 .. Len(paid) : RowKept(k)
  BY DEF BankInv, PaidOK
<1> QED BY <1>1 DEF RowKept

LEMMA SessionFound ==
  ASSUME NEW i, MustExpire(i)
  PROVE  i \in 1 .. Len(sess)
  BY DEF MustExpire, findSession

\* A step of such a request that moves nothing and writes nothing.
LEMMA PauseStep ==
  ASSUME BankInv, NEW r \in Req, NEW s, Goto(r, s), at[r] # Done, What[r].kind \in {"payment", "transfer"},
         at[r].pc \notin {"apply", "finish"},
         UNCHANGED <<benv, sess, fundresv, ilog, rcpt, acc, paid, trf, ghost>>, bfaults' \in Nat,
         Stands(r)', CountKept(r)', PastCheck(r)' => Confirmed(What[r].session)
  PROVE  BankInv'
<1>1. TablesOK /\ GhostOK /\ AccountsOf(acc) /\ Kept(acc, acc)
  BY KeptSelf DEF BankInv, TablesOK
<1>2. GhostGrown(r) /\ ghost'.side = ghost.side /\ ghost'.applied = ghost.applied
  BY <1>1, GhostStays
<1>3. \A c \in Currency : Delta(c) = PaidDelta(r, c)
  BY <1>2, UnmovedMoney
<1>4. \A k \in 1 .. Len(paid) : paid[k].r # r
  BY OwnRows
<1>5. /\ paid' \in Seq(PaidRow) /\ Len(paid) =< Len(paid') /\ (\A k \in 1 .. Len(paid) : paid'[k].r = paid[k].r)
      /\ trf' \in Seq(TransferRow) /\ Len(trf) =< Len(trf') /\ (\A k \in 1 .. Len(trf) : trf'[k] = trf[k])
  BY <1>1, Lengths DEF TablesOK
<1>6. \A k \in 1 .. Len(paid') : k \in 1 .. Len(paid) /\ paid[k].r # r /\ paid'[k].st = paid[k].st
  BY <1>4
<1>7. AccountsOf(acc') /\ Kept(acc, acc')
  BY <1>1
<1> QED BY <1>2, <1>3, <1>5, <1>6, <1>7, PayStep

\* A request that gives up, or finds its session late, moved nothing.
LEMMA StopStep ==
  ASSUME BankInv, NEW r \in Req, What[r].kind \in {"payment", "transfer"},
         at[r].pc \in {"start", "check"} \/ (What[r].kind = "payment" /\ at[r].pc \in {"info", "create"}),
         Fini(r) \/ (Goto(r, [pc |-> "expire"]) /\ MustExpire(What[r].session)),
         UNCHANGED <<benv, sess, fundresv, ilog, rcpt, acc, paid, trf, ghost>>, bfaults' \in Nat
  PROVE  BankInv'
<1>1. ghost.applied[r] = 0 /\ ControlOK /\ What' = What /\ at[r] # Done /\ at[r].pc \notin {"apply", "finish"}
  BY StartsAtZero DEF BankInv, What, Done
<1>2. PICK s : Goto(r, s) /\ (s = Done \/ (s = [pc |-> "expire"] /\ MustExpire(What[r].session)))
  BY DEF Fini
<1>3. at'[r] = s
  BY <1>1, <1>2, GotoIs
<1>4. s = Done \/ (s = [pc |-> "expire"] /\ What[r].session \in 1 .. Len(sess))
  BY <1>2, SessionFound
<1>5. Stands(r)' /\ CountKept(r)' /\ ~PastCheck(r)'
  BY <1>1, <1>3, <1>4 DEF Stands, Between, CountKept, PastCheck, Applied, Done
<1> QED BY <1>1, <1>2, <1>5, PauseStep

\* A new payment gets its row.
NewRow(r, st, from, to, p) ==
  [r |-> r, st |-> st, from |-> from, to |-> to, sender |-> acc[from].owner, rec |-> acc[to].owner, old |-> FALSE, p |-> p]
LEMMA NewRowIs ==
  ASSUME TablesOK, NEW r \in Req, NEW st \in {"IN_PROGRESS", "COMPLETED", "DENIED"},
         NEW from \in 1 .. Len(acc), NEW to \in 1 .. Len(acc), NEW p \in [amt : Int, in : Int, fee : Int]
  PROVE  /\ NewRow(r, st, from, to, p) \in PaidRow
         /\ NewRow(r, st, from, to, p).r = r /\ NewRow(r, st, from, to, p).st = st
<1>1. /\ Len(acc) \in Nat /\ acc[from].owner \in Int /\ acc[to].owner \in Int
  BY AccountsAreRows DEF TablesOK
<1>2. from \in Nat /\ to \in Nat
  BY <1>1
<1> QED BY <1>1, <1>2 DEF NewRow, PaidRow

LEMMA PaidAppended ==
  ASSUME TablesOK, NEW row \in PaidRow, paid' = Append(paid, row)
  PROVE  /\ paid' \in Seq(PaidRow) /\ Len(paid') = Len(paid) + 1 /\ Len(paid) \in Nat
         /\ (\A k \in 1 .. Len(paid) : paid'[k] = paid[k]) /\ paid'[Len(paid) + 1] = row
<1>1. paid \in Seq(PaidRow)
  BY DEF TablesOK
<1> QED BY <1>1

LEMMA PaymentBegins ==
  ASSUME BankInv, NEW r \in Req, What[r].kind = "payment", at[r].pc = "create",
         paid' = createPayment(r, PaymentOf(What[r])),
         NEW client, NEW same,
         Goto(r, [pc |-> "apply", k |-> Len(paid) + 1, n |-> 3, p |-> PaymentOf(What[r]), client |-> client, same |-> same]),
         UNCHANGED <<benv, sess, trf, fundresv, ilog, rcpt, acc, ghost, bfaults>>
  PROVE  BankInv'
<1> DEFINE w == What[r]
           p == PaymentOf(w)
           K == Len(paid) + 1
           s == [pc |-> "apply", k |-> K, n |-> 3, p |-> p, client |-> client, same |-> same]
<1>1. /\ TablesOK /\ ControlOK /\ GhostOK /\ ghost.applied[r] = 0 /\ at[r] # Done /\ AccountsOf(acc) /\ Kept(acc, acc)
      /\ bfaults' \in Nat /\ Pays(w)
  BY StartsAtZero, KeptSelf DEF BankInv, TablesOK, Done, Pays
<1>2. w.from \in 1 .. Len(acc) /\ w.to \in 1 .. Len(acc) /\ p \in [amt : Int, in : Int, fee : Int]
  <2>1. RequestOK(w) /\ Known \subseteq 1 .. Len(acc)
    BY <1>1, RequestFits
  <2>2. w.from \in 1 .. Len(acc) /\ w.to \in 1 .. Len(acc) /\ IsPayment(acc, w.from, w.to, PayOn(acc, w))
    BY <1>1, <2>1, PaymentFits
  <2>3. p = PayOn(acc, w)
    BY PaymentIs
  <2>4. PayOn(acc, w) \in [amt : Int, in : Int, fee : Int]
    BY <2>2 DEF IsPayment, PayOn
  <2> QED BY <2>2, <2>3, <2>4
<1>3. paid' = Append(paid, NewRow(r, "IN_PROGRESS", w.from, w.to, p))
  BY DEF createPayment, NewRow
<1> HIDE DEF p
<1>4. /\ NewRow(r, "IN_PROGRESS", w.from, w.to, p) \in PaidRow
      /\ NewRow(r, "IN_PROGRESS", w.from, w.to, p).r = r /\ NewRow(r, "IN_PROGRESS", w.from, w.to, p).st = "IN_PROGRESS"
  BY <1>1, <1>2, NewRowIs
<1>5. /\ paid' \in Seq(PaidRow) /\ Len(paid') = K /\ Len(paid) \in Nat
      /\ (\A k \in 1 .. Len(paid) : paid'[k] = paid[k]) /\ paid'[K].r = r /\ paid'[K].st = "IN_PROGRESS"
  BY <1>1, <1>3, <1>4, PaidAppended
<1>6. at'[r] = s /\ What' = What /\ PaymentOf(What[r])' = p /\ Goto(r, s)
  <2>1. Goto(r, s)
    BY DEF p
  <2>2. What' = What
    BY DEF What
  <2>3. PaymentOf(What[r])' = PaymentOf(What[r])
    BY <2>2 DEF PaymentOf
  <2> HIDE DEF s
  <2> QED BY <1>1, <2>1, <2>2, <2>3, GotoIs DEF p
<1>7. What'[r] = What[r] /\ What[r].kind = "payment"
  BY <1>6
<1>8. Stands(r)'
  <2>1. K \in 1 .. Len(paid') /\ paid'[K].r = r
    BY <1>5
  <2>2. Paying(r)'
    BY <1>6, <1>7, <2>1 DEF Paying
  <2> QED BY <2>2 DEF Stands
<1>9. CountKept(r)'
  BY <1>1, <1>6, <1>7 DEF CountKept, Applied
<1>10. Confirmed(What[r].session)
  BY DEF BankInv, SessionsOK, PastCheck
<1>11. GhostGrown(r) /\ ghost'.side = ghost.side /\ ghost'.applied = ghost.applied
  BY <1>1, GhostStays
<1>12. \A c \in Currency : Delta(c) = PaidDelta(r, c)
  BY <1>11, UnmovedMoney
<1>13. \A k \in 1 .. Len(paid') :
        RowKept(k)' \/ (k \in 1 .. Len(paid) /\ paid[k].r # r /\ paid'[k].st = paid[k].st)
  <2>1. \A k \in 1 .. Len(paid) : paid[k].r # r
    BY <1>1, OwnRows
  <2>2. ASSUME NEW k, k = K PROVE RowKept(k)'
    BY <1>5, <1>6, <1>7, <2>2 DEF RowKept
  <2>3. \A k \in 1 .. Len(paid') : k \in 1 .. Len(paid) \/ k = K
    BY <1>5
  <2> QED BY <1>5, <2>1, <2>2, <2>3
<1>14. /\ Len(paid) =< Len(paid') /\ (\A k \in 1 .. Len(paid) : paid'[k].r = paid[k].r)
       /\ trf' \in Seq(TransferRow) /\ Len(trf) =< Len(trf') /\ (\A k \in 1 .. Len(trf) : trf'[k] = trf[k])
  BY <1>1, <1>5, Lengths DEF TablesOK
<1>15. AccountsOf(acc') /\ Kept(acc, acc')
  BY <1>1
<1> HIDE DEF s, K
<1> QED BY <1>1, <1>5, <1>6, <1>8, <1>9, <1>10, <1>11, <1>12, <1>13, <1>14, <1>15, PayStep

\* Where a payment stands that is applying its money or finishing.
LEMMA PaymentAt ==
  ASSUME BankInv, NEW r \in Req, What[r].kind = "payment", at[r].pc \in {"apply", "finish"}
  PROVE  /\ Paying(r) /\ at[r] # Done /\ at[r].k \in 1 .. Len(paid) /\ paid[at[r].k].r = r
         /\ paid[at[r].k].st # "COMPLETED" /\ Confirmed(What[r].session)
         /\ (\A k \in 1 .. Len(paid) : paid[k].r = r => k = at[r].k)
<1>1. Stands(r) /\ SessionsOK /\ at[r] # Done
  BY DEF BankInv, ControlOK, Done
<1>2. Paying(r)
  BY <1>1 DEF Stands, Transferring, Between
<1>3. \A k \in 1 .. Len(paid) : paid[k].r = r => at[r].k = k /\ paid[k].st # "COMPLETED"
  BY <1>1, OwnRows
<1>4. Confirmed(What[r].session)
  BY <1>1 DEF SessionsOK, PastCheck
<1> QED BY <1>1, <1>2, <1>3, <1>4 DEF Paying

LEMMA PaymentKept ==
  ASSUME TablesOK, NEW r \in Req, Pays(What[r]), benv' = benv, AccountsOf(acc'), Kept(acc, acc')
  PROVE  PaymentOf(What[r])' = PaymentOf(What[r]) /\ What' = What
<1>1. RequestOK(What[r]) /\ Known \subseteq 1 .. Len(acc)
  BY RequestFits
<1>2. PayOn(acc', What[r]) = PayOn(acc, What[r])
  BY <1>1, PaidOnKept
<1>3. What' = What
  BY DEF What
<1>4. PaymentOf(What[r])' = PayOn(acc', What'[r])
  BY DEF PaymentOf, PayOn
<1> QED BY <1>2, <1>3, <1>4, PaymentIs

\* A payment's attempt: where it goes, and what its count says then.
LEMMA PaymentMoves ==
  ASSUME BankInv, NEW r \in Req, What[r].kind = "payment", at[r].pc = "apply", NEW s, Goto(r, s),
         \/ Committed(r) /\ ghost'.odd = ghost.odd /\ s = [pc |-> "finish", k |-> at[r].k, st |-> "COMPLETED"]
         \/ /\ (Committed(r) /\ "lost" \in ghost'.odd) \/ UNCHANGED <<acc, ghost>>
            /\ s = IF at[r].n = 1 THEN [pc |-> "finish", k |-> at[r].k, st |-> "DENIED"] ELSE [at[r] EXCEPT !.n = at[r].n - 1],
         UNCHANGED <<benv, sess, trf, fundresv, ilog, rcpt, paid>>, bfaults' \in Nat
  PROVE  BankInv'
<1>1. /\ TablesOK /\ ControlOK /\ GhostOK /\ AccountsOf(acc) /\ Kept(acc, acc) /\ Pays(What[r])
      /\ ghost.applied[r] \in Nat
  BY KeptSelf DEF BankInv, TablesOK, Pays, GhostOK
<1>2. /\ Paying(r) /\ at[r] # Done /\ at[r].k \in 1 .. Len(paid) /\ paid[at[r].k].r = r
      /\ paid[at[r].k].st # "COMPLETED" /\ Confirmed(What[r].session)
      /\ (\A k \in 1 .. Len(paid) : paid[k].r = r => k = at[r].k)
  BY PaymentAt
<1>3. /\ at[r] = [pc |-> "apply", k |-> at[r].k, n |-> at[r].n, p |-> PaymentOf(What[r]), client |-> at[r].client, same |-> at[r].same]
      /\ at[r].n \in Int
  BY <1>2 DEF Paying
<1>4. /\ AccountsOf(acc') /\ Kept(acc, acc') /\ GhostGrown(r) /\ ghost'.side = ghost.side
      /\ \A c \in Currency : Delta(c) = PaidDelta(r, c)
  <2>1. CASE Committed(r)
    BY <2>1, CommittedMoney DEF Committed, Shifted
  <2>2. CASE UNCHANGED <<acc, ghost>>
    <3>1. AccountsOf(acc') /\ Kept(acc, acc') /\ GhostGrown(r) /\ ghost'.side = ghost.side /\ ghost'.applied = ghost.applied
      BY <1>1, <2>2, GhostStays
    <3>2. \A c \in Currency : Delta(c) = PaidDelta(r, c)
      BY <2>2, <3>1, UnmovedMoney
    <3> QED BY <3>1, <3>2
  <2> QED BY <2>1, <2>2
<1>5. at'[r] = s /\ What' = What /\ PaymentOf(What[r])' = PaymentOf(What[r])
  BY <1>1, <1>4, PaymentKept, GotoIs
<1>6. \/ s = [pc |-> "finish", k |-> at[r].k, st |-> "COMPLETED"]
      \/ s = [pc |-> "finish", k |-> at[r].k, st |-> "DENIED"]
      \/ s = [pc |-> "apply", k |-> at[r].k, n |-> at[r].n - 1, p |-> PaymentOf(What[r]), client |-> at[r].client, same |-> at[r].same]
  <2>1. [at[r] EXCEPT !.n = at[r].n - 1]
        = [pc |-> "apply", k |-> at[r].k, n |-> at[r].n - 1, p |-> PaymentOf(What[r]), client |-> at[r].client, same |-> at[r].same]
    BY <1>3
  <2> QED BY <2>1
<1>7. Stands(r)'
  <2>1. Paying(r)'
    BY <1>2, <1>3, <1>5, <1>6 DEF Paying
  <2> QED BY <2>1 DEF Stands
<1>8. CountKept(r)'
  <2>1. CountKept(r) /\ What'[r].kind = "payment"
    BY <1>5 DEF BankInv, CountsOK
  <2>2. NoneOf({"lost"}) => ghost.applied[r] = 0
    BY <2>1 DEF CountKept, Applied
  <2>3. CASE Committed(r) /\ ghost'.odd = ghost.odd /\ s = [pc |-> "finish", k |-> at[r].k, st |-> "COMPLETED"]
    <3>1. ghost'.applied[r] = ghost.applied[r] + 1 /\ (NoneOf({"lost"})' => NoneOf({"lost"}))
      BY <2>3 DEF Committed, NoneOf
    <3>2. ghost'.applied[r] >= 1 /\ (NoneOf({"lost"})' => ghost'.applied[r] = 1)
      BY <1>1, <2>2, <3>1
    <3> QED BY <1>5, <2>1, <2>3, <3>2 DEF CountKept, Applied
  <2>4. CASE Committed(r) /\ "lost" \in ghost'.odd
    <3>1. ghost'.applied[r] = ghost.applied[r] + 1 /\ ~NoneOf({"lost"})'
      BY <2>4 DEF Committed, NoneOf
    <3>2. ghost'.applied[r] >= 1
      BY <1>1, <3>1
    <3> QED BY <1>5, <1>6, <2>1, <3>1, <3>2 DEF CountKept, Applied
  <2>5. CASE /\ UNCHANGED <<acc, ghost>>
             /\ s = IF at[r].n = 1 THEN [pc |-> "finish", k |-> at[r].k, st |-> "DENIED"] ELSE [at[r] EXCEPT !.n = at[r].n - 1]
    <3>1. \/ s = [pc |-> "finish", k |-> at[r].k, st |-> "DENIED"]
          \/ s = [pc |-> "apply", k |-> at[r].k, n |-> at[r].n - 1, p |-> PaymentOf(What[r]), client |-> at[r].client, same |-> at[r].same]
      BY <1>3, <2>5
    <3>2. NoneOf({"lost"})' = NoneOf({"lost"}) /\ ghost' = ghost
      BY <2>5 DEF NoneOf
    <3> QED BY <1>5, <2>1, <2>2, <3>1, <3>2 DEF CountKept, Applied
  <2> QED BY <2>3, <2>4, <2>5
<1>9. \A k \in 1 .. Len(paid') :
        RowKept(k)' \/ (k \in 1 .. Len(paid) /\ paid[k].r # r /\ paid'[k].st = paid[k].st)
  <2>1. ASSUME NEW k, k = at[r].k PROVE RowKept(k)'
    <3>1. at'[r].pc \in {"apply", "finish"} /\ at'[r].k = k
      BY <1>5, <1>6, <2>1
    <3>2. paid'[k].r = r /\ paid'[k].st # "COMPLETED" /\ What'[r].kind = "payment"
      BY <1>2, <1>5, <2>1
    <3> QED BY <3>1, <3>2 DEF RowKept
  <2> QED BY <1>2, <2>1
<1>10. /\ paid' \in Seq(PaidRow) /\ Len(paid) =< Len(paid') /\ (\A k \in 1 .. Len(paid) : paid'[k].r = paid[k].r)
       /\ trf' \in Seq(TransferRow) /\ Len(trf) =< Len(trf') /\ (\A k \in 1 .. Len(trf) : trf'[k] = trf[k])
  BY <1>1, Lengths DEF TablesOK
<1> QED BY <1>2, <1>4, <1>7, <1>8, <1>9, <1>10, PayStep

\* The final status.
LEMMA RowMarked ==
  ASSUME NEW R \in Seq(PaidRow), NEW k \in 1 .. Len(R), NEW st \in {"IN_PROGRESS", "COMPLETED", "DENIED"},
         NEW Q, Q = [R EXCEPT ![k].st = st]
  PROVE  /\ Q \in Seq(PaidRow) /\ Len(Q) = Len(R) /\ (\A m \in 1 .. Len(R) : Q[m].r = R[m].r)
         /\ (\A m \in 1 .. Len(R) : m # k => Q[m] = R[m]) /\ Q[k].st = st
<1> DEFINE row == [R[k] EXCEPT !.st = st]
<1>1. R[k] \in PaidRow /\ Len(R) \in Nat
  OBVIOUS
<1>2. row \in PaidRow /\ row.r = R[k].r /\ row.st = st
  BY <1>1 DEF PaidRow
<1>3. Q = [R EXCEPT ![k] = row]
  OBVIOUS
<1> HIDE DEF row
<1>4. Q \in Seq(PaidRow) /\ Len(Q) = Len(R) /\ Q[k] = row /\ (\A m \in 1 .. Len(R) : m # k => Q[m] = R[m])
  BY <1>2, <1>3
<1> QED BY <1>2, <1>4

LEMMA PaymentEnds ==
  ASSUME BankInv, NEW r \in Req, What[r].kind = "payment", at[r].pc = "finish", Fini(r),
         \/ finishPayment(at[r].k, at[r].st) /\ UNCHANGED ghost
         \/ UNCHANGED paid /\ ghost' = Odd("crash"),
         UNCHANGED <<benv, sess, trf, fundresv, ilog, rcpt, acc>>, bfaults' \in Nat
  PROVE  BankInv'
<1>1. /\ TablesOK /\ ControlOK /\ GhostOK /\ AccountsOf(acc) /\ Kept(acc, acc) /\ paid \in Seq(PaidRow) /\ Len(paid) \in Nat
  BY KeptSelf, Lengths DEF BankInv, TablesOK
<1>2. /\ Paying(r) /\ at[r] # Done /\ at[r].k \in 1 .. Len(paid) /\ paid[at[r].k].r = r
      /\ paid[at[r].k].st # "COMPLETED" /\ Confirmed(What[r].session)
      /\ (\A k \in 1 .. Len(paid) : paid[k].r = r => k = at[r].k)
  BY PaymentAt
<1>3. at[r].st \in {"COMPLETED", "DENIED"}
  BY <1>2 DEF Paying
<1>4. Goto(r, Done) /\ Stands(r)' /\ at'[r] = Done /\ What' = What
  BY <1>1, FiniIs, GotoIs DEF What
<1>5. GhostGrown(r) /\ ghost'.side = ghost.side /\ ghost'.applied = ghost.applied
  BY <1>1, GhostStays, GhostOdd, OddIs
<1>6. \A c \in Currency : Delta(c) = PaidDelta(r, c)
  BY <1>5, UnmovedMoney
<1>7. /\ paid' \in Seq(PaidRow) /\ Len(paid') = Len(paid) /\ (\A k \in 1 .. Len(paid) : paid'[k].r = paid[k].r)
      /\ (\A k \in 1 .. Len(paid) : k # at[r].k => paid'[k] = paid[k])
      /\ \/ paid'[at[r].k].st = at[r].st /\ ghost' = ghost
         \/ paid' = paid /\ "crash" \in ghost'.odd
  <2>1. CASE finishPayment(at[r].k, at[r].st) /\ UNCHANGED ghost
    <3>1. paid' = [paid EXCEPT ![at[r].k].st = at[r].st] /\ at[r].st \in {"IN_PROGRESS", "COMPLETED", "DENIED"}
      BY <1>3, <2>1 DEF finishPayment
    <3> QED BY <1>1, <1>2, <2>1, <3>1, RowMarked
  <2>2. CASE UNCHANGED paid /\ ghost' = Odd("crash")
    BY <1>1, <2>2, OddIs
  <2> QED BY <2>1, <2>2
<1>8. CountKept(r)'
  BY <1>4 DEF CountKept, Done
<1>9. \A k \in 1 .. Len(paid') :
        RowKept(k)' \/ (k \in 1 .. Len(paid) /\ paid[k].r # r /\ paid'[k].st = paid[k].st)
  <2>1. ASSUME NEW k, k = at[r].k PROVE RowKept(k)'
    <3>1. CountKept(r) /\ paid'[k].r = r /\ What'[r].kind = "payment" /\ paid[k].st # "COMPLETED"
      BY <1>2, <1>4, <1>7, <2>1 DEF BankInv, CountsOK
    <3>2. CASE paid'[k].st = at[r].st /\ ghost' = ghost
      <4>1. /\ at[r].st = "COMPLETED" => ghost.applied[r] >= 1 /\ (NoneOf({"lost"}) => ghost.applied[r] = 1)
            /\ at[r].st = "DENIED" => (NoneOf({"lost"}) => ghost.applied[r] = 0)
        BY <3>1 DEF CountKept, Applied
      <4>2. NoneOf({"lost"})' = NoneOf({"lost"}) /\ (NoneOf({"lost", "crash"})' => NoneOf({"lost"}))
        BY <3>2 DEF NoneOf
      <4> QED BY <1>3, <1>4, <3>1, <3>2, <4>1, <4>2 DEF RowKept, Applied
    <3>3. CASE paid' = paid /\ "crash" \in ghost'.odd
      <4>1. ~NoneOf({"crash"})' /\ ~NoneOf({"lost", "crash"})'
        BY <3>3 DEF NoneOf
      <4> QED BY <1>4, <3>1, <3>3, <4>1 DEF RowKept
    <3> QED BY <1>7, <2>1, <3>2, <3>3
  <2> QED BY <1>2, <1>7, <2>1
<1>10. /\ Len(paid) =< Len(paid')
       /\ trf' \in Seq(TransferRow) /\ Len(trf) =< Len(trf') /\ (\A k \in 1 .. Len(trf) : trf'[k] = trf[k])
  BY <1>1, <1>7, Lengths DEF TablesOK
<1>11. AccountsOf(acc') /\ Kept(acc, acc')
  BY <1>1
<1> QED BY <1>2, <1>4, <1>5, <1>6, <1>7, <1>8, <1>9, <1>10, <1>11, PayStep

LEMMA NewPaymentInv ==
  ASSUME BankInv, NEW r \in Req, PaymentStep(r)
  PROVE  BankInv'
<1> DEFINE w == What[r]
           a == at[r]
           yes == [pc |-> "finish", k |-> a.k, st |-> "COMPLETED"]
           no == IF a.n = 1 THEN [pc |-> "finish", k |-> a.k, st |-> "DENIED"] ELSE [a EXCEPT !.n = a.n - 1]
           s0(client, same) ==
             [pc |-> "apply", k |-> Len(paid) + 1, n |-> 3, p |-> PaymentOf(w), client |-> client, same |-> same]
<1>1. UNCHANGED <<benv, sess, trf, fundresv, ilog, rcpt>> /\ bfaults \in Nat
  BY DEF PaymentStep, BankInv, TablesOK
<1>2. CASE /\ w.kind = "payment" /\ a.pc = "create" /\ UNCHANGED <<acc, ghost, bfaults>>
           /\ paid' = createPayment(r, PaymentOf(w)) /\ Goto(r, s0(a.client, a.same))
  BY <1>1, <1>2, PaymentBegins
<1>3. CASE /\ w.kind = "payment" /\ a.pc \in {"start", "info", "create"} /\ UNCHANGED <<acc, ghost, paid>>
           /\ (MustExpire(w.session) /\ Goto(r, [pc |-> "expire"])) \/ Fini(r)
           /\ BNoFail \/ BFail("db")
  <2>1. bfaults' \in Nat /\ w.kind \in {"payment", "transfer"}
    BY <1>1, <1>3 DEF BNoFail, BFail
  <2> QED BY <1>1, <1>3, <2>1, StopStep
<1>7. CASE /\ w.kind = "payment" /\ a.pc = "start" /\ UNCHANGED <<acc, ghost, bfaults, paid>>
           /\ verificationVerified(w.session) /\ Goto(r, [pc |-> "info"])
  <2>1. at'[r] = [pc |-> "info"] /\ What' = What /\ ghost.applied[r] = 0 /\ at[r] # Done
    BY <1>1, <1>7, GotoIs, StartsAtZero DEF BankInv, What, Done
  <2>2. Stands(r)' /\ CountKept(r)'
    BY <1>7, <2>1 DEF Stands, Between, CountKept, Applied, Done
  <2>3. Confirmed(w.session)
    BY <1>7, SessionConfirmed
  <2> QED BY <1>1, <1>7, <2>1, <2>2, <2>3, PauseStep
<1>8. ASSUME NEW client, NEW same, w.kind = "payment", a.pc = "info", UNCHANGED <<acc, ghost, bfaults, paid>>,
             Goto(r, [pc |-> "create", client |-> client, same |-> same])
      PROVE  BankInv'
  <2>1. /\ at'[r] = [pc |-> "create", client |-> client, same |-> same]
        /\ What' = What /\ ghost.applied[r] = 0 /\ at[r] # Done
    BY <1>1, <1>8, GotoIs, StartsAtZero DEF BankInv, What, Done
  <2>2. Stands(r)' /\ CountKept(r)'
    BY <1>8, <2>1 DEF Stands, Between, CountKept, Applied, Done
  <2>3. Confirmed(w.session)
    BY <1>8 DEF BankInv, SessionsOK, PastCheck
  <2> QED BY <1>1, <1>8, <2>1, <2>2, <2>3, PauseStep
<1>4. CASE /\ w.kind = "payment" /\ a.pc = "apply" /\ UNCHANGED paid
           /\ Applies(r, w.from, w.to, a.p, a.client, a.same, yes, no)
  <2>1. Paying(r) /\ Pays(w) /\ a.p = PaymentOf(w)
    <3>1. Paying(r)
      BY <1>4, PaymentAt
    <3>2. a = [pc |-> "apply", k |-> a.k, n |-> a.n, p |-> PaymentOf(w), client |-> a.client, same |-> a.same]
      BY <1>4, <3>1 DEF Paying
    <3> QED BY <1>4, <3>1, <3>2 DEF Pays
  <2>2. Applies(r, w.from, w.to, PaymentOf(w), a.client, a.same, yes, no)
    BY <1>4, <2>1
  <2> HIDE DEF yes, no
  <2>3. /\ bfaults' \in Nat
        /\ \/ Committed(r) /\ ghost'.odd = ghost.odd /\ Goto(r, yes)
           \/ Committed(r) /\ "lost" \in ghost'.odd /\ Goto(r, no)
           \/ UNCHANGED <<acc, ghost>> /\ Goto(r, no)
    BY <2>1, <2>2, AppliesIs
  <2>4. ASSUME Committed(r) /\ ghost'.odd = ghost.odd, Goto(r, yes) PROVE BankInv'
    <3>1. yes = [pc |-> "finish", k |-> at[r].k, st |-> "COMPLETED"]
      BY DEF yes
    <3> QED BY <1>1, <1>4, <2>3, <2>4, <3>1, PaymentMoves
  <2>5. ASSUME (Committed(r) /\ "lost" \in ghost'.odd) \/ UNCHANGED <<acc, ghost>>, Goto(r, no) PROVE BankInv'
    <3>1. no = IF at[r].n = 1 THEN [pc |-> "finish", k |-> at[r].k, st |-> "DENIED"] ELSE [at[r] EXCEPT !.n = at[r].n - 1]
      BY DEF no
    <3> QED BY <1>1, <1>4, <2>3, <2>5, <3>1, PaymentMoves
  <2> QED BY <2>3, <2>4, <2>5
<1>5. CASE /\ w.kind = "payment" /\ a.pc = "finish" /\ Fini(r) /\ UNCHANGED acc
           /\ \/ BNoFail /\ finishPayment(a.k, a.st) /\ UNCHANGED ghost
              \/ BFail("crash") /\ UNCHANGED paid /\ ghost' = Odd("crash")
  <2>1. bfaults' \in Nat
    BY <1>1, <1>5 DEF BNoFail, BFail
  <2> QED BY <1>1, <1>5, <2>1, PaymentEnds
<1>6. \/ /\ w.kind = "payment" /\ a.pc = "create" /\ UNCHANGED <<acc, ghost, bfaults>>
         /\ paid' = createPayment(r, PaymentOf(w)) /\ Goto(r, s0(a.client, a.same))
      \/ /\ w.kind = "payment" /\ a.pc \in {"start", "info", "create"} /\ UNCHANGED <<acc, ghost, paid>>
         /\ (MustExpire(w.session) /\ Goto(r, [pc |-> "expire"])) \/ Fini(r)
         /\ BNoFail \/ BFail("db")
      \/ /\ w.kind = "payment" /\ a.pc = "start" /\ UNCHANGED <<acc, ghost, bfaults, paid>>
         /\ verificationVerified(w.session) /\ Goto(r, [pc |-> "info"])
      \/ \E client, same : /\ w.kind = "payment" /\ a.pc = "info" /\ UNCHANGED <<acc, ghost, bfaults, paid>>
                           /\ Goto(r, [pc |-> "create", client |-> client, same |-> same])
      \/ /\ w.kind = "payment" /\ a.pc = "apply" /\ UNCHANGED paid
         /\ Applies(r, w.from, w.to, a.p, a.client, a.same, yes, no)
      \/ /\ w.kind = "payment" /\ a.pc = "finish" /\ Fini(r) /\ UNCHANGED acc
         /\ \/ BNoFail /\ finishPayment(a.k, a.st) /\ UNCHANGED ghost
            \/ BFail("crash") /\ UNCHANGED paid /\ ghost' = Odd("crash")
  <2>1. NewPayment(r)
    BY DEF PaymentStep
  <2> QED BY <2>1, Zenon DEF NewPayment, Is, BNoFail
<1> HIDE DEF yes, no, s0, w, a
<1> QED BY <1>2, <1>3, <1>4, <1>5, <1>6, <1>7, <1>8

\* A transfer that has been checked, and one that has moved its money.
LEMMA TransferAt ==
  ASSUME BankInv, NEW r \in Req, What[r].kind = "transfer", at[r].pc \in {"check", "apply", "insert"}
  PROVE  /\ Transferring(r) /\ at[r] # Done /\ (at[r].pc \in {"apply", "insert"} => Confirmed(What[r].session))
         /\ (\A k \in 1 .. Len(paid) : paid[k].r # r)
<1>1. Stands(r) /\ SessionsOK /\ at[r] # Done
  BY DEF BankInv, ControlOK, Done
<1>2. Transferring(r)
  BY <1>1 DEF Stands, Paying, Between
<1>3. \A k \in 1 .. Len(paid) : paid[k].r # r
  BY <1>1, OwnRows
<1>4. at[r].pc \in {"apply", "insert"} => Confirmed(What[r].session)
  BY <1>1 DEF SessionsOK, PastCheck
<1> QED BY <1>1, <1>2, <1>3, <1>4

LEMMA TransferMoves ==
  ASSUME BankInv, NEW r \in Req, What[r].kind = "transfer", at[r].pc = "apply", NEW s, Goto(r, s),
         \/ Committed(r) /\ s = [pc |-> "insert", client |-> at[r].client]
         \/ /\ (Committed(r) /\ "lost" \in ghost'.odd) \/ UNCHANGED <<acc, ghost>>
            /\ s = Done,
         UNCHANGED <<benv, sess, trf, fundresv, ilog, rcpt, paid>>, bfaults' \in Nat
  PROVE  BankInv'
<1>1. /\ TablesOK /\ ControlOK /\ GhostOK /\ AccountsOf(acc) /\ Kept(acc, acc) /\ ghost.applied[r] = 0
  BY KeptSelf DEF BankInv, TablesOK, CountsOK, CountKept, Applied
<1>2. /\ Transferring(r) /\ at[r] # Done /\ Confirmed(What[r].session) /\ (\A k \in 1 .. Len(paid) : paid[k].r # r)
  BY TransferAt
<1>3. at[r].client \in Int
  BY <1>2 DEF Transferring
<1>4. /\ AccountsOf(acc') /\ Kept(acc, acc') /\ GhostGrown(r) /\ ghost'.side = ghost.side
      /\ \A c \in Currency : Delta(c) = PaidDelta(r, c)
  <2>1. CASE Committed(r)
    BY <2>1, CommittedMoney DEF Committed, Shifted
  <2>2. CASE UNCHANGED <<acc, ghost>>
    <3>1. AccountsOf(acc') /\ Kept(acc, acc') /\ GhostGrown(r) /\ ghost'.side = ghost.side /\ ghost'.applied = ghost.applied
      BY <1>1, <2>2, GhostStays
    <3>2. \A c \in Currency : Delta(c) = PaidDelta(r, c)
      BY <2>2, <3>1, UnmovedMoney
    <3> QED BY <3>1, <3>2
  <2> QED BY <2>1, <2>2
<1>5. at'[r] = s /\ What' = What
  BY <1>1, GotoIs DEF What
<1>6. Stands(r)'
  BY <1>3, <1>5 DEF Stands, Transferring
<1>7. CountKept(r)'
  <2>1. CASE Committed(r) /\ s = [pc |-> "insert", client |-> at[r].client]
    <3>1. ghost'.applied[r] = 1
      BY <1>1, <2>1 DEF Committed
    <3> QED BY <1>5, <2>1, <3>1 DEF CountKept, Applied, Done
  <2>2. CASE "lost" \in ghost'.odd /\ s = Done
    <3>1. ~NoneOf({"lost", "twice", "crash"})'
      BY <2>2 DEF NoneOf
    <3> QED BY <1>5, <2>2, <3>1 DEF CountKept, Done
  <2>3. CASE UNCHANGED ghost /\ s = Done
    BY <1>1, <1>5, <2>3 DEF CountKept, Applied, Done
  <2> QED BY <2>1, <2>2, <2>3
<1>8. \A k \in 1 .. Len(paid') : k \in 1 .. Len(paid) /\ paid[k].r # r /\ paid'[k].st = paid[k].st
  BY <1>2
<1>9. /\ paid' \in Seq(PaidRow) /\ Len(paid) =< Len(paid') /\ (\A k \in 1 .. Len(paid) : paid'[k].r = paid[k].r)
      /\ trf' \in Seq(TransferRow) /\ Len(trf) =< Len(trf') /\ (\A k \in 1 .. Len(trf) : trf'[k] = trf[k])
  BY <1>1, Lengths DEF TablesOK
<1> QED BY <1>2, <1>4, <1>6, <1>7, <1>8, <1>9, PayStep

\* The row of a transfer whose session has none.
LEMMA TransferRowAdded ==
  ASSUME BankInv, NEW r \in Req, What[r].kind = "transfer", NEW client \in Int,
         ~transferByVerificationExists(What[r].session), benv' = benv,
         trf' = Append(trf, [r |-> r, session |-> What[r].session, client |-> client,
                             from |-> What[r].from, to |-> What[r].to]),
         at'[r] = Done, ghost'.applied[r] = 1,
         \A q \in Req : q # r => at'[q] = at[q] /\ ghost'.applied[q] = ghost.applied[q]
  PROVE  /\ trf' \in Seq(TransferRow) /\ Len(trf) =< Len(trf') /\ (\A k \in 1 .. Len(trf) : trf'[k] = trf[k])
         /\ TransfersOK' /\ (\E k \in 1 .. Len(trf') : trf'[k].r = r)
<1> DEFINE row == [r |-> r, session |-> What[r].session, client |-> client, from |-> What[r].from, to |-> What[r].to]
           K == Len(trf) + 1
<1>1. TablesOK /\ TransfersOK /\ trf \in Seq(TransferRow) /\ Len(trf) \in Nat /\ What' = What
  BY Lengths DEF BankInv, TablesOK, What
<1>2. row \in TransferRow /\ row.r = r /\ row.session = What[r].session
  <2>1. RequestOK(What[r]) /\ Len(Accounts0) \in Nat /\ DOMAIN Accounts0 = 1 .. Len(Accounts0)
    BY <1>1, RequestFits, AccountsAssumption
  <2>2. What[r].session \in Nat /\ What[r].from \in Nat /\ What[r].to \in Nat
    BY <2>1 DEF RequestOK, Known
  <2> QED BY <2>2 DEF TransferRow
<1>3. trf' = Append(trf, row)
  OBVIOUS
<1> HIDE DEF row
<1>4. /\ trf' \in Seq(TransferRow) /\ Len(trf') = K /\ trf'[K] = row /\ (\A k \in 1 .. Len(trf) : trf'[k] = trf[k])
      /\ \A k \in 1 .. K : k \in 1 .. Len(trf) \/ k = K
  BY <1>1, <1>2, <1>3
<1> HIDE DEF K
<1>5. \A k \in 1 .. Len(trf) : trf[k].r \in Req
  <2>1. \A k \in 1 .. Len(trf) : trf[k] \in TransferRow
    BY <1>1, SequenceRange
  <2> QED BY <2>1 DEF TransferRow
<1>6. \A k \in 1 .. Len(trf) : trf[k].session # What[r].session
  BY DEF transferByVerificationExists
<1>7. \A k \in 1 .. K : /\ What'[trf'[k].r].kind = "transfer" /\ trf'[k].session = What'[trf'[k].r].session
                        /\ at'[trf'[k].r] = Done /\ ghost'.applied[trf'[k].r] = 1
  <2>1. \A k \in 1 .. Len(trf) :
          /\ What[trf[k].r].kind = "transfer" /\ trf[k].session = What[trf[k].r].session
          /\ at[trf[k].r] = Done /\ ghost.applied[trf[k].r] = 1
    BY <1>1 DEF TransfersOK, Applied
  <2>2. \A k \in 1 .. Len(trf) : trf[k].r # r
    BY <1>6, <2>1
  <2> QED BY <1>1, <1>2, <1>4, <1>5, <2>1, <2>2
<1>8. \A k, m \in 1 .. K : trf'[m].session = trf'[k].session => m = k
  BY <1>1, <1>2, <1>4, <1>6 DEF TransfersOK
<1>9. TransfersOK'
  BY <1>4, <1>7, <1>8 DEF TransfersOK, Applied, Done
<1>10. K \in 1 .. Len(trf')
  BY <1>1, <1>4 DEF K
<1> QED BY <1>1, <1>2, <1>4, <1>9, <1>10 DEF K

LEMMA TransferEnds ==
  ASSUME BankInv, NEW r \in Req, What[r].kind = "transfer", at[r].pc = "insert", Fini(r),
         \/ trf' = insertTransfer(r) /\ OddIf(trf' = trf, "twice")
         \/ UNCHANGED trf /\ ghost' = Odd("crash"),
         UNCHANGED <<benv, sess, fundresv, ilog, rcpt, paid, acc>>, bfaults' \in Nat
  PROVE  BankInv'
<1>1. /\ TablesOK /\ ControlOK /\ GhostOK /\ AccountsOf(acc) /\ Kept(acc, acc) /\ ghost.applied[r] = 1
      /\ trf \in Seq(TransferRow) /\ Len(trf) \in Nat
  BY KeptSelf, Lengths DEF BankInv, TablesOK, CountsOK, CountKept, Applied
<1>2. /\ Transferring(r) /\ at[r] # Done /\ Confirmed(What[r].session) /\ (\A k \in 1 .. Len(paid) : paid[k].r # r)
  BY TransferAt
<1>3. at[r].client \in Int
  BY <1>2 DEF Transferring
<1>4. (trf' = trf) \in BOOLEAN
  OBVIOUS
<1>5. GhostGrown(r) /\ ghost'.side = ghost.side /\ ghost'.applied = ghost.applied
  BY <1>1, <1>4, GhostOdd, GhostOddIf, OddIs, OddIfIs
<1>6. at'[r] = Done /\ (\A q \in Req : q # r => at'[q] = at[q]) /\ What' = What /\ Goto(r, Done) /\ Stands(r)'
  BY <1>1, GotoIs, FiniIs DEF What, Fini
<1>7. /\ trf' \in Seq(TransferRow) /\ Len(trf) =< Len(trf') /\ (\A k \in 1 .. Len(trf) : trf'[k] = trf[k])
      /\ trf' = trf \/ TransfersOK'
      /\ (\E k \in 1 .. Len(trf') : trf'[k].r = r) \/ ~NoneOf({"lost", "twice", "crash"})'
  <2>1. CASE trf' = trf /\ "twice" \in ghost'.odd
    BY <1>1, <2>1 DEF NoneOf
  <2>2. CASE trf' = trf /\ ghost' = Odd("crash")
    <3>1. "crash" \in ghost'.odd
      BY <1>1, <2>2, OddIs
    <3> QED BY <1>1, <2>2, <3>1 DEF NoneOf
  <2>3. CASE ~transferByVerificationExists(What[r].session) /\ trf' = insertTransfer(r)
    <3>1. trf' = Append(trf, [r |-> r, session |-> What[r].session, client |-> at[r].client,
                              from |-> What[r].from, to |-> What[r].to])
      BY <2>3 DEF insertTransfer
    <3>2. ghost'.applied[r] = 1 /\ \A q \in Req : q # r => at'[q] = at[q] /\ ghost'.applied[q] = ghost.applied[q]
      BY <1>1, <1>5, <1>6
    <3> QED BY <1>3, <1>6, <2>3, <3>1, <3>2, TransferRowAdded
  <2>4. CASE transferByVerificationExists(What[r].session) /\ trf' = insertTransfer(r) /\ OddIf(trf' = trf, "twice")
    <3>1. trf' = trf
      BY <2>4 DEF insertTransfer
    <3>2. "twice" \in ghost'.odd
      BY <1>1, <1>4, <2>4, <3>1, OddIfIs
    <3> QED BY <2>1, <3>1, <3>2
  <2> QED BY <2>2, <2>3, <2>4
<1>8. CountKept(r)'
  BY <1>6, <1>7 DEF CountKept, Done
<1>9. \A c \in Currency : Delta(c) = PaidDelta(r, c)
  BY <1>5, UnmovedMoney
<1>10. \A k \in 1 .. Len(paid') : k \in 1 .. Len(paid) /\ paid[k].r # r /\ paid'[k].st = paid[k].st
  BY <1>2
<1>11. /\ paid' \in Seq(PaidRow) /\ Len(paid) =< Len(paid') /\ (\A k \in 1 .. Len(paid) : paid'[k].r = paid[k].r)
  BY <1>1, Lengths DEF TablesOK
<1>12. AccountsOf(acc') /\ Kept(acc, acc')
  BY <1>1
<1> QED BY <1>2, <1>5, <1>6, <1>7, <1>8, <1>9, <1>10, <1>11, <1>12, PayStep

\* The steps before the money moves.
LEMMA TransferChecks ==
  ASSUME BankInv, NEW r \in Req, What[r].kind = "transfer", NEW s, Goto(r, s),
         \/ at[r].pc = "start" /\ s = [pc |-> "check"]
         \/ /\ at[r].pc = "check" /\ verificationVerified(What[r].session)
            /\ s = [pc |-> "apply", client |-> acc[What[r].from].owner, p |-> PaymentOf(What[r])],
         UNCHANGED <<benv, sess, fundresv, ilog, rcpt, paid, acc, trf, ghost, bfaults>>
  PROVE  BankInv'
<1>1. /\ TablesOK /\ ControlOK /\ AccountsOf(acc) /\ ghost.applied[r] = 0 /\ at[r] # Done /\ bfaults' \in Nat
      /\ What' = What
  BY StartsAtZero DEF BankInv, TablesOK, Done, What
<1>2. at'[r] = s
  BY <1>1, GotoIs
<1>3. acc[What[r].from].owner \in Int
  <2>1. RequestOK(What[r]) /\ Known \subseteq 1 .. Len(acc)
    BY <1>1, RequestFits
  <2>2. What[r].from \in 1 .. Len(acc)
    BY <2>1 DEF RequestOK
  <2> QED BY <1>1, <2>2, AccountsAreRows
<1>4. PaymentOf(What[r])' = PaymentOf(What[r])
  BY <1>1 DEF PaymentOf
<1>5. CASE at[r].pc = "start" /\ s = [pc |-> "check"]
  <2>1. Stands(r)' /\ CountKept(r)' /\ ~PastCheck(r)'
    BY <1>1, <1>2, <1>5 DEF Stands, Transferring, CountKept, PastCheck, Applied, Done
  <2> QED BY <1>1, <1>5, <2>1, PauseStep
<1>6. CASE /\ at[r].pc = "check" /\ verificationVerified(What[r].session)
           /\ s = [pc |-> "apply", client |-> acc[What[r].from].owner, p |-> PaymentOf(What[r])]
  <2>1. Stands(r)' /\ CountKept(r)'
    BY <1>1, <1>2, <1>3, <1>4, <1>6 DEF Stands, Transferring, CountKept, Applied, Done
  <2>2. Confirmed(What[r].session)
    BY <1>6, SessionConfirmed
  <2> QED BY <1>1, <1>6, <2>1, <2>2, PauseStep
<1> QED BY <1>5, <1>6

LEMMA TransferInv ==
  ASSUME BankInv, NEW r \in Req, TransferStep(r)
  PROVE  BankInv'
<1> DEFINE w == What[r]
           a == at[r]
           yes == [pc |-> "insert", client |-> a.client]
           s1 == [pc |-> "check"]
           s2 == [pc |-> "apply", client |-> acc[w.from].owner, p |-> PaymentOf(w)]
<1>1. UNCHANGED <<benv, sess, paid, fundresv, ilog, rcpt>> /\ bfaults \in Nat
  BY DEF TransferStep, BankInv, TablesOK
<1>2. CASE /\ w.kind = "transfer" /\ a.pc \in {"start", "check"} /\ UNCHANGED <<acc, trf, ghost, bfaults>>
           /\ (MustExpire(w.session) /\ Goto(r, [pc |-> "expire"])) \/ Fini(r)
  <2>1. bfaults' \in Nat /\ w.kind \in {"payment", "transfer"} /\ at[r].pc \in {"start", "check"}
    BY <1>1, <1>2
  <2> QED BY <1>1, <1>2, <2>1, StopStep
<1>3. CASE /\ w.kind = "transfer" /\ a.pc = "start" /\ UNCHANGED <<acc, trf, ghost, bfaults>> /\ Goto(r, s1)
  BY <1>1, <1>3, TransferChecks
<1>4. CASE /\ w.kind = "transfer" /\ a.pc = "check" /\ UNCHANGED <<acc, trf, ghost, bfaults>> /\ Goto(r, s2)
           /\ verificationVerified(w.session)
  BY <1>1, <1>4, TransferChecks
<1>5. CASE /\ w.kind = "transfer" /\ a.pc = "apply" /\ UNCHANGED trf
           /\ Applies(r, w.from, w.to, a.p, a.client, TRUE, yes, Done)
  <2>1. Pays(w) /\ a.p = PaymentOf(w)
    <3>1. Transferring(r)
      BY <1>5, TransferAt
    <3>2. a = [pc |-> "apply", client |-> a.client, p |-> PaymentOf(w)]
      BY <1>5, <3>1 DEF Transferring
    <3> QED BY <1>5, <3>2 DEF Pays
  <2>2. Applies(r, w.from, w.to, PaymentOf(w), a.client, TRUE, yes, Done)
    BY <1>5, <2>1
  <2> HIDE DEF yes
  <2>3. /\ bfaults' \in Nat
        /\ \/ Committed(r) /\ ghost'.odd = ghost.odd /\ Goto(r, yes)
           \/ Committed(r) /\ "lost" \in ghost'.odd /\ Goto(r, Done)
           \/ UNCHANGED <<acc, ghost>> /\ Goto(r, Done)
    BY <2>1, <2>2, AppliesIs
  <2>4. ASSUME Committed(r), Goto(r, yes) PROVE BankInv'
    <3>1. yes = [pc |-> "insert", client |-> at[r].client]
      BY DEF yes
    <3> QED BY <1>1, <1>5, <2>3, <2>4, <3>1, TransferMoves
  <2>5. ASSUME (Committed(r) /\ "lost" \in ghost'.odd) \/ UNCHANGED <<acc, ghost>>, Goto(r, Done) PROVE BankInv'
    BY <1>1, <1>5, <2>3, <2>5, TransferMoves
  <2> QED BY <2>3, <2>4, <2>5
<1>6. CASE /\ w.kind = "transfer" /\ a.pc = "insert" /\ Fini(r) /\ UNCHANGED acc
           /\ \/ BNoFail /\ trf' = insertTransfer(r) /\ OddIf(trf' = trf, "twice")
              \/ BFail("db") /\ UNCHANGED trf /\ ghost' = Odd("crash")
  <2>1. bfaults' \in Nat
    BY <1>1, <1>6 DEF BNoFail, BFail
  <2> QED BY <1>1, <1>6, <2>1, TransferEnds
<1>7. \/ /\ w.kind = "transfer" /\ a.pc \in {"start", "check"} /\ UNCHANGED <<acc, trf, ghost, bfaults>>
         /\ (MustExpire(w.session) /\ Goto(r, [pc |-> "expire"])) \/ Fini(r)
      \/ /\ w.kind = "transfer" /\ a.pc = "start" /\ UNCHANGED <<acc, trf, ghost, bfaults>> /\ Goto(r, s1)
      \/ /\ w.kind = "transfer" /\ a.pc = "check" /\ UNCHANGED <<acc, trf, ghost, bfaults>> /\ Goto(r, s2)
         /\ verificationVerified(w.session)
      \/ /\ w.kind = "transfer" /\ a.pc = "apply" /\ UNCHANGED trf
         /\ Applies(r, w.from, w.to, a.p, a.client, TRUE, yes, Done)
      \/ /\ w.kind = "transfer" /\ a.pc = "insert" /\ Fini(r) /\ UNCHANGED acc
         /\ \/ BNoFail /\ trf' = insertTransfer(r) /\ OddIf(trf' = trf, "twice")
            \/ BFail("db") /\ UNCHANGED trf /\ ghost' = Odd("crash")
  <2>1. Execute(r)
    BY DEF TransferStep
  <2>2. a.pc \in {"start", "check"} <=> (a.pc = "start" \/ a.pc = "check")
    OBVIOUS
  <2> QED BY <2>1, <2>2, Zenon DEF Execute, Is
<1> HIDE DEF yes, s1, s2, w, a
<1> QED BY <1>2, <1>3, <1>4, <1>5, <1>6, <1>7
--------------------------------------------------------------------------
(* Booking rows, recipients and the jobs. *)

\* A step that ends by writing rows and moves no money.
LEMMA WriteStep ==
  ASSUME BankInv, NEW r \in Req, Fini(r), at[r] # Done, What[r].kind \notin {"payment", "transfer"},
         UNCHANGED <<benv, sess, acc, trf, fundresv, ilog, ghost, bfaults>>,
         paid' \in Seq(PaidRow), Len(paid) =< Len(paid'), \A k \in 1 .. Len(paid) : paid'[k].r = paid[k].r,
         rcpt' \in Seq(RecipientRow), RecipientsApart',
         \A k \in 1 .. Len(paid') :
           RowKept(k)' \/ (k \in 1 .. Len(paid) /\ paid[k].r # r /\ paid'[k].st = paid[k].st)
  PROVE  BankInv'
<1>1. TablesOK /\ ControlOK /\ HoldsOK /\ MoneyOK /\ TransfersOK /\ GhostOK
  BY DEF BankInv, TablesOK
<1>2. Goto(r, Done) /\ Stands(r)' /\ at'[r] = Done /\ What' = What
  BY <1>1, FiniIs, GotoIs DEF What
<1>3. AccountsOf(acc') /\ Kept(acc, acc') /\ GhostGrown(r) /\ ghost'.side = ghost.side /\ ghost'.applied = ghost.applied
  BY <1>1, KeptSelf, GhostStays
<1>4. TablesOK' /\ Grown({r})
  <2>1. /\ fundresv' \in Seq(HoldRow) /\ Len(fundresv) =< Len(fundresv') /\ ilog' \in Seq(LogRow)
        /\ trf' \in Seq(TransferRow) /\ Len(trf) =< Len(trf') /\ (\A k \in 1 .. Len(trf) : trf'[k] = trf[k])
        /\ bfaults' \in Nat
    BY <1>1, Lengths DEF TablesOK
  <2> QED BY <1>1, <1>2, <1>3, <2>1, StepTables
<1>5. HoldsOK' /\ MoneyOK'
  BY <1>1, <1>3, <1>4, HoldsStep, MoneyStill
<1>6. TransfersOK'
  <2>1. \A q \in {r} : at[q] # Done
    OBVIOUS
  <2> QED BY <1>1, <1>4, <2>1, TransfersStep
<1>7. CountKept(r)' /\ ~PastCheck(r)'
  BY <1>2 DEF CountKept, PastCheck, Done
<1>8. \A q \in {r} : Stands(q)' /\ CountKept(q)' /\ (PastCheck(q)' => Confirmed(What[q].session))
  BY <1>2, <1>7
<1>9. \A k \in 1 .. Len(paid') :
        RowKept(k)' \/ (k \in 1 .. Len(paid) /\ paid[k].r \notin {r} /\ paid'[k].st = paid[k].st)
  OBVIOUS
<1> QED BY <1>4, <1>5, <1>6, <1>8, <1>9, StepInv

\* A row of a request that is not a payment belongs to one that is done.
LEMMA OthersRows ==
  ASSUME BankInv, NEW r \in Req, What[r].kind \notin {"payment", "transfer"}, at[r] # Done
  PROVE  \A k \in 1 .. Len(paid) : paid[k].r # r
<1>1. \A k \in 1 .. Len(paid) : RowKept(k)
  BY DEF BankInv, PaidOK
<1> QED BY <1>1 DEF RowKept

LEMMA RecordInv ==
  ASSUME BankInv, NEW r \in Req, RecordStep(r)
  PROVE  BankInv'
<1> DEFINE w == What[r]
           p == [amt |-> w.amt, in |-> w.amt, fee |-> 0]
           bank == CHOOSE b \in GetBankAccount(acc[w.i].cur) : TRUE
<1>1. /\ at[r].pc = "record" /\ Fini(r) /\ UNCHANGED <<benv, acc, sess, trf, fundresv, ilog, rcpt, ghost>>
      /\ \/ BFail("db") /\ UNCHANGED paid
         \/ /\ BNoFail
            /\ \/ UNCHANGED paid
               \/ w.kind = "transaction" /\ paid' = recordTransferPayment(r)
               \/ w.kind = "exchange" /\ paid' = recordExchangePayment(r)
  BY DEF RecordStep
<1>2. /\ TablesOK /\ ControlOK /\ AccountsOf(acc) /\ ghost.applied[r] = 1 /\ at[r] # Done
      /\ w.kind \in {"creditbank", "debitbank", "exchange", "transaction"} /\ bfaults' \in Nat
      /\ RecipientsApart /\ rcpt \in Seq(RecipientRow)
  <2>1. Stands(r) /\ CountKept(r) /\ bfaults \in Nat
    BY DEF BankInv, ControlOK, CountsOK, TablesOK
  <2>2. bfaults' \in Nat
    BY <1>1, <2>1 DEF BFail, BNoFail
  <2> QED BY <1>1, <2>1, <2>2 DEF Stands, Paying, Transferring, Between, CountKept, Applied, Done, BankInv, TablesOK
<1>3. CASE UNCHANGED paid
  <2>1. w.kind \notin {"payment", "transfer"}
    BY <1>2
  <2> QED BY <1>1, <1>2, <1>3, <2>1, StillDone
<1>4. ASSUME NEW from \in 1 .. Len(acc), NEW to \in 1 .. Len(acc), p \in [amt : Int, in : Int, fee : Int],
             w.kind \in {"transaction", "exchange"}, BNoFail,
             paid' = Append(paid, NewRow(r, "COMPLETED", from, to, p))
      PROVE  BankInv'
  <2> DEFINE row == NewRow(r, "COMPLETED", from, to, p)
             K == Len(paid) + 1
  <2>1. row \in PaidRow /\ row.r = r /\ row.st = "COMPLETED"
    BY <1>2, <1>4, NewRowIs
  <2>2. paid' = Append(paid, row)
    BY <1>4
  <2> HIDE DEF row
  <2>3. /\ paid' \in Seq(PaidRow) /\ Len(paid') = K /\ Len(paid) \in Nat
        /\ (\A k \in 1 .. Len(paid) : paid'[k] = paid[k]) /\ paid'[K] = row
    BY <1>2, <2>1, <2>2, PaidAppended
  <2>4. at'[r] = Done /\ What' = What
    BY <1>1, <1>2, GotoIs DEF What, Fini
  <2>5. ASSUME NEW k, k = K PROVE RowKept(k)'
    BY <1>1, <1>2, <1>4, <2>1, <2>3, <2>4, <2>5 DEF RowKept, Applied
  <2>6. \A k \in 1 .. Len(paid') : k \in 1 .. Len(paid) \/ k = K
    BY <2>3
  <2>7. \A k \in 1 .. Len(paid) : paid[k].r # r
    BY <1>2, OthersRows
  <2>8. RecipientsApart' /\ rcpt' \in Seq(RecipientRow) /\ bfaults' = bfaults
    BY <1>1, <1>2, <1>4 DEF RecipientsApart, BNoFail
  <2>9. \A k \in 1 .. Len(paid') :
          RowKept(k)' \/ (k \in 1 .. Len(paid) /\ paid[k].r # r /\ paid'[k].st = paid[k].st)
    BY <2>3, <2>5, <2>6, <2>7
  <2>10. Len(paid) =< Len(paid') /\ (\A k \in 1 .. Len(paid) : paid'[k].r = paid[k].r) /\ w.kind \notin {"payment", "transfer"}
    BY <1>4, <2>3
  <2> HIDE DEF K
  <2> QED BY <1>1, <1>2, <2>3, <2>8, <2>9, <2>10, WriteStep
<1>5. RequestOK(w) /\ Known \subseteq 1 .. Len(acc)
  BY <1>2, RequestFits
<1>6. CASE BNoFail /\ w.kind = "transaction" /\ paid' = recordTransferPayment(r)
  <2>1. w.from \in 1 .. Len(acc) /\ w.to \in 1 .. Len(acc) /\ p \in [amt : Int, in : Int, fee : Int]
    <3>1. w.from \in Known /\ w.to \in Known /\ w.amt \in Int
      BY <1>5, <1>6 DEF RequestOK
    <3>2. p \in [amt : Int, in : Int, fee : Int]
      BY <3>1
    <3> QED BY <1>5, <3>1, <3>2
  <2>2. paid' = Append(paid, NewRow(r, "COMPLETED", w.from, w.to, p))
    BY <1>6 DEF recordTransferPayment, recordPayment, NewRow
  <2> HIDE DEF p
  <2> QED BY <1>4, <1>6, <2>1, <2>2
<1>7. CASE BNoFail /\ w.kind = "exchange" /\ paid' = recordExchangePayment(r)
  <2>1. w.i \in 1 .. Len(acc) /\ w.amt \in Int /\ w.buy \in BOOLEAN
    BY <1>5, <1>7 DEF RequestOK
  <2>2. bank \in 1 .. Len(acc)
    <3>1. acc[w.i].cur \in Currency
      BY <1>2, <2>1, AccountsAreRows
    <3>2. \E b : b \in GetBankAccount(acc[w.i].cur)
      <4>1. \E j \in 1 .. Len(acc) : getByOwnerAndCurrency(acc, Bank, acc[w.i].cur) = {j}
        BY <1>2, <3>1, BankAccountFound
      <4>2. PICK j \in 1 .. Len(acc) : GetBankAccount(acc[w.i].cur) = {j}
        BY <4>1, Zenon DEF GetBankAccount
      <4> QED BY <4>2
    <3>3. bank \in GetBankAccount(acc[w.i].cur)
      BY <3>2
    <3> QED BY <1>2, <3>3, FoundAccount DEF GetBankAccount
  <2>3. p \in [amt : Int, in : Int, fee : Int]
    BY <2>1
  <2>4. \/ paid' = Append(paid, NewRow(r, "COMPLETED", w.i, bank, p))
        \/ paid' = Append(paid, NewRow(r, "COMPLETED", bank, w.i, p))
    BY <1>7 DEF recordExchangePayment, recordPayment, NewRow
  <2> HIDE DEF p, bank
  <2> QED BY <1>4, <1>7, <2>1, <2>2, <2>3, <2>4
<1> HIDE DEF p, bank, w
<1> QED BY <1>1, <1>3, <1>6, <1>7

LEMMA RecipientInv ==
  ASSUME BankInv, NEW r \in Req, RecipientStep(r)
  PROVE  BankInv'
<1> DEFINE w == What[r]
<1>1. /\ Fini(r) /\ UNCHANGED <<benv, acc, sess, paid, trf, fundresv, ilog, ghost, bfaults>>
      /\ w.kind \in {"newrecipient", "editrecipient", "delrecipient"} /\ at[r] # Done
  <2>1. /\ Fini(r) /\ UNCHANGED <<benv, acc, sess, paid, trf, fundresv, ilog, ghost, bfaults>>
        /\ (Is(r, "newrecipient", "start") \/ Is(r, "editrecipient", "start") \/ Is(r, "delrecipient", "start"))
    BY Zenon DEF RecipientStep, CreateRecipient, UpdateRecipient, DeleteRecipient
  <2> QED BY <2>1 DEF Is, Done
<1>2. TablesOK /\ RecipientsApart /\ rcpt \in Seq(RecipientRow) /\ Len(rcpt) \in Nat /\ RequestOK(w)
  BY Lengths, RequestFits DEF BankInv, TablesOK
<1>3. \A k \in 1 .. Len(rcpt) : rcpt[k] \in RecipientRow
  BY <1>2
<1>4. rcpt' \in Seq(RecipientRow) /\ RecipientsApart'
  <2>1. CASE rcpt' = rcpt
    BY <1>2, <2>1 DEF RecipientsApart
  <2>2. CASE /\ w.kind = "newrecipient" /\ ~RecipientTaken(w.client, w.name, 0)
             /\ rcpt' = Append(rcpt, [owner |-> w.client, name |-> w.name, to |-> w.to, del |-> FALSE])
    <3> DEFINE row == [owner |-> w.client, name |-> w.name, to |-> w.to, del |-> FALSE]
    <3>1. w.client \in Int /\ w.name \in STRING /\ w.to \in Nat
      BY <1>2, <2>2 DEF RequestOK
    <3>2. row \in RecipientRow /\ row.owner = w.client /\ row.name = w.name
      BY <3>1 DEF RecipientRow
    <3>3. \A j \in 1 .. Len(rcpt) : ~(rcpt[j].owner = row.owner /\ rcpt[j].name = row.name)
      BY <1>2, <2>2, <3>2 DEF RecipientTaken
    <3>4. rcpt' = Append(rcpt, row)
      BY <2>2
    <3> HIDE DEF row
    <3>5. /\ rcpt' \in Seq(RecipientRow) /\ Len(rcpt') = Len(rcpt) + 1 /\ rcpt'[Len(rcpt) + 1] = row
          /\ (\A j \in 1 .. Len(rcpt) : rcpt'[j] = rcpt[j])
          /\ \A j \in 1 .. Len(rcpt) + 1 : j \in 1 .. Len(rcpt) \/ j = Len(rcpt) + 1
      BY <1>2, <3>2, <3>4
    <3>6. RecipientsApart'
      BY <1>2, <3>3, <3>5 DEF RecipientsApart
    <3> QED BY <3>5, <3>6
  <2>3. CASE /\ w.kind = "editrecipient" /\ OwnRecipient(w.client, w.k) /\ ~RecipientTaken(w.client, w.name, w.k)
             /\ rcpt' = [rcpt EXCEPT ![w.k].name = w.name, ![w.k].to = w.to]
    <3> DEFINE k == w.k
               row == [rcpt[k] EXCEPT !.name = w.name, !.to = w.to]
    <3>1. w.name \in STRING /\ w.to \in Nat /\ k \in 1 .. Len(rcpt) /\ rcpt[k].owner = w.client /\ rcpt[k] \in RecipientRow
      BY <1>2, <1>3, <2>3 DEF RequestOK, OwnRecipient
    <3>2. row \in RecipientRow /\ row.owner = w.client /\ row.name = w.name
      BY <3>1 DEF RecipientRow
    <3>3. \A j \in 1 .. Len(rcpt) : j # k => ~(rcpt[j].owner = row.owner /\ rcpt[j].name = row.name)
      BY <2>3, <3>2 DEF RecipientTaken
    <3>4. rcpt' = [rcpt EXCEPT ![k] = row]
      BY <1>2, <2>3, <3>1
    <3> HIDE DEF row, k
    <3>5. /\ rcpt' \in Seq(RecipientRow) /\ Len(rcpt') = Len(rcpt) /\ rcpt'[k] = row
          /\ (\A j \in 1 .. Len(rcpt) : j # k => rcpt'[j] = rcpt[j])
      BY <1>2, <3>1, <3>2, <3>4
    <3>6. RecipientsApart'
      BY <1>2, <3>1, <3>3, <3>5 DEF RecipientsApart
    <3> QED BY <3>5, <3>6
  <2>4. CASE OwnRecipient(w.client, w.k) /\ rcpt' = [rcpt EXCEPT ![w.k].del = TRUE]
    <3> DEFINE k == w.k
               row == [rcpt[k] EXCEPT !.del = TRUE]
    <3>1. k \in 1 .. Len(rcpt) /\ rcpt[k] \in RecipientRow
      BY <1>3, <2>4 DEF OwnRecipient
    <3>2. row \in RecipientRow /\ row.owner = rcpt[k].owner /\ row.name = rcpt[k].name
      BY <3>1 DEF RecipientRow
    <3>3. rcpt' = [rcpt EXCEPT ![k] = row]
      BY <1>2, <2>4, <3>1
    <3> HIDE DEF row, k
    <3>4. /\ rcpt' \in Seq(RecipientRow) /\ Len(rcpt') = Len(rcpt) /\ rcpt'[k] = row
          /\ (\A j \in 1 .. Len(rcpt) : j # k => rcpt'[j] = rcpt[j])
      BY <1>2, <3>1, <3>2, <3>3
    <3>5. \A j \in 1 .. Len(rcpt) : rcpt'[j].owner = rcpt[j].owner /\ rcpt'[j].name = rcpt[j].name
      BY <3>2, <3>4
    <3>6. RecipientsApart'
      BY <1>2, <3>4, <3>5 DEF RecipientsApart
    <3> QED BY <3>4, <3>6
  <2>5. \/ rcpt' = rcpt
        \/ /\ w.kind = "newrecipient" /\ ~RecipientTaken(w.client, w.name, 0)
           /\ rcpt' = Append(rcpt, [owner |-> w.client, name |-> w.name, to |-> w.to, del |-> FALSE])
        \/ /\ w.kind = "editrecipient" /\ OwnRecipient(w.client, w.k) /\ ~RecipientTaken(w.client, w.name, w.k)
           /\ rcpt' = [rcpt EXCEPT ![w.k].name = w.name, ![w.k].to = w.to]
        \/ OwnRecipient(w.client, w.k) /\ rcpt' = [rcpt EXCEPT ![w.k].del = TRUE]
    BY Zenon DEF RecipientStep, CreateRecipient, UpdateRecipient, DeleteRecipient, Is
  <2> HIDE DEF w
  <2> QED BY <2>1, <2>2, <2>3, <2>4, <2>5
<1>5. \A k \in 1 .. Len(paid) : paid[k].r # r
  BY <1>1, OthersRows
<1>6. /\ paid' \in Seq(PaidRow) /\ Len(paid) =< Len(paid') /\ (\A k \in 1 .. Len(paid) : paid'[k].r = paid[k].r)
      /\ (\A k \in 1 .. Len(paid') : k \in 1 .. Len(paid) /\ paid[k].r # r /\ paid'[k].st = paid[k].st)
      /\ What[r].kind \notin {"payment", "transfer"}
  BY <1>1, <1>2, <1>5, Lengths DEF TablesOK
<1> QED BY <1>1, <1>4, <1>6, WriteStep

LEMMA CleanupInv ==
  ASSUME BankInv, NEW r \in Req, cleanupStuckPayments(r), UNCHANGED <<benv, sess, trf, fundresv, ilog, rcpt, bfaults>>
  PROVE  BankInv'
<1> DEFINE stuck(k) == paid[k].st = "IN_PROGRESS" /\ paid[k].old
           row(k) == IF stuck(k) THEN [paid[k] EXCEPT !.st = "DENIED"] ELSE paid[k]
<1>1. /\ Fini(r) /\ UNCHANGED <<acc, ghost>> /\ What[r].kind = "cleanup" /\ at[r] # Done
      /\ paid' = [k \in 1 .. Len(paid) |-> row(k)]
  <2>1. Fini(r) /\ UNCHANGED <<acc, ghost>> /\ Is(r, "cleanup", "start") /\ paid' = [k \in 1 .. Len(paid) |-> row(k)]
    BY Zenon DEF cleanupStuckPayments
  <2> HIDE DEF row
  <2> QED BY <2>1 DEF Is, Done
<1>2. /\ TablesOK /\ ControlOK /\ RecipientsApart /\ rcpt \in Seq(RecipientRow) /\ paid \in Seq(PaidRow) /\ Len(paid) \in Nat
  BY Lengths DEF BankInv, TablesOK
<1>3. \A k \in 1 .. Len(paid) : paid[k].r # r /\ paid[k] \in PaidRow /\ RowKept(k) /\ paid[k].r \in Req
  <2>1. \A k \in 1 .. Len(paid) : paid[k] \in PaidRow /\ paid[k].r \in Req
    <3>1. \A k \in 1 .. Len(paid) : paid[k] \in PaidRow
      BY <1>2, SequenceRange
    <3>2. \A x \in PaidRow : x.r \in Req
      BY DEF PaidRow
    <3> QED BY <3>1, <3>2
  <2>2. \A k \in 1 .. Len(paid) : paid[k].r # r
    BY <1>1, OthersRows
  <2> QED BY <2>1, <2>2 DEF BankInv, PaidOK
<1>4. ASSUME NEW k \in 1 .. Len(paid)
      PROVE  row(k) \in PaidRow /\ row(k).r = paid[k].r /\ row(k).st = IF stuck(k) THEN "DENIED" ELSE paid[k].st
  BY <1>3 DEF PaidRow
<1> HIDE DEF row, stuck
<1>5. /\ paid' \in Seq(PaidRow) /\ Len(paid') = Len(paid) /\ (\A k \in 1 .. Len(paid) : paid'[k] = row(k))
  BY <1>1, <1>2, <1>4
<1>6. at'[r] = Done /\ (\A q \in Req : q # r => at'[q] = at[q]) /\ What' = What
  BY <1>1, <1>2, GotoIs DEF What, Fini
<1>7. ASSUME NEW k \in 1 .. Len(paid), stuck(k) PROVE RowKept(k)'
  <2>1. paid'[k].r = paid[k].r /\ paid'[k].st = "DENIED" /\ at'[paid[k].r] = at[paid[k].r]
    BY <1>3, <1>4, <1>5, <1>6, <1>7
  <2>2. RowKept(k) /\ paid[k].st = "IN_PROGRESS"
    BY <1>3, <1>7 DEF stuck
  <2>3. NoneOf({"lost", "crash"})' => NoneOf({"crash"})
    BY <1>1 DEF NoneOf
  <2> QED BY <1>1, <1>6, <2>1, <2>2, <2>3 DEF RowKept
<1>8. \A k \in 1 .. Len(paid') :
        RowKept(k)' \/ (k \in 1 .. Len(paid) /\ paid[k].r # r /\ paid'[k].st = paid[k].st)
  BY <1>3, <1>4, <1>5, <1>7
<1>9. /\ Len(paid) =< Len(paid') /\ (\A k \in 1 .. Len(paid) : paid'[k].r = paid[k].r)
      /\ What[r].kind \notin {"payment", "transfer"} /\ rcpt' \in Seq(RecipientRow) /\ RecipientsApart'
  BY <1>1, <1>2, <1>4, <1>5 DEF RecipientsApart
<1> QED BY <1>1, <1>5, <1>8, <1>9, WriteStep

LEMMA OldInv ==
  ASSUME BankInv, NEW k \in 1 .. Cardinality(Req), PaymentOld(k)
  PROVE  BankInv'
<1>1. /\ k =< Len(paid) /\ paid' = [paid EXCEPT ![k].old = TRUE]
      /\ UNCHANGED <<benv, acc, sess, trf, fundresv, ilog, rcpt, at, ghost, bfaults>>
  BY DEF PaymentOld
<1>2. /\ TablesOK /\ ControlOK /\ HoldsOK /\ MoneyOK /\ TransfersOK /\ RecipientsApart /\ PaidOK
      /\ paid \in Seq(PaidRow) /\ Len(paid) \in Nat /\ AccountsOf(acc) /\ Kept(acc, acc)
  BY Lengths, KeptSelf DEF BankInv, TablesOK
<1>3. k \in 1 .. Len(paid)
  <2>1. Cardinality(Req) \in Nat
    BY <1>2, RequestFits, FS_CardinalityType
  <2> QED BY <1>1, <1>2, <2>1
<1> DEFINE row == [paid[k] EXCEPT !.old = TRUE]
<1>4. row \in PaidRow /\ row.r = paid[k].r /\ row.st = paid[k].st
  <2>1. paid[k] \in PaidRow
    BY <1>2, <1>3
  <2> QED BY <2>1 DEF PaidRow
<1>5. paid' = [paid EXCEPT ![k] = row]
  BY <1>1
<1> HIDE DEF row
<1>6. /\ paid' \in Seq(PaidRow) /\ Len(paid') = Len(paid)
      /\ (\A m \in 1 .. Len(paid) : paid'[m].r = paid[m].r /\ paid'[m].st = paid[m].st)
  BY <1>2, <1>3, <1>4, <1>5
<1>7. What' = What /\ Req' = Req
  BY <1>1 DEF What, Req
<1>8. PaidRow' = PaidRow /\ TransferRow' = TransferRow
  BY <1>7 DEF PaidRow, TransferRow
<1>9. TablesOK'
  BY <1>1, <1>2, <1>6, <1>7, <1>8 DEF TablesOK, GhostOK
<1>10. Grown({})
  <2>1. Len(sess) =< Len(sess') /\ Len(fundresv) =< Len(fundresv') /\ Len(paid) =< Len(paid') /\ Len(trf) =< Len(trf')
    BY <1>1, <1>2, <1>6, Lengths
  <2> QED BY <1>1, <1>2, <1>6, <2>1 DEF Grown, ControlOK
<1>11. HoldsOK' /\ MoneyOK'
  <2>1. AccountsOf(acc') /\ Kept(acc, acc')
    BY <1>1, <1>2
  <2> QED BY <1>1, <1>2, <1>9, <1>10, <2>1, HoldsStep, MoneyStill
<1>12. TransfersOK' /\ RecipientsApart'
  BY <1>1, <1>2, <1>10, TransfersStep DEF RecipientsApart
<1>13. \A m \in 1 .. Len(paid') : m \in 1 .. Len(paid) /\ paid[m].r \notin {} /\ paid'[m].st = paid[m].st
  BY <1>6
<1> QED BY <1>1, <1>9, <1>10, <1>11, <1>12, <1>13, StepInv

\* The fee job: what it read is an older table of the same accounts.
LEMMA FeesRead ==
  ASSUME BankInv, NEW r \in Req, What[r].kind = "monthly", at[r].pc \in {"feelist", "feewrite"}
  PROVE  AccountsOf(at[r].read) /\ Kept(at[r].read, acc) /\ at[r] # Done
<1>1. Stands(r)
  BY DEF BankInv, ControlOK
<1> QED BY <1>1 DEF Stands, Paying, Transferring, Between, Done

\* Its write: the bank's account takes what the charged accounts pay.
FeesOf(A) == [i \in Charged(A) |-> A[i].fee]
FeeRow(A, i, b, total) ==
  IF i = b THEN [acc[i] EXCEPT !.bal = A[b].bal + total]
  ELSE IF i \in 1 .. Len(A) /\ i \in Charged(A) THEN [acc[i] EXCEPT !.bal = A[i].bal - A[i].fee]
  ELSE acc[i]

LEMMA ChargedIs ==
  ASSUME NEW A, AccountsOf(A)
  PROVE  /\ Charged(A) \subseteq 1 .. Len(A) /\ IsFiniteSet(Charged(A))
         /\ \A i \in Charged(A) : /\ A[i].fee \in Nat /\ A[i].bal - A[i].fee \in Nat
                                  /\ A[i].owner # Bank /\ A[i].cur = "RSD" /\ FeesOf(A)[i] = A[i].fee
         /\ SumFunctionOnSet(FeesOf(A), Charged(A)) \in Nat
<1>1. Charged(A) \subseteq 1 .. Len(A) /\ \A i \in Charged(A) : A[i].fee > 0 /\ A[i].bal >= A[i].fee
  BY DEF Charged
<1>2. IsFiniteSet(Charged(A))
  <2>1. IsFiniteSet(1 .. Len(A))
    BY AccountsAreRows, FS_Interval
  <2> QED BY <1>1, <2>1, FS_Subset
<1>3. \A x \in AccountRow : x.fee \in Nat /\ x.bal \in Nat
  BY DEF AccountRow
<1>4. \A i \in Charged(A) : A[i].fee \in Nat /\ A[i].bal \in Nat
  BY <1>1, <1>3, AccountsAreRows
<1>5. \A i \in Charged(A) : A[i].owner # Bank /\ A[i].cur = "RSD"
  BY <1>1 DEF AccountsOf
<1>6. \A i \in Charged(A) : FeesOf(A)[i] = A[i].fee
  BY DEF FeesOf
<1>7. SumFunctionOnSet(FeesOf(A), Charged(A)) \in Nat
  BY <1>2, <1>4, <1>6, SumNat
<1> QED BY <1>1, <1>2, <1>4, <1>5, <1>6, <1>7

LEMMA FeeRowIs ==
  ASSUME AccountsOf(acc), NEW A, AccountsOf(A), Kept(A, acc), NEW b \in 1 .. Len(A), NEW total \in Nat, NEW i \in 1 .. Len(acc)
  PROVE  FeeRow(A, i, b, total) \in AccountRow /\ SameNames(FeeRow(A, i, b, total), acc[i])
<1>1. \A row \in AccountRow, n \in Nat : [row EXCEPT !.bal = n] \in AccountRow
  BY DEF AccountRow
<1>2. \A row \in AccountRow, n \in Nat : SameNames([row EXCEPT !.bal = n], row)
  BY DEF AccountRow, SameNames
<1>3. acc[i] \in AccountRow /\ A[b].bal \in Nat
  BY AccountsAreRows
<1>4. CASE i = b
  <2>1. A[b].bal + total \in Nat /\ FeeRow(A, i, b, total) = [acc[i] EXCEPT !.bal = A[b].bal + total]
    BY <1>3, <1>4 DEF FeeRow
  <2> QED BY <1>1, <1>2, <1>3, <2>1
<1>5. CASE i # b /\ i \in 1 .. Len(A) /\ i \in Charged(A)
  <2>1. FeeRow(A, i, b, total) = [acc[i] EXCEPT !.bal = A[i].bal - A[i].fee]
    BY <1>5 DEF FeeRow
  <2>2. A[i].bal - A[i].fee \in Nat
    BY <1>5, ChargedIs
  <2> QED BY <1>1, <1>2, <1>3, <2>1, <2>2
<1>6. CASE i # b /\ ~(i \in 1 .. Len(A) /\ i \in Charged(A))
  <2>1. FeeRow(A, i, b, total) = acc[i]
    BY <1>6 DEF FeeRow
  <2> QED BY <1>3, <2>1 DEF SameNames
<1> QED BY <1>4, <1>5, <1>6

LEMMA NamesShifted ==
  ASSUME NEW A, AccountsOf(A), NEW B \in Seq(AccountRow), Len(B) = Len(A), \A i \in 1 .. Len(A) : SameNames(B[i], A[i])
  PROVE  Shifted(A, B)
<1>1. /\ A \in Seq(AccountRow) /\ Len(A) \in Nat /\ Accounts0 \in Seq(AccountRow) /\ Len(Accounts0) \in Nat
  BY AccountsAreRows, AccountsAssumption
<1>2. Kept(A, B)
  BY <1>1 DEF Kept, SameNames
<1>3. Kept(Accounts0, B)
  BY <1>1, <1>2, KeptTwice DEF AccountsOf
<1>4. \A i \in 1 .. Len(B) : B[i].fee > 0 => B[i].owner # Bank /\ B[i].cur = "RSD"
  BY <1>1, <1>2 DEF AccountsOf, Kept
<1> QED BY <1>1, <1>2, <1>3, <1>4 DEF Shifted, AccountsOf

\* What each of T gives, b gets, and nobody else's entry changes.
MovedTo(f, g, q, S, T, b) ==
  /\ IsFiniteSet(S) /\ T \subseteq S /\ b \in S /\ b \notin T
  /\ \A x \in S : f[x] \in Int /\ g[x] \in Int
  /\ \A x \in T : q[x] \in Int /\ g[x] = f[x] - q[x]
  /\ g[b] = f[b] + SumFunctionOnSet(q, T)
  /\ \A x \in S : x \notin T /\ x # b => g[x] = f[x]

LEMMA SumMovedTo ==
  ASSUME NEW f, NEW g, NEW q, NEW S, NEW T, NEW b, MovedTo(f, g, q, S, T, b)
  PROVE  SumFunctionOnSet(g, S) = SumFunctionOnSet(f, S)
<1>1. /\ IsFiniteSet(S) /\ T \subseteq S /\ b \in S /\ b \notin T
      /\ \A x \in S : f[x] \in Int /\ g[x] \in Int
      /\ \A x \in T : q[x] \in Int /\ g[x] = f[x] - q[x]
      /\ g[b] = f[b] + SumFunctionOnSet(q, T)
      /\ \A x \in S : x \notin T /\ x # b => g[x] = f[x]
  BY DEF MovedTo
<1> QED BY <1>1, SumMoved

\* Without a stale balance the fees only change hands.
LEMMA FeesMoved ==
  ASSUME AccountsOf(acc), NEW A, AccountsOf(A), Kept(A, acc), NEW b \in 1 .. Len(A), A[b].owner = Bank, A[b].cur = "RSD",
         NEW B \in Seq(AccountRow), Len(B) = Len(acc), NEW total, total = SumFunctionOnSet(FeesOf(A), Charged(A)),
         \A i \in 1 .. Len(acc) : B[i] = FeeRow(A, i, b, total),
         \A i \in Charged(A) \cup {b} : acc[i].bal = A[i].bal,
         NEW c \in Currency
  PROVE  OnAccounts(B, c) = OnAccounts(acc, c)
<1> DEFINE S == 1 .. Len(acc)
           f == Sheet(acc, c)
           g == Sheet(B, c)
           T == Charged(A)
<1>1. /\ T \subseteq 1 .. Len(A) /\ total \in Nat /\ b \notin T
      /\ \A i \in T : /\ A[i].fee \in Nat /\ A[i].cur = "RSD" /\ FeesOf(A)[i] = A[i].fee
  BY ChargedIs
<1>2. /\ acc \in Seq(AccountRow) /\ Len(acc) \in Nat /\ Len(A) \in Nat /\ 1 .. Len(A) \subseteq S
      /\ \A i \in 1 .. Len(A) : acc[i].cur = A[i].cur
  BY AccountsAreRows DEF Kept
<1>3. /\ OnAccounts(acc, c) = SumFunctionOnSet(f, S) /\ DOMAIN f = S /\ IsFiniteSet(S)
      /\ \A i \in S : f[i] = Share(acc[i], c) /\ f[i] \in Int /\ acc[i] \in AccountRow
  BY <1>2, SheetOf DEF Total
<1>4. /\ OnAccounts(B, c) = SumFunctionOnSet(g, S) /\ DOMAIN g = S
      /\ \A i \in S : g[i] = Share(B[i], c) /\ g[i] \in Int
  BY SheetOf DEF Total
<1>5. \A x \in AccountRow, n \in Nat : [x EXCEPT !.bal = n].cur = x.cur /\ [x EXCEPT !.bal = n].bal = n
  BY DEF AccountRow
<1>6. B[b].cur = "RSD" /\ acc[b].cur = "RSD" /\ B[b].bal = acc[b].bal + total /\ acc[b].bal \in Nat
  <2>1. B[b] = [acc[b] EXCEPT !.bal = A[b].bal + total] /\ acc[b] \in AccountRow /\ A[b].bal \in Nat /\ acc[b].bal = A[b].bal
    BY <1>2, <1>3, AccountsAreRows DEF FeeRow
  <2>2. A[b].bal + total \in Nat
    BY <1>1, <2>1
  <2> QED BY <1>2, <1>5, <2>1, <2>2
<1>7. \A i \in T : B[i].cur = "RSD" /\ acc[i].cur = "RSD" /\ B[i].bal = acc[i].bal - A[i].fee /\ acc[i].bal \in Nat
  <2> TAKE i \in T
  <2>1. i \in 1 .. Len(A) /\ i # b /\ i \in Charged(A) /\ i \in S /\ acc[i].bal = A[i].bal
    BY <1>1, <1>2
  <2>2. B[i] = [acc[i] EXCEPT !.bal = A[i].bal - A[i].fee]
    BY <2>1 DEF FeeRow
  <2>3. acc[i] \in AccountRow /\ A[i].bal - A[i].fee \in Nat /\ acc[i].cur = "RSD" /\ A[i].bal \in Nat
    BY <1>1, <1>2, <1>3, <2>1, ChargedIs, AccountsAreRows
  <2> QED BY <1>5, <2>1, <2>2, <2>3
<1>8. \A i \in S : i # b /\ i \notin T => B[i] = acc[i]
  BY DEF FeeRow
<1> HIDE DEF f, g, T
<1>9. CASE c = "RSD"
  <2>1. g[b] = f[b] + SumFunctionOnSet(FeesOf(A), T) /\ b \in S
    BY <1>1, <1>2, <1>3, <1>4, <1>6, <1>9 DEF Share, T
  <2>2. \A i \in T : FeesOf(A)[i] \in Int /\ g[i] = f[i] - FeesOf(A)[i]
    <3> TAKE i \in T
    <3>1. i \in S /\ FeesOf(A)[i] = A[i].fee /\ A[i].fee \in Nat
      BY <1>1, <1>2
    <3>2. B[i].cur = c /\ acc[i].cur = c /\ B[i].bal = acc[i].bal - A[i].fee
      BY <1>7, <1>9
    <3>3. f[i] = acc[i].bal /\ g[i] = B[i].bal
      BY <1>3, <1>4, <3>1, <3>2 DEF Share
    <3> QED BY <3>1, <3>2, <3>3
  <2>3. \A i \in S : i \notin T /\ i # b => g[i] = f[i]
    BY <1>3, <1>4, <1>8
  <2>4. T \subseteq S /\ b \notin T
    BY <1>1, <1>2
  <2>5. SumFunctionOnSet(g, S) = SumFunctionOnSet(f, S)
    <3> DEFINE q == FeesOf(A)
    <3>1. IsFiniteSet(S) /\ \A x \in S : f[x] \in Int /\ g[x] \in Int
      BY <1>3, <1>4
    <3>2. \A x \in T : q[x] \in Int /\ g[x] = f[x] - q[x]
      BY <2>2
    <3>3. \A x \in S : x \notin T /\ x # b => g[x] = f[x]
      BY <2>3
    <3>4. g[b] = f[b] + SumFunctionOnSet(q, T) /\ b \in S /\ T \subseteq S /\ b \notin T
      BY <2>1, <2>4
    <3> HIDE DEF S, q
    <3>5. MovedTo(f, g, q, S, T, b)
      BY <3>1, <3>2, <3>3, <3>4 DEF MovedTo
    <3> QED BY <3>5, SumMovedTo
  <2> QED BY <1>3, <1>4, <2>5
<1>10. CASE c # "RSD"
  <2>1. \A i \in S : g[i] = f[i]
    BY <1>3, <1>4, <1>6, <1>7, <1>8, <1>10 DEF Share
  <2>2. SumFunctionOnSet(g, S) = SumFunctionOnSet(f, S)
    BY <1>3, <2>1, SumSame
  <2> QED BY <1>3, <1>4, <2>2
<1> QED BY <1>9, <1>10

LEMMA BankRowRead ==
  ASSUME NEW A, AccountsOf(A)
  PROVE  LET b == CHOOSE b \in getByOwnerAndCurrency(A, Bank, "RSD") : TRUE IN
         b \in 1 .. Len(A) /\ A[b].owner = Bank /\ A[b].cur = "RSD"
<1> DEFINE b == CHOOSE b \in getByOwnerAndCurrency(A, Bank, "RSD") : TRUE
<1>1. \E i : i \in getByOwnerAndCurrency(A, Bank, "RSD")
  <2>1. PICK i \in 1 .. Len(A) : getByOwnerAndCurrency(A, Bank, "RSD") = {i}
    BY BankAccountFound DEF Currency
  <2> QED BY <2>1
<1>2. b \in getByOwnerAndCurrency(A, Bank, "RSD")
  BY <1>1
<1> HIDE DEF b
<1>3. b \in 1 .. Len(A) /\ A[b].owner = Bank /\ A[b].cur = "RSD"
  BY <1>2, FoundAccount
<1> QED BY <1>3 DEF b

\* The accounts as they are now, with the bank's balance as it was read.
LEMMA ListRead ==
  ASSUME AccountsOf(acc), NEW A, AccountsOf(A), Kept(A, acc), NEW b \in 1 .. Len(A)
  PROVE  LET B == [acc EXCEPT ![b].bal = A[b].bal] IN AccountsOf(B) /\ Kept(B, acc)
<1> DEFINE row == [acc[b] EXCEPT !.bal = A[b].bal]
           B == [acc EXCEPT ![b] = row]
<1>1. /\ acc \in Seq(AccountRow) /\ Len(acc) \in Nat /\ Len(A) \in Nat /\ b \in 1 .. Len(acc)
      /\ acc[b] \in AccountRow /\ A[b].bal \in Nat
  <2>1. Len(acc) \in Nat /\ Len(A) \in Nat /\ acc \in Seq(AccountRow)
    BY AccountsAreRows
  <2>2. b \in 1 .. Len(acc)
    BY <2>1 DEF Kept
  <2> QED BY <2>1, <2>2, AccountsAreRows
<1>2. row \in AccountRow /\ SameNames(row, acc[b])
  BY <1>1 DEF AccountRow, SameNames
<1> HIDE DEF row
<1>3. B \in Seq(AccountRow) /\ Len(B) = Len(acc) /\ B[b] = row /\ \A i \in 1 .. Len(acc) : i # b => B[i] = acc[i]
  BY <1>1, <1>2
<1> HIDE DEF B
<1>4. \A i \in 1 .. Len(acc) : SameNames(B[i], acc[i])
  BY <1>2, <1>3 DEF SameNames
<1>5. Shifted(acc, B)
  BY <1>3, <1>4, NamesShifted
<1>6. AccountsOf(B) /\ Kept(B, acc)
  BY <1>1, <1>3, <1>5 DEF Shifted, Kept
<1> QED BY <1>6 DEF B, row

LEMMA FeesInv ==
  ASSUME BankInv, NEW r \in Req, runMaintenanceFees(r), UNCHANGED <<benv, sess, trf, fundresv, ilog, rcpt, bfaults>>
  PROVE  BankInv'
<1> DEFINE A == at[r].read
           b == CHOOSE b \in getByOwnerAndCurrency(A, Bank, "RSD") : TRUE
           total == SumFunctionOnSet(FeesOf(A), Charged(A))
           stale == \E i \in Charged(A) \cup {b} : acc[i].bal # A[i].bal
           to == [pc |-> "feelist", read |-> acc]
           next == [pc |-> "feewrite", read |-> [acc EXCEPT ![b].bal = A[b].bal]]
<1>1. TablesOK /\ ControlOK /\ AccountsOf(acc) /\ GhostOK /\ bfaults' \in Nat /\ Len(acc) \in Nat /\ What' = What
  BY Lengths DEF BankInv, TablesOK, What
<1>2. CASE What[r].kind = "monthly" /\ at[r].pc = "fees" /\ UNCHANGED <<acc, paid, ghost>> /\ Goto(r, to)
  <2>1. at'[r] = to /\ Kept(acc, acc)
    BY <1>1, <1>2, GotoIs, KeptSelf
  <2>2. Between(r)'
    BY <1>1, <1>2, <2>1 DEF Between
  <2>3. Stands(r)' /\ at[r] # Done /\ to.pc = "feelist"
    BY <1>2, <2>2 DEF Stands, Done
  <2> HIDE DEF to
  <2> QED BY <1>1, <1>2, <2>3, StillStep
<1>5. CASE What[r].kind = "monthly" /\ at[r].pc = "feelist" /\ UNCHANGED <<acc, paid, ghost>> /\ Goto(r, next)
  <2>1. AccountsOf(A) /\ Kept(A, acc) /\ at[r] # Done
    BY <1>5, FeesRead
  <2>2. b \in 1 .. Len(A)
    BY <2>1, BankRowRead
  <2>3. AccountsOf(next.read) /\ Kept(next.read, acc)
    <3> HIDE DEF A, b
    <3> QED BY <1>1, <2>1, <2>2, ListRead
  <2>4. next = [pc |-> "feewrite", read |-> next.read] /\ next.pc = "feewrite"
    OBVIOUS
  <2> HIDE DEF A, b, next
  <2>5. at'[r] = next
    BY <1>1, <1>5, GotoIs
  <2>6. Between(r)'
    BY <1>1, <1>5, <2>3, <2>4, <2>5 DEF Between
  <2>7. Stands(r)'
    BY <2>6 DEF Stands
  <2> QED BY <1>1, <1>5, <2>1, <2>4, <2>7, StillStep
<1>3. CASE /\ What[r].kind = "monthly" /\ at[r].pc = "feewrite" /\ Fini(r) /\ UNCHANGED paid
           /\ acc' = [i \in 1 .. Len(acc) |-> FeeRow(A, i, b, total)] /\ OddIf(stale, "fees")
  <2>1. AccountsOf(A) /\ Kept(A, acc) /\ at[r] # Done
    BY <1>3, FeesRead
  <2>2. b \in 1 .. Len(A) /\ A[b].owner = Bank /\ A[b].cur = "RSD" /\ total \in Nat
    BY <2>1, BankRowRead, ChargedIs
  <2> DEFINE n == total
  <2> HIDE DEF A, b, total
  <2>3. \A i \in 1 .. Len(acc) : FeeRow(A, i, b, total) \in AccountRow /\ SameNames(FeeRow(A, i, b, total), acc[i])
    BY <1>1, <2>1, <2>2, FeeRowIs
  <2>4. /\ acc' \in Seq(AccountRow) /\ Len(acc') = Len(acc) /\ (\A i \in 1 .. Len(acc) : acc'[i] = FeeRow(A, i, b, total))
    BY <1>1, <1>3, <2>3
  <2>5. Shifted(acc, acc')
    BY <1>1, <2>3, <2>4, NamesShifted
  <2>6. stale \in BOOLEAN
    OBVIOUS
  <2>7. /\ GhostGrown(r) /\ ghost'.side = ghost.side /\ ghost'.applied = ghost.applied /\ (stale => "fees" \in ghost'.odd)
    <3> HIDE DEF stale
    <3> QED BY <1>1, <1>3, <2>6, GhostOddIf, OddIfIs
  <2>8. AccountsOf(acc') /\ Kept(acc, acc')
    BY <2>5 DEF Shifted
  <2>9. ASSUME NoneOf({"release", "fees", "reverse"})', NEW c \in Currency
        PROVE  Delta(c) = ghost'.side[c] - ghost.side[c] + PaidDelta(r, c)
    <3>1. ~stale
      <4> HIDE DEF stale
      <4> QED BY <2>7, <2>9 DEF NoneOf
    <3>2. \A i \in Charged(A) \cup {b} : acc[i].bal = A[i].bal
      BY <3>1
    <3>3. total = SumFunctionOnSet(FeesOf(A), Charged(A))
      BY DEF total
    <3>4. OnAccounts(acc', c) = OnAccounts(acc, c)
      BY <1>1, <2>1, <2>2, <2>4, <3>2, <3>3, FeesMoved
    <3>5. PaidDelta(r, c) = 0
      BY <1>1, <2>7, PaidDeltaZero
    <3> QED BY <1>1, <2>7, <2>8, <3>4, <3>5, Numbers DEF Delta
  <2>10. Goto(r, Done) /\ Stands(r)' /\ Done.pc = "done" /\ What[r].kind \notin {"payment", "transfer"}
    BY <1>3, FiniIs
  <2> HIDE DEF stale
  <2> QED BY <1>1, <1>3, <2>1, <2>7, <2>8, <2>9, <2>10, AccountsStepInv
<1>4. \/ What[r].kind = "monthly" /\ at[r].pc = "fees" /\ UNCHANGED <<acc, paid, ghost>> /\ Goto(r, to)
      \/ What[r].kind = "monthly" /\ at[r].pc = "feelist" /\ UNCHANGED <<acc, paid, ghost>> /\ Goto(r, next)
      \/ /\ What[r].kind = "monthly" /\ at[r].pc = "feewrite" /\ Fini(r) /\ UNCHANGED paid
         /\ acc' = [i \in 1 .. Len(acc) |-> FeeRow(A, i, b, total)] /\ OddIf(stale, "fees")
  BY Zenon DEF runMaintenanceFees, Is, FeeRow, FeesOf
<1> HIDE DEF A, b, total, stale, to, next
<1> QED BY <1>2, <1>3, <1>4, <1>5
--------------------------------------------------------------------------
(* The whole service. *)

\* Nothing happens.
LEMMA IdleInv ==
  ASSUME BankInv, UNCHANGED bvars
  PROVE  BankInv'
<1>1. /\ benv' = benv /\ acc' = acc /\ sess' = sess /\ paid' = paid /\ trf' = trf /\ fundresv' = fundresv
      /\ ilog' = ilog /\ rcpt' = rcpt /\ at' = at /\ ghost' = ghost /\ bfaults' = bfaults
  BY DEF bvars
<1>2. /\ DOMAIN at = Req /\ DOMAIN ghost = {"side", "applied", "odd"} /\ sess \in Seq(SessionRow) /\ Len(sess) \in Nat
      /\ SessionsOK
  BY Lengths DEF BankInv, ControlOK, TablesOK, GhostOK
<1>3. TablesOK' /\ Grown({})
  BY <1>1, <1>2, SessionTables
<1>4. \A i : Confirmed(i) => Confirmed(i)'
  BY <1>1 DEF Confirmed, NoneOf
<1>5. /\ SessionsApart(sess')
      /\ \A i \in 1 .. Len(sess') : sess'[i].st \in {"PENDING", "VERIFIED"} => sess'[i].tries < MaxAttempts
  BY <1>1, <1>2 DEF SessionsOK
<1>6. UNCHANGED <<acc, paid, trf, fundresv, ilog, rcpt>> /\ ghost'.side = ghost.side /\ ghost'.applied = ghost.applied
  BY <1>1
<1> QED BY <1>3, <1>4, <1>5, <1>6, SessionStepInv

\* The books at the start: the opening balances and nothing else.
LEMMA BooksStart ==
  ASSUME BankInit, NEW c \in Currency
  PROVE  Balanced(c)
<1>1. /\ benv \in BankScenarios /\ acc = Accounts0 /\ fundresv = <<>> /\ ilog = <<>>
      /\ ghost = [side |-> [x \in Currency |-> 0], applied |-> [r \in Req |-> 0], odd |-> {}]
  BY DEF BankInit, BankStart
<1>2. \A f : DOMAIN f = {} => Total(f) = 0
  BY SumEmpty DEF Total
<1>3. Reserved(c) = 0
  <2> DEFINE f == [k \in 1 .. Len(fundresv) |-> HeldIn(fundresv[k], c)]
  <2>1. DOMAIN f = {} /\ Reserved(c) = Total(f)
    BY <1>1 DEF Reserved
  <2> QED BY <1>2, <2>1
<1>4. CrossLogGap(c) = 0
  <2> DEFINE f == [k \in 1 .. Len(ilog) |->
                     IF k \in CrossRows THEN In(ilog[k].from, c, ilog[k].fee - ilog[k].amt) + In(ilog[k].to, c, ilog[k].in)
                     ELSE 0]
  <2>1. DOMAIN f = {} /\ CrossLogGap(c) = Total(f)
    BY <1>1 DEF CrossLogGap
  <2> QED BY <1>2, <2>1
<1>5. ToBankGap(c) = 0
  <2> DEFINE f == ToBanks(acc, What, ghost.applied, c)
  <2>1. /\ DOMAIN f = Req /\ IsFiniteSet(Req) /\ AccountsOf(acc) /\ Known \subseteq 1 .. Len(acc)
        /\ \A r \in Req : RequestOK(What[r]) /\ f[r] = ghost.applied[r] * PaidOn(acc, What[r], c)
    BY <1>1, AccountsAssumption, RequestsAssumption DEF ToBanks, Req, What, AccountsOf, Kept, Known
  <2>2. ToBankGap(c) = Total(f)
    BY SumsAre
  <2>3. ASSUME NEW r \in Req PROVE f[r] = 0
    <3>1. PaidOn(acc, What[r], c) \in Int /\ ghost.applied[r] = 0
      BY <1>1, <2>1, PaidOnInt
    <3>2. \A x \in Int : 0 * x = 0
      OBVIOUS
    <3> QED BY <2>1, <3>1, <3>2
  <2> HIDE DEF f
  <2> QED BY <2>1, <2>2, <2>3, SumZero DEF Total
<1>6. ghost.side[c] = 0
  BY <1>1
<1>7. OnAccounts(acc, c) \in Int /\ acc = Accounts0
  BY <1>1, AccountsAssumption, OnAccountsInt
<1> QED BY <1>3, <1>4, <1>5, <1>6, <1>7 DEF Balanced

LEMMA BankBegins ==
  ASSUME BankInit
  PROVE  BankInv
<1>1. /\ benv \in BankScenarios /\ acc = Accounts0 /\ sess = benv.sess /\ paid = <<>> /\ trf = <<>> /\ fundresv = <<>>
      /\ ilog = <<>> /\ rcpt = <<>> /\ at = [r \in Req |-> [pc |-> "start"]]
      /\ ghost = [side |-> [x \in Currency |-> 0], applied |-> [r \in Req |-> 0], odd |-> {}] /\ bfaults = 0
  BY DEF BankInit, BankStart
<1>2. AccountsOf(acc) /\ GhostOK
  BY <1>1, AccountsAssumption DEF AccountsOf, Kept, GhostOK, Known
<1>3. /\ sess \in Seq(SessionRow) /\ SessionsApart(sess)
      /\ \A i \in 1 .. Len(sess) : sess[i].st # "CANCELLED" => sess[i].tries < MaxAttempts
  BY <1>1, RequestsAssumption
<1>4. TablesOK
  BY <1>1, <1>2, <1>3 DEF TablesOK
<1>5. ControlOK /\ \A r \in Req : at[r].pc = "start" /\ at[r] # Done
  BY <1>1 DEF ControlOK, Stands, Done
<1>6. \A r \in Req : Applied(r) = 0
  BY <1>1 DEF Applied
<1>7. CountsOK
  BY <1>5, <1>6 DEF CountsOK, CountKept
<1>8. PaidOK /\ TransfersOK /\ RecipientsApart /\ HoldsOK
  BY <1>1 DEF PaidOK, TransfersOK, RecipientsApart, HoldsOK
<1>9. SessionsOK
  BY <1>3, <1>5, <1>6 DEF SessionsOK, PastCheck
<1>10. MoneyOK
  BY BooksStart DEF MoneyOK
<1> QED BY <1>4, <1>5, <1>7, <1>8, <1>9, <1>10 DEF BankInv

LEMMA BankSteps ==
  ASSUME BankInv, [BankNext]_bvars
  PROVE  BankInv'
<1>1. ASSUME NEW r \in Req, FundsStep(r) PROVE BankInv'
  BY <1>1, ReserveInv, ReleaseInv, CommitInv DEF FundsStep
<1>2. ASSUME NEW r \in Req, InternalStep(r) PROVE BankInv'
  BY <1>2, InternalInv, ReverseInv DEF InternalStep
<1>3. ASSUME NEW r \in Req, AccountsStep(r) PROVE BankInv'
  <2>1. UNCHANGED <<benv, sess, paid, trf, fundresv, ilog, rcpt>>
    BY <1>3 DEF AccountsStep
  <2>2. CASE CreateCheckingAccount(r) \/ CreateFXAccount(r) \/ CreateSystemAccount(r)
    BY <2>1, <2>2, OpenCheckingInv, OpenFXInv, OpenSystemInv
  <2>3. CASE EditStatus(r) \/ AccountExpires(r) \/ editAccountName(r) \/ editAccountLimit(r)
    BY <2>1, <2>3, EditStatusInv, ExpiryInv, EditNameInv, EditLimitInv
  <2>4. CASE TransactionFromBank(r) \/ CreditBank(r) \/ DebitBank(r)
    BY <2>1, <2>4, FromBankInv, CreditBankInv, DebitBankInv
  <2>5. CASE exchangeOneSided(r) \/ Transaction(r)
    BY <2>1, <2>5, ExchangeInv, TransactionInv
  <2> QED BY <1>3, <2>2, <2>3, <2>4, <2>5 DEF AccountsStep
<1>4. ASSUME NEW r \in Req, JobStep(r) PROVE BankInv'
  <2>1. UNCHANGED <<benv, sess, trf, fundresv, ilog, rcpt, bfaults>>
    BY <1>4 DEF JobStep
  <2> QED BY <1>4, <2>1, DailyInv, MonthlyInv, CleanupInv, FeesInv DEF JobStep
<1>5. ASSUME NEW r \in Req,
             \/ Generate(r) \/ ValidateCode(r) \/ Status(r) \/ Expire(r) \/ PaymentStep(r) \/ TransferStep(r)
             \/ RecordStep(r) \/ RecipientStep(r)
      PROVE  BankInv'
  BY <1>5, GenerateInv, ValidateInv, StatusInv, ExpireInv, NewPaymentInv, TransferInv, RecordInv, RecipientInv
<1>6. ASSUME NEW k \in 1 .. Cardinality(Req), SessionLate(k) \/ PaymentOld(k) PROVE BankInv'
  BY <1>6, LateInv, OldInv
<1>7. CASE UNCHANGED bvars
  BY <1>7, IdleInv
<1>8. CASE BankNext
  BY <1>1, <1>2, <1>3, <1>4, <1>5, <1>6, <1>8 DEF BankNext
<1> QED BY <1>7, <1>8

LEMMA BankInvVerified ==
  ASSUME BankInv
  PROVE  OnlyVerified
<1>1. SessionsOK /\ RecipientsApart
  BY DEF BankInv
<1>2. ASSUME NEW r \in Req, What[r].kind \in {"payment", "transfer"}, ghost.applied[r] > 0
      PROVE  \E s \in findSession(What[r].session) :
               /\ s.tries < MaxAttempts
               /\ s.st = "VERIFIED" \/ (s.st = "EXPIRED" /\ "expired" \in ghost.odd)
  <2>1. Confirmed(What[r].session)
    BY <1>1, <1>2 DEF SessionsOK, PastCheck, Applied
  <2>2. sess[What[r].session] \in findSession(What[r].session)
    BY <2>1 DEF Confirmed, findSession
  <2> QED BY <2>1, <2>2 DEF Confirmed, NoneOf
<1> QED BY <1>1, <1>2 DEF OnlyVerified, SessionsOK, RecipientsApart

LEMMA BankInvBooks ==
  ASSUME BankInv
  PROVE  Books
<1>1. /\ TablesOK /\ ControlOK /\ CountsOK /\ PaidOK /\ TransfersOK /\ SessionsOK /\ MoneyOK /\ AccountsOf(acc) /\ GhostOK
      /\ trf \in Seq(TransferRow) /\ Len(trf) \in Nat
  BY Lengths DEF BankInv, TablesOK
<1>2. \A i \in 1 .. Len(acc) : acc[i].bal >= 0
  BY <1>1, AccountsAreRows
<1>3. (ghost.odd \cap {"release", "fees", "reverse"}) = {} =>
        \A c \in Currency :
          OnAccounts(acc, c) + Reserved(c)
            = OnAccounts(Accounts0, c) + ghost.side[c] + CrossLogGap(c) + ToBankGap(c)
  BY <1>1 DEF MoneyOK, Balanced, NoneOf
<1>4. ASSUME NEW k \in 1 .. Len(paid)
      PROVE  /\ paid[k].st = "COMPLETED" =>
                  ghost.applied[paid[k].r] >= 1 /\ ("lost" \notin ghost.odd => ghost.applied[paid[k].r] = 1)
             /\ paid[k].st = "DENIED" /\ at[paid[k].r] = Done /\ (ghost.odd \cap {"lost", "crash"}) = {} =>
                  ghost.applied[paid[k].r] = 0
  <2>1. RowKept(k)
    BY <1>1 DEF PaidOK
  <2>2. NoneOf({"lost"}) <=> "lost" \notin ghost.odd
    BY DEF NoneOf
  <2>3. NoneOf({"lost", "crash"}) <=> (ghost.odd \cap {"lost", "crash"}) = {}
    BY DEF NoneOf
  <2> QED BY <2>1, <2>2, <2>3 DEF RowKept, Applied, Done
<1>5. \A k \in 1 .. Len(trf) :
        /\ ghost.applied[trf[k].r] = 1
        /\ \A m \in 1 .. Len(trf) : trf[m].session = trf[k].session => m = k
  BY <1>1 DEF TransfersOK, Applied
<1>6. ASSUME (ghost.odd \cap {"lost", "twice", "crash"}) = {}, NEW k \in 1 .. Len(trf), NEW r \in Req,
             What[r].kind = "transfer", What[r].session = trf[k].session, r # trf[k].r, at[r] = Done
      PROVE  ghost.applied[r] = 0
  <2>1. SUFFICES ASSUME Applied(r) > 0 PROVE FALSE
    BY <1>1 DEF Applied, GhostOK
  <2>2. CountKept(r) /\ NoneOf({"lost", "twice", "crash"})
    BY <1>1, <1>6 DEF CountsOK, NoneOf
  <2>3. PICK m \in 1 .. Len(trf) : trf[m].r = r
    BY <1>6, <2>1, <2>2 DEF CountKept
  <2>4. trf[m].session = What[r].session
    BY <1>1, <2>3 DEF TransfersOK
  <2>5. m = k
    BY <1>1, <1>6, <2>4 DEF TransfersOK
  <2> QED BY <1>6, <2>3, <2>5
<1> QED BY <1>2, <1>3, <1>4, <1>5, <1>6 DEF Books

LEMMA BankInvTypes ==
  ASSUME BankInv
  PROVE  BankTypeOK
<1>1. /\ AccountsOf(acc) /\ sess \in Seq(SessionRow) /\ paid \in Seq(PaidRow) /\ fundresv \in Seq(HoldRow)
      /\ ilog \in Seq(LogRow)
  BY DEF BankInv, TablesOK
<1>2. \A i \in 1 .. Len(acc) : acc[i] \in AccountRow
  BY <1>1, AccountsAreRows
<1>3. /\ \A i \in 1 .. Len(sess) : sess[i] \in SessionRow
      /\ \A k \in 1 .. Len(paid) : paid[k] \in PaidRow
      /\ \A k \in 1 .. Len(fundresv) : fundresv[k] \in HoldRow
      /\ \A k \in 1 .. Len(ilog) : ilog[k] \in LogRow
  BY <1>1, SequenceRange
<1>4. \A row \in AccountRow : /\ row.cur \in Currency /\ row.st \in {"ACTIVE", "INACTIVE"}
                              /\ row.bal \in Int /\ row.own \in {"PERSONAL", "BUSINESS"}
  BY DEF AccountRow
<1>5. /\ \A row \in SessionRow : row.st \in {"PENDING", "VERIFIED", "CANCELLED", "EXPIRED"} /\ row.tries \in 0 .. MaxAttempts
      /\ \A row \in PaidRow : row.st \in {"IN_PROGRESS", "COMPLETED", "DENIED"}
      /\ \A row \in HoldRow : row.st \in {"HELD", "RELEASED", "COMMITTED"}
      /\ \A row \in LogRow : row.st \in {"COMPLETED", "REVERSED"}
  BY DEF SessionRow, PaidRow, HoldRow, LogRow
<1> QED BY <1>2, <1>3, <1>4, <1>5 DEF BankTypeOK

\* The tables of the client side of banking-core keep their types, whatever
\* the requests, the jobs and the failures do.
THEOREM BankTypesHold == BankSpec => []BankTypeOK
  BY BankBegins, BankSteps, BankInvTypes, PTL DEF BankSpec

\* Money of a payment or a transfer moves only for a session that its client
\* confirmed in time with wrong codes below the limit, an operation has one
\* pending session, and saved recipients keep distinct names
\* (verificationVerified, Generate, ValidateCode, CreateRecipient).
THEOREM MoneyVerified == BankSpec => []OnlyVerified
  BY BankBegins, BankSteps, BankInvVerified, PTL DEF BankSpec

\* For any accounts and any overlapping requests and jobs, each currency's
\* money is where the books say; a payment's final status agrees with what
\* moved, and a session moves one transfer (applyPaymentTx, NewPayment,
\* Execute, ReleaseFunds, ReverseTransfer, runMaintenanceFees).
THEOREM MoneyKept == BankSpec => []Books
  BY BankBegins, BankSteps, BankInvBooks, PTL DEF BankSpec
============================================================================
