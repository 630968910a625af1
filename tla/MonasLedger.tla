----------------------------- MODULE MonasLedger -----------------------------
(***************************************************************************)
(* The money ledger of banking-core-service: account_table (stanje,        *)
(* raspolozivo_stanje) and interbank_reservations.  Every operation runs   *)
(* in one SQL transaction that locks the account row (and the reservation  *)
(* row) FOR UPDATE, so each is one atomic step.                            *)
(*                                                                         *)
(* A reservation is identified here by the payment it was made for: the    *)
(* server creates a fresh UUID per call, and the callers modelled here     *)
(* call ReserveMonas once per transaction id.                              *)
(***************************************************************************)
EXTENDS Integers, FiniteSetsExt

CONSTANTS Tx,        \* payments, each with at most one reservation
          Acct,      \* accounts of this bank
          SrcOf,     \* [Tx -> Acct], the account a payment debits
          Amt,       \* [Tx -> Nat \ {0}], the amount reserved
          InitBal,   \* [Acct -> Nat], opening balance of each account
          BalBound   \* bound on a balance, for Credit only

ASSUME LedgerAssumption ==
    /\ IsFiniteSet(Tx)
    /\ SrcOf \in [Tx -> Acct]
    /\ Amt \in [Tx -> Nat \ {0}]
    /\ InitBal \in [Acct -> Nat]
    /\ BalBound \in Nat

VARIABLES bal,    \* stanje: the booked balance
          avail,  \* raspolozivo_stanje: the balance free to spend
          resv    \* status of the reservation of each payment

ledgerVars == <<bal, avail, resv>>

ResvStatus == {"none", "HELD", "COMMITTED", "RELEASED"}

LedgerTypeOK ==
    /\ bal \in [Acct -> Int]
    /\ avail \in [Acct -> Int]
    /\ resv \in [Tx -> ResvStatus]

LedgerInit ==
    /\ bal = InitBal
    /\ avail = InitBal
    /\ resv = [t \in Tx |-> "none"]

------------------------------------------------------------------------------
(* The operations.  Each Can... is the condition under which the server     *)
(* changes state; when it fails the call is refused and nothing changes.    *)

\* ReserveMonas: refused unless the available balance covers the amount.
CanReserve(t) == resv[t] = "none" /\ avail[SrcOf[t]] >= Amt[t]

ReserveMonas(t) ==
    /\ CanReserve(t)
    /\ avail' = [avail EXCEPT ![SrcOf[t]] = @ - Amt[t]]
    /\ resv' = [resv EXCEPT ![t] = "HELD"]
    /\ UNCHANGED bal

\* CommitReservation: a COMMITTED reservation answers success and stays as it
\* is; any other state but HELD is a conflict.
CanCommit(t) == resv[t] \in {"HELD", "COMMITTED"}

\* Mutant: a repeated commit debits again.
CommitReservationAgain(t) ==
    /\ CanCommit(t)
    /\ bal' = [bal EXCEPT ![SrcOf[t]] = @ - Amt[t]]
    /\ resv' = [resv EXCEPT ![t] = "COMMITTED"]
    /\ UNCHANGED avail

CommitReservation(t) ==
    /\ CanCommit(t)
    /\ bal' = IF resv[t] = "HELD" THEN [bal EXCEPT ![SrcOf[t]] = @ - Amt[t]] ELSE bal
    /\ resv' = [resv EXCEPT ![t] = "COMMITTED"]
    /\ UNCHANGED avail

\* ReleaseReservation: a RELEASED reservation answers success and stays as it
\* is; a COMMITTED one is a conflict.
CanRelease(t) == resv[t] \in {"HELD", "RELEASED"}

ReleaseReservation(t) ==
    /\ CanRelease(t)
    /\ avail' = IF resv[t] = "HELD" THEN [avail EXCEPT ![SrcOf[t]] = @ + Amt[t]] ELSE avail
    /\ resv' = [resv EXCEPT ![t] = "RELEASED"]
    /\ UNCHANGED bal

\* DebitTx and CreditTx: ordinary postings by the rest of the bank, which move
\* both balances.  A debit is checked against the available balance.  Limits
\* and ownership checks only refuse more, so they are left out.
Debit(a, n) ==
    /\ avail[a] >= n
    /\ bal' = [bal EXCEPT ![a] = @ - n]
    /\ avail' = [avail EXCEPT ![a] = @ - n]
    /\ UNCHANGED resv

Credit(a, n) ==
    /\ bal[a] + n =< BalBound
    /\ bal' = [bal EXCEPT ![a] = @ + n]
    /\ avail' = [avail EXCEPT ![a] = @ + n]
    /\ UNCHANGED resv

LedgerNext ==
    \/ \E t \in Tx : ReserveMonas(t) \/ CommitReservation(t) \/ ReleaseReservation(t)
    \/ \E a \in Acct : Debit(a, 1) \/ Credit(a, 1)

LedgerSpec == LedgerInit /\ [][LedgerNext]_ledgerVars

------------------------------------------------------------------------------
(* Properties. *)

Held(a) == {t \in Tx : SrcOf[t] = a /\ resv[t] = "HELD"}

\* The available balance of an account is its booked balance less what is
\* HELD on it, and is never negative: reservations committed, released and
\* repeated in any order, interleaved with ordinary debits and credits, neither
\* lose a hold nor free it twice (the CASE of status in CommitReservation and
\* ReleaseReservation, and the check in ReserveMonas and DebitTx).
Backed ==
    \A a \in Acct :
        /\ avail[a] >= 0
        /\ bal[a] = avail[a] + SumFunctionOnSet(Amt, Held(a))
==============================================================================
