-------------------------- MODULE RecurringOrders --------------------------
(***************************************************************************)
(* Standing orders of trading-service: a template is created, paused,       *)
(* resumed and cancelled by its owner, and a run - of the cron job or of    *)
(* the internal endpoint - fires every due template through the create and  *)
(* confirm of an order and then advances its next run, whatever came of it. *)
(*                                                                         *)
(* Time is a day; Months gives the days of each month, so that the end of a *)
(* month and the clamping of days are those of a calendar.  What create and *)
(* confirm do to an order is OrderDesk's; here they succeed, conflict (409) *)
(* or fail.                                                                 *)
(***************************************************************************)
EXTENDS Integers, Sequences, FiniteSets, FiniteSetsExt

CONSTANTS
  Months,        \* lengths of the months, in order
  Asks,          \* [listing -> ask * contractSize; 0 when there is no ask]
  RecurringScenarios \* [reqs, now, last, may, budget, overlap]

VARIABLES
  renv,
  rdb,     \* [rows, orders]: the tables recurring_orders and (of it) orders
  rnow,
  rat,     \* where each request stands
  rghost,  \* history: every slot a run loaded to fire, and every skip notification
  rfaults

rvars == <<renv, rdb, rnow, rat, rghost, rfaults>>

RReqs == DOMAIN renv.reqs
RReq(i) == renv.reqs[i]
RMay(F) == F \cap renv.may # {}
RFault(f) == f \in renv.may /\ rfaults < renv.budget /\ rfaults' = rfaults + 1
RNoFault == UNCHANGED rfaults
RGo(i, r) == rat' = [rat EXCEPT ![i] = r]
REnd(i, how) == RGo(i, [rat[i] EXCEPT !.st = how])
--------------------------------------------------------------------------
(* The calendar.                                                            *)

Before[m \in 1 .. Len(Months) + 1] == IF m = 1 THEN 0 ELSE Before[m - 1] + Months[m - 1]
Date(m, d) == Before[m] + d
MonthOf(t) == CHOOSE m \in 1 .. Len(Months) : Before[m] < t /\ t <= Before[m + 1]
DayOf(t) == t - Before[MonthOf(t)]
\* time.AddDate(0, 1, 0): a day the next month lacks overflows into the month after it.
AddMonth(t) == Date(MonthOf(t) + 1, DayOf(t))
clampDay(m, d) == Min({d, Months[m]})
plusMonthsClamped(t) == Date(MonthOf(t) + 1, clampDay(MonthOf(t) + 1, DayOf(t)))
advanceCadence(c, t) ==
  CASE c = "DAILY" -> t + 1 [] c = "WEEKLY" -> t + 7 [] OTHER -> plusMonthsClamped(t)
\* dayOfMonth 0 stands for none given.
defaultRecurringNextRun(now, c, day) ==
  LET this == Date(MonthOf(now), clampDay(MonthOf(now), day))
      next == MonthOf(AddMonth(now)) IN
  CASE c = "DAILY" -> now + 1
    [] c = "WEEKLY" -> now + 7
    [] OTHER -> IF day = 0 THEN AddMonth(now)
                ELSE IF this > now THEN this ELSE Date(next, clampDay(next, day))
--------------------------------------------------------------------------
(* recurring_orders: one operator a query; a deleted row is NoRow.  A row's *)
(* first is history: the slot it was created with.                          *)

NoRow == [user |-> 0, listing |-> "", mode |-> "", value |-> 0, cad |-> "", next |-> 0, active |-> FALSE, first |-> 0]
FindRecurringByID(d, id) == IF id \in DOMAIN d.rows THEN d.rows[id] ELSE NoRow
FindRecurringByUserID(d, u) == {id \in DOMAIN d.rows : d.rows[id].user = u}
FindDueRecurring(d, now) == {id \in DOMAIN d.rows : d.rows[id].active /\ d.rows[id].next <= now}
InsertRecurring(d, r) == [d EXCEPT !.rows = Append(@, r)]
SetRecurringActive(d, id, b) == IF d.rows[id] = NoRow THEN d ELSE [d EXCEPT !.rows[id].active = b]
DeleteRecurring(d, id) == [d EXCEPT !.rows[id] = NoRow]
UpdateRecurringNextRun(d, id, t) == IF d.rows[id] = NoRow THEN d ELSE [d EXCEPT !.rows[id].next = t]
--------------------------------------------------------------------------
(* The owner's requests.                                                    *)

\* The handler's validation; a missing next run is computed from the cadence.
CreateRecurringOrder(i) ==
  /\ rat[i].st = "idle" /\ RReq(i).op = "create" /\ RNoFault
  /\ LET q == RReq(i)
         next == IF q.next # 0 THEN q.next ELSE defaultRecurringNextRun(rnow, q.cad, q.day) IN
     IF q.value > 0 /\ q.day \in 0 .. 31 /\ next > rnow
     THEN /\ REnd(i, "done")
          /\ rdb' = InsertRecurring(rdb, [user |-> q.user, listing |-> q.listing, mode |-> q.mode, value |-> q.value,
                                          cad |-> q.cad, next |-> next, active |-> TRUE, first |-> next])
     ELSE REnd(i, "refused") /\ UNCHANGED rdb
  /\ UNCHANGED <<renv, rnow, rghost>>

getOwnedRecurring(d, u, id) == FindRecurringByID(d, id).user = u
\* Pause, resume and cancel read the row, an absent and a foreign one refused alike, ...
FindOwnedRecurring(i) ==
  /\ rat[i].st = "idle" /\ RReq(i).op \in {"pause", "resume", "cancel"}
  /\ \/ /\ RNoFault
        /\ REnd(i, IF getOwnedRecurring(rdb, RReq(i).user, RReq(i).id) THEN "owned" ELSE "refused")
     \/ RFault("db") /\ REnd(i, "refused")
  /\ UNCHANGED <<renv, rdb, rnow, rghost>>
\* ... and write it in a statement of its own, which a row deleted since leaves without effect.
ChangeRecurring(i) ==
  /\ rat[i].st = "owned"
  /\ \/ /\ RNoFault /\ REnd(i, "done")
        /\ rdb' = IF RReq(i).op = "cancel" THEN DeleteRecurring(rdb, RReq(i).id)
                  ELSE SetRecurringActive(rdb, RReq(i).id, RReq(i).op = "resume")
     \/ RFault("db") /\ REnd(i, "refused") /\ UNCHANGED rdb
  /\ UNCHANGED <<renv, rnow, rghost>>
--------------------------------------------------------------------------
(* A run.                                                                   *)

Running(i) == RReq(i).op = "run" /\ rat[i].st \in {"next", "fire", "confirm", "reload", "advance"}
RIdle == [st |-> "idle", due |-> {}, id |-> 0, row |-> NoRow, order |-> 0, to |-> 0]
RunDueRecurringOrders(i) ==
  /\ rat[i].st = "idle" /\ RReq(i).op = "run"
  /\ renv.overlap \/ ~\E j \in RReqs : Running(j)
  /\ \/ RNoFault /\ RGo(i, [rat[i] EXCEPT !.st = "next", !.due = FindDueRecurring(rdb, rnow)])
     \/ RFault("db") /\ REnd(i, "refused")
  /\ UNCHANGED <<renv, rdb, rnow, rghost>>
\* runDueRecurringOrder: the row is read again, and fires only when it is still active.
LoadRecurring(i) ==
  /\ rat[i].st = "next"
  /\ IF rat[i].due = {} THEN RNoFault /\ REnd(i, "done") /\ UNCHANGED rghost
     ELSE \E id \in rat[i].due :
            LET row == FindRecurringByID(rdb, id)
                rest == [rat[i] EXCEPT !.due = @ \ {id}] IN
            \/ /\ RNoFault
               /\ IF row.active
                  THEN /\ RGo(i, [rest EXCEPT !.st = "fire", !.id = id, !.row = row])
                       /\ rghost' = [rghost EXCEPT !.slots = Append(@, [id |-> id, slot |-> row.next, day |-> rnow])]
                  ELSE RGo(i, rest) /\ UNCHANGED rghost
            \/ RFault("db") /\ RGo(i, rest) /\ UNCHANGED rghost
  /\ UNCHANGED <<renv, rdb, rnow>>

recurringUnitCost(l) == Asks[l]
resolveRecurringQuantity(row) ==
  IF row.mode = "BY_QUANTITY" THEN row.value
  ELSE IF recurringUnitCost(row.listing) <= 0 THEN 0
  ELSE row.value \div recurringUnitCost(row.listing)

Skipped(i) == rghost' = [rghost EXCEPT !.skips = Append(@, [id |-> rat[i].id, slot |-> rat[i].row.next])]
\* fireRecurringOrder: the listing, the quantity, the order's creation.
fireRecurringOrder(i) ==
  /\ rat[i].st = "fire"
  /\ LET n == resolveRecurringQuantity(rat[i].row) IN
     IF n <= 0 THEN RNoFault /\ REnd(i, "reload") /\ Skipped(i) /\ UNCHANGED rdb
     ELSE \/ /\ RNoFault /\ UNCHANGED rghost
             /\ RGo(i, [rat[i] EXCEPT !.st = "confirm", !.order = Len(rdb.orders) + 1])
             /\ rdb' = [rdb EXCEPT !.orders = Append(@, [row |-> rat[i].id, user |-> rat[i].row.user, n |-> n,
                                                         slot |-> rat[i].row.next, st |-> "draft"])]
          \/ RFault("conflict") /\ REnd(i, "reload") /\ Skipped(i) /\ UNCHANGED rdb
          \/ RFault("fail") /\ REnd(i, "reload") /\ UNCHANGED <<rdb, rghost>>
  /\ UNCHANGED <<renv, rnow>>
\* A refused confirmation leaves the draft.
ConfirmRecurring(i) ==
  /\ rat[i].st = "confirm" /\ REnd(i, "reload")
  /\ \/ RNoFault /\ rdb' = [rdb EXCEPT !.orders[rat[i].order].st = "placed"] /\ UNCHANGED rghost
     \/ RFault("conflict") /\ Skipped(i) /\ UNCHANGED rdb
     \/ RFault("fail") /\ UNCHANGED <<rdb, rghost>>
  /\ UNCHANGED <<renv, rnow>>

NextDue(i) == [rat[i] EXCEPT !.st = "next", !.id = 0, !.row = NoRow, !.order = 0, !.to = 0]
\* A mutant: only a run whose order was placed advances the schedule.
AdvanceWhenPlaced(i) ==
  /\ rat[i].st = "reload"
  /\ LET fresh == FindRecurringByID(rdb, rat[i].id) IN
     \/ /\ RNoFault
        /\ RGo(i, IF fresh = NoRow \/ rat[i].order = 0 \/ rdb.orders[rat[i].order].st # "placed" THEN NextDue(i)
                  ELSE [rat[i] EXCEPT !.st = "advance", !.to = advanceCadence(fresh.cad, fresh.next)])
     \/ RFault("db") /\ RGo(i, NextDue(i))
  /\ UNCHANGED <<renv, rdb, rnow, rghost>>
\* advanceRecurringNextRun, deferred: it runs after every outcome, in two statements.
advanceRecurringNextRun(i) ==
  /\ rat[i].st = "reload"
  /\ LET fresh == FindRecurringByID(rdb, rat[i].id) IN
     \/ /\ RNoFault
        /\ RGo(i, IF fresh = NoRow THEN NextDue(i)
                  ELSE [rat[i] EXCEPT !.st = "advance", !.to = advanceCadence(fresh.cad, fresh.next)])
     \/ RFault("db") /\ RGo(i, NextDue(i))
  /\ UNCHANGED <<renv, rdb, rnow, rghost>>
WriteNextRun(i) ==
  /\ rat[i].st = "advance" /\ RGo(i, NextDue(i))
  /\ \/ RNoFault /\ rdb' = UpdateRecurringNextRun(rdb, rat[i].id, rat[i].to)
     \/ RFault("db") /\ UNCHANGED rdb
  /\ UNCHANGED <<renv, rnow, rghost>>

RecurringTick ==
  /\ rnow < renv.last /\ rnow' = rnow + 1
  /\ UNCHANGED <<renv, rdb, rat, rghost, rfaults>>
RecurringCrash ==
  /\ \E i \in RReqs : Running(i)
  /\ RFault("crash")
  /\ rat' = [i \in RReqs |-> IF Running(i) THEN [RIdle EXCEPT !.st = "dead"] ELSE rat[i]]
  /\ UNCHANGED <<renv, rdb, rnow, rghost>>

RecurringInit ==
  /\ renv \in RecurringScenarios
  /\ rdb = [rows |-> <<>>, orders |-> <<>>] /\ rnow = renv.now
  /\ rat = [i \in RReqs |-> RIdle]
  /\ rghost = [slots |-> <<>>, skips |-> <<>>] /\ rfaults = 0
RecurringNext ==
  \/ \E i \in RReqs :
       \/ CreateRecurringOrder(i) \/ FindOwnedRecurring(i) \/ ChangeRecurring(i)
       \/ RunDueRecurringOrders(i) \/ LoadRecurring(i) \/ fireRecurringOrder(i) \/ ConfirmRecurring(i)
       \/ advanceRecurringNextRun(i) \/ WriteNextRun(i)
  \/ RecurringTick \/ RecurringCrash
RecurringSpec == RecurringInit /\ [][RecurringNext]_rvars
--------------------------------------------------------------------------
\* Types of the templates and of their orders.
RecurringTypeOK ==
  /\ \A id \in DOMAIN rdb.rows : rdb.rows[id] = NoRow \/ rdb.rows[id].next \in 1 .. Before[Len(Months) + 1]
  /\ \A k \in DOMAIN rdb.orders : rdb.orders[k].row \in DOMAIN rdb.rows /\ rdb.orders[k].st \in {"draft", "placed"}

Loaded(id) == {k \in DOMAIN rghost.slots : rghost.slots[k].id = id}
InFlight(id) == \E i \in RReqs : Running(i) /\ rat[i].id = id

(***************************************************************************)
(* RecurringInOrder: runs that do not overlap, and are not cut off, load    *)
(* each slot of a template once and never early, the slots follow one       *)
(* another by the cadence and the next run is the slot after the last       *)
(* loaded one, also when orders were refused; a skip is told for a slot     *)
(* that gave no placed order; and a monthly template moves one month a slot *)
(* from the month of its first run, on a day that is the least of the first *)
(* run's day and the lengths of the months gone through since: it is        *)
(* clamped at the first shorter month and, the next slot being reckoned     *)
(* from the clamped one, does not come back in a longer one.  In every case *)
(* an order is for the template's owner, and one by amount never costs more *)
(* than the amount and leaves less than one unit of it.                     *)
(***************************************************************************)
RecurringInOrder ==
  /\ ~(renv.overlap \/ RMay({"db", "crash"})) =>
       /\ \A j, k \in DOMAIN rghost.slots :
            (rghost.slots[j].id = rghost.slots[k].id /\ j < k) => rghost.slots[j].slot < rghost.slots[k].slot
       /\ \A id \in DOMAIN rdb.rows : (Loaded(id) # {} /\ ~InFlight(id) /\ rdb.rows[id] # NoRow) =>
            rdb.rows[id].next = advanceCadence(rdb.rows[id].cad, rghost.slots[Max(Loaded(id))].slot)
       /\ \A k \in DOMAIN rghost.skips : \A o \in DOMAIN rdb.orders :
            ([id |-> rdb.orders[o].row, slot |-> rdb.orders[o].slot] = rghost.skips[k]) => rdb.orders[o].st = "draft"
       /\ \A k \in DOMAIN rghost.slots : rghost.slots[k].slot <= rghost.slots[k].day
       /\ \A id \in DOMAIN rdb.rows : (rdb.rows[id].cad = "MONTHLY" /\ ~InFlight(id)) =>
            LET row == rdb.rows[id]
                began == MonthOf(row.first)
                month == began + Cardinality(Loaded(id)) IN
            row.next = Date(month, Min({DayOf(row.first)} \cup {Months[m] : m \in began .. month}))
  /\ \A o \in DOMAIN rdb.orders :
       LET row == rdb.rows[rdb.orders[o].row]
           cost == rdb.orders[o].n * Asks[row.listing] IN
       /\ rdb.orders[o].n > 0
       /\ row # NoRow => rdb.orders[o].row \in FindRecurringByUserID(rdb, rdb.orders[o].user)
       /\ row.mode = "BY_AMOUNT" => (cost <= row.value /\ row.value < cost + Asks[row.listing])
==============================================================================
