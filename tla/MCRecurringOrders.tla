------------------------ MODULE MCRecurringOrders ------------------------
(* Templates of every cadence, over months of three and four days. *)
EXTENDS RecurringOrders

RecurringMonths == <<4, 3, 4, 4, 3, 4, 4>>
RecurringAsks == [A |-> 3, B |-> 0]
New(u, l, m, v, c, n, d) == [op |-> "create", user |-> u, listing |-> l, mode |-> m, value |-> v, cad |-> c, next |-> n, day |-> d]
Ch(o, u, id) == [op |-> o, user |-> u, id |-> id]
Run == [op |-> "run"]
Sc(r, n, l, may, b, o) == [reqs |-> r, now |-> n, last |-> l, may |-> may, budget |-> b, overlap |-> o]
RecurringCases == { Sc(<<New(1, "A", "BY_AMOUNT", 7, "DAILY", 0, 0), Run, Run, Ch("pause", 1, 1), Ch("resume", 1, 1)>>, 1, 4, {"conflict", "fail"}, 2, FALSE),
          Sc(<<New(1, "A", "BY_QUANTITY", 2, "MONTHLY", 0, 4), Run, Run, Run>>, 1, 12, {}, 0, FALSE),
          Sc(<<New(1, "B", "BY_AMOUNT", 7, "MONTHLY", 0, 0), New(2, "A", "BY_AMOUNT", 2, "WEEKLY", 0, 0), Run, Run>>, 4, 12, {}, 0, FALSE),
          Sc(<<New(1, "A", "BY_AMOUNT", 7, "DAILY", 3, 0), New(1, "A", "BY_AMOUNT", 0, "DAILY", 3, 0), New(1, "A", "BY_AMOUNT", 3, "DAILY", 1, 32), Ch("cancel", 2, 1), Ch("cancel", 1, 1), Ch("pause", 1, 1), Run>>, 2, 4, {}, 0, FALSE),
          Sc(<<New(1, "A", "BY_QUANTITY", 1, "DAILY", 0, 0), Run, Run, Ch("pause", 1, 1)>>, 1, 3, {"db", "crash"}, 2, TRUE) }
============================================================================
