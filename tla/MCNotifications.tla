------------------------- MODULE MCNotifications -------------------------
(* Messages of every kind, two workers and the poller of due retries. *)
EXTENDS Notifications

Sh(k, t, e, c, tp) == [key |-> k, type |-> t, email |-> e, client |-> c, template |-> tp]
MessageShape ==
  [m1 |-> Sh("known", "VERIFICATION_OTP", TRUE, TRUE, TRUE), m2 |-> Sh("known", "ORDER", FALSE, TRUE, TRUE),
   m3 |-> Sh("known", "ORDER", TRUE, TRUE, TRUE), m4 |-> Sh("unknown", "none", TRUE, FALSE, TRUE),
   m5 |-> Sh("known", "LOAN", FALSE, FALSE, TRUE), m6 |-> Sh("ignored", "none", FALSE, FALSE, TRUE)]
S(ms, may, b) == [msgs |-> ms, may |-> may, budget |-> b]
NotifyCases == {S({"m1", "m3"}, {"temp", "perm"}, 1), S({"m1"}, {"temp", "ghost", "ack"}, 2),
                S({"m1"}, {"db", "crash", "temp"}, 2), S({"m2", "m4", "m5", "m6"}, {"ack"}, 1)}
============================================================================
