----------------------------- MODULE MCUsers -----------------------------
(* Three employees and a client; which requests run, and whether they overlap. *)
EXTENDS Users

R(row, role, pw) ==
  [row |-> row, active |-> row = "live", role |-> role, pw |-> pw, fails |-> 0, locked |-> FALSE,
   perms |-> IF row = "live" THEN (IF role = "CLIENT_BASIC" THEN clientPermissions(role) ELSE employeePermissions(role)) ELSE {}]
Employees3 == <<"e1", "e2", "e3">>
Names4 == [e1 |-> 1, e2 |-> 2, e3 |-> 2, c1 |-> 1]
St(r3, rc) == [e1 |-> R("live", "ADMIN", 1), e2 |-> R("live", "SUPERVISOR", 1),
               e3 |-> R(r3, "SUPERVISOR", 0), c1 |-> R(rc, "CLIENT_BASIC", 0)]
Ch(a, r, m) == [active |-> a, role |-> r, margin |-> m]
Off == {Ch("no", "keep", "keep")}
Edits == Off \cup {Ch("yes", "keep", "yes"), Ch("keep", "AGENT", "keep"), Ch("keep", "SUPERVISOR", "yes"),
                  Ch("keep", "keep", "no")}
U(ops, who, chs, n, ov, may, b, st) ==
  [ops |-> ops, who |-> who, changes |-> chs, tokens |-> n, overlap |-> ov, may |-> may, budget |-> b, start |-> st]
UserCases == {U({"login", "refresh"}, {"e1"}, {}, 3, FALSE, {}, 0, St("none","none")),
  U({"login", "refresh"}, {"e1"}, {}, 2, TRUE, {}, 0, St("none","none")),
  U({"login", "refresh"}, {"e1"}, {}, 1, TRUE, {"db"}, 1, St("none","none")),
  U({"login", "refresh"}, {"e1"}, {}, 2, FALSE, {"db"}, 1, St("none","none")),
  U({"reset"}, {"e1","c1"}, {}, 3, FALSE, {"mail"}, 1, St("live","live")),
  U({"reset"}, {"e1"}, {}, 2, TRUE, {"db"}, 1, St("live","live")),
  U({"staff"}, {"e2","e3"}, Edits, 1, FALSE, {"mail"}, 1, St("live","none")),
  U({"staff"}, {"e2"}, Off, 0, TRUE, {"trading","db"}, 1, St("live","none")),
  U({"staff","reset"}, {"e3"}, Edits, 2, FALSE, {"mail"}, 1, St("none","none")),
  U({"client"}, {"c1"}, {}, 1, TRUE, {"mail"}, 1, St("none","none")),
  U({"client","reset"}, {"c1"}, {}, 2, FALSE, {"mail"}, 1, St("none","none"))}
============================================================================
