--------------------------- MODULE MCOrderDesk ---------------------------
(* Small instance of OrderDesk: one client, one agent, up to three orders.  *)
EXTENDS OrderDesk, TLC

CONSTANTS c1, a1, o1, o2, o3, h1, h2

T(by, dir, qty) == [by |-> by, dir |-> dir, qty |-> qty, aon |-> FALSE,
                    fund |-> FALSE, bank |-> TRUE]
Book(t1, t2, t3) == (o1 :> t1) @@ (o2 :> t2) @@ (o3 :> t3)
Scenario(book, prices, limits, handlers, may) ==
  [book |-> book, prices |-> prices, limits |-> limits, handlers |-> handlers, may |-> may]

MCShares == (c1 :> 4) @@ (a1 :> 3)
MCOtcHeld == (c1 :> 1) @@ (a1 :> 0)

\* A request for no shares at all, which creation refuses.
Nothing(by) == T(by, "BUY", 0)

Sells == Book(T(c1, "SELL", 2), [T(c1, "SELL", 2) EXCEPT !.aon = TRUE], T(c1, "BUY", 1))
Mixed == Book(T(c1, "BUY", 2), T(a1, "SELL", 2), T(c1, "SELL", 1))
Agents == Book(T(a1, "BUY", 2), T(a1, "BUY", 2), T(a1, "SELL", 1))
AgentSells == Book(T(a1, "SELL", 2), [T(a1, "SELL", 3) EXCEPT !.bank = FALSE], Nothing(a1))
Fund == Book([T(a1, "BUY", 2) EXCEPT !.fund = TRUE], T(a1, "BUY", 1), Nothing(a1))
Single == Book(T(a1, "BUY", 2), Nothing(a1), Nothing(a1))

MCScenarios ==
  { Scenario(b, {2}, {}, {h1}, {"expiry"}) : b \in {Sells, Mixed} }
  \cup { Scenario(b, {2}, {}, {h1}, {"abort"}) : b \in {AgentSells, Fund} }
  \cup { Scenario(b, {1, 2}, {}, {h1}, {"approval"}) : b \in {AgentSells, Fund} }
  \cup { Scenario(Sells, {2}, {}, {h1}, {"abort"}),
         Scenario(Agents, {2}, {}, {h1}, {"expiry"}),
         Scenario(Agents, {3}, {4}, {h1}, {"restart"}),
         Scenario(Agents, {2}, {}, {h1}, {"reset"}),
         Scenario(Fund, {2}, {}, {h1}, {"callback"}),
         Scenario(AgentSells, {2}, {}, {h1}, {"draft"}),
         Scenario(Single, {2}, {}, {h1, h2}, {"race"}) }

DraftCancel == { Scenario(Sells, {2}, {}, {h1}, {"draft"}) }
==========================================================================
