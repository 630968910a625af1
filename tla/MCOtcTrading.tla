---------------------------- MODULE MCOtcTrading ----------------------------
(* Instances of the OTC desk for TLC. *)
EXTENDS OtcTrading

CONSTANTS o1, o2, w1, w2

TwoOffers == {o1, o2}
TwoWorkers == {w1, w2}

Desk(n, a, w, m) == [shares |-> n, amounts |-> a, workers |-> w, may |-> m]

Ordinary == {
    Desk(3, {1, 2}, {w1}, {}),
    Desk(3, {1, 2}, {w1}, {"compensate", "overlap"}),
    Desk(2, {1}, {w1, w2}, EnvClass),
    Desk(2, {1}, {w1, w2}, {})}

Overlapping == {Desk(3, {1, 2}, {w1}, {"overlap"})}
=============================================================================
