------------------------- MODULE MCOtcExerciseSaga -------------------------
(* Instances of the exercise saga for TLC. *)
EXTENDS OtcExerciseSaga

Env(f, n, r, o) == [faults |-> f, maxFaults |-> n, requests |-> r, operator |-> o]

\* What the comments of the endpoints recommend each of them for.
Recommended == {<<"resume", "IN_PROGRESS">>, <<"retry", "FAILED">>, <<"restart", "FAILED">>}

Ordinary == {
    Env({"refuse"}, 4, 1, {}),
    Env({"refuse", "pub"}, 4, 2, {}),
    Env({"refuse", "pub"}, 4, 1, {<<"retry", "COMPENSATED">>}),
    Env(FaultClass, 2, 1, Recommended)}

OneCrash == {Env({"crash"}, 1, 1, {})}
=============================================================================
