----------------------------- MODULE MCEventBus -----------------------------
(***************************************************************************)
(* Instances of EventBus for TLC: two workers with two and one connections *)
(* of the chat, the one alone with the id() of one of the others.          *)
(***************************************************************************)
EXTENDS EventBus, TLC

CONSTANTS w1, w2, c1, c2, c3

TwoWorkers == [c \in Conns |-> IF c = c3 THEN w2 ELSE w1]
SameAddress == [c \in Conns |-> IF c = c2 THEN 2 ELSE 1]
=============================================================================
