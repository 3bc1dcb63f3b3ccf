----------------------------- MODULE MCAnswers ------------------------------
(* Two requests: the same question twice, under two corrections of one row,*)
(* or a correction and an import, or a correction and the deletion of all  *)
(* data; a question and its refinement, or a request for advice and a      *)
(* refinement of that.                                                     *)
EXTENDS Answers, TLC

CONSTANTS a1, a2, q1, q2, r1, r2, w1, w2, w3

Plain(q) == [text |-> q, refines |-> Nothing, advice |-> FALSE, cached |-> TRUE]
Twice == (a1 :> Plain(q1)) @@ (a2 :> Plain(q1))
Refining == (a1 :> [Plain(q1) EXCEPT !.cached = FALSE]) @@ (a2 :> [Plain(q2) EXCEPT !.refines = a1])
RefiningAdvice ==
    (a1 :> [Plain(q1) EXCEPT !.advice = TRUE]) @@ (a2 :> [Plain(q2) EXCEPT !.refines = a1])
Script(requests, writes, erases) == [asks |-> requests, writes |-> writes, erases |-> erases]
TheScripts ==
    { Script(Twice, {w1, w2}, FALSE), Script(Twice, {w1, w3}, FALSE), Script(Twice, {w3}, TRUE),
      Script(Refining, {}, TRUE), Script(RefiningAdvice, {}, FALSE) }
Targets == (w1 :> r1) @@ (w2 :> r1) @@ (w3 :> r2)
=============================================================================
