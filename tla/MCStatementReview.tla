------------------------- MODULE MCStatementReview -------------------------
(* A statement of one line, the first of its page. *)
EXTENDS StatementReview, TLC

CONSTANTS l1, coffee, c1, c2, p1, p2, d1

FirstLine == l1 :> 0
OneCharge == l1 :> coffee

Gatherings == {{c1, c2, p1}, {p1, p2}, {c1, d1}}
=============================================================================
