------------------------------ MODULE MCQuota ------------------------------
(* Small budgets for Quota: three requests of unequal size, two of them    *)
(* statements.                                                             *)
EXTENDS Quota, TLC

CONSTANTS q1, q2, q3

MCSizes == q1 :> 2 @@ q2 :> 1 @@ q3 :> 2
MCPages == q1 :> 1 @@ q2 :> 2 @@ q3 :> 0
MCRows == q1 :> 0 @@ q2 :> 0 @@ q3 :> 2
=============================================================================
