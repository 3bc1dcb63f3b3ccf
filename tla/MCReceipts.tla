----------------------------- MODULE MCReceipts -----------------------------
(* Two receipts, one of them not read completely, one transaction from     *)
(* elsewhere, and three requests at a time.                                *)
EXTENDS Receipts, TLC

CONSTANTS r1, r2, t1, e1, e2, k1, k2, p1, x1

Everyone == {{e1, e2, k1}, {e1, k1, k2}, {e1, p1, x1}}
=============================================================================
