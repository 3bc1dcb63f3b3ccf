------------------------------ MODULE MCLedger ------------------------------
(* Two files that share a line, all lines of one merchant; a bulk and an   *)
(* individual correction beside the deletion of all data; the bulk one     *)
(* renames the merchant too.                                               *)
EXTENDS Ledger, TLC

CONSTANTS u1, u2, a1, a2, l1, l2, m1, m2, k0, k1, k2, one, all

OverlappingFiles == (u1 :> {l1, l2}) @@ (u2 :> {l2})
OneMerchant == [l \in Lines |-> m1]
OneAccount == <<a1>>
NoHints == [u \in Uploads |-> {}]
Recategorise ==
    [e \in Edits |-> IF e = one THEN [category |-> k1, merchant |-> Nothing]
                              ELSE [category |-> k2, merchant |-> m2]]
=============================================================================
