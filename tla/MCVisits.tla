------------------------------ MODULE MCVisits ------------------------------
(* A demo key that is sent twice beside another one; a GitHub identity that*)
(* calls back twice beside another one with its address; one whose address *)
(* the owner of a password account has, beside a demo.                     *)
EXTENDS Visits, TLC

CONSTANTS r1, r2, r3, k1, k2, e1, e2

ADemo(k) == [kind |-> "demo", key |-> k, email |-> Absent]
GitHub(k, e) == [kind |-> "github", key |-> k, email |-> e]
TheScripts ==
    { (r1 :> ADemo(k1)) @@ (r2 :> ADemo(k1)) @@ (r3 :> ADemo(k2)),
      (r1 :> GitHub(k1, e2)) @@ (r2 :> GitHub(k1, e2)) @@ (r3 :> GitHub(k2, e2)),
      (r1 :> GitHub(k1, e1)) @@ (r2 :> GitHub(k2, Absent)) @@ (r3 :> ADemo(k1)) }
=============================================================================
