-------------------------------- MODULE Book --------------------------------
(***************************************************************************)
(* What the ledger promises to its owner, without requests or locks: an    *)
(* import only adds entries and alerts, what is in the book is changed by  *)
(* its owner alone, and once the data was deleted nothing is added.  A     *)
(* step is an import's when it takes an import further: neither the owner  *)
(* nor the deletion does that and touches the book in one step.            *)
(***************************************************************************)
CONSTANTS
    Keys,       \* what an entry is known by
    Nothing     \* no entry, no alert

VARIABLES
    entry,      \* the entries of the book
    alert,      \* the alert raised about each
    imports,    \* how far each import has come
    erased      \* the owner deleted the data

book == <<entry, alert, imports, erased>>

(* f changes g only where g holds nothing.                                 *)
Adds(f, g) == \A k \in Keys : f[k] # Nothing => g[k] = f[k]
(* f and g hold something in the same places.                              *)
Rewrites(f, g) == \A k \in Keys : (f[k] = Nothing) = (g[k] = Nothing)
(* g is what is left of f.                                                 *)
Keeps(f, g) == \A k \in Keys : g[k] # Nothing => f[k] # Nothing

Init ==
    /\ entry = [k \in Keys |-> Nothing]
    /\ alert = [k \in Keys |-> Nothing]
    /\ erased = FALSE

(* Rows are imported and alerts raised.                                    *)
Import ==
    /\ ~erased
    /\ imports' # imports
    /\ Adds(entry, entry')
    /\ Adds(alert, alert')
    /\ UNCHANGED erased

(* An import comes further, fails or is called off, the book as it was.    *)
Proceed ==
    /\ imports' # imports
    /\ UNCHANGED <<entry, alert, erased>>

(* The owner corrects entries and rules on alerts.                         *)
Decide ==
    /\ Rewrites(entry, entry')
    /\ Rewrites(alert, alert')
    /\ UNCHANGED <<imports, erased>>

(* The owner deletes the data.                                             *)
Erase ==
    /\ ~erased
    /\ Keeps(entry, entry')
    /\ Keeps(alert, alert')
    /\ erased' = TRUE
    /\ UNCHANGED imports

Next == Import \/ Proceed \/ Decide \/ Erase

Spec == Init /\ [][Next]_book
=============================================================================
