------------------------- MODULE MCAccountDeletion -------------------------
(* Three requests of a subject with a profile, two of a subject without;   *)
(* a client that may delete or only preview does one of the two.           *)
EXTENDS AccountDeletion, TLC

CONSTANTS a, b, c

Everything == a :> {"delete", "preview"} @@ b :> {"upload"} @@ c :> {"visit"}
PreviewOnly == a :> {"preview"}

Comings ==
    {[asking |-> {a, b, c}, known |-> TRUE],
     [asking |-> {a, b}, known |-> FALSE], [asking |-> {a, c}, known |-> FALSE]}
OneComing == {[asking |-> {a}, known |-> TRUE]}
=============================================================================
