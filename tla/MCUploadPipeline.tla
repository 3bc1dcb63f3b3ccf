-------------------------- MODULE MCUploadPipeline --------------------------
(* Two requests for UploadPipeline with the same content, or one request   *)
(* with any of five contents: a file of each kind, and the statement and   *)
(* the image that the worker's own checks refuse.                          *)
EXTENDS UploadPipeline, TLC

CONSTANTS r1, r2, r3, r4, r5, march, april, may, june, july

SameContent == r1 :> march @@ r2 :> march
OneOfEach == r1 :> march @@ r2 :> april @@ r3 :> may @@ r4 :> june @@ r5 :> july

KindOfFile == march :> "image" @@ april :> "image" @@ may :> "statement"
              @@ june :> "statement" @@ july :> "csv"
=============================================================================
