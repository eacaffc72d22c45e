------------------------- MODULE MCIdempotencyKey ---------------------------
(* Two handlers of one body and one of another, for the model checker.     *)
EXTENDS IdempotencyKey, TLC

CONSTANTS h1, h2, h3, b1, b2

MCBody == h1 :> b1 @@ h2 :> b1 @@ h3 :> b2
=============================================================================
