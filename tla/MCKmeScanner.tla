---------------------------- MODULE MCKmeScanner -----------------------------
(* The lab: kme-a and kme-b name each other.                               *)
EXTENDS KmeScanner, TLC

CONSTANTS a, b

Mutual == (a :> <<b>>) @@ (b :> <<a>>)
==============================================================================
