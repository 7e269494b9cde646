------------------------------ MODULE MCSafeMode ------------------------------
(* A small instance of SafeMode for TLC: two events of one fingerprint     *)
(* that qualify, and one of the same fingerprint that does not.            *)
EXTENDS SafeMode, TLC

CONSTANTS a, b, c, p

MCPrintOf == a :> p @@ b :> p @@ c :> p
MCSymmetry == Permutations({a, b})
=============================================================================
