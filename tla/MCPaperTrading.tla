---------------------------- MODULE MCPaperTrading ----------------------------
(* Small instances of PaperTrading for TLC.                                *)
EXTENDS PaperTrading, TLC

(* Through the stop, held unless the signal reverses, at the target.       *)
MCMoves == {-600, 100, 400}
MCSymmetry == Permutations(Workers) \cup Permutations(Signals)

(* The BTC lane never exits, so its session needs fewer bars than SOL's.   *)
MCHorizon == lane = "btc" => clock <= FirstBar + 3
=============================================================================
