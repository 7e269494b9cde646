----------------------------- MODULE MCShadowWrite -----------------------------
(* Small instances of ShadowWrite for TLC.                                 *)
EXTENDS ShadowWrite, Naturals, TLC

CONSTANTS MaxEvidence, MaxUses, MaxResults

MCSymmetry ==
    Permutations(Sessions) \cup Permutations(Fingerprints) \cup Permutations(Symbols)

(* How many pieces of evidence, uses of them (any of them for any symbol)  *)
(* and qualification results are on record.                                *)
MCFewRecords ==
    /\ Cardinality(receipts \cap Evidence) <= MaxEvidence
    /\ Cardinality(receipts \ Evidence) <= MaxUses
    /\ Cardinality(qualified) <= MaxResults
=============================================================================
