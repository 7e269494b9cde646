------------------------------ MODULE MCSealChain ------------------------------
(* A small instance of SealChain for TLC: a fingerprint that can order and *)
(* one on an exchange outside the allow-list.                              *)
EXTENDS SealChain, TLC

CONSTANTS good, foreign

MCKeys == {good, foreign}
MCUnsupported == {foreign}
=============================================================================
