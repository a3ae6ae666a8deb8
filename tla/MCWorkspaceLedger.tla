------------------------- MODULE MCWorkspaceLedger -------------------------
(* Instances of WorkspaceLedger for TLC.                                   *)
EXTENDS WorkspaceLedger, TLC

CONSTANTS c1, c2, u1, u2

\* contents are interchangeable, and so are uploaders
LedgerSymmetry == Permutations(Contents) \cup Permutations(Uploaders)
=============================================================================
