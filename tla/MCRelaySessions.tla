--------------------------- MODULE MCRelaySessions ---------------------------
(***************************************************************************)
(* Instances of RelaySessions for TLC: a limited and an unlimited code.    *)
(***************************************************************************)
EXTENDS RelaySessions, TLC

CONSTANTS a1, a2, b1, b2, limited, unlimited

MCMaxUses == [c \in Code |-> IF c = limited THEN 2 ELSE 1]

\* The ids of a pool are interchangeable; the codes are not.
Symmetry == Permutations(Agent) \cup Permutations(Browser)
=============================================================================
