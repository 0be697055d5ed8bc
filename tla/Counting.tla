------------------------------ MODULE Counting ------------------------------
(***************************************************************************)
(* How many times an element is in a FIFO and in a bag.  (Copies is the    *)
(* CopiesIn of Bags, which the library of the prover does not have.)       *)
(***************************************************************************)
EXTENDS Naturals, FiniteSets, SequencesExt

Times(e, s) == Cardinality({i \in DOMAIN s : s[i] = e})

Copies(e, B) == IF BagIn(e, B) THEN B[e] ELSE 0
=============================================================================
