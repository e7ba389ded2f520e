---------------------------- MODULE MCReadModels ----------------------------
(***************************************************************************)
(* Two callers over two locked views and one that is updated               *)
(* optimistically.                                                         *)
(***************************************************************************)
EXTENDS ReadModels, TLC

CONSTANTS w1, w2

MCMaxVersion == <<1, 2, 2>>
Symmetry == Permutations(Callers)
=============================================================================
