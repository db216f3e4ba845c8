---------------------------- MODULE MCListKernel ----------------------------
(* ListKernel for TLC.  The semaphores are interchangeable.                *)
EXTENDS ListKernel

CONSTANTS s, t   \* model values, the semaphores

Symmetry == Permutations(Sem)
=============================================================================
