----------------------------- MODULE MCCpuTime -----------------------------
(* CpuTime for TLC.  The processes are interchangeable.                    *)
EXTENDS CpuTime, TLC

CONSTANTS p, q   \* model values, the processes

Symmetry == Permutations(Proc)
=============================================================================
