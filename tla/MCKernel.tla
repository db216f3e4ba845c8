------------------------------ MODULE MCKernel ------------------------------
(* Values for the constants of Kernel that a cfg cannot write.             *)
EXTENDS Kernel

CONSTANTS a, b, c   \* model values, the PCBs

Disk == <<IL_DISK, 0, 0>>
Tape == <<IL_TAPE, 1, 0>>
Printer == <<IL_PRINTER, 0, 0>>
TermTx == <<IL_TERMINAL, 0, 0>>
TermRx == <<IL_TERMINAL, 0, 1>>

NoUnit == {}
OneDisk == {Disk}
OnePrinter == {Printer}
OneTape == {Tape}
TapeAndTerminal == {Tape, TermTx, TermRx}

Symmetry == Permutations(Proc)
=============================================================================
