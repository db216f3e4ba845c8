------------------------------ MODULE Numerals ------------------------------
(***************************************************************************)
(* convert of src/terminal.c: the digits tprintf prints for %d (base 10)   *)
(* and %p (base 16).                                                       *)
(***************************************************************************)
EXTENDS Integers, Sequences

CONSTANT Values     \* of a uint32_t (2^32)

ASSUME ValuesAssumption == Values \in Nat \ {0} /\ Values % 2 = 0

int == -(Values \div 2) .. (Values \div 2) - 1

\* A loop that tests num first.
convert_while(n, b) ==
    LET digits[num \in Nat] ==
            IF num = 0 THEN <<>> ELSE Append(digits[num \div b], num % b)
    IN  digits[n % Values]

\* The argument becomes a uint32_t, and its last digit is written first.
convert(n, b) ==
    LET digits[num \in Nat] ==
            IF num \div b = 0 THEN <<num % b>>
            ELSE Append(digits[num \div b], num % b)
    IN  digits[n % Values]
=============================================================================
