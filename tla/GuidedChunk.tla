----------------------------- MODULE GuidedChunk -----------------------------
(***************************************************************************)
(* The arithmetic the guided self-scheduling generators share: unsigned    *)
(* integers that wrap around (uint64_t in the code), and the length of the *)
(* next chunk.                                                             *)
(***************************************************************************)
EXTENDS Integers

CONSTANT Modulus   \* 2^64 in the code

ASSUME ModulusAssumption == Modulus \in Nat \ {0, 1}

UInt == 0..(Modulus - 1)

Plus(a, b)  == (a + b) % Modulus
Minus(a, b) == (a - b) % Modulus

AtLeast(a, b) == IF a < b THEN b ELSE a
AtMost(a, b)  == IF b < a THEN b ELSE a

\* Slip: the quotient is rounded down, not up.
ShareRoundedDown(remaining, processes) == remaining \div processes

\* An equal share of what remains, rounded up without computing a sum that
\* could wrap around.
Share(remaining, processes) == Plus(Minus(remaining, 1) \div processes, 1)

\* Slip: the grain size is ignored.
NextCountNoGrain(remaining, grain, processes) ==
    AtMost(Share(remaining, processes), remaining)

\* The length of the next chunk.
NextCount(remaining, grain, processes) ==
    AtMost(AtLeast(Share(remaining, processes), grain), remaining)

=============================================================================
