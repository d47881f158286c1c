------------------------------- MODULE Tickets -------------------------------
(***************************************************************************)
(* Tickets that wrap.  The code has 32-bit words and compares two tickets  *)
(* by the sign of their difference; Half stands for 2^31.                  *)
(***************************************************************************)
EXTENDS Integers

CONSTANTS
    Half,     \* half the number of tickets
    Start     \* how many tickets were given out before

ASSUME TicketsAssumption == Half \in Nat \ {0} /\ Start \in Nat

Modulus == 2 * Half
Wrap(n) == n % Modulus

\* int32(a - b) < 0
Before(a, b) == (a - b) % Modulus >= Half
=============================================================================
