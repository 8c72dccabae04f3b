------------------------------ MODULE Rounding ------------------------------
(* What Python's round, floor and ceil make of a quotient a / b, b > 0. *)
EXTENDS Integers

\* round(): to the nearest integer, a tie to the even one
HalfEven(a, b) ==
    LET twice == 2 * (a % b) IN
    IF twice > b \/ (twice = b /\ (a \div b) % 2 = 1) THEN (a \div b) + 1 ELSE a \div b
Ceiling(a, b) == -((-a) \div b)
=============================================================================
