---------------------------- MODULE MCRentalSystem -----------------------------
(* Constants for model checking RentalSystem.                              *)
EXTENDS RentalSystem

CONSTANTS c1, c2, v1, w1     \* model values

At(d, t) == [day |-> d, time |-> t]

Ask(v, s, e) == [vehicle |-> v, start |-> s, end |-> e]

\* One vehicle from the afternoon of day 1 to the morning of day 3.
OddRange == {Ask(v1, At(1, 1), At(3, 0))}
=============================================================================
