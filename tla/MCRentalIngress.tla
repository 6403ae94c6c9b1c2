---------------------------- MODULE MCRentalIngress ----------------------------
(* Constants for model checking RentalIngress.                             *)
EXTENDS RentalIngress, TLC

CONSTANTS c1, c2, c3, v1, v2     \* model values

At(d, t) == [day |-> d, time |-> t]

Ask(v, s, e) == [vehicle |-> v, start |-> s, end |-> e]

ThreeClients == {c1, c2, c3}

TwoClients == {c1, c2}

\* The same two days of one vehicle, or a vehicle that does not exist.
RangeOrUnknown == {Ask(v1, At(1, 0), At(2, 0)), Ask(v2, At(1, 0), At(1, 0))}

\* Days 1-2 and days 2-3 of one vehicle: day 2 is wanted under two locks.
CrossingRanges ==
    {Ask(v1, At(1, 0), At(2, 0)), Ask(v1, At(2, 0), At(3, 0))}

Reordering == Permutations(ThreeClients)
=============================================================================
