----------------------------- MODULE MCRentalStaff -----------------------------
(* Constants for model checking RentalStaff and RentalReport.              *)
EXTENDS RentalReport

CONSTANT h1     \* model value

v1 == 1

Day(d) == [day |-> d, time |-> 0]

\* Single days and a range of two of one vehicle.
Wishes ==
    {[vehicle |-> v1, start |-> Day(1), end |-> Day(1)],
     [vehicle |-> v1, start |-> Day(1), end |-> Day(2)],
     [vehicle |-> v1, start |-> Day(2), end |-> Day(2)]}

\* Each of the two days is a month.
OneDayMonths == {[first |-> d, last |-> d] : d \in Days}

OneRate == [v \in Vehicles |-> 3]
=============================================================================
