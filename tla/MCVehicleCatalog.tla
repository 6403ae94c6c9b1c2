--------------------------- MODULE MCVehicleCatalog ----------------------------
(* Constants for model checking VehicleCatalog.                            *)
EXTENDS VehicleCatalog, TLC

CONSTANTS h1, h2, p1, p2, suv, van     \* model values

\* Each category is written in one way only.
OneSpelling == [c \in Categories |-> <<c>>]

Reordering ==
    Permutations(Handlers) \cup Permutations(Plates) \cup Permutations(Categories)
=============================================================================
