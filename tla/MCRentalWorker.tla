---------------------------- MODULE MCRentalWorker -----------------------------
(* Constants for model checking RentalWorker.                              *)
EXTENDS RentalWorkerLedger, TLC

CONSTANTS w1, w2, v1, v2     \* model values

At(d, t) == [day |-> d, time |-> t]

Ask(v, s, e) == [vehicle |-> v, start |-> s, end |-> e]

Bad == Ask(v2, At(2, 0), At(2, 0))

\* Three bookings of one vehicle, the middle one colliding with both others,
\* and one that the table rejects.
ChainRequests ==
    {Ask(v1, At(1, 0), At(1, 0)), Ask(v1, At(1, 0), At(2, 0)),
     Ask(v1, At(2, 0), At(2, 0)), Bad}

BadRequests == {Bad}

\* Two colliding bookings and one that the table rejects.
PairRequests ==
    {Ask(v1, At(1, 0), At(1, 0)), Ask(v1, At(1, 0), At(2, 0)), Bad}

OneRequest == {Ask(v1, At(1, 0), At(1, 0))}
=============================================================================
