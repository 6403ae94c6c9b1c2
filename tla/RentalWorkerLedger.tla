-------------------------- MODULE RentalWorkerLedger ---------------------------
(***************************************************************************)
(* The worker keeps the promise of BookingLedger: its batches, in-memory   *)
(* checks, transactions and binary splits are steps of an orderly ledger   *)
(* of grants and refusals, or no visible step at all.                      *)
(***************************************************************************)
EXTENDS RentalWorker

InTable == {row.src : row \in rentals}

CanBeStored(r) == r \notin Unstorable

Ledger == INSTANCE BookingLedger
            WITH Entries <- Messages, Void <- Junk, Grantable <- CanBeStored,
                 Clash <- DaysOverlap,
                 log <- queue, granted <- InTable, refused <- dlq \cup dropped

\* As long as nothing fails, the worker implements the ledger: no split, no
\* batch boundary and no check on half of the data lets a booking overtake an
\* earlier one or get lost, and every booking is decided in the end.
ImplementsLedger == Ledger!Spec
=============================================================================
