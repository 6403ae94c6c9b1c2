----------------------------- MODULE BookingLedger -----------------------------
(***************************************************************************)
(* What the consumer of rental-batch-queue promises: bookings are decided  *)
(* in the order of the log, some of them at once, and each is granted      *)
(* unless it cannot be or clashes with one granted before.                 *)
(***************************************************************************)
EXTENDS Integers, Sequences

CONSTANTS
    Entries,         \* what may be in the log
    Void,            \* an entry that is no booking
    Grantable(_),    \* whether a booking can be granted at all
    Clash(_, _)      \* whether two bookings exclude each other

VARIABLES
    log,        \* the entries, in the order of their arrival
    granted,    \* the positions of the granted bookings
    refused     \* the positions of the refused ones

ledger == <<log, granted, refused>>

Pending == {o \in DOMAIN log : log[o] # Void} \ (granted \cup refused)

Init ==
    /\ log = <<>>
    /\ granted = {}
    /\ refused = {}

Submit(m) ==
    /\ log' = Append(log, m)
    /\ UNCHANGED <<granted, refused>>

ClashesWithGranted(o) == \E g \in granted : Clash(log[g], log[o])

\* The pending bookings up to position n are granted together.
Grant(n) ==
    LET batch == {o \in Pending : o <= n}
    IN  /\ batch # {}
        /\ \A o \in batch : Grantable(log[o]) /\ ~ClashesWithGranted(o)
        /\ \A o, p \in batch : o < p => ~Clash(log[o], log[p])
        /\ granted' = granted \cup batch
        /\ UNCHANGED <<log, refused>>

\* The booking whose turn it is is refused.
Refuse(o) ==
    /\ o \in Pending
    /\ \A p \in Pending : o <= p
    /\ ~Grantable(log[o]) \/ ClashesWithGranted(o)
    /\ refused' = refused \cup {o}
    /\ UNCHANGED <<log, granted>>

Decide == \E o \in DOMAIN log : Grant(o) \/ Refuse(o)

Next == Decide \/ \E m \in Entries : Submit(m)

Spec == Init /\ [][Next]_ledger /\ WF_ledger(Decide)
=============================================================================
