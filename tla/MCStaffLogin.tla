----------------------------- MODULE MCStaffLogin -----------------------------
(* Constants for model checking StaffLogin.                                *)
EXTENDS StaffLogin, TLC

CONSTANTS a1, a2, a3     \* model values
=============================================================================
