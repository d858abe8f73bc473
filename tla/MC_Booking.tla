---------------------------- MODULE MC_Booking ----------------------------
(* Two copies of one booking and a second booking, two trip rows to put    *)
(* them in, two handlers, and one fault.                                   *)
EXTENDS Booking
=============================================================================
