-------------------------- MODULE MC_TripPayment --------------------------
(* Two requests at once, two rows, one gateway order, one fault: enough for *)
(* a capture to meet a switch of method, and for its webhook to be lost.    *)
(* ChargedTwice: one request and two orders, so that checkout is opened     *)
(* twice and a retry replaces the order a row names.                        *)
EXTENDS TripPayment
=============================================================================
