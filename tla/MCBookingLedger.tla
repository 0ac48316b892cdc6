-------------------------- MODULE MCBookingLedger --------------------------
(* The instances of MCBooking for the refinement.                          *)
EXTENDS BookingLedger, MCBooking
=============================================================================
