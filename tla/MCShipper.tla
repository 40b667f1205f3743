------------------------------ MODULE MCShipper ------------------------------
(***************************************************************************)
(* TLC instances of Shipper.                                               *)
(***************************************************************************)
EXTENDS Shipper, TLC

=============================================================================
