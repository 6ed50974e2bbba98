------------------------- MODULE MCCheckoutProcess --------------------------
(***************************************************************************)
(* CheckoutProcess for TLC.                                                *)
(***************************************************************************)
EXTENDS CheckoutProcess

=============================================================================
