------------------------- MODULE MCStoreAndForward -------------------------
(* Instances of StoreAndForward for TLC. *)
EXTENDS StoreAndForward

AnyOutcome == {"accepted", "refused", "unanswered", "unavailable"}
=============================================================================
