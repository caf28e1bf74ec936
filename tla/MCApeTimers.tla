---------------------------- MODULE MCApeTimers ----------------------------
(* Model-checking instance of ApeTimers. *)
EXTENDS ApeTimers

\* A callback that runs again, one that is done and one that changes its pace
CallbackReturns == {-1, 0, 1}

=============================================================================
