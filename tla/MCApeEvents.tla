---------------------------- MODULE MCApeEvents ----------------------------
(* Model-checking instance of ApeEvents. *)
EXTENDS ApeEvents

AllHandlers == {"epoll", "kqueue", "select"}

=============================================================================
