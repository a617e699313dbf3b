------------------------------ MODULE MCServer ------------------------------
(* Servers restarted on one socket path, closed by a caller and by the      *)
(* cancellation of their context.                                           *)
EXTENDS Server
=============================================================================
