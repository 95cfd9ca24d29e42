----------------------------- MODULE MCSession ------------------------------
(* The session of three parties for TLC; all constants are numbers.        *)
EXTENDS Session
=============================================================================
