----------------------------- MODULE MCAppCalls -----------------------------
(***************************************************************************)
(* Two apps for checking AppCalls with TLC: own binds the port its main.py *)
(* asks for, given the port of its callback URL.                           *)
(***************************************************************************)
EXTENDS AppCalls

CONSTANTS own, given

Ports == [a \in App |-> IF a = own THEN 2 ELSE 0]
=============================================================================
