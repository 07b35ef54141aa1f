------------------------------ MODULE MCServices ------------------------------
(* Two requests to the dashboard at a time.                                     *)
EXTENDS Services
===============================================================================
