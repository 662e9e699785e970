--------------------------- MODULE MC_LibcCalls ---------------------------
(***************************************************************************)
(* Every function of the tables, with every state of its arguments.        *)
(***************************************************************************)
EXTENDS LibcCalls

Functions == DOMAIN Contracts
=============================================================================
