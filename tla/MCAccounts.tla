----------------------------- MODULE MCAccounts -----------------------------
(***************************************************************************)
(* Two visitors who may hold the same key: the first links it, the second  *)
(* is signed in by it.  The program of a visitor without a key is the one  *)
(* people run on a computer of their own.                                  *)
(***************************************************************************)
EXTENDS Accounts

\* Every call but those of a sign-out.
MCFailingCalls == {"create", "verify", "start", "link", "look up"}
=============================================================================
