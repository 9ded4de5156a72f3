----------------------------- MODULE MCMessages -----------------------------
(***************************************************************************)
(* Instances of the messages small enough for TLC.                         *)
(***************************************************************************)
EXTENDS MessagesProps

CONSTANTS s, t, r

\* s sends a message and resends it; t sends another one.
Resent == <<[by |-> s, key |-> "k"], [by |-> s, key |-> "k"], [by |-> t, key |-> "k"]>>

\* s and t send two messages.
Apart == <<[by |-> s, key |-> "k"], [by |-> t, key |-> "k"]>>
=============================================================================
