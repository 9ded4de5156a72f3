----------------------------- MODULE MessageLog -----------------------------
(***************************************************************************)
(* What a conversation is for its members: a log in which a client message *)
(* id of a sender occurs once, from which nothing is ever taken, and pages *)
(* that show parts of it.                                                  *)
(***************************************************************************)
EXTENDS Naturals

CONSTANTS Keys, Readers

VARIABLES
  kept,   \* how often a message is in the log
  shown   \* the messages on the pages

Init == kept = [k \in Keys |-> 0] /\ shown = [r \in Readers |-> {}]

Keep(k) == kept[k] = 0 /\ kept' = [kept EXCEPT ![k] = 1] /\ UNCHANGED shown

\* A page adds messages of the log, or starts again from some of them.
Show(r) ==
  /\ \E S \in SUBSET {k \in Keys : kept[k] = 1} : shown' = [shown EXCEPT ![r] = S]
  /\ UNCHANGED kept

Next == (\E k \in Keys : Keep(k)) \/ (\E r \in Readers : Show(r))

Spec == Init /\ [][Next]_<<kept, shown>>
=============================================================================
