----------------------------- MODULE Friendship -----------------------------
(***************************************************************************)
(* What friendship is for the users: two of them become friends after one  *)
(* has agreed, or was assigned to the other, and may part at any time.     *)
(***************************************************************************)
CONSTANTS Pairs

VARIABLES agreed, friends

Init == agreed = {} /\ friends = {}

Agree == agreed \subseteq agreed' /\ agreed' \subseteq Pairs /\ UNCHANGED friends
Befriend(p) == p \in agreed /\ friends' = friends \cup {p} /\ UNCHANGED agreed
Part(p) == friends' = friends \ {p} /\ UNCHANGED agreed

Next == Agree \/ \E p \in Pairs : Befriend(p) \/ Part(p)

Spec == Init /\ [][Next]_<<agreed, friends>>
=============================================================================
