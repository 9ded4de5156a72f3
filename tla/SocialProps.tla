---------------------------- MODULE SocialProps ----------------------------
(***************************************************************************)
(* What friends, direct conversations and moments promise.                 *)
(***************************************************************************)
EXTENDS Social

Row == [from : Users, to : Users, status : {"pending", "agreed", "rejected"}]

\* Every variable has its type; nobody is twice in a list of likes.
TypeOK ==
  /\ new \subseteq Users /\ index \in Nat
  /\ friend \subseteq Users \X Users /\ black \subseteq Users \X Users
  /\ ToSet(filed) \subseteq Row
  /\ \A c \in DOMAIN convs : convs[c] \subseteq Everyone
  /\ \A m \in DOMAIN said : said[m].conv \in DOMAIN convs
  /\ \A c \in Codes : codes[c].enabled => codes[c].there
  /\ \A p \in DOMAIN posts : /\ ToSet(posts[p].likes) \subseteq Everyone
                             /\ IsInjective(posts[p].likes)
  /\ \A c \in DOMAIN comments : comments[c].post \in DOMAIN posts
  /\ agreed \subseteq Pairs /\ invited \subseteq Nat

\* A message that the server sends for one user to another - a greeting, an
\* answer to a friend request, a notice - is read by these two only, however
\* many requests look for, and open, their direct conversation at once, as long
\* as nobody was invited into the conversation.  GroupInvite lets everybody
\* invite anybody into it; the third one reads what was said before, and
\* CreateDirect takes it for the conversation of each two of the three.
Private == \A m \in DOMAIN said :
  said[m].conv \in invited \/ convs[said[m].conv] \subseteq {said[m].by, said[m].to}

\* The rows are of their types, and messages stay between two unless somebody
\* was invited to them.
SocialInv == TypeOK /\ Private

\* A request gets past a check only if that was not wrong at every moment
\* since the request arrived.  So two friends, a pending request, a direct
\* conversation, a greeting of the assistant or of customer service is not
\* made twice except by requests that overlap; a dropped post gets no like or
\* comment; and a moment that is shown was there and not hidden, or the
\* viewer's own, at some moment while it was asked for, and no stranger's at
\* some moment, which may be another one.
NeverWhollyBarred ==
  \A h \in Handlers : hand[h] # Idle =>
    /\ \A s \in barred[h] : \/ s.do \in {"show", "near"} \/ At(h, "find")
                            \/ s \in ToSet(hand[h].todo)
    /\ At(h, "answer") =>
         \A s \in barred[h] : s.do \in {"show", "near"} => s.b \notin hand[h].mem

\* Nobody is another's friend, not even in one direction and not even after
\* a crash between the two rows, unless he was asked and agreed, or customer
\* service or an invite code brought them together.
Related == {{r[1], r[2]} : r \in friend}

Abstract == INSTANCE Friendship WITH agreed <- agreed, friends <- Related

ImplementsFriendship == Abstract!Spec

\* A like is lost only if its author takes it back, or another's like or
\* unlike was computed from the list before it was there.
LikesHeld ==
  [][\A p \in DOMAIN posts : \A u \in ToSet(posts[p].likes) \ ToSet(posts'[p].likes) :
       \E h \in Handlers : At(h, "like") /\ Req(h).id = p
                           /\ (Req(h).by = u \/ ~Contains(hand[h].mem, u))]_vars
=============================================================================
