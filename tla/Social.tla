------------------------------- MODULE Social -------------------------------
(***************************************************************************)
(* Friends and moments: what users publish for their friends, the likes    *)
(* and comments on it, and the moderation of it by admins.  The requests   *)
(* of both parts are served by the same processes.                         *)
(***************************************************************************)
EXTENDS Friends

VARIABLES
  posts,    \* rows of moments_post, by id; likes is one column
  comments  \* rows of moments_comment, by id

Moments == <<posts, comments>>
Friendly == <<new, Relations, Chats, Helpers>>
vars == <<setting, Friendly, Moments, hand, barred, asked, faults>>

MomentStatements(r) ==
  CASE r.op = "publish"  -> <<St("publish", r.by, r.id, "")>>
    [] r.op = "feed"     -> <<St("circle", r.by, r.id, ""), St("posts", r.by, r.id, ""),
                              St("answer", r.by, r.id, "")>>
    [] r.op = "like"     -> <<St("liked", r.by, r.id, ""), St("like", r.by, r.id, "")>>
    [] r.op = "comment"  -> <<St("post", r.by, r.id, ""), St("comment", r.by, r.id, "")>>
    [] r.op \in {"uncomment", "dropComment"} -> <<St("uncomment", r.by, r.id, "")>>
    [] r.op = "hide"     -> <<St("hide", r.by, r.id, "")>>
    [] r.op = "drop"     -> <<St("dropPost", r.by, r.id, ""), St("dropAll", r.by, r.id, "")>>

Statements(r) == IF r.op \in MomentOps THEN MomentStatements(r) ELSE FriendStatements(r)

There(p) == p \in DOMAIN posts /\ posts[p].there
SetPost(p, row) == posts' = IF There(p) THEN [posts EXCEPT ![p] = row] ELSE posts

-----------------------------------------------------------------------------
(* Posts.                                                                  *)

Publish(h) ==
  /\ At(h, "publish")
  /\ posts' = Append(posts, [by |-> Req(h).by, likes |-> <<>>, hidden |-> FALSE, there |-> TRUE])
  /\ Proceed(h) /\ UNCHANGED comments

\* MomentsList reads the relations in both directions, but the second Pluck
\* replaces what the first has put into the list; then it reads the posts.
Circle(h) ==
  /\ At(h, "circle")
  /\ Left(h, Rest(h), {u \in Everyone : <<u, Req(h).by>> \in friend})
  /\ UNCHANGED Moments

Visible(p, viewer, circle) ==
  posts[p].by = viewer \/ (~posts[p].hidden /\ posts[p].by \in circle \cup {Assistant})

Feed(h) ==
  /\ At(h, "posts")
  /\ Left(h, Rest(h), {p \in DOMAIN posts : There(p) /\ Visible(p, Req(h).by, hand[h].mem)})
  /\ UNCHANGED Moments

Answer(h) == At(h, "answer") /\ Done(h) /\ UNCHANGED Moments

Hide(h) ==
  /\ At(h, "hide") /\ SetPost(Req(h).id, [posts[Req(h).id] EXCEPT !.hidden = Req(h).on])
  /\ Proceed(h) /\ UNCHANGED comments

DropPost(h) ==
  /\ At(h, "dropPost") /\ SetPost(Req(h).id, [posts[Req(h).id] EXCEPT !.there = FALSE])
  /\ Proceed(h) /\ UNCHANGED comments

-----------------------------------------------------------------------------
(* Likes: MomentLike reads the list, and writes it back with the change.   *)

\* Fault: a like that is taken back takes those after it along.
ToggledTail(u, likes) ==
  IF Contains(likes, u) THEN SubSeq(likes, 1, SelectInSeq(likes, LAMBDA v : v = u) - 1)
  ELSE Append(likes, u)

Toggled(u, likes) ==
  IF Contains(likes, u) THEN RemoveAt(likes, CHOOSE i \in DOMAIN likes : likes[i] = u)
  ELSE Append(likes, u)

Liked(h) ==
  /\ At(h, "liked")
  /\ IF There(Req(h).id) THEN Left(h, Rest(h), posts[Req(h).id].likes) ELSE Done(h)
  /\ UNCHANGED Moments

Like(h) ==
  /\ At(h, "like")
  /\ SetPost(Req(h).id, [posts[Req(h).id] EXCEPT !.likes = Toggled(Req(h).by, hand[h].mem)])
  /\ Proceed(h) /\ UNCHANGED comments

-----------------------------------------------------------------------------
(* Comments.                                                               *)

FindPost(h) ==
  /\ At(h, "post") /\ Only(h, There(Req(h).id)) /\ UNCHANGED Moments

Comment(h) ==
  /\ At(h, "comment")
  /\ comments' = Append(comments, [post |-> Req(h).id, by |-> Req(h).by, there |-> TRUE])
  /\ Proceed(h) /\ UNCHANGED posts

\* A user takes back his own, an admin anyone's, and a dropped post all of its.
TakesBack(h, c) ==
  CASE Req(h).op = "uncomment"   -> c = Req(h).id /\ comments[c].by = Req(h).by
    [] Req(h).op = "dropComment" -> c = Req(h).id
    [] Req(h).op = "drop"        -> comments[c].post = Req(h).id

Uncomment(h) ==
  /\ At(h, "uncomment") \/ At(h, "dropAll")
  /\ comments' = [c \in DOMAIN comments |->
                    [comments[c] EXCEPT !.there = @ /\ ~TakesBack(h, c)]]
  /\ Proceed(h) /\ UNCHANGED posts

-----------------------------------------------------------------------------
(* Requests, and the checks in them that the state does not satisfy.       *)

Checked(r) ==
  ToSet(Statements(r))
  \cup (IF r.op = "handle" /\ r.on /\ r.id \in DOMAIN filed
        THEN ToSet(Direct(filed[r.id].to, filed[r.id].from, "")) ELSE {})
  \cup (IF r.op = "feed"
        THEN UNION {{St("show", r.by, p, ""), St("near", r.by, p, "")} : p \in DOMAIN posts} ELSE {})

Fails(h, s) ==
  LET r == Req(h) IN
  \/ s.do = "already" /\ (s.a = s.b \/ AreFriends(s.a, s.b))
  \/ s.do = "pending" /\ IsPending(s.a, s.b)
  \/ s.do = "find"    /\ (r.id \notin DOMAIN filed \/ filed[r.id].to # r.by)
  \/ s.do = "conv"    /\ Common(s.a, s.b) # {} /\ hand[h].mem \notin Common(s.a, s.b)
  \/ s.do = "helped"  /\ Common(s.a, Assistant) # {}
  \/ s.do = "served"  /\ Served(s.a)
  \/ s.do = "mayInvite" /\ r.id \notin DOMAIN convs
  \/ s.do = "isIn"    /\ r.id \in DOMAIN convs /\ r.to \in convs[r.id]
  \/ s.do = "codeCount" /\ codes[r.code].there
  \/ s.do \in {"liked", "post"} /\ ~There(r.id)
  \/ s.do = "show"    /\ (~There(s.b) \/ (posts[s.b].hidden /\ posts[s.b].by # s.a))
  \/ s.do = "near"    /\ posts[s.b].by \notin {s.a, Assistant} /\ ~AreFriends(s.a, posts[s.b].by)

Unmet(h) == {s \in Checked(Req(h)) : Fails(h, s)}

\* A check that fails takes with it the statements it would have allowed.
FailedCheck(h) == Len(hand'[h].todo) < Len(hand[h].todo) - 1

NoteBarred ==
  barred' = [h \in Handlers |->
    IF hand'[h] = Idle THEN {}
    ELSE IF hand[h] = Idle THEN Unmet(h)'
    ELSE {s \in barred[h] \cap Unmet(h)' : FailedCheck(h) => s \in ToSet(hand'[h].todo)}]

\* Somebody who registers has nothing yet, and nobody knows him.
Ask(h, r) ==
  /\ hand[h] = Idle /\ asked < setting.maxAsked /\ asked' = asked + 1
  /\ IF r.op = "joined" THEN r.by \in new /\ new' = new \ {r.by}
     ELSE {r.by, r.to} \cap new = {} /\ UNCHANGED new
  /\ hand' = [hand EXCEPT ![h] = IF Statements(r) = <<>> THEN Idle
                                ELSE [todo |-> Statements(r), req |-> r, mem |-> 0]]
  /\ UNCHANGED <<setting, Relations, Chats, Helpers, Moments, faults>>

Serve(h) ==
  /\ \/ (FriendChecks(h) \/ FriendWrites(h)) /\ UNCHANGED Moments
     \/ /\ \/ Publish(h) \/ Circle(h) \/ Feed(h) \/ Answer(h) \/ Hide(h) \/ DropPost(h)
           \/ Liked(h) \/ Like(h) \/ FindPost(h) \/ Comment(h) \/ Uncomment(h)
        /\ UNCHANGED Friendly
  /\ UNCHANGED <<setting, new, asked, faults>>

Faulty ==
  /\ faults < setting.maxFaults /\ faults' = faults + 1
  /\ \/ \E h \in Handlers : Refused(h)
     \* the api process dies with the requests it is serving
     \/ /\ \E h \in Handlers : hand[h] # Idle
        /\ hand' = [h \in Handlers |-> Idle]
        /\ UNCHANGED <<Relations, Chats, Helpers>>
  /\ UNCHANGED <<setting, new, Moments, asked>>

Init == FriendsInit /\ posts = <<>> /\ comments = <<>>

Next ==
  /\ (\E h \in Handlers : Serve(h) \/ \E r \in setting.ask : Ask(h, r)) \/ Faulty
  /\ NoteBarred

Spec == Init /\ [][Next]_vars
=============================================================================
