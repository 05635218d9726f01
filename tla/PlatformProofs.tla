---------------------------- MODULE PlatformProofs ----------------------------
(***************************************************************************)
(* Safety of what is published and moderated (Content), of the platform's  *)
(* configuration (Settings), of device tokens and pushes (Notifications)   *)
(* and of accounts, their onboarding and their photos (Accounts), for      *)
(* every number of documents, requests, saves, accounts, devices and       *)
(* batches.  The four share no document; each has its inductive invariant  *)
(* and its theorems.                                                       *)
(***************************************************************************)
EXTENDS Content, Settings, Notifications, Accounts, FiniteSetTheorems, TLAPS

-----------------------------------------------------------------------------
(* Content: posts, comments, listings and their moderation *)

\* The comments that a post shows.
Active(p) == {k \in Comments : comment[k].post = p /\ comment[k].status = "active"}

CountsOK == \A p \in Posts : post[p].commentCount = Cardinality(Active(p))

\* A comment that exists belongs to a post.
ThreadsOK == \A k \in Comments : comment[k].status # "none" => comment[k].post \in Posts

\* A request works on a document of its kind, which existed when it was read:
\* what a late writer finds may be removed or hidden, never absent.
CallOK(c) ==
  LET x == call[c].target IN
  /\ call[c].op \in {"remove_post", "add_comment"} => x \in Posts /\ post[x].status # "none"
  /\ call[c].op = "remove_comment" => x \in Comments /\ comment[x].status # "none"
  /\ call[c].op = "update_listing" => x \in Products /\ product[x].status # "none"
CallsOK == \A c \in Calls : CallOK(c)

ContentInv == /\ TypeOK
        /\ CountsOK
        /\ ThreadsOK
        /\ CallsOK
        /\ AuditTellsVisibility

-----------------------------------------------------------------------------
(* What is hidden *)

\* A document is of one kind, and hidden in that kind's way.
LEMMA HiddenKinds ==
  /\ \A x \in Posts : Hidden(x) = (post[x].status = "removed")
  /\ \A x \in Comments : Hidden(x) = (comment[x].status = "removed")
  /\ \A x \in Products : Hidden(x) = product[x].adminHidden
  BY DisjointAssumption DEF Hidden

LEMMA HiddenKindsNext ==
  /\ \A x \in Posts : Hidden(x)' = (post'[x].status = "removed")
  /\ \A x \in Comments : Hidden(x)' = (comment'[x].status = "removed")
  /\ \A x \in Products : Hidden(x)' = product'[x].adminHidden
  BY DisjointAssumption DEF Hidden

LEMMA ExistsKinds ==
  /\ \A x \in Posts : Exists(x) = (post[x].status # "none")
  /\ \A x \in Comments : Exists(x) = (comment[x].status # "none")
  /\ \A x \in Products : Exists(x) = (product[x].status # "none")
  BY DisjointAssumption DEF Exists

\* What authors and farmers do: nothing removed comes back and no listing's
\* flag changes.
Unmoderated ==
  /\ \A p \in Posts : post[p].status = "removed" => post'[p].status = "removed"
  /\ \A k \in Comments : comment[k].status = "removed" => comment'[k].status = "removed"
  /\ \A q \in Products : product'[q].adminHidden = product[q].adminHidden
  /\ UNCHANGED audit

LEMMA UnmoderatedTells ==
  ASSUME ContentInv, Unmoderated
  PROVE  AuditTellsVisibility'
<1>1. \A x \in Documents : Hidden(x) => Hidden(x)'
  BY HiddenKinds, HiddenKindsNext DEF Unmoderated, Documents
<1>2. \A q \in Products : Hidden(q)' = Hidden(q)
  BY HiddenKinds, HiddenKindsNext DEF Unmoderated
<1>3. /\ \A x \in Documents : audit'[x].last = "hidden" => Hidden(x)'
      /\ \A q \in Products : Hidden(q)' <=> audit'[q].last = "hidden"
      /\ \A q \in Products : Hidden(q)' <=> audit'[q].entries % 2 = 1
  BY <1>1, <1>2 DEF ContentInv, AuditTellsVisibility, Unmoderated
<1>q. QED
  BY <1>3 DEF AuditTellsVisibility

-----------------------------------------------------------------------------
(* The counter *)

LEMMA ActiveFinite ==
  \A p \in Posts : /\ IsFiniteSet(Active(p)) /\ Cardinality(Active(p)) \in Nat
                   /\ Cardinality(Active(p)) <= Cardinality(Comments)
  BY FiniteAssumption, FS_Subset, FS_CardinalityType DEF Active

LEMMA ActiveFiniteNext ==
  \A p \in Posts : /\ Cardinality(Active(p)') \in Nat
                   /\ Cardinality(Active(p)') <= Cardinality(Comments)
  BY FiniteAssumption, FS_Subset, FS_CardinalityType DEF Active

\* One comment changes and the counter of its post with it: by one when the
\* comment appears, by one when it disappears.
LEMMA CountStep ==
  ASSUME TypeOK, CountsOK, NEW k \in Comments, NEW d \in Comment,
         d.post \in Posts, comment[k].status = "none" \/ comment[k].post = d.post,
         (d.status = "active") # (comment[k].status = "active"),
         comment' = [comment EXCEPT ![k] = d],
         post' = [post EXCEPT ![d.post].commentCount = IF d.status = "active" THEN @ + 1 ELSE @ - 1]
  PROVE  /\ post' \in [Posts -> Post] /\ comment' \in [Comments -> Comment]
         /\ CountsOK'
         /\ \A p \in Posts : post'[p].status = post[p].status
         /\ comment'[k] = d /\ \A j \in Comments \ {k} : comment'[j] = comment[j]
<1> DEFINE r == d.post
           n == IF d.status = "active" THEN post[r].commentCount + 1 ELSE post[r].commentCount - 1
<1>1. /\ comment' \in [Comments -> Comment]
      /\ comment'[k] = d /\ \A j \in Comments \ {k} : comment'[j] = comment[j]
  BY DEF TypeOK
<1>2. Active(r)' = IF d.status = "active" THEN Active(r) \cup {k} ELSE Active(r) \ {k}
  BY <1>1 DEF Active
<1>3. \A p \in Posts \ {r} : Active(p)' = Active(p)
  BY <1>1 DEF Active
<1>4. k \in Active(r) <=> d.status # "active"
  BY DEF Active
<1>5. Cardinality(Active(r)') = n
  <2>1. IsFiniteSet(Active(r)) /\ Cardinality(Active(r)) = post[r].commentCount
    BY ActiveFinite DEF CountsOK
  <2>2. CASE d.status = "active"
    <3>1. Cardinality(Active(r) \cup {k}) = Cardinality(Active(r)) + 1
      BY <1>4, <2>1, <2>2, FS_AddElement
    <3>q. QED
      BY <1>2, <2>1, <2>2, <3>1
  <2>3. CASE d.status # "active"
    <3>1. Cardinality(Active(r) \ {k}) = Cardinality(Active(r)) - 1
      BY <1>4, <2>1, <2>3, FS_RemoveElement
    <3>q. QED
      BY <1>2, <2>1, <2>3, <3>1
  <2>q. QED
    BY <2>2, <2>3
<1>6. n \in 0..Cardinality(Comments)
  BY <1>5, ActiveFiniteNext, FiniteAssumption, FS_CardinalityType
<1>7. /\ post' = [post EXCEPT ![r].commentCount = n] /\ post \in [Posts -> Post]
      /\ r \in Posts
  BY DEF TypeOK
<1> HIDE DEF r, n
<1>8. /\ post' \in [Posts -> Post] /\ post'[r].commentCount = n
      /\ \A p \in Posts : post'[p].status = post[p].status
      /\ \A p \in Posts \ {r} : post'[p].commentCount = post[p].commentCount
  BY <1>6, <1>7 DEF Post
<1>9. CountsOK'
  <2>1. ASSUME NEW p \in Posts
        PROVE  post'[p].commentCount = Cardinality(Active(p)')
    <3>1. CASE p = r
      BY <1>5, <1>8, <3>1
    <3>2. CASE p # r
      BY <1>3, <1>8, <3>2 DEF CountsOK
    <3>q. QED
      BY <3>1, <3>2
  <2>q. QED
    BY <2>1 DEF CountsOK
<1>q. QED
  BY <1>1, <1>8, <1>9

\* Where no comment changes and no counter, they stay in step.
LEMMA CountKept ==
  ASSUME CountsOK, UNCHANGED comment,
         \A p \in Posts : post'[p].commentCount = post[p].commentCount
  PROVE  CountsOK'
  BY DEF CountsOK, Active

-----------------------------------------------------------------------------
(* Requests *)

\* A document that exists goes on existing.
Lasting ==
  /\ \A p \in Posts : post[p].status # "none" => post'[p].status # "none"
  /\ \A k \in Comments : comment[k].status # "none" => comment'[k].status # "none"
  /\ \A q \in Products : product[q].status # "none" => product'[q].status # "none"

LEMMA CallsKept ==
  ASSUME CallsOK, Lasting, UNCHANGED call
  PROVE  CallsOK'
  BY DEF CallsOK, CallOK, Lasting

LEMMA FinishStep ==
  ASSUME TypeOK, CallsOK, Lasting, NEW c \in Calls, Finish(c)
  PROVE  CallsOK' /\ call' \in [Calls -> {Idle} \cup Call]
<1>1. /\ call' \in [Calls -> {Idle} \cup Call]
      /\ call'[c] = Idle /\ \A b \in Calls \ {c} : call'[b] = call[b]
  BY DEF TypeOK, Finish
<1>2. CallOK(c)'
  BY <1>1 DEF CallOK, Idle
<1>3. \A b \in Calls \ {c} : CallOK(b)'
  BY <1>1 DEF CallsOK, CallOK, Lasting
<1>q. QED
  BY <1>1, <1>2, <1>3 DEF CallsOK

\* A request reads a document that exists.
LEMMA BeginStep ==
  ASSUME ContentInv, NEW c \in Calls, NEW op \in Operations, NEW x \in Documents,
         NEW seen \in {"none"} \cup ProductStatus, Begin(c, op, x, seen),
         op \in {"remove_post", "add_comment"} => x \in Posts /\ post[x].status # "none",
         op = "remove_comment" => x \in Comments /\ comment[x].status # "none",
         op = "update_listing" => x \in Products /\ product[x].status # "none"
  PROVE  ContentInv' /\ Unmoderated
<1> DEFINE r == [op |-> op, target |-> x, seen |-> seen]
<1>1. r \in Call /\ r.op = op /\ r.target = x
  BY DEF Call
<1>2. call' = [call EXCEPT ![c] = r] /\ UNCHANGED <<post, comment, product, audit>>
  BY DEF Begin
<1> HIDE DEF r
<1>3. /\ call' \in [Calls -> {Idle} \cup Call]
      /\ call'[c] = r /\ \A b \in Calls \ {c} : call'[b] = call[b]
  BY <1>1, <1>2 DEF ContentInv, TypeOK
<1>4. TypeOK'
  BY <1>2, <1>3 DEF ContentInv, TypeOK
<1>5. CallOK(c)'
  BY <1>1, <1>2, <1>3 DEF CallOK
<1>6. \A b \in Calls \ {c} : CallOK(b)'
  BY <1>2, <1>3 DEF ContentInv, CallsOK, CallOK
<1>7. Unmoderated
  BY <1>2 DEF Unmoderated
<1>q. QED
  BY <1>2, <1>4, <1>5, <1>6, <1>7, CountKept, UnmoderatedTells
     DEF ContentInv, CallsOK, ThreadsOK

\* A request in progress is typed by its operation.
LEMMA CallType ==
  ASSUME ContentInv, NEW c \in Calls, call[c].op # "idle"
  PROVE  call[c] \in Call
  BY DEF ContentInv, TypeOK, Idle

-----------------------------------------------------------------------------
(* Posts and comments *)

LEMMA CreatePostStep ==
  ASSUME ContentInv, NEW p \in Posts, CreatePost(p)
  PROVE  ContentInv' /\ Unmoderated
<1>1. /\ post[p].status = "none" /\ UNCHANGED <<comment, product, audit, call>>
      /\ post' \in [Posts -> Post] /\ post'[p].status = "published"
      /\ \A x \in Posts : post'[x].commentCount = post[x].commentCount
      /\ \A x \in Posts \ {p} : post'[x] = post[x]
  BY DEF CreatePost, ContentInv, TypeOK, Post, PostStatus
<1>2. Unmoderated /\ Lasting
  BY <1>1 DEF Unmoderated, Lasting
<1>3. TypeOK' /\ ThreadsOK'
  BY <1>1 DEF ContentInv, TypeOK, ThreadsOK
<1>q. QED
  BY <1>1, <1>2, <1>3, CountKept, CallsKept, UnmoderatedTells DEF ContentInv

LEMMA RequirePublishedStep ==
  ASSUME ContentInv, NEW c \in Calls, NEW p \in Posts, NEW op \in {"remove_post", "add_comment"},
         RequirePublished(c, op, p)
  PROVE  ContentInv' /\ Unmoderated
<1>1. /\ op \in Operations /\ p \in Documents /\ "none" \in {"none"} \cup ProductStatus
      /\ post[p].status # "none" /\ Begin(c, op, p, "none")
      /\ op # "remove_comment" /\ op # "update_listing"
  BY DEF RequirePublished, Operations, Documents
<1>q. QED
  BY <1>1, BeginStep

LEMMA SaveRemovedStep ==
  ASSUME ContentInv, NEW c \in Calls, SaveRemoved(c)
  PROVE  ContentInv' /\ Unmoderated
<1> DEFINE p == call[c].target
<1>1. p \in Posts /\ Finish(c) /\ UNCHANGED <<comment, product, audit>>
  BY DEF ContentInv, CallsOK, CallOK, SaveRemoved
<1>2. /\ post' \in [Posts -> Post] /\ post'[p].status = "removed"
      /\ \A x \in Posts : post'[x].commentCount = post[x].commentCount
      /\ \A x \in Posts \ {p} : post'[x] = post[x]
  BY <1>1 DEF SaveRemoved, ContentInv, TypeOK, Post, PostStatus
<1> HIDE DEF p
<1>3. Unmoderated /\ Lasting
  BY <1>1, <1>2 DEF Unmoderated, Lasting
<1>4. CallsOK' /\ call' \in [Calls -> {Idle} \cup Call]
  BY <1>1, <1>3, FinishStep DEF ContentInv
<1>5. TypeOK' /\ ThreadsOK'
  BY <1>1, <1>2, <1>4 DEF ContentInv, TypeOK, ThreadsOK
<1>q. QED
  BY <1>1, <1>2, <1>3, <1>4, <1>5, CountKept, UnmoderatedTells DEF ContentInv

\* A comment is added to a post which may have been removed meanwhile.
LEMMA AddCommentStep ==
  ASSUME ContentInv, NEW c \in Calls, NEW k \in Comments, AddComment(c, k)
  PROVE  ContentInv' /\ Unmoderated
<1> DEFINE p == call[c].target
           d == [post |-> p, status |-> "active"]
<1>1. /\ p \in Posts /\ comment[k].status = "none" /\ Finish(c) /\ UNCHANGED <<product, audit>>
      /\ comment' = [comment EXCEPT ![k] = d]
      /\ post' = [post EXCEPT ![p].commentCount = @ + 1]
  BY DEF ContentInv, CallsOK, CallOK, AddComment
<1>2. d \in Comment /\ d.post = p /\ d.status = "active"
  BY <1>1 DEF Comment, CommentStatus
<1> HIDE DEF d, p
<1>3. /\ post' \in [Posts -> Post] /\ comment' \in [Comments -> Comment]
      /\ CountsOK'
      /\ \A x \in Posts : post'[x].status = post[x].status
      /\ comment'[k] = d /\ \A j \in Comments \ {k} : comment'[j] = comment[j]
  BY <1>1, <1>2, CountStep DEF ContentInv
<1>4. Unmoderated /\ Lasting
  BY <1>1, <1>2, <1>3 DEF Unmoderated, Lasting
<1>5. CallsOK' /\ call' \in [Calls -> {Idle} \cup Call]
  BY <1>1, <1>4, FinishStep DEF ContentInv
<1>6. TypeOK' /\ ThreadsOK'
  BY <1>1, <1>2, <1>3, <1>5 DEF ContentInv, TypeOK, ThreadsOK
<1>q. QED
  BY <1>3, <1>4, <1>5, <1>6, UnmoderatedTells DEF ContentInv

LEMMA ReadCommentStep ==
  ASSUME ContentInv, NEW c \in Calls, NEW k \in Comments, ReadComment(c, k)
  PROVE  ContentInv' /\ Unmoderated
<1>1. /\ "remove_comment" \in Operations /\ k \in Documents
      /\ comment[k].status # "none" /\ Begin(c, "remove_comment", k, "none")
  BY DEF ReadComment, Operations, Documents
<1>q. QED
  BY <1>1, BeginStep

\* A comment is removed, unless it has been removed meanwhile; the counter of its
\* post is then not zero.
LEMMA RemoveCommentStep ==
  ASSUME ContentInv, NEW c \in Calls, RemoveComment(c)
  PROVE  ContentInv' /\ Unmoderated
<1> DEFINE k == call[c].target
           p == comment[k].post
           d == [comment[k] EXCEPT !.status = "removed"]
<1>1. /\ k \in Comments /\ comment[k].status # "none" /\ p \in Posts
      /\ Finish(c) /\ UNCHANGED <<product, audit>>
      /\ comment[k] \in Comment
  BY DEF ContentInv, CallsOK, CallOK, ThreadsOK, RemoveComment, TypeOK
<1>2. CASE StillActive(k)
  <2>1. /\ comment[k].status = "active" /\ d \in Comment /\ d.post = p
        /\ d.status = "removed" /\ comment' = [comment EXCEPT ![k] = d]
    BY <1>1, <1>2 DEF StillActive, RemoveComment, Comment, CommentStatus, ContentInv, TypeOK
  <2>2. post[p].commentCount > 0
    <3>1. k \in Active(p) /\ IsFiniteSet(Active(p)) /\ Cardinality(Active(p)) \in Nat
      BY <1>1, <2>1, ActiveFinite DEF Active
    <3>2. Cardinality(Active(p)) # 0
      BY <3>1, FS_EmptySet
    <3>q. QED
      BY <1>1, <3>1, <3>2 DEF ContentInv, CountsOK
  <2>3. post' = [post EXCEPT ![p].commentCount = @ - 1]
    BY <1>2, <2>2 DEF RemoveComment, StillActive
  <2> HIDE DEF d, p, k
  <2>4. /\ post' \in [Posts -> Post] /\ comment' \in [Comments -> Comment]
        /\ CountsOK'
        /\ \A x \in Posts : post'[x].status = post[x].status
        /\ comment'[k] = d /\ \A j \in Comments \ {k} : comment'[j] = comment[j]
    <3>1. comment[k].status = "none" \/ comment[k].post = d.post
      BY <2>1 DEF p
    <3>q. QED
      BY <1>1, <2>1, <2>3, <3>1, CountStep DEF ContentInv
  <2>5. Unmoderated /\ Lasting
    BY <1>1, <2>1, <2>4 DEF Unmoderated, Lasting
  <2>6. CallsOK' /\ call' \in [Calls -> {Idle} \cup Call]
    BY <1>1, <2>5, FinishStep DEF ContentInv
  <2>7. TypeOK' /\ ThreadsOK'
    BY <1>1, <2>1, <2>4, <2>6 DEF ContentInv, TypeOK, ThreadsOK
  <2>q. QED
    BY <2>4, <2>5, <2>6, <2>7, UnmoderatedTells DEF ContentInv
<1>3. CASE ~StillActive(k)
  <2>1. UNCHANGED <<comment, post>>
    BY <1>3 DEF RemoveComment
  <2>2. Unmoderated /\ Lasting
    BY <1>1, <2>1 DEF Unmoderated, Lasting
  <2>3. CallsOK' /\ call' \in [Calls -> {Idle} \cup Call]
    BY <1>1, <2>2, FinishStep DEF ContentInv
  <2>4. TypeOK' /\ ThreadsOK'
    BY <1>1, <2>1, <2>3 DEF ContentInv, TypeOK, ThreadsOK
  <2>q. QED
    BY <2>1, <2>2, <2>3, <2>4, CountKept, UnmoderatedTells DEF ContentInv
<1>q. QED
  BY <1>2, <1>3

-----------------------------------------------------------------------------
(* Listings *)

\* A listing's status changes, and nothing else does but perhaps a request.
LEMMA ListingStep ==
  ASSUME ContentInv, NEW q \in Products, NEW status \in ProductStatus \cup {"none"},
         product[q].status = "none" \/ status # "none",
         product' = [product EXCEPT ![q].status = status],
         UNCHANGED <<post, comment, audit>>,
         \/ UNCHANGED call
         \/ \E c \in Calls : Finish(c)
  PROVE  ContentInv' /\ Unmoderated
<1>1. /\ product' \in [Products -> Product]
      /\ product'[q].status = status /\ product'[q].adminHidden = product[q].adminHidden
      /\ \A x \in Products \ {q} : product'[x] = product[x]
  BY DEF ContentInv, TypeOK, Product
<1>2. Unmoderated /\ Lasting
  BY <1>1 DEF Unmoderated, Lasting
<1>3. CallsOK' /\ call' \in [Calls -> {Idle} \cup Call]
  BY <1>2, CallsKept, FinishStep DEF ContentInv, TypeOK
<1>4. TypeOK' /\ ThreadsOK'
  BY <1>1, <1>3 DEF ContentInv, TypeOK, ThreadsOK
<1>q. QED
  BY <1>2, <1>3, <1>4, CountKept, UnmoderatedTells DEF ContentInv

LEMMA CreateListingStep ==
  ASSUME ContentInv, NEW q \in Products, CreateListing(q)
  PROVE  ContentInv' /\ Unmoderated
  BY ListingStep DEF CreateListing, ProductStatus

LEMMA ReadListingStep ==
  ASSUME ContentInv, NEW c \in Calls, NEW q \in Products, ReadListing(c, q)
  PROVE  ContentInv' /\ Unmoderated
<1>1. /\ "update_listing" \in Operations /\ q \in Documents
      /\ product[q].status # "none" /\ product[q].status \in {"none"} \cup ProductStatus
      /\ Begin(c, "update_listing", q, product[q].status)
  BY DEF ReadListing, Operations, Documents, ContentInv, TypeOK, Product
<1>q. QED
  BY <1>1, BeginStep

\* A save from an old copy writes a status that exists or none at all.
LEMMA SaveListingStep ==
  ASSUME ContentInv, NEW c \in Calls, NEW status \in ProductStatus, SaveListing(c, status)
  PROVE  ContentInv' /\ Unmoderated
<1> DEFINE q == call[c].target
           written == IF status = call[c].seen THEN product[q].status ELSE status
<1>1. q \in Products /\ product[q].status # "none" /\ Finish(c) /\ UNCHANGED <<post, comment, audit>>
  BY DEF ContentInv, CallsOK, CallOK, SaveListing
<1>2. written \in ProductStatus \cup {"none"} /\ written # "none"
  BY <1>1 DEF ContentInv, TypeOK, Product, ProductStatus
<1>3. product' = [product EXCEPT ![q].status = written]
  BY <1>1 DEF SaveListing, ContentInv, TypeOK
<1> HIDE DEF q, written
<1>q. QED
  BY <1>1, <1>2, <1>3, ListingStep

LEMMA UpdateStockStep ==
  ASSUME ContentInv, NEW q \in Products, NEW status \in ProductStatus, UpdateStock(q, status)
  PROVE  ContentInv' /\ Unmoderated
  BY ListingStep DEF UpdateStock, ProductStatus

-----------------------------------------------------------------------------
(* Moderation *)

\* The decision is recorded and the document is as it says.
LEMMA VisibilityEffect ==
  ASSUME ContentInv, NEW x \in Documents, NEW hidden \in BOOLEAN, Visibility(x, hidden)
  PROVE  /\ Exists(x) /\ Hidden(x) # hidden /\ Hidden(x)' = hidden
         /\ \A y \in Documents \ {x} : Hidden(y)' = Hidden(y)
         /\ Lasting /\ UNCHANGED call
         /\ post' \in [Posts -> Post] /\ comment' \in [Comments -> Comment]
         /\ product' \in [Products -> Product]
         /\ CountsOK' /\ ThreadsOK'
<1>0. Exists(x) /\ Hidden(x) # hidden /\ UNCHANGED call
  BY DEF Visibility, Changes
<1>1. CASE x \in Posts
  <2>1. /\ product' = product /\ comment' = comment
        /\ post' = [post EXCEPT ![x].status = IF hidden THEN "removed" ELSE "published"]
    BY <1>1, DisjointAssumption DEF Visibility
  <2>2. /\ post' \in [Posts -> Post]
        /\ post'[x].status = IF hidden THEN "removed" ELSE "published"
        /\ \A p \in Posts : post'[p].commentCount = post[p].commentCount
        /\ \A p \in Posts \ {x} : post'[p] = post[p]
    BY <1>1, <2>1 DEF ContentInv, TypeOK, Post, PostStatus
  <2>3. Hidden(x)' = hidden /\ \A y \in Documents \ {x} : Hidden(y)' = Hidden(y)
    BY <1>1, <2>1, <2>2, HiddenKinds, HiddenKindsNext DEF Documents
  <2>q. QED
    BY <1>0, <1>1, <2>1, <2>2, <2>3, CountKept DEF ContentInv, TypeOK, Lasting, ThreadsOK
<1>2. CASE x \in Comments
  <2> DEFINE d == [comment[x] EXCEPT !.status = IF hidden THEN "removed" ELSE "active"]
             p == comment[x].post
  <2>1. /\ comment[x].status # "none" /\ Hidden(x) = (comment[x].status = "removed")
        /\ comment[x] \in Comment
    BY <1>0, <1>2, ExistsKinds, HiddenKinds DEF ContentInv, TypeOK
  <2>2. /\ product' = product /\ comment' = [comment EXCEPT ![x] = d]
        /\ post' = [post EXCEPT ![p].commentCount = IF hidden THEN @ - 1 ELSE @ + 1]
    BY <1>2, <2>1, DisjointAssumption DEF Visibility, ContentInv, TypeOK
  <2>3. /\ d \in Comment /\ d.post = p /\ p \in Posts
        /\ d.status = (IF hidden THEN "removed" ELSE "active")
        /\ (d.status = "active") # (comment[x].status = "active")
    BY <1>0, <1>2, <2>1 DEF Comment, CommentStatus, ContentInv, ThreadsOK
  <2>4. comment[x].post = d.post
    BY <2>3
  <2>5. post' = [post EXCEPT ![d.post].commentCount = IF d.status = "active" THEN @ + 1 ELSE @ - 1]
    <3> HIDE DEF d
    <3>1. CASE hidden
      BY <2>2, <2>3, <3>1
    <3>2. CASE ~hidden
      BY <2>2, <2>3, <3>2
    <3>q. QED
      BY <3>1, <3>2
  <2> HIDE DEF d, p
  <2>6. /\ post' \in [Posts -> Post] /\ comment' \in [Comments -> Comment]
        /\ CountsOK'
        /\ \A r \in Posts : post'[r].status = post[r].status
        /\ comment'[x] = d /\ \A j \in Comments \ {x} : comment'[j] = comment[j]
    BY <1>2, <2>2, <2>3, <2>4, <2>5, CountStep DEF ContentInv
  <2>7. Hidden(x)' = hidden /\ \A y \in Documents \ {x} : Hidden(y)' = Hidden(y)
    BY <1>2, <2>2, <2>3, <2>6, HiddenKinds, HiddenKindsNext DEF Documents
  <2>q. QED
    BY <1>0, <1>2, <2>1, <2>2, <2>3, <2>6, <2>7 DEF ContentInv, TypeOK, Lasting, ThreadsOK
<1>3. CASE x \in Products
  <2>1. /\ product' = [product EXCEPT ![x].adminHidden = hidden]
        /\ comment' = comment /\ post' = post
    BY <1>3, DisjointAssumption DEF Visibility
  <2>2. /\ product' \in [Products -> Product]
        /\ product'[x].adminHidden = hidden
        /\ \A q \in Products : product'[q].status = product[q].status
        /\ \A q \in Products \ {x} : product'[q] = product[q]
    BY <1>3, <2>1 DEF ContentInv, TypeOK, Product
  <2>3. Hidden(x)' = hidden /\ \A y \in Documents \ {x} : Hidden(y)' = Hidden(y)
    BY <1>3, <2>1, <2>2, HiddenKinds, HiddenKindsNext DEF Documents
  <2>q. QED
    BY <1>0, <1>3, <2>1, <2>2, <2>3, CountKept DEF ContentInv, TypeOK, Lasting, ThreadsOK
<1>q. QED
  BY <1>1, <1>2, <1>3 DEF Documents

\* The audit entry of the decision.
LEMMA VisibilityLog ==
  ASSUME ContentInv, NEW x \in Documents, NEW hidden \in BOOLEAN, Visibility(x, hidden)
  PROVE  /\ audit' \in [Documents -> Log]
         /\ audit'[x].last = IF hidden THEN "hidden" ELSE "restored"
         /\ audit[x].entries \in Nat /\ audit'[x].entries = audit[x].entries + 1
         /\ audit'[x] = [last |-> IF hidden THEN "hidden" ELSE "restored",
                         entries |-> audit[x].entries + 1]
         /\ \A y \in Documents \ {x} : audit'[y] = audit[y]
<1> DEFINE e == [last |-> IF hidden THEN "hidden" ELSE "restored", entries |-> audit[x].entries + 1]
<1>1. audit[x].entries + 1 \in 0..MaxAudit /\ audit[x].entries \in Nat
  BY AuditAssumption DEF ContentInv, TypeOK, Log, Visibility
<1>2. e \in Log /\ e.last = (IF hidden THEN "hidden" ELSE "restored") /\ e.entries = audit[x].entries + 1
  BY <1>1 DEF Log
<1>3. audit' = [audit EXCEPT ![x] = e] /\ audit \in [Documents -> Log]
  BY DEF Visibility, ContentInv, TypeOK
<1>q. QED
  BY <1>1, <1>2, <1>3

\* Parity tells a number from the next.
LEMMA Parity == \A n \in Nat : (n + 1) % 2 = 1 <=> ~(n % 2 = 1)
  OBVIOUS

LEMMA VisibilityStep ==
  ASSUME ContentInv, NEW x \in Documents, NEW hidden \in BOOLEAN, Visibility(x, hidden)
  PROVE  ContentInv'
<1>1. /\ Hidden(x) # hidden /\ Hidden(x)' = hidden
      /\ \A y \in Documents \ {x} : Hidden(y)' = Hidden(y)
      /\ Lasting /\ UNCHANGED call
      /\ post' \in [Posts -> Post] /\ comment' \in [Comments -> Comment]
      /\ product' \in [Products -> Product]
      /\ CountsOK' /\ ThreadsOK'
  BY VisibilityEffect
<1>2. /\ audit' \in [Documents -> Log]
      /\ audit'[x].last = IF hidden THEN "hidden" ELSE "restored"
      /\ audit[x].entries \in Nat /\ audit'[x].entries = audit[x].entries + 1
      /\ \A y \in Documents \ {x} : audit'[y] = audit[y]
  BY VisibilityLog
<1>3. TypeOK' /\ CallsOK'
  BY <1>1, <1>2, CallsKept DEF ContentInv, TypeOK
<1>4. \A y \in Documents : audit'[y].last = "hidden" => Hidden(y)'
  BY <1>1, <1>2 DEF ContentInv, AuditTellsVisibility
<1>5. \A q \in Products : Hidden(q)' <=> audit'[q].last = "hidden"
  BY <1>1, <1>2 DEF ContentInv, AuditTellsVisibility, Documents
<1>6. ASSUME NEW q \in Products
      PROVE  Hidden(q)' <=> audit'[q].entries % 2 = 1
  <2>1. Hidden(q) <=> audit[q].entries % 2 = 1
    BY DEF ContentInv, AuditTellsVisibility
  <2>2. CASE q = x
    <3>1. (audit[x].entries + 1) % 2 = 1 <=> ~(audit[x].entries % 2 = 1)
      BY <1>2, Parity
    <3>2. Hidden(q)' <=> ~Hidden(q)
      <4>1. Hidden(q) \in BOOLEAN
        BY HiddenKinds DEF ContentInv, TypeOK, Product
      <4>q. QED
        BY <1>1, <2>2, <4>1
    <3>q. QED
      BY <1>2, <2>1, <2>2, <3>1, <3>2
  <2>3. CASE q # x
    BY <1>1, <1>2, <2>1, <2>3 DEF Documents
  <2>q. QED
    BY <2>2, <2>3
<1>7. AuditTellsVisibility'
  BY <1>4, <1>5, <1>6 DEF AuditTellsVisibility
<1>q. QED
  BY <1>1, <1>3, <1>7 DEF ContentInv

-----------------------------------------------------------------------------
(* The theorems *)

LEMMA ContentInitially == Init => ContentInv
<1> SUFFICES ASSUME Init
             PROVE  ContentInv
  OBVIOUS
<1>1. Cardinality(Comments) \in Nat /\ 0 \in 0..Cardinality(Comments) /\ 0 \in 0..MaxAudit
  BY FiniteAssumption, FS_CardinalityType, AuditAssumption
<1>2. TypeOK
  BY <1>1 DEF Init, TypeOK, Post, PostStatus, Comment, CommentStatus, Product, Log
<1>3. CountsOK
  <2>1. \A p \in Posts : Active(p) = {} /\ post[p].commentCount = 0
    BY DEF Init, Active
  <2>q. QED
    BY <2>1, FS_EmptySet DEF CountsOK
<1>4. ThreadsOK /\ CallsOK
  BY DEF Init, ThreadsOK, CallsOK, CallOK, Idle
<1>5. AuditTellsVisibility
  <2>1. /\ \A x \in Documents : audit[x].last = "none" /\ audit[x].entries = 0
        /\ \A q \in Products : Hidden(q) = FALSE
    BY HiddenKinds DEF Init
  <2>2. 0 % 2 # 1
    OBVIOUS
  <2>q. QED
    BY <2>1, <2>2 DEF AuditTellsVisibility, Documents
<1>q. QED
  BY <1>2, <1>3, <1>4, <1>5 DEF ContentInv

\* Authors and farmers keep the invariant and moderate nothing.
LEMMA UserStep == ContentInv /\ (Community \/ Listings) => ContentInv' /\ Unmoderated
<1> SUFFICES ASSUME ContentInv, Community \/ Listings
             PROVE  ContentInv' /\ Unmoderated
  OBVIOUS
<1>1. ASSUME NEW p \in Posts, CreatePost(p)
      PROVE  ContentInv' /\ Unmoderated
  BY <1>1, CreatePostStep
<1>2. ASSUME NEW c \in Calls, NEW p \in Posts,
             RequirePublished(c, "remove_post", p) \/ RequirePublished(c, "add_comment", p)
      PROVE  ContentInv' /\ Unmoderated
  BY <1>2, RequirePublishedStep
<1>3. ASSUME NEW c \in Calls, NEW k \in Comments, ReadComment(c, k) \/ AddComment(c, k)
      PROVE  ContentInv' /\ Unmoderated
  BY <1>3, ReadCommentStep, AddCommentStep
<1>4. ASSUME NEW c \in Calls, SaveRemoved(c) \/ RemoveComment(c)
      PROVE  ContentInv' /\ Unmoderated
  BY <1>4, SaveRemovedStep, RemoveCommentStep
<1>5. CASE Listings
  BY <1>5, CreateListingStep, ReadListingStep, SaveListingStep, UpdateStockStep DEF Listings
<1>q. QED
  BY <1>1, <1>2, <1>3, <1>4, <1>5 DEF Community

LEMMA ContentStep == ContentInv /\ [Next]_vars => ContentInv'
<1>1. ContentInv /\ Moderation => ContentInv'
  BY VisibilityStep DEF Moderation
<1>2. ContentInv /\ UNCHANGED vars => ContentInv'
  <2> SUFFICES ASSUME ContentInv, UNCHANGED vars
               PROVE  ContentInv'
    OBVIOUS
  <2>1. /\ UNCHANGED <<post, comment, product, audit, call>> /\ TypeOK' /\ ThreadsOK'
        /\ Lasting /\ Unmoderated
    BY DEF ContentInv, TypeOK, ThreadsOK, Lasting, Unmoderated, vars
  <2>q. QED
    BY <2>1, CountKept, CallsKept, UnmoderatedTells DEF ContentInv
<1>q. QED
  BY <1>1, <1>2, UserStep DEF Next

\* The inductive invariant of published content.
THEOREM ContentInvariance == Spec => []ContentInv
<1>q. QED
  BY ContentInitially, ContentStep, PTL DEF Spec

\* The counter of a post that CommunityService and AdminContentService both
\* write stays the number of its active comments.
THEOREM CounterInStep == Spec => []CommentCountInStep
<1>1. ContentInv => CommentCountInStep
  BY DEF ContentInv, CountsOK, Active, CommentCountInStep
<1>q. QED
  BY <1>1, ContentInvariance, PTL

\* The audit log of AdminContentService tells what readers see.
THEOREM LogTellsVisibility == Spec => []AuditTellsVisibility
<1>1. ContentInv => AuditTellsVisibility
  BY DEF ContentInv
<1>q. QED
  BY <1>1, ContentInvariance, PTL

\* What was removed comes back only by an administrator's recorded decision.
THEOREM RepublishedByDecision == Spec => OnlyRestoreRepublishes
<1>1. ASSUME ContentInv, [Next]_vars, NEW x \in Documents, Hidden(x), ~Hidden(x)'
      PROVE  audit'[x] = [last |-> "restored", entries |-> audit[x].entries + 1]
  <2>1. ~Unmoderated
    BY <1>1, HiddenKinds, HiddenKindsNext DEF Unmoderated, Documents
  <2>2. ~UNCHANGED vars
    BY <1>1, HiddenKinds, HiddenKindsNext DEF vars, Documents
  <2>3. PICK y \in Documents, hidden \in BOOLEAN : Visibility(y, hidden)
    BY <1>1, <2>1, <2>2, UserStep DEF Next, Moderation
  <2>4. Hidden(y)' = hidden /\ \A z \in Documents \ {y} : Hidden(z)' = Hidden(z)
    BY <1>1, <2>3, VisibilityEffect
  <2>5. x = y /\ hidden = FALSE
    BY <1>1, <2>4
  <2>q. QED
    BY <1>1, <2>3, <2>5, VisibilityLog
<1>2. ContentInv /\ [Next]_vars
        => [\A x \in Documents : Hidden(x) /\ ~Hidden(x)' =>
              audit'[x] = [last |-> "restored", entries |-> audit[x].entries + 1]]_vars
  BY <1>1
<1>q. QED
  BY <1>2, ContentInvariance, PTL DEF Spec, OnlyRestoreRepublishes

-----------------------------------------------------------------------------
(* Settings: the configuration and its pages *)

\* The history variable ends with what is stored; the audit log has an entry per
\* revision, which tells the step of the history from that revision to the next.
HistoryOK ==
  /\ Len(configAudit) = revision
  /\ stored = history[revision + 1]
  /\ \A i \in 1..Len(configAudit) :
       LET e == configAudit[i] IN
       /\ e.before = history[i] /\ e.after = history[i + 1]
       /\ e.shown = Effective(e.before)

\* A page shows a revision there has been, and that one only.
PagesOK ==
  \A a \in Admins : page[a] # NoPage =>
    /\ page[a].revision <= revision
    /\ page[a].limits = Effective(history[page[a].revision + 1])

\* As long as the revision is the one found before the keys were read, the keys
\* that have been read are those that are stored; a request reads again only
\* while it has attempts left.
LoadsOK ==
  \A a \in Admins :
    /\ admin[a].pc = "keys" =>
         /\ admin[a].before <= revision
         /\ admin[a].before = revision =>
              \A k \in DOMAIN admin[a].read : admin[a].read[k] = stored[k]
    /\ admin[a].pc = "again" => admin[a].attempt < ATTEMPTS

\* A save works on the snapshot of the revision on the form, which the form
\* goes on showing, and stores acceptable amounts.
SavesOK ==
  \A a \in Admins : admin[a].pc = "saving" =>
    /\ page[a] # NoPage /\ page[a].revision = admin[a].revision
    /\ admin[a].revision <= revision
    /\ admin[a].before = history[admin[a].revision + 1]
    /\ admin[a].values \in [min: LimitAmounts, max: LimitAmounts] /\ Valid(admin[a].values)

\* What an application has read was stored at some moment since it came in.
Seen(f, k) == \E i \in (application[f].from + 1)..Len(history) :
                application[f].read[k] = history[i][k]
ApplicationsOK ==
  \A f \in Applicants : application[f].pc = "reading" =>
    /\ application[f].from <= revision
    /\ \A k \in DOMAIN application[f].read : Seen(f, k)

SettingsInv == /\ SettingsTypeOK
        /\ HistoryOK
        /\ PagesOK
        /\ LoadsOK
        /\ SavesOK
        /\ ApplicationsOK

-----------------------------------------------------------------------------
(* The limits *)

\* A missing or crossing pair is replaced by the defaults, so readers always
\* get two numbers in order.
LEMMA LoanLimitsType ==
  ASSUME NEW min \in LimitAmounts \cup {Unset}, NEW max \in LimitAmounts \cup {Unset}
  PROVE  /\ LoanLimits(min, max) \in Limits
         /\ LoanLimits(min, max).min \in Nat /\ LoanLimits(min, max).max \in Nat
  BY LimitAssumption, DefaultsAssumption DEF LoanLimits, Limits

LEMMA EffectiveType ==
  ASSUME NEW s \in Stored
  PROVE  Effective(s) \in Limits
  BY LoanLimitsType DEF Effective, Stored, Keys

\* What a save stores is what readers get.
LEMMA SavedIsEffective ==
  ASSUME NEW v \in [min: LimitAmounts, max: LimitAmounts], Valid(v)
  PROVE  v \in Stored /\ v \in Limits /\ Effective(v) = v
<1>1. v.min # Unset /\ v.max # Unset /\ v["min"] = v.min /\ v["max"] = v.max
  BY LimitAssumption
<1>2. v = [min |-> v.min, max |-> v.max]
  OBVIOUS
<1>3. LoanLimits(v.min, v.max) = [min |-> v.min, max |-> v.max]
  BY <1>1 DEF LoanLimits, Valid
<1>q. QED
  BY <1>1, <1>2, <1>3 DEF Stored, Keys, Limits, Effective

\* One more key has been read.
LEMMA OneMoreKey ==
  ASSUME NEW read \in PartlyRead, NEW k \in Keys, stored \in Stored
  PROVE  LET more == [x \in DOMAIN read \cup {k} |-> IF x = k THEN readValue(k) ELSE read[x]] IN
         /\ more \in PartlyRead
         /\ \A x \in DOMAIN more : \/ x = k /\ more[x] = stored[k]
                                   \/ x \in DOMAIN read /\ more[x] = read[x]
<1> DEFINE ks == DOMAIN read \cup {k}
           more == [x \in ks |-> IF x = k THEN readValue(k) ELSE read[x]]
<1>1. ks \in SUBSET Keys /\ read \in [DOMAIN read -> LimitAmounts \cup {Unset}]
  BY DEF PartlyRead
<1>2. more \in [ks -> LimitAmounts \cup {Unset}]
  BY <1>1 DEF readValue, Stored
<1>3. more \in PartlyRead
  BY <1>1, <1>2 DEF PartlyRead
<1>4. \A x \in DOMAIN more : \/ x = k /\ more[x] = stored[k]
                             \/ x \in DOMAIN read /\ more[x] = read[x]
  BY DEF readValue
<1>q. QED
  BY <1>3, <1>4

\* Nothing read yet is a partial reading, both keys read a complete one.
LEMMA NothingRead == <<>> \in PartlyRead /\ DOMAIN <<>> = {}
<1>1. DOMAIN <<>> = {} /\ <<>> \in [{} -> LimitAmounts \cup {Unset}]
  OBVIOUS
<1>q. QED
  BY <1>1 DEF PartlyRead

LEMMA AllRead ==
  ASSUME NEW read \in PartlyRead, DOMAIN read = Keys
  PROVE  read \in Stored
  BY DEF PartlyRead, Stored

\* A state of the history.
LEMMA HistoryType ==
  ASSUME SettingsTypeOK, NEW i \in 1..Len(history)
  PROVE  history[i] \in Stored
  BY DEF SettingsTypeOK

-----------------------------------------------------------------------------
(* The screen *)

\* The invariant but for the administrators' requests.
LEMMA RequestStep ==
  ASSUME SettingsInv, NEW a \in Admins,
         UNCHANGED <<stored, revision, page, configAudit, application, history>>,
         NEW r \in {Resting} \cup Loading \cup Saving,
         admin' = [admin EXCEPT ![a] = r],
         r.pc = "keys" => /\ r.before <= revision
                          /\ r.before = revision => \A k \in DOMAIN r.read : r.read[k] = stored[k],
         r.pc = "again" => r.attempt < ATTEMPTS,
         r.pc = "saving" => /\ page[a] # NoPage /\ page[a].revision = r.revision
                            /\ r.revision <= revision
                            /\ r.before = history[r.revision + 1]
                            /\ r.values \in [min: LimitAmounts, max: LimitAmounts]
                            /\ Valid(r.values)
  PROVE  SettingsInv'
<1>1. /\ admin' \in [Admins -> {Resting} \cup Loading \cup Saving]
      /\ admin'[a] = r /\ \A b \in Admins \ {a} : admin'[b] = admin[b]
  BY DEF SettingsInv, SettingsTypeOK
<1>2. SettingsTypeOK'
  BY <1>1 DEF SettingsInv, SettingsTypeOK
<1>3. LoadsOK'
  BY <1>1 DEF SettingsInv, LoadsOK
<1>4. SavesOK'
  BY <1>1 DEF SettingsInv, SavesOK
<1>q. QED
  BY <1>2, <1>3, <1>4 DEF SettingsInv, HistoryOK, PagesOK, ApplicationsOK, Seen

LEMMA LoadStep ==
  ASSUME SettingsInv, NEW a \in Admins, Load(a)
  PROVE  SettingsInv'
<1> DEFINE r == [pc |-> "keys", attempt |-> 1, before |-> revision, read |-> <<>>]
<1>1. r \in Loading
  BY NothingRead, SavesAssumption DEF SettingsInv, SettingsTypeOK, Loading
<1>2. r.pc = "keys" /\ r.before <= revision /\ DOMAIN r.read = {}
  BY NothingRead DEF SettingsInv, SettingsTypeOK
<1>3. admin' = [admin EXCEPT ![a] = r]
      /\ UNCHANGED <<stored, revision, page, configAudit, application, history>>
  BY DEF Load
<1> HIDE DEF r
<1>q. QED
  BY <1>1, <1>2, <1>3, RequestStep

\* A loading request is one of those that load.
LEMMA LoadingType ==
  ASSUME SettingsTypeOK, NEW a \in Admins, admin[a].pc \in {"keys", "again"}
  PROVE  admin[a] \in Loading
  BY DEF SettingsTypeOK, Resting, Saving

LEMMA SavingType ==
  ASSUME SettingsTypeOK, NEW a \in Admins, admin[a].pc = "saving"
  PROVE  admin[a] \in Saving
  BY DEF SettingsTypeOK, Resting, Loading

LEMMA LoadAgainStep ==
  ASSUME SettingsInv, NEW a \in Admins, LoadAgain(a)
  PROVE  SettingsInv'
<1> DEFINE r == [pc |-> "keys", attempt |-> admin[a].attempt + 1, before |-> revision,
                 read |-> <<>>]
<1>1. admin[a] \in Loading
  BY LoadingType DEF SettingsInv, LoadAgain
<1>2. admin[a].attempt + 1 \in 1..ATTEMPTS
  BY <1>1, SavesAssumption DEF Loading, SettingsInv, LoadsOK, LoadAgain
<1>3. r \in Loading
  BY <1>2, NothingRead DEF SettingsInv, SettingsTypeOK, Loading
<1>4. r.pc = "keys" /\ r.before <= revision /\ DOMAIN r.read = {}
  BY NothingRead DEF SettingsInv, SettingsTypeOK
<1>5. admin' = [admin EXCEPT ![a] = r]
      /\ UNCHANGED <<stored, revision, page, configAudit, application, history>>
  BY <1>1 DEF LoadAgain, SettingsInv, SettingsTypeOK
<1> HIDE DEF r
<1>q. QED
  BY <1>3, <1>4, <1>5, RequestStep

LEMMA ReadKeyStep ==
  ASSUME SettingsInv, NEW a \in Admins, NEW k \in Keys, ReadKey(a, k)
  PROVE  SettingsInv'
<1> DEFINE read == admin[a].read
           more == [x \in DOMAIN read \cup {k} |-> IF x = k THEN readValue(k) ELSE read[x]]
           r == [admin[a] EXCEPT !.read = more]
<1>1. admin[a] \in Loading /\ admin[a].pc = "keys" /\ read \in PartlyRead
  BY LoadingType DEF SettingsInv, ReadKey, Loading
<1>2. /\ more \in PartlyRead
      /\ \A x \in DOMAIN more : \/ x = k /\ more[x] = stored[k]
                                \/ x \in DOMAIN read /\ more[x] = read[x]
  BY <1>1, OneMoreKey DEF SettingsInv, SettingsTypeOK
<1>3. admin' = [admin EXCEPT ![a] = r]
  BY <1>1 DEF ReadKey, SettingsInv, SettingsTypeOK
<1> HIDE DEF more
<1>4. /\ r \in Loading /\ r.pc = "keys" /\ r.before = admin[a].before /\ r.read = more
  BY <1>1, <1>2 DEF Loading
<1>5. /\ r.before <= revision
      /\ r.before = revision => \A x \in DOMAIN more : more[x] = stored[x]
  BY <1>1, <1>2, <1>4 DEF SettingsInv, LoadsOK
<1> HIDE DEF r
<1>q. QED
  BY <1>3, <1>4, <1>5, RequestStep DEF ReadKey

\* The second read of the revision found it unmoved: the keys that were read
\* are those of that revision.
LEMMA ShowPageStep ==
  ASSUME SettingsInv, NEW a \in Admins, EndLoad(a), Unmoved(a)
  PROVE  SettingsInv'
<1> DEFINE limits == Effective(admin[a].read)
           shown == [revision |-> revision, limits |-> limits]
<1>0. /\ UNCHANGED <<stored, revision, configAudit, application, history>>
      /\ page' = [page EXCEPT ![a] = shown] /\ admin' = [admin EXCEPT ![a] = Resting]
      /\ admin[a].pc = "keys" /\ DOMAIN admin[a].read = Keys
  BY DEF EndLoad
<1>1. admin[a].read \in Stored /\ stored \in Stored
  BY <1>0, LoadingType, AllRead DEF SettingsInv, SettingsTypeOK, Loading
<1>2. admin[a].read = stored
  BY <1>0, <1>1 DEF SettingsInv, LoadsOK, Unmoved, Stored
<1>3. limits \in Limits /\ limits = Effective(history[revision + 1]) /\ revision \in 0..MaxSaves
  BY <1>1, <1>2, EffectiveType DEF SettingsInv, HistoryOK, SettingsTypeOK
<1> HIDE DEF limits
<1>4. /\ shown \in [revision: 0..MaxSaves, limits: Limits]
      /\ shown.revision = revision /\ shown.limits = limits
  BY <1>3
<1> HIDE DEF shown
<1>5. /\ page' \in [Admins -> {NoPage} \cup [revision: 0..MaxSaves, limits: Limits]]
      /\ page'[a] = shown /\ \A b \in Admins \ {a} : page'[b] = page[b]
      /\ admin' \in [Admins -> {Resting} \cup Loading \cup Saving]
      /\ admin'[a] = Resting /\ \A b \in Admins \ {a} : admin'[b] = admin[b]
  BY <1>0, <1>4 DEF SettingsInv, SettingsTypeOK
<1>6. SettingsTypeOK'
  BY <1>0, <1>5 DEF SettingsInv, SettingsTypeOK
<1>7. PagesOK'
  BY <1>0, <1>3, <1>4, <1>5 DEF SettingsInv, PagesOK
<1>8. LoadsOK'
  BY <1>0, <1>5 DEF SettingsInv, LoadsOK, Resting
<1>9. SavesOK'
  BY <1>0, <1>5 DEF SettingsInv, SavesOK, Resting
<1>q. QED
  BY <1>0, <1>6, <1>7, <1>8, <1>9 DEF SettingsInv, HistoryOK, ApplicationsOK, Seen

\* It had moved: the page stays, and the request tries again or gives up.
LEMMA MovedStep ==
  ASSUME SettingsInv, NEW a \in Admins, EndLoad(a), ~Unmoved(a)
  PROVE  SettingsInv'
<1>1. admin[a] \in Loading /\ UNCHANGED <<stored, revision, page, configAudit, application, history>>
  BY LoadingType DEF SettingsInv, EndLoad
<1>2. CASE admin[a].attempt < ATTEMPTS
  <2> DEFINE r == [admin[a] EXCEPT !.pc = "again"]
  <2>1. r \in Loading /\ r.pc = "again" /\ r.attempt < ATTEMPTS
    BY <1>1, <1>2 DEF Loading
  <2>2. admin' = [admin EXCEPT ![a] = r]
    BY <1>2 DEF EndLoad, SettingsInv, SettingsTypeOK
  <2> HIDE DEF r
  <2>q. QED
    BY <1>1, <2>1, <2>2, RequestStep
<1>3. CASE ~(admin[a].attempt < ATTEMPTS)
  <2>1. admin' = [admin EXCEPT ![a] = Resting]
    BY <1>3 DEF EndLoad, SettingsInv, SettingsTypeOK
  <2>2. Resting.pc = "idle"
    BY DEF Resting
  <2>q. QED
    BY <1>1, <2>1, <2>2, RequestStep
<1>q. QED
  BY <1>2, <1>3

-----------------------------------------------------------------------------
(* Saving *)

LEMMA BeginSaveStep ==
  ASSUME SettingsInv, NEW a \in Admins, NEW min \in LimitAmounts, NEW max \in LimitAmounts,
         BeginSave(a, [min |-> min, max |-> max])
  PROVE  SettingsInv'
<1> DEFINE v == [min |-> min, max |-> max]
           r == [pc |-> "saving", revision |-> revision, before |-> stored, values |-> v]
<1>1. v \in [min: LimitAmounts, max: LimitAmounts] /\ v \in Limits /\ Valid(v)
  BY DEF Limits, BeginSave
<1>2. r \in Saving
  BY <1>1 DEF Saving, SettingsInv, SettingsTypeOK
<1>3. /\ r.pc = "saving" /\ r.revision = revision /\ r.before = stored /\ r.values = v
      /\ admin' = [admin EXCEPT ![a] = r]
      /\ page[a] # NoPage /\ page[a].revision = revision
      /\ UNCHANGED <<stored, revision, page, configAudit, application, history>>
  BY DEF BeginSave, CurrentRevision, SettingsInv, SettingsTypeOK
<1>4. r.revision <= revision /\ r.before = history[r.revision + 1]
  BY <1>3 DEF SettingsInv, HistoryOK, SettingsTypeOK
<1> HIDE DEF r, v
<1>q. QED
  BY <1>1, <1>2, <1>3, <1>4, RequestStep

LEMMA RefuseSaveStep ==
  ASSUME SettingsInv, NEW a \in Admins, RefuseSave(a)
  PROVE  SettingsInv'
<1>1. Resting.pc = "idle"
  BY DEF Resting
<1>q. QED
  BY <1>1, RequestStep DEF RefuseSave

\* A commit adds one entry to the history and one to the audit log.
LEMMA CommitEffect ==
  ASSUME SettingsInv, NEW a \in Admins, CommitSave(a)
  PROVE  LET v == admin[a].values IN
         /\ v \in Stored /\ v \in Limits /\ Effective(v) = v
         /\ revision \in 0..MaxSaves /\ revision' = revision + 1 /\ revision' \in 0..MaxSaves
         /\ stored' = v
         /\ history' \in Seq(Stored) /\ Len(history') = Len(history) + 1
         /\ \A i \in 1..Len(history) : history'[i] = history[i]
         /\ history'[revision' + 1] = v
         /\ configAudit' \in Seq(AuditLog) /\ Len(configAudit') = revision'
         /\ \A i \in 1..revision : configAudit'[i] = configAudit[i]
         /\ configAudit'[revision'].before = history[revision']
         /\ configAudit'[revision'].after = v
         /\ configAudit'[revision'].shown = Effective(history[revision'])
<1> DEFINE v == admin[a].values
           e == [shown |-> page[a].limits, before |-> admin[a].before, after |-> v]
<1>1. /\ admin[a] \in Saving /\ admin[a].revision = revision
      /\ revision \in 0..MaxSaves /\ revision < MaxSaves /\ MaxSaves \in Nat
  BY SavingType, SavesAssumption DEF SettingsInv, CommitSave, FirstCommitter, SettingsTypeOK
<1>2. v \in Stored /\ v \in Limits /\ Effective(v) = v
  BY SavedIsEffective DEF SettingsInv, SavesOK, CommitSave
<1>3. revision' = revision + 1 /\ revision' \in 0..MaxSaves
  BY <1>1 DEF CommitSave
<1>4. /\ page[a].limits = Effective(history[revision + 1]) /\ page[a].limits \in Limits
      /\ admin[a].before = history[revision + 1] /\ admin[a].before \in Stored
  BY <1>1 DEF SettingsInv, PagesOK, SavesOK, SettingsTypeOK, CommitSave, Saving
<1>5. e \in AuditLog /\ e.shown = page[a].limits /\ e.before = admin[a].before /\ e.after = v
  BY <1>2, <1>4 DEF AuditLog
<1>6. history' = Append(history, v) /\ configAudit' = Append(configAudit, e) /\ stored' = v
  BY DEF CommitSave
<1>7. /\ history \in Seq(Stored) /\ Len(history) = revision + 1
      /\ configAudit \in Seq(AuditLog) /\ Len(configAudit) = revision
  BY DEF SettingsInv, SettingsTypeOK, HistoryOK
<1> HIDE DEF v, e
<1>8. /\ history' \in Seq(Stored) /\ Len(history') = Len(history) + 1
      /\ \A i \in 1..Len(history) : history'[i] = history[i]
      /\ history'[revision' + 1] = v
  BY <1>1, <1>2, <1>3, <1>6, <1>7
<1>9. /\ configAudit' \in Seq(AuditLog) /\ Len(configAudit') = revision'
      /\ \A i \in 1..revision : configAudit'[i] = configAudit[i]
      /\ configAudit'[revision'] = e
  BY <1>1, <1>3, <1>5, <1>6, <1>7
<1>q. QED
  BY <1>1, <1>2, <1>3, <1>4, <1>5, <1>6, <1>8, <1>9 DEF v

\* The first of the saves of one revision commits.
LEMMA CommitSaveStep ==
  ASSUME SettingsInv, NEW a \in Admins, CommitSave(a)
  PROVE  SettingsInv'
<1> DEFINE v == admin[a].values
           shown == [revision |-> admin[a].revision + 1, limits |-> v]
<1>0. /\ v \in Stored /\ v \in Limits /\ Effective(v) = v
      /\ revision \in 0..MaxSaves /\ revision' = revision + 1 /\ revision' \in 0..MaxSaves
      /\ stored' = v
      /\ history' \in Seq(Stored) /\ Len(history') = Len(history) + 1
      /\ \A i \in 1..Len(history) : history'[i] = history[i]
      /\ history'[revision' + 1] = v
      /\ configAudit' \in Seq(AuditLog) /\ Len(configAudit') = revision'
      /\ \A i \in 1..revision : configAudit'[i] = configAudit[i]
      /\ configAudit'[revision'].before = history[revision']
      /\ configAudit'[revision'].after = v
      /\ configAudit'[revision'].shown = Effective(history[revision'])
  BY CommitEffect
<1>1. /\ Len(history) = revision + 1 /\ Len(configAudit) = revision /\ MaxSaves \in Nat
      /\ page \in [Admins -> {NoPage} \cup [revision: 0..MaxSaves, limits: Limits]]
      /\ admin \in [Admins -> {Resting} \cup Loading \cup Saving]
      /\ application \in [Applicants -> {Waiting} \cup Reading \cup Decided]
  BY SavesAssumption DEF SettingsInv, SettingsTypeOK, HistoryOK
<1>2. /\ shown.revision = revision' /\ shown.limits = v
      /\ shown \in [revision: 0..MaxSaves, limits: Limits]
  BY <1>0 DEF CommitSave, FirstCommitter
<1>3. page' = [page EXCEPT ![a] = shown] /\ admin' = [admin EXCEPT ![a] = Resting]
      /\ application' = application
  BY DEF CommitSave
<1> HIDE DEF shown, v
<1>4. /\ page' \in [Admins -> {NoPage} \cup [revision: 0..MaxSaves, limits: Limits]]
      /\ page'[a] = shown /\ \A b \in Admins \ {a} : page'[b] = page[b]
      /\ admin' \in [Admins -> {Resting} \cup Loading \cup Saving]
      /\ admin'[a] = Resting /\ \A b \in Admins \ {a} : admin'[b] = admin[b]
  BY <1>1, <1>2, <1>3
<1>5. SettingsTypeOK'
  BY <1>0, <1>1, <1>3, <1>4 DEF SettingsTypeOK
<1>6. HistoryOK'
  <2>1. ASSUME NEW i \in 1..revision
        PROVE  /\ configAudit'[i].before = history'[i] /\ configAudit'[i].after = history'[i + 1]
               /\ configAudit'[i].shown = Effective(configAudit'[i].before)
    <3>1. i \in 1..Len(configAudit) /\ i \in 1..Len(history) /\ i + 1 \in 1..Len(history)
      BY <1>0, <1>1
    <3>2. /\ configAudit[i].before = history[i] /\ configAudit[i].after = history[i + 1]
          /\ configAudit[i].shown = Effective(configAudit[i].before)
      BY <3>1 DEF SettingsInv, HistoryOK
    <3>q. QED
      BY <1>0, <3>1, <3>2
  <2>2. /\ configAudit'[revision'].before = history'[revision']
        /\ configAudit'[revision'].after = history'[revision' + 1]
        /\ configAudit'[revision'].shown = Effective(configAudit'[revision'].before)
    BY <1>0, <1>1
  <2>3. \A i \in 1..Len(configAudit') : i \in 1..revision \/ i = revision'
    BY <1>0
  <2>q. QED
    BY <1>0, <2>1, <2>2, <2>3 DEF HistoryOK
<1>7. PagesOK'
  <2>1. ASSUME NEW b \in Admins \ {a}, page'[b] # NoPage
        PROVE  /\ page'[b].revision <= revision'
               /\ page'[b].limits = Effective(history'[page'[b].revision + 1])
    <3>1. page[b].revision \in 0..revision /\ page[b].limits = Effective(history[page[b].revision + 1])
      BY <1>0, <1>1, <1>4, <2>1 DEF SettingsInv, PagesOK
    <3>q. QED
      BY <1>0, <1>1, <1>4, <3>1
  <2>q. QED
    BY <1>0, <1>2, <1>4, <2>1 DEF PagesOK
<1>8. LoadsOK'
  <2>1. ASSUME NEW b \in Admins \ {a}, admin'[b].pc = "keys"
        PROVE  admin'[b].before <= revision' /\ admin'[b].before # revision'
    <3>1. admin[b] \in Loading /\ admin[b].before <= revision
      BY <1>4, <2>1, LoadingType DEF SettingsInv, LoadsOK
    <3>q. QED
      BY <1>0, <1>4, <3>1 DEF Loading
  <2>q. QED
    BY <1>4, <2>1 DEF LoadsOK, SettingsInv, Resting
<1>9. SavesOK'
  <2>1. ASSUME NEW b \in Admins \ {a}, admin'[b].pc = "saving"
        PROVE  /\ admin[b].revision <= revision'
               /\ admin[b].before = history'[admin[b].revision + 1]
    <3>1. /\ admin[b] \in Saving /\ admin[b].revision <= revision
          /\ admin[b].before = history[admin[b].revision + 1]
      BY <1>4, <2>1, SavingType DEF SettingsInv, SavesOK
    <3>2. admin[b].revision \in Nat /\ admin[b].revision + 1 \in 1..Len(history)
      BY <1>0, <1>1, <3>1 DEF Saving
    <3>q. QED
      BY <1>0, <3>1, <3>2
  <2>q. QED
    BY <1>4, <2>1 DEF SavesOK, SettingsInv, Resting
<1>10. ApplicationsOK'
  <2>1. ASSUME NEW f \in Applicants, application[f].pc = "reading"
        PROVE  /\ application[f].from <= revision'
               /\ \A k \in DOMAIN application[f].read : Seen(f, k)'
    <3>1. /\ application[f].from \in 0..MaxSaves /\ application[f].from <= revision
          /\ \A k \in DOMAIN application[f].read : Seen(f, k)
      BY <1>1, <2>1 DEF SettingsInv, ApplicationsOK, Waiting, Reading, Decided
    <3>2. ASSUME NEW k \in DOMAIN application[f].read
          PROVE  Seen(f, k)'
      <4>1. PICK i \in (application[f].from + 1)..Len(history) : application[f].read[k] = history[i][k]
        BY <3>1 DEF Seen
      <4>2. i \in 1..Len(history) /\ i \in (application[f].from + 1)..Len(history')
        BY <1>0, <1>1, <3>1
      <4>q. QED
        BY <1>0, <1>3, <4>1, <4>2 DEF Seen
    <3>q. QED
      BY <1>0, <1>1, <3>1, <3>2
  <2>q. QED
    BY <1>3, <2>1 DEF ApplicationsOK
<1>q. QED
  BY <1>5, <1>6, <1>7, <1>8, <1>9, <1>10 DEF SettingsInv

-----------------------------------------------------------------------------
(* Loan requests *)

\* The invariant but for the applications.
LEMMA ApplicationStep ==
  ASSUME SettingsInv, NEW f \in Applicants,
         UNCHANGED <<stored, revision, page, admin, configAudit, history>>,
         NEW r \in {Waiting} \cup Reading \cup Decided,
         application' = [application EXCEPT ![f] = r],
         r.pc = "reading" =>
           /\ r.from <= revision
           /\ \A k \in DOMAIN r.read :
                \E i \in (r.from + 1)..Len(history) : r.read[k] = history[i][k]
  PROVE  SettingsInv'
<1>1. /\ application' \in [Applicants -> {Waiting} \cup Reading \cup Decided]
      /\ application'[f] = r /\ \A g \in Applicants \ {f} : application'[g] = application[g]
  BY DEF SettingsInv, SettingsTypeOK
<1>2. SettingsTypeOK'
  BY <1>1 DEF SettingsInv, SettingsTypeOK
<1>3. ApplicationsOK'
  BY <1>1 DEF SettingsInv, ApplicationsOK, Seen
<1>q. QED
  BY <1>2, <1>3 DEF SettingsInv, HistoryOK, PagesOK, LoadsOK, SavesOK

LEMMA ReadingType ==
  ASSUME SettingsTypeOK, NEW f \in Applicants, application[f].pc = "reading"
  PROVE  application[f] \in Reading
  BY DEF SettingsTypeOK, Waiting, Decided

LEMMA ApplyStep ==
  ASSUME SettingsInv, NEW f \in Applicants, NEW amount \in LimitAmounts, Apply(f, amount)
  PROVE  SettingsInv'
<1> DEFINE r == [pc |-> "reading", amount |-> amount, from |-> revision, read |-> <<>>]
<1>1. r \in Reading
  BY NothingRead DEF SettingsInv, SettingsTypeOK, Reading
<1>2. r.pc = "reading" /\ r.from <= revision /\ DOMAIN r.read = {}
  BY NothingRead DEF SettingsInv, SettingsTypeOK
<1>3. application' = [application EXCEPT ![f] = r]
      /\ UNCHANGED <<stored, revision, page, admin, configAudit, history>>
  BY DEF Apply
<1> HIDE DEF r
<1>q. QED
  BY <1>1, <1>2, <1>3, ApplicationStep

LEMMA ReadLimitStep ==
  ASSUME SettingsInv, NEW f \in Applicants, NEW k \in Keys, ReadLimit(f, k)
  PROVE  SettingsInv'
<1> DEFINE read == application[f].read
           more == [x \in DOMAIN read \cup {k} |-> IF x = k THEN readValue(k) ELSE read[x]]
           r == [application[f] EXCEPT !.read = more]
<1>1. /\ application[f] \in Reading /\ read \in PartlyRead
      /\ application[f].from \in Nat /\ revision \in Nat
  BY ReadingType DEF SettingsInv, ReadLimit, Reading, SettingsTypeOK
<1>2. /\ more \in PartlyRead
      /\ \A x \in DOMAIN more : \/ x = k /\ more[x] = stored[k]
                                \/ x \in DOMAIN read /\ more[x] = read[x]
  BY <1>1, OneMoreKey DEF SettingsInv, SettingsTypeOK
<1>3. application' = [application EXCEPT ![f] = r]
  BY <1>1 DEF ReadLimit, SettingsInv, SettingsTypeOK
<1> HIDE DEF more
<1>4. r \in Reading /\ r.from = application[f].from /\ r.read = more
  BY <1>1, <1>2 DEF Reading
<1> HIDE DEF r
<1>5. /\ application[f].from <= revision
      /\ \A x \in DOMAIN read :
           \E i \in (application[f].from + 1)..Len(history) : read[x] = history[i][x]
  BY DEF SettingsInv, ApplicationsOK, Seen, ReadLimit
<1>6. /\ Len(history) \in (application[f].from + 1)..Len(history)
      /\ stored[k] = history[Len(history)][k]
  BY <1>1, <1>5 DEF SettingsInv, HistoryOK, SettingsTypeOK
<1>7. ASSUME NEW x \in DOMAIN more
      PROVE  \E i \in (application[f].from + 1)..Len(history) : more[x] = history[i][x]
  BY <1>2, <1>5, <1>6, <1>7
<1>q. QED
  BY <1>3, <1>4, <1>5, <1>7, ApplicationStep DEF ReadLimit

LEMMA DecideApplicationStep ==
  ASSUME SettingsInv, NEW f \in Applicants, DecideApplication(f)
  PROVE  SettingsInv'
<1>1. PICK pc \in {"accepted", "refused"} : application' = [application EXCEPT ![f] = [pc |-> pc]]
  BY DEF DecideApplication
<1>2. [pc |-> pc] \in Decided /\ [pc |-> pc].pc # "reading"
  BY DEF Decided
<1>q. QED
  BY <1>1, <1>2, ApplicationStep DEF DecideApplication

-----------------------------------------------------------------------------
(* The theorems *)

LEMMA SettingsInitially == SettingsInit => SettingsInv
<1> SUFFICES ASSUME SettingsInit
             PROVE  SettingsInv
  OBVIOUS
<1>1. stored \in Stored /\ history = <<stored>>
  BY SeedsAssumption DEF SettingsInit
<1>2. /\ history \in Seq(Stored) /\ Len(history) = 1 /\ history[1] = stored
      /\ configAudit \in Seq(AuditLog) /\ Len(configAudit) = 0
  BY <1>1 DEF SettingsInit
<1>3. \A a \in Admins : page[a] = NoPage /\ admin[a].pc = "idle"
  BY DEF SettingsInit, Resting
<1>4. \A f \in Applicants : application[f].pc = "none"
  BY DEF SettingsInit, Waiting
<1>5. SettingsTypeOK
  BY <1>1, <1>2, SavesAssumption DEF SettingsInit, SettingsTypeOK
<1>6. HistoryOK
  BY <1>2 DEF SettingsInit, HistoryOK
<1>q. QED
  BY <1>3, <1>4, <1>5, <1>6 DEF SettingsInv, PagesOK, LoadsOK, SavesOK, ApplicationsOK

LEMMA SettingsStep == SettingsInv /\ [SettingsNext]_settingsVars => SettingsInv'
<1> SUFFICES ASSUME SettingsInv, [SettingsNext]_settingsVars
             PROVE  SettingsInv'
  OBVIOUS
<1>1. ASSUME NEW a \in Admins,
             Load(a) \/ EndLoad(a) \/ LoadAgain(a) \/ CommitSave(a) \/ RefuseSave(a)
      PROVE  SettingsInv'
  BY <1>1, LoadStep, ShowPageStep, MovedStep, LoadAgainStep, CommitSaveStep, RefuseSaveStep
<1>2. ASSUME NEW a \in Admins, NEW k \in Keys, ReadKey(a, k)
      PROVE  SettingsInv'
  BY <1>2, ReadKeyStep
<1>3. ASSUME NEW a \in Admins, NEW min \in LimitAmounts, NEW max \in LimitAmounts,
             BeginSave(a, [min |-> min, max |-> max])
      PROVE  SettingsInv'
  BY <1>3, BeginSaveStep
<1>4. ASSUME NEW f \in Applicants, NEW amount \in LimitAmounts, Apply(f, amount)
      PROVE  SettingsInv'
  BY <1>4, ApplyStep
<1>5. ASSUME NEW f \in Applicants, NEW k \in Keys, ReadLimit(f, k)
      PROVE  SettingsInv'
  BY <1>5, ReadLimitStep
<1>6. ASSUME NEW f \in Applicants, DecideApplication(f)
      PROVE  SettingsInv'
  BY <1>6, DecideApplicationStep
<1>7. CASE UNCHANGED settingsVars
  BY <1>7 DEF SettingsInv, SettingsTypeOK, HistoryOK, PagesOK, LoadsOK, SavesOK, ApplicationsOK, Seen,
     settingsVars
<1>q. QED
  BY <1>1, <1>2, <1>3, <1>4, <1>5, <1>6, <1>7 DEF SettingsNext

\* The inductive invariant of the configuration.
THEOREM SettingsInvariance == SettingsSpec => []SettingsInv
<1>q. QED
  BY SettingsInitially, SettingsStep, PTL DEF SettingsSpec

\* The screen that AdminService.config fills key by key shows the configuration
\* of one revision, however the saves of others fall between its reads.
THEOREM OneRevisionShown == SettingsSpec => []PageIsOneRevision
<1>1. SettingsInv => PageIsOneRevision
  BY DEF SettingsInv, PagesOK, PageIsOneRevision
<1>q. QED
  BY <1>1, SettingsInvariance, PTL

\* AdminService.saveConfig overwrites nothing that its administrator has not
\* seen, and the audit log is an unbroken account of the configuration.
THEOREM SavesKept == SettingsSpec => []NoSaveLost
<1>1. SettingsInv => NoSaveLost
  BY DEF SettingsInv, HistoryOK, NoSaveLost
<1>q. QED
  BY <1>1, SettingsInvariance, PTL

\* A loan request that LoanService.apply accepts lies within limits that were in
\* force while it read them.
THEOREM AcceptedWithinLimits == SettingsSpec => TakenWithinLimits
<1>1. ASSUME SettingsInv, [SettingsNext]_settingsVars, NEW f \in Applicants,
             application[f].pc = "reading", application'[f].pc = "accepted"
      PROVE  \E i, j \in (application[f].from + 1)..Len(history) :
               LET l == LoanLimits(history[i]["min"], history[j]["max"]) IN
               application[f].amount \in l.min..l.max
  <2> DEFINE read == application[f].read
  <2>0. /\ application[f] \in Reading
        /\ application \in [Applicants -> {Waiting} \cup Reading \cup Decided]
    BY <1>1, ReadingType DEF SettingsInv, SettingsTypeOK
  <2>1. DecideApplication(f)
    <3>1. application'[f] # application[f]
      BY <1>1
    <3>2. ASSUME NEW g \in Applicants, NEW amount \in LimitAmounts, Apply(g, amount)
          PROVE  FALSE
      BY <1>1, <2>0, <3>1, <3>2 DEF Apply, Waiting
    <3>3. ASSUME NEW g \in Applicants, NEW k \in Keys, ReadLimit(g, k)
          PROVE  FALSE
      <4>1. g = f
        BY <2>0, <3>1, <3>3 DEF ReadLimit
      <4>2. application'[f].pc = application[f].pc
        BY <2>0, <3>3, <4>1 DEF ReadLimit, Reading
      <4>q. QED
        BY <1>1, <4>2
    <3>4. ASSUME NEW g \in Applicants, DecideApplication(g)
          PROVE  g = f
      BY <2>0, <3>1, <3>4 DEF DecideApplication
    <3>q. QED
      BY <1>1, <3>1, <3>2, <3>3, <3>4 DEF SettingsNext, settingsVars, Load, EndLoad, LoadAgain,
         CommitSave, RefuseSave, ReadKey, BeginSave
  <2>2. read \in PartlyRead /\ DOMAIN read = Keys /\ read \in Stored
    BY <2>0, <2>1, AllRead DEF Reading, DecideApplication
  <2>3. Seen(f, "min") /\ Seen(f, "max")
    BY <1>1, <2>2 DEF SettingsInv, ApplicationsOK, Keys
  <2>4. PICK i \in (application[f].from + 1)..Len(history) : read["min"] = history[i]["min"]
    BY <2>3 DEF Seen
  <2>5. PICK j \in (application[f].from + 1)..Len(history) : read["max"] = history[j]["max"]
    BY <2>3 DEF Seen
  <2> DEFINE l == LoanLimits(read["min"], read["max"])
  <2>6. l.min \in Nat /\ l.max \in Nat /\ application[f].amount \in Nat
    BY <2>0, <2>2, LoanLimitsType, LimitAssumption DEF Stored, Keys, Reading
  <2>7. application[f].amount \in l.min..l.max
    <3> HIDE DEF l
    <3>1. application'[f].pc = IF application[f].amount < l.min \/ application[f].amount > l.max
                               THEN "refused" ELSE "accepted"
      BY <2>0, <2>1 DEF DecideApplication, Effective, l
    <3>q. QED
      BY <1>1, <2>6, <3>1
  <2>q. QED
    BY <2>4, <2>5, <2>7
<1>2. SettingsInv /\ [SettingsNext]_settingsVars
        => [\A f \in Applicants : application[f].pc = "reading" /\ application'[f].pc = "accepted" =>
              \E i, j \in (application[f].from + 1)..Len(history) :
                LET l == LoanLimits(history[i]["min"], history[j]["max"]) IN
                application[f].amount \in l.min..l.max]_settingsVars
  BY <1>1
<1>q. QED
  BY <1>2, SettingsInvariance, PTL DEF SettingsSpec, TakenWithinLimits

-----------------------------------------------------------------------------
(* Notifications: device tokens and pushes *)

\* Account u has token t, or is being given it.
Registering(u, t) == \E s \in SignIns : registering[s] = {<<u, t>>}
Claims(u, t) == fcmToken[u] = t \/ Registering(u, t)

\* Two accounts may get the same token only if they signed in at the same time:
\* TokenMoves itself says nothing of those who are between the two updates.
ClaimsOK ==
  \A t \in Tokens, u, v \in Users :
    u # v /\ Claims(u, t) /\ Claims(v, t) => <<t, {u, v}>> \in overlapped

NotificationsInv == NotificationsTypeOK /\ ClaimsOK

-----------------------------------------------------------------------------
(* Sign-ins *)

LEMMA TakeTokenStep ==
  ASSUME NotificationsInv, NEW s \in SignIns, NEW u \in Users, NEW t \in Tokens, TakeToken(s, u, t)
  PROVE  NotificationsInv'
<1>0. /\ registering[s] = {} /\ UNCHANGED <<served, unread, push>>
      /\ fcmToken \in [Users -> Tokens \cup {NoToken}]
  BY DEF TakeToken, NotificationsInv, NotificationsTypeOK
<1>1. /\ fcmToken' \in [Users -> Tokens \cup {NoToken}]
      /\ \A v \in Users : fcmToken'[v] = IF v # u /\ fcmToken[v] = t THEN NoToken ELSE fcmToken[v]
  BY DEF TakeToken, TakenFromOthers, NotificationsInv, NotificationsTypeOK
<1>2. /\ registering' \in [SignIns -> {{}} \cup {{r} : r \in Users \X Tokens}]
      /\ registering'[s] = {<<u, t>>}
      /\ \A q \in SignIns \ {s} : registering'[q] = registering[q]
  BY DEF TakeToken, NotificationsInv, NotificationsTypeOK
<1>3. /\ \A v \in Rivals(u, t) : <<t, {u, v}>> \in overlapped'
      /\ \A o \in overlapped : o[1] # t \/ Rivals(u, t) # {} => o \in overlapped'
  BY DEF TakeToken
<1>4. overlapped' \subseteq Tokens \X SUBSET Users
  BY DEF TakeToken, Rivals, NotificationsInv, NotificationsTypeOK
<1>5. NotificationsTypeOK'
  BY <1>0, <1>1, <1>2, <1>4 DEF NotificationsInv, NotificationsTypeOK
<1>6. \A v \in Users, x \in Tokens : Registering(v, x)' => Registering(v, x) \/ (v = u /\ x = t)
  BY <1>0, <1>2 DEF Registering
<1>7. \A v \in Users \ {u} : Claims(v, t)' => v \in Rivals(u, t)
  <2>1. ASSUME NEW v \in Users \ {u}, Claims(v, t)'
        PROVE  v \in Rivals(u, t)
    <3>1. fcmToken'[v] # t
      BY <1>1, TokenAssumption
    <3>2. Registering(v, t)
      BY <1>6, <2>1, <3>1 DEF Claims
    <3>q. QED
      BY <3>2 DEF Rivals, Registering
  <2>q. QED
    BY <2>1
<1>8. ASSUME NEW x \in Tokens, NEW v \in Users, NEW w \in Users,
             v # w, Claims(v, x)', Claims(w, x)'
      PROVE  <<x, {v, w}>> \in overlapped'
  <2>1. CASE x # t
    <3>1. Claims(v, x) /\ Claims(w, x)
      BY <1>1, <1>6, <1>8, <2>1, TokenAssumption DEF Claims
    <3>2. <<x, {v, w}>> \in overlapped
      BY <1>8, <3>1 DEF NotificationsInv, ClaimsOK
    <3>q. QED
      BY <1>3, <2>1, <3>2
  <2>2. CASE x = t /\ v = u
    BY <1>3, <1>7, <1>8, <2>2
  <2>3. CASE x = t /\ w = u
    <3>1. <<t, {u, v}>> \in overlapped'
      BY <1>3, <1>7, <1>8, <2>3
    <3>2. {u, v} = {v, u}
      OBVIOUS
    <3>q. QED
      BY <2>3, <3>1, <3>2
  <2>4. CASE x = t /\ v # u /\ w # u
    <3>1. v \in Rivals(u, t) /\ w \in Rivals(u, t)
      BY <1>7, <1>8, <2>4
    <3>2. Claims(v, t) /\ Claims(w, t)
      BY <3>1 DEF Rivals, Claims, Registering
    <3>3. <<t, {v, w}>> \in overlapped
      BY <1>8, <3>2 DEF NotificationsInv, ClaimsOK
    <3>q. QED
      BY <1>3, <2>4, <3>1, <3>3
  <2>q. QED
    BY <2>1, <2>2, <2>3, <2>4
<1>9. ClaimsOK'
  BY <1>8 DEF ClaimsOK
<1>q. QED
  BY <1>5, <1>9 DEF NotificationsInv

\* Claims that no longer grow stay within those known to overlap.
LEMMA FewerClaims ==
  ASSUME ClaimsOK, UNCHANGED overlapped,
         \A t \in Tokens, u \in Users : Claims(u, t)' => Claims(u, t)
  PROVE  ClaimsOK'
  BY DEF ClaimsOK

\* An account is given the token it is signing in with.
LEMMA GiveTokenStep ==
  ASSUME NotificationsInv, NEW s \in SignIns, GiveToken(s)
  PROVE  NotificationsInv'
<1>0. PICK u \in Users, t \in Tokens :
        /\ registering[s] = {<<u, t>>}
        /\ fcmToken' = [fcmToken EXCEPT ![u] = t]
        /\ registering' = [registering EXCEPT ![s] = {}]
        /\ UNCHANGED <<served, unread, push, overlapped>>
  BY DEF GiveToken
<1>1. /\ fcmToken' \in [Users -> Tokens \cup {NoToken}]
      /\ fcmToken'[u] = t /\ \A v \in Users \ {u} : fcmToken'[v] = fcmToken[v]
  BY <1>0 DEF NotificationsInv, NotificationsTypeOK
<1>2. /\ registering' \in [SignIns -> {{}} \cup {{r} : r \in Users \X Tokens}]
      /\ registering'[s] = {} /\ \A q \in SignIns \ {s} : registering'[q] = registering[q]
  BY <1>0 DEF NotificationsInv, NotificationsTypeOK
<1>3. NotificationsTypeOK'
  BY <1>0, <1>1, <1>2 DEF NotificationsInv, NotificationsTypeOK
<1>4. ASSUME NEW x \in Tokens, NEW v \in Users, Claims(v, x)'
      PROVE  Claims(v, x)
  BY <1>0, <1>1, <1>2, <1>4 DEF Claims, Registering
<1>5. ClaimsOK'
  BY <1>0, <1>4, FewerClaims DEF NotificationsInv
<1>q. QED
  BY <1>3, <1>5 DEF NotificationsInv

\* Tokens are only dropped: by a user who signs out, or after a push.
LEMMA DropStep ==
  ASSUME NotificationsInv, UNCHANGED <<registering, served, unread, overlapped>>,
         push' \in [Notices -> Batch],
         fcmToken' \in [Users -> Tokens \cup {NoToken}],
         \A u \in Users : fcmToken'[u] \in {NoToken, fcmToken[u]}
  PROVE  NotificationsInv'
<1>1. \A t \in Tokens, u \in Users : Claims(u, t)' => Claims(u, t)
  BY TokenAssumption DEF Claims, Registering
<1>q. QED
  BY <1>1, FewerClaims DEF NotificationsInv, NotificationsTypeOK

LEMMA ClearTokenStep ==
  ASSUME NotificationsInv, NEW u \in Users, ClearToken(u)
  PROVE  NotificationsInv'
<1>1. /\ UNCHANGED <<registering, served, unread, push, overlapped>>
      /\ fcmToken' \in [Users -> Tokens \cup {NoToken}]
      /\ \A v \in Users : fcmToken'[v] \in {NoToken, fcmToken[v]}
  BY DEF ClearToken, NotificationsInv, NotificationsTypeOK
<1>2. push' \in [Notices -> Batch]
  BY <1>1 DEF NotificationsInv, NotificationsTypeOK
<1>q. QED
  BY <1>1, <1>2, DropStep

LEMMA UninstallStep ==
  ASSUME NotificationsInv, NEW t \in Tokens, Uninstall(t)
  PROVE  NotificationsInv'
<1>1. UNCHANGED <<fcmToken, registering, unread, push, overlapped>> /\ served' = served \ {t}
  BY DEF Uninstall
<1>2. NotificationsTypeOK'
  BY <1>1 DEF NotificationsInv, NotificationsTypeOK
<1>3. ClaimsOK'
  BY <1>1 DEF NotificationsInv, ClaimsOK, Claims, Registering
<1>q. QED
  BY <1>2, <1>3 DEF NotificationsInv

-----------------------------------------------------------------------------
(* Pushes *)

\* A push goes on; no account and no token changes.
LEMMA PushStep ==
  ASSUME NotificationsInv, UNCHANGED <<fcmToken, registering, served, overlapped>>,
         unread' \in [Notices -> SUBSET Users],
         NEW n \in Notices, NEW b \in Batch, push' = [push EXCEPT ![n] = b]
  PROVE  NotificationsInv'
<1>1. /\ push' \in [Notices -> Batch] /\ push'[n] = b
      /\ \A m \in Notices \ {n} : push'[m] = push[m]
  BY DEF NotificationsInv, NotificationsTypeOK
<1>2. NotificationsTypeOK'
  BY <1>1 DEF NotificationsInv, NotificationsTypeOK
<1>3. ClaimsOK'
  BY DEF NotificationsInv, ClaimsOK, Claims, Registering
<1>q. QED
  BY <1>2, <1>3 DEF NotificationsInv

LEMMA NotifyStep ==
  ASSUME NotificationsInv, NEW n \in Notices, NEW to \in SUBSET Users, Notify(n, to)
  PROVE  NotificationsInv'
<1> DEFINE b == [pc |-> "stored", to |-> to]
<1>1. b \in Batch
  BY DEF Batch, StoredBatch
<1>2. /\ push' = [push EXCEPT ![n] = b] /\ UNCHANGED <<fcmToken, registering, served, overlapped>>
      /\ unread' \in [Notices -> SUBSET Users]
  BY DEF Notify, NotificationsInv, NotificationsTypeOK
<1> HIDE DEF b
<1>q. QED
  BY <1>1, <1>2, PushStep

LEMMA ReadTokensStep ==
  ASSUME NotificationsInv, NEW n \in Notices, ReadTokens(n)
  PROVE  NotificationsInv'
<1> DEFINE targets == {u \in push[n].to : fcmToken[u] # NoToken}
           targeted == [u \in targets |-> fcmToken[u]]
           b == IF targets = {} THEN Pushed ELSE [pc |-> "sending", to |-> targeted]
<1>1. /\ push' = [push EXCEPT ![n] = b] /\ UNCHANGED <<fcmToken, registering, served, overlapped>>
      /\ unread' \in [Notices -> SUBSET Users] /\ push[n].pc = "stored"
  BY DEF ReadTokens, NotificationsInv, NotificationsTypeOK
<1>2. push[n].to \subseteq Users
  BY <1>1 DEF NotificationsInv, NotificationsTypeOK, Batch, StoredBatch, SendingBatch, AnsweredBatch, NotSent,
     Pushed
<1>3. targets \in SUBSET Users /\ targeted \in [targets -> Tokens]
  BY <1>2 DEF NotificationsInv, NotificationsTypeOK
<1>4. targeted \in TargetTokens
  BY <1>3 DEF TargetTokens
<1>5. b \in Batch
  BY <1>4 DEF Batch, SendingBatch, Pushed
<1> HIDE DEF b
<1>q. QED
  BY <1>1, <1>5, PushStep

\* Those whose message was refused were addressed.
LEMMA SendStep ==
  ASSUME NotificationsInv, NEW n \in Notices, Send(n)
  PROVE  NotificationsInv'
<1>0. /\ push[n].pc = "sending" /\ UNCHANGED <<fcmToken, registering, served, overlapped>>
      /\ unread' \in [Notices -> SUBSET Users]
  BY DEF Send, NotificationsInv, NotificationsTypeOK
<1>1. push[n].to \in TargetTokens
  BY <1>0 DEF NotificationsInv, NotificationsTypeOK, Batch, StoredBatch, SendingBatch, AnsweredBatch, NotSent,
     Pushed
<1>2. DOMAIN push[n].to \subseteq Users
  BY <1>1 DEF TargetTokens
<1>3. PICK code \in [DOMAIN push[n].to -> FcmCodes] :
        push' = [push EXCEPT ![n] = IF DeadAmong(code) = {} THEN Pushed
                                    ELSE [pc |-> "answered", to |-> push[n].to, dead |-> DeadAmong(code)]]
  BY DEF Send
<1> DEFINE dead == DeadAmong(code)
           b == IF dead = {} THEN Pushed ELSE [pc |-> "answered", to |-> push[n].to, dead |-> dead]
<1>4. dead \subseteq Users
  BY <1>2 DEF DeadAmong
<1>5. push' = [push EXCEPT ![n] = b]
  BY <1>3
<1> HIDE DEF dead
<1>6. b \in Batch
  BY <1>1, <1>4 DEF Batch, AnsweredBatch, Pushed
<1> HIDE DEF b
<1>q. QED
  BY <1>0, <1>5, <1>6, PushStep

LEMMA DropDeadStep ==
  ASSUME NotificationsInv, NEW n \in Notices, DropDead(n)
  PROVE  NotificationsInv'
<1>1. /\ UNCHANGED <<registering, served, unread, overlapped>>
      /\ fcmToken' \in [Users -> Tokens \cup {NoToken}]
      /\ \A v \in Users : fcmToken'[v] \in {NoToken, fcmToken[v]}
  BY DEF DropDead, NotificationsInv, NotificationsTypeOK
<1>2. push' \in [Notices -> Batch]
  BY DEF DropDead, NotificationsInv, NotificationsTypeOK, Batch
<1>q. QED
  BY <1>1, <1>2, DropStep

\* The inbox is nobody else's business.
LEMMA InboxStep ==
  ASSUME NotificationsInv, NEW u \in Users, MarkAllRead(u) \/ \E n \in Notices : MarkRead(u, n)
  PROVE  NotificationsInv'
<1>1. /\ UNCHANGED <<fcmToken, registering, served, push, overlapped>>
      /\ unread' \in [Notices -> SUBSET Users]
  BY DEF MarkAllRead, MarkRead, NotificationsInv, NotificationsTypeOK
<1>2. NotificationsTypeOK'
  BY <1>1 DEF NotificationsInv, NotificationsTypeOK
<1>3. ClaimsOK'
  BY <1>1 DEF NotificationsInv, ClaimsOK, Claims, Registering
<1>q. QED
  BY <1>2, <1>3 DEF NotificationsInv

-----------------------------------------------------------------------------
(* The theorems *)

LEMMA NotificationsInitially == NotificationsInit => NotificationsInv
<1> SUFFICES ASSUME NotificationsInit
             PROVE  NotificationsInv
  OBVIOUS
<1>1. NotificationsTypeOK
  BY DEF NotificationsInit, NotificationsTypeOK, Batch
<1>2. \A u \in Users, t \in Tokens : ~Claims(u, t)
  BY TokenAssumption DEF NotificationsInit, Claims, Registering
<1>q. QED
  BY <1>1, <1>2 DEF NotificationsInv, ClaimsOK

LEMMA NotificationsStep == NotificationsInv /\ [NotificationsNext]_notificationVars => NotificationsInv'
<1> SUFFICES ASSUME NotificationsInv, [NotificationsNext]_notificationVars
             PROVE  NotificationsInv'
  OBVIOUS
<1>1. ASSUME NEW s \in SignIns, NEW u \in Users, NEW t \in Tokens, TakeToken(s, u, t)
      PROVE  NotificationsInv'
  BY <1>1, TakeTokenStep
<1>2. ASSUME NEW s \in SignIns, GiveToken(s)
      PROVE  NotificationsInv'
  BY <1>2, GiveTokenStep
<1>3. ASSUME NEW u \in Users, ClearToken(u)
      PROVE  NotificationsInv'
  BY <1>3, ClearTokenStep
<1>4. ASSUME NEW t \in Tokens, Uninstall(t)
      PROVE  NotificationsInv'
  BY <1>4, UninstallStep
<1>5. ASSUME NEW n \in Notices, NEW to \in SUBSET Users, Notify(n, to)
      PROVE  NotificationsInv'
  BY <1>5, NotifyStep
<1>6. ASSUME NEW n \in Notices, ReadTokens(n) \/ Send(n) \/ DropDead(n)
      PROVE  NotificationsInv'
  BY <1>6, ReadTokensStep, SendStep, DropDeadStep
<1>7. ASSUME NEW u \in Users, MarkAllRead(u) \/ \E n \in Notices : MarkRead(u, n)
      PROVE  NotificationsInv'
  BY <1>7, InboxStep
<1>8. CASE UNCHANGED notificationVars
  BY <1>8 DEF NotificationsInv, NotificationsTypeOK, ClaimsOK, Claims, Registering, notificationVars
<1>q. QED
  BY <1>1, <1>2, <1>3, <1>4, <1>5, <1>6, <1>7, <1>8 DEF NotificationsNext

\* The inductive invariant of devices and pushes.
THEOREM NotificationsInvariance == NotificationsSpec => []NotificationsInv
<1>q. QED
  BY NotificationsInitially, NotificationsStep, PTL DEF NotificationsSpec

\* NotificationService.registerDeviceToken moves a token to the account that
\* signed in last, but for accounts that signed in at the same time.
THEOREM TokensMove == NotificationsSpec => []TokenMoves
<1>1. NotificationsInv => TokenMoves
  <2> SUFFICES ASSUME NotificationsInv, NEW u \in Users, NEW v \in Users, u # v,
                      fcmToken[u] = fcmToken[v], fcmToken[u] # NoToken
               PROVE  <<fcmToken[u], {u, v}>> \in overlapped
    BY DEF NotificationsInv, TokenMoves
  <2>1. fcmToken[u] \in Tokens
    BY DEF NotificationsInv, NotificationsTypeOK
  <2>q. QED
    BY <2>1 DEF NotificationsInv, ClaimsOK, Claims
<1>q. QED
  BY <1>1, NotificationsInvariance, PTL

-----------------------------------------------------------------------------
(* Accounts: onboarding, sign-in and the avatar *)

User    == [email: Emails, uid: Identities \cup {NoOne}, role: Roles \cup {"admin"}, avatar: Nat]
Request == [pc: Steps, identity: Identities \cup {NoOne}, role: Roles \cup {"none"},
            cnic: Cnics \cup {NoOne}, user: Nat, previous: Nat, path: Nat]

\* The steps between the insert of an account and the end of its onboarding, and
\* those at which an asset may be held that the account does not point to.
Onboards == {"profile", "rollback"}
Holding  == {"path", "destroy"}

Unfinished(u) == u \in lost \/ Busy(u, Onboards)
Held(u)       == asset[u] \in leftover \/ \E q \in Requests : Holds(request[q], u)

RecordsOK ==
  /\ users \in [DOMAIN users -> User]
  /\ \A u \in DOMAIN users : users[u].avatar <= uploads
  /\ DOMAIN users \subseteq 1..born /\ born \in 0..MaxUsers
  /\ profiles \subseteq [user : UserIds, role : Roles, cnic : Cnics]
  /\ tokens \subseteq 1..born
  /\ doomed \in [UserIds -> Nat] /\ asset \in [UserIds -> 0..uploads] /\ uploads \in 0..MaxUploads
  /\ lost \subseteq 1..born /\ leftover \subseteq 0..uploads

\* A request that onboards owns the account it inserted, which has no profile yet.
RequestOK(q) ==
  /\ request[q].user <= born /\ request[q].path <= uploads
  /\ request[q].pc \in {"cnic", "create"} \cup Onboards =>
       request[q].identity \in Identities /\ request[q].role \in Roles /\ request[q].cnic \in Cnics
  /\ request[q].pc \in {"email", "link", "admin"} => request[q].identity \in Identities
  /\ request[q].pc \in {"link", "upload", "path", "unset", "destroy"} => request[q].user \in 1..born
  /\ request[q].pc = "path" => request[q].path # 0
  /\ request[q].pc \in Onboards =>
       /\ request[q].user \in DOMAIN users /\ users[request[q].user].role = request[q].role
       /\ ProfilesOf(request[q].user) = {}
       /\ \A r \in Requests \ {q} : request[r].pc \in Onboards => request[r].user # request[q].user

RequestsOK == request \in [Requests -> Request] /\ \A q \in Requests : RequestOK(q)

OneAccountEach ==
  \A u, v \in DOMAIN users : u # v =>
    /\ users[u].email # users[v].email
    /\ users[u].uid # users[v].uid \/ users[u].uid = NoOne

OneProfileEach ==
  /\ \A u \in DOMAIN users :
       \/ users[u].role = "admin" \/ Unfinished(u)
       \/ \E n \in Cnics : ProfilesOf(u) = {[user |-> u, role |-> users[u].role, cnic |-> n]}
  /\ \A p \in profiles : p.user \in DOMAIN users

\* An asset is of an account that was given its id, and when the account points to no
\* photo, a request that will point to it or destroy it is on its way, or was cut off.
AssetsOK ==
  \A u \in UserIds : asset[u] # 0 =>
    u \in 1..born /\ (u \in DOMAIN users /\ Avatar(u) = 0 => Held(u))

AccountsInv == RecordsOK /\ RequestsOK /\ OneAccountEach /\ OneProfileEach /\ AssetsOK

\* An account stays unfinished while the request that onboards it does, and when it
\* is cut off.
LEMMA UnfinishedKept ==
  ASSUME request \in [Requests -> Request], NEW q \in Requests, NEW x \in Request,
         request' = [request EXCEPT ![q] = x], lost \subseteq lost', NEW u, Unfinished(u),
         request[q].user = u /\ request[q].pc \in Onboards =>
           (x.user = u /\ x.pc \in Onboards) \/ u \in lost'
  PROVE  Unfinished(u)'
<1>1. request'[q] = x /\ \A r \in Requests \ {q} : request'[r] = request[r]
  OBVIOUS
<1>2. CASE u \in lost
  BY <1>2 DEF Unfinished
<1>3. CASE u \notin lost
  <2>1. PICK r \in Requests : request[r].user = u /\ request[r].pc \in Onboards
    BY <1>3 DEF Unfinished, Busy
  <2>2. CASE r = q
    BY <1>1, <2>1, <2>2 DEF Unfinished, Busy
  <2>3. CASE r # q
    BY <1>1, <2>1, <2>3 DEF Unfinished, Busy
  <2>q. QED
    BY <2>2, <2>3
<1>q. QED
  BY <1>2, <1>3

\* An asset stays held while its request does, and when it is left where it is.
LEMMA HeldKept ==
  ASSUME request \in [Requests -> Request], NEW q \in Requests, NEW x \in Request,
         request' = [request EXCEPT ![q] = x], leftover \subseteq leftover',
         NEW u, asset'[u] = asset[u], Held(u),
         Holds(request[q], u) => Holds(x, u) \/ asset[u] \in leftover'
  PROVE  Held(u)'
<1>1. request'[q] = x /\ \A r \in Requests \ {q} : request'[r] = request[r]
  OBVIOUS
<1>2. CASE asset[u] \in leftover \/ asset[u] \in leftover'
  BY <1>2 DEF Held
<1>3. CASE asset[u] \notin leftover /\ asset[u] \notin leftover'
  <2>1. PICK r \in Requests : Holds(request[r], u)
    BY <1>3 DEF Held
  <2>2. CASE r = q
    BY <1>1, <1>3, <2>1, <2>2 DEF Held, Holds
  <2>3. CASE r # q
    BY <1>1, <2>1, <2>3 DEF Held, Holds
  <2>q. QED
    BY <2>2, <2>3
<1>q. QED
  BY <1>2, <1>3

\* A request takes a step, or is cut off, and no document but its session changes.
LEMMA DocumentsKept ==
  ASSUME AccountsInv, NEW q \in Requests, NEW x \in Request, request' = [request EXCEPT ![q] = x],
         UNCHANGED <<users, profiles, born, asset, uploads, doomed>>,
         tokens' \subseteq 1..born, lost \subseteq lost', lost' \subseteq 1..born,
         leftover \subseteq leftover', leftover' \subseteq 0..uploads,
         x.user <= born /\ x.path <= uploads,
         x.pc \in {"cnic", "create"} =>
           x.identity \in Identities /\ x.role \in Roles /\ x.cnic \in Cnics,
         x.pc \in {"email", "link", "admin"} => x.identity \in Identities,
         x.pc \in {"link", "upload", "path", "unset", "destroy"} => x.user \in 1..born,
         x.pc # "path",
         x.pc \in Onboards => request[q].pc \in Onboards /\ x = [request[q] EXCEPT !.pc = x.pc],
         request[q].pc \in Onboards => x.pc \in Onboards \/ request[q].user \in lost',
         request[q].pc \in Holding =>
           \A v \in UserIds : asset[v] # 0 /\ Holds(request[q], v) => asset[v] \in leftover'
  PROVE  AccountsInv'
<1>u. UNCHANGED <<users, profiles, born, asset, uploads, doomed>>
  OBVIOUS
<1>0. /\ RecordsOK /\ request \in [Requests -> Request] /\ \A r \in Requests : RequestOK(r)
      /\ request'[q] = x /\ \A r \in Requests \ {q} : request'[r] = request[r]
  BY DEF AccountsInv, RequestsOK
<1>1. RecordsOK'
  BY <1>u, <1>0 DEF RecordsOK
<1>2. RequestsOK'
  <2>1. request' \in [Requests -> Request]
    BY <1>0
  <2>2. ASSUME NEW r \in Requests PROVE RequestOK(r)'
    <3>1. RequestOK(r) /\ RequestOK(q)
      BY <1>0
    <3>2. x.pc \in Onboards => x.user = request[q].user /\ x.role = request[q].role
                               /\ x.identity = request[q].identity /\ x.cnic = request[q].cnic
      BY <1>0 DEF Request
    <3>3. \A v \in UserIds : ProfilesOf(v)' = ProfilesOf(v)
      BY <1>u DEF ProfilesOf
    <3>4. CASE r = q
      BY <1>u, <1>0, <3>1, <3>2, <3>4 DEF RequestOK, ProfilesOf, Onboards
    <3>5. CASE r # q
      BY <1>u, <1>0, <3>1, <3>2, <3>5 DEF RequestOK, ProfilesOf
    <3>q. QED
      BY <3>4, <3>5
  <2>q. QED
    BY <2>1, <2>2 DEF RequestsOK
<1>3. OneAccountEach'
  BY <1>u DEF AccountsInv, OneAccountEach
<1>4. \A v \in UserIds : Unfinished(v) => Unfinished(v)'
  <2>1. x.pc \in Onboards => x.user = request[q].user
    BY <1>0 DEF Request
  <2>q. QED
    BY <1>0, <2>1, UnfinishedKept
<1>5. \A v \in UserIds : asset[v] # 0 /\ Held(v) => Held(v)'
  <2>1. ASSUME NEW v \in UserIds, asset[v] # 0, Held(v), Holds(request[q], v)
        PROVE  asset[v] \in leftover'
    BY <2>1 DEF Holds, Holding
  <2>q. QED
    BY <1>u, <1>0, <2>1, HeldKept
<1>6. DOMAIN users \subseteq UserIds
  BY <1>0, BoundAssumption DEF RecordsOK, UserIds
<1>7. OneProfileEach'
  BY <1>u, <1>4, <1>6 DEF AccountsInv, OneProfileEach, ProfilesOf
<1>8. AssetsOK'
  BY <1>u, <1>5 DEF AccountsInv, AssetsOK, Avatar
<1>q. QED
  BY <1>1, <1>2, <1>3, <1>7, <1>8 DEF AccountsInv

LEMMA NoRequestFacts ==
  /\ NoRequest \in Request /\ NoRequest.pc = "idle" /\ NoRequest.user = 0 /\ NoRequest.path = 0
  BY DEF NoRequest, Request, Steps

\* A request returns without having changed anything.
LEMMA ReturnStep ==
  ASSUME AccountsInv, NEW q \in Requests, Return(q), request[q].pc \notin Onboards \cup Holding,
         UNCHANGED <<recordVars, avatarVars, lost>>
  PROVE  AccountsInv'
<1>1. /\ tokens \subseteq 1..born /\ lost \subseteq 1..born /\ leftover \subseteq 0..uploads
      /\ born \in Nat /\ uploads \in Nat
  BY BoundAssumption DEF AccountsInv, RecordsOK
<1>2. 0 <= born /\ 0 <= uploads
  BY <1>1
<1>3. UNCHANGED <<users, profiles, born, tokens, asset, uploads, doomed, leftover, lost>>
  BY DEF recordVars, avatarVars
<1>q. QED
  BY <1>1, <1>2, <1>3, NoRequestFacts, DocumentsKept DEF Return, Onboards, Holding

\* What the steps of a request need to know.
LEMMA RequestFacts ==
  ASSUME AccountsInv, NEW q \in Requests
  PROVE  /\ request[q] \in Request /\ RequestOK(q)
         /\ tokens \subseteq 1..born /\ lost \subseteq 1..born /\ leftover \subseteq 0..uploads
         /\ born \in 0..MaxUsers /\ uploads \in Nat /\ DOMAIN users \subseteq 1..born
         /\ 1..born \subseteq UserIds
         /\ MaxUsers \in Nat /\ born \in Nat /\ 0 <= born /\ 0 <= uploads
<1>1. MaxUsers \in Nat /\ MaxUploads \in Nat
  BY BoundAssumption
<1>2. born \in 0..MaxUsers /\ uploads \in 0..MaxUploads
  BY DEF AccountsInv, RecordsOK
<1>3. born \in Nat /\ 0 <= born /\ uploads \in Nat /\ 0 <= uploads /\ 1..born \subseteq UserIds
  BY <1>1, <1>2 DEF UserIds
<1>q. QED
  BY <1>1, <1>2, <1>3 DEF AccountsInv, RecordsOK, RequestsOK

\* A new account has an id, an email and an identity of its own.
LEMMA InsertStep ==
  ASSUME AccountsInv, NEW q \in Requests, NEW i \in Identities, NEW r \in Roles \cup {"admin"},
         NEW x \in Request, request' = [request EXCEPT ![q] = x],
         Insertable(i), InsertUser(i, r), UNCHANGED <<profiles, avatarVars, lost>>,
         tokens' \subseteq 1..born', request[q].pc \notin Onboards \cup Holding,
         \/ x.pc = "idle" /\ x.user = 0 /\ r = "admin"
         \/ /\ x.pc = "profile" /\ x.user = born' /\ x.role = r /\ r \in Roles
            /\ x.identity \in Identities /\ x.cnic \in Cnics,
         x.path <= uploads
  PROVE  AccountsInv'
<1>u. UNCHANGED <<profiles, asset, uploads, doomed, leftover, lost>>
  BY DEF avatarVars
<1>0. /\ RecordsOK /\ request \in [Requests -> Request] /\ \A k \in Requests : RequestOK(k)
      /\ request'[q] = x /\ \A k \in Requests \ {q} : request'[k] = request[k]
  BY DEF AccountsInv, RequestsOK
<1>b. /\ born \in Nat /\ MaxUsers \in Nat /\ born' = born + 1 /\ born' \in 0..MaxUsers /\ uploads \in Nat
      /\ born' \notin 1..born /\ born' \in 1..born' /\ 1..born \subseteq 1..born' /\ 1..born' \subseteq UserIds
      /\ 0 <= born' /\ 0 <= uploads
  <2>1. born \in 0..MaxUsers /\ MaxUsers \in Nat /\ born < MaxUsers /\ born' = born + 1
        /\ uploads \in 0..MaxUploads /\ MaxUploads \in Nat
    BY <1>0, BoundAssumption DEF RecordsOK, InsertUser
  <2>q. QED
    BY <2>1 DEF UserIds
<1>c. /\ DOMAIN users' = DOMAIN users \cup {born'} /\ born' \notin DOMAIN users
      /\ users'[born'] = [email |-> EmailOf[i], uid |-> i, role |-> r, avatar |-> 0]
      /\ \A u \in DOMAIN users : users'[u] = users[u]
      /\ users' = [u \in DOMAIN users' |-> users'[u]]
  BY <1>0, <1>b DEF InsertUser, RecordsOK
<1>d. ProfilesOf(born') = {}
  <2>1. \A p \in profiles : p.user \in DOMAIN users
    BY DEF AccountsInv, OneProfileEach
  <2>q. QED
    BY <1>c, <2>1 DEF ProfilesOf
<1>1. RecordsOK'
  <2>1. users' \in [DOMAIN users' -> User]
    <3>1. users'[born'] \in User
      BY <1>c DEF User, Emails
    <3>2. \A u \in DOMAIN users' : users'[u] \in User
      BY <1>0, <1>c, <3>1 DEF RecordsOK
    <3>q. QED
      BY <1>c, <3>2
  <2>2. \A u \in DOMAIN users' : users'[u].avatar <= uploads
    BY <1>0, <1>b, <1>c DEF RecordsOK
  <2>3. DOMAIN users' \subseteq 1..born' /\ lost \subseteq 1..born'
    BY <1>0, <1>b, <1>c DEF RecordsOK
  <2>q. QED
    BY <1>0, <1>u, <1>b, <2>1, <2>2, <2>3 DEF RecordsOK
<1>2. RequestsOK'
  <2>1. request' \in [Requests -> Request]
    BY <1>0
  <2>2. ASSUME NEW k \in Requests \ {q} PROVE RequestOK(k)'
    <3>1. RequestOK(k) /\ request'[k] = request[k] /\ request[k].user \in Nat
      BY <1>0 DEF Request
    <3>2. request[k].pc \in Onboards => request[k].user \in DOMAIN users
      BY <3>1 DEF RequestOK
    <3>3. request[k].pc \in Onboards =>
            \A l \in Requests \ {k} : request'[l].pc \in Onboards => request'[l].user # request[k].user
      <4>1. SUFFICES ASSUME request[k].pc \in Onboards, NEW l \in Requests \ {k}, request'[l].pc \in Onboards
                     PROVE  request'[l].user # request[k].user
        OBVIOUS
      <4>2. CASE l = q
        BY <1>0, <1>c, <3>2, <4>1, <4>2 DEF Onboards
      <4>3. CASE l # q
        BY <1>0, <3>1, <4>1, <4>3 DEF RequestOK
      <4>q. QED
        BY <4>2, <4>3
    <3>4. request[k].user <= born'
      BY <1>b, <3>1 DEF RequestOK
    <3>5. ProfilesOf(request[k].user)' = ProfilesOf(request[k].user)
      BY <1>u, <3>1 DEF ProfilesOf
    <3>q. QED
      BY <1>u, <1>b, <1>c, <3>1, <3>2, <3>3, <3>4, <3>5 DEF RequestOK
  <2>3. RequestOK(q)'
    <3>1. x.user <= born' /\ x.path <= uploads
      BY <1>b
    <3>2. CASE x.pc = "idle"
      BY <1>u, <1>0, <3>1, <3>2 DEF RequestOK, Onboards
    <3>3. CASE x.pc = "profile" /\ x.user = born' /\ x.role = r
      <4>1. \A l \in Requests \ {q} : request'[l].pc \in Onboards => request'[l].user # born'
        BY <1>0, <1>c DEF RequestOK
      <4>2. ProfilesOf(x.user)' = {}
        BY <1>u, <1>d, <3>3 DEF ProfilesOf
      <4>q. QED
        BY <1>u, <1>0, <1>b, <1>c, <3>1, <3>3, <4>1, <4>2 DEF RequestOK, Onboards
    <3>q. QED
      BY <3>2, <3>3
  <2>q. QED
    BY <2>1, <2>2, <2>3 DEF RequestsOK
<1>3. OneAccountEach'
  <2>1. \A u \in DOMAIN users : users[u].email # EmailOf[i] /\ users[u].uid # i
    BY DEF Insertable, HasUid, HasEmail
  <2>2. i # NoOne
    BY NoOneAssumption
  <2>3. users'[born'].email = EmailOf[i] /\ users'[born'].uid = i
    BY <1>c
  <2>q. QED
    BY <1>c, <2>1, <2>2, <2>3 DEF AccountsInv, OneAccountEach
<1>4. OneProfileEach'
  <2>1. \A u \in DOMAIN users : Unfinished(u) => Unfinished(u)'
    BY <1>0, <1>u, UnfinishedKept
  <2>b. PICK b \in UserIds : b = born'
    BY <1>b
  <2>2. r = "admin" \/ Unfinished(b)'
    BY <1>0, <2>b DEF Unfinished, Busy, Onboards
  <2>3. users'[b].role = r
    BY <1>c, <2>b
  <2>4. \A u \in DOMAIN users : ProfilesOf(u)' = ProfilesOf(u)
    BY <1>u DEF ProfilesOf
  <2>5. \A u \in DOMAIN users' : users'[u].role = "admin" \/ Unfinished(u)'
          \/ \E n \in Cnics : ProfilesOf(u)' = {[user |-> u, role |-> users'[u].role, cnic |-> n]}
    <3>1. ASSUME NEW u \in DOMAIN users', u # b
          PROVE  users'[u].role = "admin" \/ Unfinished(u)'
                 \/ \E n \in Cnics : ProfilesOf(u)' = {[user |-> u, role |-> users'[u].role, cnic |-> n]}
      <4>1. u \in DOMAIN users /\ users'[u] = users[u]
        BY <1>c, <2>b, <3>1
      <4>q. QED
        BY <2>1, <2>4, <4>1 DEF AccountsInv, OneProfileEach
    <3>2. users'[b].role = "admin" \/ Unfinished(b)'
      BY <2>2, <2>3
    <3>q. QED
      BY <3>1, <3>2
  <2>6. \A p \in profiles' : p.user \in DOMAIN users'
    BY <1>u, <1>c DEF AccountsInv, OneProfileEach
  <2>q. QED
    BY <2>5, <2>6 DEF OneProfileEach
<1>5. AssetsOK'
  <2>1. \A u \in UserIds : Held(u) => Held(u)'
    BY <1>0, <1>u, HeldKept DEF Holds, Holding
  <2>2. \A u \in UserIds : asset[u] # 0 => u # born'
    BY <1>b DEF AccountsInv, AssetsOK
  <2>3. \A u \in DOMAIN users : Avatar(u)' = Avatar(u)
    BY <1>c DEF Avatar
  <2>q. QED
    BY <1>u, <1>b, <1>c, <2>1, <2>2, <2>3 DEF AccountsInv, AssetsOK
<1>q. QED
  BY <1>1, <1>2, <1>3, <1>4, <1>5 DEF AccountsInv

LEMMA BeginOnboardingStep ==
  ASSUME AccountsInv, NEW q \in Requests, NEW i \in Identities, NEW r \in Roles, NEW n \in Cnics,
         BeginOnboarding(q, i, r, n)
  PROVE  AccountsInv'
<1> DEFINE x == [NoRequest EXCEPT !.pc = "cnic", !.identity = i, !.role = r, !.cnic = n]
<1>1. x \in Request /\ x.pc = "cnic" /\ x.identity = i /\ x.role = r /\ x.cnic = n
      /\ x.user = 0 /\ x.path = 0
  BY DEF NoRequest, Request, Steps
<1>2. request' = [request EXCEPT ![q] = x] /\ request[q].pc = "idle"
      /\ UNCHANGED <<users, profiles, born, tokens, asset, uploads, doomed, leftover, lost>>
  BY DEF BeginOnboarding, At, recordVars, avatarVars
<1> HIDE DEF x
<1>q. QED
  BY <1>1, <1>2, RequestFacts, DocumentsKept DEF Onboards, Holding

LEMMA CheckCnicStep == ASSUME AccountsInv, NEW q \in Requests, CheckCnic(q) PROVE AccountsInv'
<1>0. request[q].pc = "cnic" /\ UNCHANGED <<recordVars, avatarVars, lost>>
  BY DEF CheckCnic, At
<1>1. CASE Return(q)
  BY <1>0, <1>1, ReturnStep DEF Onboards, Holding
<1>2. CASE Goto(q, "create")
  <2> DEFINE x == [request[q] EXCEPT !.pc = "create"]
  <2>1. request[q] \in Request
    BY DEF AccountsInv, RequestsOK
  <2>2. x \in Request /\ x.pc = "create" /\ x.identity = request[q].identity /\ x.role = request[q].role
        /\ x.cnic = request[q].cnic /\ x.user = request[q].user /\ x.path = request[q].path
    BY <2>1 DEF Request, Steps
  <2>3. request' = [request EXCEPT ![q] = x]
        /\ UNCHANGED <<users, profiles, born, tokens, asset, uploads, doomed, leftover, lost>>
    BY <1>0, <1>2, <2>1 DEF Goto, recordVars, Request, avatarVars
  <2> HIDE DEF x
  <2>4. x.user <= born /\ x.path <= uploads
        /\ x.identity \in Identities /\ x.role \in Roles /\ x.cnic \in Cnics
    BY <1>0, <2>1, <2>2, RequestFacts DEF RequestOK
  <2>q. QED
    BY <1>0, <2>1, <2>2, <2>3, <2>4, RequestFacts, DocumentsKept DEF Onboards, Holding
<1>q. QED
  BY <1>1, <1>2 DEF CheckCnic

LEMMA CreateFirebaseUserStep ==
  ASSUME AccountsInv, NEW q \in Requests, CreateFirebaseUser(q) PROVE AccountsInv'
<1>0. request[q].pc = "create" /\ UNCHANGED <<profiles, tokens, avatarVars, lost>>
  BY DEF CreateFirebaseUser, At
<1>1. CASE Return(q) /\ UNCHANGED <<users, born>>
  BY <1>0, <1>1, ReturnStep DEF Onboards, Holding, recordVars
<1>2. CASE /\ Insertable(request[q].identity) /\ InsertUser(request[q].identity, request[q].role)
           /\ request' = [request EXCEPT ![q].pc = "profile", ![q].user = born']
  <2>1. /\ request[q] \in Request /\ request[q].path <= uploads /\ tokens \subseteq 1..born
        /\ request[q].identity \in Identities /\ request[q].role \in Roles /\ request[q].cnic \in Cnics
        /\ born \in Nat /\ born' = born + 1
    BY <1>0, <1>2, RequestFacts DEF RequestOK, InsertUser
  <2>2. PICK b \in Nat : b = born'
    BY <2>1
  <2> DEFINE x == [request[q] EXCEPT !.pc = "profile", !.user = b]
  <2>3. x \in Request /\ x.pc = "profile" /\ x.user = b /\ x.identity = request[q].identity
        /\ x.role = request[q].role /\ x.cnic = request[q].cnic /\ x.path = request[q].path
    BY <2>1 DEF Request, Steps
  <2>4. request' = [request EXCEPT ![q] = x]
    BY <1>2, <2>1, <2>2 DEF Request
  <2> HIDE DEF x
  <2>5. tokens' \subseteq 1..born'
    BY <1>0, <2>1
  <2>6. request[q].pc \notin Onboards \cup Holding
    BY <1>0 DEF Onboards, Holding
  <2>7. /\ Insertable(request[q].identity) /\ InsertUser(request[q].identity, request[q].role)
        /\ UNCHANGED <<profiles, avatarVars, lost>> /\ request[q].role \in Roles \cup {"admin"}
        /\ x.user = born' /\ x.identity \in Identities /\ x.cnic \in Cnics /\ x.path <= uploads
    BY <1>0, <1>2, <2>1, <2>2, <2>3
  <2>q. QED
    BY <2>1, <2>3, <2>4, <2>5, <2>6, <2>7, InsertStep
<1>q. QED
  BY <1>1, <1>2 DEF CreateFirebaseUser

\* The profile of a new account is its only one.
LEMMA CreateProfileStep == ASSUME AccountsInv, NEW q \in Requests, CreateProfile(q) PROVE AccountsInv'
<1>0. request[q].pc = "profile" /\ UNCHANGED <<users, born, avatarVars, lost>>
  BY DEF CreateProfile, At
<1>1. /\ RecordsOK /\ request \in [Requests -> Request] /\ \A k \in Requests : RequestOK(k)
      /\ request[q] \in Request
  BY DEF AccountsInv, RequestsOK
<1>2. /\ request[q].user \in DOMAIN users /\ users[request[q].user].role = request[q].role
      /\ request[q].role \in Roles /\ request[q].cnic \in Cnics
      /\ ProfilesOf(request[q].user) = {} /\ request[q].user \in 1..born /\ request[q].user \in UserIds
      /\ \A k \in Requests \ {q} : request[k].pc \in Onboards => request[k].user # request[q].user
      /\ tokens \subseteq 1..born /\ 0 <= born /\ 0 <= uploads
  <2>1. RequestOK(q) /\ request[q].pc \in Onboards
    BY <1>0, <1>1 DEF Onboards
  <2>2. /\ tokens \subseteq 1..born /\ 0 <= born /\ 0 <= uploads
        /\ DOMAIN users \subseteq 1..born /\ 1..born \subseteq UserIds
    BY RequestFacts
  <2>3. /\ request[q].user \in DOMAIN users /\ users[request[q].user].role = request[q].role
        /\ request[q].role \in Roles /\ request[q].cnic \in Cnics
        /\ ProfilesOf(request[q].user) = {}
        /\ \A k \in Requests \ {q} : request[k].pc \in Onboards => request[k].user # request[q].user
    BY <2>1 DEF RequestOK
  <2>q. QED
    BY <2>2, <2>3
<1>3. CASE Goto(q, "rollback") /\ UNCHANGED <<profiles, tokens>>
  <2> DEFINE x == [request[q] EXCEPT !.pc = "rollback"]
  <2>2. x \in Request /\ x.pc = "rollback" /\ x.user = request[q].user /\ x.path = request[q].path
        /\ x = [request[q] EXCEPT !.pc = x.pc]
    BY <1>1 DEF Request, Steps
  <2>3. request' = [request EXCEPT ![q] = x]
        /\ UNCHANGED <<users, profiles, born, tokens, asset, uploads, doomed, leftover, lost>>
    BY <1>0, <1>1, <1>3 DEF Goto, recordVars, Request, avatarVars
  <2> HIDE DEF x
  <2>4. x.user <= born /\ x.path <= uploads
    BY <1>1, <2>2 DEF RequestOK
  <2>q. QED
    BY <1>0, <1>1, <2>2, <2>3, <2>4, RequestFacts, DocumentsKept DEF Onboards, Holding
<1>4. CASE /\ profiles' = profiles \cup {Profile(q)} /\ tokens' = tokens \cup {request[q].user}
           /\ Return(q)
  <2>0. UNCHANGED <<users, born, asset, uploads, doomed, leftover, lost>>
    BY <1>0 DEF avatarVars
  <2>1. /\ request'[q].pc = "idle" /\ request'[q].user = 0 /\ request'[q].path = 0
        /\ request' \in [Requests -> Request] /\ \A k \in Requests \ {q} : request'[k] = request[k]
        /\ request' = [request EXCEPT ![q] = NoRequest]
    BY <1>1, <1>4, NoRequestFacts DEF Return
  <2>2. Profile(q) \in [user : UserIds, role : Roles, cnic : Cnics] /\ Profile(q).user = request[q].user
    BY <1>2 DEF Profile
  <2>3. RecordsOK'
    BY <1>1, <1>2, <1>4, <2>0, <2>2 DEF RecordsOK
  <2>4. \A v \in UserIds \ {request[q].user} : ProfilesOf(v)' = ProfilesOf(v)
    BY <1>4, <2>2 DEF ProfilesOf
  <2>5. RequestsOK'
    <3>1. RequestOK(q)'
      BY <1>2, <2>0, <2>1 DEF RequestOK, Onboards
    <3>2. ASSUME NEW k \in Requests \ {q} PROVE RequestOK(k)'
      <4>1. RequestOK(k) /\ request'[k] = request[k]
        BY <1>1, <2>1
      <4>2. CASE request[k].pc \notin Onboards
        BY <2>0, <4>1, <4>2 DEF RequestOK
      <4>3. CASE request[k].pc \in Onboards
        <5>1. request[k].user \in UserIds \ {request[q].user}
          BY <1>1, <1>2, <4>1, <4>3, RequestFacts DEF RequestOK, RecordsOK, UserIds
        <5>2. ProfilesOf(request[k].user)' = ProfilesOf(request[k].user)
          BY <2>4, <4>1, <5>1
        <5>3. \A l \in Requests \ {k} : request'[l].pc \in Onboards => request'[l].user # request[k].user
          BY <2>1, <4>1, <4>3 DEF RequestOK, Onboards
        <5>q. QED
          BY <2>0, <4>1, <4>3, <5>2, <5>3 DEF RequestOK
      <4>q. QED
        BY <4>2, <4>3
    <3>q. QED
      BY <2>1, <3>1, <3>2 DEF RequestsOK
  <2>6. OneAccountEach'
    BY <2>0 DEF AccountsInv, OneAccountEach
  <2>7. OneProfileEach'
    <3>1. ASSUME NEW u \in DOMAIN users
          PROVE  users[u].role = "admin" \/ Unfinished(u)'
                 \/ \E n \in Cnics : ProfilesOf(u)' = {[user |-> u, role |-> users[u].role, cnic |-> n]}
      <4>0. u \in UserIds
        BY <1>1, RequestFacts DEF RecordsOK, UserIds
      <4>1. CASE u = request[q].user
        <5>1. ProfilesOf(u)' = {Profile(q)}
          <6>1. PICK v \in UserIds : v = request[q].user
            BY <1>2
          <6>2. ProfilesOf(v)' = {Profile(q)}
            BY <1>2, <1>4, <2>2, <6>1 DEF ProfilesOf
          <6>q. QED
            BY <4>1, <6>1, <6>2
        <5>q. QED
          BY <1>2, <4>1, <5>1 DEF Profile
      <4>2. CASE u # request[q].user
        <5>1. Unfinished(u) => Unfinished(u)'
          BY <1>1, <2>0, <2>1, <4>2, NoRequestFacts, UnfinishedKept
        <5>q. QED
          BY <2>4, <4>0, <4>2, <5>1 DEF AccountsInv, OneProfileEach
      <4>q. QED
        BY <4>1, <4>2
    <3>2. \A p \in profiles' : p.user \in DOMAIN users
      BY <1>2, <1>4, <2>2 DEF AccountsInv, OneProfileEach
    <3>q. QED
      BY <2>0, <3>1, <3>2 DEF OneProfileEach
  <2>8. AssetsOK'
    <3>1. \A v \in UserIds : Held(v) => Held(v)'
      BY <1>0, <1>1, <2>0, <2>1, NoRequestFacts, HeldKept DEF Holding, Holds
    <3>q. QED
      BY <2>0, <3>1 DEF AccountsInv, AssetsOK, Avatar
  <2>q. QED
    BY <2>3, <2>5, <2>6, <2>7, <2>8 DEF AccountsInv
<1>q. QED
  BY <1>3, <1>4 DEF CreateProfile

\* Only the request that inserted an account takes it away, before it has a profile.
LEMMA RollbackStep == ASSUME AccountsInv, NEW q \in Requests, Rollback(q) PROVE AccountsInv'
<1>0. /\ request[q].pc = "rollback" /\ Return(q)
      /\ users' = [u \in DOMAIN users \ {request[q].user} |-> users[u]]
      /\ UNCHANGED <<profiles, born, tokens, asset, uploads, doomed, leftover, lost>>
  BY DEF Rollback, At, avatarVars
<1>1. /\ RecordsOK /\ request \in [Requests -> Request] /\ \A k \in Requests : RequestOK(k)
      /\ request[q] \in Request
  BY DEF AccountsInv, RequestsOK
<1>2. /\ request[q].user \in DOMAIN users /\ ProfilesOf(request[q].user) = {}
      /\ \A k \in Requests \ {q} : request[k].pc \in Onboards => request[k].user # request[q].user
      /\ 0 <= born /\ 0 <= uploads
  BY <1>0, <1>1, RequestFacts DEF RequestOK, Onboards
<1>3. /\ DOMAIN users' = DOMAIN users \ {request[q].user}
      /\ \A u \in DOMAIN users' : users'[u] = users[u]
  BY <1>0
<1>4. /\ request'[q].pc = "idle" /\ request'[q].user = 0 /\ request'[q].path = 0
      /\ request' \in [Requests -> Request] /\ \A k \in Requests \ {q} : request'[k] = request[k]
      /\ request' = [request EXCEPT ![q] = NoRequest]
  BY <1>0, <1>1, NoRequestFacts DEF Return
<1>5. RecordsOK'
  <2>1. users' \in [DOMAIN users' -> User]
    BY <1>0, <1>1 DEF RecordsOK
  <2>q. QED
    BY <1>0, <1>1, <1>3, <2>1 DEF RecordsOK
<1>6. \A v \in UserIds : ProfilesOf(v)' = ProfilesOf(v)
  BY <1>0 DEF ProfilesOf
<1>i. DOMAIN users \subseteq UserIds
  BY <1>1, RequestFacts DEF RecordsOK, UserIds
<1>7. RequestsOK'
  <2>1. RequestOK(q)'
    BY <1>0, <1>2, <1>4 DEF RequestOK, Onboards
  <2>2. ASSUME NEW k \in Requests \ {q} PROVE RequestOK(k)'
    <3>1. RequestOK(k) /\ request'[k] = request[k]
      BY <1>1, <1>4
    <3>2. CASE request[k].pc \notin Onboards
      BY <1>0, <3>1, <3>2 DEF RequestOK
    <3>3. CASE request[k].pc \in Onboards
      <4>1. request[k].user \in DOMAIN users' /\ users'[request[k].user] = users[request[k].user]
            /\ request[k].user \in UserIds
        BY <1>2, <1>3, <1>i, <3>1, <3>3 DEF RequestOK
      <4>2. ProfilesOf(request[k].user)' = ProfilesOf(request[k].user)
        BY <1>6, <3>1, <4>1
      <4>3. \A l \in Requests \ {k} : request'[l].pc \in Onboards => request'[l].user # request[k].user
        BY <1>4, <3>1, <3>3 DEF RequestOK, Onboards
      <4>q. QED
        BY <1>0, <3>1, <3>3, <4>1, <4>2, <4>3 DEF RequestOK
    <3>q. QED
      BY <3>2, <3>3
  <2>q. QED
    BY <1>4, <2>1, <2>2 DEF RequestsOK
<1>8. OneAccountEach'
  BY <1>3 DEF AccountsInv, OneAccountEach
<1>9. OneProfileEach'
  <2>1. \A u \in DOMAIN users' : Unfinished(u) => Unfinished(u)'
    BY <1>0, <1>1, <1>3, <1>4, NoRequestFacts, UnfinishedKept
  <2>2. \A p \in profiles : p.user # request[q].user
    BY <1>2 DEF ProfilesOf
  <2>q. QED
    BY <1>0, <1>3, <1>6, <1>i, <2>1, <2>2 DEF AccountsInv, OneProfileEach
<1>10. AssetsOK'
  <2>1. \A v \in UserIds : Held(v) => Held(v)'
    BY <1>0, <1>1, <1>4, NoRequestFacts, HeldKept DEF Holding, Holds
  <2>q. QED
    BY <1>0, <1>3, <2>1 DEF AccountsInv, AssetsOK, Avatar
<1>q. QED
  BY <1>5, <1>7, <1>8, <1>9, <1>10 DEF AccountsInv

\* A session is issued, or a step of the sign-in is taken.
LEMMA SignInStep == ASSUME AccountsInv, NEW q \in Requests, NEW i \in Identities, SignIn(q, i) PROVE AccountsInv'
<1>0. request[q].pc = "idle"
      /\ UNCHANGED <<users, profiles, born, asset, uploads, doomed, leftover, lost>>
  BY DEF SignIn, At, avatarVars
<1>1. CASE (\E u \in DOMAIN users : tokens' = tokens \cup {u}) /\ UNCHANGED request
  <2>1. request' = [request EXCEPT ![q] = request[q]]
    BY <1>1 DEF AccountsInv, RequestsOK
  <2>2. tokens' \subseteq 1..born
    BY <1>1, RequestFacts
  <2>3. request[q].user <= born /\ request[q].path <= uploads
    BY RequestFacts DEF RequestOK
  <2>q. QED
    BY <1>0, <2>1, <2>2, <2>3, RequestFacts, DocumentsKept DEF Onboards, Holding
<1>2. CASE UNCHANGED tokens /\ request' = [request EXCEPT ![q] = [NoRequest EXCEPT !.pc = "email", !.identity = i]]
  <2> DEFINE x == [NoRequest EXCEPT !.pc = "email", !.identity = i]
  <2>1. x \in Request /\ x.pc = "email" /\ x.identity = i /\ x.user = 0 /\ x.path = 0
    BY DEF NoRequest, Request, Steps
  <2>2. request' = [request EXCEPT ![q] = x]
    BY <1>2
  <2> HIDE DEF x
  <2>3. /\ x.user <= born /\ x.path <= uploads
        /\ tokens' \subseteq 1..born /\ lost \subseteq 1..born /\ leftover \subseteq 0..uploads
    BY <1>2, <2>1, RequestFacts
  <2>q. QED
    BY <1>0, <1>2, <2>1, <2>2, <2>3, DocumentsKept DEF Onboards, Holding
<1>q. QED
  BY <1>1, <1>2 DEF SignIn

LEMMA FindByEmailStep == ASSUME AccountsInv, NEW q \in Requests, FindByEmail(q) PROVE AccountsInv'
<1>0. request[q].pc = "email" /\ UNCHANGED <<recordVars, avatarVars, lost>>
  BY DEF FindByEmail, At
<1>u. UNCHANGED <<users, profiles, born, tokens, asset, uploads, doomed, leftover, lost>>
  BY <1>0 DEF recordVars, avatarVars
<1>i. request[q] \in Request /\ request[q].identity \in Identities
      /\ request[q].user <= born /\ request[q].path <= uploads
  BY <1>0, RequestFacts DEF RequestOK
<1>1. CASE Return(q)
  BY <1>0, <1>1, ReturnStep DEF Onboards, Holding
<1>2. ASSUME NEW u \in DOMAIN users, request' = [request EXCEPT ![q].pc = "link", ![q].user = u]
      PROVE  AccountsInv'
  <2>0. u \in 1..born /\ u \in Nat /\ u <= born
    BY RequestFacts
  <2> DEFINE x == [request[q] EXCEPT !.pc = "link", !.user = u]
  <2>1. x \in Request /\ x.pc = "link" /\ x.user = u /\ x.identity = request[q].identity
        /\ x.path = request[q].path
    BY <1>i, <2>0 DEF Request, Steps
  <2>2. request' = [request EXCEPT ![q] = x]
    BY <1>i, <1>2 DEF Request
  <2> HIDE DEF x
  <2>q. QED
    BY <1>0, <1>u, <1>i, <2>0, <2>1, <2>2, RequestFacts, DocumentsKept DEF Onboards, Holding
<1>3. CASE Goto(q, "admin")
  <2> DEFINE x == [request[q] EXCEPT !.pc = "admin"]
  <2>1. x \in Request /\ x.pc = "admin" /\ x.user = request[q].user /\ x.identity = request[q].identity
        /\ x.path = request[q].path
    BY <1>i DEF Request, Steps
  <2>2. request' = [request EXCEPT ![q] = x]
    BY <1>i, <1>3 DEF Request, Goto
  <2> HIDE DEF x
  <2>q. QED
    BY <1>0, <1>u, <1>i, <2>1, <2>2, RequestFacts, DocumentsKept DEF Onboards, Holding
<1>q. QED
  BY <1>1, <1>2, <1>3 DEF FindByEmail

LEMMA CreateAdminStep == ASSUME AccountsInv, NEW q \in Requests, CreateAdmin(q) PROVE AccountsInv'
<1>0. request[q].pc = "admin" /\ Return(q) /\ UNCHANGED <<profiles, avatarVars, lost>>
  BY DEF CreateAdmin, At
<1>1. CASE UNCHANGED <<users, born, tokens>>
  BY <1>0, <1>1, ReturnStep DEF Onboards, Holding, recordVars
<1>2. CASE /\ Insertable(request[q].identity) /\ InsertUser(request[q].identity, "admin")
           /\ tokens' = tokens \cup {born'}
  <2>1. request[q].identity \in Identities /\ tokens \subseteq 1..born /\ born \in Nat /\ born' = born + 1
        /\ 0 <= uploads
    BY <1>0, <1>2, RequestFacts DEF RequestOK, InsertUser
  <2>2. tokens' \subseteq 1..born'
    BY <1>2, <2>1
  <2>q. QED
    BY <1>0, <1>2, <2>1, <2>2, NoRequestFacts, InsertStep DEF Onboards, Holding, Return
<1>q. QED
  BY <1>1, <1>2 DEF CreateAdmin

\* An account is changed, or its asset; whose onboarding is not concerned.
LEMMA AccountChanged ==
  ASSUME AccountsInv, NEW q \in Requests, NEW x \in Request, request' = [request EXCEPT ![q] = x],
         DOMAIN users' = DOMAIN users, users' \in [DOMAIN users -> User],
         \A u \in DOMAIN users : users'[u].role = users[u].role /\ users'[u].avatar <= uploads',
         UNCHANGED <<profiles, born, lost>>,
         tokens' \subseteq 1..born, uploads <= uploads', uploads' \in 0..MaxUploads,
         asset' \in [UserIds -> 0..uploads'], doomed' \in [UserIds -> Nat],
         leftover' \subseteq 0..uploads', OneAccountEach', AssetsOK',
         request[q].pc \notin Onboards, x.pc \in {"idle", "path", "destroy"},
         x.user <= born, x.path <= uploads', x.pc # "idle" => x.user \in 1..born,
         x.pc = "path" => x.path # 0
  PROVE  AccountsInv'
<1>0. /\ RecordsOK /\ request \in [Requests -> Request] /\ \A k \in Requests : RequestOK(k)
      /\ request'[q] = x /\ \A k \in Requests \ {q} : request'[k] = request[k]
      /\ UNCHANGED <<profiles, born, lost>> /\ DOMAIN users \subseteq UserIds
  BY RequestFacts DEF AccountsInv, RequestsOK
<1>1. RecordsOK'
  BY <1>0 DEF RecordsOK
<1>2. RequestsOK'
  <2>1. RequestOK(q)'
    BY <1>0 DEF RequestOK, Onboards
  <2>2. ASSUME NEW k \in Requests \ {q} PROVE RequestOK(k)'
    <3>1. RequestOK(k) /\ request'[k] = request[k]
      BY <1>0
    <3>2. request[k].path <= uploads'
      <4>1. request[k].path \in Nat /\ uploads \in Nat /\ uploads' \in Nat /\ request[k].path <= uploads
        BY <1>0, <3>1, RequestFacts, BoundAssumption DEF Request, RequestOK
      <4>q. QED
        BY <4>1
    <3>3. CASE request[k].pc \notin Onboards
      BY <1>0, <3>1, <3>2, <3>3 DEF RequestOK
    <3>4. CASE request[k].pc \in Onboards
      <4>1. \A l \in Requests \ {k} : request'[l].pc \in Onboards => request'[l].user # request[k].user
        BY <1>0, <3>1, <3>4 DEF RequestOK, Onboards
      <4>2. ProfilesOf(request[k].user)' = ProfilesOf(request[k].user)
        BY <1>0, <3>1 DEF ProfilesOf
      <4>q. QED
        BY <1>0, <3>1, <3>2, <3>4, <4>1, <4>2 DEF RequestOK
    <3>q. QED
      BY <3>3, <3>4
  <2>q. QED
    BY <1>0, <2>1, <2>2 DEF RequestsOK
<1>3. OneProfileEach'
  <2>1. \A u \in DOMAIN users : Unfinished(u) => Unfinished(u)'
    BY <1>0, UnfinishedKept
  <2>2. \A u \in DOMAIN users : ProfilesOf(u)' = ProfilesOf(u)
    BY <1>0 DEF ProfilesOf
  <2>q. QED
    BY <1>0, <2>1, <2>2 DEF AccountsInv, OneProfileEach
<1>q. QED
  BY <1>1, <1>2, <1>3 DEF AccountsInv

\* An identity is linked to one account.
LEMMA LinkStep == ASSUME AccountsInv, NEW q \in Requests, Link(q) PROVE AccountsInv'
<1>0. request[q].pc = "link" /\ Return(q) /\ UNCHANGED <<profiles, born, avatarVars, lost>>
  BY DEF Link, At
<1>1. CASE UNCHANGED <<users, tokens>>
  BY <1>0, <1>1, ReturnStep DEF Onboards, Holding, recordVars
<1>2. ASSUME NEW u, u = request[q].user, u \in DOMAIN users,
             \A v \in DOMAIN users \ {u} : users[v].uid # request[q].identity,
             users' = [users EXCEPT ![u].uid = request[q].identity], tokens' = tokens \cup {u}
      PROVE  AccountsInv'
  <2>1. /\ request[q].identity \in Identities /\ RecordsOK /\ 0 <= born /\ 0 <= uploads
        /\ DOMAIN users \subseteq UserIds /\ request \in [Requests -> Request]
        /\ uploads \in Nat
    BY <1>0, RequestFacts DEF AccountsInv, RequestOK, RequestsOK
  <2>2. UNCHANGED <<asset, uploads, doomed, leftover, lost>>
    BY <1>0 DEF avatarVars
  <2>3. /\ DOMAIN users' = DOMAIN users
        /\ \A v \in DOMAIN users \ {u} : users'[v] = users[v]
        /\ users'[u] = [users[u] EXCEPT !.uid = request[q].identity] /\ users[u] \in User
    BY <1>2, <2>1 DEF RecordsOK
  <2>4. /\ users'[u].uid = request[q].identity /\ users'[u].email = users[u].email
        /\ users'[u].role = users[u].role /\ users'[u].avatar = users[u].avatar /\ users'[u] \in User
    BY <2>1, <2>3 DEF User
  <2>5. users' \in [DOMAIN users -> User]
    BY <1>2, <2>1, <2>3, <2>4 DEF RecordsOK
  <2>6. \A v \in DOMAIN users : users'[v].role = users[v].role /\ users'[v].avatar = users[v].avatar
                                /\ users'[v].email = users[v].email
    BY <2>3, <2>4
  <2>7. \A v \in DOMAIN users : users'[v].avatar <= uploads'
    BY <2>1, <2>2, <2>6 DEF RecordsOK
  <2>8. OneAccountEach'
    BY <1>2, <2>3, <2>4, <2>6 DEF AccountsInv, OneAccountEach
  <2>9. AssetsOK'
    <3>1. \A v \in UserIds : Held(v) => Held(v)'
      BY <1>0, <2>1, <2>2, NoRequestFacts, HeldKept DEF Holding, Holds, Return
    <3>q. QED
      BY <1>0, <2>2, <2>3, <2>6, <3>1 DEF AccountsInv, AssetsOK, Avatar
  <2>10. tokens' \subseteq 1..born
    BY <1>2, RequestFacts
  <2>11. /\ uploads <= uploads' /\ uploads' \in 0..MaxUploads /\ leftover' \subseteq 0..uploads'
         /\ asset' \in [UserIds -> 0..uploads'] /\ doomed' \in [UserIds -> Nat]
    BY <2>1, <2>2 DEF RecordsOK
  <2>12. 0 <= uploads'
    BY <2>1, <2>2
  <2>q. QED
    BY <1>0, <2>1, <2>3, <2>5, <2>6, <2>7, <2>8, <2>9, <2>10, <2>11, <2>12, NoRequestFacts, AccountChanged
       DEF Return, Onboards
<1>q. QED
  BY <1>1, <1>2 DEF Link

LEMMA SetAvatarStep == ASSUME AccountsInv, NEW q \in Requests, NEW u, SetAvatar(q, u) PROVE AccountsInv'
<1>0. /\ request[q].pc = "idle" /\ u \in DOMAIN users
      /\ UNCHANGED <<users, profiles, born, tokens, asset, uploads, doomed, leftover, lost>>
  BY DEF SetAvatar, At, recordVars, avatarVars
<1>1. u \in 1..born /\ u \in Nat /\ u <= born /\ users[u].avatar \in Nat
  BY <1>0, RequestFacts DEF AccountsInv, RecordsOK, User
<1> DEFINE x == [NoRequest EXCEPT !.pc = "upload", !.user = u, !.previous = Avatar(u)]
<1>2. x \in Request /\ x.pc = "upload" /\ x.user = u /\ x.path = 0
  BY <1>1 DEF NoRequest, Request, Steps, Avatar
<1>3. request' = [request EXCEPT ![q] = x]
  BY DEF SetAvatar
<1> HIDE DEF x
<1>q. QED
  BY <1>0, <1>1, <1>2, <1>3, RequestFacts, DocumentsKept DEF Onboards, Holding

LEMMA RemoveAvatarStep == ASSUME AccountsInv, NEW q \in Requests, NEW u, RemoveAvatar(q, u) PROVE AccountsInv'
<1>0. /\ request[q].pc = "idle" /\ u \in DOMAIN users
      /\ UNCHANGED <<users, profiles, born, tokens, asset, uploads, doomed, leftover, lost>>
  BY DEF RemoveAvatar, At, recordVars, avatarVars
<1>1. u \in 1..born /\ u \in Nat /\ u <= born /\ users[u].avatar \in Nat
  BY <1>0, RequestFacts DEF AccountsInv, RecordsOK, User
<1> DEFINE x == [NoRequest EXCEPT !.pc = "unset", !.user = u, !.previous = Avatar(u)]
<1>2. x \in Request /\ x.pc = "unset" /\ x.user = u /\ x.path = 0
  BY <1>1 DEF NoRequest, Request, Steps, Avatar
<1>3. request' = [request EXCEPT ![q] = x]
  BY DEF RemoveAvatar
<1> HIDE DEF x
<1>q. QED
  BY <1>0, <1>1, <1>2, <1>3, RequestFacts, DocumentsKept DEF Onboards, Holding

\* An upload is held for an account until its path is set.
LEMMA UploadAvatarStep == ASSUME AccountsInv, NEW q \in Requests, UploadAvatar(q) PROVE AccountsInv'
<1>0. request[q].pc = "upload" /\ UNCHANGED <<users, profiles, born, tokens, doomed, leftover, lost>>
  BY DEF UploadAvatar, At, recordVars
<1>1. CASE Return(q) /\ UNCHANGED <<asset, uploads>>
  BY <1>0, <1>1, ReturnStep DEF Onboards, Holding, recordVars, avatarVars
<1>2. CASE /\ uploads < MaxUploads /\ uploads' = uploads + 1 /\ asset' = [asset EXCEPT ![request[q].user] = uploads']
           /\ request' = [request EXCEPT ![q].pc = "path", ![q].path = uploads']
  <2>1. /\ request[q] \in Request /\ request[q].user \in 1..born /\ request[q].user <= born
        /\ request[q].user \in UserIds /\ tokens \subseteq 1..born
        /\ request \in [Requests -> Request] /\ uploads \in Nat /\ MaxUploads \in Nat
        /\ DOMAIN users \subseteq UserIds
    BY <1>0, RequestFacts, BoundAssumption DEF RequestOK, AccountsInv, RequestsOK
  <2>2. PICK w \in Nat : w = uploads' /\ w # 0 /\ w = uploads + 1 /\ w \in 0..MaxUploads /\ uploads <= w
                         /\ 0..uploads \subseteq 0..w
    BY <1>2, <2>1
  <2> DEFINE x == [request[q] EXCEPT !.pc = "path", !.path = w]
  <2>3. x \in Request /\ x.pc = "path" /\ x.user = request[q].user /\ x.path = w
    BY <2>1 DEF Request, Steps
  <2>4. request' = [request EXCEPT ![q] = x]
    BY <1>2, <2>1, <2>2 DEF Request
  <2> HIDE DEF x
  <2>5. /\ users \in [DOMAIN users -> User] /\ asset \in [UserIds -> 0..uploads]
        /\ doomed \in [UserIds -> Nat] /\ \A u \in DOMAIN users : users[u].avatar <= uploads
        /\ \A u \in DOMAIN users : users[u].avatar \in Nat
    BY DEF AccountsInv, RecordsOK, User
  <2>6. /\ asset' = [asset EXCEPT ![request[q].user] = w] /\ asset' \in [UserIds -> 0..w]
        /\ \A u \in UserIds \ {request[q].user} : asset'[u] = asset[u]
    BY <1>2, <2>1, <2>2, <2>5
  <2>7. \A u \in DOMAIN users : users[u].avatar <= uploads'
    BY <2>1, <2>2, <2>5
  <2>8. OneAccountEach'
    BY <1>0 DEF AccountsInv, OneAccountEach
  <2>9. AssetsOK'
    <3>1. \A v \in UserIds \ {request[q].user} : Held(v) => Held(v)'
      BY <1>0, <2>1, <2>3, <2>4, <2>6, HeldKept DEF Holds
    <3>2. PICK v \in UserIds : v = request[q].user
      BY <2>1
    <3>3. Held(v)'
      <4>1. request'[q].user = v /\ request'[q].pc = "path" /\ request'[q].path = asset'[v]
        BY <2>1, <2>3, <2>4, <2>5, <2>6, <3>2
      <4>q. QED
        BY <4>1 DEF Held, Holds
    <3>q. QED
      BY <1>0, <2>1, <2>6, <3>1, <3>2, <3>3 DEF AccountsInv, AssetsOK, Avatar
  <2>10. /\ x.user <= born /\ x.path <= uploads' /\ x.user \in 1..born /\ x.path # 0
         /\ uploads <= uploads' /\ uploads' \in 0..MaxUploads
         /\ asset' \in [UserIds -> 0..uploads'] /\ tokens' \subseteq 1..born /\ doomed' \in [UserIds -> Nat]
         /\ leftover' \subseteq 0..uploads'
    BY <1>0, <2>1, <2>2, <2>3, <2>5, <2>6, RequestFacts
  <2>11. /\ DOMAIN users' = DOMAIN users /\ users' \in [DOMAIN users -> User] /\ UNCHANGED lost
         /\ \A u \in DOMAIN users : users'[u].role = users[u].role /\ users'[u].avatar <= uploads'
    BY <1>0, <2>5, <2>7
  <2>q. QED
    BY <1>0, <2>3, <2>4, <2>8, <2>9, <2>10, <2>11, AccountChanged DEF Onboards
<1>q. QED
  BY <1>1, <1>2 DEF UploadAvatar

\* The account points to the photo that was uploaded, if it still exists.
LEMMA SetPathStep == ASSUME AccountsInv, NEW q \in Requests, SetPath(q) PROVE AccountsInv'
<1>0. /\ request[q].pc = "path" /\ Return(q)
      /\ UNCHANGED <<profiles, born, tokens, asset, uploads, leftover, lost>>
  BY DEF SetPath, At
<1>r. /\ request[q] \in Request /\ RequestOK(q) /\ request \in [Requests -> Request]
      /\ 1..born \subseteq UserIds /\ tokens \subseteq 1..born /\ DOMAIN users \subseteq 1..born
      /\ 0 <= born /\ uploads \in Nat
  BY RequestFacts DEF AccountsInv, RequestsOK
<1>1. /\ request[q] \in Request /\ request[q].user \in 1..born
      /\ request[q].user \in UserIds /\ tokens \subseteq 1..born
      /\ request[q].path \in Nat /\ request[q].path <= uploads /\ request[q].path # 0
      /\ request \in [Requests -> Request] /\ DOMAIN users \subseteq UserIds
      /\ 0 <= born /\ 0 <= uploads /\ uploads <= uploads
  BY <1>0, <1>r DEF RequestOK, Request
<1>2. /\ users \in [DOMAIN users -> User] /\ asset \in [UserIds -> 0..uploads] /\ uploads \in 0..MaxUploads
      /\ doomed \in [UserIds -> Nat] /\ \A u \in DOMAIN users : users[u].avatar <= uploads
  BY DEF AccountsInv, RecordsOK
<1>3. /\ DOMAIN users' = DOMAIN users
      /\ \A v \in DOMAIN users : users'[v] = IF v = request[q].user
                                            THEN [users[v] EXCEPT !.avatar = request[q].path] ELSE users[v]
      /\ users' = [v \in DOMAIN users |-> users'[v]]
  BY DEF SetPath
<1>4. \A v \in DOMAIN users : /\ users'[v] \in User /\ users'[v].role = users[v].role
                              /\ users'[v].email = users[v].email /\ users'[v].uid = users[v].uid
                              /\ v = request[q].user => users'[v].avatar = request[q].path
                              /\ v # request[q].user => users'[v].avatar = users[v].avatar
  BY <1>1, <1>2, <1>3 DEF User
<1>5. users' \in [DOMAIN users -> User]
  BY <1>3, <1>4
<1>6. doomed' \in [UserIds -> Nat]
  BY <1>1, <1>2 DEF SetPath
<1>7. \A v \in DOMAIN users : users'[v].role = users[v].role /\ users'[v].avatar <= uploads'
  BY <1>0, <1>1, <1>2, <1>4
<1>8. OneAccountEach'
  BY <1>3, <1>4 DEF AccountsInv, OneAccountEach
<1>9. AssetsOK'
  <2>1. \A v \in UserIds \ {request[q].user} : Held(v) => Held(v)'
    BY <1>0, <1>1, NoRequestFacts, HeldKept DEF Return, Holds
  <2>2. \A v \in DOMAIN users \ {request[q].user} : Avatar(v)' = Avatar(v)
    BY <1>4 DEF Avatar
  <2>3. \A v \in DOMAIN users : v = request[q].user => Avatar(v)' # 0
    BY <1>1, <1>4 DEF Avatar
  <2>q. QED
    BY <1>0, <1>3, <2>1, <2>2, <2>3 DEF AccountsInv, AssetsOK
<1>10. request' = [request EXCEPT ![q] = NoRequest] /\ UNCHANGED <<profiles, born, lost>>
  BY <1>0 DEF Return
<1>11. /\ tokens' \subseteq 1..born /\ uploads <= uploads' /\ uploads' \in 0..MaxUploads
       /\ asset' \in [UserIds -> 0..uploads'] /\ leftover' \subseteq 0..uploads' /\ 0 <= uploads'
       /\ DOMAIN users' = DOMAIN users /\ request[q].pc \notin Onboards
  BY <1>0, <1>1, <1>2, <1>3, RequestFacts DEF Onboards
<1>q. QED
  BY <1>1, <1>5, <1>6, <1>7, <1>8, <1>9, <1>10, <1>11, NoRequestFacts, AccountChanged

\* The account points to no photo; the request is about to destroy the asset.
LEMMA UnsetPathStep == ASSUME AccountsInv, NEW q \in Requests, UnsetPath(q) PROVE AccountsInv'
<1>0. /\ request[q].pc = "unset" /\ Goto(q, "destroy")
      /\ UNCHANGED <<profiles, born, tokens, asset, uploads, doomed, leftover, lost>>
  BY DEF UnsetPath, At, avatarVars
<1>1. /\ request[q] \in Request /\ request[q].user \in 1..born /\ request[q].user <= born
      /\ request[q].user \in UserIds /\ tokens \subseteq 1..born
      /\ request[q].path <= uploads
      /\ request \in [Requests -> Request] /\ DOMAIN users \subseteq UserIds
      /\ 0 <= uploads /\ uploads <= uploads
  BY <1>0, RequestFacts DEF RequestOK, AccountsInv, RequestsOK
<1>2. /\ users \in [DOMAIN users -> User] /\ asset \in [UserIds -> 0..uploads] /\ uploads \in 0..MaxUploads
      /\ doomed \in [UserIds -> Nat] /\ \A u \in DOMAIN users : users[u].avatar <= uploads
  BY DEF AccountsInv, RecordsOK
<1>3. /\ DOMAIN users' = DOMAIN users
      /\ \A v \in DOMAIN users : users'[v] = IF v = request[q].user
                                            THEN [users[v] EXCEPT !.avatar = 0] ELSE users[v]
      /\ users' = [v \in DOMAIN users |-> users'[v]]
  BY DEF UnsetPath
<1>4. \A v \in DOMAIN users : /\ users'[v] \in User /\ users'[v].role = users[v].role
                              /\ users'[v].email = users[v].email /\ users'[v].uid = users[v].uid
                              /\ v = request[q].user => users'[v].avatar = 0
                              /\ v # request[q].user => users'[v].avatar = users[v].avatar
  BY <1>1, <1>2, <1>3 DEF User
<1>5. users' \in [DOMAIN users -> User]
  BY <1>3, <1>4
<1>7. \A v \in DOMAIN users : users'[v].role = users[v].role /\ users'[v].avatar <= uploads'
  BY <1>0, <1>1, <1>2, <1>4
<1>8. OneAccountEach'
  BY <1>3, <1>4 DEF AccountsInv, OneAccountEach
<1> DEFINE x == [request[q] EXCEPT !.pc = "destroy"]
<1>9. x \in Request /\ x.pc = "destroy" /\ x.user = request[q].user /\ x.path = request[q].path
  BY <1>1 DEF Request, Steps
<1>10. request' = [request EXCEPT ![q] = x] /\ UNCHANGED lost /\ leftover' \subseteq 0..uploads'
  BY <1>0, <1>1, RequestFacts DEF Goto, Request
<1> HIDE DEF x
<1>11. AssetsOK'
  <2>1. \A v \in UserIds : Held(v) => Held(v)'
    BY <1>0, <1>1, <1>9, <1>10, HeldKept DEF Holding, Holds
  <2>2. \A v \in DOMAIN users \ {request[q].user} : Avatar(v)' = Avatar(v)
    BY <1>4 DEF Avatar
  <2>3. PICK v \in UserIds : v = request[q].user
    BY <1>1
  <2>4. Held(v)'
    <3>1. request'[q].user = v /\ request'[q].pc = "destroy"
      BY <1>1, <1>9, <1>10, <2>3
    <3>q. QED
      BY <3>1 DEF Held, Holds
  <2>q. QED
    BY <1>0, <1>1, <1>3, <2>1, <2>2, <2>3, <2>4 DEF AccountsInv, AssetsOK
<1>q. QED
  BY <1>0, <1>1, <1>2, <1>3, <1>5, <1>7, <1>8, <1>9, <1>10, <1>11, AccountChanged DEF Onboards

\* Nothing is held for an account whose asset is destroyed, whoever does it.
LEMMA DestroyedAssets ==
  ASSUME AccountsInv, NEW w \in UserIds, asset' = [asset EXCEPT ![w] = 0], UNCHANGED <<users, born>>,
         \A v \in UserIds \ {w} : asset'[v] = asset[v] /\ Held(v) => Held(v)'
  PROVE  AssetsOK' /\ asset' \in [UserIds -> 0..uploads]
<1>1. asset \in [UserIds -> 0..uploads] /\ 0 \in 0..uploads
  BY RequestFacts, BoundAssumption DEF AccountsInv, RecordsOK
<1>2. asset'[w] = 0 /\ \A v \in UserIds \ {w} : asset'[v] = asset[v]
  BY <1>1
<1>q. QED
  BY <1>1, <1>2 DEF AccountsInv, AssetsOK, Avatar

\* The asset is destroyed, or is left there when that fails.
LEMMA DestroyStep == ASSUME AccountsInv, NEW q \in Requests, Destroy(q) PROVE AccountsInv'
<1>0. /\ request[q].pc = "destroy" /\ Return(q) /\ UNCHANGED <<users, profiles, born, tokens, uploads, doomed, lost>>
      /\ leftover \subseteq leftover'
  BY DEF Destroy, At, recordVars, LeftThere
<1>1. /\ request[q] \in Request /\ request[q].user \in UserIds /\ tokens \subseteq 1..born
      /\ request \in [Requests -> Request] /\ 0 <= born /\ 0 <= uploads /\ uploads <= uploads
  BY <1>0, RequestFacts DEF RequestOK, AccountsInv, RequestsOK
<1>2. /\ users \in [DOMAIN users -> User] /\ uploads \in 0..MaxUploads
      /\ doomed \in [UserIds -> Nat] /\ \A u \in DOMAIN users : users[u].avatar <= uploads
  BY DEF AccountsInv, RecordsOK
<1>3. \A v \in UserIds \ {request[q].user} : asset'[v] = asset[v] /\ Held(v) => Held(v)'
  BY <1>0, <1>1, NoRequestFacts, HeldKept DEF Return, Holds
<1>4. AssetsOK' /\ asset' \in [UserIds -> 0..uploads] /\ leftover' \subseteq 0..uploads
  <2>1. CASE Destroyed(request[q].user) /\ UNCHANGED leftover
    BY <1>0, <1>1, <1>3, <2>1, DestroyedAssets, RequestFacts DEF Destroyed
  <2>2. CASE UNCHANGED asset /\ LeftThere(asset[request[q].user])
    <3>1. PICK w \in UserIds : w = request[q].user
      BY <1>1
    <3>2. asset \in [UserIds -> 0..uploads] /\ leftover' = leftover \cup ({asset[w]} \ {0})
      BY <2>2, <3>1 DEF AccountsInv, RecordsOK, LeftThere
    <3>3. leftover' \subseteq 0..uploads
      BY <3>2, RequestFacts
    <3>4. asset[w] # 0 => Held(w)'
      BY <2>2, <3>2 DEF Held
    <3>q. QED
      BY <1>0, <1>3, <2>2, <3>1, <3>2, <3>3, <3>4 DEF AccountsInv, AssetsOK, Avatar
  <2>q. QED
    BY <2>1, <2>2 DEF Destroy
<1>5. OneAccountEach'
  BY <1>0 DEF AccountsInv, OneAccountEach
<1>6. request' = [request EXCEPT ![q] = NoRequest] /\ UNCHANGED lost
  BY <1>0 DEF Return
<1>q. QED
  BY <1>0, <1>1, <1>2, <1>4, <1>5, <1>6, NoRequestFacts, AccountChanged DEF Onboards

\* The picture that was replaced goes in the background, or that fails.
LEMMA DeletePreviousStep == ASSUME AccountsInv, NEW w \in UserIds, DeletePrevious(w) PROVE AccountsInv'
<1>0. /\ UNCHANGED <<users, profiles, born, tokens, request, uploads, leftover, lost>>
      /\ Destroyed(w) \/ UNCHANGED asset
      /\ doomed[w] > 0 /\ doomed' = [doomed EXCEPT ![w] = @ - 1]
  BY DEF DeletePrevious, recordVars
<1>1. RecordsOK /\ RequestsOK
  BY DEF AccountsInv
<1>3. AssetsOK' /\ asset' \in [UserIds -> 0..uploads]
  <2>1. \A v \in UserIds : asset'[v] = asset[v] /\ Held(v) => Held(v)'
    BY <1>0 DEF Held, Holds
  <2>2. CASE Destroyed(w)
    BY <1>0, <2>1, <2>2, DestroyedAssets DEF Destroyed
  <2>3. CASE UNCHANGED asset
    BY <1>0, <1>1, <2>1, <2>3 DEF AccountsInv, AssetsOK, Avatar, RecordsOK
  <2>q. QED
    BY <1>0, <2>2, <2>3
<1>4. doomed' \in [UserIds -> Nat]
  BY <1>0, <1>1 DEF RecordsOK
<1>5. RecordsOK'
  BY <1>0, <1>1, <1>3, <1>4 DEF RecordsOK
<1>6. RequestsOK'
  BY <1>0, <1>1 DEF RequestsOK, RequestOK, ProfilesOf
<1>7. OneAccountEach'
  BY <1>0 DEF AccountsInv, OneAccountEach
<1>8. OneProfileEach'
  BY <1>0 DEF AccountsInv, OneProfileEach, ProfilesOf, Unfinished, Busy
<1>q. QED
  BY <1>3, <1>5, <1>6, <1>7, <1>8 DEF AccountsInv

\* A request is cut off: its account stays unfinished, and the photo it held is left.
LEMMA CrashStep == ASSUME AccountsInv, NEW q \in Requests, Crash(q) PROVE AccountsInv'
<1>0. /\ request' = [request EXCEPT ![q] = NoRequest]
      /\ lost' = IF request[q].pc \in Onboards THEN lost \cup {request[q].user} ELSE lost
      /\ UNCHANGED <<users, profiles, born, tokens, asset, uploads, doomed>>
      /\ leftover \subseteq leftover'
  BY DEF Crash, Return, recordVars, Onboards, LeftThere
<1>1. /\ request[q] \in Request /\ RequestOK(q) /\ asset \in [UserIds -> 0..uploads]
      /\ 1..born \subseteq UserIds /\ DOMAIN users \subseteq 1..born /\ uploads \in Nat
      /\ leftover \subseteq 0..uploads /\ lost \subseteq 1..born /\ tokens \subseteq 1..born
      /\ 0 <= born /\ 0 <= uploads
  BY RequestFacts DEF AccountsInv, RecordsOK
<1>2. lost \subseteq lost' /\ lost' \subseteq 1..born
      /\ (request[q].pc \in Onboards => request[q].user \in lost')
  <2>1. request[q].pc \in Onboards => request[q].user \in 1..born
    BY <1>1 DEF RequestOK
  <2>q. QED
    BY <1>0, <1>1, <2>1
<1>3. /\ leftover' \subseteq 0..uploads
      /\ \A v \in UserIds : asset[v] # 0 /\ Holds(request[q], v) => asset[v] \in leftover'
  <2>1. CASE request[q].pc = "path" /\ LeftThere(request[q].path)
    <3>1. request[q].path \in 0..uploads /\ request[q].path # 0
      BY <1>1, <2>1 DEF RequestOK, Request
    <3>2. leftover' = leftover \cup {request[q].path}
      BY <2>1, <3>1 DEF LeftThere
    <3>q. QED
      BY <1>1, <2>1, <3>1, <3>2 DEF Holds
  <2>2. CASE request[q].pc = "destroy" /\ LeftThere(asset[request[q].user])
    <3>1. PICK w \in UserIds : w = request[q].user
      BY <1>1, <2>2 DEF RequestOK
    <3>2. asset[w] \in 0..uploads /\ leftover' = leftover \cup ({asset[w]} \ {0})
      BY <1>1, <2>2, <3>1 DEF LeftThere
    <3>q. QED
      BY <1>1, <3>1, <3>2 DEF Holds
  <2>3. CASE request[q].pc \notin {"path", "destroy"} /\ UNCHANGED leftover
    BY <1>1, <2>3 DEF Holds
  <2>q. QED
    BY <2>1, <2>2, <2>3 DEF Crash, At
<1>q. QED
  BY <1>0, <1>1, <1>2, <1>3, NoRequestFacts, DocumentsKept DEF Onboards

-----------------------------------------------------------------------------

LEMMA InitAccounts == ASSUME AccountsInit PROVE AccountsInv
<1>1. PICK old \in {0, 1}, r \in Roles, n \in Cnics :
        /\ users = [u \in 1..old |-> [email |-> Legacy, uid |-> NoOne, role |-> r, avatar |-> 0]]
        /\ profiles = {[user |-> u, role |-> r, cnic |-> n] : u \in 1..old}
        /\ born = old /\ tokens = {} /\ request = [q \in Requests |-> NoRequest]
        /\ asset = [u \in UserIds |-> 0] /\ uploads = 0 /\ doomed = [u \in UserIds |-> 0]
        /\ leftover = {} /\ lost = {}
  BY DEF AccountsInit
<1>2. /\ old \in 0..MaxUsers /\ DOMAIN users = 1..old /\ 1..old \subseteq UserIds /\ 1..old \subseteq {1}
      /\ MaxUploads \in Nat
  BY <1>1, BoundAssumption DEF UserIds
<1>3. RecordsOK
  <2>1. Legacy \in Emails
    BY EmailAssumption DEF Emails
  <2>2. users \in [DOMAIN users -> User] /\ \A u \in DOMAIN users : users[u].avatar <= uploads
    BY <1>1, <2>1 DEF User
  <2>3. profiles \subseteq [user : UserIds, role : Roles, cnic : Cnics]
    BY <1>1, <1>2
  <2>q. QED
    BY <1>1, <1>2, <2>2, <2>3 DEF RecordsOK
<1>4. RequestsOK
  BY <1>1, <1>2, NoRequestFacts DEF RequestsOK, RequestOK, Onboards
<1>5. OneAccountEach
  BY <1>2 DEF OneAccountEach
<1>6. OneProfileEach
  <2>1. ASSUME NEW u \in DOMAIN users
        PROVE  ProfilesOf(u) = {[user |-> u, role |-> users[u].role, cnic |-> n]}
    BY <1>1, <1>2 DEF ProfilesOf
  <2>2. \A p \in profiles : p.user \in DOMAIN users
    BY <1>1, <1>2
  <2>q. QED
    BY <1>1, <2>1, <2>2 DEF OneProfileEach
<1>7. AssetsOK
  BY <1>1 DEF AssetsOK
<1>q. QED
  BY <1>3, <1>4, <1>5, <1>6, <1>7 DEF AccountsInv

LEMMA StepAccounts == ASSUME AccountsInv, [AccountsNext]_accountsVars PROVE AccountsInv'
<1>1. ASSUME NEW q \in Requests, Onboarding(q) PROVE AccountsInv'
  BY <1>1, BeginOnboardingStep, CheckCnicStep, CreateFirebaseUserStep, CreateProfileStep, RollbackStep
     DEF Onboarding
<1>2. ASSUME NEW q \in Requests, SigningIn(q) PROVE AccountsInv'
  BY <1>2, SignInStep, FindByEmailStep, LinkStep, CreateAdminStep DEF SigningIn
<1>3. ASSUME NEW q \in Requests, Avatars(q) PROVE AccountsInv'
  BY <1>3, SetAvatarStep, RemoveAvatarStep, UploadAvatarStep, SetPathStep, UnsetPathStep, DestroyStep
     DEF Avatars
<1>4. CASE UNCHANGED accountsVars
  BY <1>4 DEF accountsVars, AccountsInv, RecordsOK, RequestsOK, RequestOK, OneAccountEach, OneProfileEach,
              AssetsOK, ProfilesOf, Unfinished, Busy, Held, Holds, Avatar
<1>q. QED
  BY <1>1, <1>2, <1>3, <1>4, CrashStep, DeletePreviousStep DEF AccountsNext

\* Requests that race leave every account with its one profile, and an asset that no
\* account points to with the request that is about to, or among the leftovers.
THEOREM AccountsInvariance == AccountsSpec => []AccountsInv
  BY InitAccounts, StepAccounts, PTL DEF AccountsSpec

\* AccountsWhole: whatever requests race with one identity, one email or one CNIC, and
\* whatever is refused or rolled back, accounts and profiles belong together one to one,
\* except those whose onboarding a crash has cut off.
THEOREM AccountsStayWhole == AccountsSpec => []AccountsWhole
<1>1. ASSUME AccountsInv PROVE AccountsWhole
  <2>1. AccountsTypeOK
    <3>1. RecordsOK /\ request \in [Requests -> Request] /\ uploads \in Nat
      BY <1>1, BoundAssumption DEF AccountsInv, RequestsOK, RecordsOK
    <3>2. \A u \in DOMAIN users : users[u] \in User /\ users[u].avatar <= uploads
      BY <3>1 DEF RecordsOK
    <3>3. \A u \in DOMAIN users :
            /\ users[u].email \in Emails /\ users[u].uid \in Identities \cup {NoOne}
            /\ users[u].role \in Roles \cup {"admin"} /\ users[u].avatar \in 0..uploads
      BY <3>1, <3>2 DEF User
    <3>4. \A q \in Requests : request[q].pc \in Steps
      BY <3>1 DEF Request
    <3>q. QED
      BY <3>1, <3>3, <3>4 DEF AccountsTypeOK, RecordsOK
  <2>2. OneAccountEach /\ OneProfileEach
    BY <1>1 DEF AccountsInv
  <2>q. QED
    BY <2>1, <2>2 DEF AccountsWhole, OneAccountEach, OneProfileEach, Unfinished, Onboards
<1>q. QED
  BY <1>1, AccountsInvariance, PTL

\* RemovedPhotoIsGone: Cloudinary holds no photo for an account that points to none,
\* unless a request still has to point to that version or to destroy it, or its
\* deletion has failed or was cut off.
THEOREM RemovedPhotosGone == AccountsSpec => []RemovedPhotoIsGone
<1>1. ASSUME AccountsInv PROVE RemovedPhotoIsGone
  <2>1. DOMAIN users \subseteq UserIds
    BY <1>1, BoundAssumption DEF AccountsInv, RecordsOK, UserIds
  <2>q. QED
    BY <1>1, <2>1 DEF AccountsInv, AssetsOK, RemovedPhotoIsGone, Held
<1>q. QED
  BY <1>1, AccountsInvariance, PTL
=============================================================================
