------------------------------ MODULE Content ------------------------------
(***************************************************************************)
(* What users publish and administrators moderate: posts and comments of   *)
(* CommunityService, listings of MarketplaceService, and the visibility    *)
(* operation of AdminContentService with its audit log.  Authors' requests *)
(* read a document first and write later, so several may work from the     *)
(* same stale copy while an administrator changes its visibility.  Every   *)
(* transaction is one action.  Who may remove what is left out: a caller   *)
(* who is not allowed to changes nothing.                                  *)
(***************************************************************************)
EXTENDS Naturals, FiniteSets

CONSTANTS
  Posts, Comments, Products,  \* documents, whether they exist yet or not
  Calls,                      \* concurrent requests of authors and farmers
  MaxAudit,                   \* bound on the moderations of one document
  NoTarget

Documents == Posts \cup Comments \cup Products

ASSUME AuditAssumption == MaxAudit \in Nat
ASSUME DisjointAssumption == /\ Posts \cap Comments = {} /\ Posts \cap Products = {}
                             /\ Comments \cap Products = {} /\ NoTarget \notin Documents
ASSUME FiniteAssumption == IsFiniteSet(Comments)

VARIABLES
  post,     \* posts: status and the denormalised comment counter
  comment,  \* comments
  product,  \* listings: the farmer's status and the administrators' flag
  audit,    \* audit_logs: last action and number of actions per document
  call      \* requests between their read and their write

vars == <<post, comment, product, audit, call>>

PostStatus    == {"none", "published", "removed"}
CommentStatus == {"none", "active", "removed"}
ProductStatus == {"active", "inactive", "sold_out"}

Post    == [status: PostStatus, commentCount: 0..Cardinality(Comments)]
Comment == [post: Posts \cup {NoTarget}, status: CommentStatus]
Product == [status: ProductStatus \cup {"none"}, adminHidden: BOOLEAN]

\* The audit log of a document.
Log == [last: {"none", "hidden", "restored"}, entries: 0..MaxAudit]

Operations == {"remove_post", "add_comment", "remove_comment", "update_listing"}

\* seen: the status that was read, where the write depends on it.
Call == [op: Operations, target: Documents, seen: {"none"} \cup ProductStatus]
Idle == [op |-> "idle", target |-> NoTarget, seen |-> "none"]

TypeOK ==
  /\ post \in [Posts -> Post]
  /\ comment \in [Comments -> Comment]
  /\ product \in [Products -> Product]
  /\ audit \in [Documents -> Log]
  /\ call \in [Calls -> {Idle} \cup Call]

Init ==
  /\ post = [p \in Posts |-> [status |-> "none", commentCount |-> 0]]
  /\ comment = [k \in Comments |-> [post |-> NoTarget, status |-> "none"]]
  /\ product = [q \in Products |-> [status |-> "none", adminHidden |-> FALSE]]
  /\ audit = [x \in Documents |-> [last |-> "none", entries |-> 0]]
  /\ call = [c \in Calls |-> Idle]

Begin(c, op, target, seen) ==
  /\ call[c] = Idle
  /\ call' = [call EXCEPT ![c] = [op |-> op, target |-> target, seen |-> seen]]
  /\ UNCHANGED <<post, comment, product, audit>>

Finish(c) == call' = [call EXCEPT ![c] = Idle]

-----------------------------------------------------------------------------
(* CommunityService *)

CreatePost(p) ==
  /\ post[p].status = "none"
  /\ post' = [post EXCEPT ![p].status = "published"]
  /\ UNCHANGED <<comment, product, audit, call>>

\* requirePublishedPost: a removed post cannot be commented on or removed.
RequirePublished(c, op, p) == post[p].status = "published" /\ Begin(c, op, p, "none")

\* remove: save() writes the modified path only, whatever happened meanwhile.
SaveRemoved(c) ==
  /\ call[c].op = "remove_post"
  /\ post' = [post EXCEPT ![call[c].target].status = "removed"]
  /\ Finish(c)
  /\ UNCHANGED <<comment, product, audit>>

\* addComment: the transaction does not look at the post's status again.
AddComment(c, k) ==
  LET p == call[c].target IN
  /\ call[c].op = "add_comment"
  /\ comment[k].status = "none"
  /\ comment' = [comment EXCEPT ![k] = [post |-> p, status |-> "active"]]
  /\ post' = [post EXCEPT ![p].commentCount = @ + 1]
  /\ Finish(c)
  /\ UNCHANGED <<product, audit>>

ReadComment(c, k) == comment[k].status = "active" /\ Begin(c, "remove_comment", k, "none")

\* Mutant: the removal is not conditional on the status.
StillActiveWhenRead(k) == comment[k].status # "none"

StillActive(k) == comment[k].status = "active"

\* removeComment: of two removals of one comment only the first counts.
RemoveComment(c) ==
  LET k == call[c].target
      p == comment[k].post IN
  /\ call[c].op = "remove_comment"
  /\ IF StillActive(k)
     THEN /\ comment' = [comment EXCEPT ![k].status = "removed"]
          /\ post' = [post EXCEPT ![p].commentCount = IF @ > 0 THEN @ - 1 ELSE @]
     ELSE UNCHANGED <<comment, post>>
  /\ Finish(c)
  /\ UNCHANGED <<product, audit>>

-----------------------------------------------------------------------------
(* MarketplaceService *)

\* The product and its "listed" ledger record are created in one transaction.
CreateListing(q) ==
  /\ product[q].status = "none"
  /\ product' = [product EXCEPT ![q].status = "active"]
  /\ UNCHANGED <<post, comment, audit, call>>

\* getOwned: a farmer may go on editing a listing that is hidden.
ReadListing(c, q) ==
  /\ product[q].status # "none"
  /\ Begin(c, "update_listing", q, product[q].status)

\* Mutant: the farmer's edit writes the document as a whole, visible.
SaveWholeListing(c, status) ==
  LET q == call[c].target IN
  /\ call[c].op = "update_listing"
  /\ product' = [product EXCEPT ![q] = [status |-> status, adminHidden |-> FALSE]]
  /\ Finish(c)
  /\ UNCHANGED <<post, comment, audit>>

\* update without a quantity, and remove: save() writes the status if it
\* differs from the one read, and never the administrators' flag.
SaveListing(c, status) ==
  LET q == call[c].target IN
  /\ call[c].op = "update_listing"
  /\ product' = [product EXCEPT ![q].status = IF status = call[c].seen THEN @ ELSE status]
  /\ Finish(c)
  /\ UNCHANGED <<post, comment, audit>>

\* update with a quantity (whose condition is OrderPayment's SaveStock).
UpdateStock(q, status) ==
  /\ product[q].status # "none"
  /\ product' = [product EXCEPT ![q].status = status]
  /\ UNCHANGED <<post, comment, audit, call>>

-----------------------------------------------------------------------------
(* AdminContentService.visibility *)

\* A document that is not shown, whoever removed it.
Hidden(x) == CASE x \in Posts    -> post[x].status = "removed"
               [] x \in Comments -> comment[x].status = "removed"
               [] x \in Products -> product[x].adminHidden

Exists(x) == CASE x \in Posts    -> post[x].status # "none"
               [] x \in Comments -> comment[x].status # "none"
               [] x \in Products -> product[x].status # "none"

\* Mutant: the flag is written whatever its value.
ChangesAnyway(x, hidden) == Exists(x)

\* The filter of the update: two administrators cannot both hide a document.
Changes(x, hidden) == Exists(x) /\ Hidden(x) # hidden

Visibility(x, hidden) ==
  /\ Changes(x, hidden)
  /\ audit[x].entries < MaxAudit
  /\ product' = IF x \in Products THEN [product EXCEPT ![x].adminHidden = hidden] ELSE product
  /\ comment' = IF x \in Comments
                THEN [comment EXCEPT ![x].status = IF hidden THEN "removed" ELSE "active"]
                ELSE comment
  /\ post' = CASE x \in Posts ->
                    [post EXCEPT ![x].status = IF hidden THEN "removed" ELSE "published"]
               [] x \in Comments ->
                    [post EXCEPT ![comment[x].post].commentCount = IF hidden THEN @ - 1 ELSE @ + 1]
               [] x \in Products -> post
  /\ audit' = [audit EXCEPT ![x] = [last |-> IF hidden THEN "hidden" ELSE "restored",
                                    entries |-> @.entries + 1]]
  /\ UNCHANGED call

-----------------------------------------------------------------------------
Community ==
  \/ \E p \in Posts : CreatePost(p)
  \/ \E c \in Calls, p \in Posts : \/ RequirePublished(c, "remove_post", p)
                                   \/ RequirePublished(c, "add_comment", p)
  \/ \E c \in Calls, k \in Comments : ReadComment(c, k) \/ AddComment(c, k)
  \/ \E c \in Calls : SaveRemoved(c) \/ RemoveComment(c)

Listings ==
  \/ \E q \in Products : CreateListing(q)
  \/ \E c \in Calls, q \in Products : ReadListing(c, q)
  \/ \E c \in Calls, status \in ProductStatus : SaveListing(c, status)
  \/ \E q \in Products, status \in ProductStatus : UpdateStock(q, status)

Moderation == \E x \in Documents, hidden \in BOOLEAN : Visibility(x, hidden)

Next == Community \/ Listings \/ Moderation

Spec == Init /\ [][Next]_vars

-----------------------------------------------------------------------------
(* Properties *)

\* The counter of a post is the number of its active comments, although five
\* operations of authors and administrators change one or the other and some
\* work from a comment they read earlier ("commentCount is kept in step with
\* comments").
CommentCountInStep ==
  /\ TypeOK
  /\ \A p \in Posts : post[p].commentCount =
       Cardinality({k \in Comments : comment[k].post = p /\ comment[k].status = "active"})

\* The audit log tells what is visible: what an administrator hid last is not
\* shown, whatever edits of the farmer were under way ("Admin moderation
\* persists independently of farmer availability edits"), and of two equal
\* decisions about a listing only one takes effect and is recorded.
AuditTellsVisibility ==
  /\ \A x \in Documents : audit[x].last = "hidden" => Hidden(x)
  /\ \A q \in Products : Hidden(q) <=> audit[q].last = "hidden"
  /\ \A q \in Products : Hidden(q) <=> audit[q].entries % 2 = 1

\* What was removed comes back only by an administrator's recorded decision,
\* never by a request that had read the document before.
OnlyRestoreRepublishes ==
  [][\A x \in Documents : Hidden(x) /\ ~Hidden(x)' =>
       audit'[x] = [last |-> "restored", entries |-> audit[x].entries + 1]]_vars
=============================================================================
