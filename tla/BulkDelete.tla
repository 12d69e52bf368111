------------------------------ MODULE BulkDelete ------------------------------
(***************************************************************************)
(* Deleting versions or a whole package from the dashboard                 *)
(* (routes_artifacts.py, package_actions.py, list_keys_under_prefix): for  *)
(* each chosen prefix, list it page by page, then delete what was listed,  *)
(* then write the audit line.  Uploads and other deletions go on between   *)
(* the calls.                                                              *)
(*                                                                         *)
(* Storage keys are numbered in the order list_prefix sorts them.  What a  *)
(* prefix selects depends on the backend: LocalArtifactStore walks the     *)
(* directory of that name, S3ArtifactStore compares strings, so there the  *)
(* prefix of version 1.0 selects 1.0.1 too.                                *)
(***************************************************************************)
EXTENDS Integers, FiniteSets

CONSTANTS
  Key,        \* storage keys of the repository
  Scope,      \* prefixes a user can choose: version or package directories
  Under,      \* Under[v]: the keys inside the directory v
  Matches,    \* Matches[v]: the keys the backend lists for the prefix v
  Request,    \* deletion requests
  FetchSize,  \* _STORAGE_FETCH_SIZE
  MaxPages,   \* _MAX_DELETE_PAGES
  None        \* no prefix

ASSUME KeyAssumption == Key \subseteq Nat \ {0}
ASSUME ScopesAssumption ==
  Under \in [Scope -> SUBSET Key] /\ Matches \in [Scope -> SUBSET Key] /\ None \notin Scope
ASSUME PagesAssumption == FetchSize \in Nat \ {0} /\ MaxPages \in Nat \ {0}

VARIABLES
  present,    \* the keys that exist
  pc,         \* pc[q]: what request q does next
  asked,      \* asked[q]: the prefixes q was sent with
  todo,       \* todo[q]: those its loop has not reached
  scope,      \* scope[q]: the one it is at
  cursor,     \* cursor[q]: the continuation token, 0 for none
  pages,      \* pages[q]: pages listed for this prefix before the last
  keys,       \* keys[q]: keys listed for this prefix
  queue,      \* queue[q]: those delete_many has still to remove
  audited,    \* audited[q]: keys counted by audit lines with status 200
  answer,     \* answer[q]: what the user was told
  removed,    \* history: keys that q removed
  stayed,     \* history: listed prefix's keys present ever since its listing began
  truncated   \* history: the listing of this prefix was cut off at MaxPages

vars == <<present, pc, asked, todo, scope, cursor, pages, keys, queue, audited, answer,
          removed, stayed, truncated>>
loopVars == <<asked, todo, scope>>
listVars == <<cursor, pages, keys, truncated>>
logVars == <<audited, answer>>

TypeOK ==
  /\ present \subseteq Key
  /\ pc \in [Request -> {"idle", "next", "list", "delete", "done"}]
  /\ asked \in [Request -> SUBSET Scope]
  /\ todo \in [Request -> SUBSET Scope]
  /\ scope \in [Request -> Scope \union {None}]
  /\ cursor \in [Request -> Key \union {0}]
  /\ pages \in [Request -> 0..MaxPages - 1]
  /\ keys \in [Request -> SUBSET Key]
  /\ queue \in [Request -> SUBSET Key]
  /\ audited \in [Request -> SUBSET Key]
  /\ answer \in [Request -> {"none", "deleted", "notfound", "failed"}]
  /\ removed \in [Request -> SUBSET Key]
  /\ stayed \in [Request -> SUBSET Key]
  /\ truncated \in [Request -> BOOLEAN]

Init ==
  /\ present \in SUBSET Key
  /\ pc = [q \in Request |-> "idle"]
  /\ asked = [q \in Request |-> {}]
  /\ todo = [q \in Request |-> {}]
  /\ scope = [q \in Request |-> None]
  /\ cursor = [q \in Request |-> 0]
  /\ pages = [q \in Request |-> 0]
  /\ keys = [q \in Request |-> {}]
  /\ queue = [q \in Request |-> {}]
  /\ audited = [q \in Request |-> {}]
  /\ answer = [q \in Request |-> "none"]
  /\ removed = [q \in Request |-> {}]
  /\ stayed = [q \in Request |-> {}]
  /\ truncated = [q \in Request |-> FALSE]

Goto(q, l) == pc' = [pc EXCEPT ![q] = l]
Respond(q, a) == Goto(q, "done") /\ answer' = [answer EXCEPT ![q] = a]

-----------------------------------------------------------------------------
(* The loop over the chosen prefixes *)

\* The request arrives with a selection that is not empty (400 otherwise).
Begin(q, V) ==
  /\ pc[q] = "idle"
  /\ V # {}
  /\ asked' = [asked EXCEPT ![q] = V]
  /\ todo' = [todo EXCEPT ![q] = V]
  /\ Goto(q, "next")
  /\ UNCHANGED <<present, scope, listVars, queue, logVars, removed, stayed>>

\* delete_artifact_version of the next prefix: its listing starts.
NextScope(q) ==
  /\ pc[q] = "next"
  /\ \E v \in todo[q] :
       /\ scope' = [scope EXCEPT ![q] = v]
       /\ todo' = [todo EXCEPT ![q] = @ \ {v}]
       /\ stayed' = [stayed EXCEPT ![q] = Matches[v] \intersect present]
  /\ cursor' = [cursor EXCEPT ![q] = 0]
  /\ pages' = [pages EXCEPT ![q] = 0]
  /\ keys' = [keys EXCEPT ![q] = {}]
  /\ truncated' = [truncated EXCEPT ![q] = FALSE]
  /\ Goto(q, "list")
  /\ UNCHANGED <<present, asked, queue, logVars, removed>>

\* The loop is over: 404 if no prefix had anything, else the redirect.
Finish(q) ==
  /\ pc[q] = "next"
  /\ todo[q] = {}
  /\ Respond(q, IF audited[q] = {} THEN "notfound" ELSE "deleted")
  /\ UNCHANGED <<present, loopVars, listVars, queue, audited, removed, stayed>>

-----------------------------------------------------------------------------
(* list_keys_under_prefix *)

\* Mutant: pages are counted off from the start of the listing as it is now.
RestByOffset(q) ==
  LET all == Matches[scope[q]] \intersect present
  IN  {k \in all : Cardinality({j \in all : j < k}) >= Cardinality(keys[q])}

\* Mutant: the prefix is lost, the whole repository is listed.
RestOfAll(q) == {k \in present : k > cursor[q]}

\* What is left to list, as the store is now.
Rest(q) == {k \in Matches[scope[q]] \intersect present : k > cursor[q]}

\* P is the page list_prefix returns of the keys R.
IsPage(P, R) ==
  /\ P \subseteq R
  /\ P = R \/ Cardinality(P) = FetchSize
  /\ Cardinality(P) <= FetchSize
  /\ \A x \in P, y \in R \ P : x < y

IsLast(k, P) == k \in P /\ \A x \in P : x <= k

\* Mutant: no cap on the pages.
ListMoreUncapped(q) ==
  /\ pc[q] = "list"
  /\ \E P \in SUBSET Rest(q) :
       /\ IsPage(P, Rest(q))
       /\ P # Rest(q)
       /\ keys' = [keys EXCEPT ![q] = @ \union P]
       /\ \E k \in P : IsLast(k, P) /\ cursor' = [cursor EXCEPT ![q] = k]
  /\ pages' = [pages EXCEPT ![q] = @ + 1]
  /\ UNCHANGED <<present, pc, loopVars, queue, logVars, removed, stayed, truncated>>

\* Mutant: neither the token nor the page count is carried over.
ListMoreAgain(q) ==
  /\ pc[q] = "list"
  /\ \E P \in SUBSET Rest(q) :
       /\ IsPage(P, Rest(q))
       /\ P # Rest(q)
       /\ keys' = [keys EXCEPT ![q] = @ \union P]
  /\ UNCHANGED <<present, pc, loopVars, cursor, pages, queue, logVars, removed, stayed,
                 truncated>>

\* One page, with more to come.
ListMore(q) ==
  /\ pc[q] = "list"
  /\ pages[q] + 1 < MaxPages
  /\ \E P \in SUBSET Rest(q) :
       /\ IsPage(P, Rest(q))
       /\ P # Rest(q)
       /\ keys' = [keys EXCEPT ![q] = @ \union P]
       /\ \E k \in P : IsLast(k, P) /\ cursor' = [cursor EXCEPT ![q] = k]
  /\ pages' = [pages EXCEPT ![q] = @ + 1]
  /\ UNCHANGED <<present, pc, loopVars, queue, logVars, removed, stayed, truncated>>

\* The last page: no token, or MaxPages pages have been read.
ListLast(q) ==
  /\ pc[q] = "list"
  /\ \E P \in SUBSET Rest(q) :
       /\ IsPage(P, Rest(q))
       /\ P = Rest(q) \/ pages[q] + 1 = MaxPages
       /\ truncated' = [truncated EXCEPT ![q] = P # Rest(q)]
       /\ keys[q] \union P # {}
       /\ keys' = [keys EXCEPT ![q] = @ \union P]
       /\ queue' = [queue EXCEPT ![q] = keys[q] \union P]
  /\ Goto(q, "delete")
  /\ UNCHANGED <<present, loopVars, cursor, pages, logVars, removed, stayed>>

\* Nothing under the prefix: NotFoundError, and the loop goes on.  (The routes of
\* one prefix also log their 404, a line that counts no keys and is left out.)
ListNone(q) ==
  /\ pc[q] = "list"
  /\ Rest(q) = {}
  /\ keys[q] = {}
  /\ Goto(q, "next")
  /\ UNCHANGED <<present, loopVars, listVars, queue, logVars, removed, stayed>>

-----------------------------------------------------------------------------
(* delete_many and the audit line *)

\* One key: gone, whoever put it there and when.  A key that is no longer there
\* is skipped.
Remove(q, k) ==
  /\ pc[q] = "delete"
  /\ k \in queue[q]
  /\ queue' = [queue EXCEPT ![q] = @ \ {k}]
  /\ present' = present \ {k}
  /\ removed' = [removed EXCEPT ![q] = @ \union ({k} \intersect present)]
  /\ stayed' = [p \in Request |-> stayed[p] \ {k}]
  /\ UNCHANGED <<pc, loopVars, listVars, logVars>>

\* Mutant: the count of the last prefix replaces the total.
AuditLast(q) ==
  /\ pc[q] = "delete"
  /\ queue[q] = {}
  /\ audited' = [audited EXCEPT ![q] = keys[q]]
  /\ Goto(q, "next")
  /\ UNCHANGED <<present, loopVars, listVars, queue, answer, removed, stayed>>

\* delete_many has returned.
Audit(q) ==
  /\ pc[q] = "delete"
  /\ queue[q] = {}
  /\ audited' = [audited EXCEPT ![q] = @ \union keys[q]]
  /\ Goto(q, "next")
  /\ UNCHANGED <<present, loopVars, listVars, queue, answer, removed, stayed>>

\* list_prefix or delete_many of the backend raises ServiceUnavailableError, or the
\* next version has a slash (BadRequestError): the exception leaves the loop and
\* the route, and no audit line is written.
Fault(q) ==
  /\ \/ pc[q] = "list"
     \/ pc[q] = "delete" /\ queue[q] # {}
     \/ pc[q] = "next" /\ todo[q] # {}
  /\ Respond(q, "failed")
  /\ UNCHANGED <<present, loopVars, listVars, queue, audited, removed, stayed>>

-----------------------------------------------------------------------------
(* Meanwhile, other clients upload keys and delete them. *)

Upload(k) ==
  /\ k \notin present
  /\ present' = present \union {k}
  /\ UNCHANGED <<pc, loopVars, listVars, queue, logVars, removed, stayed>>

Delete(k) ==
  /\ k \in present
  /\ present' = present \ {k}
  /\ stayed' = [p \in Request |-> stayed[p] \ {k}]
  /\ UNCHANGED <<pc, loopVars, listVars, queue, logVars, removed>>

Proceed(q) ==
  \/ NextScope(q) \/ Finish(q)
  \/ ListMore(q) \/ ListLast(q) \/ ListNone(q)
  \/ \E k \in Key : Remove(q, k)
  \/ Audit(q)

Next ==
  \/ \E q \in Request : (\E V \in SUBSET Scope : Begin(q, V)) \/ Proceed(q) \/ Fault(q)
  \/ \E k \in Key : Upload(k) \/ Delete(k)

Spec == Init /\ [][Next]_vars

\* The calls of a request that was begun return; no fault and no client is owed.
FairSpec == Spec /\ \A q \in Request : WF_vars(Proceed(q))

-----------------------------------------------------------------------------
(* Properties *)

\* Only keys inside the chosen directories are removed.
ScopeRespected ==
  \A q \in Request : removed[q] \subseteq UNION {Under[v] : v \in asked[q]}

\* Unless the listing hit its cap, a key that was there when its prefix's listing
\* began is gone when the deletion of that prefix returns, whatever was uploaded
\* or deleted between two pages.
NothingMissed ==
  \A q \in Request :
    pc[q] = "delete" /\ queue[q] = {} /\ ~truncated[q] => stayed[q] = {}

\* A 404 touched nothing, and what a successful request removed is in its audit
\* lines.
AnswersHonest ==
  \A q \in Request :
    /\ answer[q] = "notfound" => removed[q] = {}
    /\ answer[q] = "deleted" => removed[q] \subseteq audited[q]

\* The inductive invariant behind the three: what has been listed so far, and
\* what the calls still to come will do.
RequestInv(q) ==
  /\ todo[q] \subseteq asked[q]
  /\ stayed[q] \subseteq present
  /\ removed[q] \subseteq UNION {Matches[v] : v \in asked[q]}
  /\ pc[q] # "done" => answer[q] = "none"
  /\ pc[q] = "idle" => removed[q] = {}
  /\ pc[q] \in {"idle", "next", "list"} => removed[q] \subseteq audited[q]
  /\ pc[q] \in {"list", "delete"} => scope[q] \in asked[q] /\ keys[q] \subseteq Matches[scope[q]]
  /\ pc[q] = "list" =>
       /\ stayed[q] \subseteq Matches[scope[q]]
       /\ \A k \in stayed[q] : k <= cursor[q] => k \in keys[q]
  /\ pc[q] = "delete" =>
       /\ queue[q] \subseteq keys[q]
       /\ removed[q] \subseteq audited[q] \union keys[q]
       /\ ~truncated[q] => stayed[q] \subseteq queue[q]

BulkInv == TypeOK /\ AnswersHonest /\ \A q \in Request : RequestInv(q)

\* What MaxPages costs, and no more: a listing is cut off only once it has collected
\* MaxPages * FetchSize keys of its prefix and another one is left, although keys come
\* and go between its pages;
ListingInv(q) ==
  /\ pc[q] = "list" =>
       /\ ~truncated[q]
       /\ Cardinality(keys[q]) = pages[q] * FetchSize
       /\ \A k \in keys[q] : k <= cursor[q]
  /\ truncated[q] =>
       /\ Cardinality(keys[q]) = MaxPages * FetchSize
       /\ keys[q] \subseteq Matches[scope[q]]
       /\ keys[q] # Matches[scope[q]]

\* so what stayed under a prefix that cannot have more keys is deleted, all of it.
CompleteUpToCap ==
  \A q \in Request :
    pc[q] = "delete" /\ queue[q] = {} /\ Cardinality(Matches[scope[q]]) <= MaxPages * FetchSize =>
      stayed[q] = {}

\* A request ends, however fast others upload under its prefixes.
RequestsEnd == \A q \in Request : pc[q] = "next" ~> pc[q] = "done"
===============================================================================
