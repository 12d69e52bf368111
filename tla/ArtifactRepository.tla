-------------------------- MODULE ArtifactRepository --------------------------
(***************************************************************************)
(* What an ArtifactStore promises its callers (storage/base.py), with the  *)
(* files, the temporary files and the cache left out.  A path of a         *)
(* repository holds one whole upload or nothing.  An upload takes effect   *)
(* at most once, in one step; on a path whose repository forbids           *)
(* overwriting it is refused when the path is taken.  The reply comes      *)
(* later, or never: a failed upload may or may not have taken effect.      *)
(***************************************************************************)

CONSTANTS
  Key,        \* storage keys, "<repository>/<artifact path>"
  Upload,     \* PUT requests; an upload also stands for the bytes it sends
  Download,   \* GET requests
  Immutable,  \* the keys of repositories with allow_overwrite = False
  None        \* no upload

VARIABLES
  published,  \* the upload each key holds, or None
  verdict,    \* what the store decided about each upload
  reply,      \* what each upload's client was told
  serving     \* the upload each download is being sent, or None

vars == <<published, verdict, reply, serving>>

Verdicts == {"none", "stored", "refused"}
Replies == {"none", "created", "conflict", "failed"}

TypeOK ==
  /\ published \in [Key -> Upload \union {None}]
  /\ verdict \in [Upload -> Verdicts]
  /\ reply \in [Upload -> Replies]
  /\ serving \in [Download -> Upload \union {None}]

Init ==
  /\ published = [k \in Key |-> None]
  /\ verdict = [u \in Upload |-> "none"]
  /\ reply = [u \in Upload |-> "none"]
  /\ serving = [d \in Download |-> None]

-----------------------------------------------------------------------------

\* put takes effect (base.py: with if_none_match it "must fail when the
\* object already exists").
Publish(u, k) ==
  /\ verdict[u] = "none"
  /\ k \in Immutable => published[k] = None
  /\ published' = [published EXCEPT ![k] = u]
  /\ verdict' = [verdict EXCEPT ![u] = "stored"]
  /\ UNCHANGED <<reply, serving>>

\* put finds an immutable key taken.  The refusals of the code differ in when
\* the client hears of it, so the reply may come in the same step; and a put that
\* cannot clean up after a refusal fails instead.
Refuse(u, k) ==
  /\ verdict[u] = "none"
  /\ k \in Immutable
  /\ published[k] # None
  /\ verdict' = [verdict EXCEPT ![u] = "refused"]
  /\ \/ reply' = reply
     \/ /\ reply[u] = "none"
        /\ \E r \in {"conflict", "failed"} : reply' = [reply EXCEPT ![u] = r]
  /\ UNCHANGED <<published, serving>>

\* put returns or raises: success and conflict report the verdict, a failure
\* reports nothing.
Tell(u, r) ==
  /\ reply[u] = "none"
  /\ r = "created" => verdict[u] = "stored"
  /\ r = "conflict" => verdict[u] = "refused"
  /\ reply' = [reply EXCEPT ![u] = r]
  /\ UNCHANGED <<published, verdict, serving>>

\* The last thing put does is the one that takes effect: a rename, or the
\* bucket's put_object, whose response may also be lost.
PublishAndTell(u, k, r) ==
  /\ verdict[u] = "none"
  /\ reply[u] = "none"
  /\ k \in Immutable => published[k] = None
  /\ published' = [published EXCEPT ![k] = u]
  /\ verdict' = [verdict EXCEPT ![u] = "stored"]
  /\ reply' = [reply EXCEPT ![u] = r]
  /\ UNCHANGED serving

\* The process dies: every unanswered upload of a set goes without a reply
\* (its client sees a broken connection).
Drop(U) ==
  /\ \A u \in U : reply[u] = "none"
  /\ reply' = [u \in Upload |-> IF u \in U THEN "failed" ELSE reply[u]]
  /\ UNCHANGED <<published, verdict, serving>>

\* delete and each removal of delete_many.
Withdraw(k) ==
  /\ published' = [published EXCEPT ![k] = None]
  /\ UNCHANGED <<verdict, reply, serving>>

\* get: a download is served what its key holds when its file is opened.
Serve(d, k) ==
  /\ serving[d] = None
  /\ published[k] # None
  /\ serving' = [serving EXCEPT ![d] = published[k]]
  /\ UNCHANGED <<published, verdict, reply>>

Next ==
  \/ \E u \in Upload, k \in Key : Publish(u, k) \/ Refuse(u, k)
  \/ \E u \in Upload, k \in Key, r \in {"created", "failed"} : PublishAndTell(u, k, r)
  \/ \E u \in Upload, r \in Replies \ {"none"} : Tell(u, r)
  \/ \E U \in SUBSET Upload : Drop(U)
  \/ \E k \in Key : Withdraw(k)
  \/ \E d \in Download, k \in Key : Serve(d, k)

Spec == Init /\ [][Next]_vars

-----------------------------------------------------------------------------
(* What a caller may conclude from that *)

\* A client that was told 201 has its upload stored, one that was told 409 will
\* never see its bytes, under any key or in any download; and an upload is under
\* one key at most.
AnswersTrue ==
  /\ \A u \in Upload :
       /\ reply[u] = "created" => verdict[u] = "stored"
       /\ reply[u] = "conflict" =>
            (\A k \in Key : published[k] # u) /\ (\A d \in Download : serving[d] # u)
  /\ \A j, k \in Key : published[j] # None /\ published[j] = published[k] => j = k

\* Only a deletion takes the upload of an immutable key away: of any number of
\* uploads that race for the key the first stands.
FirstStands ==
  [][\A k \in Immutable \intersect Key :
       published[k] # None => published'[k] \in {published[k], None}]_vars

\* An upload takes effect at most once: one that was decided on does not appear
\* again under any key, whatever deletions and other uploads did in between.
EffectOnce ==
  [][\A k \in Key : published'[k] # published[k] /\ published'[k] # None =>
       verdict[published'[k]] = "none" /\ verdict'[published'[k]] = "stored"]_vars

\* What was decided, told or is being sent is not taken back.
NothingTakenBack ==
  [][/\ \A u \in Upload : /\ verdict[u] # "none" => verdict'[u] = verdict[u]
                          /\ reply[u] # "none" => reply'[u] = reply[u]
     /\ \A d \in Download : serving[d] # None => serving'[d] = serving[d]]_vars

Promises == []AnswersTrue /\ FirstStands /\ EffectOnce /\ NothingTakenBack

\* The inductive invariant behind the first: whatever is published or sent was
\* stored.
RepositoryInv ==
  /\ TypeOK
  /\ AnswersTrue
  /\ \A u \in Upload : reply[u] = "conflict" => verdict[u] = "refused"
  /\ \A k \in Key : published[k] # None => verdict[published[k]] = "stored"
  /\ \A d \in Download : serving[d] # None => verdict[serving[d]] = "stored"
===============================================================================
