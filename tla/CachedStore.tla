------------------------------ MODULE CachedStore ------------------------------
(***************************************************************************)
(* CachedArtifactStore (storage/cached.py): an S3 bucket shared by every   *)
(* replica, and in each replica a directory of whole files copied from it. *)
(* A write goes to the bucket and then to the cache of the replica it came *)
(* through; a read is answered by the cache or not at all if the key is    *)
(* cacheable, by the bucket if it is not; a delete removes the object and  *)
(* then evicts the copy of its own replica.                                *)
(*                                                                         *)
(* The bucket is external: put_object (IfNoneMatch when the repository     *)
(* forbids overwriting), get_object and delete_object are atomic there,    *)
(* and a call may take effect and still raise.  The cache is a LocalStore  *)
(* with every key overwritable, whose theorems let a write to it, a read   *)
(* and a removal be one step each.  As in the gateway, put asks head first *)
(* (routes_maven.py: exists, check_overwrite).                             *)
(***************************************************************************)

CONSTANTS
  Key,        \* storage keys
  Upload,     \* PUT requests; an upload also stands for its bytes
  Download,   \* GET requests
  Replica,    \* application replicas on the bucket
  Immutable,  \* keys of repositories with allow_overwrite = False
  Cacheable,  \* keys for which _is_cacheable holds
  Deletable,  \* keys that dashboard users delete
  Faults,     \* whether calls fail, readers leave and replicas crash
  None        \* no upload, key or replica

ASSUME CacheKeysAssumption ==
  Immutable \subseteq Key /\ Cacheable \subseteq Key /\ Deletable \subseteq Key
ASSUME CacheNoneAssumption == None \notin Key \union Upload \union Replica
ASSUME FaultsAssumption == Faults \in BOOLEAN

VARIABLES
  primary,    \* primary[k]: the object of the bucket, or None
  cache,      \* cache[r][k]: the copy r holds, or None
  pc,         \* pc[u]: the call u's put makes next
  target,     \* target[u]: the key u was put to, None before
  home,       \* home[u]: the replica that handles u
  answer,     \* answer[u]: what the client was told
  verdict,    \* history: what became of u in the bucket
  getpc,      \* getpc[d]: where d's get is
  wanted,     \* wanted[d]: the key d asks for
  via,        \* via[d]: the replica that handles d
  fd,         \* fd[d]: the bytes d is sent, None before
  evicting    \* <<r, k>>: a delete of k through r has still to evict the copy

putVars == <<pc, target, home, answer, verdict>>
getVars == <<getpc, wanted, via, fd>>
vars == <<primary, cache, pc, target, home, answer, verdict, getpc, wanted, via, fd, evicting>>

TypeOK ==
  /\ primary \in [Key -> Upload \union {None}]
  /\ cache \in [Replica -> [Key -> Upload \union {None}]]
  /\ pc \in [Upload -> {"idle", "primary", "populate", "done"}]
  /\ target \in [Upload -> Key \union {None}]
  /\ home \in [Upload -> Replica \union {None}]
  /\ answer \in [Upload -> {"none", "created", "conflict", "failed"}]
  /\ verdict \in [Upload -> {"none", "stored", "refused"}]
  /\ getpc \in [Download -> {"idle", "get", "cached", "primary", "served", "broken"}]
  /\ wanted \in [Download -> Key \union {None}]
  /\ via \in [Download -> Replica \union {None}]
  /\ fd \in [Download -> Upload \union {None}]
  /\ evicting \subseteq Replica \X Key

Init ==
  /\ primary = [k \in Key |-> None]
  /\ cache = [r \in Replica |-> [k \in Key |-> None]]
  /\ pc = [u \in Upload |-> "idle"]
  /\ target = [u \in Upload |-> None]
  /\ home = [u \in Upload |-> None]
  /\ answer = [u \in Upload |-> "none"]
  /\ verdict = [u \in Upload |-> "none"]
  /\ getpc = [d \in Download |-> "idle"]
  /\ wanted = [d \in Download |-> None]
  /\ via = [d \in Download |-> None]
  /\ fd = [d \in Download |-> None]
  /\ evicting = {}

-----------------------------------------------------------------------------
(* head *)

\* _is_cache_fresh is TRUE of every key that _is_cacheable admits.
Hit(r, k) == k \in Cacheable /\ cache[r][k] # None
Head(r, k) == IF Hit(r, k) THEN cache[r][k] ELSE primary[k]

\* d's get is between its head and its first chunk.
Getting(d) == getpc[d] \in {"get", "cached", "primary"}

-----------------------------------------------------------------------------
(* put *)

Return(u, a) == pc' = [pc EXCEPT ![u] = "done"] /\ answer' = [answer EXCEPT ![u] = a]
Decide(u, v) == verdict' = [verdict EXCEPT ![u] = v]
Copy(r, k, u) == cache' = [cache EXCEPT ![r][k] = u]

\* The finally clause of put: the spool file is unlinked on every way out, and an
\* unlink that fails raises in place of the outcome a.
Finish(u, a) == Return(u, a) \/ (Faults /\ Return(u, "failed"))

\* check_overwrite: the path is taken, by the word of the cache if it has one.
PutRefused(u, k, r) ==
  /\ pc[u] = "idle"
  /\ k \in Immutable
  /\ Head(r, k) # None
  /\ target' = [target EXCEPT ![u] = k]
  /\ home' = [home EXCEPT ![u] = r]
  /\ Return(u, "conflict")
  /\ Decide(u, "refused")
  /\ UNCHANGED <<primary, cache, getVars, evicting>>

\* Mutant: the copy is made before the bucket has accepted the upload.
PutCopiedFirst(u, k, r) ==
  /\ pc[u] = "idle"
  /\ k \in Immutable => Head(r, k) = None
  /\ target' = [target EXCEPT ![u] = k]
  /\ home' = [home EXCEPT ![u] = r]
  /\ pc' = [pc EXCEPT ![u] = "primary"]
  /\ Copy(r, k, u)
  /\ UNCHANGED <<primary, answer, verdict, getVars, evicting>>

\* The check passes and the body is spooled to a temporary file of the replica.
PutAdmitted(u, k, r) ==
  /\ pc[u] = "idle"
  /\ k \in Immutable => Head(r, k) = None
  /\ target' = [target EXCEPT ![u] = k]
  /\ home' = [home EXCEPT ![u] = r]
  /\ pc' = [pc EXCEPT ![u] = "primary"]
  /\ UNCHANGED <<primary, cache, answer, verdict, getVars, evicting>>

\* Spooling fails, the body breaks off, or the bucket refuses the call.
PutFails(u) ==
  /\ pc[u] = "primary"
  /\ Return(u, "failed")
  /\ UNCHANGED <<primary, cache, target, home, verdict, getVars, evicting>>

\* Mutant: put_object without IfNoneMatch.
PutPrimaryAlways(u) ==
  /\ pc[u] = "primary"
  /\ primary' = [primary EXCEPT ![target[u]] = u]
  /\ Decide(u, "stored")
  /\ IF target[u] \in Cacheable
     THEN pc' = [pc EXCEPT ![u] = "populate"] /\ answer' = answer
     ELSE Finish(u, "created")
  /\ UNCHANGED <<cache, target, home, getVars, evicting>>

\* put_object takes effect.  Only a cacheable key is copied afterwards.
PutPrimary(u) ==
  /\ pc[u] = "primary"
  /\ target[u] \in Immutable => primary[target[u]] = None
  /\ primary' = [primary EXCEPT ![target[u]] = u]
  /\ Decide(u, "stored")
  /\ IF target[u] \in Cacheable
     THEN pc' = [pc EXCEPT ![u] = "populate"] /\ answer' = answer
     ELSE Finish(u, "created")
  /\ UNCHANGED <<cache, target, home, getVars, evicting>>

\* put_object takes effect and its response is lost: nothing is copied.
PutPrimaryLost(u) ==
  /\ Faults
  /\ pc[u] = "primary"
  /\ target[u] \in Immutable => primary[target[u]] = None
  /\ primary' = [primary EXCEPT ![target[u]] = u]
  /\ Decide(u, "stored")
  /\ Return(u, "failed")
  /\ UNCHANGED <<cache, target, home, getVars, evicting>>

\* Mutant: 412 is taken for success and the refused bytes are copied.
PutPrimaryExistsCopied(u) ==
  /\ pc[u] = "primary"
  /\ target[u] \in Immutable
  /\ primary[target[u]] # None
  /\ Copy(home[u], target[u], u)
  /\ Decide(u, "refused")
  /\ Finish(u, "conflict")
  /\ UNCHANGED <<primary, target, home, getVars, evicting>>

\* 412 Precondition Failed: ConflictError.
PutPrimaryExists(u) ==
  /\ pc[u] = "primary"
  /\ target[u] \in Immutable
  /\ primary[target[u]] # None
  /\ Decide(u, "refused")
  /\ Finish(u, "conflict")
  /\ UNCHANGED <<primary, cache, target, home, getVars, evicting>>

\* self._cache.put(key, ..., if_none_match=False).
PutPopulate(u) ==
  /\ pc[u] = "populate"
  /\ Copy(home[u], target[u], u)
  /\ Finish(u, "created")
  /\ UNCHANGED <<primary, target, home, verdict, getVars, evicting>>

\* The cache cannot be written; the exception is swallowed.
PutPopulateFault(u) ==
  /\ Faults
  /\ pc[u] = "populate"
  /\ Finish(u, "created")
  /\ UNCHANGED <<primary, cache, target, home, verdict, getVars, evicting>>

-----------------------------------------------------------------------------
(* get, as get_artifact calls it *)

\* head finds the object (404 otherwise, and no get).
GetFound(d, k, r) ==
  /\ getpc[d] = "idle"
  /\ Head(r, k) # None
  /\ wanted' = [wanted EXCEPT ![d] = k]
  /\ via' = [via EXCEPT ![d] = r]
  /\ getpc' = [getpc EXCEPT ![d] = "get"]
  /\ UNCHANGED <<primary, cache, putVars, fd, evicting>>

\* The cache has the key: get returns the iterator of the cache's file.
GetHit(d) ==
  /\ getpc[d] = "get"
  /\ Hit(via[d], wanted[d])
  /\ getpc' = [getpc EXCEPT ![d] = "cached"]
  /\ UNCHANGED <<primary, cache, putVars, wanted, via, fd, evicting>>

\* The key is not for the cache: get returns an iterator that will call
\* get_object.
GetUncacheable(d) ==
  /\ getpc[d] = "get"
  /\ wanted[d] \notin Cacheable
  /\ getpc' = [getpc EXCEPT ![d] = "primary"]
  /\ UNCHANGED <<primary, cache, putVars, wanted, via, fd, evicting>>

\* A cacheable key that is not cached.  _stream_and_cache is a coroutine
\* function and get returns its coroutine without awaiting it, so the bucket is
\* not asked and no copy is made: the response's `async for' over a coroutine
\* raises a TypeError.
GetMiss(d) ==
  /\ getpc[d] = "get"
  /\ wanted[d] \in Cacheable
  /\ ~Hit(via[d], wanted[d])
  /\ getpc' = [getpc EXCEPT ![d] = "broken"]
  /\ UNCHANGED <<primary, cache, putVars, wanted, via, fd, evicting>>

\* The cached file is opened and streamed.
GetCached(d) ==
  /\ getpc[d] = "cached"
  /\ cache[via[d]][wanted[d]] # None
  /\ fd' = [fd EXCEPT ![d] = cache[via[d]][wanted[d]]]
  /\ getpc' = [getpc EXCEPT ![d] = "served"]
  /\ UNCHANGED <<primary, cache, putVars, wanted, via, evicting>>

\* get_object answers and its body is streamed.
GetPrimary(d) ==
  /\ getpc[d] = "primary"
  /\ primary[wanted[d]] # None
  /\ fd' = [fd EXCEPT ![d] = primary[wanted[d]]]
  /\ getpc' = [getpc EXCEPT ![d] = "served"]
  /\ UNCHANGED <<primary, cache, putVars, wanted, via, evicting>>

\* The file or the object is gone when it is to be opened.
GetGone(d) ==
  /\ \/ getpc[d] = "cached" /\ cache[via[d]][wanted[d]] = None
     \/ getpc[d] = "primary" /\ primary[wanted[d]] = None
  /\ getpc' = [getpc EXCEPT ![d] = "broken"]
  /\ UNCHANGED <<primary, cache, putVars, wanted, via, fd, evicting>>

\* A call fails, or the client leaves before the body is opened.
GetBroken(d) ==
  /\ Faults
  /\ Getting(d)
  /\ getpc' = [getpc EXCEPT ![d] = "broken"]
  /\ UNCHANGED <<primary, cache, putVars, wanted, via, fd, evicting>>

-----------------------------------------------------------------------------
(* delete, and each key of delete_many *)

\* The primary's NotFoundError for an absent object is raised before any
\* eviction, so a copy of it stays.
Delete(r, k) ==
  /\ k \in Deletable
  /\ primary[k] # None
  /\ primary' = [primary EXCEPT ![k] = None]
  /\ evicting' = evicting \union {<<r, k>>}
  /\ UNCHANGED <<cache, putVars, getVars>>

\* The object is removed and the call raises: delete_object's response is
\* lost, or a later key or batch of delete_many fails.  Nothing is evicted.
DeleteLost(k) ==
  /\ Faults
  /\ k \in Deletable
  /\ primary[k] # None
  /\ primary' = [primary EXCEPT ![k] = None]
  /\ UNCHANGED <<cache, putVars, getVars, evicting>>

\* Mutant: eviction removes the replica's whole directory.
EvictAll(r, k) ==
  /\ <<r, k>> \in evicting
  /\ evicting' = evicting \ {<<r, k>>}
  /\ cache' = [cache EXCEPT ![r] = None]
  /\ UNCHANGED <<primary, putVars, getVars>>

\* self._cache.delete(key).
Evict(r, k) ==
  /\ <<r, k>> \in evicting
  /\ evicting' = evicting \ {<<r, k>>}
  /\ Copy(r, k, None)
  /\ UNCHANGED <<primary, putVars, getVars>>

\* The copy cannot be removed; the exception is swallowed.
EvictFault(r, k) ==
  /\ Faults
  /\ <<r, k>> \in evicting
  /\ evicting' = evicting \ {<<r, k>>}
  /\ UNCHANGED <<primary, cache, putVars, getVars>>

-----------------------------------------------------------------------------
(* A replica dies.  Its cache is a directory of the container's volume: still  *)
(* there when the container restarts, gone when the pod is replaced.           *)

Running(u, r) == home[u] = r /\ pc[u] \in {"primary", "populate"}

Crash(r) ==
  /\ Faults
  /\ pc' = [u \in Upload |-> IF Running(u, r) THEN "done" ELSE pc[u]]
  /\ answer' = [u \in Upload |-> IF Running(u, r) THEN "failed" ELSE answer[u]]
  /\ getpc' = [d \in Download |->
       IF via[d] = r /\ Getting(d) THEN "broken" ELSE getpc[d]]
  /\ evicting' = {e \in evicting : e[1] # r}
  /\ \/ cache' = cache
     \/ cache' = [cache EXCEPT ![r] = [k \in Key |-> None]]
  /\ UNCHANGED <<primary, target, home, verdict, wanted, via, fd>>

Put(u) ==
  \/ \E k \in Key, r \in Replica : PutRefused(u, k, r) \/ PutAdmitted(u, k, r)
  \/ PutFails(u) \/ PutPrimary(u) \/ PutPrimaryLost(u) \/ PutPrimaryExists(u)
  \/ PutPopulate(u) \/ PutPopulateFault(u)

Get(d) ==
  \/ \E k \in Key, r \in Replica : GetFound(d, k, r)
  \/ GetHit(d) \/ GetUncacheable(d) \/ GetMiss(d)
  \/ GetCached(d) \/ GetPrimary(d) \/ GetGone(d) \/ GetBroken(d)

Remove(r, k) == Delete(r, k) \/ DeleteLost(k) \/ Evict(r, k) \/ EvictFault(r, k)

Next ==
  \/ \E u \in Upload : Put(u)
  \/ \E d \in Download : Get(d)
  \/ \E r \in Replica, k \in Key : Remove(r, k)
  \/ \E r \in Replica : Crash(r)

Spec == Init /\ [][Next]_vars

-----------------------------------------------------------------------------
(* Properties *)

\* A copy is of an upload the bucket accepted for that key: refused, failed and
\* half-streamed bytes never reach the cache, and keys that _is_cacheable
\* excludes (maven-metadata.xml, snapshots) have no copy at all.
CopiesWerePublished ==
  \A r \in Replica, k \in Key : cache[r][k] # None =>
    /\ verdict[cache[r][k]] = "stored"
    /\ target[cache[r][k]] = k
    /\ k \in Cacheable

\* The keys on which the cache cannot be stale: never copied, or never changed.
Faithful == (Key \ Cacheable) \union (Immutable \ Deletable)

\* Copies of artifacts that nobody overwrites or deletes are what the bucket
\* holds, in every replica, whatever fails.
StableCopies ==
  \A r \in Replica, k \in Immutable \ Deletable : cache[r][k] \in {None, primary[k]}

\* The inductive invariant behind them: what each call may rely on at its next
\* step, and where the bytes of the bucket came from.
PutInv ==
  \A u \in Upload :
    /\ pc[u] = "idle" <=> target[u] = None
    /\ pc[u] \in {"primary", "populate"} => home[u] \in Replica /\ answer[u] = "none"
    /\ pc[u] \in {"idle", "primary"} => answer[u] = "none" /\ verdict[u] = "none"
    /\ pc[u] = "populate" =>
         /\ verdict[u] = "stored"
         /\ target[u] \in Cacheable
         /\ target[u] \in Immutable \ Deletable => primary[target[u]] = u

GetInv ==
  \A d \in Download :
    /\ getpc[d] = "idle" \/ Getting(d) => fd[d] = None
    /\ Getting(d) => wanted[d] \in Key /\ via[d] \in Replica

PrimaryInv ==
  \A k \in Key : primary[k] # None =>
    verdict[primary[k]] = "stored" /\ target[primary[k]] = k

CacheInv ==
  TypeOK /\ CopiesWerePublished /\ StableCopies /\ PutInv /\ GetInv /\ PrimaryInv

\* On the faithful keys all the replicas together are one ArtifactRepository,
\* stale reads, lost updates and false conflicts excluded.
OfFaithful(u) == target[u] \in Faithful

Repo == INSTANCE ArtifactRepository WITH
  Key <- Faithful,
  Immutable <- Immutable \intersect Faithful,
  published <- [k \in Faithful |-> primary[k]],
  verdict <- [u \in Upload |-> IF OfFaithful(u) THEN verdict[u] ELSE "none"],
  reply <- [u \in Upload |-> IF OfFaithful(u) THEN answer[u] ELSE "none"],
  serving <- [d \in Download |-> IF wanted[d] \in Faithful THEN fd[d] ELSE None]

FaithfulImplementsRepository == Repo!Spec

\* No request that changes k is under way anywhere.
Quiet(k) ==
  /\ \A u \in Upload : target[u] = k => pc[u] = "done"
  /\ \A r \in Replica : <<r, k>> \notin evicting

\* README: "object storage as source of truth, with local cache".  When no
\* request is changing a key, a replica answers as the bucket would.
SourceOfTruth ==
  \A r \in Replica, k \in Key : Quiet(k) => Head(r, k) = primary[k]

\* "cache miss reads from primary" (cached.py): where nothing fails, a download
\* that head found breaks off only if its object was removed meanwhile.
MissesReadPrimary ==
  ~Faults => \A d \in Download : getpc[d] = "broken" => primary[wanted[d]] = None

\* What is left of them.  On the faithful keys every replica answers as the bucket
\* would, quiet or not;
FaithfulHeads ==
  \A r \in Replica, k \in Faithful : Head(r, k) = primary[k]

\* and a cacheable artifact is downloaded from the replica that it was uploaded
\* through, from no other: no read ever fills a cache.
OnlyUploadersServe ==
  /\ \A r \in Replica, k \in Key : cache[r][k] # None => home[cache[r][k]] = r
  /\ \A d \in Download : fd[d] # None /\ wanted[d] \in Cacheable => home[fd[d]] = via[d]
===============================================================================
