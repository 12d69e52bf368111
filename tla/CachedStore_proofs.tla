--------------------------- MODULE CachedStore_proofs ---------------------------
(***************************************************************************)
(* CachedStore for any keys, replicas and requests, with and without       *)
(* faults.                                                                 *)
(***************************************************************************)
EXTENDS CachedStore, TLAPS

\* A step of a put keeps every variable of its type.
LEMMA PutTypes ==
  ASSUME CacheInv, NEW u \in Upload, Put(u)
  PROVE  TypeOK'
<1> USE CacheKeysAssumption, CacheNoneAssumption
    DEF CacheInv, TypeOK, PutInv, GetInv, Getting, putVars, getVars, Decide, Copy
<1>a. ASSUME NEW a \in {"created", "conflict", "failed"}, Return(u, a)
      PROVE  /\ pc' \in [Upload -> {"idle", "primary", "populate", "done"}]
             /\ answer' \in [Upload -> {"none", "created", "conflict", "failed"}]
  BY <1>a DEF Return
<1>b. ASSUME NEW a \in {"created", "conflict"}, Finish(u, a)
      PROVE  /\ pc' \in [Upload -> {"idle", "primary", "populate", "done"}]
             /\ answer' \in [Upload -> {"none", "created", "conflict", "failed"}]
  BY <1>a, <1>b DEF Finish
<1>1. ASSUME NEW k \in Key, NEW r \in Replica, PutRefused(u, k, r) PROVE TypeOK'
  BY <1>a, <1>1 DEF PutRefused, Head, Hit
<1>2. ASSUME NEW k \in Key, NEW r \in Replica, PutAdmitted(u, k, r) PROVE TypeOK'
  BY <1>2 DEF PutAdmitted
<1>3. CASE PutFails(u)
  BY <1>a, <1>3 DEF PutFails
<1>4. CASE PutPrimary(u)
  <2>1. CASE target[u] \in Cacheable
    BY <1>4, <2>1 DEF PutPrimary
  <2>2. CASE target[u] \notin Cacheable
    BY <1>4, <1>b, <2>2 DEF PutPrimary
  <2> QED BY <2>1, <2>2
<1>5. CASE PutPrimaryLost(u)
  BY <1>a, <1>5 DEF PutPrimaryLost
<1>6. CASE PutPrimaryExists(u)
  BY <1>b, <1>6 DEF PutPrimaryExists
<1>7. CASE PutPopulate(u)
  BY <1>b, <1>7 DEF PutPopulate
<1>8. CASE PutPopulateFault(u)
  BY <1>b, <1>8 DEF PutPopulateFault
<1> QED BY <1>1, <1>2, <1>3, <1>4, <1>5, <1>6, <1>7, <1>8 DEF Put

\* So does a step of a get.
LEMMA GetTypes ==
  ASSUME CacheInv, NEW d \in Download, Get(d)
  PROVE  TypeOK'
<1> USE CacheKeysAssumption, CacheNoneAssumption
    DEF CacheInv, TypeOK, PutInv, GetInv, Getting, putVars, getVars, Return, Finish, Decide, Copy
<1>1. ASSUME NEW k \in Key, NEW r \in Replica, GetFound(d, k, r) PROVE TypeOK'
  BY <1>1 DEF GetFound
<1>2. CASE GetHit(d)
  BY <1>2 DEF GetHit
<1>3. CASE GetUncacheable(d)
  BY <1>3 DEF GetUncacheable
<1>4. CASE GetMiss(d)
  BY <1>4 DEF GetMiss
<1>5. CASE GetCached(d)
  BY <1>5 DEF GetCached
<1>6. CASE GetPrimary(d)
  BY <1>6 DEF GetPrimary
<1>7. CASE GetGone(d)
  BY <1>7 DEF GetGone
<1>8. CASE GetBroken(d)
  BY <1>8 DEF GetBroken
<1> QED BY <1>1, <1>2, <1>3, <1>4, <1>5, <1>6, <1>7, <1>8 DEF Get

\* So do deletions, evictions and crashes.
LEMMA RemovalTypes ==
  ASSUME CacheInv,
         (\E r \in Replica, k \in Key : Remove(r, k)) \/ (\E r \in Replica : Crash(r))
  PROVE  TypeOK'
<1> USE CacheKeysAssumption, CacheNoneAssumption
    DEF CacheInv, TypeOK, PutInv, GetInv, Getting, putVars, getVars, Return, Finish, Decide, Copy
<1>1. ASSUME NEW r \in Replica, NEW k \in Key, Delete(r, k) PROVE TypeOK'
  BY <1>1 DEF Delete
<1>2. ASSUME NEW r \in Replica, NEW k \in Key, DeleteLost(k) PROVE TypeOK'
  BY <1>2 DEF DeleteLost
<1>3. ASSUME NEW r \in Replica, NEW k \in Key, Evict(r, k) PROVE TypeOK'
  BY <1>3 DEF Evict
<1>4. ASSUME NEW r \in Replica, NEW k \in Key, EvictFault(r, k) PROVE TypeOK'
  BY <1>4 DEF EvictFault
<1>5. ASSUME NEW r \in Replica, Crash(r) PROVE TypeOK'
  BY <1>5 DEF Crash, Running
<1> QED BY <1>1, <1>2, <1>3, <1>4, <1>5 DEF Remove

\* A put copies only what the bucket has taken: on a key that never changes
\* the copy is the object.
LEMMA PutStep ==
  ASSUME CacheInv, TypeOK', NEW u \in Upload, Put(u)
  PROVE  CacheInv'
<1> USE CacheKeysAssumption, CacheNoneAssumption
    DEF CacheInv, TypeOK, CopiesWerePublished, StableCopies, PutInv, GetInv, PrimaryInv,
        Getting, putVars, getVars, Return, Finish, Decide, Copy
<1>1. ASSUME NEW k \in Key, NEW r \in Replica, PutRefused(u, k, r) PROVE CacheInv'
  BY <1>1 DEF PutRefused, Head, Hit
<1>2. ASSUME NEW k \in Key, NEW r \in Replica, PutAdmitted(u, k, r) PROVE CacheInv'
  BY <1>2 DEF PutAdmitted
<1>3. CASE PutFails(u)
  BY <1>3 DEF PutFails
<1>4. CASE PutPrimary(u)
  BY <1>4 DEF PutPrimary
<1>5. CASE PutPrimaryLost(u)
  BY <1>5 DEF PutPrimaryLost
<1>6. CASE PutPrimaryExists(u)
  BY <1>6 DEF PutPrimaryExists
<1>7. CASE PutPopulate(u)
  BY <1>7 DEF PutPopulate
<1>8. CASE PutPopulateFault(u)
  BY <1>8 DEF PutPopulateFault
<1> QED BY <1>1, <1>2, <1>3, <1>4, <1>5, <1>6, <1>7, <1>8 DEF Put

\* A get changes neither the bucket nor a cache.
LEMMA GetStep ==
  ASSUME CacheInv, TypeOK', NEW d \in Download, Get(d)
  PROVE  CacheInv'
<1> USE CacheKeysAssumption, CacheNoneAssumption
    DEF CacheInv, TypeOK, CopiesWerePublished, StableCopies, PutInv, GetInv, PrimaryInv,
        Getting, putVars, getVars, Return, Finish, Decide, Copy
<1>1. ASSUME NEW k \in Key, NEW r \in Replica, GetFound(d, k, r) PROVE CacheInv'
  BY <1>1 DEF GetFound
<1>2. CASE GetHit(d)
  BY <1>2 DEF GetHit
<1>3. CASE GetUncacheable(d)
  BY <1>3 DEF GetUncacheable
<1>4. CASE GetMiss(d)
  BY <1>4 DEF GetMiss
<1>5. CASE GetCached(d)
  BY <1>5 DEF GetCached
<1>6. CASE GetPrimary(d)
  BY <1>6 DEF GetPrimary
<1>7. CASE GetGone(d)
  BY <1>7 DEF GetGone
<1>8. CASE GetBroken(d)
  BY <1>8 DEF GetBroken
<1> QED BY <1>1, <1>2, <1>3, <1>4, <1>5, <1>6, <1>7, <1>8 DEF Get

\* Deletions reach no stable key; evictions and crashes only drop copies.
LEMMA RemovalStep ==
  ASSUME CacheInv, TypeOK',
         (\E r \in Replica, k \in Key : Remove(r, k)) \/ (\E r \in Replica : Crash(r))
  PROVE  CacheInv'
<1> USE CacheKeysAssumption, CacheNoneAssumption
    DEF CacheInv, TypeOK, CopiesWerePublished, StableCopies, PutInv, GetInv, PrimaryInv,
        Getting, putVars, getVars, Return, Finish, Decide, Copy
<1>1. ASSUME NEW r \in Replica, NEW k \in Key, Delete(r, k) PROVE CacheInv'
  BY <1>1 DEF Delete
<1>2. ASSUME NEW r \in Replica, NEW k \in Key, DeleteLost(k) PROVE CacheInv'
  BY <1>2 DEF DeleteLost
<1>3. ASSUME NEW r \in Replica, NEW k \in Key, Evict(r, k) PROVE CacheInv'
  BY <1>3 DEF Evict
<1>4. ASSUME NEW r \in Replica, NEW k \in Key, EvictFault(r, k) PROVE CacheInv'
  BY <1>4 DEF EvictFault
<1>5. ASSUME NEW r \in Replica, Crash(r) PROVE CacheInv'
  <2>1. \A s \in Replica, k \in Key : cache'[s][k] \in {cache[s][k], None}
    <3>1. CASE cache' = cache
      BY <3>1
    <3>2. CASE cache' = [cache EXCEPT ![r] = [k \in Key |-> None]]
      BY ONLY <3>2, cache \in [Replica -> [Key -> Upload \union {None}]]
    <3> QED BY <1>5, <3>1, <3>2 DEF Crash
  <2>2. UNCHANGED <<primary, target, home, verdict, wanted, via, fd>>
    BY <1>5 DEF Crash
  <2>3. CopiesWerePublished' /\ StableCopies'
    BY <2>1, <2>2
  <2>4. PutInv'
    BY <1>5, <2>2 DEF Crash, Running
  <2>5. GetInv'
    BY <1>5, <2>2 DEF Crash, Getting
  <2>6. PrimaryInv'
    BY <2>2
  <2> QED BY <2>3, <2>4, <2>5, <2>6
<1> QED BY <1>1, <1>2, <1>3, <1>4, <1>5 DEF Remove

\* The inductive invariant holds in every reachable state.
THEOREM CacheInvariant == Spec => []CacheInv
<1>1. Init => CacheInv
  BY CacheNoneAssumption
  DEF Init, CacheInv, TypeOK, CopiesWerePublished, StableCopies, PutInv, GetInv, PrimaryInv,
      Getting
<1>2. CacheInv /\ [Next]_vars => CacheInv'
  <2> SUFFICES ASSUME CacheInv, [Next]_vars PROVE CacheInv'
    OBVIOUS
  <2>1. CASE Next
    BY <2>1, PutTypes, GetTypes, RemovalTypes, PutStep, GetStep, RemovalStep DEF Next
  <2>2. CASE UNCHANGED vars
    BY <2>2 DEF vars, CacheInv, TypeOK, CopiesWerePublished, StableCopies, PutInv, GetInv,
                PrimaryInv, Getting
  <2> QED BY <2>1, <2>2
<1> QED BY <1>1, <1>2, PTL DEF Spec

\* Every variable keeps its type.
THEOREM TypeCorrect == Spec => []TypeOK
<1>1. CacheInv => TypeOK
  BY DEF CacheInv
<1> QED BY <1>1, CacheInvariant, PTL

\* Whatever fails, no replica ever holds bytes the bucket did not accept.
THEOREM CopiesPublished == Spec => []CopiesWerePublished
<1>1. CacheInv => CopiesWerePublished
  BY DEF CacheInv
<1> QED BY <1>1, CacheInvariant, PTL

\* Copies of artifacts that are never overwritten or deleted are never stale.
THEOREM StableCopiesHold == Spec => []StableCopies
<1>1. CacheInv => StableCopies
  BY DEF CacheInv
<1> QED BY <1>1, CacheInvariant, PTL

-----------------------------------------------------------------------------
(* On the faithful keys the replicas implement ArtifactRepository. *)

\* What a step of a put is to a caller.
LEMMA PutRefines ==
  ASSUME CacheInv, TypeOK', NEW u \in Upload, Put(u)
  PROVE  [Repo!Next]_(Repo!vars)
<1> USE CacheKeysAssumption, CacheNoneAssumption
    DEF CacheInv, TypeOK, putVars, getVars, OfFaithful
<1> DEFINE replies == [v \in Upload |-> IF OfFaithful(v) THEN answer[v] ELSE "none"]
           verdicts == [v \in Upload |-> IF OfFaithful(v) THEN verdict[v] ELSE "none"]
           objects == [k \in Faithful |-> primary[k]]
           servings == [d \in Download |-> IF wanted[d] \in Faithful THEN fd[d] ELSE None]
           SameTarget == /\ \A v \in Upload \ {u} : target'[v] = target[v]
                         /\ target[u] \in {None, target'[u]}
<1>0. /\ Faithful \subseteq Key /\ None \notin Faithful
      /\ target[u] = None => answer[u] = "none" /\ verdict[u] = "none"
      /\ UNCHANGED servings
      /\ SameTarget
  <2>1. Faithful \subseteq Key /\ None \notin Faithful
    BY DEF Faithful
  <2>2. UNCHANGED <<wanted, fd>> /\ SameTarget
    BY DEF Put, PutRefused, PutAdmitted, PutFails, PutPrimary, PutPrimaryLost,
           PutPrimaryExists, PutPopulate, PutPopulateFault, PutInv
  <2> QED BY <2>1, <2>2 DEF PutInv
<1> HIDE DEF SameTarget
<1>1. ASSUME target'[u] \in Faithful, NEW a, answer' = [answer EXCEPT ![u] = a]
      PROVE  replies' = [replies EXCEPT ![u] = a] /\ replies[u] = answer[u]
  <2>1. \A v \in Upload : (IF OfFaithful(v) THEN answer[v] ELSE "none")'
          = IF v = u THEN a ELSE IF OfFaithful(v) THEN answer[v] ELSE "none"
    BY <1>0, <1>1 DEF SameTarget
  <2>2. replies' = [v \in Upload |-> IF v = u THEN a ELSE replies[v]]
    BY <2>1
  <2>3. replies[u] = answer[u]
    BY <1>0, <1>1 DEF SameTarget
  <2>4. DOMAIN replies = Upload
    OBVIOUS
  <2> HIDE DEF replies
  <2>5. replies' = [replies EXCEPT ![u] = a]
    BY ONLY <2>2, <2>4
  <2> QED BY <2>3, <2>5
<1>2. ASSUME target'[u] \in Faithful, NEW v, verdict' = [verdict EXCEPT ![u] = v]
      PROVE  verdicts' = [verdicts EXCEPT ![u] = v] /\ verdicts[u] = verdict[u]
  <2>1. \A w \in Upload : (IF OfFaithful(w) THEN verdict[w] ELSE "none")'
          = IF w = u THEN v ELSE IF OfFaithful(w) THEN verdict[w] ELSE "none"
    BY <1>0, <1>2 DEF SameTarget
  <2>2. verdicts' = [w \in Upload |-> IF w = u THEN v ELSE verdicts[w]]
    BY <2>1
  <2>3. verdicts[u] = verdict[u]
    BY <1>0, <1>2 DEF SameTarget
  <2>4. DOMAIN verdicts = Upload
    OBVIOUS
  <2> HIDE DEF verdicts
  <2>5. verdicts' = [verdicts EXCEPT ![u] = v]
    BY ONLY <2>2, <2>4
  <2> QED BY <2>3, <2>5
<1>3. UNCHANGED answer => UNCHANGED replies
  BY <1>0 DEF SameTarget
<1>4. UNCHANGED verdict => UNCHANGED verdicts
  BY <1>0 DEF SameTarget
<1> HIDE DEF replies, verdicts
<1>5. \A k \in Key \ {target'[u]} : primary'[k] = primary[k]
  BY DEF Put, PutRefused, PutAdmitted, PutFails, PutPrimary, PutPrimaryLost,
         PutPrimaryExists, PutPopulate, PutPopulateFault
<1>6. ASSUME target'[u] \notin Faithful PROVE UNCHANGED Repo!vars
  <2>1. UNCHANGED objects
    BY <1>0, <1>5, <1>6
  <2>2. \A v \in Upload \ {u} : answer'[v] = answer[v] /\ verdict'[v] = verdict[v]
    BY DEF Put, PutRefused, PutAdmitted, PutFails, PutPrimary, PutPrimaryLost,
           PutPrimaryExists, PutPopulate, PutPopulateFault, Return, Finish, Decide
  <2>3. UNCHANGED replies
    BY <1>0, <1>6, <2>2 DEF replies, SameTarget
  <2>4. UNCHANGED verdicts
    BY <1>0, <1>6, <2>2 DEF verdicts, SameTarget
  <2> QED BY <1>0, <2>1, <2>3, <2>4 DEF Repo!vars, replies, verdicts
<1>7. ASSUME target'[u] \in Faithful, NEW k \in Key, NEW r \in Replica, PutRefused(u, k, r)
      PROVE  Repo!Next
  <2>1. k = target'[u] /\ objects[k] # None /\ UNCHANGED objects
    BY <1>7 DEF PutRefused, Head, Hit, StableCopies, Faithful
  <2>2. replies' = [replies EXCEPT ![u] = "conflict"] /\ replies[u] = "none"
    BY <1>1, <1>7 DEF PutRefused, Return, PutInv
  <2>3. verdicts' = [verdicts EXCEPT ![u] = "refused"] /\ verdicts[u] = "none"
    BY <1>2, <1>7 DEF PutRefused, Decide, PutInv
  <2>4. Repo!Refuse(u, k)
    BY <1>0, <1>7, <2>1, <2>2, <2>3 DEF Repo!Refuse, PutRefused, replies, verdicts
  <2> QED BY <1>7, <2>1, <2>4 DEF Repo!Next
<1>8. ASSUME NEW k \in Key, NEW r \in Replica, PutAdmitted(u, k, r)
      PROVE  UNCHANGED Repo!vars
  <2>1. UNCHANGED <<replies, verdicts>> /\ UNCHANGED objects
    BY <1>3, <1>4, <1>8 DEF PutAdmitted
  <2> QED BY <1>0, <2>1 DEF Repo!vars, replies, verdicts
<1>9. ASSUME target'[u] \in Faithful, NEW a \in {"created", "failed"},
             Return(u, a), pc[u] \in {"primary", "populate"},
             a = "created" => verdict[u] = "stored",
             UNCHANGED <<primary, verdict>>
      PROVE  Repo!Next
  <2>1. replies' = [replies EXCEPT ![u] = a] /\ replies[u] = "none"
    BY <1>1, <1>9 DEF Return, PutInv
  <2>2. UNCHANGED verdicts /\ UNCHANGED objects
    BY <1>4, <1>9
  <2>3. a = "created" => verdicts[u] = "stored"
    BY <1>0, <1>9 DEF verdicts, PutInv, SameTarget
  <2>4. Repo!Tell(u, a)
    BY <1>0, <1>9, <2>1, <2>2, <2>3 DEF Repo!Tell, replies, verdicts
  <2> QED BY <2>4 DEF Repo!Next, Repo!Replies
<1>10. ASSUME target'[u] \in Faithful, PutFails(u) \/ PutPopulate(u) \/ PutPopulateFault(u)
       PROVE  Repo!Next
  <2>1. CASE PutFails(u)
    BY <1>9, <1>10, <2>1 DEF PutFails
  <2>2. CASE PutPopulate(u) \/ PutPopulateFault(u)
    <3>1. Return(u, "created") \/ Return(u, "failed")
      BY <2>2 DEF PutPopulate, PutPopulateFault, Finish
    <3>2. /\ pc[u] = "populate" /\ verdict[u] = "stored"
          /\ UNCHANGED <<primary, verdict>>
      BY <2>2 DEF PutPopulate, PutPopulateFault, PutInv
    <3> QED BY <1>9, <1>10, <3>1, <3>2
  <2> QED BY <1>10, <2>1, <2>2
<1>11. ASSUME target'[u] \in Faithful, pc[u] = "primary", UNCHANGED target,
              primary' = [primary EXCEPT ![target[u]] = u], Decide(u, "stored"),
              target[u] \in Immutable => primary[target[u]] = None
       PROVE  /\ objects' = [objects EXCEPT ![target[u]] = u]
              /\ target[u] \in Immutable => objects[target[u]] = None
              /\ verdicts' = [verdicts EXCEPT ![u] = "stored"] /\ verdicts[u] = "none"
  <2>1. objects' = [objects EXCEPT ![target[u]] = u]
    BY <1>0, <1>11
  <2>2. verdicts' = [verdicts EXCEPT ![u] = "stored"] /\ verdicts[u] = "none"
    BY <1>2, <1>11 DEF Decide, PutInv
  <2> QED BY <1>11, <2>1, <2>2
<1>12. ASSUME target'[u] \in Faithful, NEW a \in {"created", "failed"}, Return(u, a),
              PutPrimary(u) \/ PutPrimaryLost(u)
       PROVE  Repo!Next
  <2>1. replies' = [replies EXCEPT ![u] = a] /\ replies[u] = "none"
    BY <1>1, <1>12 DEF Return, PutInv, PutPrimary, PutPrimaryLost
  <2>2. PICK k \in Faithful : k = target[u]
    BY <1>12 DEF PutPrimary, PutPrimaryLost
  <2>3. Repo!PublishAndTell(u, k, a)
    BY <1>0, <1>11, <1>12, <2>1, <2>2
    DEF PutPrimary, PutPrimaryLost, Repo!PublishAndTell, replies, verdicts
  <2> QED BY <2>3 DEF Repo!Next
<1>13. ASSUME target'[u] \in Faithful, PutPrimary(u), target[u] \in Cacheable
       PROVE  Repo!Next
  <2>1. UNCHANGED replies
    BY <1>3, <1>13 DEF PutPrimary
  <2>2. PICK k \in Faithful : k = target[u]
    BY <1>13 DEF PutPrimary
  <2>3. Repo!Publish(u, k)
    BY <1>0, <1>11, <1>13, <2>1, <2>2 DEF PutPrimary, Repo!Publish, replies, verdicts
  <2> QED BY <2>3 DEF Repo!Next
<1>14. ASSUME target'[u] \in Faithful, PutPrimaryExists(u) PROVE Repo!Next
  <2>1. PICK a \in {"conflict", "failed"} : Return(u, a)
    BY <1>14 DEF PutPrimaryExists, Finish
  <2>5. replies' = [replies EXCEPT ![u] = a] /\ replies[u] = "none"
    BY <1>1, <1>14, <2>1 DEF PutPrimaryExists, Return, PutInv
  <2>2. verdicts' = [verdicts EXCEPT ![u] = "refused"] /\ verdicts[u] = "none"
    BY <1>2, <1>14 DEF PutPrimaryExists, Decide, PutInv
  <2>3. PICK k \in Faithful : k = target[u]
    BY <1>14 DEF PutPrimaryExists
  <2>4. Repo!Refuse(u, k)
    BY <1>0, <1>14, <2>2, <2>3, <2>5 DEF PutPrimaryExists, Repo!Refuse, replies, verdicts
  <2> QED BY <2>4 DEF Repo!Next
<1>15. PutPrimary(u) =>
         target[u] \in Cacheable \/ Return(u, "created") \/ Return(u, "failed")
  BY DEF PutPrimary, Finish
<1>16. PutPrimaryLost(u) => Return(u, "failed")
  BY DEF PutPrimaryLost
<1> QED BY <1>6, <1>7, <1>8, <1>10, <1>12, <1>13, <1>14, <1>15, <1>16 DEF Put

\* What a step of a get is to a caller: a copy of a faithful key that a get
\* opens is the object itself.
LEMMA GetRefines ==
  ASSUME CacheInv, TypeOK', NEW d \in Download, Get(d)
  PROVE  [Repo!Next]_(Repo!vars)
<1> USE CacheKeysAssumption, CacheNoneAssumption
    DEF CacheInv, TypeOK, putVars, getVars, OfFaithful
<1> DEFINE servings == [e \in Download |-> IF wanted[e] \in Faithful THEN fd[e] ELSE None]
<1>1. UNCHANGED <<primary, target, answer, verdict>>
  BY DEF Get, GetFound, GetHit, GetUncacheable, GetMiss, GetCached, GetPrimary, GetGone,
         GetBroken
<1>2. UNCHANGED servings => UNCHANGED Repo!vars
  BY <1>1 DEF Repo!vars
<1>3. ASSUME NEW k \in Key, NEW r \in Replica, GetFound(d, k, r)
      PROVE  UNCHANGED servings
  <2>1. fd[d] = None /\ \A e \in Download \ {d} : wanted'[e] = wanted[e]
    BY <1>3 DEF GetFound, GetInv
  <2> QED BY <1>3, <2>1 DEF GetFound
<1>4. ASSUME GetHit(d) \/ GetUncacheable(d) \/ GetMiss(d) \/ GetGone(d) \/ GetBroken(d)
      PROVE  UNCHANGED servings
  BY <1>4 DEF GetHit, GetUncacheable, GetMiss, GetGone, GetBroken
<1>5. ASSUME GetCached(d) \/ GetPrimary(d), wanted[d] \notin Faithful
      PROVE  UNCHANGED servings
  BY <1>5 DEF GetCached, GetPrimary
<1>6. ASSUME GetCached(d) \/ GetPrimary(d), wanted[d] \in Faithful
      PROVE  Repo!Next
  <2>1. primary[wanted[d]] # None /\ fd' = [fd EXCEPT ![d] = primary[wanted[d]]]
    BY <1>6 DEF GetCached, GetPrimary, GetInv, Getting, CopiesWerePublished, StableCopies,
                Faithful
  <2>2. UNCHANGED wanted /\ fd[d] = None
    BY <1>6 DEF GetCached, GetPrimary, GetInv, Getting
  <2>3. servings' = [servings EXCEPT ![d] = primary[wanted[d]]] /\ servings[d] = None
    BY <1>6, <2>1, <2>2
  <2>4. PICK k \in Faithful : k = wanted[d]
    BY <1>6
  <2>5. Repo!Serve(d, k)
    BY <1>1, <1>6, <2>1, <2>3, <2>4 DEF Repo!Serve
  <2> QED BY <2>5 DEF Repo!Next
<1> QED BY <1>2, <1>3, <1>4, <1>5, <1>6 DEF Get

\* What deletions, evictions and crashes are to a caller.
LEMMA RemovalRefines ==
  ASSUME CacheInv, TypeOK',
         (\E r \in Replica, k \in Key : Remove(r, k)) \/ (\E r \in Replica : Crash(r))
  PROVE  [Repo!Next]_(Repo!vars)
<1> USE CacheKeysAssumption, CacheNoneAssumption
    DEF CacheInv, TypeOK, putVars, getVars, OfFaithful
<1>1. ASSUME NEW r \in Replica, NEW k \in Key, Delete(r, k) \/ DeleteLost(k)
      PROVE  [Repo!Next]_(Repo!vars)
  <2>1. primary' = [primary EXCEPT ![k] = None] /\ UNCHANGED <<putVars, getVars>>
    BY <1>1 DEF Delete, DeleteLost
  <2>2. CASE k \in Faithful
    <3>1. [j \in Faithful |-> primary'[j]]
            = [[j \in Faithful |-> primary[j]] EXCEPT ![k] = None]
      BY <2>1, <2>2 DEF Faithful
    <3>2. Repo!Withdraw(k)
      BY <2>1, <3>1 DEF Repo!Withdraw
    <3> QED BY <2>2, <3>2 DEF Repo!Next
  <2>3. CASE k \notin Faithful
    BY <2>1, <2>3 DEF Repo!vars, Faithful
  <2> QED BY <2>2, <2>3
<1>2. ASSUME NEW r \in Replica, NEW k \in Key, Evict(r, k) \/ EvictFault(r, k)
      PROVE  UNCHANGED Repo!vars
  BY <1>2 DEF Evict, EvictFault, Repo!vars
<1>3. ASSUME NEW r \in Replica, Crash(r) PROVE Repo!Next
  <2>1. PICK U \in SUBSET Upload : U = {u \in Upload : Running(u, r) /\ OfFaithful(u)}
    OBVIOUS
  <2>2. Repo!Drop(U)
    BY <1>3, <2>1 DEF Crash, Repo!Drop, Running, PutInv
  <2> QED BY <2>2 DEF Repo!Next
<1> QED BY <1>1, <1>2, <1>3 DEF Remove

\* On keys that are never cached, or never overwritten and never deleted, any
\* number of replicas with their caches keep the promises of ArtifactStore.
THEOREM Refinement == Spec => FaithfulImplementsRepository
<1>1. Init => Repo!Init
  BY CacheKeysAssumption, CacheNoneAssumption DEF Init, Repo!Init, Faithful, OfFaithful
<1>2. CacheInv /\ [Next]_vars => [Repo!Next]_(Repo!vars)
  <2> SUFFICES ASSUME CacheInv, [Next]_vars PROVE [Repo!Next]_(Repo!vars)
    OBVIOUS
  <2>1. CASE Next
    BY <2>1, PutTypes, GetTypes, RemovalTypes, PutRefines, GetRefines, RemovalRefines
    DEF Next
  <2>2. CASE UNCHANGED vars
    BY <2>2 DEF vars, OfFaithful, Repo!vars
  <2> QED BY <2>1, <2>2
<1> QED
  BY <1>1, <1>2, CacheInvariant, PTL DEF Spec, FaithfulImplementsRepository, Repo!Spec

-----------------------------------------------------------------------------
(* What that gives its callers *)

Proved == INSTANCE ArtifactRepository_proofs WITH
  Key <- Faithful,
  Immutable <- Immutable \intersect Faithful,
  published <- [k \in Faithful |-> primary[k]],
  verdict <- [u \in Upload |-> IF OfFaithful(u) THEN verdict[u] ELSE "none"],
  reply <- [u \in Upload |-> IF OfFaithful(u) THEN answer[u] ELSE "none"],
  serving <- [d \in Download |-> IF wanted[d] \in Faithful THEN fd[d] ELSE None]

\* An ArtifactRepository of the faithful keys keeps its promises.
LEMMA RepositoryPromises == Repo!Spec => Repo!Promises
<1> USE DEF Repo!Next, Proved!Next, Repo!vars, Proved!vars, Repo!Publish, Proved!Publish,
        Repo!Refuse, Proved!Refuse, Repo!Tell, Proved!Tell, Repo!PublishAndTell,
        Proved!PublishAndTell, Repo!Drop, Proved!Drop, Repo!Withdraw, Proved!Withdraw,
        Repo!Serve, Proved!Serve, Repo!Replies, Proved!Replies
<1>1. Repo!Init => Proved!Init
  BY DEF Repo!Init, Proved!Init
<1>2. [Repo!Next]_(Repo!vars) => [Proved!Next]_(Proved!vars)
  OBVIOUS
<1>3. Repo!Spec => Proved!Spec
  BY <1>1, <1>2, PTL DEF Repo!Spec, Proved!Spec
<1>4. Proved!Promises => Repo!Promises
  BY DEF Proved!Promises, Repo!Promises, Proved!AnswersTrue, Repo!AnswersTrue,
     Proved!FirstStands, Repo!FirstStands, Proved!EffectOnce, Repo!EffectOnce,
     Proved!NothingTakenBack, Repo!NothingTakenBack
<1>5. None \notin Upload
  BY CacheNoneAssumption
<1> QED BY <1>3, <1>4, <1>5, Proved!PromisesKept

\* On the faithful keys, whichever replicas the requests go through: 409 means that
\* no client of any replica ever sees those bytes, an immutable object goes by a
\* deletion only, and no upload takes effect twice.
THEOREM PromisesKept == Spec => Repo!Promises
BY Refinement, RepositoryPromises DEF FaithfulImplementsRepository

-----------------------------------------------------------------------------
(* What is left of SourceOfTruth and MissesReadPrimary *)

\* Where SourceOfTruth cannot fail: on keys that are never cached, or never
\* overwritten and never deleted, every replica answers head and check_overwrite
\* as the bucket would, at any time.
THEOREM FaithfulHeadsHold == Spec => []FaithfulHeads
<1>1. CacheInv => FaithfulHeads
  BY DEF CacheInv, StableCopies, FaithfulHeads, Faithful, Head, Hit
<1> QED BY <1>1, CacheInvariant, PTL

\* OnlyUploadersServe is inductive with what a get that goes to the bucket asks
\* for, and with the downloads' bytes being the bucket's.
ServedInv ==
  /\ OnlyUploadersServe
  /\ \A d \in Download :
       /\ getpc[d] = "primary" => wanted[d] \notin Cacheable
       /\ fd[d] # None => verdict[fd[d]] = "stored"

\* A put gives a home to an upload that nobody has yet, and copies it there.
LEMMA PutServed ==
  ASSUME CacheInv, TypeOK', ServedInv, NEW u \in Upload, Put(u)
  PROVE  ServedInv'
<1> USE CacheNoneAssumption DEF CacheInv, TypeOK, putVars, getVars
<1>1. \A v \in Upload : verdict[v] = "stored" => verdict'[v] = "stored" /\ home'[v] = home[v]
  BY DEF Put, PutRefused, PutAdmitted, PutFails, PutPrimary, PutPrimaryLost, PutPrimaryExists,
     PutPopulate, PutPopulateFault, PutInv, Return, Finish, Decide
<1>2. UNCHANGED getVars
  BY DEF Put, PutRefused, PutAdmitted, PutFails, PutPrimary, PutPrimaryLost, PutPrimaryExists,
     PutPopulate, PutPopulateFault
<1>3. ASSUME NEW r \in Replica, NEW k \in Key
      PROVE  cache'[r][k] = cache[r][k] \/ (cache'[r][k] = u /\ home'[u] = r)
  <2>1. CASE PutPopulate(u)
    <3>1. cache' = [cache EXCEPT ![home[u]][target[u]] = u] /\ home' = home
      BY <2>1 DEF PutPopulate, Copy
    <3>2. home[u] \in Replica
      BY <2>1 DEF PutPopulate, PutInv
    <3>3. CASE r = home[u] /\ k = target[u]
      BY <3>1, <3>2, <3>3
    <3>4. CASE r # home[u] \/ k # target[u]
      BY <3>1, <3>2, <3>4
    <3> QED BY <3>3, <3>4
  <2>2. CASE ~PutPopulate(u)
    BY <2>2 DEF Put, PutRefused, PutAdmitted, PutFails, PutPrimary, PutPrimaryLost,
       PutPrimaryExists, PutPopulateFault
  <2> QED BY <2>1, <2>2
<1> QED BY <1>1, <1>2, <1>3 DEF ServedInv, OnlyUploadersServe, CopiesWerePublished

\* A get of a cacheable key opens the copy of its own replica.
LEMMA GetServed ==
  ASSUME CacheInv, TypeOK', ServedInv, NEW d \in Download, Get(d)
  PROVE  ServedInv'
<1> USE CacheNoneAssumption DEF CacheInv, TypeOK, putVars, getVars
<1>1. UNCHANGED <<primary, cache, home, verdict>>
  BY DEF Get, GetFound, GetHit, GetUncacheable, GetMiss, GetCached, GetPrimary, GetGone, GetBroken
<1>2. \A e \in Download \ {d} :
        getpc'[e] = getpc[e] /\ wanted'[e] = wanted[e] /\ via'[e] = via[e] /\ fd'[e] = fd[e]
  BY DEF Get, GetFound, GetHit, GetUncacheable, GetMiss, GetCached, GetPrimary, GetGone, GetBroken
<1>3. getpc'[d] = "primary" => wanted'[d] \notin Cacheable
  BY DEF Get, GetFound, GetHit, GetUncacheable, GetMiss, GetCached, GetPrimary, GetGone, GetBroken
<1>4. \/ fd'[d] = None
      \/ UNCHANGED <<wanted, via, fd>>
      \/ UNCHANGED <<wanted, via>> /\ GetCached(d)
      \/ UNCHANGED <<wanted, via>> /\ GetPrimary(d)
  BY DEF Get, GetFound, GetHit, GetUncacheable, GetMiss, GetCached, GetPrimary, GetGone, GetBroken,
     GetInv
<1>5. ASSUME GetCached(d) \/ GetPrimary(d)
      PROVE  /\ fd'[d] # None => verdict[fd'[d]] = "stored"
             /\ fd'[d] # None /\ wanted[d] \in Cacheable => home[fd'[d]] = via[d]
  BY <1>5 DEF GetCached, GetPrimary, ServedInv, OnlyUploadersServe, CopiesWerePublished,
     PrimaryInv, GetInv, Getting
<1>6. /\ fd'[d] # None => verdict[fd'[d]] = "stored"
      /\ fd'[d] # None /\ wanted'[d] \in Cacheable => home[fd'[d]] = via'[d]
  BY <1>4, <1>5 DEF ServedInv, OnlyUploadersServe
<1>7. OnlyUploadersServe'
  BY <1>1, <1>2, <1>6 DEF ServedInv, OnlyUploadersServe
<1>8. ASSUME NEW e \in Download
      PROVE  /\ getpc'[e] = "primary" => wanted'[e] \notin Cacheable
             /\ fd'[e] # None => verdict'[fd'[e]] = "stored"
  BY <1>1, <1>2, <1>3, <1>6 DEF ServedInv
<1> QED BY <1>7, <1>8 DEF ServedInv

\* A deletion, an eviction or a crash makes no copy and serves nothing.
LEMMA RemovalServed ==
  ASSUME CacheInv, TypeOK', ServedInv,
         (\E r \in Replica, k \in Key : Remove(r, k)) \/ (\E r \in Replica : Crash(r))
  PROVE  ServedInv'
<1> DEFINE NoCopy == \A s \in Replica, k \in Key : cache'[s][k] \in {cache[s][k], None}
<1> USE CacheNoneAssumption DEF CacheInv, TypeOK, putVars, getVars
<1>1. UNCHANGED <<home, verdict, wanted, via, fd>>
  BY DEF Remove, Delete, DeleteLost, Evict, EvictFault, Crash
<1>2. \A d \in Download : getpc'[d] \in {getpc[d], "broken"}
  <2>1. ASSUME NEW r \in Replica, NEW k \in Key, Remove(r, k) PROVE getpc' = getpc
    BY <2>1 DEF Remove, Delete, DeleteLost, Evict, EvictFault
  <2>2. ASSUME NEW r \in Replica, Crash(r), NEW d \in Download
        PROVE  getpc'[d] \in {getpc[d], "broken"}
    BY <2>2 DEF Crash
  <2> QED BY <2>1, <2>2
<1>3. NoCopy
  <2>1. ASSUME NEW r \in Replica, NEW k \in Key, Remove(r, k) PROVE NoCopy
    BY <2>1 DEF Remove, Delete, DeleteLost, Evict, EvictFault, Copy
  <2>2. ASSUME NEW r \in Replica, Crash(r), cache' # cache PROVE NoCopy
    BY ONLY <2>2, cache \in [Replica -> [Key -> Upload \union {None}]] DEF Crash
  <2> QED BY <2>1, <2>2
<1> QED BY <1>1, <1>2, <1>3 DEF ServedInv, OnlyUploadersServe

\* Where MissesReadPrimary fails: since a miss is never answered by the bucket, a
\* cacheable artifact is served by the replica it was uploaded through and by no
\* other, however many replicas there are and whatever is evicted or lost.
THEOREM OnlyUploadersServeHolds == Spec => []OnlyUploadersServe
<1>1. Init => ServedInv
  BY DEF Init, ServedInv, OnlyUploadersServe
<1>2. CacheInv /\ CacheInv' /\ ServedInv /\ [Next]_vars => ServedInv'
  <2> SUFFICES ASSUME CacheInv, CacheInv', ServedInv, [Next]_vars PROVE ServedInv'
    OBVIOUS
  <2>1. CASE Next
    BY <2>1, PutServed, GetServed, RemovalServed DEF Next, CacheInv
  <2>2. CASE UNCHANGED vars
    BY <2>2 DEF vars, ServedInv, OnlyUploadersServe
  <2> QED BY <2>1, <2>2
<1>3. ServedInv => OnlyUploadersServe
  BY DEF ServedInv
<1> QED BY <1>1, <1>2, <1>3, CacheInvariant, PTL DEF Spec
===============================================================================
