--------------------------- MODULE LocalStore_proofs ---------------------------
(***************************************************************************)
(* LocalStore for any keys, any number of requests and any body length.    *)
(***************************************************************************)
EXTENDS LocalStore, TLAPS

\* A step keeps every variable of its type.  GetInv tells
\* that a get opens a key and reads an inode.
LEMMA TypeStep ==
  ASSUME StoreInv, [Next]_vars
  PROVE  TypeOK'
<1> USE KeysAssumption, NamesAssumption, ChunksAssumption DEF StoreInv
<1> USE DEF TypeOK, PutPcs, GetPcs, Answers, putVars, getVars, Goto, Raise, Decide
<1>1. ASSUME NEW u \in Upload, NEW k \in Key,
             PutRefused(u, k) \/ PutAdmitted(u, k) \/ PutNoDirectory(u, k)
      PROVE TypeOK'
  BY <1>1 DEF PutRefused, PutAdmitted, PutNoDirectory
<1>2. ASSUME NEW u \in Upload,
             PutOpen(u) \/ PutWrite(u) \/ PutClose(u) \/ PutBroken(u) \/ PutFault(u)
      PROVE TypeOK'
  <2>1. CASE PutOpen(u)
    BY <2>1 DEF PutOpen
  <2>2. CASE PutWrite(u)
    BY <2>2 DEF PutWrite
  <2>3. CASE PutClose(u)
    BY <2>3 DEF PutClose
  <2>4. CASE PutBroken(u)
    BY <2>4 DEF PutBroken
  <2>5. CASE PutFault(u)
    BY <2>5 DEF PutFault
  <2> QED BY <1>2, <2>1, <2>2, <2>3, <2>4, <2>5
<1>3. ASSUME NEW u \in Upload,
             \/ PutTempGone(u) \/ PutLink(u) \/ PutLinkExists(u) \/ PutReplace(u)
             \/ PutUnlink(u) \/ PutUnlinkFault(u)
      PROVE TypeOK'
  <2>1. CASE PutTempGone(u)
    BY <2>1 DEF PutTempGone
  <2>2. CASE PutLink(u)
    BY <2>2 DEF PutLink
  <2>3. CASE PutLinkExists(u)
    BY <2>3 DEF PutLinkExists
  <2>4. CASE PutReplace(u)
    BY <2>4 DEF PutReplace
  <2>5. CASE PutUnlink(u)
    BY <2>5 DEF PutUnlink
  <2>6. CASE PutUnlinkFault(u)
    BY <2>6 DEF PutUnlinkFault
  <2> QED BY <1>3, <2>1, <2>2, <2>3, <2>4, <2>5, <2>6
<1>4. ASSUME NEW d \in Download, Get(d)
      PROVE TypeOK'
  <2>1. ASSUME NEW k \in Key, GetFound(d, k) PROVE TypeOK'
    BY <2>1 DEF GetFound
  <2>2. CASE GetOpen(d)
    BY <2>2 DEF GetOpen, GetInv
  <2>3. CASE GetRead(d)
    BY <2>3 DEF GetRead, GetInv
  <2>4. CASE GetBroken(d)
    BY <2>4 DEF GetBroken
  <2> QED BY <1>4, <2>1, <2>2, <2>3, <2>4 DEF Get
<1>5. ASSUME NEW k \in Key, Delete(k) PROVE TypeOK'
  BY <1>5 DEF Delete
<1>6. ASSUME NEW p \in Purge, BulkDelete(p) PROVE TypeOK'
  <2>1. ASSUME NEW P \in Prefixes, PurgeList(p, P) PROVE TypeOK'
    BY <2>1 DEF PurgeList, Listing
  <2>2. ASSUME NEW n \in Key \union Upload, PurgeRemove(p, n) PROVE TypeOK'
    BY <2>2 DEF PurgeRemove
  <2>3. CASE PurgeFault(p)
    BY <2>3 DEF PurgeFault
  <2> QED BY <1>6, <2>1, <2>2, <2>3 DEF BulkDelete
<1>7. CASE Crash
  BY <1>7 DEF Crash, InFlight
<1>8. CASE UNCHANGED vars
  BY <1>8 DEF vars
<1> QED BY <1>1, <1>2, <1>3, <1>4, <1>5, <1>6, <1>7, <1>8 DEF Next, Put

\* A step of a put keeps the rest of the invariant: only PutLink and PutReplace
\* set a name, and both come after the whole body is in the file.
LEMMA PutStep ==
  ASSUME StoreInv, TypeOK', NEW u \in Upload, Put(u)
  PROVE  StoreInv'
<1> USE KeysAssumption, NamesAssumption, ChunksAssumption
<1> USE DEF StoreInv, NoTornArtifact, DownloadsWhole, TempsAccountedFor, PutInv, GetInv,
            InFlight, TypeOK, PutPcs, GetPcs, Answers, putVars, getVars, Goto, Raise, Decide
<1>1. ASSUME NEW k \in Key, PutRefused(u, k) PROVE StoreInv'
  BY <1>1 DEF PutRefused
<1>2. ASSUME NEW k \in Key, PutAdmitted(u, k) PROVE StoreInv'
  BY <1>2 DEF PutAdmitted
<1>3. ASSUME NEW k \in Key, PutNoDirectory(u, k) PROVE StoreInv'
  BY <1>3 DEF PutNoDirectory
<1>4. CASE PutOpen(u)
  BY <1>4 DEF PutOpen
<1>5. CASE PutWrite(u)
  BY <1>5 DEF PutWrite
<1>6. CASE PutClose(u)
  BY <1>6 DEF PutClose
<1>7. CASE PutBroken(u)
  BY <1>7 DEF PutBroken
<1>8. CASE PutFault(u)
  BY <1>8 DEF PutFault
<1>9. CASE PutTempGone(u)
  BY <1>9 DEF PutTempGone
<1>10. CASE PutLink(u)
  BY <1>10 DEF PutLink
<1>11. CASE PutLinkExists(u)
  BY <1>11 DEF PutLinkExists
<1>12. CASE PutReplace(u)
  BY <1>12 DEF PutReplace
<1>13. CASE PutUnlink(u)
  BY <1>13 DEF PutUnlink
<1>14. CASE PutUnlinkFault(u)
  BY <1>14 DEF PutUnlinkFault
<1> QED BY <1>1, <1>2, <1>3, <1>4, <1>5, <1>6, <1>7, <1>8, <1>9, <1>10, <1>11, <1>12, <1>13, <1>14 DEF Put

\* A step of a get keeps it: what GetOpen opens is an artifact, and an inode
\* that is an artifact is complete and is never written again.
LEMMA GetStep ==
  ASSUME StoreInv, TypeOK', NEW d \in Download, Get(d)
  PROVE  StoreInv'
<1> USE KeysAssumption, NamesAssumption, ChunksAssumption
<1> USE DEF StoreInv, NoTornArtifact, DownloadsWhole, TempsAccountedFor, PutInv, GetInv,
            InFlight, TypeOK, PutPcs, GetPcs, Answers, putVars, getVars
<1>1. ASSUME NEW k \in Key, GetFound(d, k) PROVE StoreInv'
  BY <1>1 DEF GetFound
<1>2. CASE GetOpen(d)
  BY <1>2 DEF GetOpen
<1>3. CASE GetRead(d)
  BY <1>3 DEF GetRead
<1>4. CASE GetBroken(d)
  BY <1>4 DEF GetBroken
<1> QED BY <1>1, <1>2, <1>3, <1>4 DEF Get

\* Deletions only take names away; a crash touches no file.
LEMMA RemovalStep ==
  ASSUME StoreInv, TypeOK',
         (\E k \in Key : Delete(k)) \/ (\E p \in Purge : BulkDelete(p)) \/ Crash
  PROVE  StoreInv'
<1> USE KeysAssumption, NamesAssumption, ChunksAssumption
<1> USE DEF StoreInv, NoTornArtifact, DownloadsWhole, TempsAccountedFor, PutInv, GetInv,
            InFlight, TypeOK, PutPcs, GetPcs, Answers, putVars, getVars
<1>1. ASSUME NEW k \in Key, Delete(k) PROVE StoreInv'
  BY <1>1 DEF Delete
<1>2. ASSUME NEW p \in Purge, NEW P \in Prefixes, PurgeList(p, P) PROVE StoreInv'
  BY <1>2 DEF PurgeList
<1>3. ASSUME NEW p \in Purge, NEW n \in Key \union Upload, PurgeRemove(p, n)
      PROVE StoreInv'
  BY <1>3 DEF PurgeRemove
<1>4. ASSUME NEW p \in Purge, PurgeFault(p) PROVE StoreInv'
  BY <1>4 DEF PurgeFault
<1>5. CASE Crash
  BY <1>5 DEF Crash
<1> QED BY <1>1, <1>2, <1>3, <1>4, <1>5 DEF BulkDelete

\* StoreInv is inductive.
LEMMA InvStep ==
  ASSUME StoreInv, [Next]_vars
  PROVE  StoreInv'
<1>1. TypeOK'
  BY TypeStep
<1>2. CASE Next
  BY <1>1, <1>2, PutStep, GetStep, RemovalStep DEF Next
<1>3. CASE UNCHANGED vars
  BY <1>3 DEF vars, StoreInv, NoTornArtifact, DownloadsWhole, TempsAccountedFor, PutInv,
              GetInv, InFlight, TypeOK
<1> QED BY <1>2, <1>3

\* The inductive invariant holds in every reachable state.
THEOREM StoreInvariant == Spec => []StoreInv
<1>1. Init => StoreInv
  BY KeysAssumption, NamesAssumption, ChunksAssumption
  DEF Init, StoreInv, NoTornArtifact, DownloadsWhole, TempsAccountedFor, PutInv, GetInv,
      InFlight, TypeOK, PutPcs, GetPcs, Answers
<1>2. StoreInv /\ [Next]_vars => StoreInv'
  BY InvStep
<1> QED BY <1>1, <1>2, PTL DEF Spec

\* Every variable keeps its type.
THEOREM TypeCorrect == Spec => []TypeOK
<1>1. StoreInv => TypeOK
  BY DEF StoreInv
<1> QED BY <1>1, StoreInvariant, PTL

\* A reader can never find part of an upload, or another key's, under an
\* artifact's name.
THEOREM NoTornArtifacts == Spec => []NoTornArtifact
<1>1. StoreInv => NoTornArtifact
  BY DEF StoreInv
<1> QED BY <1>1, StoreInvariant, PTL

\* A download that has begun reads one whole upload of the key it asked for.
THEOREM WholeDownloads == Spec => []DownloadsWhole
<1>1. StoreInv => DownloadsWhole
  BY DEF StoreInv
<1> QED BY <1>1, StoreInvariant, PTL

\* No temporary file is left behind but by a crash or a failed unlink.
THEOREM NoStrayTemps == Spec => []TempsAccountedFor
<1>1. StoreInv => TempsAccountedFor
  BY DEF StoreInv
<1> QED BY <1>1, StoreInvariant, PTL

-----------------------------------------------------------------------------
(* The three steps that change what a name leads to. *)

\* An artifact's name changes by an upload's one install, onto a free name if
\* the key is immutable, or by a removal; nothing else touches it.
LEMMA EntryStep ==
  ASSUME StoreInv, [Next]_vars, NEW k \in Key, entry'[k] # entry[k]
  PROVE  \/ entry'[k] = None
         \/ \E u \in Upload : /\ entry'[k] = u
                              /\ verdict[u] = "none"
                              /\ k \in Immutable => entry[k] = None
<1> USE KeysAssumption, NamesAssumption DEF StoreInv, TypeOK, putVars, getVars
<1>1. ASSUME NEW u \in Upload, PutLink(u) \/ PutReplace(u)
      PROVE  /\ entry'[k] = u
             /\ verdict[u] = "none"
             /\ k \in Immutable => entry[k] = None
  BY <1>1 DEF PutLink, PutReplace, PutInv
<1>2. ASSUME NEW u \in Upload, Put(u), ~PutLink(u), ~PutReplace(u)
      PROVE  FALSE
  <2>1. entry' = entry
    BY <1>2 DEF Put, PutRefused, PutAdmitted, PutNoDirectory, PutOpen, PutWrite, PutClose,
                PutBroken, PutFault, PutTempGone, PutLinkExists, PutUnlink, PutUnlinkFault
  <2> QED BY <2>1
<1>3. ASSUME NEW d \in Download, Get(d) PROVE FALSE
  BY <1>3 DEF Get, GetFound, GetOpen, GetRead, GetBroken
<1>4. ASSUME NEW j \in Key, Delete(j) PROVE entry'[k] = None
  BY <1>4 DEF Delete
<1>5. ASSUME NEW p \in Purge, BulkDelete(p) PROVE entry'[k] = None
  BY <1>5 DEF BulkDelete, PurgeList, PurgeRemove, PurgeFault
<1>6. ~Crash /\ ~UNCHANGED vars
  BY DEF Crash, vars
<1> QED BY <1>1, <1>2, <1>3, <1>4, <1>5, <1>6 DEF Next

\* An immutable artifact is never replaced, only deleted: of any number of
\* racing uploads one takes effect.
THEOREM ImmutabilityHolds == Spec => Immutability
<1>1. StoreInv /\ [Next]_vars
      => [\A k \in Immutable : entry[k] # None => entry'[k] \in {entry[k], None}]_vars
  BY EntryStep, KeysAssumption
<1> QED BY <1>1, StoreInvariant, PTL DEF Spec, Immutability

\* No upload becomes the artifact twice.
THEOREM NoResurrectionHolds == Spec => NoResurrection
<1>1. StoreInv /\ [Next]_vars
      => [\A k \in Key : entry'[k] # entry[k] /\ entry'[k] # None
            => verdict[entry'[k]] = "none"]_vars
  BY EntryStep
<1> QED BY <1>1, StoreInvariant, PTL DEF Spec, NoResurrection

-----------------------------------------------------------------------------
(* LocalArtifactStore implements ArtifactRepository. *)

\* What a put's step is to a caller of the store.
LEMMA PutRefines ==
  ASSUME StoreInv, TypeOK', NEW u \in Upload, Put(u)
  PROVE  [Repo!Next]_(Repo!vars)
<1> USE KeysAssumption, NamesAssumption
    DEF StoreInv, TypeOK, PutPcs, Answers, putVars, getVars, Goto, Raise, Decide
<1>1. ASSUME \A v \in Upload : Reply(v)' = Reply(v), UNCHANGED <<entry, verdict, fd>>
      PROVE  UNCHANGED Repo!vars
  BY <1>1 DEF Repo!vars
<1> DEFINE replies == [v \in Upload |-> Reply(v)]
<1> HIDE DEF replies
<1>0. ASSUME NEW r, \A v \in Upload : Reply(v)' = IF v = u THEN r ELSE Reply(v)
      PROVE  replies' = [replies EXCEPT ![u] = r]
  BY <1>0 DEF replies
<1>2. ASSUME NEW k \in Key, PutRefused(u, k) PROVE Repo!Refuse(u, k)
  <2>1. \A v \in Upload : Reply(v)' = IF v = u THEN "conflict" ELSE Reply(v)
    BY <1>2 DEF PutRefused, Reply
  <2>2. replies' = [replies EXCEPT ![u] = "conflict"] /\ replies[u] = "none"
    BY <1>0, <1>2, <2>1 DEF PutRefused, Reply, replies
  <2> QED BY <1>2, <2>2 DEF PutRefused, Repo!Refuse, PutInv, replies
<1>3. ASSUME NEW k \in Key, PutAdmitted(u, k) PROVE UNCHANGED Repo!vars
  <2>1. \A v \in Upload : Reply(v)' = Reply(v)
    BY <1>3 DEF PutAdmitted, Reply
  <2> QED BY <1>1, <1>3, <2>1 DEF PutAdmitted
<1>4. ASSUME NEW k \in Key, PutNoDirectory(u, k) PROVE Repo!Tell(u, "failed")
  BY <1>4 DEF PutNoDirectory, Repo!Tell, Reply
<1>5. CASE \/ PutOpen(u) \/ PutWrite(u) \/ PutClose(u) \/ PutBroken(u) \/ PutFault(u)
           \/ PutTempGone(u)
  BY <1>1, <1>5 DEF PutOpen, PutWrite, PutClose, PutBroken, PutFault, PutTempGone, Reply
<1>6. CASE PutLink(u)
  <2>1. Repo!Publish(u, target[u])
    BY <1>6 DEF PutLink, Repo!Publish, Reply, PutInv
  <2>2. target[u] \in Key
    BY <1>6 DEF PutLink, PutInv
  <2> QED BY <2>1, <2>2 DEF Repo!Next
<1>7. CASE PutLinkExists(u)
  <2>1. Repo!Refuse(u, target[u])
    BY <1>7 DEF PutLinkExists, Repo!Refuse, Reply, PutInv
  <2>2. target[u] \in Key
    BY <1>7 DEF PutLinkExists, PutInv
  <2> QED BY <2>1, <2>2 DEF Repo!Next
<1>8. CASE PutReplace(u)
  <2>1. \A v \in Upload : Reply(v)' = IF v = u THEN "created" ELSE Reply(v)
    BY <1>8 DEF PutReplace, Reply
  <2>2. replies' = [replies EXCEPT ![u] = "created"] /\ replies[u] = "none"
    BY <1>0, <1>8, <2>1 DEF PutReplace, Reply, replies
  <2>3. Repo!PublishAndTell(u, target[u], "created")
    BY <1>8, <2>2 DEF PutReplace, Repo!PublishAndTell, PutInv, replies
  <2>4. target[u] \in Key
    BY <1>8 DEF PutReplace, PutInv
  <2> QED BY <2>3, <2>4 DEF Repo!Next
<1>9. CASE PutUnlink(u)
  <2>1. Reply(u)' \in Repo!Replies \ {"none"}
    BY <1>9 DEF PutUnlink, Reply, Repo!Replies
  <2>2. \A v \in Upload : Reply(v)' = IF v = u THEN Reply(u)' ELSE Reply(v)
    BY <1>9 DEF PutUnlink, Reply
  <2>3. replies' = [replies EXCEPT ![u] = Reply(u)'] /\ replies[u] = "none"
    BY <1>0, <1>9, <2>2 DEF PutUnlink, Reply, replies
  <2>4. /\ Reply(u)' = "created" => verdict[u] = "stored"
        /\ Reply(u)' = "conflict" => verdict[u] = "refused"
    BY <1>9 DEF PutUnlink, Reply, PutInv
  <2>5. Repo!Tell(u, Reply(u)')
    BY <1>9, <2>3, <2>4 DEF PutUnlink, Repo!Tell, replies
  <2> QED BY <2>1, <2>5 DEF Repo!Next
<1>10. CASE PutUnlinkFault(u)
  <2>1. CASE pc[u] = "unlink"
    BY <1>1, <1>10, <2>1 DEF PutUnlinkFault, Reply
  <2>2. CASE pc[u] = "cleanup"
    <3>1. \A v \in Upload : Reply(v)' = IF v = u THEN "failed" ELSE Reply(v)
      BY <1>10, <2>2 DEF PutUnlinkFault, Reply
    <3>2. replies' = [replies EXCEPT ![u] = "failed"] /\ replies[u] = "none"
      BY <1>0, <2>2, <3>1 DEF Reply, replies
    <3>3. Repo!Tell(u, "failed")
      BY <1>10, <3>2 DEF PutUnlinkFault, Repo!Tell, replies
    <3> QED BY <3>3 DEF Repo!Next, Repo!Replies
  <2> QED BY <1>10, <2>1, <2>2 DEF PutUnlinkFault
<1> QED BY <1>2, <1>3, <1>4, <1>5, <1>6, <1>7, <1>8, <1>9, <1>10
        DEF Put, Repo!Next, Repo!Replies

\* What the other requests and a crash are to a caller.
LEMMA OthersRefine ==
  ASSUME StoreInv, TypeOK',
         \/ \E d \in Download : Get(d)
         \/ \E k \in Key : Delete(k)
         \/ \E p \in Purge : BulkDelete(p)
         \/ Crash
  PROVE  [Repo!Next]_(Repo!vars)
<1> USE KeysAssumption, NamesAssumption
    DEF StoreInv, TypeOK, PutPcs, GetPcs, Answers, putVars, getVars
<1>1. ASSUME NEW d \in Download, Get(d), ~GetOpen(d) PROVE UNCHANGED Repo!vars
  BY <1>1 DEF Get, GetFound, GetRead, GetBroken, Reply, Repo!vars
<1>2. ASSUME NEW d \in Download, GetOpen(d) PROVE Repo!Next
  <2>1. Repo!Serve(d, wanted[d])
    BY <1>2 DEF GetOpen, Repo!Serve, Reply, GetInv
  <2>2. wanted[d] \in Key
    BY <1>2 DEF GetOpen, GetInv
  <2> QED BY <2>1, <2>2 DEF Repo!Next
<1>3. ASSUME NEW k \in Key, Delete(k) PROVE Repo!Next
  <2>1. Repo!Withdraw(k)
    BY <1>3 DEF Delete, Repo!Withdraw, Reply
  <2> QED BY <2>1 DEF Repo!Next
<1>4. ASSUME NEW p \in Purge, NEW n \in Key, PurgeRemove(p, n) PROVE Repo!Next
  <2>1. Repo!Withdraw(n)
    BY <1>4 DEF PurgeRemove, Repo!Withdraw, Reply
  <2> QED BY <2>1 DEF Repo!Next
<1>5. ASSUME NEW p \in Purge, NEW n \in Upload, PurgeRemove(p, n)
      PROVE UNCHANGED Repo!vars
  BY <1>5 DEF PurgeRemove, Reply, Repo!vars
<1>6. ASSUME NEW p \in Purge, (\E P \in Prefixes : PurgeList(p, P)) \/ PurgeFault(p)
      PROVE UNCHANGED Repo!vars
  BY <1>6 DEF PurgeList, PurgeFault, Reply, Repo!vars
<1>7. CASE Crash
  <2> DEFINE U == {u \in Upload : InFlight(u)}
  <2>1. Repo!Drop(U)
    BY <1>7 DEF Crash, Repo!Drop, Reply, InFlight
  <2> QED BY <2>1 DEF Repo!Next
<1> QED BY <1>1, <1>2, <1>3, <1>4, <1>5, <1>6, <1>7 DEF BulkDelete

\* LocalArtifactStore keeps the promises of ArtifactStore: seen by its callers,
\* uploads and deletions are atomic, and 201 and 409 mean what they say.
THEOREM Refinement == Spec => ImplementsRepository
<1>1. Init => Repo!Init
  BY DEF Init, Repo!Init, Reply
<1>2. StoreInv /\ [Next]_vars => [Repo!Next]_(Repo!vars)
  <2> SUFFICES ASSUME StoreInv, [Next]_vars PROVE [Repo!Next]_(Repo!vars)
    OBVIOUS
  <2>1. CASE Next
    BY <2>1, TypeStep, PutRefines, OthersRefine DEF Next
  <2>2. CASE UNCHANGED vars
    BY <2>2 DEF vars, Reply, Repo!vars
  <2> QED BY <2>1, <2>2
<1> QED BY <1>1, <1>2, StoreInvariant, PTL DEF Spec, ImplementsRepository, Repo!Spec

-----------------------------------------------------------------------------
(* What that gives its callers *)

Proved == INSTANCE ArtifactRepository_proofs WITH
  published <- entry,
  reply <- [u \in Upload |-> Reply(u)],
  serving <- fd

\* An ArtifactRepository keeps its promises.
LEMMA RepositoryPromises == Repo!Spec => Repo!Promises
<1> USE DEF Repo!Next, Proved!Next, Repo!vars, Proved!vars, Repo!Publish, Proved!Publish,
        Repo!Refuse, Proved!Refuse, Repo!Tell, Proved!Tell, Repo!PublishAndTell,
        Proved!PublishAndTell, Repo!Drop, Proved!Drop, Repo!Withdraw, Proved!Withdraw,
        Repo!Serve, Proved!Serve, Repo!Replies, Proved!Replies
<1>1. Repo!Init => Proved!Init
  BY DEF Repo!Init, Proved!Init
<1>2. [Repo!Next]_(Repo!vars) => [Proved!Next]_(Proved!vars)
  OBVIOUS
<1>3. Repo!Spec => Proved!Spec
  BY <1>1, <1>2, PTL DEF Repo!Spec, Proved!Spec
<1>4. Proved!Promises => Repo!Promises
  BY DEF Proved!Promises, Repo!Promises, Proved!AnswersTrue, Repo!AnswersTrue,
     Proved!FirstStands, Repo!FirstStands, Proved!EffectOnce, Repo!EffectOnce,
     Proved!NothingTakenBack, Repo!NothingTakenBack
<1>5. None \notin Upload
  BY NamesAssumption
<1> QED BY <1>3, <1>4, <1>5, Proved!PromisesKept

\* Through any interleaving of file system calls, faults and restarts: 409 means
\* that no client ever sees those bytes, an artifact that forbids overwriting goes
\* by a deletion only, and no upload takes effect twice.
THEOREM PromisesKept == Spec => Repo!Promises
BY Refinement, RepositoryPromises DEF ImplementsRepository

-----------------------------------------------------------------------------
(* The calls come to an end *)

\* A step is a put's, a get's or neither.
LEMMA CallsStep ==
  ASSUME TypeOK, TypeOK', GetInv, [Next]_vars
  PROVE  /\ \A u \in Upload :
              PutCalls(u)' <= PutCalls(u) /\ (Put(u) => PutCalls(u)' < PutCalls(u))
         /\ \A d \in Download :
              GetCalls(d)' <= GetCalls(d) /\ (Get(d) => GetCalls(d)' < GetCalls(d))
         /\ \A p \in Purge : doomed[p] # {} =>
              /\ doomed'[p] \subseteq doomed[p]
              /\ BulkDelete(p) => doomed'[p] # doomed[p]
<1> USE ChunksAssumption DEF TypeOK, PutPcs, GetPcs, putVars, getVars, Goto, Raise, Decide
<1>1. ASSUME NEW u \in Upload PROVE size[u] \in 0..Chunks /\ size'[u] \in 0..Chunks
  OBVIOUS
<1>2. ASSUME NEW u \in Upload, Put(u) PROVE PutCalls(u)' < PutCalls(u)
  <2>1. CASE \E k \in Key : PutRefused(u, k) \/ PutAdmitted(u, k) \/ PutNoDirectory(u, k)
    BY <2>1 DEF PutRefused, PutAdmitted, PutNoDirectory, PutCalls
  <2>2. CASE PutOpen(u)
    BY <1>1, <2>2 DEF PutOpen, PutCalls
  <2>3. CASE PutWrite(u)
    BY <1>1, <2>3 DEF PutWrite, PutCalls
  <2>4. CASE PutClose(u) \/ PutBroken(u) \/ PutFault(u)
    BY <1>1, <2>4 DEF PutClose, PutBroken, PutFault, PutCalls
  <2>5. CASE PutTempGone(u) \/ PutLink(u) \/ PutLinkExists(u) \/ PutReplace(u)
    BY <2>5 DEF PutTempGone, PutLink, PutLinkExists, PutReplace, PutCalls
  <2>6. CASE PutUnlink(u) \/ PutUnlinkFault(u)
    BY <2>6 DEF PutUnlink, PutUnlinkFault, PutCalls
  <2> QED BY <1>2, <2>1, <2>2, <2>3, <2>4, <2>5, <2>6 DEF Put
<1>3. ASSUME NEW u \in Upload, ~Put(u) PROVE PutCalls(u)' <= PutCalls(u)
  <2>1. \/ pc'[u] = pc[u] /\ size'[u] = size[u]
        \/ pc'[u] = "done"
    <3>1. ASSUME NEW v \in Upload \ {u}, Put(v) PROVE pc'[u] = pc[u] /\ size'[u] = size[u]
      BY <3>1 DEF Put, PutRefused, PutAdmitted, PutNoDirectory, PutOpen, PutWrite, PutClose,
         PutBroken, PutFault, PutTempGone, PutLink, PutLinkExists, PutReplace, PutUnlink,
         PutUnlinkFault
    <3>2. ASSUME NEW d \in Download, Get(d) PROVE UNCHANGED <<pc, size>>
      BY <3>2 DEF Get, GetFound, GetOpen, GetRead, GetBroken
    <3>3. ASSUME NEW p \in Purge, BulkDelete(p) PROVE UNCHANGED <<pc, size>>
      BY <3>3 DEF BulkDelete, PurgeList, PurgeRemove, PurgeFault
    <3>4. ASSUME (\E k \in Key : Delete(k)) \/ UNCHANGED vars PROVE UNCHANGED <<pc, size>>
      BY <3>4 DEF Delete, vars
    <3>5. ASSUME Crash PROVE pc'[u] \in {pc[u], "done"} /\ size' = size
      BY <3>5 DEF Crash
    <3> QED BY <1>3, <3>1, <3>2, <3>3, <3>4, <3>5 DEF Next
  <2>2. PutCalls(u) \in Nat
    BY <1>1 DEF PutCalls
  <2>3. pc'[u] = pc[u] /\ size'[u] = size[u] => PutCalls(u)' = PutCalls(u)
    BY DEF PutCalls
  <2>4. pc'[u] = "done" => PutCalls(u)' = 0
    BY DEF PutCalls
  <2> QED BY <2>1, <2>2, <2>3, <2>4
<1>4. ASSUME NEW d \in Download PROVE got[d] \in 0..Chunks /\ got'[d] \in 0..Chunks
  OBVIOUS
<1>5. ASSUME NEW d \in Download, Get(d) PROVE GetCalls(d)' < GetCalls(d)
  <2>1. CASE \E k \in Key : GetFound(d, k)
    BY <2>1 DEF GetFound, GetCalls
  <2>2. CASE GetOpen(d)
    BY <1>4, <2>2 DEF GetOpen, GetCalls
  <2>3. CASE GetRead(d)
    BY <1>4, <2>3 DEF GetRead, GetCalls
  <2>4. CASE GetBroken(d)
    BY <1>4, <2>4 DEF GetBroken, GetCalls
  <2> QED BY <1>5, <2>1, <2>2, <2>3, <2>4 DEF Get
<1>6. ASSUME NEW d \in Download, ~Get(d) PROVE GetCalls(d)' <= GetCalls(d)
  <2>1. \/ getpc'[d] = getpc[d] /\ got'[d] = got[d]
        \/ getpc'[d] = "broken"
    <3>1. ASSUME NEW e \in Download \ {d}, Get(e) PROVE getpc'[d] = getpc[d] /\ got'[d] = got[d]
      BY <3>1 DEF Get, GetFound, GetOpen, GetRead, GetBroken
    <3>2. ASSUME NEW u \in Upload, Put(u) PROVE UNCHANGED <<getpc, got>>
      BY <3>2 DEF Put, PutRefused, PutAdmitted, PutNoDirectory, PutOpen, PutWrite, PutClose,
         PutBroken, PutFault, PutTempGone, PutLink, PutLinkExists, PutReplace, PutUnlink,
         PutUnlinkFault
    <3>3. ASSUME NEW p \in Purge, BulkDelete(p) PROVE UNCHANGED <<getpc, got>>
      BY <3>3 DEF BulkDelete, PurgeList, PurgeRemove, PurgeFault
    <3>4. ASSUME (\E k \in Key : Delete(k)) \/ UNCHANGED vars PROVE UNCHANGED <<getpc, got>>
      BY <3>4 DEF Delete, vars
    <3>5. ASSUME Crash PROVE getpc'[d] \in {getpc[d], "broken"} /\ got' = got
      BY <3>5 DEF Crash
    <3> QED BY <1>6, <3>1, <3>2, <3>3, <3>4, <3>5 DEF Next
  <2>2. GetCalls(d) \in Nat
    BY <1>4 DEF GetCalls
  <2>3. getpc'[d] = getpc[d] /\ got'[d] = got[d] => GetCalls(d)' = GetCalls(d)
    BY DEF GetCalls
  <2>4. getpc'[d] = "broken" => GetCalls(d)' = 0
    BY DEF GetCalls
  <2> QED BY <2>1, <2>2, <2>3, <2>4
<1>7. ASSUME NEW p \in Purge, doomed[p] # {}
      PROVE  doomed'[p] \subseteq doomed[p] /\ (BulkDelete(p) => doomed'[p] # doomed[p])
  <2>1. ASSUME BulkDelete(p) PROVE doomed'[p] \subseteq doomed[p] /\ doomed'[p] # doomed[p]
    BY <1>7, <2>1 DEF BulkDelete, PurgeList, PurgeRemove, PurgeFault
  <2>2. ASSUME ~BulkDelete(p) PROVE doomed'[p] \subseteq doomed[p]
    <3>1. ASSUME NEW r \in Purge \ {p}, BulkDelete(r) PROVE doomed'[p] = doomed[p]
      BY <3>1 DEF BulkDelete, PurgeList, PurgeRemove, PurgeFault
    <3>2. ASSUME NEW u \in Upload, Put(u) PROVE doomed' = doomed
      BY <3>2 DEF Put, PutRefused, PutAdmitted, PutNoDirectory, PutOpen, PutWrite, PutClose,
         PutBroken, PutFault, PutTempGone, PutLink, PutLinkExists, PutReplace, PutUnlink,
         PutUnlinkFault
    <3>3. ASSUME NEW d \in Download, Get(d) PROVE doomed' = doomed
      BY <3>3 DEF Get, GetFound, GetOpen, GetRead, GetBroken
    <3>4. ASSUME (\E k \in Key : Delete(k)) \/ UNCHANGED vars PROVE doomed' = doomed
      BY <3>4 DEF Delete, vars
    <3>5. ASSUME Crash PROVE doomed'[p] = {}
      BY <3>5 DEF Crash
    <3> QED BY <2>2, <3>1, <3>2, <3>3, <3>4, <3>5 DEF Next
  <2> QED BY <2>1, <2>2
<1>8. ASSUME NEW u \in Upload PROVE PutCalls(u) \in Nat /\ PutCalls(u)' \in Nat
  BY <1>1, <1>8 DEF PutCalls
<1>9. ASSUME NEW d \in Download PROVE GetCalls(d) \in Nat /\ GetCalls(d)' \in Nat
  BY <1>4, <1>9 DEF GetCalls
<1>10. ASSUME NEW u \in Upload
       PROVE  PutCalls(u)' <= PutCalls(u) /\ (Put(u) => PutCalls(u)' < PutCalls(u))
  BY <1>2, <1>3, <1>8
<1>11. ASSUME NEW d \in Download
       PROVE  GetCalls(d)' <= GetCalls(d) /\ (Get(d) => GetCalls(d)' < GetCalls(d))
  BY <1>5, <1>6, <1>9
<1> QED BY <1>7, <1>10, <1>11

\* The safety half of UploadsSettle and PurgesEnd, for any body length and any number of
\* requests, with every fault and crash: what fairness owes a request is a fixed number
\* of calls, whatever the others do.
THEOREM CallsBoundedHolds == Spec => CallsBounded
<1>1. StoreInv /\ StoreInv' /\ [Next]_vars =>
        [/\ \A u \in Upload :
              PutCalls(u)' <= PutCalls(u) /\ (Put(u) => PutCalls(u)' < PutCalls(u))
         /\ \A d \in Download :
              GetCalls(d)' <= GetCalls(d) /\ (Get(d) => GetCalls(d)' < GetCalls(d))
         /\ \A p \in Purge : doomed[p] # {} =>
              /\ doomed'[p] \subseteq doomed[p]
              /\ BulkDelete(p) => doomed'[p] # doomed[p]]_vars
  BY CallsStep DEF StoreInv
<1> QED BY <1>1, StoreInvariant, PTL DEF Spec, CallsBounded
===============================================================================
