------------------------------ MODULE LocalStore ------------------------------
(***************************************************************************)
(* LocalArtifactStore (storage/local.py) under concurrent requests.        *)
(*                                                                         *)
(* A file is an inode.  Every upload writes one inode of its own, so an    *)
(* upload names the inode it writes; `size' is how many chunks of it are   *)
(* on disk.  A directory entry is either the artifact's own name           *)
(* (`entry[k]') or the hidden name .<name>.<uuid>.tmp (`temp').  Removing  *)
(* or replacing a name leaves the inode to whoever has it open.            *)
(*                                                                         *)
(* Each step is one call on the file system.  The aiofiles calls run on    *)
(* threads and the os calls on the event loop, so the steps of different   *)
(* requests interleave freely.  Any call may fail with an OSError, a body  *)
(* may break off (client gone, upload too large), and the process may die  *)
(* between any two steps.                                                  *)
(***************************************************************************)
EXTENDS Integers

CONSTANTS
  Key,        \* storage keys
  Upload,     \* calls of put
  Download,   \* calls of get
  Purge,      \* dashboard sessions that run bulk deletions
  Immutable,  \* keys put with if_none_match = True
  Prefixes,   \* the sets of keys a bulk deletion can name
  Chunks,     \* chunks in a body
  None        \* no upload

ASSUME KeysAssumption == Immutable \subseteq Key /\ Prefixes \subseteq SUBSET Key
ASSUME NamesAssumption == Key \intersect Upload = {} /\ None \notin Key \union Upload
ASSUME ChunksAssumption == Chunks \in Nat \ {0}

VARIABLES
  entry,      \* entry[k]: the inode the artifact's name leads to, or None
  temp,       \* the uploads whose temporary name exists
  size,       \* size[u]: chunks written to u's inode
  pc,         \* pc[u]: the file system call u's put makes next
  target,     \* target[u]: the key u was put to, None before
  answer,     \* answer[u]: what put returns or raises when pc[u] is "done"
  verdict,    \* history: what became of u ("stored" when its name was set)
  getpc,      \* getpc[d]: where d's get is
  wanted,     \* wanted[d]: the key d asks for, None before
  fd,         \* fd[d]: the inode d has open, None before
  got,        \* got[d]: chunks d was sent
  doomed      \* doomed[p]: names p's delete_many has still to remove

putVars == <<pc, target, answer, verdict>>
getVars == <<getpc, wanted, fd, got>>
vars == <<entry, temp, size, pc, target, answer, verdict, getpc, wanted, fd, got, doomed>>

PutPcs == {"idle", "open", "write", "install", "unlink", "cleanup", "done"}
GetPcs == {"idle", "open", "read", "served", "broken"}
Answers == {"none", "created", "conflict", "unavailable", "aborted", "error", "lost"}

TypeOK ==
  /\ entry \in [Key -> Upload \union {None}]
  /\ temp \subseteq Upload
  /\ size \in [Upload -> 0..Chunks]
  /\ pc \in [Upload -> PutPcs]
  /\ target \in [Upload -> Key \union {None}]
  /\ answer \in [Upload -> Answers]
  /\ verdict \in [Upload -> {"none", "stored", "refused"}]
  /\ getpc \in [Download -> GetPcs]
  /\ wanted \in [Download -> Key \union {None}]
  /\ fd \in [Download -> Upload \union {None}]
  /\ got \in [Download -> 0..Chunks]
  /\ doomed \in [Purge -> SUBSET (Key \union Upload)]

Init ==
  /\ entry = [k \in Key |-> None]
  /\ temp = {}
  /\ size = [u \in Upload |-> 0]
  /\ pc = [u \in Upload |-> "idle"]
  /\ target = [u \in Upload |-> None]
  /\ answer = [u \in Upload |-> "none"]
  /\ verdict = [u \in Upload |-> "none"]
  /\ getpc = [d \in Download |-> "idle"]
  /\ wanted = [d \in Download |-> None]
  /\ fd = [d \in Download |-> None]
  /\ got = [d \in Download |-> 0]
  /\ doomed = [p \in Purge |-> {}]

-----------------------------------------------------------------------------
(* put *)

Goto(u, l) == pc' = [pc EXCEPT ![u] = l]
Raise(u, a, l) == Goto(u, l) /\ answer' = [answer EXCEPT ![u] = a]
Decide(u, v) == verdict' = [verdict EXCEPT ![u] = v]

\* makedirs, then path.exists() when if_none_match: the early ConflictError.
PutRefused(u, k) ==
  /\ pc[u] = "idle"
  /\ k \in Immutable
  /\ entry[k] # None
  /\ target' = [target EXCEPT ![u] = k]
  /\ Raise(u, "conflict", "done")
  /\ Decide(u, "refused")
  /\ UNCHANGED <<entry, temp, size, getVars, doomed>>

\* The same calls when the path is free or may be overwritten.
PutAdmitted(u, k) ==
  /\ pc[u] = "idle"
  /\ k \in Immutable => entry[k] = None
  /\ target' = [target EXCEPT ![u] = k]
  /\ Goto(u, "open")
  /\ UNCHANGED <<entry, temp, size, answer, verdict, getVars, doomed>>

\* makedirs stands outside the try: its OSError is not turned into a 503.
PutNoDirectory(u, k) ==
  /\ pc[u] = "idle"
  /\ target' = [target EXCEPT ![u] = k]
  /\ Raise(u, "error", "done")
  /\ UNCHANGED <<entry, temp, size, verdict, getVars, doomed>>

\* Mutant: the body is written under the artifact's own name.
PutOpenInPlace(u) ==
  /\ pc[u] = "open"
  /\ temp' = temp \union {u}
  /\ entry' = [entry EXCEPT ![target[u]] = u]
  /\ Goto(u, "write")
  /\ UNCHANGED <<size, target, answer, verdict, getVars, doomed>>

\* aiofiles.open(temp_path, "xb"); the uuid makes the name new.
PutOpen(u) ==
  /\ pc[u] = "open"
  /\ temp' = temp \union {u}
  /\ Goto(u, "write")
  /\ UNCHANGED <<entry, size, target, answer, verdict, getVars, doomed>>

\* Mutant: the bound on the body is off by one.
PutWriteTooMuch(u) ==
  /\ pc[u] = "write"
  /\ size[u] <= Chunks
  /\ size' = [size EXCEPT ![u] = @ + 1]
  /\ UNCHANGED <<entry, temp, putVars, getVars, doomed>>

\* One chunk of the body.
PutWrite(u) ==
  /\ pc[u] = "write"
  /\ size[u] < Chunks
  /\ size' = [size EXCEPT ![u] = @ + 1]
  /\ UNCHANGED <<entry, temp, putVars, getVars, doomed>>

\* Mutant: a body that breaks off is taken for one that ended.
PutCloseEarly(u) ==
  /\ pc[u] = "write"
  /\ Goto(u, "install")
  /\ UNCHANGED <<entry, temp, size, target, answer, verdict, getVars, doomed>>

\* The body ended; the file is flushed and closed.
PutClose(u) ==
  /\ pc[u] = "write"
  /\ size[u] = Chunks
  /\ Goto(u, "install")
  /\ UNCHANGED <<entry, temp, size, target, answer, verdict, getVars, doomed>>

\* Mutant: no handler for exceptions that are not an OSError.
PutBrokenUncaught(u) ==
  /\ pc[u] = "write"
  /\ Raise(u, "aborted", "done")
  /\ UNCHANGED <<entry, temp, size, target, verdict, getVars, doomed>>

\* The body iterator raises: client disconnected, or "Upload too large".
PutBroken(u) ==
  /\ pc[u] = "write"
  /\ Raise(u, "aborted", "cleanup")
  /\ UNCHANGED <<entry, temp, size, target, verdict, getVars, doomed>>

\* open, write, close, link or replace raises an OSError.
PutFault(u) ==
  /\ pc[u] \in {"open", "write", "install"}
  /\ Raise(u, "unavailable", "cleanup")
  /\ UNCHANGED <<entry, temp, size, target, verdict, getVars, doomed>>

\* Mutant: a missing temporary file is tried again.
PutTempRetried(u) ==
  /\ pc[u] = "install"
  /\ u \notin temp
  /\ Raise(u, "unavailable", "install")
  /\ UNCHANGED <<entry, temp, size, target, verdict, getVars, doomed>>

\* os.link or os.replace when somebody removed the temporary name: the
\* FileNotFoundError is an OSError like any other.
PutTempGone(u) ==
  /\ pc[u] = "install"
  /\ u \notin temp
  /\ Raise(u, "unavailable", "cleanup")
  /\ UNCHANGED <<entry, temp, size, target, verdict, getVars, doomed>>

\* os.link(temp_path, path) onto a free name.
PutLink(u) ==
  /\ pc[u] = "install"
  /\ target[u] \in Immutable
  /\ u \in temp
  /\ entry[target[u]] = None
  /\ entry' = [entry EXCEPT ![target[u]] = u]
  /\ Raise(u, "created", "unlink")
  /\ Decide(u, "stored")
  /\ UNCHANGED <<temp, size, target, getVars, doomed>>

\* Mutant: FileExistsError is swallowed, the upload counts as done.
PutLinkIdempotent(u) ==
  /\ pc[u] = "install"
  /\ target[u] \in Immutable
  /\ u \in temp
  /\ entry[target[u]] # None
  /\ Raise(u, "created", "unlink")
  /\ Decide(u, "refused")
  /\ UNCHANGED <<entry, temp, size, target, getVars, doomed>>

\* os.link raises FileExistsError: somebody else's upload got there first.
PutLinkExists(u) ==
  /\ pc[u] = "install"
  /\ target[u] \in Immutable
  /\ u \in temp
  /\ entry[target[u]] # None
  /\ Raise(u, "conflict", "unlink")
  /\ Decide(u, "refused")
  /\ UNCHANGED <<entry, temp, size, target, getVars, doomed>>

\* Mutant: path.exists() alone guards immutable artifacts; all are renamed.
PutReplaceAny(u) ==
  /\ pc[u] = "install"
  /\ u \in temp
  /\ entry' = [entry EXCEPT ![target[u]] = u]
  /\ temp' = temp \ {u}
  /\ Raise(u, "created", "done")
  /\ Decide(u, "stored")
  /\ UNCHANGED <<size, target, getVars, doomed>>

\* os.replace(temp_path, path), where overwriting is allowed.
PutReplace(u) ==
  /\ pc[u] = "install"
  /\ target[u] \notin Immutable
  /\ u \in temp
  /\ entry' = [entry EXCEPT ![target[u]] = u]
  /\ temp' = temp \ {u}
  /\ Raise(u, "created", "done")
  /\ Decide(u, "stored")
  /\ UNCHANGED <<size, target, getVars, doomed>>

\* The finally clause after os.link, and the unlink of the two handlers.
PutUnlink(u) ==
  /\ pc[u] \in {"unlink", "cleanup"}
  /\ temp' = temp \ {u}
  /\ Goto(u, "done")
  /\ UNCHANGED <<entry, size, target, answer, verdict, getVars, doomed>>

\* Mutant: a failed unlink makes put start over from the link.
PutUnlinkRetried(u) ==
  /\ pc[u] = "unlink"
  /\ Raise(u, "unavailable", "install")
  /\ UNCHANGED <<entry, temp, size, target, verdict, getVars, doomed>>

\* unlink itself raises.  In the finally clause its OSError replaces the
\* conflict or the success and the outer handler tries again; in a handler it
\* leaves put as it is.
PutUnlinkFault(u) ==
  /\ \/ pc[u] = "unlink" /\ Raise(u, "unavailable", "cleanup")
     \/ pc[u] = "cleanup" /\ Raise(u, "error", "done")
  /\ UNCHANGED <<entry, temp, size, target, verdict, getVars, doomed>>

-----------------------------------------------------------------------------
(* get *)

\* path.is_file() holds; the iterator is returned and nothing is open yet.
GetFound(d, k) ==
  /\ getpc[d] = "idle"
  /\ entry[k] # None
  /\ wanted' = [wanted EXCEPT ![d] = k]
  /\ getpc' = [getpc EXCEPT ![d] = "open"]
  /\ UNCHANGED <<entry, temp, size, putVars, fd, got, doomed>>

\* iter_file opens the file, when the response is already under way.
GetOpen(d) ==
  /\ getpc[d] = "open"
  /\ entry[wanted[d]] # None
  /\ fd' = [fd EXCEPT ![d] = entry[wanted[d]]]
  /\ getpc' = [getpc EXCEPT ![d] = "read"]
  /\ UNCHANGED <<entry, temp, size, putVars, wanted, got, doomed>>

\* One chunk, until read returns nothing.
GetRead(d) ==
  /\ getpc[d] = "read"
  /\ IF got[d] < size[fd[d]]
     THEN got' = [got EXCEPT ![d] = @ + 1] /\ getpc' = getpc
     ELSE got' = got /\ getpc' = [getpc EXCEPT ![d] = "served"]
  /\ UNCHANGED <<entry, temp, size, putVars, wanted, fd, doomed>>

\* The file is gone when it is to be opened, a call fails, or the client
\* leaves: the response, its 200 long sent, breaks off.
GetBroken(d) ==
  /\ getpc[d] \in {"open", "read"}
  /\ getpc' = [getpc EXCEPT ![d] = "broken"]
  /\ UNCHANGED <<entry, temp, size, putVars, wanted, fd, got, doomed>>

-----------------------------------------------------------------------------
(* delete, list_prefix and delete_many *)

\* delete: is_file and remove.  Alone, a name that vanishes between the two
\* gives the same NotFoundError as one that was never there.
Delete(k) ==
  /\ entry[k] # None
  /\ entry' = [entry EXCEPT ![k] = None]
  /\ UNCHANGED <<temp, size, putVars, getVars, doomed>>

\* list_prefix: rglob returns every file, temporary ones too.
Listing(P) ==
  {k \in P : entry[k] # None} \union {u \in temp : target[u] \in P}

\* delete_artifact_prefix: list everything under the prefix, then delete it
\* (NotFoundError when there is nothing).  list_prefix does not await, and up to
\* _STORAGE_FETCH_SIZE names make one page; module BulkDelete lists page by page.
PurgeList(p, P) ==
  /\ doomed[p] = {}
  /\ Listing(P) # {}
  /\ doomed' = [doomed EXCEPT ![p] = Listing(P)]
  /\ UNCHANGED <<entry, temp, size, putVars, getVars>>

\* Mutant: FileNotFoundError is tried again instead of skipped.
PurgeRemovePresent(p, n) ==
  /\ n \in doomed[p]
  /\ n \in temp \union {k \in Key : entry[k] # None}
  /\ doomed' = [doomed EXCEPT ![p] = @ \ {n}]
  /\ entry' = [k \in Key |-> IF k = n THEN None ELSE entry[k]]
  /\ temp' = temp \ {n}
  /\ UNCHANGED <<size, putVars, getVars>>

\* One turn of delete_many's loop; a name no longer there is skipped.
PurgeRemove(p, n) ==
  /\ n \in doomed[p]
  /\ doomed' = [doomed EXCEPT ![p] = @ \ {n}]
  /\ entry' = [k \in Key |-> IF k = n THEN None ELSE entry[k]]
  /\ temp' = temp \ {n}
  /\ UNCHANGED <<size, putVars, getVars>>

\* remove raises: delete_many stops there (503), what it removed stays removed.
PurgeFault(p) ==
  /\ doomed[p] # {}
  /\ doomed' = [doomed EXCEPT ![p] = {}]
  /\ UNCHANGED <<entry, temp, size, putVars, getVars>>

-----------------------------------------------------------------------------
(* The process dies, or is cancelled at shutdown (CancelledError is no       *)
(* Exception: put's handlers do not see it), and a new one starts on the     *)
(* same directory.                                                           *)

InFlight(u) == pc[u] \notin {"idle", "done"}

Crash ==
  /\ \E u \in Upload : InFlight(u)
  /\ pc' = [u \in Upload |-> IF InFlight(u) THEN "done" ELSE pc[u]]
  /\ answer' = [u \in Upload |-> IF InFlight(u) THEN "lost" ELSE answer[u]]
  /\ getpc' = [d \in Download |-> IF getpc[d] \in {"open", "read"} THEN "broken" ELSE getpc[d]]
  /\ doomed' = [p \in Purge |-> {}]
  /\ UNCHANGED <<entry, temp, size, target, verdict, wanted, fd, got>>

Put(u) ==
  \/ \E k \in Key : PutRefused(u, k) \/ PutAdmitted(u, k) \/ PutNoDirectory(u, k)
  \/ PutOpen(u) \/ PutWrite(u) \/ PutClose(u) \/ PutBroken(u) \/ PutFault(u)
  \/ PutTempGone(u) \/ PutLink(u) \/ PutLinkExists(u) \/ PutReplace(u)
  \/ PutUnlink(u) \/ PutUnlinkFault(u)

Get(d) ==
  \/ \E k \in Key : GetFound(d, k)
  \/ GetOpen(d) \/ GetRead(d) \/ GetBroken(d)

BulkDelete(p) ==
  \/ \E P \in Prefixes : PurgeList(p, P)
  \/ \E n \in Key \union Upload : PurgeRemove(p, n)
  \/ PurgeFault(p)

Next ==
  \/ \E u \in Upload : Put(u)
  \/ \E d \in Download : Get(d)
  \/ \E k \in Key : Delete(k)
  \/ \E p \in Purge : BulkDelete(p)
  \/ Crash

Spec == Init /\ [][Next]_vars
-----------------------------------------------------------------------------
(* Properties *)

\* Whatever an artifact's name leads to is one whole upload for that name:
\* put writes beside the artifact and renames or links only a finished file.
NoTornArtifact ==
  \A k \in Key : entry[k] # None =>
    /\ size[entry[k]] = Chunks
    /\ target[entry[k]] = k
    /\ verdict[entry[k]] = "stored"

\* The same of the inode a download has open, whatever deletions, overwrites
\* and crashes came after the open; a download that ends well had all of it.
DownloadsWhole ==
  \A d \in Download : fd[d] # None =>
    /\ size[fd[d]] = Chunks
    /\ target[fd[d]] = wanted[d]
    /\ verdict[fd[d]] = "stored"
    /\ getpc[d] = "served" => got[d] = Chunks

\* A temporary file outlives its put only if the process died under it or
\* unlink itself failed: no other error path forgets it.
TempsAccountedFor ==
  \A u \in temp : InFlight(u) \/ answer[u] \in {"lost", "error"}

\* The inductive invariant behind the three: what each put and each get may
\* rely on at its next call.
PutInv ==
  \A u \in Upload :
    /\ pc[u] = "idle" => u \notin temp /\ answer[u] = "none" /\ verdict[u] = "none"
    /\ pc[u] \in {"open", "write", "install"} => target[u] \in Key /\ verdict[u] = "none"
    /\ pc[u] = "install" => size[u] = Chunks
    /\ verdict[u] = "stored" => size[u] = Chunks /\ pc[u] \in {"unlink", "cleanup", "done"}
    /\ answer[u] = "created" => verdict[u] = "stored"
    /\ answer[u] = "conflict" => verdict[u] = "refused"

GetInv ==
  \A d \in Download :
    /\ getpc[d] \in {"idle", "open"} => fd[d] = None
    /\ getpc[d] = "open" => wanted[d] \in Key
    /\ getpc[d] = "read" => fd[d] # None

StoreInv ==
  TypeOK /\ NoTornArtifact /\ DownloadsWhole /\ TempsAccountedFor /\ PutInv /\ GetInv

\* Only a deletion makes room for another upload of an immutable artifact: two
\* racing uploads never both take effect (os.link decides, not path.exists).
Immutability ==
  [][\A k \in Immutable : entry[k] # None => entry'[k] \in {entry[k], None}]_vars

\* An upload's bytes become the artifact at most once: nothing a deletion or a
\* later upload removed comes back on its own.
NoResurrection ==
  [][\A k \in Key : entry'[k] # entry[k] /\ entry'[k] # None
       => verdict[entry'[k]] = "none"]_vars

-----------------------------------------------------------------------------
(* What ArtifactStore promises, and that this backend keeps it. *)

\* What the status tells the client: 201 and 409 their outcome, any other and a
\* broken connection nothing.
Reply(u) ==
  IF pc[u] # "done" THEN "none"
  ELSE IF answer[u] \in {"created", "conflict"} THEN answer[u] ELSE "failed"

Repo == INSTANCE ArtifactRepository WITH
  published <- entry,
  reply <- [u \in Upload |-> Reply(u)],
  serving <- fd

\* Every behaviour of the files is one of the abstract repository: put-if-absent
\* and overwrite are atomic, 201 and 409 report what happened, a download reads
\* what its key held at one instant.
ImplementsRepository == Repo!Spec

-----------------------------------------------------------------------------
(* Liveness.  The client decides whether a body ever ends, so nothing is said *)
(* of "write".  A call on the file system returns and the event loop resumes   *)
(* its coroutine; no fault is owed, so the fair steps are the ones without.    *)

Finish(u) ==
  PutTempGone(u) \/ PutLink(u) \/ PutLinkExists(u) \/ PutReplace(u) \/ PutUnlink(u)

FairSpec ==
  /\ Spec
  /\ \A u \in Upload : WF_vars(Finish(u))
  /\ \A p \in Purge : WF_vars(\E n \in Key \union Upload : PurgeRemove(p, n))

\* An upload whose body is in is answered, even when a bulk deletion has taken
\* its temporary file away.
UploadsSettle ==
  \A u \in Upload : pc[u] \in {"install", "unlink", "cleanup"} ~> pc[u] = "done"

\* A bulk deletion ends, however many uploads keep arriving under its prefix.
PurgesEnd ==
  \A p \in Purge : doomed[p] # {} ~> doomed[p] = {}

\* The calls that a put and a get still make at most, and so why both settle: their own
\* calls lower the number, nothing that others do raises it, and a bulk deletion takes up
\* no name that came after its listing.
PutCalls(u) ==
  CASE pc[u] = "idle" -> Chunks + 6
    [] pc[u] = "open" -> Chunks + 5
    [] pc[u] = "write" -> (Chunks - size[u]) + 4
    [] pc[u] = "install" -> 3
    [] pc[u] = "unlink" -> 2
    [] pc[u] = "cleanup" -> 1
    [] pc[u] = "done" -> 0

GetCalls(d) ==
  CASE getpc[d] = "idle" -> Chunks + 3
    [] getpc[d] = "open" -> Chunks + 2
    [] getpc[d] = "read" -> (Chunks - got[d]) + 1
    [] getpc[d] \in {"served", "broken"} -> 0

CallsBounded ==
  [][/\ \A u \in Upload :
          PutCalls(u)' <= PutCalls(u) /\ (Put(u) => PutCalls(u)' < PutCalls(u))
     /\ \A d \in Download :
          GetCalls(d)' <= GetCalls(d) /\ (Get(d) => GetCalls(d)' < GetCalls(d))
     /\ \A p \in Purge : doomed[p] # {} =>
          /\ doomed'[p] \subseteq doomed[p]
          /\ BulkDelete(p) => doomed'[p] # doomed[p]]_vars
===============================================================================
