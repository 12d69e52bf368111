-------------------------------- MODULE MavenApi --------------------------------
(***************************************************************************)
(* The Maven gateway (api/routes_maven.py, api/deps.py, auth/tokens.py):   *)
(* GET, HEAD and PUT of artifact paths, over a store that is an            *)
(* ArtifactRepository.  A request is authenticated once, when it arrives;  *)
(* a PUT asks the store whether the path is taken, streams the body and    *)
(* logs an audit line at the end; a GET asks for the object's size, and    *)
(* opens the object only when its response is already under way.  Other    *)
(* requests, the clock and dashboard users act between these calls.        *)
(*                                                                         *)
(* The HTTP server is external: it delivers a response as complete only if *)
(* the body has the declared Content-Length, else it cuts the connection.  *)
(***************************************************************************)
EXTENDS Integers

CONSTANTS
  Key,            \* storage keys of the configured repositories
  Write,          \* PUT requests; a request also stands for the bytes it sends
  Read,           \* GET and HEAD requests
  Token,          \* tokens of the configuration
  Immutable,      \* keys of repositories with allow_overwrite = False
  CanRead,        \* CanRead[t]: keys of the repositories t may read
  CanWrite,       \* CanWrite[t]: keys of those it may write
  Expiry,         \* Expiry[t]: the last instant at which t is accepted
  Length,         \* lengths of bodies
  Declares,       \* the PUT requests that send a Content-Length
  MaxUpload,      \* server.max_upload_bytes
  AnonymousRead,  \* security.anonymous_read
  MaxTime,        \* bound on the clock
  Bad,            \* credentials of no token
  None            \* no upload, no credentials, no artifact path

ASSUME ApiSetsAssumption == Immutable \subseteq Key /\ Declares \subseteq Write
ASSUME ApiTokensAssumption ==
  /\ CanRead \in [Token -> SUBSET Key]
  /\ CanWrite \in [Token -> SUBSET Key]
  /\ Expiry \in [Token -> Nat]
  /\ Bad \notin Token /\ None \notin Token
ASSUME ApiSizesAssumption ==
  Length \subseteq Nat /\ MaxUpload \in Nat /\ MaxTime \in Nat /\ AnonymousRead \in BOOLEAN
ASSUME ApiNoneAssumption == None \notin Key \union Write

VARIABLES
  now,        \* the clock
  published,  \* the store: the upload each key holds
  verdict,    \* the store: what became of each upload
  reply,      \* the store's promise: what each upload's client was told
  serving,    \* the store: the upload each download is sent
  pc,         \* pc[w]: what PUT request w does next
  path,       \* path[w]: the key it names, once it is admitted
  cred,       \* cred[w]: the token it came with, likewise
  size,       \* size[w]: the length of its body, likewise
  status,     \* status[w]: its HTTP status, 0 for a cut connection
  audit,      \* the audit log
  getpc,      \* getpc[d]: what GET or HEAD request d does next
  wanted,     \* wanted[d]: the key it names, once it is admitted
  reader,     \* reader[d]: its credentials, likewise
  length,     \* length[d]: the Content-Length of its response
  outcome,    \* outcome[d]: its HTTP status, 0 for a response cut off
  changed     \* history: reads whose key changed between their head and open

storeVars == <<published, verdict, reply, serving>>
writeVars == <<pc, path, cred, size, status, audit>>
readVars == <<getpc, wanted, reader, length, outcome, changed>>
vars == <<now, storeVars, writeVars, readVars>>

Store == INSTANCE ArtifactRepository WITH Upload <- Write, Download <- Read

Cred == Token \union {Bad, None}
Line == [write : Write, path : Key \union {None}, principal : Token \union {None}, status : Nat]

TypeOK ==
  /\ now \in 0..MaxTime
  /\ Store!TypeOK
  /\ pc \in [Write -> {"idle", "exists", "put", "done"}]
  /\ path \in [Write -> Key \union {None}]
  /\ cred \in [Write -> Token \union {None}]
  /\ size \in [Write -> Length \union {0}]
  /\ status \in [Write -> {0, 201, 400, 401, 403, 404, 409, 500, 503}]
  /\ audit \subseteq Line
  /\ getpc \in [Read -> {"idle", "head", "get", "open", "body", "done", "told", "cut"}]
  /\ wanted \in [Read -> Key \union {None}]
  /\ reader \in [Read -> Token \union {None}]
  /\ length \in [Read -> Nat]
  /\ outcome \in [Read -> {0, 200, 400, 401, 403, 404, 500, 503}]
  /\ changed \subseteq Read

Init ==
  /\ now = 0
  /\ Store!Init
  /\ pc = [w \in Write |-> "idle"]
  /\ path = [w \in Write |-> None]
  /\ cred = [w \in Write |-> None]
  /\ size = [w \in Write |-> 0]
  /\ status = [w \in Write |-> 0]
  /\ audit = {}
  /\ getpc = [d \in Read |-> "idle"]
  /\ wanted = [d \in Read |-> None]
  /\ reader = [d \in Read |-> None]
  /\ length = [d \in Read |-> 0]
  /\ outcome = [d \in Read |-> 0]
  /\ changed = {}

-----------------------------------------------------------------------------
(* get_auth_context *)

\* No credentials, or those of a token that has not expired.
Authentic(c) == c = None \/ (c \in Token /\ now <= Expiry[c])

-----------------------------------------------------------------------------
(* put_artifact *)

Answer(w, s) == pc' = [pc EXCEPT ![w] = "done"] /\ status' = [status EXCEPT ![w] = s]
Log(w, p, c, s) ==
  audit' = audit \union {[write |-> w, path |-> p, principal |-> c, status |-> s]}

\* Mutant: the attempt is logged under the name it claims.
WriteUnauthenticatedLogged(w, c) ==
  /\ pc[w] = "idle"
  /\ ~Authentic(c)
  /\ Answer(w, 401)
  /\ Log(w, None, c, 401)
  /\ Store!Tell(w, "failed")
  /\ UNCHANGED <<now, path, cred, size, readVars>>

\* The dependency raises: the handler is not entered, nothing is logged.
WriteUnauthenticated(w, c) ==
  /\ pc[w] = "idle"
  /\ ~Authentic(c)
  /\ Answer(w, 401)
  /\ Store!Tell(w, "failed")
  /\ UNCHANGED <<now, path, cred, size, audit, readVars>>

\* What the handler refuses before it asks the store, in its order: no such
\* repository, a malformed path, no token, a token without the permission, a
\* declared length above the limit (the HTTP server refuses one that is no number).
WriteRefusal(w, p, c, n, s) ==
  \/ p = None /\ s \in {400, 404}
  \/ p # None /\ c = None /\ s = 401
  \/ p # None /\ c # None /\ p \notin CanWrite[c] /\ s = 403
  \/ /\ p # None /\ c # None /\ p \in CanWrite[c]
     /\ w \in Declares /\ n > MaxUpload
     /\ s = 400

WriteRejected(w, p, c, n, s) ==
  /\ pc[w] = "idle"
  /\ Authentic(c)
  /\ WriteRefusal(w, p, c, n, s)
  /\ Answer(w, s)
  /\ Log(w, p, c, s)
  /\ Store!Tell(w, "failed")
  /\ UNCHANGED <<now, path, cred, size, readVars>>

\* Mutant: the permission to read is enough.
WriteAdmittedByRead(w, p, c, n) ==
  /\ pc[w] = "idle"
  /\ Authentic(c)
  /\ c # None
  /\ p \in CanRead[c]
  /\ w \in Declares => n <= MaxUpload
  /\ pc' = [pc EXCEPT ![w] = "exists"]
  /\ path' = [path EXCEPT ![w] = p]
  /\ cred' = [cred EXCEPT ![w] = c]
  /\ size' = [size EXCEPT ![w] = n]
  /\ UNCHANGED <<now, storeVars, status, audit, readVars>>

\* The token may write there, and no length above the limit was declared.
WriteAdmitted(w, p, c, n) ==
  /\ pc[w] = "idle"
  /\ Authentic(c)
  /\ c # None
  /\ p \in CanWrite[c]
  /\ w \in Declares => n <= MaxUpload
  /\ pc' = [pc EXCEPT ![w] = "exists"]
  /\ path' = [path EXCEPT ![w] = p]
  /\ cred' = [cred EXCEPT ![w] = c]
  /\ size' = [size EXCEPT ![w] = n]
  /\ UNCHANGED <<now, storeVars, status, audit, readVars>>

\* Mutant: the audit line is written before the store is asked to put.
ExistsPassesLogged(w) ==
  /\ pc[w] = "exists"
  /\ path[w] \in Immutable => published[path[w]] = None
  /\ pc' = [pc EXCEPT ![w] = "put"]
  /\ Log(w, path[w], cred[w], 201)
  /\ UNCHANGED <<now, storeVars, path, cred, size, status, readVars>>

\* store.exists and check_overwrite: the path may be written.
ExistsPasses(w) ==
  /\ pc[w] = "exists"
  /\ path[w] \in Immutable => published[path[w]] = None
  /\ pc' = [pc EXCEPT ![w] = "put"]
  /\ UNCHANGED <<now, storeVars, path, cred, size, status, audit, readVars>>

\* check_overwrite raises ConflictError.
ExistsTaken(w) ==
  /\ pc[w] = "exists"
  /\ Store!Refuse(w, path[w])
  /\ reply'[w] = "conflict"
  /\ Answer(w, 409)
  /\ Log(w, path[w], cred[w], 409)
  /\ UNCHANGED <<now, path, cred, size, readVars>>

\* The reads that would see that k is no longer what it was at their head.
Disturb(k) ==
  changed' = changed \union {d \in Read : getpc[d] \in {"get", "open"} /\ wanted[d] = k}

\* store.put takes effect: the body was read to its end and is not too large.
PutTakesEffect(w) ==
  /\ pc[w] = "put"
  /\ size[w] <= MaxUpload
  /\ Store!Publish(w, path[w])
  /\ Disturb(path[w])
  /\ UNCHANGED <<now, writeVars, getpc, wanted, reader, length, outcome>>

\* store.put finds the path taken by now.  The local store looks before it reads the body,
\* which may then be too large as well.
PutFindsTaken(w) ==
  /\ pc[w] = "put"
  /\ Store!Refuse(w, path[w])
  /\ reply' = reply
  /\ UNCHANGED <<now, writeVars, readVars>>

\* store.put returns: the audit line and 201.
PutCreated(w) ==
  /\ pc[w] = "put"
  /\ verdict[w] = "stored"
  /\ Store!Tell(w, "created")
  /\ Answer(w, 201)
  /\ Log(w, path[w], cred[w], 201)
  /\ UNCHANGED <<now, path, cred, size, readVars>>

\* store.put raises ConflictError.
PutConflict(w) ==
  /\ pc[w] = "put"
  /\ verdict[w] = "refused"
  /\ Store!Tell(w, "conflict")
  /\ Answer(w, 409)
  /\ Log(w, path[w], cred[w], 409)
  /\ UNCHANGED <<now, path, cred, size, readVars>>

\* Mutant: counting_stream raises no PackVaultError.
BodyTooLargeUnlogged(w) ==
  /\ pc[w] = "put"
  /\ verdict[w] = "none"
  /\ size[w] > MaxUpload
  /\ Store!Tell(w, "failed")
  /\ Answer(w, 400)
  /\ UNCHANGED <<now, path, cred, size, audit, readVars>>

\* counting_stream raises in the middle of store.put.
BodyTooLarge(w) ==
  /\ pc[w] = "put"
  /\ verdict[w] = "none"
  /\ size[w] > MaxUpload
  /\ Store!Tell(w, "failed")
  /\ Answer(w, 400)
  /\ Log(w, path[w], cred[w], 400)
  /\ UNCHANGED <<now, path, cred, size, readVars>>

\* The client leaves: ClientDisconnect is no PackVaultError, nothing is logged.
BodyCut(w) ==
  /\ pc[w] = "put"
  /\ verdict[w] = "none"
  /\ Store!Tell(w, "failed")
  /\ Answer(w, 0)
  /\ UNCHANGED <<now, path, cred, size, audit, readVars>>

\* exists or put raises ServiceUnavailableError, whatever put has done by then.
WriteUnavailable(w) ==
  /\ pc[w] \in {"exists", "put"}
  /\ Store!Tell(w, "failed")
  /\ Answer(w, 503)
  /\ Log(w, path[w], cred[w], 503)
  /\ UNCHANGED <<now, path, cred, size, readVars>>

\* They raise something else: an OSError of makedirs or of the last unlink, an
\* error of botocore that is not a ClientError.
WriteError(w) ==
  /\ pc[w] \in {"exists", "put"}
  /\ Store!Tell(w, "failed")
  /\ Answer(w, 500)
  /\ UNCHANGED <<now, path, cred, size, audit, readVars>>

-----------------------------------------------------------------------------
(* get_artifact *)

End(d, s) == getpc' = [getpc EXCEPT ![d] = "done"] /\ outcome' = [outcome EXCEPT ![d] = s]
At(d, l) == getpc' = [getpc EXCEPT ![d] = l]

ReadUnauthenticated(d, c) ==
  /\ getpc[d] = "idle"
  /\ ~Authentic(c)
  /\ End(d, 401)
  /\ UNCHANGED <<now, storeVars, writeVars, wanted, reader, length, changed>>

\* _authenticate_read: a token is asked for its permission even where anybody
\* may read.
ReadRefusal(p, c, s) ==
  \/ p = None /\ s \in {400, 404}
  \/ p # None /\ c = None /\ ~AnonymousRead /\ s = 401
  \/ p # None /\ c # None /\ p \notin CanRead[c] /\ s = 403

ReadRejected(d, p, c, s) ==
  /\ getpc[d] = "idle"
  /\ Authentic(c)
  /\ ReadRefusal(p, c, s)
  /\ End(d, s)
  /\ UNCHANGED <<now, storeVars, writeVars, wanted, reader, length, changed>>

MayRead(p, c) == IF c = None THEN AnonymousRead ELSE p \in CanRead[c]

ReadAdmitted(d, p, c) ==
  /\ getpc[d] = "idle"
  /\ Authentic(c)
  /\ MayRead(p, c)
  /\ At(d, "head")
  /\ wanted' = [wanted EXCEPT ![d] = p]
  /\ reader' = [reader EXCEPT ![d] = c]
  /\ UNCHANGED <<now, storeVars, writeVars, length, outcome, changed>>

\* Mutant: the size defaults to 0, as in S3ArtifactStore.head.
HeadFoundUnsized(d) ==
  /\ getpc[d] = "head"
  /\ published[wanted[d]] # None
  /\ At(d, "get")
  /\ UNCHANGED <<now, storeVars, writeVars, wanted, reader, length, outcome, changed>>

\* store.head finds the object: its size will be the Content-Length.
HeadFound(d) ==
  /\ getpc[d] = "head"
  /\ published[wanted[d]] # None
  /\ length' = [length EXCEPT ![d] = size[published[wanted[d]]]]
  /\ At(d, "get")
  /\ UNCHANGED <<now, storeVars, writeVars, wanted, reader, outcome, changed>>

\* The same of a HEAD request, which is answered with it.
HeadTold(d) ==
  /\ getpc[d] = "head"
  /\ published[wanted[d]] # None
  /\ length' = [length EXCEPT ![d] = size[published[wanted[d]]]]
  /\ At(d, "told")
  /\ outcome' = [outcome EXCEPT ![d] = 200]
  /\ UNCHANGED <<now, storeVars, writeVars, wanted, reader, changed>>

\* No object, at head or (LocalArtifactStore's is_file) at get.
ReadMissing(d) ==
  /\ getpc[d] \in {"head", "get"}
  /\ published[wanted[d]] = None
  /\ End(d, 404)
  /\ UNCHANGED <<now, storeVars, writeVars, wanted, reader, length, changed>>

\* store.get returns an iterator, the response starts.
GetReturns(d) ==
  /\ getpc[d] = "get"
  /\ At(d, "open")
  /\ UNCHANGED <<now, storeVars, writeVars, wanted, reader, length, outcome, changed>>

\* The iterator opens the object.
GetOpens(d) ==
  /\ getpc[d] = "open"
  /\ Store!Serve(d, wanted[d])
  /\ At(d, "body")
  /\ UNCHANGED <<now, writeVars, wanted, reader, length, outcome, changed>>

\* The object is gone: the response breaks off.
GetGone(d) ==
  /\ getpc[d] = "open"
  /\ published[wanted[d]] = None
  /\ End(d, 0)
  /\ UNCHANGED <<now, storeVars, writeVars, wanted, reader, length, changed>>

\* The body is sent.  The server cuts one of another length than declared.
BodySent(d) ==
  /\ getpc[d] = "body"
  /\ End(d, IF length[d] = size[serving[d]] THEN 200 ELSE 0)
  /\ UNCHANGED <<now, storeVars, writeVars, wanted, reader, length, changed>>

\* The client leaves or the store fails when it is too late for a status.
ReadCut(d) ==
  /\ getpc[d] \in {"open", "body"}
  /\ At(d, "cut")
  /\ UNCHANGED <<now, storeVars, writeVars, wanted, reader, length, outcome, changed>>

\* head or get raises.
ReadError(d) ==
  /\ getpc[d] \in {"head", "get"}
  /\ \E s \in {500, 503} : End(d, s)
  /\ UNCHANGED <<now, storeVars, writeVars, wanted, reader, length, changed>>

-----------------------------------------------------------------------------
(* The rest of the world: the clock, a dashboard user who deletes, a crash *)

Tick ==
  /\ now < MaxTime
  /\ now' = now + 1
  /\ UNCHANGED <<storeVars, writeVars, readVars>>

Delete(k) ==
  /\ published[k] # None
  /\ Store!Withdraw(k)
  /\ Disturb(k)
  /\ UNCHANGED <<now, writeVars, getpc, wanted, reader, length, outcome>>

InFlight(w) == pc[w] \in {"exists", "put"}
Reading(d) == getpc[d] \in {"head", "get", "open", "body"}

\* The process dies; what it logged is out of it and stays.
Crash ==
  /\ \E w \in Write : InFlight(w)
  /\ Store!Drop({w \in Write : InFlight(w)})
  /\ pc' = [w \in Write |-> IF InFlight(w) THEN "done" ELSE pc[w]]
  /\ getpc' = [d \in Read |-> IF Reading(d) THEN "cut" ELSE getpc[d]]
  /\ UNCHANGED <<now, path, cred, size, status, audit, wanted, reader, length, outcome, changed>>

Put(w) ==
  \/ \E c \in Cred : WriteUnauthenticated(w, c)
  \/ \E p \in Key \union {None}, c \in Cred, n \in Length, s \in {400, 401, 403, 404} :
       WriteRejected(w, p, c, n, s)
  \/ \E p \in Key, c \in Cred, n \in Length : WriteAdmitted(w, p, c, n)
  \/ ExistsPasses(w) \/ ExistsTaken(w)
  \/ PutTakesEffect(w) \/ PutFindsTaken(w) \/ PutCreated(w) \/ PutConflict(w)
  \/ BodyTooLarge(w) \/ BodyCut(w) \/ WriteUnavailable(w) \/ WriteError(w)

Get(d) ==
  \/ \E c \in Cred : ReadUnauthenticated(d, c)
  \/ \E p \in Key \union {None}, c \in Cred, s \in {400, 401, 403, 404} : ReadRejected(d, p, c, s)
  \/ \E p \in Key, c \in Cred : ReadAdmitted(d, p, c)
  \/ HeadFound(d) \/ HeadTold(d) \/ ReadMissing(d) \/ GetReturns(d) \/ GetOpens(d) \/ GetGone(d)
  \/ BodySent(d) \/ ReadCut(d) \/ ReadError(d)

Next ==
  \/ Tick
  \/ \E w \in Write : Put(w)
  \/ \E d \in Read : Get(d)
  \/ \E k \in Key : Delete(k)
  \/ Crash

Spec == Init /\ [][Next]_vars

-----------------------------------------------------------------------------
(* Properties *)

\* Nothing is stored or read but with a token that has the permission for that
\* repository (or, for reads, with none where anonymous_read allows it), and
\* nothing above the upload limit, declared or not, is stored.
Authorized ==
  /\ \A k \in Key : published[k] # None =>
       /\ path[published[k]] = k
       /\ cred[published[k]] \in Token
       /\ k \in CanWrite[cred[published[k]]]
       /\ size[published[k]] <= MaxUpload
  /\ \A d \in Read : serving[d] # None => MayRead(wanted[d], reader[d])

\* A line of the audit log says what the client was told and what the store did,
\* once per request and under the name of its token: 201 is stored, 409 is
\* refused by a taken path, 4xx has touched nothing; only 503 leaves it open.
AuditHonest ==
  /\ \A l \in audit :
       /\ pc[l.write] = "done" /\ l.status = status[l.write]
       /\ l.status = 201 <=> verdict[l.write] = "stored" /\ l.status # 503
       /\ l.status = 409 => verdict[l.write] = "refused"
       /\ l.status \in {400, 401, 403, 404} => verdict[l.write] = "none"
       /\ verdict[l.write] # "none" => l.path = path[l.write] /\ l.principal = cred[l.write]
  /\ \A l, m \in audit : l.write = m.write => l = m

\* Every answer the handler gives by itself is in the log: all of them but 500,
\* a cut connection, and the 401 of credentials that are not accepted.
AnswersAudited ==
  \A w \in Write : pc[w] = "done" /\ status[w] \in {201, 400, 403, 404, 409, 503} =>
    \E l \in audit : l.write = w /\ l.status = status[w]

\* A download that completes is one whole upload to its key of the length that
\* was announced; one that breaks off on its own has met a change of its artifact
\* between head and open.
DownloadsExplained ==
  \A d \in Read : getpc[d] = "done" =>
    /\ outcome[d] = 200 => /\ serving[d] # None
                           /\ path[serving[d]] = wanted[d]
                           /\ length[d] = size[serving[d]]
    /\ outcome[d] = 0 => d \in changed

\* The inductive invariant behind them: what each handler may rely on at its next
\* call of the store.
WriteInv(w) ==
  /\ pc[w] # "done" => status[w] = 0
  /\ pc[w] = "idle" => verdict[w] = "none" /\ reply[w] = "none"
  /\ InFlight(w) =>
       reply[w] = "none" /\ path[w] \in Key /\ cred[w] \in Token /\ path[w] \in CanWrite[cred[w]]
  /\ pc[w] = "exists" => verdict[w] = "none"
  /\ verdict[w] = "stored" =>
       cred[w] \in Token /\ path[w] \in CanWrite[cred[w]] /\ size[w] <= MaxUpload

ReadInv(d) ==
  /\ getpc[d] \in {"idle", "head", "get", "open"} => serving[d] = None
  /\ getpc[d] = "body" => serving[d] # None
  /\ Reading(d) => wanted[d] \in Key /\ MayRead(wanted[d], reader[d])
  /\ serving[d] # None => verdict[serving[d]] = "stored" /\ path[serving[d]] = wanted[d]
  /\ getpc[d] \in {"get", "open"} /\ d \notin changed =>
       published[wanted[d]] # None /\ length[d] = size[published[wanted[d]]]
  /\ getpc[d] = "body" /\ d \notin changed => length[d] = size[serving[d]]

PublishedInv ==
  \A k \in Key : published[k] # None =>
    verdict[published[k]] = "stored" /\ path[published[k]] = k

ApiInv ==
  /\ TypeOK /\ Authorized /\ AuditHonest /\ AnswersAudited /\ DownloadsExplained
  /\ PublishedInv
  /\ \A w \in Write : WriteInv(w)
  /\ \A d \in Read : ReadInv(d)

\* Bytes that a client was told were rejected are under no key and in no download,
\* whether the gateway refused them, the store did, or they grew too large on the way.
RejectedUnseen ==
  \A w \in Write : status[w] \in {400, 401, 403, 404, 409} =>
    (\A k \in Key : published[k] # w) /\ (\A d \in Read : serving[d] # w)

\* security.md: "Write operations audit-logged".  An upload that was stored and
\* whose client was answered has a line.
StoredIsAudited ==
  \A w \in Write : verdict[w] = "stored" /\ pc[w] = "done" /\ status[w] # 0 =>
    \E l \in audit : l.write = w

\* What is left of it: such an upload has its line, under its path and its token,
\* unless the store raised what put_artifact does not catch (500).
StoredIsAuditedUnlessFailed ==
  \A w \in Write : verdict[w] = "stored" /\ pc[w] = "done" /\ status[w] \notin {0, 500} =>
    \E l \in audit : l.write = w /\ l.path = path[w] /\ l.principal = cred[w]
=================================================================================
