# PackVault in TLA+

PackVault is an internal Maven artifact repository: a FastAPI application that
stores artifacts on a local file system or in an S3 bucket with a local cache,
serves them under `/maven/<repository>/<path>`, and has a dashboard for
browsing, deleting, tokens and first-time setup. Several replicas may share one
bucket and one PostgreSQL database. These modules model the parts of it whose
behaviour depends on the order of things; paths below are relative to the
repository.

## 1. The system

| Component | Source | State | Operations |
|---|---|---|---|
| storage contract | `packvault/storage/base.py` | the objects | put (create-only or overwrite), get, head, delete, delete_many, list_prefix |
| local storage | `packvault/storage/local.py` | files, hidden temporary files, open descriptors | put writes `.<name>.<uuid>.tmp`, then `os.link` (create-only) or `os.replace`; get opens lazily; delete, delete_many, listing by `rglob` |
| S3 storage and cache | `packvault/storage/s3.py`, `cached.py`, `factory.py` | bucket objects; one cache directory per replica | put to the bucket (`IfNoneMatch="*"`), then to the cache; head and get ask the cache first; delete removes, then evicts |
| Maven HTTP API | `packvault/api/routes_maven.py` | audit log | GET, HEAD, PUT, with head or exists and check_overwrite before the store |
| bulk deletion | `api/routes_artifacts.py`, `ui/package_actions.py`, `ui/artifacts.py` | listing cursor, collected keys, audit log | delete one file, versions, a package |
| setup and startup | `setup/service.py`, `setup/startup.py`, `api/routes_setup.py`, `main.py` | `system_state` row, `system_initialized` per process | initialize, boot checks |
| tokens | `auth/tokens.py`, `auth/permissions.py` | token rows | issue, check expiry and permissions |
| sessions | `api/routes_auth.py`, `auth/sessions.py`, `main.py` | the browser's cookie, shared with the session middleware | sign in by password or Google, sign out |
| package pages, versions | `api/routes_ui.py`, `ui/packages.py` | none | list the repository, group by package, sort versions |
| directory pages | `storage/prefix_listing.py`, `storage/local.py`, `ui/artifacts.py` | cursor in the URL | one page of directories and files, the level it shows |
| ping limiter | `security/rate_limit.py`, `api/routes_ping.py` | the window of one key | allow or refuse |
| probes, lifecycle | `main.py`, `observability/health.py`, `port_routing.py`, `api/routes_operations.py` | two servers in one process, `startup_complete` | answer probes, stop on a signal |
| secret protection, checksums, configuration, logging, metrics, schema, templates | the rest | fixed after start | pure functions, I/O and layout |

How they interact: a Maven request authenticates, asks the store's `head`, then
calls `get`, `put` or `delete` of the same store and writes an audit line.
`CachedArtifactStore` calls an `S3ArtifactStore` and a `LocalArtifactStore`. The
dashboard calls `list_prefix` in a loop and `delete_many` after it, on the same
store as everybody else. Setup and boot share the database across processes and
a flag inside each. Nothing of this is locked: every `await`, every file-system
call on a thread and every replica is a point of interleaving.

What is hard, and what has to hold:

* **store**: uploads race for one name, deletions run meanwhile, bodies break
  off, calls fail, processes die. An artifact is one whole upload; an immutable
  one never changes; a download gets one whole version; 201 and 409 are true;
  temporary files do not pile up; every call ends.
* **cache**: a copy is made and evicted after the bucket has changed, in one
  replica only. A copy must be of accepted bytes; reads must agree with the
  bucket and with each other.
* **bulk deletion**: listing and deletion take many calls while keys come and
  go. Nothing outside the selection goes, nothing that stayed is missed, the
  answer and the audit line are true, the request ends.
* **gateway**: authentication, `exists`, a body of any duration, the store and
  the audit line are steps of one request between which everything else happens.
  What is stored or served was permitted; the audit log is true and complete; a
  download is what its headers announced.
* **setup**: two requests may run on two replicas, a commit's response may be
  lost, and each process remembers what it read at boot. One admin initializes,
  once; a wrong key never comes up.
* **dashboard pages**: a page rests on a listing of many calls, a walk of a
  directory on many requests. A page must not call a package gone that never
  was, nor an old version the latest; a walk shows every entry that stayed, once.
* **sessions**: the server keeps nothing, so answers to requests that tabs had on
  their way set cookies in any order, and two mechanisms write one cookie. Pages
  are served only to who proved to be that user; a sign-out lasts; a session holds.
* **process**: one event loop, two servers that a signal stops one after the
  other, a limiter with a window. The limit is kept; ready is not said once the
  application's port has been closed; an orderly stop cuts nothing off.

`PROJECT.json` lists every component with its status, every hazard at its line
with the properties that would catch it, and for every definition the lines it
models.

## 2. Modules

| Module | Models | Extends / instantiates |
|---|---|---|
| `ArtifactRepository` | abstract: what an `ArtifactStore` does, and what that promises its callers (`Promises`) | |
| `LocalStore` | `local.py`, one file-system call per action | implements `ArtifactRepository` |
| `CachedStore` | `cached.py` over `s3.py`, several replicas | implements `ArtifactRepository` on the faithful keys |
| `BulkDelete` | the dashboard's deletions over `list_prefix` / `delete_many` | |
| `VersionOrder` | `_compare_versions` and what `sorted()` may make of it | |
| `Dashboard` | package pages and the directory browser beside the deletions | EXTENDS `BulkDelete` and `VersionOrder` |
| `MavenApi` | the Maven routes and their authentication | instantiates `ArtifactRepository` as its store |
| `SystemRecord` | abstract: what first-time setup promises its admins (`Promises`) | |
| `Setup` | boot and initialization of replicas on one database | implements `SystemRecord` |
| `Session` | the sign-ins of the dashboard and their cookies | |
| `RateLimiter` | the fixed-window limiter of `GET /ping` | |
| `Service` | a process with its two servers, from boot to its end | EXTENDS `RateLimiter` |
| `*_proofs` | theorems about the module of that name (`Dashboard_proofs`: also about `BulkDelete` and `VersionOrder`) | EXTENDS it and TLAPS; those of `LocalStore`, `CachedStore` and `MavenApi` instantiate `ArtifactRepository_proofs` |
| `MC*` | instances for TLC | EXTENDS it and TLC |

Operators after a "Mutant:" comment are not part of any
specification: each is a plausible bug in the definition that follows it and
serves to show that a property can fail.

**ArtifactRepository.** `published[k]` is the upload a key holds. `Publish` and
`PublishAndTell` are put taking effect; the reply (`Tell`) may come later or
never (`Drop`), and a failed upload may or may not have taken effect: that is
all an HTTP client can know. `Serve` is a download reading one version. Its
`Promises` are what a caller may conclude from that and no single step shows.

**LocalStore.** A file is an inode named by the upload that writes it; `entry`
and `temp` are directory entries; `pc[u]` is the next system call of `put`.
`PutRefused` / `PutAdmitted` are `path.exists()`, `PutOpen`, `PutWrite`,
`PutClose` the temporary file, `PutLink`, `PutLinkExists`, `PutReplace` the
install, `PutUnlink` the `finally` clause and both handlers. `PutFault` and
`PutBroken` raise at any call; the `unlink` of a handler may itself fail, and
then another exception leaves `put` than the one that was raised. `Crash` also
stands for cancellation at shutdown: `CancelledError` is no `Exception`, so the
handlers do not run. Deletions by name (`Delete`) and the loop of `delete_many`
over a list made earlier (`PurgeList`, `PurgeRemove`; one page of names, whose listing
does not await, while `BulkDelete` has the pages) run beside, and since
`rglob` lists temporary files too, they may remove one before it is linked.

**CachedStore.** `primary` is the bucket; `cache[r]` the copies of replica `r`.
The bucket's three calls are atomic there and are the only external part; each
may take effect and raise. Every way out of `put` ends with the unlink of the spooled
body, which may fail in place of the outcome (`Finish`). A cache directory is a `LocalStore` whose keys are
all overwritable; the theorems about that module justify taking a cache write,
open or removal as one step. `GetMiss` is what `get` does with a cacheable key
that has no copy: it returns the coroutine of `_stream_and_cache`, so the
response breaks off, the bucket is not read and no copy is made.

**BulkDelete.** Keys are numbers in listing order. `Matches[v]` is what the
backend lists for the prefix `v`, `Under[v]` what is in that directory; on the
local backend they are equal, on S3 `Matches` also has the siblings whose name
starts with `v`. `ListMore`, `ListLast`, `ListNone` are the loop of
`list_keys_under_prefix` with its page cap, `Remove` a key of `delete_many`,
`Audit` the line written after it (of the lines of failed deletions, the 404 of
`_delete_scoped_prefix` counts no keys and is left out). `Upload` and `Delete` are everybody else.

**VersionOrder.** A version is the sequence of its parts, a part a number or a
text. `Older` is `_compare_versions` being negative, `Sortings(V)` the lists in
which no version is right after one it is older than: that is all a comparison
sort promises when the relation is not transitive, and it is not ("9" is before
"10", "10" before "1a" and "1a" before "9", whatever the docstring at
`packages.py:292` says). `Precedes` is what the order should be for versions
made of numbers, defined without `_compare_versions`.

**Dashboard.** A package page (`BeginPage`, `PageStep`, `Render`) lists the
repository with the loop of `BulkDelete`, without a deletion after it; the
deletion of one version from a package page lists again (`Relist`) to choose its
redirect. `Render` shows the versions found, refuses a listing with another
repository's key (which a backend that lists by string prefix returns), or says
that there is nothing. `OpenDirectory` and `ShowPage` are the browser: entries
are numbered in the order of their tokens, `Following` and `PageOf` are
`merge_directory_page`, `VersionsOffered` is the inferred level. `made` keeps the
directories that the local backend never removes, so a deleted version is still
listed as an empty directory.

**MavenApi.** `pc[w]` is what a PUT does next (`exists`, then `put`), `getpc[d]`
what a GET or HEAD does. The store is an `ArtifactRepository` of which the
actions call `Publish`, `Refuse`, `Tell`, `Serve`, `Withdraw` and `Drop`; since
`LocalStore` implements it for all keys, and `CachedStore` for the faithful
ones, what holds here holds of the gateway over them. Since the gateway calls
these and nothing else, the promises reach the clients of the HTTP API; that is so
by the shape of the model and no property of its own. `WriteUnauthenticated` is the
dependency `get_auth_context` raising before the handler is entered,
`WriteRefusal` the handler's checks in their order, `ExistsPasses` /
`ExistsTaken` the early `check_overwrite`, `PutTakesEffect` and `PutFindsTaken`
the effect of `store.put`, and the actions after it the three ways out of
the `try`: success, an exception with an audit line, an exception without.
`HeadFound` fixes the Content-Length; `GetOpens` opens the object when the
response has begun; `BodySent` is the HTTP server, which cuts a response of
another length. `changed` is a history variable: the downloads whose object was
replaced or deleted between the two.

**SystemRecord.** `record` is the row of `system_state`, claimed once (`Claim`); `aware`
the processes that take the system for initialized (`Learn`, `Forget`); `told` what each
admin was told (`Confirm`, `Decline`, `Drop`). The database, the migration and the boot
of processes are left out.

**Setup.** `phase` is where a process's `lifespan` is, `pc` where an initialize
request is, `row` the row of `system_state`. The migration (`Upgrade`) and the
seed (`Seed`) are transactions; the primary key of `system_state` makes the
second seed fail (`SeedClash`, answered 500), and of two concurrent migrations
the second fails (`UpgradeClash`). `SeedLost` commits and loses the response.

**Session.** `jar[b]` is the one cookie of browser `b`: the application's (a user)
or the middleware's (the Google sign-ins under way), which has the same name.
A request carries the cookie of the moment it was sent (`Send`); the answer
changes the jar when it arrives (`Arrive`), so two tabs of a browser overtake each
other. `Answer` is the order of the two `Set-Cookie` headers: the middleware's
comes last and wins. `CallbackSucceeds` and `CallbackRefused` are Authlib's check of
the state; any browser may come back from Google with any flow that was begun.
`proven`, `out` and `held` are histories the properties speak of. `held[b]` begins
when an answer that brings the session of a password sign-in arrives (`BringsSession`)
and ends with the first of another kind of sign-in, a sign-out, the beginning of a Google
sign-in or an answer to a request that still carried the state of one (`EndsSession`).

**RateLimiter, Service.** The handler of `/ping` awaits nothing, so `Counted` and
`Exhausted` are one step with the reading of the clock, and the lock of the
limiter never waits. `Service` adds the two uvicorn servers of `_serve`: the last
to start owns the signal handlers, stops first and raises its signals again for
the other (`LastStops`, `FirstStops`); with the other the process ends, by the
signal, before `lifespan` goes on. `Routed` is the middleware that gives each port
its paths, `CheckHealth` and `Ready` the two halves of `/readyz`, `StorageChanges` the
storage failing or recovering between them. Boot is one step here; `Setup` has it
in detail.

## 3. Runs

| Run | Instance | Shows |
|---|---|---|
| `local_store` | 2 uploads of 2 chunks, 1 download, 1 bulk deletion, 2 keys (one immutable), faults, crashes, fairness | `NoTornArtifact`, `TempsAccountedFor`, `DownloadsWhole`, `Immutability`, `NoResurrection`, `ImplementsRepository`, `UploadsSettle`, `PurgesEnd` |
| `cached_replicas` | 2 replicas, 3 keys, 2 uploads, 2 downloads, faults | `CopiesWerePublished`, `StableCopies`, `FaithfulImplementsRepository` |
| `cached_miss` | violation | `MissesReadPrimary` |
| `cached_delete` | violation | `SourceOfTruth` |
| `dashboard` | 5 keys in 2 packages, versions 1.1, 1.9, 1.10 and 2.0.RC, 1 request, listings of pages of 1, at most 4, directory pages of 2, fairness | `ScopeRespected`, `NothingMissed`, `AnswersHonest`, `PagesHonest`, `LatestIsNewest`, `WalkFaithful`, `VersionsSelectable`, `RequestsEnd` |
| `bulk_s3_prefix` | violation, the same with `Matches` by string prefix | `ScopeRespected` |
| `gateway` | 2 uploads, 1 download, a release and a snapshot key, 2 tokens (one expires), lengths 1 to 3 with a limit of 2 | `Authorized`, `AuditHonest`, `AnswersAudited`, `DownloadsExplained` |
| `gateway_audit` | violation, same instance | `StoredIsAudited` |
| `setup_races` | 2 replicas, 3 requests, 2 encryption keys | `OneInitializer`, `LateAttemptsConflict`, `WrongKeyRefused`, `ImplementsSystemRecord` |
| `session` | 2 tabs of a browser, 2 Google sign-ins, one of which another browser may have begun, 2 units of time; a session is good in the unit in which it was signed (`MaxAge` 0), the state of a Google sign-in also in the next (`FlowAge` 1) | `SignOutLasts`, `SessionsEarned`, `LocalSessionHolds` |
| `sign_in` | violation, the same instance | `SignInBringsSession` |
| `service` | 2 requests at a time, 2 pings a window of 2 ticks, 4 ticks, 2 signals, restarts | `LimitKept`, `ReadyHonest`, `NothingCutOff` |

Every passing run also checks its module's type invariant (`DashboardTypeOK` is
that of `Dashboard`), and the bounds are reached. Two uploads to the local store
are a winner and a loser of `os.link`, or one that comes after a deletion (with a
third the same steps meet in more orders; the theorems cover any number); two
chunks are a body a reader or a crash can find half written; two replicas are the
one a change goes through and one that is not told. Five keys with pages of one
and four pages are listings that end, that are cut off and that keys slip into
behind and ahead of the cursor; a directory of four entries in pages of two is a
walk that ends on a full page, on a short one, or meets entries that came after
the cursor. 1.10 is last in the numeric order and in the middle of the listing.
Two uploads and a download on the gateway are a conflict found before and after
the body and an overwrite under a response that has begun, and lengths up to 3 a
body below the limit, at it and above it, declared or not; three requests on two
replicas are the winner, a concurrent loser and a late one, with restarts between.
Two tabs are a request that overtakes another and one of each kind that is on its
way when the other's answer arrives; two units of time are a cookie that is fresh
and one that has expired, while the state of a Google sign-in is still good. Four
ticks are two windows, and with two pings a window the burst around their boundary
occurs: four pings in a row, at 0, 1, 2 and 2. Two signals are a polite one and an interrupt after it, in either order.

Symmetry is used in the runs without liveness, over sets the specifications do not
tell apart. Deadlock is not checked where clients may stop asking; in `service` it is,
but shows nothing, since the storage may always change.

Fairness is weak and per action, never on `Next`. In `LocalStore` it covers the
calls that follow the last byte of a body (`Finish`) and the loop of
`delete_many`; in `Dashboard` the calls of a request that was begun (`Serve`). It
rests on a system call or a bucket call returning and on the event loop resuming
its coroutine. No client has to send anything, no body has to end, no page has to
be turned, and no fault or crash is owed. `Session` and `Service` assume no
fairness: their properties are of safety.

## 4. What the violations say

For each a theorem says how far it goes, for every value of the constants.

* `cached_miss`: `cached.py:71` returns a coroutine where `cached.py:32`
  promises a read from the primary. Every GET of a cacheable artifact that the
  replica has not itself received breaks off after its 200. `OnlyUploadersServe`:
  no read ever fills a cache, a copy is in the replica that took the upload and in
  no other.
* `cached_delete`: a deletion and its eviction that fall between an upload's two
  writes (`cached.py:105`, `:113`) leave a copy that answers for a deleted
  artifact. `DELETE` then answers 404 before any eviction, so it stays.
  `FaithfulHeads`: keys that are never cached, or immutable and deleted by nobody, are
  answered by every replica as the bucket would answer, at every moment.
* `bulk_s3_prefix`: `s3.py:193` lists by string prefix with no closing slash, so
  deleting version 1.1 deletes 1.10 too. `DeletionsInScope`: that is the only way; on a
  backend that lists directories nothing outside the selection goes.
* `gateway_audit`: `routes_maven.py:262-289` writes an audit line for errors of
  its own kinds only. If the store raises another one after the artifact is
  stored, such as an OSError of the last `unlink` (`local.py:109`, `s3.py:176`)
  or a broken connection to the bucket (`s3.py:161-172` catches `ClientError`
  only), the client gets 500 and the log has nothing, where `security.md` says
  that write attempts are logged. `StoredIsAuditedUnlessFailed`: an upload that is
  stored and answered otherwise has its line, under its own path and token.
* `sign_in`: the session middleware is given the cookie name of the application's own
  session (`main.py:143`, `routes_auth.py:19`), and its `Set-Cookie` comes last. With a
  password: in a browser where a Google sign-in was begun and given up, the middleware
  signs that state again on every answer, over the session that `login_post` has just
  set (`routes_auth.py:70`) and over the deletion of a sign-out; nobody signs in there
  until a callback uses the state up or it has not been sent for two weeks. With Google:
  after a callback the middleware expires the cookie, or sends the state of another
  sign-in, over the new session. `SignsInUnlessFlows` is the exact boundary: a sign-in
  brings a session if and only if it is one by password and its request carried no state
  that is still good. `GoogleNeverSignsIn` follows: no session that Google vouched for
  ever reaches a browser and no page is ever served to such a user.

Further observations, which no run states:

* Keys of repositories with `allow_overwrite`, among them
  `maven-metadata.xml.sha1`, are cached without expiry (`cached.py:206`): after an
  overwrite through another replica two replicas disagree for good.
* `system_initialized` is set in the process that served the request; the other
  replicas keep offering setup until they restart (`docs/operations.md:111`).
* `main.py:103-104` reads the row in two sessions: when the system is initialized
  between them, a process configured with another key comes up as initialized;
  `WrongKeyRefused` speaks of boots that began later.
* A listing of more than 500 pages of 100 keys stops without a word, and the
  redirect still says "deleted" (`ui/artifacts.py:246`); `NothingMissed`,
  `PagesHonest` and `LatestIsNewest` leave such listings out. They are no others:
  `CutOffOnlyAtCap` shows that a listing is cut off with 500 full pages, never sooner.
* A bulk deletion that fails in the middle (`ui/package_actions.py:55`) leaves no
  audit line of the keys it removed; `AnswersHonest` speaks of the requests that
  are answered with success or 404.
* Versions with parts that are not numbers have no order: which one a page calls the
  latest may differ from one process to the next. `LatestIsNewest` speaks of numeric
  ones.
* The level of a directory page is inferred from that page alone, so a later page
  of a directory may offer other deletions than its first (`ui/artifacts.py:222`).
* On the bucket, package pages answer 400 when another repository's name begins
  with this one's: the `refused` disjunct of `Render`, which the instance of `dashboard`
  cannot reach because its backend lists directories.
* The state of a Google sign-in is in the cookie and nowhere else: after a callback has
  used it, the answer to a request of another tab that still carried it brings it back,
  and the same callback link passes Authlib's check again. What stops it then is that
  Google accepts a code once, which is outside the repository; `SessionsEarned` says only
  that the link is of no use in a browser that did not begin the sign-in.
* `shutting_down` is never set: uvicorn raises the signal again when its last
  server has stopped, so what follows the `yield` in `lifespan` (`main.py:120`) does
  not run, the probes never report a shutdown (`docs/operations.md:297`) and the
  database is not closed. `ReadyHonest` and `NothingCutOff` hold without it.

## 5. Theorems

All are checked by TLAPS for every value of the constants. They assume only the
named ASSUMEs of the modules: the sets of keys are sets of keys and `None` is
none of them (`KeysAssumption`, `NamesAssumption`, `CacheKeysAssumption`,
`CacheNoneAssumption`, `ScopesAssumption`, `NoneAssumption`), a body has a chunk
(`ChunksAssumption`), keys are positive numbers and pages have room for one
(`KeyAssumption`, `PagesAssumption`), tokens have permissions and an expiry,
lengths and limits are numbers and `Bad` is no token (`ApiSetsAssumption`,
`ApiTokensAssumption`, `ApiSizesAssumption`, `ApiNoneAssumption`), `Faults` is a
Boolean; a package page has a prefix and keys have a package or none and a version
(`RoutesAssumption`, `PackagesAssumption`), entries are positive numbers with
directories before files (`EntriesAssumption`), a directory page has room for one
(`PageSizeAssumption`), versions are sequences of parts that differ in value or text
(`PartsAssumption`, `ValuesAssumption`, `PartsDiffer`); a tab has a browser, the two
users differ, ages are numbers (`TabsAssumption`, `UsersAssumption`, `AgesAssumption`);
limit and window are positive (`LimitAssumption`, `SignalsAssumption`).

Some theorems need more, and their statements say so. `CutOffOnlyAtCap`,
`WorkShrinksHolds` and `PagesDetermined` count, so they take the set of keys (of prefixes,
of what is listed) as finite. `LatestIsNewestHolds` and `LatestAgreesHolds` take the set of
versions as finite. `DeletionsInScope` takes `Matches` within `Under`, which the local
backend provides and the bucket does not.

* `ArtifactRepository_proofs`. `RepositoryInv` adds to `AnswersTrue` that whatever is
  published or sent was stored, and whoever was told of a conflict was refused. From it
  `PromisesKept`: a client that was told 409 will never see its bytes, under any key or
  in any download; an upload is under one key at most; of any number of uploads that race
  for an immutable key the first stands until it is deleted; an upload takes effect at
  most once; nothing that was decided, told or is being sent is taken back.
* `LocalStore_proofs`. `StoreInv` is inductive: to the three stated invariants
  `PutInv` adds what each call of `put` may rely on (a body that reaches the
  install is complete; a stored upload is past it; the answer says what
  happened), without which `PutLink` could install anything, and `GetInv` what
  an open download has. From it: `TypeCorrect`, `NoTornArtifacts`,
  `WholeDownloads`, `NoStrayTemps`, the action properties `ImmutabilityHolds`
  and `NoResurrectionHolds`, and `Refinement`: `Spec` implies
  `ArtifactRepository!Spec` with `entry`, `verdict`, the reply and the open
  inode as its state; each step of a file-system call is a step of it or none.
  `PromisesKept` carries the promises of the abstract repository over the refinement.
  `CallsBoundedHolds` is an action property: `PutCalls` and `GetCalls` are natural
  numbers that every call of the request itself lowers and no step of another request,
  no fault and no crash raises, and the names a bulk deletion still has to remove only
  get fewer. With fairness of those calls this is why `UploadsSettle` and `PurgesEnd` hold.
* `CachedStore_proofs`. `CacheInv` adds that an upload about to be copied is
  what the bucket holds, if its key is never overwritten or deleted, and where
  the bucket's bytes came from. From it: `TypeCorrect`, `CopiesPublished`,
  `StableCopiesHold`, `FaithfulHeadsHold`, and `Refinement` on the faithful keys: those
  never cached, and the immutable ones nobody deletes. On the others the statement is
  false, as the violations show. `PromisesKept` follows for those keys.
  `OnlyUploadersServeHolds` is by `ServedInv`: a get that asks the bucket asks for a key
  that is not cacheable, and what a download reads was stored.
* `MavenApi_proofs`. `ApiInv` adds what a handler may rely on at its next call of
  the store (`WriteInv`: an upload under way has the permission for its path,
  and one the store has decided on is within the limit; `ReadInv`: an announced
  length is that of what the key holds unless the download was marked) and that
  every key holds a stored upload to it (`PublishedInv`). A step either answers
  a PUT, with a line (`LoggedStep`) or without (`SilentStep`), or is a store
  call (`PutStep`), a step of one download (`GetStep`) or of the rest
  (`OtherStep`). From it: `TypeCorrect`, `AuthorizedHolds`, `AuditHonestHolds`,
  `AnswersAuditedHolds`, `DownloadsExplainedHolds`. `PromisesKept` takes the promises of
  the store over to the gateway (`StoreSteps`: it calls its store's operations only).
  `RejectedUnseenHolds` says what a client concludes from a status: bytes answered with
  400, 401, 403, 404 or 409 are under no key and in no download, whether the gateway
  refused them before the store, the store did, or they grew too large on the way.
  `StoredIsAuditedUnlessFailedHolds` is the boundary of the violation.
* `Setup_proofs`. `SetupInv` adds that a row implies the schema and that a
  request which arrived after initialization never gets past the status check.
  From it: `TypeCorrect`, `OneInitializerHolds`, `LateAttemptsConflictHolds`,
  `WrongKeyRefusedHolds`, `RecordStandsHolds`. `Refinement` shows that `Setup` implements
  `SystemRecord` with the row and the processes' flags as its state. It needs `AuthorInv`,
  inductive beside `SetupInv`: whoever wrote the row has nothing left to ask, without
  which the admin that wrote it could be told of a conflict with itself. `PromisesKept`:
  an admin who is told of a conflict, or of an error by a unique key or an existing table
  (500), did not initialize the system and never will by that request, and one who is told
  so did, with the recorded key.
* `Dashboard_proofs`, deletions. `BulkInv` says that every key that stayed and is not
  past the cursor has been collected, and that the queue holds what stayed
  (`BulkInvariant`). `ListingInv` adds that the keys collected are exactly as many as the
  pages read so far hold, none of them past the cursor; from it `CutOffOnlyAtCap`.
  Every step of `Dashboard` is a step of `BulkDelete`, none, or one of the two that
  begin or end a listing for a page (`DashboardSteps`), so it holds beside the
  pages too: `NothingMissedHolds`, `AnswersHonestHold`, `DeletionsInScope`.
* `Dashboard_proofs`, pages. `DashboardInv` is `BulkInv` with what the listing of a page
  has collected (`PageInv`) and what a walk has shown (`WalkInv`: everything shown
  is at or before the token, and everything at or before it that stayed was shown).
  From it: `DashboardTypeCorrect`, `PagesHonestHold`, `WalkFaithfulHolds` (a page is a
  beginning of what follows, `PageIsBeginning`), `VersionsSelectableHolds`.
  `PagesDetermined` and `WalkPages` are about the operators: of a finite listing there is
  one and only one page, and a page of a walk is full or is everything. The actions that
  list therefore always have a page to take, and no freedom which.
* `Dashboard_proofs`, versions. On numeric versions `_compare_versions` agrees with
  `Precedes` (`PrecedesOlder`), which lets every third version in between
  (`PrecedesBetween`) and decides between any two (`PrecedesTotal`):
  `NumericVersionsOrdered`. So going back from the end of a sorted list no version can be
  the first that the last one precedes (`LastIsNewest`), which gives
  `LatestIsNewestHolds`, and any two sortings end alike (`LastIsDetermined`), which gives
  `LatestAgreesHolds`, for finitely many versions of any length.
* `Dashboard_proofs`, termination. `RequestWork` counts what a request still has to do at
  most: for each prefix the pages up to the cap, a removal for each key, and the calls
  around them. `WorkShrinksHolds`: each of its own steps lowers it and nothing else raises
  it, however fast others upload under its prefixes; the cap on pages is what that rests on.
* `Session_proofs`. `SessionInv` says of every cookie, in a jar, on its way or in an
  answer, that it was earned in its browser (`CookieInv`), and of each browser and tab
  what its histories mean (`BrowserInv`, `TabInv`). A cookie stays earned because time,
  proofs and beginnings only accumulate (`CookiesStay`). From it: `TypeCorrect`,
  `SignOutLastsHolds`, `SessionsEarnedHold`, `LocalSessionsHold`. The last says that a
  session, once brought, holds; which sign-ins bring one is `SignsInUnlessFlowsHolds`, by
  what the middleware appends to each answer (`AnswersStay`: an answer under way keeps
  what it was given).
  `GoogleNeverSignsInHolds` is by `GoogleInv`: no cookie of Google's user is in a request
  or an answer either, because the handler's answer to a callback that succeeds is
  replaced by the middleware's.
* `Service_proofs`. `LimitKeptHolds`: any twice the limit of answered pings in a row take
  a window; twice the limit less one may take less, around a boundary. `LimiterInv` splits the pings that were answered into those of
  the window, those before it, and those so long before that a whole window has
  passed; without the last part nothing bounds what happens around a boundary.
  `ServiceInv` adds that the main server is told to stop only when the operations
  server has stopped, that a request outlives its server only by an interrupt, and
  that what `/readyz` found was so while it was asked. From it: `TypeCorrect`,
  `LimitKeptHolds`, `ReadyHonestHolds`, `NothingCutOffHolds`.

Every invariant and every action property of a passing run is proved. The properties that
are stated by a theorem only, with no run of their own (`Promises`, `RejectedUnseen`,
`CallsBounded`, `FaithfulHeads`, `OnlyUploadersServe`, `SignsInUnlessFlows`, `GoogleNeverSignsIn`,
`StoredIsAuditedUnlessFailed`, `CompleteUpToCap`, `LatestAgrees`, `WorkShrinks`,
`RecordStands`), hold on
the instances of section 3 too: any of them can be added to the configuration of its module.

Only model-checked: liveness (`UploadsSettle`, `PurgesEnd`, `RequestsEnd`), because the
prover has no rule for fairness and ENABLED, and the violations. What is left of liveness
beyond TLAPS is one step: that a request which has begun and not ended can take a step of
its own. The rest, that there are only finitely many and that nobody undoes them, is
`CallsBoundedHolds` and `WorkShrinksHolds`.

## 6. What is left out

Artifact bytes and checksums (an upload stands for its bytes); response headers
but the Content-Length; the S3 backend's own page tokens, which are the bucket's;
the S3 client's own retries, which are outside the repository; the freshness limits
of `_is_cache_fresh`, which apply only to keys that are never looked up in the cache;
`check_health`'s probe file, which has a name of its own; a malformed Content-Length,
which the HTTP server refuses before the handler. In `MavenApi`, password hashing and
the parsing of credentials (they are those of a token or `Bad`). In `Dashboard`, the
counts of packages per repository on each page, searching, file labels and snippets.
In `Session`, signatures and the exchange with Google, which are libraries', and
`auth/oidc.py`, which no route uses. In `Service`, a signal that arrives while ports
are being bound. `delete_artifact_versions`, `delete_under_prefix`,
`list_artifacts_for_ui` and `split_immediate_children` are called by tests only.

Not modelled at all: path validation and checksums, each a function of one string or
one file whose outcome the models take as a choice; configuration, logging, metrics,
headers and templates, which have no state that changes after start; the ciphers of
the secret protector, which are a library's (the comparison of key fingerprints is in
`Setup`).

## 7. What could follow

* `Dashboard` over the S3 backend's order and tokens, and over a listing whose keys
  are removed by `LocalStore`'s own deletions.
* A reference definition of `merge_directory_page` for tokens that are no entries any
  more on a backend with other orders of files and directories.
* An abstract session (who was proved when, and what ended it) that `Session` implements,
  as `SystemRecord` is for `Setup`; and the limiter against a sliding window.
* The step from `CallsBoundedHolds` and `WorkShrinksHolds` to the liveness properties, with
  a prover that reasons about ENABLED.
