------------------------------- MODULE Dashboard -------------------------------
(***************************************************************************)
(* The dashboard of one repository (routes_ui.py, routes_artifacts.py,     *)
(* ui/packages.py, ui/artifacts.py): besides the deletions of BulkDelete,  *)
(* the package pages and the directory browser.                            *)
(*                                                                         *)
(* A package page lists the whole repository with the same loop as a       *)
(* deletion and shows the versions of one package, the latest of them      *)
(* first; the package index has a row with the same facts (the counts of   *)
(* packages per repository that each page carries come from listings of    *)
(* their own and are left out). The deletion of one version from a package *)
(* page lists the repository again to decide where to redirect. The        *)
(* browser walks the directory of an artifact page by page, one request    *)
(* per page; entries are numbered in the order of their tokens, "d:..."    *)
(* before "f:...".                                                         *)
(***************************************************************************)
EXTENDS BulkDelete, VersionOrder

CONSTANTS
  Repository,     \* the prefix of the repository
  VersionScope,   \* the prefixes of versions
  PackageScope,   \* the prefixes of packages
  Package,        \* packages
  PackageOf,      \* PackageOf[k]: the package infer_package_from_path sees in k, or None
  VersionOf,      \* VersionOf[k]: the version it sees in k
  Directory,      \* child directories of the browsed directory
  File,           \* files in it
  EntryOf,        \* EntryOf[k]: the child that k is, or is in; 0 for none
  VersionNames,   \* the child directories with a version's name
  PageSize        \* UI_PAGE_SIZE

ASSUME RoutesAssumption ==
  /\ Repository \in Scope /\ VersionScope \subseteq Scope /\ PackageScope \subseteq Scope
ASSUME PackagesAssumption ==
  /\ PackageOf \in [Key -> Package \union {None}] /\ None \notin Package
  /\ VersionOf \in [Key -> Version]
ASSUME EntriesAssumption ==
  /\ Directory \subseteq Nat \ {0} /\ File \subseteq Nat \ {0}
  /\ \A d \in Directory, f \in File : d < f
  /\ EntryOf \in [Key -> Directory \union File \union {0}]
  /\ VersionNames \subseteq Directory
ASSUME PageSizeAssumption == PageSize \in Nat \ {0}

Entry == Directory \union File

VARIABLES
  route,      \* route[q]: what q was sent for
  package,    \* package[q]: the package whose page q is for
  view,       \* view[q]: what the page says of it
  latest,     \* latest[q]: the version the page calls the latest
  made,       \* directories that exist: the local backend never removes one
  walk,       \* walk[q]: where the walk of the browser is
  token,      \* token[q]: the last entry shown, 0 at the start
  shown,      \* shown[q]: entries shown so far
  twice,      \* history: entries that q was shown on two pages
  remained,   \* history: entries that have been there since q's walk began
  offered     \* offered[q]: the first page let the user choose versions to delete

pageVars == <<package, view, latest>>
walkVars == <<walk, token, shown, twice, remained, offered>>
dashVars == <<vars, route, pageVars, made, walkVars>>

Routes == {"none", "delete", "deleteVersion", "page", "redirect", "browse"}

DashboardTypeOK ==
  /\ TypeOK
  /\ route \in [Request -> Routes]
  /\ package \in [Request -> Package \union {None}]
  /\ view \in [Request -> {"none", "missing", "shown", "refused"}]
  /\ latest \in [Request -> Version \union {None}]
  /\ made \subseteq Directory
  /\ walk \in [Request -> {"idle", "first", "more", "end"}]
  /\ token \in [Request -> Entry \union {0}]
  /\ shown \in [Request -> SUBSET Entry]
  /\ twice \in [Request -> SUBSET Entry]
  /\ remained \in [Request -> SUBSET Entry]
  /\ offered \in [Request -> BOOLEAN]

\* The children that the keys K make.
Children(K) == {EntryOf[k] : k \in K} \ {0}

\* What iterdir finds in the browsed directory.
Listing == made \union (Children(present) \intersect File)

DashboardInit ==
  /\ Init
  /\ route = [q \in Request |-> "none"]
  /\ package = [q \in Request |-> None]
  /\ view = [q \in Request |-> "none"]
  /\ latest = [q \in Request |-> None]
  /\ made = Children(present) \intersect Directory
  /\ walk = [q \in Request |-> "idle"]
  /\ token = [q \in Request |-> 0]
  /\ shown = [q \in Request |-> {}]
  /\ twice = [q \in Request |-> {}]
  /\ remained = [q \in Request |-> {}]
  /\ offered = [q \in Request |-> FALSE]

-----------------------------------------------------------------------------
(* Deletions and uploads, as in BulkDelete *)

\* What uploads and deletions do to the browsed directory.
DirectoryFollows ==
  /\ made' = made \union (Children(present') \intersect Directory)
  /\ remained' = [q \in Request |-> remained[q] \intersect Listing']
  /\ UNCHANGED <<walk, token, shown, twice, offered>>

\* delete-versions and delete-artifact of the browser, delete-package.
BeginDelete(q) ==
  /\ route[q] = "none"
  /\ \/ \E V \in SUBSET VersionScope : Begin(q, V)
     \/ \E p \in PackageScope : Begin(q, {p})
  /\ route' = [route EXCEPT ![q] = "delete"]
  /\ UNCHANGED <<pageVars, made, walkVars>>

\* delete-version of a package page.
BeginDeleteVersion(q, p) ==
  /\ route[q] = "none"
  /\ \E v \in VersionScope : Begin(q, {v})
  /\ route' = [route EXCEPT ![q] = "deleteVersion"]
  /\ package' = [package EXCEPT ![q] = p]
  /\ UNCHANGED <<view, latest, made, walkVars>>

\* The steps of a deletion that leave the store alone.
DeleteStep(q) ==
  /\ route[q] \in {"delete", "deleteVersion"}
  /\ \/ NextScope(q) \/ ListMore(q) \/ ListLast(q) \/ ListNone(q) \/ Audit(q)
     \/ Finish(q) /\ (route[q] = "delete" \/ audited[q] = {})
  /\ UNCHANGED <<route, pageVars, made, walkVars>>

DeleteRemove(q) ==
  /\ route[q] \in {"delete", "deleteVersion"}
  /\ \E k \in Key : Remove(q, k)
  /\ DirectoryFollows
  /\ UNCHANGED <<route, pageVars>>

Store ==
  /\ \E k \in Key : Upload(k) \/ Delete(k)
  /\ DirectoryFollows
  /\ UNCHANGED <<route, pageVars>>

\* The backend fails; a page has nothing to do after its listing.
DashboardFault(q) ==
  /\ Fault(q)
  /\ route[q] \in {"delete", "deleteVersion"} \/ pc[q] = "list"
  /\ UNCHANGED <<route, pageVars, made, walkVars>>

-----------------------------------------------------------------------------
(* Package pages *)

\* The package index, a package page or a confirmation page.
BeginPage(q, p) ==
  /\ route[q] = "none"
  /\ Begin(q, {Repository})
  /\ route' = [route EXCEPT ![q] = "page"]
  /\ package' = [package EXCEPT ![q] = p]
  /\ UNCHANGED <<view, latest, made, walkVars>>

\* The version is deleted and audited: the repository is listed to choose the
\* redirect, and the books of the deletion are closed.
Relist(q) ==
  /\ route[q] = "deleteVersion"
  /\ pc[q] = "next"
  /\ todo[q] = {}
  /\ audited[q] # {}
  /\ route' = [route EXCEPT ![q] = "redirect"]
  /\ asked' = [asked EXCEPT ![q] = {Repository}]
  /\ todo' = [todo EXCEPT ![q] = {Repository}]
  /\ audited' = [audited EXCEPT ![q] = {}]
  /\ removed' = [removed EXCEPT ![q] = {}]
  /\ UNCHANGED <<present, pc, scope, listVars, queue, answer, stayed, pageVars, made, walkVars>>

PageStep(q) ==
  /\ route[q] \in {"page", "redirect"}
  /\ NextScope(q) \/ ListMore(q) \/ ListLast(q) \/ ListNone(q)
  /\ UNCHANGED <<route, pageVars, made, walkVars>>

\* The keys among K that are the artifact files of package p,
FilesOf(K, p) == {k \in K : PackageOf[k] = p}

\* and their versions.
VersionsListed(K, p) == {VersionOf[k] : k \in FilesOf(K, p)}

\* Keys of another repository, which artifact_path_from_key refuses.
Foreign(K) == K \ Under[Repository]

\* The listing is complete.  A key of another repository is an error, a package without
\* versions a 404 or, after a deletion, the redirect to the index.
Render(q) ==
  /\ route[q] \in {"page", "redirect"}
  /\ pc[q] = "delete" \/ (pc[q] = "next" /\ todo[q] = {})
  /\ Goto(q, "done")
  /\ LET V == VersionsListed(keys[q], package[q])
     IN  \/ /\ Foreign(keys[q]) # {}
            /\ view' = [view EXCEPT ![q] = "refused"]
            /\ UNCHANGED latest
         \/ /\ Foreign(keys[q]) = {}
            /\ V = {}
            /\ view' = [view EXCEPT ![q] = "missing"]
            /\ UNCHANGED latest
         \/ /\ Foreign(keys[q]) = {}
            /\ V # {}
            /\ view' = [view EXCEPT ![q] = "shown"]
            /\ \E v \in Latests(V) : latest' = [latest EXCEPT ![q] = v]
  /\ UNCHANGED <<present, loopVars, listVars, queue, logVars, removed, stayed, route, package,
                 made, walkVars>>

-----------------------------------------------------------------------------
(* The directory browser *)

\* The user opens the directory of an artifact.
OpenDirectory(q) ==
  /\ route[q] = "none"
  /\ pc[q] = "idle"
  /\ route' = [route EXCEPT ![q] = "browse"]
  /\ walk' = [walk EXCEPT ![q] = "first"]
  /\ remained' = [remained EXCEPT ![q] = Listing]
  /\ UNCHANGED <<vars, pageVars, made, token, shown, twice, offered>>

\* Mutant: the entry of the token is shown again.
FollowingInclusive(q) == {e \in Listing : e >= token[q]}

\* merge_directory_page: the entries after the token,
Following(q) == {e \in Listing : e > token[q]}

\* and the first of them.
PageOf(E) == {e \in E : Cardinality({f \in E : f < e}) < PageSize}

\* Mutant: the level of a page with files and directories is not "artifact".
VersionsOfferedPure(P) ==
  P \intersect Directory # {} /\ P \intersect File = {} /\ P \intersect Directory \subseteq VersionNames

\* infer_browse_level is "artifact" for a page P with directories.
VersionsOffered(P) ==
  /\ P \intersect Directory # {}
  /\ P \intersect File # {} \/ P \intersect Directory \subseteq VersionNames

\* One page, with show_all (without it hidden files are left out afterwards).
ShowPage(q) ==
  /\ walk[q] \in {"first", "more"}
  /\ LET P == PageOf(Following(q))
     IN  /\ shown' = [shown EXCEPT ![q] = @ \union P]
         /\ twice' = [twice EXCEPT ![q] = @ \union (shown[q] \intersect P)]
         /\ offered' = [offered EXCEPT ![q] = @ \/ (walk[q] = "first" /\ VersionsOffered(P))]
         /\ \/ P = Following(q) /\ walk' = [walk EXCEPT ![q] = "end"] /\ UNCHANGED token
            \/ /\ P # Following(q)
               /\ walk' = [walk EXCEPT ![q] = "more"]
               /\ \E e \in P : IsLast(e, P) /\ token' = [token EXCEPT ![q] = e]
  /\ UNCHANGED <<vars, route, pageVars, made, remained>>

Serve(q) ==
  \/ DeleteStep(q) \/ DeleteRemove(q)
  \/ Relist(q) \/ PageStep(q) \/ Render(q)

DashboardNext ==
  \/ Store
  \/ \E q \in Request :
       \/ BeginDelete(q)
       \/ \E p \in Package : BeginDeleteVersion(q, p) \/ BeginPage(q, p)
       \/ Serve(q)
       \/ DashboardFault(q)
       \/ OpenDirectory(q) \/ ShowPage(q)

DashboardSpec == DashboardInit /\ [][DashboardNext]_dashVars

\* As FairSpec: a request that was begun is served to its end.
FairDashboardSpec == DashboardSpec /\ \A q \in Request : WF_dashVars(Serve(q))

-----------------------------------------------------------------------------
(* Properties *)

Rendered(q) == pc[q] = "done" /\ view[q] # "none"

\* Unless the listing hit its cap, a page or a redirect that says the package is gone is
\* right of every file that was there when its listing began and is still there,
\* whatever was uploaded or deleted between two pages of the listing.
PagesHonest ==
  \A q \in Request :
    Rendered(q) /\ ~truncated[q] /\ view[q] = "missing" =>
      VersionsListed(stayed[q], package[q]) = {}

\* The version a page calls the latest is not older than one that was there all the
\* time, in whatever order a set of versions is walked, if the versions are numeric.
LatestIsNewest ==
  \A q \in Request :
    Rendered(q) /\ ~truncated[q] /\ view[q] = "shown" =>
      LET V == VersionsListed(keys[q], package[q])
      IN  (\A v \in V : Numeric(v)) =>
            \A v \in VersionsListed(stayed[q], package[q]) : ~Precedes(latest[q], v)

\* Pages that have collected the same versions of a package name the same one as the
\* latest, up to spellings that the parts do not tell apart, if the versions are numeric:
\* the order in which a process walks a set does not show.
LatestAgrees ==
  \A p, q \in Request :
    LET V == VersionsListed(keys[p], package[p])
    IN  /\ Rendered(p) /\ view[p] = "shown"
        /\ Rendered(q) /\ view[q] = "shown"
        /\ VersionsListed(keys[q], package[q]) = V
        /\ \A v \in V : Numeric(v)
        => Parts[latest[p]] = Parts[latest[q]]

\* A walk shows no entry twice and, at its end, has shown every entry that was there
\* all the time, whatever was uploaded or deleted between two pages.
WalkFaithful ==
  \A q \in Request :
    /\ twice[q] = {}
    /\ walk[q] = "end" => remained[q] \subseteq shown[q]

\* A walk of an artifact's directory, where every child directory has a version's name
\* and one stayed, offers the deletion of versions on its first page.
VersionsSelectable ==
  \A q \in Request :
    walk[q] \in {"more", "end"} /\ Directory \subseteq VersionNames
      /\ remained[q] \intersect Directory # {} => offered[q]

\* What a request has still to do at most: for a prefix, its listing's pages, the removals
\* and the calls around them,
PrefixWork == MaxPages + Cardinality(Key) + 3

Work(q) ==
  CASE pc[q] = "idle" -> Cardinality(Scope) * PrefixWork + 1
    [] pc[q] = "next" -> Cardinality(todo[q]) * PrefixWork + 1
    [] pc[q] = "list" -> Cardinality(todo[q]) * PrefixWork + (MaxPages - pages[q]) + Cardinality(Key) + 3
    [] pc[q] = "delete" -> Cardinality(todo[q]) * PrefixWork + Cardinality(queue[q]) + 2
    [] pc[q] = "done" -> 0

\* and once more the repository's if it may have to choose a redirect.
RequestWork(q) ==
  Work(q) + (IF route[q] \in {"none", "deleteVersion"} THEN PrefixWork + 1 ELSE 0)

\* Every call that a request makes brings it nearer to its end, and nothing that other
\* requests, clients or faults do takes it further away: what uploads keep adding under
\* its prefixes is no work for it.
WorkShrinks ==
  [][\A q \in Request :
       /\ RequestWork(q)' <= RequestWork(q)
       /\ Serve(q) => RequestWork(q)' < RequestWork(q)]_dashVars

\* The inductive invariant behind them, with BulkInv: what the listing of a page has
\* collected and what was rendered of it,
PageInv(q) ==
  /\ view[q] # "none" => pc[q] = "done"
  /\ route[q] \in {"page", "redirect"} =>
       /\ asked[q] = {Repository}
       /\ pc[q] \in {"list", "delete"} => todo[q] = {}
       /\ pc[q] = "next" /\ todo[q] = {} => stayed[q] = {}
       /\ pc[q] = "delete" => queue[q] = keys[q]
  /\ view[q] # "none" =>
       /\ ~truncated[q] => stayed[q] \subseteq keys[q]
       /\ view[q] = "missing" => VersionsListed(keys[q], package[q]) = {}
       /\ view[q] = "shown" => latest[q] \in Latests(VersionsListed(keys[q], package[q]))

\* and what a walk has shown.
WalkInv(q) ==
  /\ twice[q] = {}
  /\ remained[q] \subseteq Listing
  /\ route[q] # "browse" => walk[q] = "idle"
  /\ walk[q] \in {"idle", "first"} => token[q] = 0 /\ shown[q] = {}
  /\ walk[q] = "more" =>
       /\ \A e \in shown[q] : e <= token[q]
       /\ \A e \in remained[q] : e <= token[q] => e \in shown[q]
  /\ walk[q] = "end" => remained[q] \subseteq shown[q]

DashboardInv ==
  /\ BulkInv
  /\ DashboardTypeOK
  /\ \A q \in Request : PageInv(q) /\ WalkInv(q)
  /\ VersionsSelectable
===============================================================================
