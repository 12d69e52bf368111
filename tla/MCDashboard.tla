------------------------------ MODULE MCDashboard ------------------------------
(* The dashboard of a repository with two packages: p has the versions 1.1, 1.10    *)
(* and 1.9 with a file each (keys 1, 2 and 3) and maven-metadata.xml (key 4), r has  *)
(* the version 2.0.RC (key 5).  The keys are in the order of list_prefix, so 1.10    *)
(* comes before 1.9; on S3 the prefix of 1.1 selects 1.10 too.                        *)
EXTENDS Dashboard, TLC

CONSTANTS v11, v110, v19, vRC, packageP, repository, p, r, q1

MCKey == 1..5
MCScope == {v11, v110, v19, packageP, repository}
MCUnder == (v11 :> {1}) @@ (v110 :> {2}) @@ (v19 :> {3}) @@ (packageP :> 1..4) @@ (repository :> 1..5)
MCRawPrefix == [MCUnder EXCEPT ![v11] = {1, 2}]
MCRequest == {q1}
MCVersionScope == {v11, v110, v19}
MCPackageScope == {packageP}
MCPackage == {p, r}
MCPackageOf == <<p, p, p, None, r>>
MCVersionOf == <<v11, v110, v19, v19, vRC>>

\* The parts 0 to 4 are the numbers 0, 1, 2, 9 and 10, the part 5 is "rc".
MCVersion == {v11, v110, v19, vRC}
MCPart == 0..5
MCNumber == 0..4
MCParts == (v11 :> <<1, 1>>) @@ (v110 :> <<1, 4>>) @@ (v19 :> <<1, 3>>) @@ (vRC :> <<2, 0, 5>>)
MCValue == [n \in MCNumber |-> CASE n = 3 -> 9 [] n = 4 -> 10 [] OTHER -> n]
MCText == (0 :> 0) @@ (1 :> 1) @@ (4 :> 2) @@ (2 :> 3) @@ (3 :> 4) @@ (5 :> 5)

MCDirectory == 1..3
MCFile == {4}
MCEntryOf == <<1, 2, 3, 4, 0>>
===============================================================================
