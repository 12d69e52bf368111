------------------------------- MODULE MCMavenApi -------------------------------
(* MavenApi with a release and a snapshot repository, a deploy token that        *)
(* expires at the first tick and a read-only one that does not, a body below     *)
(* the upload limit and one that exceeds it without saying so.                   *)
EXTENDS MavenApi, TLC

CONSTANTS release, snapshot, w1, w2, d1, deploy, reading

MCKey == {release, snapshot}
MCImmutable == {release}
MCWrite == {w1, w2}
MCRead == {d1}
MCToken == {deploy, reading}
MCCanRead == (deploy :> {release, snapshot}) @@ (reading :> {release})
MCCanWrite == (deploy :> {release, snapshot}) @@ (reading :> {})
MCExpiry == (deploy :> 0) @@ (reading :> 1)
MCLength == {1, 2, 3}
MCDeclares == {w1}
=================================================================================
