------------------------------ MODULE MCLocalStore ------------------------------
(* LocalStore on small instances: an artifact of a release repository and one  *)
(* of a repository that allows overwriting, under one version directory.       *)
EXTENDS LocalStore

CONSTANTS release, snapshot, u1, u2, d1, p1

MCKey == {release, snapshot}
MCImmutable == {release}
MCPrefixes == {{release, snapshot}}
MCUpload == {u1, u2}
MCDownload == {d1}
MCPurge == {p1}
===============================================================================
