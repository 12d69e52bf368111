------------------------------ MODULE MCCachedStore ------------------------------
(* CachedStore on small instances: an artifact of an immutable repository that   *)
(* nobody deletes, a metadata file that is never cached, and the metadata's      *)
(* checksum, which is cached although it is overwritten with every release.      *)
EXTENDS CachedStore, TLC

CONSTANTS release, metadata, sidecar, u1, u2, d1, d2, r1, r2

MCKey == {release, metadata, sidecar}
MCCacheable == {release, sidecar}
MCChanging == {metadata, sidecar}
MCRelease == {release}
MCSidecar == {sidecar}
MCNothing == {}
MCUpload == {u1, u2}
MCDownload == {d1, d2}
MCOneDownload == {d1}
MCReplica == {r1, r2}
MCOneReplica == {r1}

MCSymmetry ==
  Permutations(MCUpload) \union Permutations(MCDownload) \union Permutations(MCReplica)
===============================================================================
