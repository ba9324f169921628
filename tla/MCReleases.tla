----------------------------- MODULE MCReleases -----------------------------
(* An instance of Releases for TLC. *)
EXTENDS Releases, TLC

Rc(n) == [core |-> <<n, 0, 0>>, pre |-> <<[number |-> FALSE, value |-> 1]>>, v |-> TRUE]
Tag(n) == [core |-> <<n, 0, 0>>, pre |-> <<>>, v |-> TRUE]

All == {"bootstrap.sh", "checksums.txt", "install.sh", "upgrade.sh", "amd64", "arm64"}
MCTags == {Tag(1), Tag(2), Rc(3)}
MCLong == {Tag(2)}
\* Two releases with all their assets or a part of them; a prerelease.
MCListings == {Tag(1) :> All @@ Tag(2) :> All,
               Tag(1) :> {"bootstrap.sh", "checksums.txt", "install.sh", "amd64"}
                 @@ Tag(2) :> All \ {"install.sh"} @@ Rc(3) :> All}
Report(version, os) == [version |-> version, os |-> os, arch |-> "x86_64", bound |-> TRUE]
\* The host has an old version, and may have the first release instead.
MCOpened == {Report(Tag(0), "linux"), Report(Tag(1), "linux")}
MCReported == MCOpened \cup
  {Report(v, os) : v \in {Tag(2), Rc(2), Rc(3), Unknown}, os \in {"linux", "Linux"}}
=============================================================================
