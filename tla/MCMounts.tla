------------------------------ MODULE MCMounts ------------------------------
(***************************************************************************)
(* A file system and a /proc/mounts for the mount table:                   *)
(*   "/", "/db" and "/df" are directories, "/lk" is a link to "/df";       *)
(*   "/dv" is a device and "/dl" a link to it;                             *)
(*   "/d\142" is "/db" with its last character escaped.                    *)
(* The lines have an NFS and a local root, a directory mounted twice, a    *)
(* directory reached by two spellings and through a link, the types that   *)
(* are ignored, an automounter entry and a directory that is no path.      *)
(***************************************************************************)
EXTENDS Mounts

MCDirs == {"/", "/db", "/df", "/lk"}

MCLinks ==
    [p \in MCDirs \cup {"/dv", "/dl", "x"} |->
        CASE p = "/lk" -> "/df" [] p = "/dl" -> "/dv" [] OTHER -> p]

MCStat ==
    [p \in MCDirs \cup {"/dv", "/dl"} |->
        CASE p = "/"   -> [dev |-> 1, mode |-> 4]
          [] p = "/db" -> [dev |-> 2, mode |-> 4]
          [] p \in {"/df", "/lk"} -> [dev |-> 3, mode |-> 4]
          [] OTHER     -> [dev |-> 5, mode |-> 6]]

MCGarbage == {[sb |-> [dev |-> 9, mode |-> 9], ds |-> SB_ALL]}

Line(fsname, dir, fstype) ==
    [fsname |-> fsname, dir |-> dir, fstype |-> fstype]

MCMountLines ==
    { Line("/dv", "/", "ext4"),
      Line("h:/r", "/", "nfs"),
      Line("/dv", "/db", "ext4"),
      Line("tm", "/d\\142", "NFS4"),
      Line("/dl", "/lk", "mqueue"),
      Line("tm", "/df", "ext4"),
      Line("a:(PID", "/df", "ext4"),
      Line("tm", "/df", "AutoFS"),
      Line("tm", "x", "ext4") }

\* The -e lists: none, "/df" exempt from stat(2), "/lk" from both.
MCExemptLists == {<<>>, [p \in {"/df"} |-> 0], [p \in {"/lk"} |-> 1]}

\* With allocations that fail: no exemption, and the one that avoids
\* Readlink(), which makes readmnt() copy the name of the file system.
MCLinkExemptLists == {<<>>, [p \in {"/lk"} |-> 1]}

\* The supplement files: none that is read, one with "/db", one malformed.
MCNoFile == {[status |-> "unreadable", lines |-> <<>>]}

MCSupFiles ==
    { [status |-> "ok", lines |-> <<[kind |-> "ok", path |-> "/db", dev |-> 7]>>],
      [status |-> "ok", lines |-> <<[kind |-> "ok", path |-> "/", dev |-> 8],
                                    [kind |-> "no_device"]>>] }

ASSUME Unescape("/d\\142") = "/db"

=============================================================================
