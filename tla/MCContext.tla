----------------------------- MODULE MCContext -----------------------------
(***************************************************************************)
(* A context over the file system of MCMounts: selections of file          *)
(* descriptors, one of them an exclusion, of a file system and of NFS; an  *)
(* exemption of MCMounts, given by a call of lsof_exempt_fs().             *)
(***************************************************************************)
EXTENDS Context, MCMounts

Selection(c, lo, hi, exclude) ==
    [cat |-> c, lo |-> lo, hi |-> hi, exclude |-> exclude]

File(path) == [cat |-> "file", path |-> path, exclude |-> FALSE]

\* The descriptors from 3 on, descriptor 0, all but the standard
\* descriptors, the file system mounted on "/db" and the files on NFS.
MCPredicates ==
    { Selection("fd", 3, -1, FALSE), Selection("fd", 0, 0, FALSE),
      Selection("fd", 0, 2, TRUE),
      File("/db"), [cat |-> "nfs", exclude |-> FALSE] }

\* The files: one in the root directory and one below "/db".
MCRecords == [pid : {1}, fd : {0, 1, 3}, path : {"/f", "/db/f"}]

\* "/lk" is exempted from stat(2) and from Readlink().
MCExemptions == {<<"/lk", 1>>}

MCNoExemptLists == {<<>>}

\* The lines of MCMounts that make the tables differ: a local and an NFS
\* root, "/db" local and, under its other spelling, on NFS, the message
\* queues on a link; and a line of each kind that is dropped at once.
MCContextLines ==
    { l \in MCMountLines :
        \/ l.dir \in {"/", "/db", "/d\\142", "/lk", "x"}
        \/ l.fstype = "AutoFS" }

=============================================================================
