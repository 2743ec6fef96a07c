------------------------------- MODULE Mounts -------------------------------
(***************************************************************************)
(* The local mount table of src/lib/dialects/linux/dmnt.c: readmnt(),      *)
(* which reads /proc/mounts into the list Lmi on its first call and        *)
(* returns the list on every later one, and clean_mnt(), which frees it.   *)
(*                                                                         *)
(* readmnt() keeps five pointers (dn, fp0, fp1, ln, mp) across the rounds  *)
(* of its loop and frees all of them when it returns, so the module models *)
(* the heap: a block is a number, a live block has a content, a pointer is *)
(* a block or NULL.  free() of a block that is not live, and the read of   *)
(* an entry that is not live, stop the process and are recorded in         *)
(* heap.fault.                                                             *)
(*                                                                         *)
(* One round of the loop is taken in four steps (the fields of the line,   *)
(* the mounted directory and its links, the duplicate test, stat(2) and    *)
(* the entry); the frame of readmnt() between two steps is `loc'.  The     *)
(* process has one thread: nothing runs between the steps of a call, and   *)
(* readmnt() and clean_mnt() are called in any order between calls.        *)
(*                                                                         *)
(* Of the stat buffer the device and the mode are kept; st_rdev and st_ino *)
(* are copied under flags of their own exactly as st_dev is.  An entry's   *)
(* dirl is the length of its dir.  Diagnostics are left out.               *)
(***************************************************************************)
EXTENDS MountSupplement, FiniteSets, FiniteSetsExt, Functions, TLC

CONSTANTS
    MountLines,     \* the lines /proc/mounts may have: [fsname, dir, fstype]
    MaxLines,       \* bound: lines read by one call of readmnt()
    MaxFailures,    \* bound: allocations of readmnt() that fail
    ExemptLists,    \* the -e lists considered: [path -> rdlnk]
    Links,          \* the file system: path -> the path Readlink() makes of it
    Stat,           \* the file system: path -> [dev, mode] of stat(2)
    Garbage         \* what the stat buffer and its flags may hold at entry

VARIABLES
    Lmi,            \* the list of entries, head first
    Lmist,          \* TRUE when Lmi holds the whole table
    HasNFS,         \* 0, 1 (an NFS line was seen) or 2 (an NFS entry is kept)
    MqueueDev,      \* device of the last mqueue entry
    Efsysl,         \* the -e list of this context
    heap,           \* [str, ent, fault]: the live strings and entries
    loc,            \* the frame of readmnt()
    mpc,            \* "idle", or the step readmnt() is at
    nread,          \* lines read by this call
    mret,           \* the table the caller holds: what readmnt() returned
    lost,           \* the blocks no pointer holds any more and nobody freed
    nfail           \* allocations of readmnt() that have failed

mntVars == <<Lmi, Lmist, HasNFS, MqueueDev, Efsysl, heap, loc, mpc, nread,
             mret, lost, nfail>>

vars == <<mntVars, supVars>>

Oct == INSTANCE OctalEscape
           WITH Strings <- {}, orig_str <- <<>>, pc <- "done", orig_idx <- 0,
                cvt_idx <- 0, cvt_len <- 0, cvt_str <- <<>>, octret <- NULL

N_REGLR == "N_REGLR"
N_NFS == "N_NFS"
N_MQUEUE == "N_MQUEUE"

SB_DEV == "SB_DEV"
SB_MODE == "SB_MODE"
SB_ALL == {SB_DEV, SB_MODE}

-----------------------------------------------------------------------------
(* The heap *)

EmptyHeap == [str |-> <<>>, ent |-> <<>>, fault |-> NULL]

Live(h) == DOMAIN h.str \cup DOMAIN h.ent

\* The strings an entry owns.
FieldsOf(entry) == {entry.dir, entry.fsname, entry.fsnmres} \ {NULL}

\* Every block some pointer of the process holds, live or not.
Pointers ==
    ({loc.dn, loc.fp0, loc.fp1, loc.ln, loc.mp} \ {NULL})
    \cup Range(Lmi)
    \cup UNION {FieldsOf(heap.ent[e]) : e \in DOMAIN heap.ent}

\* What malloc() may return: blocks that are not live and that no pointer
\* holds.  The n lowest are taken.
NewBlocks(n) ==
    LET used == Live(heap) \cup Pointers
        free == (1..(Cardinality(used) + n)) \ used
        Lowest[k \in 1..n] ==
            Min(free \ {Lowest[j] : j \in 1..(k - 1)})
    IN  Lowest

WithStr(h, p, text) == [h EXCEPT !.str = (p :> text) @@ @]

WithEnt(h, p, entry) == [h EXCEPT !.ent = (p :> entry) @@ @]

\* free(p), and CLEAN(p) without its "p = NULL".  After a fault nothing
\* more is done.
Release(h, p) ==
    CASE h.fault # NULL \/ p = NULL -> h
      [] p \in DOMAIN h.str ->
            [h EXCEPT !.str = Restrict(@, DOMAIN @ \ {p})]
      [] p \in DOMAIN h.ent ->
            [h EXCEPT !.ent = Restrict(@, DOMAIN @ \ {p})]
      [] OTHER -> [h EXCEPT !.fault = "free"]

ReleaseAll(h, ptrs) == FoldLeft(Release, h, ptrs)

\* The heap after the frees of a part of the code: a fault names the part.
At(site, h) ==
    [h EXCEPT !.fault = IF @ = NULL THEN NULL ELSE <<site, @>>]

-----------------------------------------------------------------------------
(* The fields of a line *)

\* convert_octal_escaped() of a field; NULL when it returns NULL.
Unescape(field) ==
    LET codes == Oct!convert_octal_escaped(Codes(field))
    IN  IF codes = NULL THEN NULL ELSE Text(codes)

\* The device name has a ':' and "(pid" follows the first one.
IsAutomounter(fsname) ==
    LET cp == StrChr(fsname, ":")
    IN  cp # 0 /\ StrNCaseEq(SubSeq(fsname, cp + 1, Len(fsname)), "(pid", 4)

IsIgnoredType(fstype) ==
    \E t \in {"autofs", "pipefs", "sockfs"} : StrCaseEq(fstype, t)

\* !nfs
IsNfs(fstype) == \E t \in {"nfs", "nfs3", "nfs4"} : StrCaseEq(fstype, t)

\* !mqueue
IsMqueue(fstype) == fstype = "mqueue"

\* The conversions and the types of the lines of the model.
Unescaped ==
    [f \in {l.fsname : l \in MountLines} \cup {l.dir : l \in MountLines}
        |-> Unescape(f)]

Automounters == {f \in Range(Unescaped) \ {NULL} : IsAutomounter(f)}

IgnoredTypes == {l.fstype : l \in {k \in MountLines : IsIgnoredType(k.fstype)}}

NfsTypes == {l.fstype : l \in {k \in MountLines : IsNfs(k.fstype)}}

MqueueTypes == {l.fstype : l \in {k \in MountLines : IsMqueue(k.fstype)}}

\* The search of the -e list: <<ignrdl, ignstat>>.
Exempt(dir) ==
    IF dir \in DOMAIN Efsysl THEN <<Efsysl[dir] # 0, TRUE>>
    ELSE <<FALSE, FALSE>>

-----------------------------------------------------------------------------
(* readmnt(): entry and return *)

IdleFrame ==
    [dn |-> NULL, fp0 |-> NULL, fp1 |-> NULL, ln |-> NULL, mp |-> NULL,
     sb |-> [dev |-> 0, mode |-> 0], ds |-> {},
     fstype |-> "", ignrdl |-> FALSE, ignstat |-> FALSE]

MntInit ==
    /\ Lmi = <<>>
    /\ Lmist = FALSE
    /\ HasNFS = 0
    /\ MqueueDev = 0
    /\ Efsysl \in ExemptLists
    /\ heap = EmptyHeap
    /\ loc = IdleFrame
    /\ mpc = "idle"
    /\ nread = 0
    /\ mret = NULL
    /\ lost = {}
    /\ nfail = 0

\* The table, or a part of it, is there: it is returned as it is.
ReadmntCached ==
    /\ mpc = "idle"
    /\ Lmi # <<>> \/ Lmist
    /\ mret' = Lmi
    /\ UNCHANGED <<Lmi, Lmist, HasNFS, MqueueDev, Efsysl, heap, loc, mpc,
                   nread, lost, nfail, supVars>>

\* /proc/mounts cannot be opened.
ReadmntNoStream ==
    /\ mpc = "idle"
    /\ Lmi = <<>> /\ ~Lmist
    /\ mret' = <<>>
    /\ UNCHANGED <<Lmi, Lmist, HasNFS, MqueueDev, Efsysl, heap, loc, mpc,
                   nread, lost, nfail, supVars>>

\* Mutant: /proc/mounts is read though a table is there.
ReadmntOpenAgain ==
    /\ mpc = "idle"
    /\ mpc' = "line"
    /\ mret' = NULL
    /\ \E g \in Garbage : loc' = [IdleFrame EXCEPT !.sb = g.sb, !.ds = g.ds]
    /\ UNCHANGED <<Lmi, Lmist, HasNFS, MqueueDev, Efsysl, heap, nread, lost,
                   nfail, supVars>>

\* The stream is open.  The stat buffer and its flags hold what the stack
\* held.
ReadmntOpen ==
    /\ mpc = "idle"
    /\ Lmi = <<>> /\ ~Lmist
    /\ mpc' = "line"
    /\ mret' = NULL
    /\ \E g \in Garbage : loc' = [IdleFrame EXCEPT !.sb = g.sb, !.ds = g.ds]
    /\ UNCHANGED <<Lmi, Lmist, HasNFS, MqueueDev, Efsysl, heap, nread, lost,
                   nfail, supVars>>

\* Mutant: the cleanup without CLEAN(dn), CLEAN(fp0) and CLEAN(fp1).
CleanedBareLocals(frame) == <<frame.ln, frame.mp>>

\* The pointers the cleanup frees, in its order.
CleanedLocals(frame) == <<frame.dn, frame.fp0, frame.fp1, frame.ln, frame.mp>>

\* cleanup: the locals are freed and readmnt() returns result.
Return(h, frame, result) ==
    \E freed \in {At("cleanup", ReleaseAll(h, CleanedLocals(frame)))} :
        /\ heap' = freed
        /\ IF freed.fault = NULL
           THEN loc' = IdleFrame /\ mpc' = "idle" /\ mret' = result
                /\ nread' = 0
           ELSE loc' = frame /\ UNCHANGED <<mpc, mret, nread>>

\* fgets() has no more lines: the table is complete.
EndOfFile ==
    /\ mpc = "line"
    /\ Lmist' = TRUE
    /\ Return(heap, loc, Lmi)
    /\ UNCHANGED <<Lmi, HasNFS, MqueueDev, Efsysl, lost, nfail, supVars>>

-----------------------------------------------------------------------------
(* readmnt(): the fields of a line *)

\* A converted string is held by a new block; a failed conversion holds none.
Keep(h, id, t) == IF t = NULL THEN h ELSE WithStr(h, id, t)

\* What the round holds after the conversions gave t0 and t1.
Fields(h, ids, t0, t1) ==
    [heap |-> Keep(Keep(h, ids[1], t0), ids[2], t1),
     fp0  |-> IF t0 = NULL THEN NULL ELSE ids[1],
     fp1  |-> IF t1 = NULL THEN NULL ELSE ids[2],
     fsname |-> t0]

\* fp0 and fp1 of the round before are freed and the first two fields are
\* converted, the second only when the first gave a string.  failing names
\* the conversion whose malloc() fails, if any.
Converted(l, failing) ==
    Fields(ReleaseAll(heap, <<loc.fp0, loc.fp1>>), NewBlocks(2),
           IF failing = "fp0" THEN NULL ELSE Unescaped[l.fsname],
           IF failing = "none" /\ Unescaped[l.fsname] # NULL
           THEN Unescaped[l.dir] ELSE NULL)

\* A line of fewer than three fields is passed over.
SkipLine ==
    /\ mpc = "line"
    /\ nread < MaxLines
    /\ nread' = nread + 1
    /\ UNCHANGED <<Lmi, Lmist, HasNFS, MqueueDev, Efsysl, heap, loc, mpc,
                   mret, lost, nfail, supVars>>

\* A conversion returns NULL: the line is passed over with what was
\* converted still held by fp0.
ConvertFails(l) ==
    /\ mpc = "line"
    /\ nread < MaxLines
    /\ AllocMayFail /\ nfail < MaxFailures
    /\ nfail' = nfail + 1
    /\ nread' = nread + 1
    /\ \E failing \in {"fp0", "fp1"} :
          \E c \in {Converted(l, failing)} :
             /\ heap' = c.heap
             /\ loc' = [loc EXCEPT !.fp0 = c.fp0, !.fp1 = c.fp1]
    /\ UNCHANGED <<Lmi, Lmist, HasNFS, MqueueDev, Efsysl, mpc, mret, lost,
                   supVars>>

\* An automounter entry, or autofs, pipefs, sockfs.
IgnoreLine(l) ==
    /\ mpc = "line"
    /\ nread < MaxLines
    /\ nread' = nread + 1
    /\ \E c \in {Converted(l, "none")} :
           /\ c.fsname \in Automounters \/ l.fstype \in IgnoredTypes
           /\ heap' = c.heap
           /\ loc' = [loc EXCEPT !.fp0 = c.fp0, !.fp1 = c.fp1]
    /\ UNCHANGED <<Lmi, Lmist, HasNFS, MqueueDev, Efsysl, mpc, mret, lost,
                   nfail, supVars>>

\* The line is taken: dn of the round before is freed, the mounted
\* directory becomes dn, and the -e list is searched for it.
TakeLine(l) ==
    /\ mpc = "line"
    /\ nread < MaxLines
    /\ nread' = nread + 1
    /\ \E c \in {Converted(l, "none")} :
           /\ c.fsname \notin Automounters /\ l.fstype \notin IgnoredTypes
           /\ heap' = Release(c.heap, loc.dn)
           /\ \E e \in {Exempt(c.heap.str[c.fp1])} :
                 loc' = [loc EXCEPT !.fp0 = c.fp0, !.fp1 = NULL,
                                    !.dn = c.fp1, !.fstype = l.fstype,
                                    !.ignrdl = e[1], !.ignstat = e[2]]
    /\ mpc' = "resolve"
    /\ UNCHANGED <<Lmi, Lmist, HasNFS, MqueueDev, Efsysl, mret, lost, nfail,
                   supVars>>

-----------------------------------------------------------------------------
(* readmnt(): the mounted directory *)

Dir == heap.str[loc.dn]

\* The step after the directory is known: a directory that does not begin
\* with '/' ends the round.
AfterResolve(dir) == IF StartsWith(dir, "/") THEN "dedupe" ELSE "line"

\* Readlink() returns NULL: the line is dropped.
ReadlinkFails ==
    /\ mpc = "resolve"
    /\ ~loc.ignrdl
    /\ loc' = [loc EXCEPT !.ln = NULL]
    /\ mpc' = "line"
    /\ UNCHANGED <<Lmi, Lmist, HasNFS, MqueueDev, Efsysl, heap, nread, mret,
                   lost, nfail, supVars>>

\* Readlink() is not called.
KeepDir ==
    /\ mpc = "resolve"
    /\ loc.ignrdl
    /\ mpc' = AfterResolve(Dir)
    /\ UNCHANGED <<Lmi, Lmist, HasNFS, MqueueDev, Efsysl, heap, loc, nread,
                   mret, lost, nfail, supVars>>

\* The path has no link: Readlink() returns its argument, and ln is dn.
NoLink ==
    /\ mpc = "resolve"
    /\ ~loc.ignrdl
    /\ Links[Dir] = Dir
    /\ loc' = [loc EXCEPT !.ln = loc.dn]
    /\ mpc' = AfterResolve(Dir)
    /\ UNCHANGED <<Lmi, Lmist, HasNFS, MqueueDev, Efsysl, heap, nread, mret,
                   lost, nfail, supVars>>

\* Mutant: the directory of the line is not freed when a link replaces it.
ReplacedKept(h, p) == h

\* free(dn) before "dn = ln".
Replaced(h, p) == Release(h, p)

\* The path has a link: Readlink() returns a new string, which replaces dn.
FollowLink ==
    /\ mpc = "resolve"
    /\ ~loc.ignrdl
    /\ Links[Dir] # Dir
    /\ LET new == NewBlocks(1)[1]
       IN  /\ heap' = Replaced(WithStr(heap, new, Links[Dir]), loc.dn)
           /\ loc' = [loc EXCEPT !.dn = new, !.ln = NULL]
    /\ mpc' = AfterResolve(Links[Dir])
    /\ UNCHANGED <<Lmi, Lmist, HasNFS, MqueueDev, Efsysl, nread, mret, lost,
                   nfail, supVars>>

-----------------------------------------------------------------------------
(* readmnt(): duplicates *)

\* Mutant: the search starts at the second entry of the list.
FindMountAfterHead(list, dir) ==
    SelectInSubSeq(list, 2, Len(list),
                   LAMBDA e : heap.str[heap.ent[e].dir] = dir)

\* The search of Lmi for the directory: the index of the first entry that
\* has it, 0 if none has.
FindMount(list, dir) ==
    SelectInSeq(list, LAMBDA e : heap.str[heap.ent[e].dir] = dir)

\* Mutant: a duplicate that is not root replaces the entry.
KeepsOldRootOnly(dir, old, fstype) == old.ty = N_NFS \/ fstype \notin NfsTypes

\* The entry found stays as it is: the directory is not root, or the entry
\* is NFS, or the line is not.
KeepsOld(dir, old, fstype) ==
    dir # "/" \/ old.ty = N_NFS \/ fstype \notin NfsTypes

\* Mutant: an NFS line that is seen counts as an NFS entry that is kept.
NfsSeenAsKept(has, fstype) == IF fstype \in NfsTypes THEN 2 ELSE has

\* if (!nfs && !HasNFS) HasNFS = 1
NfsSeen(has, fstype) == IF fstype \in NfsTypes /\ has = 0 THEN 1 ELSE has

\* Mutant: the "continue" of a duplicate goes on with the same line.
AfterTestSameLine(mp, keeps) == IF mp # NULL /\ keeps THEN "dedupe" ELSE "stat"

\* The three "continue" of a duplicate end the round; a directory that is
\* new, or an entry that is replaced, goes on to stat(2).
AfterTest(mp, keeps) == IF mp # NULL /\ keeps THEN "line" ELSE "stat"

\* The directory is searched for in Lmi; mp is the entry found, or NULL.
\* A duplicate that keeps the old entry ends the round, with mp left at
\* that entry.
TestDuplicate ==
    /\ mpc = "dedupe"
    /\ LET found == FindMount(Lmi, Dir)
           mp    == IF found = 0 THEN NULL ELSE Lmi[found]
       IN  /\ loc' = [loc EXCEPT !.mp = mp]
           /\ mpc' = AfterTest(mp, mp # NULL /\ KeepsOld(Dir, heap.ent[mp],
                                                         loc.fstype))
    /\ HasNFS' = NfsSeen(HasNFS, loc.fstype)
    /\ UNCHANGED <<Lmi, Lmist, MqueueDev, Efsysl, heap, nread, mret, lost,
                   nfail, supVars>>

-----------------------------------------------------------------------------
(* readmnt(): stat(2) and the mount supplement *)

UseSupplement == MntSup = 2 /\ MntSupP

\* statsafely() succeeds.
StatDir ==
    /\ mpc = "stat"
    /\ ~loc.ignstat
    /\ loc' = [loc EXCEPT !.sb = Stat[Dir], !.ds = SB_ALL]
    /\ mpc' = "store"
    /\ UNCHANGED <<Lmi, Lmist, HasNFS, MqueueDev, Efsysl, heap, nread, mret,
                   lost, nfail, supVars>>

\* statsafely() fails, and there is neither a supplement nor an exemption:
\* the line is dropped.
StatFails ==
    /\ mpc = "stat"
    /\ ~loc.ignstat
    /\ ~UseSupplement
    /\ mpc' = "line"
    /\ UNCHANGED <<Lmi, Lmist, HasNFS, MqueueDev, Efsysl, heap, loc, nread,
                   mret, lost, nfail, supVars>>

\* No stat() was allowed, and there is no supplement.
StatExempt ==
    /\ mpc = "stat"
    /\ loc.ignstat
    /\ ~UseSupplement
    /\ loc' = [loc EXCEPT !.ds = {}]
    /\ mpc' = "store"
    /\ UNCHANGED <<Lmi, Lmist, HasNFS, MqueueDev, Efsysl, heap, nread, mret,
                   lost, nfail, supVars>>

\* Mutant: the flags of the stat buffer are not cleared before the lookup.
FlagsBeforeLookupKept(ds) == ds

\* ds = 0
FlagsBeforeLookup(ds) == {}

\* statsafely() fails or was not allowed, and there is a supplement:
\* getmntdev() is asked.  When it finds the directory the buffer is zeroed
\* and holds the device only.
StatSupplement ==
    /\ mpc = "stat"
    /\ UseSupplement
    /\ getmntdev(Dir)
    /\ loc' = IF supret'.found
              THEN [loc EXCEPT !.sb = [dev |-> supret'.dev, mode |-> 0],
                               !.ds = FlagsBeforeLookup(loc.ds) \cup {SB_DEV}]
              ELSE [loc EXCEPT !.ds = FlagsBeforeLookup(loc.ds)]
    /\ mpc' = "store"
    /\ UNCHANGED <<Lmi, Lmist, HasNFS, MqueueDev, Efsysl, heap, nread, mret,
                   lost, nfail>>

-----------------------------------------------------------------------------
(* readmnt(): the entry *)

\* Mutant: the device of the stat buffer is taken whatever the flags say.
DevUnflagged(ds, sb) == sb.dev

\* mp->dev = ((mp->ds = ds) & SB_DEV) ? sb.st_dev : 0
Dev(ds, sb) == IF SB_DEV \in ds THEN sb.dev ELSE 0

Type(fstype) ==
    CASE fstype \in NfsTypes    -> N_NFS
      [] fstype \in MqueueTypes -> N_MQUEUE
      [] OTHER                  -> N_REGLR

\* The entry when its directory, its stat fields, its type and its fsname
\* are set.
Filled(frame) ==
    [dir   |-> frame.dn,
     ds    |-> frame.ds,
     dev   |-> Dev(frame.ds, frame.sb),
     mode  |-> IF SB_MODE \in frame.ds THEN frame.sb.mode ELSE 0,
     ty    |-> Type(frame.fstype),
     fsname  |-> frame.fp0,
     fsnmres |-> NULL,
     fs_mode |-> 0]

\* Mutant: an NFS entry leaves HasNFS as it is.
NfsKeptUncounted(has, fstype) == has

\* Mutant: every NFS entry is counted.
NfsKeptEach(has, fstype) == IF fstype \in NfsTypes THEN has + 1 ELSE has

\* if (HasNFS < 2) HasNFS = 2, for an NFS entry.
NfsKept(has, fstype) == IF fstype \in NfsTypes /\ has < 2 THEN 2 ELSE has

\* The strings of an entry in the order they are freed.
OldStrings(old) == <<old.dir, old.fsname, old.fsnmres>>

\* The entry to fill: the one the duplicate test found, its strings freed,
\* or a new one.
Entered ==
    LET ne == loc.mp = NULL
        mp == IF ne THEN NewBlocks(2)[1] ELSE loc.mp
    IN  [ne |-> ne, mp |-> mp,
         heap |-> IF ne THEN heap
                  ELSE At("reuse",
                          ReleaseAll(heap, OldStrings(heap.ent[mp])))]

\* What filling the entry does to the state of the context.
Classified ==
    /\ HasNFS' = NfsKept(HasNFS, loc.fstype)
    /\ MqueueDev' = IF Type(loc.fstype) = N_MQUEUE
                    THEN Dev(loc.ds, loc.sb) ELSE MqueueDev

\* Mutant: a new entry is put at the end of the list.
LinkedLast(mp, list) == Append(list, mp)

\* mp->next = Lmi; Lmi = mp
Linked(mp, list) == Cons(mp, list)

\* The frees of a reused entry fault.
ReuseFaults ==
    /\ mpc = "store"
    /\ Entered.heap.fault # NULL
    /\ heap' = Entered.heap
    /\ UNCHANGED <<Lmi, Lmist, HasNFS, MqueueDev, Efsysl, loc, mpc, nread,
                   mret, lost, nfail, supVars>>

\* malloc() of the entry fails: readmnt() returns NULL, Lmist stays 0.
NoEntry ==
    /\ mpc = "store"
    /\ loc.mp = NULL
    /\ AllocMayFail /\ nfail < MaxFailures
    /\ nfail' = nfail + 1
    /\ Return(heap, loc, <<>>)
    /\ UNCHANGED <<Lmi, Lmist, HasNFS, MqueueDev, Efsysl, lost, supVars>>

\* The file system name is copied, not resolved.
IsCopied(name) == loc.ignrdl \/ ~StartsWith(name, "/")

\* mkstrcpy() of the file system name fails: ln takes the NULL it returned
\* and readmnt() returns NULL with the entry filled as far as its fsname.
\* The cleanup frees the entry and not the directory it holds.
NoCopy ==
    /\ mpc = "store"
    /\ Entered.heap.fault = NULL
    /\ IsCopied(heap.str[loc.fp0])
    /\ AllocMayFail /\ nfail < MaxFailures
    /\ nfail' = nfail + 1
    /\ lost' = lost \cup {loc.dn}
    /\ Classified
    /\ Return(WithEnt(Entered.heap, Entered.mp, Filled(loc)),
              [loc EXCEPT !.dn = loc.fp0, !.fp0 = NULL, !.ln = NULL,
                          !.mp = Entered.mp],
              <<>>)
    /\ UNCHANGED <<Lmi, Lmist, Efsysl, supVars>>

\* The entry is filled and, when it is a new one, put at the head of Lmi.
\* Its fsnmres is a copy of the file system name, or what Readlink() makes
\* of it: NULL, the name itself, or a new string.  stat(2) of that gives
\* fs_mode, 0 when it fails or is not called.
StoreEntry(linkFails, statFails) ==
    /\ mpc = "store"
    /\ Entered.heap.fault = NULL
    /\ LET e      == Entered
           new    == NewBlocks(2)[2]
           name   == heap.str[loc.fp0]
           target == IF IsCopied(name) THEN name ELSE Links[name]
           ln     == CASE IsCopied(name) -> new
                       [] linkFails      -> NULL
                       [] target = name  -> loc.fp0
                       [] OTHER          -> new
           sb     == IF \/ IsCopied(name) \/ loc.ignstat
                        \/ ln = NULL \/ statFails
                     THEN [loc.sb EXCEPT !.mode = 0]
                     ELSE Stat[target]
           entry  == [Filled(loc) EXCEPT !.fsnmres = ln, !.fs_mode = sb.mode]
           filled == WithEnt(e.heap, e.mp, entry)
       IN  /\ heap' = IF ln = new THEN WithStr(filled, new, target)
                      ELSE filled
           /\ loc' = [loc EXCEPT !.dn = NULL, !.fp0 = NULL, !.ln = NULL,
                                 !.sb = sb,
                                 !.mp = IF e.ne THEN NULL ELSE e.mp]
           /\ Lmi' = IF e.ne THEN Linked(e.mp, Lmi) ELSE Lmi
    /\ Classified
    /\ mpc' = "line"
    /\ UNCHANGED <<Lmist, Efsysl, nread, mret, lost, nfail, supVars>>

-----------------------------------------------------------------------------
(* clean_mnt() *)

\* Mutant: the entry is freed and its strings are not.
FreeEntryAlone(h, mp) == IF h.fault # NULL THEN h ELSE Release(h, mp)

\* One round of the loop of clean_mnt(): the entry is read, its strings
\* and the entry are freed.
FreeEntry(h, mp) ==
    CASE h.fault # NULL -> h
      [] mp \notin DOMAIN h.ent -> [h EXCEPT !.fault = "read"]
      [] OTHER -> Release(ReleaseAll(h, OldStrings(h.ent[mp])), mp)

\* The table was never completed: nothing is done.
CleanMntNotRead ==
    /\ mpc = "idle"
    /\ ~Lmist
    /\ UNCHANGED vars

CleanMnt ==
    /\ mpc = "idle"
    /\ Lmist
    /\ Lmist' = FALSE
    /\ LET freed == At("clean_mnt", FoldLeft(FreeEntry, heap, Lmi))
       IN  /\ heap' = freed
           /\ Lmi' = IF freed.fault = NULL THEN <<>> ELSE Lmi
    /\ mret' = NULL
    /\ UNCHANGED <<HasNFS, MqueueDev, Efsysl, loc, mpc, nread, lost, nfail,
                   supVars>>

-----------------------------------------------------------------------------
(* The mount table and its supplement *)

Init == MntInit /\ SupInit

\* A fault of the heap and an index of the NULL MSHash end the process.
Running == heap.fault = NULL /\ ~supfault

readmnt ==
    \/ ReadmntCached \/ ReadmntNoStream \/ ReadmntOpen
    \/ SkipLine
    \/ \E l \in MountLines : ConvertFails(l) \/ IgnoreLine(l) \/ TakeLine(l)
    \/ ReadlinkFails \/ KeepDir \/ NoLink \/ FollowLink
    \/ TestDuplicate
    \/ StatDir \/ StatFails \/ StatExempt \/ StatSupplement
    \/ ReuseFaults \/ NoEntry \/ NoCopy
    \/ \E linkFails, statFails \in BOOLEAN : StoreEntry(linkFails, statFails)
    \/ EndOfFile

clean_mnt == CleanMntNotRead \/ CleanMnt

Next == Running /\ (readmnt \/ clean_mnt)

Spec == Init /\ [][Next]_vars

\* A call of readmnt() that has begun runs on: the process has one thread,
\* and a helper of stat(2) or Readlink() that does not answer in time is a
\* call that fails.  Whether readmnt() is called at all is left to the caller.
InCall == Running /\ mpc # "idle" /\ readmnt

FairSpec == Spec /\ WF_vars(InCall)

-----------------------------------------------------------------------------
(* Properties *)

Pointer == Nat \cup {NULL}

StatBuf == [dev : Nat, mode : Nat]

MountEntry ==
    [dir : Pointer, ds : SUBSET SB_ALL, dev : Nat, mode : Nat,
     ty : {N_REGLR, N_NFS, N_MQUEUE},
     fsname : Pointer, fsnmres : Pointer, fs_mode : Nat]

Frame ==
    [dn : Pointer, fp0 : Pointer, fp1 : Pointer, ln : Pointer, mp : Pointer,
     sb : StatBuf, ds : SUBSET SB_ALL,
     fstype : STRING, ignrdl : BOOLEAN, ignstat : BOOLEAN]

MntTypeOK ==
    /\ Lmi \in Seq(Nat)
    /\ Lmist \in BOOLEAN
    /\ HasNFS \in 0..2
    /\ MqueueDev \in Nat
    /\ Efsysl \in ExemptLists
    /\ DOMAIN heap.str \subseteq Nat
    /\ DOMAIN heap.ent \subseteq Nat
    /\ DOMAIN heap.str \cap DOMAIN heap.ent = {}
    /\ \A p \in DOMAIN heap.str : heap.str[p] \in STRING
    /\ \A p \in DOMAIN heap.ent : heap.ent[p] \in MountEntry
    /\ loc \in Frame
    /\ mpc \in {"idle", "line", "resolve", "dedupe", "stat", "store"}
    /\ nread \in 0..MaxLines
    /\ mret = NULL \/ mret \in Seq(Nat)
    /\ lost \subseteq Nat
    /\ nfail \in 0..MaxFailures

\* The entries of the list that are live, and the text of a live string.
Table == {e \in Range(Lmi) : e \in DOMAIN heap.ent}

TextOf(h, p) == IF p \in DOMAIN h.str THEN h.str[p] ELSE NULL

DirOf(e) == TextOf(heap, heap.ent[e].dir)

\* The table has one entry for a directory: a line whose directory, once
\* its escapes are converted and its links followed, is the directory of an
\* entry either is dropped or takes the place of that entry.  It is about
\* the search of Lmi in readmnt() and the three tests after it.
NoDuplicateDirs ==
    \A i, j \in DOMAIN Lmi :
        (i # j /\ Lmi[i] \in Table /\ Lmi[j] \in Table)
            => DirOf(Lmi[i]) # DirOf(Lmi[j])

\* An entry as the readers of the table see it.
Seen(e) ==
    IF e \in DOMAIN heap.ent
    THEN [dir |-> DirOf(e), ty |-> heap.ent[e].ty, dev |-> heap.ent[e].dev]
    ELSE NULL

\* What an entry can come to in this file system.
Readings ==
    [dir : Dirs, ty : {N_REGLR, N_NFS, N_MQUEUE},
     dev : {0} \cup {Stat[p].dev : p \in DOMAIN Stat}
               \cup UNION {Listed(f, p) : f \in Files, p \in Dirs}]

MT == INSTANCE MountTable
          WITH Entries <- Readings, Root <- "/",
               table <- [i \in DOMAIN Lmi |-> Seen(Lmi[i])],
               complete <- Lmist

\* No fault has ended the process and no entry of the list was freed.
Sound == Running /\ Range(Lmi) \subseteq DOMAIN heap.ent

\* readmnt() and clean_mnt() implement the mount table of module
\* MountTable: in whatever order the lines come, and whatever Readlink()
\* and stat(2) make of them, a step of readmnt() adds a directory the list
\* does not have at the head of the list, or turns the root that is not
\* NFS into the NFS root, or leaves the list alone; a list that is complete
\* changes only when clean_mnt() empties it.  It is about the search of
\* Lmi, the three tests of a duplicate, the reuse of the entry found
\* ("ne = 0") and "mp->next = Lmi; ... Lmi = mp;".  It is stated for the
\* steps between states in which every entry of the list is live, which
\* the cleanup of readmnt() does not keep (TableEntriesLive).
ImplementsMountTable ==
    /\ MT!TableInit
    /\ [][(Sound /\ Sound')
            => (UNCHANGED MT!tableVars \/ MT!TableNext)]_vars

\* The stat fields of an entry are those of its own directory: the device
\* is the one stat(2) or the mount supplement gives for the directory when
\* SB_DEV is set and 0 when it is not, the mode is that of the directory
\* under SB_MODE, fs_mode is the mode of the resolved file system name or
\* 0.  readmnt() has one stat buffer for the directory and the file system
\* name of every line, so what an earlier line or an earlier call left in
\* it must never reach an entry.
StatFieldsAreOwn ==
    \A e \in Table :
        LET entry == heap.ent[e]
            dir   == DirOf(e)
            res   == TextOf(heap, entry.fsnmres)
        IN  dir # NULL =>
              /\ entry.dev \in IF SB_DEV \in entry.ds
                               THEN {Stat[dir].dev} \cup Listed(supfile, dir)
                               ELSE {0}
              /\ entry.mode = IF SB_MODE \in entry.ds THEN Stat[dir].mode
                              ELSE 0
              /\ entry.fs_mode \in
                    {0} \cup (IF res \in DOMAIN Stat THEN {Stat[res].mode}
                              ELSE {})

\* HasNFS is 2 whenever the table has an NFS entry: the callers test
\* HasNFS to decide whether NFS files need their special handling.
NfsEntryCounted ==
    (\E e \in Table : heap.ent[e].ty = N_NFS) => HasNFS = 2

\* Between calls, every live block belongs to the table: readmnt() frees
\* what it allocated for the lines it dropped, for the directories a link
\* replaced, for the strings of a reused entry and for the fields of a line
\* whose conversion or whose entry could not be allocated, and clean_mnt()
\* frees everything.  One block is lost: when mkstrcpy() of the file system
\* name fails, the cleanup frees the entry and not the directory that was
\* moved into it.  Left aside are the tables that hold an entry that was
\* freed.
Owned == Table \cup UNION {FieldsOf(heap.ent[e]) : e \in Table}

NoLeak ==
    (/\ mpc = "idle" /\ heap.fault = NULL
     /\ Range(Lmi) \subseteq DOMAIN heap.ent)
    => Live(heap) \subseteq Owned \cup lost

-----------------------------------------------------------------------------
(* What the code does not keep *)

\* free() is given a live block: neither the cleanup of readmnt(), nor the
\* reuse of an entry, nor clean_mnt() frees a block that was freed, or frees
\* one block through two pointers.  It is about "CLEAN(dn); ... CLEAN(ln);
\* CLEAN(mp);", about the three strings of an entry (dir, fsname, fsnmres)
\* and about the value Readlink() leaves in ln and in fsnmres.
FreesOnce == heap.fault = NULL \/ heap.fault[2] # "free"

\* Between calls every entry of Lmi is live: the table readmnt() returned
\* and cached can be read.
TableEntriesLive == mpc = "idle" => Range(Lmi) \subseteq DOMAIN heap.ent

\* What readmnt() returns is the whole table: a list is returned only when
\* Lmist says that /proc/mounts was read to its end.
ReturnedTableIsComplete == (mret # NULL /\ mret # <<>>) => Lmist

\* Every call of readmnt() returns, or ends in the fault of a free(): each
\* of the eight "continue" of the loop and each of the three "goto cleanup"
\* of a failed allocation leads back to fgets() or to the return, whatever
\* the lines, the links, stat(2) and malloc() were.
ReadmntReturns == (mpc # "idle") ~> (mpc = "idle" \/ ~Running)

=============================================================================
