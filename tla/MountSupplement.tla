-------------------------- MODULE MountSupplement --------------------------
(***************************************************************************)
(* The mount supplement table of src/lib/dialects/linux/dmnt.c.            *)
(*                                                                         *)
(* getmntdev() answers "which device is mounted on this directory?" from   *)
(* a file of "<path> 0x<device>" lines when stat(2) could not.  The file   *)
(* is read on the first call that finds no hash buckets; every line is     *)
(* parsed, checked against the lines before it and chained into one of     *)
(* HASHMNT buckets.  An error on any line sets ctxd.mount_sup_error, which *)
(* is never reset, and the buckets are freed.                              *)
(*                                                                         *)
(* A path is a TLA+ string and hash_mnt() is computed on its characters.   *)
(* A line of the file is abstracted to what the parser tells apart: a      *)
(* well-formed line with its path and device, or one of the three parse    *)
(* errors.  Diagnostics and the entries' line numbers are left out.        *)
(***************************************************************************)
EXTENDS Integers, Sequences, SequencesExt, Bitwise, CStrings

CONSTANTS
    Files,          \* the supplement files considered: [status, lines]
    Dirs,           \* the directories: of the file's lines and of the calls
    MntSupModes,    \* values of MntSup considered: 0 off, 1 print, 2 look up
    MntSupPaths,    \* values of MntSupP considered: FALSE for NULL
    AllocMayFail,   \* TRUE when calloc()/malloc() may return NULL
    NULL            \* the null pointer

ASSUME AllocMayFail \in BOOLEAN
ASSUME MntSupModes \subseteq 0..2
ASSUME MntSupPaths \subseteq BOOLEAN

VARIABLES
    MSHash,             \* NULL, or the buckets: [0..HASHMNT-1 -> chain]
    mount_sup_error,    \* ctxd.mount_sup_error
    MntSup,             \* the +m / +M option
    MntSupP,            \* TRUE when a supplement file path was given
    supfile,            \* the supplement file on disk
    supret,             \* the last call: directory asked, ret, s->st_dev
    supfault,           \* TRUE once getmntdev() has indexed a NULL MSHash
    supoom              \* TRUE once an allocation has failed

supVars == <<MSHash, mount_sup_error, MntSup, MntSupP, supfile, supret,
             supfault, supoom>>

HASHMNT == 128

-----------------------------------------------------------------------------
(* Data *)

BadKinds == {"no_path", "no_device", "illegal_device"}

\* What open and read make of the file: is_readable() fails, fopen() fails,
\* every line is read, or fgets() stops on an I/O error after `lines'.
FileStatus == {"unreadable", "unopenable", "ok", "read_error"}

NoAnswer(dir) == [dir |-> dir, found |-> FALSE, dev |-> 0]

-----------------------------------------------------------------------------
(* hash_mnt() *)

\* One round of the loop: h ^= (c[i] * c[i+1]) << ((i * 3) % 13), i from 0.
HashRound(h, str, i) ==
    h ^^ ((CodeAt(str, i + 1) * CodeAt(str, i + 2)) * 2 ^ ((i * 3) % 13))

hash_mnt(dir_name) ==
    LET l == Len(dir_name)
    IN  CASE l = 0 -> 0
          [] l = 1 -> CodeAt(dir_name, 1) % HASHMNT
          [] OTHER -> FoldLeft(LAMBDA h, i : HashRound(h, dir_name, i), 0,
                               [k \in 1..(l - 1) |-> k - 1]) % HASHMNT

\* h = hash_mnt(path), for every path of the model.
Bucket == [path \in Dirs |-> hash_mnt(path)]

-----------------------------------------------------------------------------
(* getmntdev(): reading the file *)

\* Mutant: one bucket short of HASHMNT.
EmptyBucketsShort == [h \in 0..(HASHMNT - 2) |-> <<>>]

\* calloc(HASHMNT, sizeof(mntsup_t *)).
EmptyBuckets == [h \in 0..(HASHMNT - 1) |-> <<>>]

\* Mutant: a parse error that does not set ctxd.mount_sup_error.
BadLineIgnored(t) == t

\* The three parse errors: no path, no device, illegal device.
BadLine(t) == [t EXCEPT !.err = TRUE]

\* The search of a chain, as the loop that reads the file does it: the
\* entry's length is compared with the length of the directory getmntdev()
\* was called for, the entry's path with the path of the line.
DuplicateOf(chain, path, dir_name_len) ==
    SelectInSeq(chain, LAMBDA mp : /\ Len(mp.dir_name) = dir_name_len
                                   /\ mp.dir_name = path)

\* Mutant: the entry is chained before its device is set.
ChainedWithoutDev(buckets, path, dev) ==
    [buckets EXCEPT ![Bucket[path]] =
                        Cons([dir_name |-> path, dev |-> 0], @)]

\* A new entry goes to the head of its chain.
Chained(buckets, path, dev) ==
    [buckets EXCEPT ![Bucket[path]] =
                        Cons([dir_name |-> path, dev |-> dev], @)]

\* One line of the file.  t is the loop's state: the buckets so far, the
\* error flag, and whether an allocation failure has left the loop.
\* oom names the allocation that fails while this line is handled, if any.
SupLine(t, line, dir_name_len, oom) ==
    LET buckets == IF t.hash = NULL THEN EmptyBuckets ELSE t.hash
        chain   == buckets[Bucket[line.path]]
        dup     == DuplicateOf(chain, line.path, dir_name_len)
        same    == chain[dup].dev = line.dev
    IN  CASE t.left -> t
          [] line.kind \in BadKinds -> BadLine(t)
          [] t.hash = NULL /\ oom = "buckets" -> [t EXCEPT !.left = TRUE]
          [] dup # 0 -> [t EXCEPT !.hash = buckets, !.err = @ \/ ~same]
          [] oom = "entry" -> [t EXCEPT !.hash = buckets, !.left = TRUE]
          [] OTHER -> [t EXCEPT !.hash = Chained(buckets, line.path, line.dev)]

\* The whole file.  oomAt is the line at which an allocation fails, 0 if
\* none does.
SupRead(file, dir_name_len, oomAt, oomSite) ==
    FoldLeft(LAMBDA t, i : SupLine(t, file.lines[i], dir_name_len,
                                   IF i = oomAt THEN oomSite ELSE "none"),
             [hash |-> NULL, err |-> FALSE, left |-> FALSE],
             [i \in 1..Len(file.lines) |-> i])

\* The allocation failures a read of the file can meet.
OomChoices(file) ==
    {<<0, "none">>} \cup
    {c \in (1..Len(file.lines)) \X {"buckets", "entry"} :
        AllocMayFail /\ file.lines[c[1]].kind = "ok"}

-----------------------------------------------------------------------------
(* getmntdev(): the search for dir_name *)

\* Mutant: the lengths are compared, the paths are not.
SamePathByLength(dir_name, mp) == Len(dir_name) = Len(mp.dir_name)

SamePath(dir_name, mp) ==
    /\ Len(dir_name) = Len(mp.dir_name)
    /\ dir_name = mp.dir_name

SupFind(buckets, dir_name) ==
    LET chain == buckets[Bucket[dir_name]]
        hit   == SelectInSeq(chain, LAMBDA mp : SamePath(dir_name, mp))
    IN  IF hit = 0 THEN NoAnswer(dir_name)
        ELSE [dir |-> dir_name, found |-> TRUE, dev |-> chain[hit].dev]

-----------------------------------------------------------------------------
(* getmntdev(): the calls *)

SupInit ==
    /\ MSHash = NULL
    /\ mount_sup_error = FALSE
    /\ MntSup \in MntSupModes
    /\ MntSupP \in MntSupPaths
    /\ supfile \in Files
    /\ supret = NULL
    /\ supfault = FALSE
    /\ supoom = FALSE

\* An earlier call has found the file in error.
GetMntDevLatched(dir_name) ==
    /\ mount_sup_error
    /\ supret' = NoAnswer(dir_name)
    /\ UNCHANGED <<MSHash, mount_sup_error, MntSup, MntSupP, supfile,
                   supfault, supoom>>

\* No buckets, and no file to read them from.
GetMntDevOff(dir_name) ==
    /\ ~mount_sup_error
    /\ MSHash = NULL
    /\ MntSup # 2 \/ ~MntSupP
    /\ supret' = NoAnswer(dir_name)
    /\ UNCHANGED <<MSHash, mount_sup_error, MntSup, MntSupP, supfile,
                   supfault, supoom>>

\* The file cannot be read or opened.
GetMntDevNoFile(dir_name) ==
    /\ ~mount_sup_error
    /\ MSHash = NULL
    /\ MntSup = 2 /\ MntSupP
    /\ supfile.status \in {"unreadable", "unopenable"}
    /\ mount_sup_error' = TRUE
    /\ supret' = NoAnswer(dir_name)
    /\ UNCHANGED <<MSHash, MntSup, MntSupP, supfile, supfault, supoom>>

\* The first call with a file: read it, then search it.
GetMntDevRead(dir_name) ==
    /\ ~mount_sup_error
    /\ MSHash = NULL
    /\ MntSup = 2 /\ MntSupP
    /\ supfile.status \in {"ok", "read_error"}
    /\ \E oom \in OomChoices(supfile) :
         LET t   == SupRead(supfile, Len(dir_name), oom[1], oom[2])
             err == t.err \/ (~t.left /\ supfile.status = "read_error")
         IN  /\ mount_sup_error' = err
             /\ supoom' = (supoom \/ t.left)
             /\ MSHash' = IF err /\ ~t.left THEN NULL ELSE t.hash
             /\ supfault' = (~t.left /\ ~err /\ t.hash = NULL)
             /\ supret' = IF t.left \/ err \/ t.hash = NULL
                          THEN NoAnswer(dir_name)
                          ELSE SupFind(t.hash, dir_name)
    /\ UNCHANGED <<MntSup, MntSupP, supfile>>

\* A later call: the buckets are there.
GetMntDevSearch(dir_name) ==
    /\ ~mount_sup_error
    /\ MSHash # NULL
    /\ supret' = SupFind(MSHash, dir_name)
    /\ UNCHANGED <<MSHash, mount_sup_error, MntSup, MntSupP, supfile,
                   supfault, supoom>>

getmntdev(dir_name) ==
    /\ ~supfault
    /\ \/ GetMntDevLatched(dir_name)
       \/ GetMntDevOff(dir_name)
       \/ GetMntDevNoFile(dir_name)
       \/ GetMntDevRead(dir_name)
       \/ GetMntDevSearch(dir_name)

-----------------------------------------------------------------------------
(* The table on its own: any sequence of calls *)

SupNext == \E dir_name \in Dirs : getmntdev(dir_name)

SupSpec == SupInit /\ [][SupNext]_supVars

-----------------------------------------------------------------------------
(* Properties *)

SupEntry == [dir_name : STRING, dev : Nat]

SupAnswer == [dir : Dirs, found : BOOLEAN, dev : Nat]

SupTypeOK ==
    /\ mount_sup_error \in BOOLEAN
    /\ MntSup \in MntSupModes
    /\ MntSupP \in BOOLEAN
    /\ supfile \in Files
    /\ supret \in SupAnswer \cup {NULL}
    /\ supfault \in BOOLEAN
    /\ supoom \in BOOLEAN
    /\ MSHash # NULL =>
          /\ DOMAIN MSHash = 0..(HASHMNT - 1)
          /\ \A h \in DOMAIN MSHash :
                \A i \in DOMAIN MSHash[h] : MSHash[h][i] \in SupEntry

\* The devices the file gives for a directory.
Listed(file, dir) ==
    {file.lines[i].dev :
        i \in {j \in DOMAIN file.lines : /\ file.lines[j].kind = "ok"
                                         /\ file.lines[j].path = dir}}

Malformed(file) ==
    \/ file.status # "ok"
    \/ \E i \in DOMAIN file.lines : file.lines[i].kind \in BadKinds

Conflicting(file) ==
    \E i, j \in DOMAIN file.lines :
        /\ file.lines[i].kind = "ok" /\ file.lines[j].kind = "ok"
        /\ file.lines[i].path = file.lines[j].path
        /\ file.lines[i].dev # file.lines[j].dev

\* Fail closed: when the file cannot be read, or any of its lines is
\* malformed, no call of getmntdev() finds a device, whichever directory is
\* asked for and however many well-formed lines the file has.  It is about
\* the "ctxd.mount_sup_error = 1; continue;" of every parse error and the
\* test of the flag after the loop.  A call cut short by an allocation
\* failure is excluded: it leaves the loop before the rest is read.
FailClosed ==
    (Malformed(supfile) /\ ~supoom /\ supret # NULL) => ~supret.found

\* With a well-formed file that names no directory with two devices, a call
\* finds a device exactly when the file lists the directory, and it is the
\* listed one: neither the hash chains, nor the lines that repeat an
\* earlier line, nor the length of the directory of the call that read the
\* file change the answer.
AnswerIsListed ==
    (/\ supret # NULL
     /\ ~Malformed(supfile) /\ ~Conflicting(supfile)
     /\ MntSup = 2 /\ MntSupP
     /\ ~supoom /\ ~supfault)
    => /\ supret.found <=> Listed(supfile, supret.dir) # {}
       /\ supret.found => supret.dev \in Listed(supfile, supret.dir)

\* Whatever was read of the file, a device that is found is one the file
\* lists for that directory.  It is about the calls after an allocation
\* failure: calloc() or malloc() failing in the middle of the file leaves
\* the loop by "goto cleanup" with the entries of the lines before it
\* chained and no error set, and every later call searches those buckets,
\* lines that conflict or are malformed further down never having been read.
AnswerIsFromFile ==
    (supret # NULL /\ supret.found)
        => supret.dev \in Listed(supfile, supret.dir)

\* The comment above the duplicate test in getmntdev() ("A path match was
\* located.  If the device number is the same, skip this mount supplement
\* line.  Otherwise, issue a warning.") and the specification (duplicate
\* paths with differing device numbers invalidate the table): a file that
\* gives two devices for one path answers no call.
ConflictInvalidates ==
    (Conflicting(supfile) /\ ~supoom /\ supret # NULL) => ~supret.found

\* getmntdev() never indexes MSHash while it is NULL: the search
\* "for (mp = MSHash[h]; ...)" runs only after buckets were allocated.
BucketsAllocatedWhenSearched == ~supfault

=============================================================================
