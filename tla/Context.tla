------------------------------ MODULE Context ------------------------------
(***************************************************************************)
(* The life of an lsof context, as lsof.h (src/unnamed/part_000) and the   *)
(* specification describe it: lsof_new(), the calls that set options and   *)
(* add selections, lsof_freeze(), any number of lsof_gather() and          *)
(* lsof_free_result(), lsof_destroy().  The functions themselves are not   *)
(* in this repository; what they do to the mount table is: a gather reads  *)
(* the table with readmnt(), lsof_exempt_fs() gives readmnt() its -e list, *)
(* and the teardown calls clean_mnt().  The module puts the context on top *)
(* of module Mounts, with the steps of readmnt() as the steps of a gather. *)
(* What a gather reports is given by the rule of selection of the          *)
(* specification (4.2, 4.3), for the selections that compare a number and  *)
(* for those that ask the mount table: lsof_select_file() of a mounted     *)
(* directory and lsof_select_nfs().                                        *)
(*                                                                         *)
(* A call that is refused (a selection after the freeze, a second freeze,  *)
(* a gather before the freeze, file descriptors both selected and          *)
(* excluded) returns an error and changes nothing: it is a step that       *)
(* leaves every variable as it is, and has no action of its own.           *)
(***************************************************************************)
EXTENDS Mounts

CONSTANTS
    Predicates,     \* the selections the caller may add:
                    \* [cat, lo, hi, exclude] of a number,
                    \* [cat |-> "file", path, exclude] and
                    \* [cat |-> "nfs", exclude]
    Records,        \* the open files a gather finds: [pid, fd, path]
    Exemptions,     \* the calls of lsof_exempt_fs(): <<path, avoid_readlink>>
    MaxResults      \* bound: results gathered and not yet freed

ASSUME MaxResults \in Nat \ {0}
\* The categories that compare a number of the file.
Numeric == {"pid", "uid", "fd"}

ASSUME \A p \in Predicates :
          /\ p.cat \in Numeric \cup {"file", "nfs"}
          /\ p.exclude \in BOOLEAN
          /\ p.cat \in Numeric => p.lo \in Int /\ p.hi \in Int
          /\ p.cat = "file" => p.path \in STRING

VARIABLES
    phase,          \* "none", "mutable", "frozen", "gathering", "destroyed"
    store,          \* the selections added
    logic_and,      \* TRUE when the selections are ANDed
    results         \* the results gathered and not yet freed, each with
                    \* the files it reports and whether the mount table
                    \* it was made from was read to its end

ctxVars == <<phase, store, logic_and, results>>

allVars == <<ctxVars, vars>>

-----------------------------------------------------------------------------
(* The selection a gather makes *)

\* dir is the path or a directory above it.
IsAbove(dir, path) == dir = "/" \/ dir = path \/ IsPrefix(dir \o "/", path)

\* The file system of a path: of the mounted directories above it, the
\* entry of the longest.
MountOf(path) ==
    LET above == {e \in Table : DirOf(e) # NULL /\ IsAbove(DirOf(e), path)}
    IN  IF above = {} THEN NULL
        ELSE Seen(CHOOSE e \in above :
                     \A o \in above : Len(DirOf(o)) <= Len(DirOf(e)))

\* A number is compared with the bounds of the selection, both inclusive,
\* -1 for no bound.
InBounds(p, n) ==
    /\ p.lo = -1 \/ p.lo <= n
    /\ p.hi = -1 \/ n <= p.hi

\* lsof_select_file(): a path that is a mounted directory selects the files
\* of that file system, any other path the file of that name.
MatchesFile(p, f) ==
    IF \E e \in Table : DirOf(e) = p.path
    THEN MountOf(f.path) # NULL /\ MountOf(f.path).dir = p.path
    ELSE f.path = p.path

\* lsof_select_nfs(): the file system of the file is an NFS mount.
MatchesNfs(f) == MountOf(f.path) # NULL /\ MountOf(f.path).ty = N_NFS

Matches(p, f) ==
    CASE p.cat \in Numeric -> InBounds(p, f[p.cat])
      [] p.cat = "file"    -> MatchesFile(p, f)
      [] p.cat = "nfs"     -> MatchesNfs(f)

\* An exclusion that matches takes the file out, whatever the logic.
Vetoed(s, f) == \E p \in s : p.exclude /\ Matches(p, f)

Including(s) == {p \in s : ~p.exclude}

\* The selections of one category are alternatives.
MatchesCategory(s, c, f) ==
    \E p \in Including(s) : p.cat = c /\ Matches(p, f)

Enabled(s) == {p.cat : p \in Including(s)}

\* Mutant: with lsof_logic_and() a file has to match every selection.
SelectedByAll(s, and, f) ==
    /\ ~Vetoed(s, f)
    /\ IF and THEN \A p \in Including(s) : Matches(p, f)
              ELSE Enabled(s) = {} \/ \E c \in Enabled(s) :
                                         MatchesCategory(s, c, f)

\* Without a selection every file is reported.  By default a file is
\* reported when it matches some category; after lsof_logic_and(), when it
\* matches every category that has a selection.
Selected(s, and, f) ==
    /\ ~Vetoed(s, f)
    /\ IF and THEN \A c \in Enabled(s) : MatchesCategory(s, c, f)
              ELSE Enabled(s) = {} \/ \E c \in Enabled(s) :
                                         MatchesCategory(s, c, f)

Reported(s, and) == {f \in Records : Selected(s, and, f)}

-----------------------------------------------------------------------------
(* The calls *)

CtxInit ==
    /\ phase = "none"
    /\ store = {}
    /\ logic_and = FALSE
    /\ results = <<>>
    /\ Init

lsof_new ==
    /\ phase = "none"
    /\ phase' = "mutable"
    /\ UNCHANGED <<store, logic_and, results, vars>>

\* "A mixture of exclusions and inclusions is not allowed."
Mixes(p) ==
    /\ p.cat = "fd"
    /\ \E q \in store : q.cat = "fd" /\ q.exclude # p.exclude

\* lsof_select_pid(), lsof_select_fd(), lsof_select_file(),
\* lsof_select_nfs() and the other calls that add a selection.
lsof_select(p) ==
    /\ phase = "mutable"
    /\ ~Mixes(p)
    /\ store' = store \cup {p}
    /\ UNCHANGED <<phase, logic_and, results, vars>>

lsof_logic_and ==
    /\ phase = "mutable"
    /\ logic_and' = TRUE
    /\ UNCHANGED <<phase, store, results, vars>>

lsof_exempt_fs(path, avoid_readlink) ==
    /\ phase = "mutable"
    /\ Efsysl' = (path :> avoid_readlink) @@ Efsysl
    /\ UNCHANGED <<ctxVars, Lmi, Lmist, HasNFS, MqueueDev, heap, loc, mpc,
                   nread, mret, lost, nfail, supVars>>

\* Mutant: the context is frozen whatever its state.
FreezeInAnyPhase ==
    /\ phase \notin {"none", "destroyed"}
    /\ phase' = "frozen"
    /\ UNCHANGED <<store, logic_and, results, vars>>

\* "You can only call it once per context."
lsof_freeze ==
    /\ phase = "mutable"
    /\ phase' = "frozen"
    /\ UNCHANGED <<store, logic_and, results, vars>>

\* lsof_gather() calls readmnt(), which returns the table it has or begins
\* to read /proc/mounts.
GatherCalls ==
    /\ phase = "frozen"
    /\ Len(results) < MaxResults
    /\ mpc = "idle" /\ readmnt
    /\ phase' = "gathering"
    /\ UNCHANGED <<store, logic_and, results>>

\* A step of readmnt() inside the gather.
GatherReads ==
    /\ phase = "gathering"
    /\ mpc # "idle" /\ readmnt
    /\ UNCHANGED ctxVars

\* readmnt() has returned: the files are looked up in the table it left
\* and the result is given to the caller.  cached tells whether readmnt()
\* kept a table, whole or not, that the next call returns.
GatherReturns ==
    /\ phase = "gathering"
    /\ mpc = "idle"
    /\ phase' = "frozen"
    /\ results' = Append(results, [files  |-> Reported(store, logic_and),
                                   cached |-> Lmi # <<>> \/ Lmist])
    /\ UNCHANGED <<store, logic_and, vars>>

lsof_gather == GatherCalls \/ GatherReads \/ GatherReturns

\* The caller frees a result between two calls of lsof_gather().
lsof_free_result ==
    \E i \in DOMAIN results :
        /\ phase = "frozen"
        /\ results' = RemoveAt(results, i)
        /\ UNCHANGED <<phase, store, logic_and, vars>>

\* "You must not use the context anymore after this call."  The caller has
\* freed the results, as lsof.h asks.
lsof_destroy ==
    /\ phase \in {"mutable", "frozen"}
    /\ results = <<>>
    /\ clean_mnt
    /\ phase' = "destroyed"
    /\ UNCHANGED <<store, logic_and, results>>

CtxNext ==
    /\ Running
    /\ \/ lsof_new
       \/ \E p \in Predicates : lsof_select(p)
       \/ lsof_logic_and
       \/ \E x \in Exemptions : lsof_exempt_fs(x[1], x[2])
       \/ lsof_freeze
       \/ lsof_gather
       \/ lsof_free_result
       \/ lsof_destroy

CtxSpec == CtxInit /\ [][CtxNext]_allVars

-----------------------------------------------------------------------------
(* Properties *)

CtxTypeOK ==
    /\ phase \in {"none", "mutable", "frozen", "gathering", "destroyed"}
    /\ store \subseteq Predicates
    /\ logic_and \in BOOLEAN
    /\ results \in Seq([files : SUBSET Records, cached : BOOLEAN])
    /\ Len(results) <= MaxResults
    /\ DOMAIN Efsysl \subseteq {x[1] : x \in Exemptions}
    /\ mpc # "idle" => phase = "gathering"

\* An option moves what a gather reports one way, whatever table the
\* gather reads: of two contexts of which one has a selection more, an
\* alternative in a category that has one loses no file, an exclusion
\* gains none, and lsof_logic_and() gains none.  It is about the way
\* lsof_select_*() and lsof_logic_and() combine: alternatives inside a
\* category, categories by OR or AND, exclusions before both; and about
\* the selections of a file system and of NFS, which ask the mount table.
OptionsMoveOneWay ==
    /\ Reported(store, TRUE) \subseteq Reported(store, FALSE)
    /\ \A p \in {q \in Predicates \ store : ~Mixes(q)} :
          LET now  == Reported(store, logic_and)
              then == Reported(store \cup {p}, logic_and)
          IN  /\ (~p.exclude /\ p.cat \in Enabled(store)) => now \subseteq then
              /\ p.exclude => then \subseteq now

\* lsof_destroy() leaves nothing allocated when no allocation failed: what
\* every gather of the context put into the mount table, clean_mnt() frees,
\* the strings of each entry included.  After a failed allocation what is
\* left is the block the cleanup of readmnt() lost and the table the
\* failure left incomplete, which clean_mnt() does not free because it
\* returns at once when Lmist is 0.
DestroyFreesAll ==
    (phase = "destroyed" /\ Sound) =>
        /\ Live(heap) \subseteq Owned \cup lost
        /\ nfail = 0 => Live(heap) = {}

\* The gathers of a context agree: once a gather has left a table with
\* readmnt(), read to its end or cut short by a failed allocation, every
\* later gather reports the files of that one, because readmnt() returns
\* the table it has and nothing that was gathered, freed or called in
\* between changed it.  A gather that left no table, because /proc/mounts
\* could not be opened or the first entry could not be allocated, may
\* differ from the next, which reads the file.  It is about
\* "if (Lmi || Lmist) return (Lmi)" of readmnt() under lsof_gather().
RepeatedGathersAgree ==
    Sound => \A i, j \in DOMAIN results :
                (i < j /\ results[i].cached)
                    => results[i].files = results[j].files

\* As long as the context may be used, HasNFS and MqueueDev tell of the
\* table it has: HasNFS is 2 only with an NFS entry in the table, and
\* MqueueDev is the device of an entry of type mqueue.  clean_mnt() empties
\* the table and leaves both as they were, so the property rests on the
\* teardown being the last call of a context.  One failure breaks it and
\* no other: HasNFS and MqueueDev are set before mkstrcpy() of the file
\* system name, whose failure frees the entry they were set for and loses
\* its directory (lost).  A conversion or an entry that cannot be
\* allocated leaves both flags true of the table.
CachesAreCurrent ==
    (phase # "destroyed" /\ Sound /\ lost = {}) =>
        /\ HasNFS = 2 => \E e \in Table : heap.ent[e].ty = N_NFS
        /\ MqueueDev # 0 =>
              \E e \in Table : /\ heap.ent[e].ty = N_MQUEUE
                               /\ heap.ent[e].dev = MqueueDev

=============================================================================
