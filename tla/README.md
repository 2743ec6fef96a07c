# TLA+ models of lsof's mount table, name tables and context

This directory holds the TLA+ specifications of the library code of lsof that
is in this repository, the TLC configurations that check them, and
`PROJECT.json`, which maps every definition to the lines of the source it
models and lists the runs, the mutants, the findings and the hazards.

Run a configuration with

    tlc -workers 2 -config Mounts.cfg MCMounts

## 1. The system

lsof lists the open files of the processes of a machine.  The library
(`liblsof`) is used through a *context*: the caller creates it, adds selection
predicates, freezes it, gathers results any number of times and destroys it
(`src/unnamed/part_000`, which is `lsof.h`).  To decide to which file system
a file belongs, the Linux dialect reads `/proc/mounts` once per context into
the *local mount table* and keeps it; where `stat(2)` of a mounted directory
cannot be used, the device comes from the *mount supplement*, a file of
`<path> 0x<device>` lines given by the user.  For the report, numbers of the
kernel (IP protocols, address families, kernel addresses) are turned into
names.

### Inventory

| Part | Source | State | Operations |
|---|---|---|---|
| Octal escape conversion | `dmnt.c` 64-155, `convert_octal_escaped()` | the copy `cvt_str`, the indices `orig_idx`, `cvt_idx`, the room `cvt_len` | allocate, copy one character or one escape, expand, terminate; returns NULL for an empty string and on allocation failure |
| Mount supplement | `dmnt.c` 163-418, `getmntdev()`, `hash_mnt()` | `MSHash` (128 chains), `ctxd.mount_sup_error`, `MntSup`, `MntSupP` | lookup; the first lookup reads the file, validates each line, chains the entries, and on any error throws the table away and latches the error |
| Mount table | `dmnt.c` 424-771, `readmnt()`, `clean_mnt()` | `Lmi` (list of entries), `Lmist`, `HasNFS`, `MqueueDev`; five heap pointers, a stat buffer and its flags inside `readmnt()` | read the table (per line: convert, skip, resolve links, dedupe, stat or supplement, fill or reuse an entry), return the cached table, free the table |
| Name tables | `print.c`, `printiproto()`, `printunkaf()`, `endnm()`, `print_kptr()` | the static `m`, `Lf->iproto`, `Namech`, the static `dbuf` | name a protocol, name an address family, print a kernel address |
| Data model and API | `lsof.h` | none (declarations and their comments) | `lsof_new`, `lsof_select_*`, `lsof_logic_and`, `lsof_exempt_fs`, `lsof_freeze`, `lsof_gather`, `lsof_free_result`, `lsof_destroy` |
| Context lifecycle, predicate store, selection engine | code not in `src/`; declared in `lsof.h` | the state of the context, the selections, the AND flag, the results handed out | new, add a selection, freeze, gather, free a result, destroy; evaluate a file |
| OS backend | not in `src/` | the file system | `/proc/mounts`, `stat(2)`, `Readlink()`, forked helpers |

### How the parts interact

`readmnt()` calls `convert_octal_escaped()` on the first two fields of every
line, `Readlink()` and `statsafely()` on the mounted directory and on the file
system name, and `getmntdev()` when `stat(2)` failed or was not allowed and
the supplement is in use.  `getmntdev()` calls `hash_mnt()`.  A gather of a
context calls `readmnt()`, `lsof_exempt_fs()` fills the list `readmnt()`
searches before it calls `stat(2)` and `Readlink()`, and the teardown of the
context calls `clean_mnt()`.  The process has
one thread (the specification, section 5): nothing interleaves inside a call.
What a model checker adds here is every *sequence* of calls over every small
input: lines in any order, any line repeated, any call failing.

### What makes it hard

* `readmnt()` carries five pointers across the rounds of its loop and across
  eight `continue` and three `goto cleanup`, and frees all five at the end.
  Which pointer owns which block depends on the path taken through the
  rounds before.
* One `struct stat` and one flag word serve every line.
* The table depends on the order of the lines (an NFS `/` replaces a local
  `/`, nothing else replaces anything).
* The supplement must fail closed: one bad line anywhere invalidates every
  answer, now and later.
* The name tables are two switches of more than 150 cases selected by the
  preprocessor; whether a case exists, and whether two cases collide,
  depends on the platform's headers.

## 2. Modules

| Module | Models | Lines of source |
|---|---|---|
| `CStrings` | characters as codes; `tolower`, `strcasecmp`, `strncasecmp`, `strchr`; `%d`, `%#x`, `%.*s` and the truncation of `snprintf` | libc, not in `src/` |
| `OctalEscape` | `convert_octal_escaped()` step by step, and as the operator `convert_octal_escaped(str)` | `dmnt.c` 64-155 |
| `MountSupplement` | `getmntdev()`, `hash_mnt()` | `dmnt.c` 37-41, 163-418 |
| `Mounts` | `readmnt()`, `clean_mnt()`; extends `MountSupplement`, instantiates `OctalEscape` and `MountTable` | `dmnt.c` 424-771 |
| `MountTable` | what the resolver promises: the table as a list of readings, one a directory | the specification, 3 and 4.1 |
| `Context` | the calls of `lsof.h` on a context and the rule of selection; extends `Mounts` | the comments of `lsof.h` 704-1054, the specification, 4.2-4.4 |
| `NameTables` | `printiproto()`, `printunkaf()`, `endnm()`, `print_kptr()` | `print.c` 42-1082 |
| `MCOctalEscape`, `MCMountSupplement`, `MCMounts`, `MCNameTables`, `MCContext` | the values the configurations give to the constants | |

### OctalEscape

The variables are the locals of the function; `pc` is `"call"`, `"loop"` or
`"done"`.  `ReturnEmpty`, `AllocFails` and `Alloc` are the three ways lines
74-84 end, `CopyChar` one round of the loop of lines 88-148 (escape test,
inner loop, `orig_idx += 3`, the expansion by 64, the write), `Terminate`
lines 150-154.  A string is the sequence of its character codes; the value
returned is the buffer as C reads it, up to its first NUL (`CString`).

`CopyFrom` and `convert_octal_escaped(str)` give the same function as one
operator for `Mounts`, built from the `IsEscape` and `EscapedChar` of the
steps.  `Unescaped` is an independent definition by recursion on the
string, without indices.

`OctFairSpec` adds weak fairness of the steps of the function (section 5).

The failure of `realloc()` (lines 132-141) is not an action:
`CopyFitsAllocation` shows that the branch `cvt_idx >= cvt_len` is never
taken.

### MountSupplement

`MSHash` is `NULL` or a function from `0..127` to chains (sequences, head
first) of `[dir_name, dev]`.  `supfile` is the file as the calls find it:
`status` says whether `is_readable()` and `open_proc_stream()` succeed and
whether `fgets()` ends on an error, `lines` are its lines, each well-formed
(`[kind |-> "ok", path, dev]`) or one of the three parse errors.  Parsing the
characters of a line is abstracted to the kind of the line; `hash_mnt()` is
computed on the characters of the path, because which entries share a chain
is what the search depends on.

A call of `getmntdev()` is one step.  `GetMntDevLatched` (lines 178-179),
`GetMntDevOff` (191-194), `GetMntDevNoFile` (195-213), `GetMntDevRead`
(214-393: the loop, `ferror`, the free on error, the search) and
`GetMntDevSearch` (378-393) are its five ways through.  `SupRead` folds
`SupLine` over the lines; `SupLine` keeps the order of the tests of the loop.
The duplicate test `DuplicateOf` compares the entry's length with
`dir_name_len`, the length of the directory of the *call*, as line 294 does.
An allocation failure (`calloc` of the buckets, `malloc` of an entry) leaves
the loop with the buckets chained so far and no error; `supoom` records that
it happened, and later calls answer from those buckets.  `supfault` records that `MSHash[h]` was evaluated with `MSHash`
`NULL`; the process stops there.

### Mounts

The heap is modelled: `heap.str` and `heap.ent` are the live strings and
entries, keyed by block number; a pointer is a block number or `NULL`;
`Release` is `free()`, and a `free()` of a block that is not live, or the read
of an entry that is not live, sets `heap.fault` and stops the process.
`NewBlocks` returns blocks that no pointer holds, so that a dangling pointer
is never mistaken for a new block.

`loc` is the frame of `readmnt()`: `dn`, `fp0`, `fp1`, `ln`, `mp`, the stat
buffer `sb`, its flags `ds`, the type of the line and the two exemption
flags.  One round of the loop is four steps, with `mpc` the step the call is
at:

| `mpc` | Actions | Lines |
|---|---|---|
| `idle` | `ReadmntCached`, `ReadmntNoStream`, `ReadmntOpen`, `CleanMnt`, `CleanMntNotRead` | 442-451, 751-771 |
| `line` | `SkipLine`, `ConvertFails`, `IgnoreLine`, `TakeLine`, `EndOfFile` | 456-518, 733-748 |
| `resolve` | `ReadlinkFails`, `KeepDir`, `NoLink`, `FollowLink` | 523-539 |
| `dedupe` | `TestDuplicate` | 540-573 |
| `stat` | `StatDir`, `StatFails`, `StatExempt`, `StatSupplement` | 578-616 |
| `store` | `ReuseFaults`, `NoEntry`, `NoCopy`, `StoreEntry` | 629-731 |

Steps are split only where the code calls the outside (the stream,
`Readlink()`, `stat(2)`); since nothing else runs in between, the split adds
no behaviour.  Every action that returns from `readmnt()` goes through
`Return`, the cleanup of lines 739-748.  `StatSupplement` is the conjunction
with `getmntdev(Dir)` of `MountSupplement`: the two modules share a state.

What the outside returns is given by constants: `MountLines` (the lines a
`/proc/mounts` may have), `Links` (what `Readlink()` makes of a path; a path
without a link is mapped to itself, and `Readlink()` then returns its
argument, as the test `ln != dn` at line 532 implies), `Stat`, `ExemptLists`.
Each of `Readlink()` and `stat(2)` may also fail, on any call.  `Garbage` is
what the uninitialised `sb` and `ds` hold when `readmnt()` is entered.

`lost` is a history variable: the blocks that the code gives up without
freeing them (the directory of an entry whose `mkstrcpy()` failed).  It lets
`NoLeak` say exactly which blocks may be live.  In `NoCopy`, that failure,
`ln` takes the NULL `mkstrcpy()` returned (line 703) before the cleanup, so
the cleanup frees through `dn`, `fp1` and `mp` only.

Left out: `st_rdev` and `st_ino`, which are copied under flags of their own
exactly as `st_dev` is; `dirl`, which is the length of `dir`; the messages to
`ctx->err`; the `+m` listing (`MntSup == 1`).

### MountTable and the refinement

`MountTable` is the resolver as its users see it: `table`, a list of
readings `[dir, ty, dev]`, and `complete`.  `Mount(e)` puts a reading of a
directory that is not in the table at the head; `RootToNfs(i, e)` replaces a
reading of `/` that is not NFS by an NFS one, in place; `Complete` ends the
first read; `Teardown` empties a complete table.  Nothing else changes the
table: no reading is removed, reordered or altered.

`Mounts` instantiates it with `table` the entries of `Lmi` as `Seen` reads
them from the heap (directory, type, device) and `complete` as `Lmist`.
`ImplementsMountTable` says that every step of `Mounts` is a step of
`MountTable` or leaves `table` and `complete` as they are.  It is stated for
the steps between states in which every entry of `Lmi` is live (`Sound`):
once the cleanup has freed an entry of the list (finding 4), an entry cannot
be read any more, and the run `mounts_dangling` shows those states.

### Context

`phase` is `"none"`, `"mutable"`, `"frozen"`, `"gathering"` or
`"destroyed"`; `store` is the set of selections added, `logic_and` the flag
of `lsof_logic_and()`, `results` the results handed out and not yet freed,
each with the files it reports and with `cached`, which says whether the
gather left a table with `readmnt()`, whole or cut short, that the next call
of `readmnt()` returns.
The functions are declared in `lsof.h` and are not in `src/`; each action is
what the comment of the declaration and the specification (4.2, 4.4) say:

| Action | Legal when | Does |
|---|---|---|
| `lsof_new` | no context yet | `phase` becomes `mutable` |
| `lsof_select(p)` | `mutable`, and `p` does not mix inclusion and exclusion of file descriptors | adds `p` to `store` |
| `lsof_logic_and` | `mutable` | sets `logic_and` |
| `lsof_exempt_fs(path, avoid_readlink)` | `mutable` | adds the path to `Efsysl`, the list `readmnt()` searches |
| `lsof_freeze` | `mutable` | `phase` becomes `frozen` |
| `lsof_gather` | `frozen`, fewer than `MaxResults` results out | `GatherCalls` is the call of `readmnt()`, `GatherReads` each step of `readmnt()` after it, `GatherReturns` the return, which looks the files up in the table `readmnt()` left and appends `Reported(store, logic_and)` to `results` |
| `lsof_free_result` | `frozen` (between two gathers), a result is out | removes it |
| `lsof_destroy` | `mutable` or `frozen`, no result out | `clean_mnt()`; `phase` becomes `destroyed` |

A call that is refused returns an error and changes nothing; it is a
stuttering step.  `lsof_destroy` asks that the results are freed, as the
comment of `lsof_destroy()` tells the caller to.

The rule of selection is a set of operators: `Matches`, `Vetoed` (a matching
exclusion), `MatchesCategory` (alternatives in a category), `Selected` (no
veto; without `logic_and` some category with a selection matches, or there
is none; with it every such category matches), `Reported` (the files of
`Records` selected).  `Matches` has three kinds of selection:

* a number of the file (pid, uid, fd) within bounds, both inclusive, -1 for
  none (`InBounds`);
* `lsof_select_file(path)`: when the path is a mounted directory of the
  table, the files of that file system, otherwise the file of that name
  (`MatchesFile`);
* `lsof_select_nfs()`: the files whose file system is an NFS entry of the
  table (`MatchesNfs`).

`MountOf(path)` is the file system of a path: of the entries of `Lmi` whose
directory is the path or above it, the one with the longest directory (the
specification, 4.3).  With it a report depends on the table: on the order
of the lines, on the lines that were dropped, and on whether
`/proc/mounts` could be opened at all.

### NameTables

The cases of each switch are listed in source order (`IprotoCases1..5`,
`AfCases1..3`).  `build` is the platform: the function from the macros its
headers define to their values.  `IsCompiled` is `#if defined(...)` with the
`!defined(...) || ... != ...` tests around six of the cases, each a
definition of its own beside the lines of its test (`IpUnless`,
`EncapUnless`, `NbsUnless`, `NitUnless`, `Ieee802Unless`, `AfNeeds`), as
are the four names the table shortens; `IprotoOf` and
`AfOf` are the switch statement over the cases that are compiled.  The macro
of a case is the one the source writes, so the case of `pseudo_AF_PIP` is
guarded by `psuedo_AF_PIP` and is compiled on no platform.  `IprotoKnown`/`IprotoUnknown` and
`AfKnown`/`AfUnknown` are the two ways out of each function, with the
conversions of `snpf()` done on the characters.  `KptrToBuffer` and
`KptrToStatic` are `print_kptr()` with and without a buffer of the caller.

`IPROTOL`, `Namechl`, `KA_T_FMT_X` and the values of the macros are not in
`src/`: the first two are constants of the module, the format is taken as
`%#x`, and `MCNameTables` gives two platforms, a Linux and a 4.4BSD-like one,
with the values of their headers.

## 3. Runs

| Run | Configuration | Result | States (distinct) |
|---|---|---|---|
| `octal_escape` | `OctalEscape.cfg` | holds | 538,871 |
| `mount_supplement` | `MountSupplement.cfg` | holds | 45,552 |
| `mount_supplement_conflict` | `MountSupplementConflict.cfg` | `ConflictInvalidates` violated | |
| `mount_supplement_empty` | `MountSupplementEmpty.cfg` | `BucketsAllocatedWhenSearched` violated | |
| `mounts` | `Mounts.cfg` | holds | 645,084 |
| `mounts_supplement` | `MountsSupplement.cfg` | holds | 925,718 |
| `mounts_oom` | `MountsOom.cfg` | holds | 575,769 |
| `mounts_frees` | `MountsFrees.cfg` | `FreesOnce` violated | |
| `mounts_dangling` | `MountsDangling.cfg` | `TableEntriesLive` violated | |
| `mounts_partial` | `MountsPartial.cfg` | `ReturnedTableIsComplete` violated | |
| `name_tables` | `NameTables.cfg` | holds | 23,664 |
| `context` | `Context.cfg` | holds | 1,284,761 |

### Properties that hold

* **`ResultIsUnescaped`**: the value returned is the string without its
  escapes, as `Unescaped` defines it.  It depends on the boundary test
  `(orig_idx + 3) < orig_len`, the inner loop and `orig_idx += 3` together.
* **`CopyFitsAllocation`**: the write index never passes the read index, so
  the copy never needs more than `malloc(orig_len + 1)` gave it.
* **`CallReturns`** (liveness): every call of `convert_octal_escaped()`
  returns; the loop ends because each round moves `orig_idx` on, by 1 or by
  3, and the test is `orig_idx < orig_len`.
* **`FailClosed`**: with a file that cannot be read or has a malformed line,
  no call finds a device.  Checked on the supplement alone and inside
  `readmnt()`.
* **`AnswerIsListed`**: with a well-formed file without conflicts, a call
  finds a device exactly when the file lists the directory, and it is the
  listed one, whatever the chains and whichever call read the file.
* **`AnswerIsFromFile`**: whatever a call finds is a device the file lists
  for that directory, also in the calls after an allocation failure has cut
  the reading short and left a part of the file in the buckets.
* **`NoDuplicateDirs`**: the table has one entry for a directory, with
  escapes converted and links followed.
* **`ImplementsMountTable`** (refinement): the table changes only as
  `MountTable` allows.  A new entry goes to the head and nowhere else, an
  entry for a directory is added once, the only entry ever rewritten is a
  local `/` that becomes the NFS `/`, and while the table is being read
  nothing leaves it.
* **`StatFieldsAreOwn`**: device, mode and `fs_mode` of an entry are those of
  its own directory and file system name, or 0: nothing of the shared stat
  buffer leaks from one line, or from the stack, into an entry.
* **`NfsEntryCounted`**: `HasNFS` is 2 whenever the table has an NFS entry.
* **`NoLeak`**: between calls every live block belongs to the table or is in
  `lost`, also when an allocation failed.  `lost` holds one kind of block:
  when `mkstrcpy()` fails, the cleanup frees the entry and not the directory
  moved into it at line 656.  Left aside are the tables that hold a freed
  entry (`TableEntriesLive`).
* **`LabelsAreDistinct`**: on each platform no switch has a label twice.
  The two platforms of the model meet one of the six tests, the one of
  `IPPROTO_IP` against `IPPROTO_HOPOPTS`, which are both 0; the macros of
  the other five are defined by neither.
* **`KnownNameIsWhole`**: a protocol that has a case is written as the
  name of that case, whole: the precision `IPROTOL - 1` and the size of
  `Lf->iproto` cut none of them, because the four cases whose macro has
  eight characters or more write a name of seven (`FragmentName`,
  `SatexpakName`, `KryptolanName`, `BrsatmonName`).
* **`UnknownKeepsNumber`**: a protocol without a case is written as its
  number and `?` when below `m = 10^(IPROTOL-2)`, and as `*`, low digits and
  `?` from `m` on.
* **`NumbersAreToldApart`** (action property): two protocol numbers below
  `m`, and two families, never give the same text.
* **`OptionsMoveOneWay`**: of two contexts over one mount table of which
  one has a selection more, the report of the second has every file of
  the first when the selection is an alternative in a category that has
  one, and no file more when it is an exclusion; with `lsof_logic_and()`
  a report has no file more than without.  It is evaluated in every state
  of the context, so over every table a gather leaves: empty, whole, cut
  short by a failure, with `/db` local or on NFS.
* **`ReadmntReturns`** (liveness): every call of `readmnt()` that has begun
  returns or ends in a fault of the heap, on every table of three lines
  out of the nine, whatever the links, `stat(2)` and one failing allocation
  do: each of the eight `continue` and of the three `goto cleanup` leads
  back to `fgets()` or to the return.
* **`DestroyFreesAll`**: after `lsof_destroy()` no block is allocated, when
  no allocation has failed.  After a failure the blocks still allocated
  are those of `lost` and those of a table the failure left incomplete,
  and no others.
* **`RepeatedGathersAgree`**: once a gather has left a table with
  `readmnt()`, every later gather of the context reports the files of that
  one: `readmnt()` returns the table it has (`dmnt.c:442`), and no call
  between two gathers changes it.  This includes the table an allocation
  failure cut short (finding 5): the context goes on reporting from the
  part.  A gather that left no table, because `/proc/mounts` could not be
  opened or because the first entry could not be allocated, is marked
  (`cached` is `FALSE`) and may differ from the next, which reads the file.
* **`CachesAreCurrent`**: until the teardown, and as long as no
  `mkstrcpy()` of a file system name has failed, `HasNFS` is 2 only while
  the table has an NFS entry and `MqueueDev` is the device of an mqueue
  entry of the table; the failure of a conversion or of the allocation of
  an entry leaves both true of the table.
  `clean_mnt()` empties the table and leaves both as they were
  (`dmnt.c:758`), so in `Mounts` alone, where `readmnt()` may follow
  `clean_mnt()`, the same statement fails; it holds of a context because
  the teardown is its last call.
* `OctTypeOK`, `SupTypeOK`, `MntTypeOK`, `NameTypeOK`, `CtxTypeOK`: the type
  invariants.  `CtxTypeOK` includes that `readmnt()` runs only inside a
  gather.
  `OctTypeOK` includes that the characters written are bytes (the `& 0xff`),
  `NameTypeOK` that `m` is -1 or the limit and that each buffer keeps room
  for its NUL.

Every property has a mutant in `PROJECT.json`: a definition of the model
changed the way a plausible bug would change the code (a dropped `& 0xff`, a
boundary off by one, a comparison of lengths only, a missing `free`, a search
that starts at the second entry, flags not cleared, an entry linked at the
tail, a duplicate line that is tested again instead of left, a logic that
ANDs selections instead of categories, a `readmnt()` that reads the file
though it has a table, an NFS line that counts as kept when it is only
seen, a case that writes its macro instead of the shortened name), under
which the property is violated.

### What the code does not keep

1. **`ConflictInvalidates`** (`dmnt.c:294`).  The loop that reads the
   supplement compares the length of a chained entry with `dir_name_len`, the
   length of the directory the *call* asked for, instead of `sz`, the length
   of the path of the line.  Unless the two happen to be equal, no duplicate
   is found: a path listed with two devices raises no error and lookups
   answer with the later line.
2. **`BucketsAllocatedWhenSearched`** (`dmnt.c:383`).  A readable supplement
   without any line leaves `MSHash` `NULL` with no error, and the search
   evaluates `MSHash[h]`.
3. **`FreesOnce`** (`dmnt.c:746`).  When `Readlink()` returns its argument,
   `ln == dn`.  A `continue` before `ln` is assigned again, followed by the
   end of the file, makes the cleanup free the block through both.  The same
   value of `Readlink()` at line 715 makes `fsnmres` the block of `fsname`,
   which the reuse of the entry (lines 635-642) and `clean_mnt()` free twice;
   TLC reports the first, which is the shorter.
4. **`TableEntriesLive`** (`dmnt.c:747`).  After a duplicate line, or after a
   reused entry, `mp` still points into `Lmi`; if no later line reaches the
   search, `CLEAN(mp)` frees an entry of the table that is then returned and
   cached.
5. **`ReturnedTableIsComplete`** (`dmnt.c:442`).  After an allocation failure
   `Lmi` keeps the entries read so far and `Lmist` is 0; the next call returns
   that part as the table and `/proc/mounts` is never read again.

Finding 3 rests on what `Readlink()` returns for a path without a link,
which is read from line 532 and not from its code.

Seen while modelling and not given a run of their own:

* an escape of value 0 or 256 (`\000`, `\400`) puts a NUL into the copy, and
  the string returned ends there (`dmnt.c:122`);
* with `MntSup == 2`, a line whose `stat(2)` fails and that the supplement
  does not list is stored with device 0; the specification (4.1, step 6)
  drops it (`dmnt.c:602`);
* new entries are put at the head of `Lmi`, so the list is in the reverse of
  the order of `/proc/mounts`; the specification (4.1, step 8) says table
  order (`dmnt.c:728`).  `MountTable` takes the order of the code;
* the guard and the label of the case of `pseudo_AF_PIP` are misspelled
  `psuedo_AF_PIP`, so the case is never compiled and the family is written
  as `0x19` (`print.c:1001`);
* after an allocation failure `lsof_destroy()` does not free everything:
  the entries of a table left incomplete stay allocated, because
  `clean_mnt()` returns at once when `Lmist` is 0 (`dmnt.c:755`), and so
  does the block in `lost`.  `DestroyFreesAll` says that nothing else
  stays;
* `HasNFS = 2` and `MqueueDev` are set (`dmnt.c:668`, `671`) before
  `mkstrcpy()` of the file system name (`dmnt.c:703`); when that fails the
  entry is freed and the flags stay.  If it was the first entry nothing is
  cached, the next gather reads `/proc/mounts` again, and a table without
  an NFS entry then has `HasNFS` at 2.  `CachesAreCurrent` is stated
  for the contexts in which this failure did not happen (`lost` is empty);
  without that guard the context run refutes it;
* `mqueue` is matched with `strcmp()`, the NFS types with `strcasecmp()`; the
  specification (4.1, step 5) asks for both without regard to case
  (`dmnt.c:545`);
* `clean_mnt()` leaves `HasNFS`, `MqueueDev`, `MSHash` and the error flag of
  the supplement as they were (`dmnt.c:758`): after `readmnt()`,
  `clean_mnt()` and a `readmnt()` of a file without NFS, `HasNFS` is still
  2.  The specification (section 9) has the caches invalidated on teardown;
  `CachesAreCurrent` shows that a context never reads the stale values;
* when `/proc/mounts` cannot be opened `readmnt()` returns `NULL`, which is
  also what it returns for a table without entries; a gather made then is
  not told apart from one on an empty table, and the next gather reads the
  file (`dmnt.c:448`).

## 4. Bounds

| Bound | Value | Why it is enough |
|---|---|---|
| `MaxLen` (`MCOctalEscape`) | 6 characters over `\ 0 4 7 8 a` | room for an escape, a character before and after, two escapes that overlap, an escape cut at every length; the digits assemble 0, 32, 255, 256 and 511 |
| `MaxFileLines` (`MCMountSupplement`) | 3 lines over 3 paths, 2 devices, 3 kinds of error | a duplicate, a conflict and an error in every order; `/db` and `/df` share a chain and a length, `/` has neither |
| `MaxLines` | 4 (`Mounts.cfg`), 3 (with the supplement, with failures) | a root, its NFS duplicate, a third line that leaves pointers behind and the line after it |
| `MaxFailures` | 1 (`MountsOom.cfg`, `Context.cfg`) | one failure at any allocation of any line of a call; in a context the failure is in the first gather or in the second, so that a gather that kept nothing or a part is followed by one that reads again or answers from the part.  A second failure takes the context run from 1.3 to 7.1 million states and adds a second block to `lost` and no table that one failure does not leave |
| `ExemptLists` | 3 lists (`Mounts.cfg`), 2 (`MountsOom.cfg`), 1 (`Context.cfg`) | no exemption, `/df` exempt from `stat(2)`, `/lk` from `stat(2)` and `Readlink()`.  With failures the second is left out: it changes no allocation |
| `MountLines` | 9 lines | local and NFS root, a directory mounted twice, reached by an escape and through a link, an mqueue, the three ignored kinds, a directory that is no path |
| `Context.cfg` | `MaxLines` 2 of 7 lines, `MaxResults` 2, 5 selections, 6 files, 1 exemption | two lines give a duplicate, an NFS root that replaces a local one, and `/` with `/db` below it, local or NFS; two results are out together, so that a result of the first gather is compared with one of the second; the selections are two inclusions and an exclusion of descriptors, the file system on `/db` and NFS, so that a category has an alternative, three categories are combined, the rule about descriptors is met and two selections depend on the table; the files are in `/` and in `/db`.  The lines are those of `MCMountLines` on `/`, `/db` and `/lk`, the one of an ignored type and the one that is no path; the two other lines on `/df` add states and no table that differs for these files.  Three lines give 1.4 million states before any allocation fails, and failures multiply them |
| `IPROTOL`, `Namechl` | 8, 64 | `IPROTOL` 8 puts the limit at 1,000,000 and cuts names at 7 characters, which is what the four shortened names of the table are made for |
| `Protocols`, `Families` | 22 and 14 numbers | the numbers at which the two platforms differ, the shortened names, numbers without a case, and the numbers around `m/10` and `m` |
| `BufSizes` | 4, 32 | a buffer that cuts the address and one that does not |

Negative protocol numbers and characters above 127 are not among the inputs.

## 5. Fairness and deadlock

The process has one thread and the library waits for nothing but the calls
it makes: a call that has begun goes on until it returns.  A helper that
does not answer is taken as a `stat(2)` or a `Readlink()` that fails (the
specification, section 5), and those failures are steps of the model.  So
the steps *inside* a call are weakly fair, and nothing else is:

* `OctFairSpec` is `OctSpec` with `WF_octVars(OctNext)`; every step of
  `OctalEscape` is a step of the one call;
* `FairSpec` of `Mounts` is `Spec` with `WF_vars(InCall)`, where `InCall` is
  a step of `readmnt()` after the call has begun.  Whether `readmnt()` or
  `clean_mnt()` is ever called is up to the caller and has no fairness.

Weak fairness is enough because a step inside a call stays enabled until it
is taken: nothing else runs that could disable it.

`CallReturns` and `ReadmntReturns` are the liveness properties.  The other
runs check safety only and use the specifications without fairness.  A
gather of `Context` is the call of `readmnt()` and one step after its
return, so `ReadmntReturns` is also the termination of a gather; it is
checked in `mounts_oom`, on three lines and with a failing allocation,
rather than in the context, whose selections multiply the states without
adding a path through the loop.

The configurations of `Mounts`, `MountSupplement`, `OctalEscape` and
`Context` say `CHECK_DEADLOCK FALSE`: `OctalEscape` stops when the function
has returned, `Context` when the context is destroyed, and all but
`OctalEscape` stop at a fault (`heap.fault`, `supfault`), which is the end of
the process.  `NameTables` never stops.

## 6. Not modelled

* The records of `lsof.h` (processes, files, their flags of validity) and the
  calls that only route output (`lsof_output_stream`, `lsof_exit_on_fatal`,
  `lsof_avoid_blocking`, `lsof_avoid_forking`, `lsof_use_name_cache`): no
  code in `src/` reads or writes them.
* Selections by command, regular expression, network address, protocol
  state, zone and security context: their comparison rules are in code that
  is not in `src/`, and the specification gives them in a sentence each.
  The flags of `lsof_select_file()` (only files, only file systems, deleted
  paths) are left out for the same reason.
* The found flag of a selection: it is set when a file matches and never
  reset, it changes nothing a gather reports, and the specification does not
  say whether a match that an exclusion vetoes counts.
* The error codes of the calls that are refused: a refused call changes
  nothing, and the model has no variable for what it returned.
* The stream of `/proc/mounts`, `Readlink()`, `statsafely()` and the forked
  helpers behind them: taken as constants and as calls that may fail.
* Parsing the characters of a line of the supplement and of `/proc/mounts`
  (`get_fields()` is not in `src/`): a line is its fields.
* Diagnostics and the `+m` listing.

## 7. Plan

1. The supplement in the context (`MntSup == 2` inside `Context`), with
   three lines.
2. The paths of selections resolved through `Readlink()` before they are
   compared with the table (the specification, 4.3: "resolved-path
   equality").
