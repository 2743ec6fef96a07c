----------------------------- MODULE MountTable -----------------------------
(***************************************************************************)
(* What the local mount table is to the code that reads it: the file       *)
(* systems that are mounted, one for a directory, the latest first.        *)
(*                                                                         *)
(* The table is made once.  While it is made a directory is added at the   *)
(* head, and the root that is not on NFS gives way to a root that is; that *)
(* is all that ever happens to it.  When it is complete it stays as it is  *)
(* until it is torn down, and then it is empty.                            *)
(*                                                                         *)
(* readmnt() and clean_mnt() of src/lib/dialects/linux/dmnt.c implement    *)
(* this specification: module Mounts states the mapping and TLC checks it. *)
(***************************************************************************)
EXTENDS Sequences, SequencesExt

CONSTANTS
    Entries,        \* what a line of the mount table can come to
    Root,           \* the directory "/"
    N_NFS           \* the type of an NFS file system

ASSUME \A e \in Entries : {"dir", "ty"} \subseteq DOMAIN e

VARIABLES
    table,          \* the entries, the latest first
    complete        \* TRUE when the table is whole

tableVars == <<table, complete>>

Mounted(t) == {t[i].dir : i \in DOMAIN t}

TableInit ==
    /\ table = <<>>
    /\ complete = FALSE

\* A directory that is not in the table is added at its head.
Mount(e) ==
    /\ ~complete
    /\ e.dir \notin Mounted(table)
    /\ table' = Cons(e, table)
    /\ UNCHANGED complete

\* The root that is not on NFS is replaced, where it is, by one that is.
RootToNfs(i, e) ==
    /\ ~complete
    /\ table[i].dir = Root /\ table[i].ty # N_NFS
    /\ e.dir = Root /\ e.ty = N_NFS
    /\ table' = [table EXCEPT ![i] = e]
    /\ UNCHANGED complete

Complete ==
    /\ ~complete
    /\ complete' = TRUE
    /\ UNCHANGED table

Teardown ==
    /\ complete
    /\ table' = <<>>
    /\ complete' = FALSE

TableNext ==
    \/ Complete
    \/ Teardown
    \/ \E e \in Entries : Mount(e) \/ \E i \in DOMAIN table : RootToNfs(i, e)

TableSpec == TableInit /\ [][TableNext]_tableVars

=============================================================================
