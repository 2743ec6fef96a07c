------------------------- MODULE MCMountSupplement -------------------------
(***************************************************************************)
(* MountSupplement for TLC: every supplement file of at most MaxFileLines  *)
(* lines over three directories and two devices.  "/db" and "/df" have     *)
(* the same length and the same hash_mnt() value, so their entries share a *)
(* chain; "/" has another length and another bucket.                       *)
(***************************************************************************)
EXTENDS MountSupplement

MaxFileLines == 3

MCDirs == {"/", "/db", "/df"}

MCLines ==
    [kind : {"ok"}, path : MCDirs, dev : {1, 2}] \cup [kind : BadKinds]

MCFiles ==
    [status : {"ok", "read_error"}, lines : BoundedSeq(MCLines, MaxFileLines)]
    \cup [status : {"unreadable", "unopenable"}, lines : {<<>>}]

ASSUME hash_mnt("/db") = hash_mnt("/df") /\ hash_mnt("/db") # hash_mnt("/")
ASSUME hash_mnt("/") = 47 /\ hash_mnt("/db") = 28

=============================================================================
