---------------------------- MODULE MCLinuxAPI ----------------------------
(* Two or three structures, opened and closed in turn by several threads.  *)
EXTENDS LinuxAPI, TLC

Files == Permutations(File)
=============================================================================
