--------------------------- MODULE MCFilesReader ----------------------------
(* FilesReader for TLC: a file of each format, paths as model values. *)
EXTENDS FilesReader

CONSTANTS iNew, iOld, iBroken

MCFormat == [i \in Inodes |->
  CASE i = iNew -> "new" [] i = iOld -> "deprecated" [] i = iBroken -> "broken"]
=============================================================================
