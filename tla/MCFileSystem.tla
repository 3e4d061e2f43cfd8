---------------------------- MODULE MCFileSystem ----------------------------
(* FileSystem with interchangeable file names.                              *)
EXTENDS FileSystem, TLC

Symmetry == Permutations(Names)
=============================================================================
