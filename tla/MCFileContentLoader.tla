------------------------ MODULE MCFileContentLoader ------------------------
(***************************************************************************)
(* Small instances of FileContentLoader for TLC.                           *)
(***************************************************************************)
EXTENDS FileContentLoader

\* Two files in one of two directories.
MCFiles == {"f", "g"}
InDirs  == [x \in MCFiles |-> "p"]

TwoDirs == {"p", "q"}
=============================================================================
