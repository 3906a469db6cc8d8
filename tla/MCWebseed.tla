------------------------------- MODULE MCWebseed -------------------------------
(* Webseed instantiated for TLC.  Two files of 1 and 2 bytes cut into      *)
(* blocks of 2 bytes: block 0 straddles the file boundary, so a span over   *)
(* it needs two chunks with a half block carried over in the buffer, and    *)
(* block 1 is the torrent's short last block (1 byte).                      *)
EXTENDS Webseed, TLC

MCFileSizes == <<1, 2>>

\* Task identities are interchangeable allocations.
TaskSymmetry == Permutations(TaskIds)
================================================================================
