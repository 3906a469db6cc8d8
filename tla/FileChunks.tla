------------------------------ MODULE FileChunks ------------------------------
(***************************************************************************)
(* How a webseed task cuts a byte range into HTTP requests, for any list   *)
(* of file sizes fs.  Each request stays inside one file, because a        *)
(* webseed URL names one file (task_request_next_chunk, webseed.cc).       *)
(* The file arithmetic (tr_torrent::file_offset) is outside src/ and       *)
(* follows the spec: a byte belongs to the file whose bytes include it,    *)
(* so an empty file holds no byte.                                         *)
(***************************************************************************)
EXTENDS Naturals, Sequences

\* The first byte of file f.
FileStartIn(fs, f) == LET S[i \in 1..f] == IF i = 1 THEN 0 ELSE S[i - 1] + fs[i - 1]
                      IN  S[f]

\* file_offset(loc).index: the file holding a byte.
FileOfIn(fs, byte) == CHOOSE f \in DOMAIN fs :
                          FileStartIn(fs, f) <= byte /\ byte < FileStartIn(fs, f) + fs[f]

\* Mutant: the chunk runs to the end of the task, whatever the file.
ChunkLenIgnoringFile(fs, from, end_byte) == end_byte - from

\* Mutant: left_in_file counted to the file's last byte, not past it.
ChunkLenShortByOne(fs, from, end_byte) ==
    LET f == FileOfIn(fs, from)
        left_in_file == FileStartIn(fs, f) + fs[f] - 1 - from
        left_in_task == end_byte - from
    IN  IF left_in_file < left_in_task THEN left_in_file ELSE left_in_task

\* task_request_next_chunk: this_chunk = min(left_in_file, left_in_task)
\* for a request starting at byte from of a task ending at end_byte.
ChunkLen(fs, from, end_byte) ==
    LET f == FileOfIn(fs, from)
        left_in_file == FileStartIn(fs, f) + fs[f] - from
        left_in_task == end_byte - from
    IN  IF left_in_file < left_in_task THEN left_in_file ELSE left_in_task

\* The requests of a task whose answers all come in full: a 206 that
\* leaves the cursor short of end_byte makes onPartialDataFetched request
\* the next chunk from where the last one ended.  A chunk of no bytes ends
\* the plan (the code asserts it never happens).
RECURSIVE ChunkPlan(_, _, _)
ChunkPlan(fs, from, end_byte) ==
    IF from >= end_byte THEN <<>>
    ELSE LET n == ChunkLen(fs, from, end_byte)
         IN  IF n = 0 THEN <<[start |-> from, len |-> 0]>>
             ELSE <<[start |-> from, len |-> n]>> \o ChunkPlan(fs, from + n, end_byte)
================================================================================
