------------------------------ MODULE MCFileChunks ------------------------------
(***************************************************************************)
(* The chunk plan of task_request_next_chunk over every layout of up to    *)
(* MaxFiles files of 0..MaxFileSize bytes, empty files included, and every *)
(* byte range [from, end_byte) a task can still have to fetch: far more    *)
(* layouts than the full Webseed model can afford.                         *)
(***************************************************************************)
EXTENDS FileChunks, FiniteSets

CONSTANTS MaxFiles, MaxFileSize

Layouts == {fs \in UNION {[1..n -> 0..MaxFileSize] : n \in 1..MaxFiles} :
               FileStartIn(fs, Len(fs)) + fs[Len(fs)] > 0}

Total(fs) == FileStartIn(fs, Len(fs)) + fs[Len(fs)]

VARIABLES fs, from, end_byte

vars == <<fs, from, end_byte>>

Init == /\ fs \in Layouts
        /\ from \in 0..Total(fs) - 1
        /\ end_byte \in from + 1..Total(fs)

Next == UNCHANGED vars

Spec == Init /\ [][Next]_vars

\* The spec (section 8): the chunks successive task_request_next_chunk
\* calls issue cover [from, end_byte) exactly, with no gap and no overlap,
\* none is empty and none crosses a file boundary, also where a file is
\* empty.
ChunksPartitionRange ==
    LET p == ChunkPlan(fs, from, end_byte)
    IN  /\ p # <<>> /\ p[1].start = from
        /\ \A k \in 1..Len(p) - 1 : p[k + 1].start = p[k].start + p[k].len
        /\ p[Len(p)].start + p[Len(p)].len = end_byte
        /\ \A k \in 1..Len(p) :
              /\ p[k].len > 0
              /\ FileOfIn(fs, p[k].start) = FileOfIn(fs, p[k].start + p[k].len - 1)

\* Each chunk runs to the end of its file or of the task, so a task sends
\* one request per non-empty file its range touches and no more: the
\* webseed never splits a range it could have asked for at once.
OneRequestPerFile ==
    Len(ChunkPlan(fs, from, end_byte)) =
        Cardinality({f \in DOMAIN fs : fs[f] > 0 /\ FileStartIn(fs, f) < end_byte
                                       /\ from < FileStartIn(fs, f) + fs[f]})
================================================================================
