------------------------------ MODULE BlockLayout ------------------------------
(***************************************************************************)
(* The torrent layout the webseed works in: blocks of BlockSize bytes      *)
(* (the last one possibly short) laid over the concatenation of the        *)
(* torrent's files.  tr_block_info and tr_torrent's file arithmetic are    *)
(* outside src/; these definitions follow the spec's account of them       *)
(* (block_loc, block_size, byte_loc, file_offset), except EndByte, which   *)
(* is tr_webseed_task's end_byte.                                          *)
(***************************************************************************)
EXTENDS Naturals, Sequences, FileChunks

CONSTANTS
    BlockSize,        \* tr_block_info block size (all blocks but the last)
    FileSizes         \* the torrent's file sizes, in file order

ASSUME /\ BlockSize \in Nat \ {0}
       /\ FileSizes \in Seq(Nat \ {0}) /\ FileSizes # <<>>

TotalSize == LET S[i \in 0..Len(FileSizes)] ==
                     IF i = 0 THEN 0 ELSE S[i - 1] + FileSizes[i]
             IN  S[Len(FileSizes)]

NumBlocks == (TotalSize + BlockSize - 1) \div BlockSize
Blocks == 0..NumBlocks - 1
Bytes == 0..TotalSize - 1

\* block_loc(b).byte and block_size(b): every block but the last is full.
BlockByte(b) == b * BlockSize
BlockSizeOf(b) == IF b = NumBlocks - 1 THEN TotalSize - BlockByte(b) ELSE BlockSize
\* byte_loc(byte).block
BlockOf(byte) == byte \div BlockSize
\* The bytes block b covers, i.e. its correct content.
BlockBytes(b) == [i \in 1..BlockSizeOf(b) |-> BlockByte(b) + i - 1]

FileStart(f) == FileStartIn(FileSizes, f)
\* file_offset(loc).index: the file holding a byte.
FileOf(byte) == FileOfIn(FileSizes, byte)

\* A block span [first, end) as tr_block_span_t, and its end_byte.
Spans == {s \in [first : Blocks, end : 1..NumBlocks] : s.first < s.end}
EndByte(s) == BlockByte(s.end - 1) + BlockSizeOf(s.end - 1)
================================================================================
