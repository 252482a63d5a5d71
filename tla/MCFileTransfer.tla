--------------------------- MODULE MCFileTransfer ---------------------------
EXTENDS FileTransferProps, TLC

\* Of 8 = 2^64 offsets, 7 is -1: with one block of data it wraps around to 0,
\* and the block is written where the descriptor's position is.

\* Slots, requests and paths are interchangeable; ids are ordered.
Symmetry == Permutations(Slot) \cup Permutations(Req) \cup Permutations(Path)
=============================================================================
