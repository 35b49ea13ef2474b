--------------------------- MODULE MCBufferCache ----------------------------
EXTENDS BufferCache

CONSTANTS t1, t2, t3

\* Two tasks share block 1; the others have one user each, so that there are
\* more blocks, and more users at a time, than buffers.
MCUses == [t \in Tasks |-> CASE t = t1 -> {1, 2} [] t = t2 -> {1} [] OTHER -> {3}]
=============================================================================
