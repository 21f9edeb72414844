--------------------------- MODULE SpoolDirectory ---------------------------
(***************************************************************************)
(* The names in the directory of one terminal's spool (SidecarSpool), and  *)
(* the bound on what they keep, whatever producer and tailer do to them.   *)
(***************************************************************************)
EXTENDS Integers, FiniteSets

CONSTANT MaxFiles   \* bound: inodes

VARIABLE dir        \* the names of each inode

Inodes == 1 .. MaxFiles

Named(kind) == {i \in Inodes : kind \in dir[i]}

\* A stalled consumer stops the producer before the spool holds more than the
\* active file, one generation on its way out and one anchor.
SpoolBounded == Cardinality({i \in Inodes : dir[i] # {}}) <= 3
=============================================================================
