------------------------------ MODULE MCBTree ------------------------------
EXTENDS BTree

\* records that are there from the start and stay: those of the root
\* directory in the order hfs_format inserts them, or none
MCRoot  == <<1, 2>>
MCNone  == << >>

\* the last answer decides nothing, and each step is checked all the same
StateView == t
=============================================================================
