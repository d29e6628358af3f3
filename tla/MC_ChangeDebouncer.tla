------------------------- MODULE MC_ChangeDebouncer -------------------------
(* Instantiates ChangeDebouncer for TLC: two documents, so that a flush    *)
(* of one interleaves with edits, closes and flushes of the other.         *)
EXTENDS ChangeDebouncer, TLC

CONSTANTS d1, d2

MCDocs == {d1, d2}

\* Only d1 is closed and reopened: enough for a close to race a flush.
MCClosingOne == {d1}

\* Documents are interchangeable for the safety runs.
DocSymmetry == Permutations(MCDocs)
=============================================================================
