----------------------------- MODULE MCHashTree -----------------------------
(* Instances of HashTree for TLC: eight pages of address space with a range *)
(* of three pages and a pad at 0, and a range of one page at 4, so that the *)
(* second range sits deeper in the sparse tree than the first.              *)
EXTENDS HashTree

TwoRanges == <<3, 1>>
TwoLengths == <<3, 1>>
Node(l, r, p, k) == [left |-> l, right |-> r, parent |-> p, level |-> k]
\* Range nodes have no children; 2 and 3 are the ranges.
TwoSparse == << Node(2, 4, 0, 3), Node(0, 0, 1, 2), Node(0, 0, 5, 0),
                Node(5, 0, 1, 2), Node(3, 0, 4, 1) >>
DirtyKinds == {"new", "dht"}
\* Points at which a killed update can be resumed by the next one.
SafeCrashes == {"idle", "sync", "clean"}
=============================================================================
