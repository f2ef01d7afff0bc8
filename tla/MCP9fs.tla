------------------------------- MODULE MCP9fs -------------------------------
(* Two fids and two names, one of which begins with the other; links to    *)
(* the directory above the shared one and to a name in it.  States that    *)
(* differ in the history of the last request only count as one.            *)
EXTENDS P9fs

MCRoot == <<<<"a">>, <<"a">>>>
MCTargets == {<<<<"a">>>>, MCRoot \o <<<<"a", "b">>>>}
MCNames == {<<"a">>, <<"a", "b">>, DotDot}
MCWalks == {<<>>, <<<<"a">>>>, <<DotDot, DotDot>>, <<<<"a", "b">>, <<"a">>>>}
MCFids == Permutations(Fids)
MCView == <<tree, made, DOMAIN open, fids, lost>>
=============================================================================
