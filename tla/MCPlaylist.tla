----------------------------- MODULE MCPlaylist -----------------------------
(* Settings of Playlist for TLC: the playlists that are there at first.    *)
EXTENDS Playlist

CONSTANTS m, e1, e2, u, v, w

\* Of an #EXTINF line e2 or w is left, of all others w; that of the end may
\* still be found.
Stumps == [line \in Lines |-> CASE line \in Extinf -> {e2, w}
                                [] line = End -> {w, End}
                                [] line = Empty -> {}
                                [] OTHER -> {w}]

\* As the transcoder writes it; one of two pieces; one that has not ended yet
\* and whose last line has no newline.
Written  == {[lines |-> <<m, e1, u, e2, u, End>>, open |-> FALSE]}
Variants == {[lines |-> <<e1, u, e2, u, End>>, open |-> FALSE],
             [lines |-> <<m, e1, u>>, open |-> TRUE]}

\* The objects are interchangeable.
Interchangeable == Permutations(Editors)
=============================================================================
