------------------------- MODULE MCCommentService -------------------------
(* Small instances of CommentService for TLC. *)
EXTENDS CommentService, TLC

CONSTANTS p1, t1, t2

MCPost == {p1}
MCText == {t1, t2}

\* One comment, made, read, listed, changed and removed.
EveryJob ==
         [op : {"get", "delete"}, id : {1}]
    \cup [op : {"update"}, id : {1}, text : {t2}]
    \cup [op : {"all"}]
    \cup [op : {"create"}, post : MCPost, text : {t1}]

Symmetry == Permutations(Call)
=============================================================================
