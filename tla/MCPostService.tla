--------------------------- MODULE MCPostService ---------------------------
(* Small instances of PostService for TLC. *)
EXTENDS PostService

CONSTANTS cat1, user1, t1, img1, img2, all

MCLike == [s \in {all} |-> {t1}]

\* One post, read, changed and removed, and lists of it.  A page and a size of
\* 0 are put right, and the offset 2 * 4 of an i32 of at most 7 wraps below 0.
EveryJob ==
         [op : {"get", "relation", "delete"}, id : {1}]
    \cup [op : {"list"}, query : [page : {0, 1}, size : {0}, search : {all}]
                                \cup [page : {3}, size : {4}, search : {all}]]
    \cup [op : {"create"}, post : {p \in Post : p.img = img2}]
    \cup [op : {"update"}, id : {1}, post : {p \in Post : p.img = img2}]
=============================================================================
