--------------------------- MODULE MCPostGateway ---------------------------
(* Small instances of PostGateway for TLC. *)
EXTENDS PostGateway

CONSTANTS
    cat1, user1, t1, img0, all,
    Creator  \* the request that may make a post

MCCall == Req \X {"find", "main"}
MCImage == Req \cup {img0}
MCLike == [s \in {all} |-> {t1}]

\* A post is made, replaced and removed.
Changes ==
         [op : {"delete"}, id : {1}]
    \cup [op : {"create"}, post : {p \in Post : p.img = Creator}]
    \cup [op : {"update"}, id : {1}, post : Post]

EveryJob == Changes \cup [op : {"get"}, id : {1}]
=============================================================================
