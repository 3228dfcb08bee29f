------------------------- MODULE MCCommentGateway -------------------------
(* Small instances of CommentGateway for TLC. *)
EXTENDS CommentGateway

CONSTANTS p1, t1, t2, t3

MCCall == 1..2
MCPost == {p1}
MCText == {t1, t2, t3}

\* One comment, made, read, listed, changed and removed.
EveryJob ==
         [op : {"get", "delete"}, id : {1}]
    \cup [op : {"update"}, id : {1}, text : {t2, t3}]
    \cup [op : {"all"}]
    \cup [op : {"create"}, post : MCPost, text : {t1}]

\* Requests are numbered in the order they come: they differ in nothing else.
InOrder(c) == gate[c] = gate'[c] \/ \A d \in MCCall : d < c => gate[d] # "new"

MCNext == GateNext /\ \A c \in MCCall : InOrder(c)

MCSpec ==
    /\ GateInit /\ [][MCNext]_allVars
    /\ \A c \in Call : WF_allVars(GateStep(c))
    /\ \A i \in Id : WF_allVars(Expire(i) /\ UNCHANGED gateVars)
    /\ WF_allVars(ExpireAll /\ UNCHANGED gateVars)
=============================================================================
