------------------------- MODULE MCCategoryGateway -------------------------
(* Small instances of CategoryGateway for TLC. *)
EXTENDS CategoryGateway

CONSTANTS n1, n2, all

MCName == {n1, n2}
MCSearch == {all}
MCLike == [s \in MCSearch |-> MCName]

\* One row, read, renamed and deleted.
RowJobs ==
         [op : {"get", "delete"}, id : {1}]
    \cup [op : {"update"}, id : {1}, name : {n2}]

\* The same, a list of it, and the making of it.
RowAndListJobs ==
    RowJobs
    \cup [op : {"create"}, name : {n1}]
    \cup [op : {"list"}, query : {[page |-> 1, size |-> 1, search |-> all]}]
=============================================================================
