------------------------- MODULE MCCategoryService -------------------------
(* Small instances of CategoryService for TLC. *)
EXTENDS CategoryService, TLC

CONSTANTS n1, n2, all, byN2

MCId == {1, 2}
MCName == {n1, n2}
MCSearch == {all, byN2}
MCLike == [s \in MCSearch |-> IF s = all THEN MCName ELSE {n2}]

\* One row, every operation on it but list and create.
RowJobs ==
         [op : {"get", "delete"}, id : {1}]
    \cup [op : {"update"}, id : {1}, name : MCName]

\* Two pages of one row, a search whose page is to be put right, and two pages
\* whose offset is more than MaxInt = 7: 4 * 4 wraps to 0, and 1 * 10, with the
\* size put right, below it.
MCQuery == [page : {1, 2}, size : {1}, search : {all}]
           \cup {[page |-> 0, size |-> 1, search |-> byN2],
                 [page |-> 5, size |-> 4, search |-> all],
                 [page |-> 2, size |-> 0, search |-> all]}
ListJobs ==
         [op : {"list"}, query : MCQuery]
    \cup [op : {"create"}, name : {n2}]
    \cup [op : {"update"}, id : {1}, name : {n2}]
    \cup [op : {"delete"}, id : {1}]

\* The calls of one behaviour are all on row 1, the only one, or all about
\* lists; in the latter, with two rows, no call is dropped and row 1 begins as
\* n1, to be renamed, or is not there.
EveryJob == RowJobs \cup ListJobs

AboutLists == \E c \in Call : job[c] \notin RowJobs

MCInit ==
    /\ Init
    /\ \/ job \in [Call -> RowJobs] /\ log[2] = <<>>
       \/ job \in [Call -> ListJobs] /\ AboutLists /\ log[1] # <<n2>>

MCNext == Next /\ (AboutLists => UNCHANGED live)

MCSpec == MCInit /\ [][MCNext]_vars

Symmetry == Permutations(Call)
=============================================================================
