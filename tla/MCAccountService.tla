-------------------------- MODULE MCAccountService --------------------------
(* Small instances of AccountService for TLC. *)
EXTENDS AccountService, TLC

CONSTANTS n1, e1, e2, p1, p2, all

MCName     == {n1}
MCEmail    == {e1, e2}
MCPassword == {p1, p2}
MCLike     == [s \in {all} |-> MCEmail \cup {Blank}]

\* Two ways to make an account; logins, one of them wrong; the
\* account read, listed, changed and removed.  The page is to be put right.
EveryJob ==
         [op : {"register", "create"}, name : MCName, email : {e1}, pw : {p1}]
    \cup [op : {"login"}, email : {e1}, pw : MCPassword]
    \cup [op : {"find"}, id : {1}]
    \cup [op : {"list"}, query : [page : {0}, size : {1}, search : {all}]]
    \cup [op : {"update"}, id : {1}, name : {Omitted}, email : {e2}]
    \cup [op : {"delete"}, email : {e1}]

\* The accounts there are have p1, and the second was made by a registration.
MCInit ==
    /\ Init
    /\ log[1] # <<>> => log[1][1].secret.pw = p1
    /\ log[2] # <<>> => log[2][1].secret = [pw |-> p1, hashed |-> TRUE]

MCSpec == MCInit /\ [][Next]_vars

Symmetry == Permutations(Call)
=============================================================================
