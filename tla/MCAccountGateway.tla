-------------------------- MODULE MCAccountGateway --------------------------
(* A small instance of AccountGateway for TLC. *)
EXTENDS AccountGateway

CONSTANTS n1, e1, e2, p1, all, Visitor, Reader

MCName     == {n1}
MCEmail    == {e1, e2}
MCPassword == {p1}
MCLike     == [s \in {all} |-> MCEmail]

SessionJobs ==
         [op : {"login"}, email : {e1}, pw : {p1}]
    \cup [op : {"find"}, id : Id]
    \cup [op : {"update"}, id : {1}, name : MCName, email : {e1}]

\* There are two accounts; one of the calls is a login to the first, one asks
\* for "me", and every other user's page is that of the second.
MCInit ==
    /\ GateInit
    /\ \A u \in Id : log[u] # <<>> /\ log[u][1].secret.hashed
    /\ log[1][1].email = e1
    /\ \A c \in Call : job[c].op = "find" => job[c].id = 2
    /\ job[Visitor].op = "login" /\ Reader \in me

MCSpec == MCInit /\ [][GateNext]_allVars /\ Fairness
=============================================================================
