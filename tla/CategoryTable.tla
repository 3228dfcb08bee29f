---------------------------- MODULE CategoryTable ----------------------------
(***************************************************************************)
(* What the category routes promise for single categories, without cache,  *)
(* mutex or statements: a table that calls change and read in one step.    *)
(*                                                                         *)
(* While it is calm, a call that is told "ok" had its effect, once, and a  *)
(* read is told the row as it stands; a call that is told it failed had    *)
(* none.  What ends the calm (a caller that hangs up on a call, a write    *)
(* whose result or whose cache update is lost) is the implementation's to  *)
(* say; after it a read may be told a value the row has left behind, and a *)
(* failed call may have had its effect.                                    *)
(***************************************************************************)
CONSTANTS
    Call,   \* the calls that ever arrive
    Job,    \* what a call may ask
    Id, Name,
    Absent  \* the value of a row that is not (or no longer) there

VARIABLES
    ask,    \* ask[c]: what call c asks
    table,  \* table[i]: the value of row i
    past,   \* past[i]: every value row i has had
    did,    \* the calls that had their effect
    told,   \* told[c]: the status and the name c was told, or Untold
    calm    \* nothing has gone wrong so far

vars == <<ask, table, past, did, told, calm>>

Untold == [status |-> "none", name |-> Absent]

Writes == {"create", "update", "delete"}

Init ==
    /\ ask \in [Call -> Job]
    /\ table \in [Id -> Name \cup {Absent}]
    /\ past = [i \in Id |-> IF table[i] = Absent THEN {} ELSE {table[i]}]
    /\ did = {}
    /\ told = [c \in Call |-> Untold]
    /\ calm = TRUE

\* The value a write gives its row.
Written(c) == IF ask[c].op = "delete" THEN Absent ELSE ask[c].name

\* A write takes effect: a create on a row that never was, the others on one
\* that is there.  A call that has its answer has its effect no more, unless
\* the calm is over.
Change(c) ==
    /\ ask[c].op \in Writes /\ c \notin did
    /\ told[c] = Untold \/ ~calm'
    /\ \E i \in Id :
          /\ IF ask[c].op = "create"
             THEN past[i] = {}
             ELSE i = ask[c].id /\ table[i] # Absent
          /\ table' = [table EXCEPT ![i] = Written(c)]
          /\ past' = [past EXCEPT ![i] = @ \cup {Written(c)}]
    /\ did' = did \cup {c}
    /\ calm' => calm
    /\ UNCHANGED <<ask, told>>

\* The names a read of a row, or the one at the end of an update, may give.
Readable(i) == (IF calm THEN {table[i]} ELSE past[i]) \ {Absent}

Ok(names) == [status : {"ok"}, name : names]
Failed  == [status |-> "failed", name |-> Absent]
Missing == [status |-> "missing", name |-> Absent]

\* The good answers to each kind of call; a write has one when it is done.
GoodAnswers(c) ==
    CASE ask[c].op = "get"    -> Ok(Readable(ask[c].id))
      [] ask[c].op = "update" -> IF c \in did THEN Ok(Readable(ask[c].id)) ELSE {}
      [] ask[c].op \in {"create", "delete"} -> IF c \in did THEN Ok({Absent}) ELSE {}
      [] OTHER -> Ok({Absent})

BadAnswers(c) ==
    (IF calm /\ c \in did THEN {} ELSE {Failed})
    \cup (IF ask[c].op = "get" /\ (calm => table[ask[c].id] = Absent)
          THEN {Missing} ELSE {})

Tell(c) ==
    /\ told[c] = Untold
    /\ \E a \in GoodAnswers(c) \cup BadAnswers(c) : told' = [told EXCEPT ![c] = a]
    /\ UNCHANGED <<ask, table, past, did, calm>>

Disturb ==
    /\ calm /\ calm' = FALSE
    /\ UNCHANGED <<ask, table, past, did, told>>

Next == Disturb \/ \E c \in Call : Change(c) \/ Tell(c)

Spec == Init /\ [][Next]_vars

=============================================================================
