----------------------- MODULE CommentServiceProofs -----------------------
(* Proofs about CommentService, for any calls, ids, posts, texts and faults. *)
EXTENDS CommentService, TLAPS

----------------------------------------------------------------------------
(* Type correctness *)

Value == Comment \cup {Absent}
Answer == Comment \cup {Stub}
Held == [val : Answer \cup {Absent}, ver : Nat, at : Nat]

\* What a call is about to cache is a comment or a stub.
HoldsAnswer ==
    \A c \in Call : job[c].op \in {"get", "update"} /\ pc[c] \in {"fill", "store"}
        => row[c].val \in Answer

TypeInv == TypeOK /\ HoldsAnswer

LEMMA JobType ==
    ASSUME NEW j \in Job
    PROVE  /\ j.op \in {"all", "get", "delete", "create", "update"}
           /\ j.op \in {"get", "delete", "update"} => j.id \in Id
           /\ j.op = "create" => j.post \in Post
           /\ j.op \in {"create", "update"} => j.text \in Text
  BY CommentAssumption DEF AnyJob

\* The last value of a row is a value of the table.
LEMMA RowType ==
    ASSUME TypeOK, NEW i \in Id
    PROVE  /\ log[i] \in Seq(Value)
           /\ Row(i) \in Value
           /\ Version(i) \in Nat
           /\ Response(Row(i)) \in Answer
  BY DEF TypeOK, Row, Version, Response, Value, Answer

LEMMA RowTypeNext ==
    ASSUME TypeOK', NEW i \in Id
    PROVE  Version(i)' \in Nat
  BY DEF TypeOK, Version

LEMMA InitType == Init => TypeInv
<1> SUFFICES ASSUME Init PROVE TypeInv
  OBVIOUS
<1>1. log \in [Id -> Seq(Value)]
  <2>1. \A v \in Comment : <<v>> \in Seq(Value)
    BY DEF Value
  <2>2. <<>> \in Seq(Value)
    OBVIOUS
  <2>3. {<<>>} \cup {<<v>> : v \in {w \in Comment : w.post \in posts}} \subseteq Seq(Value)
    BY <2>1, <2>2
  <2>4. QED
    BY <2>3 DEF Init
<1>2. QED
  BY <1>1 DEF Init, TypeInv, TypeOK, HoldsAnswer, NoRow, Labels, Value

\* A write appends a value of the right type to the history of its row.
LEMMA CommitType ==
    ASSUME TypeOK, NEW c \in Call, NEW i \in Id, NEW v \in Value, Commit(c, i, v)
    PROVE  /\ log' \in [Id -> Seq(Value)]
           /\ wrote' \in [Call -> Nat]
<1>1. log[i] \in Seq(Value) /\ Version(i) \in Nat
  BY RowType
<1>2. Append(log[i], v) \in Seq(Value)
  BY <1>1
<1>3. QED
  BY <1>1, <1>2 DEF Commit, TypeOK, Value

\* Caching what a call holds leaves well-typed entries.
LEMMA SetType ==
    ASSUME TypeOK, NEW c \in Call, NEW i \in Id, NEW whole \in BOOLEAN,
           row[c].val \in Answer, Set(c, i, whole)
    PROVE  /\ cache' \in [Id -> Entry \cup {NoEntry}]
           /\ lost' \in [Call -> BOOLEAN]
<1>1. row[c].ver \in Nat /\ Version(i) \in Nat
  BY RowType DEF TypeOK
<1> DEFINE entry(ttl) == [val |-> row[c].val, ver |-> row[c].ver, at |-> Version(i),
                          whole |-> whole, ttl |-> ttl]
<1>2. entry(TRUE) \in Entry /\ entry(FALSE) \in Entry
  BY <1>1 DEF Entry, Answer
<1>3. cache' \in [Id -> Entry \cup {NoEntry}]
  <2>1. \/ cache' = [cache EXCEPT ![i] = entry(TRUE)]
        \/ cache' = [cache EXCEPT ![i] = entry(FALSE)]
        \/ cache' = cache
    BY DEF Set
  <2> HIDE DEF entry
  <2>2. QED
    BY <1>2, <2>1 DEF TypeOK
<1>4. lost' \in [Call -> BOOLEAN]
  BY DEF Set, TypeOK
<1>5. QED
  BY <1>3, <1>4

LEMMA DelType ==
    ASSUME TypeOK, NEW c \in Call, NEW i \in Id, Del(c, i)
    PROVE  /\ cache' \in [Id -> Entry \cup {NoEntry}]
           /\ lost' \in [Call -> BOOLEAN]
  BY DEF Del, TypeOK

\* A statement that reads a row leaves the call with a comment or a stub.
LEMMA HoldType ==
    ASSUME TypeOK, NEW c \in Call, NEW i \in Id, Hold(c, i)
    PROVE  /\ row' \in [Call -> Held]
           /\ row'[c].val \in Answer
           /\ \A d \in Call \ {c} : row'[d] = row[d]
<1> DEFINE r == [val |-> Response(Row(i)), ver |-> Version(i), at |-> Version(i)]
<1>1. r \in Held /\ r.val \in Answer
  BY RowType DEF Held
<1>2. row' = [row EXCEPT ![c] = r]
  BY DEF Hold
<1>3. row \in [Call -> Held]
  BY DEF TypeOK, Held, Answer
<1> HIDE DEF r
<1>4. QED
  BY <1>1, <1>2, <1>3

\* A call begins with the calls that were answered by then.
LEMMA BeganType ==
    ASSUME TypeOK, NEW c \in Call, Began(c)
    PROVE  before' \in [Call -> SUBSET Call]
<1>1. {d \in Call : pc[d] = "done"} \in SUBSET Call
  OBVIOUS
<1>2. QED
  BY <1>1 DEF Began, TypeOK

LEMMA PostGoneType ==
    ASSUME TypeOK, NEW p \in Post, PostGone(p)
    PROVE  log' \in [Id -> Seq(Value)]
<1>1. \A i \in Id : log[i] \in Seq(Value) /\ Append(log[i], Absent) \in Seq(Value)
  BY RowType DEF Value
<1>2. QED
  BY <1>1 DEF PostGone

LEMMA NextType == TypeInv /\ [Next]_vars => TypeInv'
<1> SUFFICES ASSUME TypeInv, [Next]_vars
             PROVE  TypeInv'
  OBVIOUS
<1> USE DEF TypeInv
<1>a. \A c \in Call : job[c] \in Job
  BY DEF TypeOK
<1>1. ASSUME NEW c \in Call, GetLookup(c) PROVE TypeInv'
  <2>1. job[c].id \in Id /\ job[c].op = "get"
    BY <1>1, <1>a, JobType DEF GetLookup, At
  <2>2. row' \in [Call -> Held]
    <3>1. row \in [Call -> Held]
      BY DEF TypeOK, Held, Answer
    <3>2. CASE UNCHANGED row
      BY <3>1, <3>2
    <3>3. CASE Readable(job[c].id) /\ row' = [row EXCEPT ![c] =
                 [val |-> cache[job[c].id].val, ver |-> cache[job[c].id].ver,
                  at |-> cache[job[c].id].at]]
      <4> DEFINE r == [val |-> cache[job[c].id].val, ver |-> cache[job[c].id].ver,
                       at |-> cache[job[c].id].at]
      <4>1. cache[job[c].id] \in Entry
        BY <2>1, <3>3 DEF TypeOK, Readable
      <4>2. r \in Held
        BY <4>1 DEF Entry, Held, Answer
      <4>3. row' = [row EXCEPT ![c] = r]
        BY <3>3
      <4> HIDE DEF r
      <4>4. QED
        BY <3>1, <4>2, <4>3
    <3>4. QED
      BY <1>1, <3>2, <3>3 DEF GetLookup
  <2>3. before' \in [Call -> SUBSET Call]
    BY <1>1, BeganType DEF GetLookup
  <2>4. /\ pc' \in [Call -> Labels]
        /\ outcome' \in [Call -> {"none", "ok", "internal"}]
    <3>1. Finish(c, "ok") \/ Goto(c, "select")
      BY <1>1 DEF GetLookup
    <3>2. /\ pc \in [Call -> Labels]
          /\ outcome \in [Call -> {"none", "ok", "internal"}]
      BY DEF TypeOK
    <3>3. "reply" \in Labels /\ "select" \in Labels
      BY DEF Labels
    <3>4. CASE Finish(c, "ok")
      BY <3>2, <3>3, <3>4 DEF Finish
    <3>5. CASE Goto(c, "select")
      BY <3>2, <3>3, <3>5 DEF Goto
    <3>6. QED
      BY <3>1, <3>4, <3>5
  <2>5. TypeOK'
    BY <1>1, <2>2, <2>3, <2>4 DEF GetLookup, tables, TypeOK, Held, Answer
  <2>6. \A d \in Call : /\ d # c => row'[d] = row[d] /\ pc'[d] = pc[d]
                        /\ d = c => pc'[d] \notin {"fill", "store"}
    BY <1>1 DEF GetLookup, Goto, Finish, TypeOK
  <2>7. QED
    BY <1>1, <2>5, <2>6 DEF GetLookup, HoldsAnswer
<1>2. ASSUME NEW c \in Call, GetSelect(c) \/ UpdateReread(c) PROVE TypeInv'
  <2>1. job[c].id \in Id
    BY <1>2, <1>a, JobType DEF GetSelect, UpdateReread, At
  <2>2. /\ pc' \in [Call -> Labels]
        /\ outcome' \in [Call -> {"none", "ok", "internal"}]
        /\ \A d \in Call \ {c} : pc'[d] = pc[d]
    <3>1. \/ Goto(c, "fill") \/ Goto(c, "store")
          \/ Finish(c, "internal")
      BY <1>2 DEF GetSelect, UpdateReread
    <3>2. /\ pc \in [Call -> Labels]
          /\ outcome \in [Call -> {"none", "ok", "internal"}]
      BY DEF TypeOK
    <3>3. {"fill", "store", "reply"} \subseteq Labels
      BY DEF Labels
    <3>4. QED
      BY <3>1, <3>2, <3>3 DEF Goto, Finish
  <2>3. CASE Hold(c, job[c].id)
    <3>1. TypeOK'
      BY <1>2, <2>1, <2>2, <2>3, HoldType
         DEF GetSelect, UpdateReread, tables, TypeOK, Held, Answer
    <3>2. QED
      BY <1>2, <2>1, <2>2, <2>3, <3>1, HoldType DEF GetSelect, UpdateReread, HoldsAnswer
  <2>4. CASE UpdateReread(c) /\ UNCHANGED row /\ Finish(c, "internal")
    BY <2>2, <2>4 DEF UpdateReread, Finish, tables, TypeOK, HoldsAnswer
  <2>5. QED
    BY <1>2, <2>3, <2>4 DEF GetSelect, UpdateReread
<1>3. ASSUME NEW c \in Call, GetFill(c) \/ UpdateStore(c) PROVE TypeInv'
  <2>1. job[c].id \in Id /\ row[c].val \in Answer
    BY <1>3, <1>a, JobType DEF GetFill, UpdateStore, At, HoldsAnswer
  <2>2. cache' \in [Id -> Entry \cup {NoEntry}] /\ lost' \in [Call -> BOOLEAN]
    BY <1>3, <2>1, SetType DEF GetFill, UpdateStore
  <2>3. Return(c)
    BY <1>3 DEF GetFill, UpdateStore
  <2>4. QED
    BY <1>3, <2>2, <2>3 DEF GetFill, UpdateStore, Return, tables, TypeOK, HoldsAnswer, Labels
<1>4. ASSUME NEW c \in Call, AllLookup(c) PROVE TypeInv'
  <2>1. list' \in [Call -> SUBSET Item]
    BY <1>4 DEF AllLookup, TypeOK
  <2>2. before' \in [Call -> SUBSET Call]
    BY <1>4, BeganType DEF AllLookup
  <2>3. QED
    BY <1>4, <2>1, <2>2
       DEF AllLookup, At, Goto, Finish, tables, TypeOK, HoldsAnswer, Labels
<1>5. ASSUME NEW c \in Call, AllSelect(c) PROVE TypeInv'
  <2>1. {<<i, Version(i), Row(i)>> : i \in Present} \in SUBSET Item
    <3>1. \A i \in Present : i \in Id /\ Version(i) \in Nat /\ Row(i) \in Comment
      BY RowType DEF Present, Value
    <3>2. QED
      BY <3>1 DEF Item
  <2>2. list' \in [Call -> SUBSET Item]
    BY <1>5, <2>1 DEF AllSelect, TypeOK
  <2>3. QED
    BY <1>5, <2>2 DEF AllSelect, At, Goto, tables, TypeOK, HoldsAnswer, Labels
<1>6. ASSUME NEW c \in Call, AllFill(c) PROVE TypeInv'
  <2>1. all' \in [items : SUBSET Item, ttl : BOOLEAN] \cup {NoEntry}
    <3>1. list[c] \in SUBSET Item
      BY DEF TypeOK
    <3>2. /\ [items |-> list[c], ttl |-> TRUE] \in [items : SUBSET Item, ttl : BOOLEAN]
          /\ [items |-> list[c], ttl |-> FALSE] \in [items : SUBSET Item, ttl : BOOLEAN]
      BY <3>1
    <3>3. QED
      BY <1>6, <3>2 DEF AllFill, TypeOK
  <2>2. QED
    BY <1>6, <2>1 DEF AllFill, Finish, tables, locals, TypeOK, HoldsAnswer, Labels
<1>7. ASSUME NEW c \in Call, CreateInsert(c) PROVE TypeInv'
  <2>1. [post |-> job[c].post, text |-> job[c].text] \in Value
    BY <1>7, <1>a, JobType DEF CreateInsert, At, Comment, Value
  <2>2. log' \in [Id -> Seq(Value)] /\ wrote' \in [Call -> Nat]
    BY <1>7, <2>1, CommitType DEF CreateInsert, TypeOK, Value
  <2>3. QED
    BY <1>7, <2>2 DEF CreateInsert, Finish, TypeOK, HoldsAnswer, Labels, Value
<1>8. ASSUME NEW c \in Call, UpdateWrite(c) PROVE TypeInv'
  <2>1. job[c].id \in Id /\ job[c].text \in Text
    BY <1>8, <1>a, JobType DEF UpdateWrite, At
  <2>2. Affects(job[c].id) => [Row(job[c].id) EXCEPT !.text = job[c].text] \in Value
    BY <2>1, RowType DEF Affects, Comment, Value
  <2>3. log' \in [Id -> Seq(Value)] /\ wrote' \in [Call -> Nat]
    BY <1>8, <2>1, <2>2, CommitType DEF UpdateWrite, TypeOK, Value
  <2>4. QED
    BY <1>8, <2>3 DEF UpdateWrite, At, Goto, Finish, TypeOK, HoldsAnswer, Labels, Value
<1>9. ASSUME NEW c \in Call, DeleteWrite(c) PROVE TypeInv'
  <2>1. job[c].id \in Id /\ Absent \in Value
    BY <1>9, <1>a, JobType DEF DeleteWrite, At, Value
  <2>2. log' \in [Id -> Seq(Value)] /\ wrote' \in [Call -> Nat]
    BY <1>9, <2>1, CommitType DEF DeleteWrite, TypeOK, Value
  <2>3. QED
    BY <1>9, <2>2 DEF DeleteWrite, At, Goto, Finish, TypeOK, HoldsAnswer, Labels, Value
<1>10. ASSUME NEW c \in Call, DeleteEvict(c) PROVE TypeInv'
  <2>1. job[c].id \in Id
    BY <1>10, <1>a, JobType DEF DeleteEvict, At
  <2>2. cache' \in [Id -> Entry \cup {NoEntry}] /\ lost' \in [Call -> BOOLEAN]
    BY <1>10, <2>1, DelType DEF DeleteEvict
  <2>3. QED
    BY <1>10, <2>2 DEF DeleteEvict, Finish, tables, TypeOK, HoldsAnswer, Labels
<1>11. ASSUME NEW c \in Call, Reply(c) PROVE TypeInv'
  BY <1>11 DEF Reply, tables, locals, TypeOK, HoldsAnswer, Labels
<1>12. ASSUME NEW c \in Call, DbError(c) PROVE TypeInv'
  BY <1>12 DEF DbError, Finish, tables, locals, TypeOK, HoldsAnswer, Labels
<1>13. ASSUME NEW c \in Call, Drop(c) PROVE TypeInv'
  BY <1>13 DEF Drop, tables, locals, TypeOK, HoldsAnswer
<1>14. ASSUME NEW p \in Post, PostGone(p) PROVE TypeInv'
  <2>1. log' \in [Id -> Seq(Value)]
    BY <1>14, PostGoneType
  <2>2. QED
    BY <1>14, <2>1 DEF PostGone, locals, TypeOK, HoldsAnswer, Value
<1>15. ASSUME NEW i \in Id, Expire(i) PROVE TypeInv'
  BY <1>15 DEF Expire, tables, locals, TypeOK, HoldsAnswer
<1>16. CASE ExpireAll
  BY <1>16 DEF ExpireAll, tables, locals, TypeOK, HoldsAnswer
<1>17. CASE UNCHANGED vars
  BY <1>17 DEF vars, tables, locals, TypeOK, HoldsAnswer
<1>18. QED
  BY <1>1, <1>2, <1>3, <1>4, <1>5, <1>6, <1>7, <1>8, <1>9, <1>10, <1>11, <1>12,
     <1>13, <1>14, <1>15, <1>16, <1>17
     DEF Next, Serve, Get, All, Update, Delete

\* The service's data have their types in every state.
THEOREM TypeCorrect == Spec => []TypeOK
<1>1. Spec => []TypeInv
  BY InitType, NextType, PTL DEF Spec
<1>2. QED
  BY <1>1, PTL DEF TypeInv

----------------------------------------------------------------------------
(* What a step may do to each part of the state *)

\* The history of the table: a write of one call, or a post that goes.
LogStep ==
    \/ UNCHANGED log
    \/ \E c \in Call, i \in Id, v \in Value : Commit(c, i, v)
    \/ \E p \in Post : PostGone(p)

\* A call takes its row from the table, or (get only) from the cache.
RowStep ==
    \A c \in Call :
        \/ row'[c] = row[c]
        \/ /\ UNCHANGED log
           /\ job[c].id \in Id
           /\ \/ /\ row'[c].val = Response(Row(job[c].id))
                 /\ row'[c].ver = Version(job[c].id)
                 /\ row'[c].at = Version(job[c].id)
              \/ /\ Readable(job[c].id)
                 /\ row'[c].val = cache[job[c].id].val
                 /\ row'[c].ver = cache[job[c].id].ver
                 /\ row'[c].at = cache[job[c].id].at

\* An entry of the cache goes, or is replaced by what some call holds.
CacheStep ==
    \A i \in Id :
        \/ cache'[i] = cache[i]
        \/ cache'[i] = NoEntry
        \/ /\ UNCHANGED log
           /\ \E c \in Call :
                /\ job[c].id = i
                /\ row[c].val \in Answer
                /\ cache'[i].val = row[c].val
                /\ cache'[i].ver = row[c].ver
                /\ cache'[i].at = Version(i)

\* An item enters a list as its row stands.
ListStep ==
    \A e \in Listed' :
        \/ e \in Listed
        \/ /\ UNCHANGED log
           /\ e[1] \in Id
           /\ Row(e[1]) # Absent
           /\ e[2] = Version(e[1]) /\ e[3] = Row(e[1])

LEMMA LogSteps == TypeInv /\ [Next]_vars => LogStep
<1> SUFFICES ASSUME TypeInv, [Next]_vars
             PROVE  LogStep
  OBVIOUS
<1>a. \A c \in Call : job[c] \in Job
  BY DEF TypeInv, TypeOK
<1>1. ASSUME NEW c \in Call, CreateInsert(c) PROVE LogStep
  <2>1. [post |-> job[c].post, text |-> job[c].text] \in Value
    BY <1>1, <1>a, JobType DEF CreateInsert, At, Comment, Value
  <2>2. QED
    BY <1>1, <2>1 DEF CreateInsert, LogStep
<1>2. ASSUME NEW c \in Call, UpdateWrite(c) PROVE LogStep
  <2>1. job[c].id \in Id /\ job[c].text \in Text
    BY <1>2, <1>a, JobType DEF UpdateWrite, At
  <2>2. Affects(job[c].id) => [Row(job[c].id) EXCEPT !.text = job[c].text] \in Value
    BY <2>1, RowType DEF TypeInv, Affects, Comment, Value
  <2>3. QED
    BY <1>2, <2>1, <2>2 DEF UpdateWrite, LogStep
<1>3. ASSUME NEW c \in Call, DeleteWrite(c) PROVE LogStep
  <2>1. job[c].id \in Id /\ Absent \in Value
    BY <1>3, <1>a, JobType DEF DeleteWrite, At, Value
  <2>2. QED
    BY <1>3, <2>1 DEF DeleteWrite, LogStep
<1>4. ASSUME NEW c \in Call, GetLookup(c) \/ GetSelect(c) \/ GetFill(c) \/ All(c)
                             \/ UpdateReread(c) \/ UpdateStore(c) \/ DeleteEvict(c)
                             \/ Reply(c) \/ DbError(c) \/ Drop(c)
      PROVE LogStep
  BY <1>4 DEF GetLookup, GetSelect, GetFill, All, AllLookup, AllSelect, AllFill,
              UpdateReread, UpdateStore, DeleteEvict, Reply, DbError, Drop, tables,
              LogStep
<1>5. QED
  BY <1>1, <1>2, <1>3, <1>4
     DEF Next, Serve, Get, Update, Delete, Expire, ExpireAll, vars, tables, LogStep

LEMMA RowSteps == TypeInv /\ [Next]_vars => RowStep
<1> SUFFICES ASSUME TypeInv, [Next]_vars
             PROVE  RowStep
  OBVIOUS
<1>a. \A c \in Call : job[c] \in Job
  BY DEF TypeInv, TypeOK
<1>b. ASSUME UNCHANGED row PROVE RowStep
  BY <1>b DEF RowStep
<1>c. row = [d \in Call |-> row[d]]
  BY DEF TypeInv, TypeOK
<1>1. ASSUME NEW c \in Call, GetLookup(c) PROVE RowStep
  <2>1. job[c].id \in Id
    BY <1>1, <1>a, JobType DEF GetLookup, At
  <2>2. CASE Readable(job[c].id) /\ row' = [row EXCEPT ![c] =
               [val |-> cache[job[c].id].val, ver |-> cache[job[c].id].ver,
                at |-> cache[job[c].id].at]]
    <3>1. UNCHANGED log
      BY <1>1 DEF GetLookup, tables
    <3>2. QED
      BY <1>c, <2>1, <2>2, <3>1 DEF RowStep
  <2>3. QED
    BY <1>1, <1>b, <2>2 DEF GetLookup
<1>2. ASSUME NEW c \in Call, GetSelect(c) \/ UpdateReread(c) PROVE RowStep
  <2>1. job[c].id \in Id
    BY <1>2, <1>a, JobType DEF GetSelect, UpdateReread, At
  <2>2. CASE Hold(c, job[c].id)
    <3>1. UNCHANGED log
      BY <1>2 DEF GetSelect, UpdateReread, tables
    <3>2. QED
      BY <1>c, <2>1, <2>2, <3>1 DEF Hold, RowStep
  <2>3. QED
    BY <1>2, <1>b, <2>2 DEF GetSelect, UpdateReread
<1>3. QED
  BY <1>1, <1>2, <1>b
     DEF Next, Serve, Get, All, Update, Delete, GetFill, AllLookup, AllSelect, AllFill,
         CreateInsert, UpdateWrite, UpdateStore, DeleteWrite, DeleteEvict, Reply,
         DbError, Drop, PostGone, Expire, ExpireAll, vars, locals

LEMMA CacheSteps == TypeInv /\ [Next]_vars => CacheStep
<1> SUFFICES ASSUME TypeInv, [Next]_vars
             PROVE  CacheStep
  OBVIOUS
<1>a. \A c \in Call : job[c] \in Job
  BY DEF TypeInv, TypeOK
<1>b. ASSUME UNCHANGED cache PROVE CacheStep
  BY <1>b DEF CacheStep
<1>c. cache = [i \in Id |-> cache[i]]
  BY DEF TypeInv, TypeOK
<1>1. ASSUME NEW c \in Call, GetFill(c) \/ UpdateStore(c) PROVE CacheStep
  <2>1. job[c].id \in Id /\ row[c].val \in Answer
    BY <1>1, <1>a, JobType DEF GetFill, UpdateStore, At, TypeInv, HoldsAnswer
  <2>2. UNCHANGED log /\ \E whole \in BOOLEAN : Set(c, job[c].id, whole)
    BY <1>1 DEF GetFill, UpdateStore, tables
  <2>3. PICK whole \in BOOLEAN : Set(c, job[c].id, whole)
    BY <2>2
  <2>4. CASE UNCHANGED cache
    BY <1>b, <2>4
  <2>5. CASE \E ttl \in BOOLEAN :
               cache' = [cache EXCEPT ![job[c].id] =
                  [val |-> row[c].val, ver |-> row[c].ver, at |-> Version(job[c].id),
                   whole |-> whole, ttl |-> ttl]]
    BY <1>c, <2>1, <2>2, <2>5 DEF CacheStep
  <2>6. QED
    BY <2>3, <2>4, <2>5 DEF Set
<1>2. ASSUME NEW c \in Call, DeleteEvict(c) PROVE CacheStep
  BY <1>2, <1>b, <1>c DEF DeleteEvict, Del, CacheStep
<1>3. ASSUME NEW i \in Id, Expire(i) PROVE CacheStep
  BY <1>3, <1>c DEF Expire, CacheStep
<1>4. QED
  BY <1>1, <1>2, <1>3, <1>b
     DEF Next, Serve, Get, All, Update, Delete, GetLookup, GetSelect, AllLookup,
         AllSelect, AllFill, CreateInsert, UpdateWrite, UpdateReread, DeleteWrite,
         Reply, DbError, Drop, PostGone, ExpireAll, vars

\* What it takes to be listed.
LEMMA ListedMeans ==
    \A e : e \in Listed <=>
        (\E c \in Call : e \in list[c]) \/ (all # NoEntry /\ e \in all.items)
<1> SUFFICES ASSUME NEW e
             PROVE  e \in Listed <=>
        (\E c \in Call : e \in list[c]) \/ (all # NoEntry /\ e \in all.items)
  OBVIOUS
<1> DEFINE held == UNION {list[c] : c \in Call}
           cached == IF all = NoEntry THEN {} ELSE all.items
<1>1. e \in held <=> \E c \in Call : e \in list[c]
  BY Zenon
<1>2. e \in cached <=> all # NoEntry /\ e \in all.items
  OBVIOUS
<1>3. Listed = held \cup cached
  BY DEF Listed
<1> HIDE DEF held, cached
<1>4. QED
  BY <1>1, <1>2, <1>3

LEMMA ListedMeansNext ==
    \A e : e \in Listed' <=>
        (\E c \in Call : e \in list'[c]) \/ (all' # NoEntry /\ e \in all'.items)
<1> SUFFICES ASSUME NEW e
             PROVE  e \in Listed' <=>
        (\E c \in Call : e \in list'[c]) \/ (all' # NoEntry /\ e \in all'.items)
  OBVIOUS
<1> DEFINE held == UNION {list'[c] : c \in Call}
           cached == IF all' = NoEntry THEN {} ELSE all'.items
<1>1. e \in held <=> \E c \in Call : e \in list'[c]
  BY Zenon
<1>2. e \in cached <=> all' # NoEntry /\ e \in all'.items
  OBVIOUS
<1>3. Listed' = held \cup cached
  BY DEF Listed
<1> HIDE DEF held, cached
<1>4. QED
  BY <1>1, <1>2, <1>3

LEMMA ListSteps == TypeInv /\ [Next]_vars => ListStep
<1> SUFFICES ASSUME TypeInv, [Next]_vars
             PROVE  ListStep
  OBVIOUS
<1>b. ASSUME UNCHANGED <<list, all>> PROVE ListStep
  BY <1>b DEF ListStep, Listed
<1>c. list = [c \in Call |-> list[c]]
  BY DEF TypeInv, TypeOK
<1>1. ASSUME NEW c \in Call, AllLookup(c) PROVE ListStep
  <2>1. UNCHANGED all
    BY <1>1 DEF AllLookup
  <2>2. CASE UNCHANGED list
    BY <1>b, <2>1, <2>2
  <2>3. CASE all # NoEntry /\ list' = [list EXCEPT ![c] = all.items]
    <3>1. \A d \in Call : list'[d] = list[d] \/ list'[d] = all.items
      BY <1>c, <2>3
    <3>2. Listed' \subseteq Listed
      BY <2>1, <2>3, <3>1, ListedMeans, ListedMeansNext
    <3>3. QED
      BY <3>2 DEF ListStep
  <2>4. QED
    BY <1>1, <2>2, <2>3 DEF AllLookup
<1>2. ASSUME NEW c \in Call, AllSelect(c) PROVE ListStep
  <2>1. UNCHANGED <<log, all>>
    BY <1>2 DEF AllSelect, tables
  <2>2. \A d \in Call : \A e \in list'[d] :
           e \in list[d] \/ e \in {<<i, Version(i), Row(i)>> : i \in Present}
    BY <1>2, <1>c DEF AllSelect
  <2>3. \A e \in {<<i, Version(i), Row(i)>> : i \in Present} :
           /\ e[1] \in Id /\ Row(e[1]) # Absent
           /\ e[2] = Version(e[1]) /\ e[3] = Row(e[1])
    BY DEF Present
  <2>4. QED
    BY <2>1, <2>2, <2>3 DEF ListStep, Listed
<1>3. ASSUME NEW c \in Call, AllFill(c) PROVE ListStep
  <2>1. UNCHANGED list
    BY <1>3 DEF AllFill, locals
  <2>2. all' = all \/ all'.items = list[c]
    BY <1>3 DEF AllFill
  <2>3. Listed' \subseteq Listed
    <3>1. CASE UNCHANGED all
      BY <2>1, <3>1, ListedMeans, ListedMeansNext
    <3>2. CASE all'.items = list[c]
      <4>1. \A e \in all'.items : e \in Listed
        BY <3>2, ListedMeans
      <4>2. QED
        BY <2>1, <4>1, ListedMeans, ListedMeansNext
    <3>3. QED
      BY <2>2, <3>1, <3>2
  <2>4. QED
    BY <2>3 DEF ListStep
<1>4. CASE ExpireAll
  BY <1>4 DEF ExpireAll, locals, ListStep, Listed
<1>5. QED
  BY <1>1, <1>2, <1>3, <1>4, <1>b
     DEF Next, Serve, Get, All, Update, Delete, GetLookup, GetSelect, GetFill,
         CreateInsert, UpdateWrite, UpdateReread, UpdateStore, DeleteWrite,
         DeleteEvict, Reply, DbError, Drop, PostGone, Expire, vars, locals

----------------------------------------------------------------------------
(* What is cached, held or listed was stored *)

\* Versions only grow, and what a version was it stays.
Grows ==
    \A i \in Id : /\ Version(i) <= Version(i)'
                  /\ \A n \in 1..Version(i) : log'[i][n] = log[i][n]

LEMMA HistoryGrows == TypeInv /\ [Next]_vars => Grows
<1> SUFFICES ASSUME TypeInv, [Next]_vars
             PROVE  Grows
  OBVIOUS
<1>1. LogStep
  BY LogSteps
<1>2. \A i \in Id : log[i] \in Seq(Value) /\ Version(i) \in Nat
  BY RowType DEF TypeInv
<1>3. ASSUME NEW i \in Id, log'[i] = log[i]
      PROVE  /\ Version(i) <= Version(i)'
             /\ \A n \in 1..Version(i) : log'[i][n] = log[i][n]
  BY <1>2, <1>3 DEF Version
<1>4. ASSUME NEW i \in Id, NEW v \in Value, log'[i] = Append(log[i], v)
      PROVE  /\ Version(i) <= Version(i)'
             /\ \A n \in 1..Version(i) : log'[i][n] = log[i][n]
  BY <1>2, <1>4 DEF Version
<1>5. ASSUME NEW i \in Id
      PROVE  log'[i] = log[i] \/ \E v \in Value : log'[i] = Append(log[i], v)
  <2>1. log = [j \in Id |-> log[j]]
    BY DEF TypeInv, TypeOK
  <2>2. ASSUME NEW c \in Call, NEW j \in Id, NEW v \in Value, Commit(c, j, v)
        PROVE  log'[i] = log[i] \/ log'[i] = Append(log[i], v)
    BY <2>1, <2>2 DEF Commit
  <2>3. ASSUME NEW p \in Post, PostGone(p)
        PROVE  log'[i] = log[i] \/ log'[i] = Append(log[i], Absent)
    BY <2>3 DEF PostGone
  <2>4. Absent \in Value
    BY DEF Value
  <2>5. QED
    BY <1>1, <2>2, <2>3, <2>4 DEF LogStep
<1>6. QED
  BY <1>3, <1>4, <1>5 DEF Grows

\* val answers for what row i held at version ver.
WasStored(i, val, ver) ==
    /\ ver \in 0..Version(i)
    /\ val = Response(ValueAt(i, ver))

\* Item e was row e[1] at its version e[2].
WasListed(e) == e[2] \in 1..Version(e[1]) /\ e[3] = log[e[1]][e[2]]

CacheStored == \A i \in Id : cache[i] # NoEntry => WasStored(i, cache[i].val, cache[i].ver)

RowStored ==
    \A c \in Call : row[c] # NoRow =>
        /\ job[c].id \in Id
        /\ WasStored(job[c].id, row[c].val, row[c].ver)

ListStored == \A e \in Listed : e[1] \in Id /\ WasListed(e)

StoredInv == CacheStored /\ RowStored /\ ListStored

\* A row as it stands has the version it has now.
LEMMA RowIsStored ==
    ASSUME TypeOK, NEW i \in Id
    PROVE  /\ WasStored(i, Response(Row(i)), Version(i))
           /\ Row(i) # Absent => Version(i) \in 1..Version(i) /\ Row(i) = log[i][Version(i)]
  BY RowType DEF WasStored, ValueAt, Row, Version, Value

\* A version that exists keeps its value.
LEMMA HistoryStays ==
    ASSUME TypeInv, TypeInv', Grows, NEW i \in Id
    PROVE  /\ \A n \in 0..Version(i) : n \in 0..Version(i)' /\ ValueAt(i, n)' = ValueAt(i, n)
           /\ \A n \in 1..Version(i) : n \in 1..Version(i)' /\ log'[i][n] = log[i][n]
<1>1. Version(i) \in Nat /\ Version(i)' \in Nat
  BY RowType, RowTypeNext DEF TypeInv
<1>2. \A n \in 1..Version(i) : n \in 1..Version(i)' /\ log'[i][n] = log[i][n]
  BY <1>1 DEF Grows
<1>3. \A n \in 0..Version(i) : n \in 0..Version(i)' /\ ValueAt(i, n)' = ValueAt(i, n)
  BY <1>1, <1>2 DEF Grows, ValueAt
<1>4. QED
  BY <1>2, <1>3

LEMMA InitStored == Init => StoredInv
  BY ListedMeans DEF Init, StoredInv, CacheStored, RowStored, ListStored

LEMMA JobStays == [Next]_vars => UNCHANGED job
  BY DEF Next, Serve, Get, All, Update, Delete, GetLookup, GetSelect, GetFill,
         AllLookup, AllSelect, AllFill, CreateInsert, UpdateWrite, UpdateReread,
         UpdateStore, DeleteWrite, DeleteEvict, Reply, DbError, Drop, PostGone,
         Expire, ExpireAll, vars

LEMMA NextStored == TypeInv /\ TypeInv' /\ StoredInv /\ [Next]_vars => StoredInv'
<1> SUFFICES ASSUME TypeInv, TypeInv', StoredInv, [Next]_vars
             PROVE  StoredInv'
  OBVIOUS
<1>a. job' = job /\ Grows
  BY JobStays, HistoryGrows
<1>b. CacheStep /\ RowStep /\ ListStep
  BY CacheSteps, RowSteps, ListSteps
<1>1. CacheStored'
  <2> SUFFICES ASSUME NEW i \in Id, cache'[i] # NoEntry
               PROVE  /\ cache'[i].ver \in 0..Version(i)'
                      /\ cache'[i].val = Response(ValueAt(i, cache[i].ver))'
    BY DEF CacheStored, WasStored
  <2>1. CASE cache'[i] = cache[i]
    <3>1. /\ cache[i].ver \in 0..Version(i)
          /\ cache[i].val = Response(ValueAt(i, cache[i].ver))
      BY <2>1 DEF StoredInv, CacheStored, WasStored
    <3>2. QED
      BY <1>a, <2>1, <3>1, HistoryStays DEF Response
  <2>2. ASSUME NEW c \in Call, job[c].id = i, row[c].val \in Answer,
               cache'[i].val = row[c].val, cache'[i].ver = row[c].ver
        PROVE  /\ cache'[i].ver \in 0..Version(i)'
               /\ cache'[i].val = Response(ValueAt(i, cache[i].ver))'
    <3>1. row[c].ver \in 0..Version(i) /\ row[c].val = Response(ValueAt(i, row[c].ver))
      <4>1. CASE row[c] # NoRow
        BY <2>2, <4>1 DEF StoredInv, RowStored, WasStored
      <4>2. CASE row[c] = NoRow
        <5>1. Absent = Stub /\ row[c].ver = 0 /\ row[c].val = Absent
          BY <2>2, <4>2, CommentAssumption DEF NoRow, Answer
        <5>2. Version(i) \in Nat
          BY RowType DEF TypeInv
        <5>3. QED
          BY <5>1, <5>2 DEF Response, ValueAt
      <4>3. QED
        BY <4>1, <4>2
    <3>2. QED
      BY <1>a, <2>2, <3>1, HistoryStays DEF Response
  <2>3. QED
    BY <1>b, <2>1, <2>2 DEF CacheStep
<1>2. RowStored'
  <2> SUFFICES ASSUME NEW c \in Call, row'[c] # NoRow
               PROVE  /\ job[c].id \in Id
                      /\ row'[c].ver \in 0..Version(job[c].id)'
                      /\ row'[c].val = Response(ValueAt(job[c].id, row[c].ver))'
    BY <1>a DEF RowStored, WasStored
  <2>1. ASSUME job[c].id \in Id, NEW n \in 0..Version(job[c].id),
               row'[c].ver = n, row'[c].val = Response(ValueAt(job[c].id, n))
        PROVE  /\ row'[c].ver \in 0..Version(job[c].id)'
               /\ row'[c].val = Response(ValueAt(job[c].id, row[c].ver))'
    BY <1>a, <2>1, HistoryStays DEF Response
  <2>2. CASE row'[c] = row[c]
    BY <2>1, <2>2 DEF StoredInv, RowStored, WasStored
  <2>3. CASE /\ job[c].id \in Id
             /\ row'[c].val = Response(Row(job[c].id))
             /\ row'[c].ver = Version(job[c].id)
    BY <2>1, <2>3, RowIsStored DEF TypeInv, WasStored
  <2>4. CASE /\ job[c].id \in Id
             /\ Readable(job[c].id)
             /\ row'[c].val = cache[job[c].id].val
             /\ row'[c].ver = cache[job[c].id].ver
    BY <2>1, <2>4 DEF StoredInv, CacheStored, WasStored, Readable
  <2>5. QED
    BY <1>b, <2>2, <2>3, <2>4 DEF RowStep
<1>3. ListStored'
  <2> SUFFICES ASSUME NEW e \in Listed'
               PROVE  e[1] \in Id /\ e[2] \in 1..Version(e[1])' /\ e[3] = log'[e[1]][e[2]]
    BY DEF ListStored, WasListed
  <2>1. e[1] \in Id /\ e[2] \in 1..Version(e[1]) /\ e[3] = log[e[1]][e[2]]
    BY <1>b, RowIsStored DEF ListStep, StoredInv, ListStored, WasListed, TypeInv
  <2>2. QED
    BY <1>a, <2>1, HistoryStays
<1>4. QED
  BY <1>1, <1>2, <1>3 DEF StoredInv

\* No answer, cache entry or list of the comment service ever says of a comment
\* what its row did not say at the time it is labelled with; a stub stands only
\* for a time when there was no such comment.
THEOREM OnlyStoredAnswers == Spec => []AnswersWereStored
<1>1. StoredInv => AnswersWereStored
  BY DEF StoredInv, CacheStored, RowStored, ListStored, AnswersWereStored, WasStored, WasListed
<1>2. Spec => [](TypeInv /\ StoredInv)
  BY InitType, NextType, InitStored, NextStored, PTL DEF Spec
<1>3. QED
  BY <1>1, <1>2, PTL

----------------------------------------------------------------------------
(* No comment outlives its post *)

LEMMA PostGoneLog ==
    ASSUME TypeInv, NEW p \in Post, PostGone(p), NEW i \in Id
    PROVE  IF Row(i) # Absent /\ Row(i).post = p
           THEN Row(i)' = Absent
           ELSE Row(i)' = Row(i)
<1>1. log[i] \in Seq(Value)
  BY RowType DEF TypeInv
<1>2. CASE Row(i) # Absent /\ Row(i).post = p
  <2>1. log'[i] = Append(log[i], Absent)
    BY <1>2 DEF PostGone
  <2>2. QED
    BY <1>1, <1>2, <2>1 DEF Row, Version, Value
<1>3. CASE ~(Row(i) # Absent /\ Row(i).post = p)
  <2>1. log'[i] = log[i]
    BY <1>3 DEF PostGone
  <2>2. QED
    BY <1>3, <2>1 DEF Row, Version
<1>4. QED
  BY <1>2, <1>3

LEMMA CommitLog ==
    ASSUME TypeInv, NEW c \in Call, NEW i \in Id, NEW v \in Value, Commit(c, i, v)
    PROVE  /\ Row(i)' = v
           /\ Version(i)' = Version(i) + 1
           /\ \A j \in Id \ {i} : Row(j)' = Row(j) /\ Version(j)' = Version(j)
<1>1. log[i] \in Seq(Value) /\ log \in [Id -> Seq(Value)]
  BY RowType DEF TypeInv, TypeOK, Value
<1>2. log'[i] = Append(log[i], v) /\ \A j \in Id \ {i} : log'[j] = log[j]
  BY <1>1 DEF Commit
<1>3. QED
  BY <1>1, <1>2 DEF Row, Version

LEMMA NextPosts ==
    TypeInv /\ NoCommentWithoutPost /\ [Next]_vars => NoCommentWithoutPost'
<1> SUFFICES ASSUME TypeInv, NoCommentWithoutPost, [Next]_vars
             PROVE  NoCommentWithoutPost'
  OBVIOUS
<1>a. \A c \in Call : job[c] \in Job
  BY DEF TypeInv, TypeOK
<1>b. \A i \in Id : Row(i) # Absent => Row(i).post \in posts
  BY DEF NoCommentWithoutPost, Present
<1>c. ASSUME UNCHANGED tables PROVE NoCommentWithoutPost'
  BY <1>b, <1>c DEF tables, NoCommentWithoutPost, Present, Row, Version
<1>d. ASSUME NEW c \in Call, NEW i \in Id, NEW v \in Value, Commit(c, i, v),
             UNCHANGED posts, v # Absent => v.post \in posts
      PROVE  NoCommentWithoutPost'
  <2>1. \A j \in Id : Row(j)' # Absent => Row(j)'.post \in posts
    BY <1>b, <1>d, CommitLog
  <2>2. QED
    BY <1>d, <2>1 DEF NoCommentWithoutPost, Present
<1>1. ASSUME NEW c \in Call, CreateInsert(c) PROVE NoCommentWithoutPost'
  <2> DEFINE v == [post |-> job[c].post, text |-> job[c].text]
  <2>1. v \in Value /\ v.post = job[c].post
    BY <1>1, <1>a, JobType DEF CreateInsert, At, Comment, Value
  <2>2. CASE job[c].post \in posts /\ \E i \in Id : MayIssue(i)
    <3>1. PICK i \in Id : Commit(c, i, v)
      BY <1>1, <2>2 DEF CreateInsert
    <3>2. UNCHANGED posts
      BY <1>1 DEF CreateInsert
    <3> HIDE DEF v
    <3>3. QED
      BY <1>d, <2>1, <2>2, <3>1, <3>2
  <2>3. CASE ~(job[c].post \in posts /\ \E i \in Id : MayIssue(i))
    BY <1>1, <1>c, <2>3 DEF CreateInsert, tables
  <2>4. QED
    BY <2>2, <2>3
<1>2. ASSUME NEW c \in Call, UpdateWrite(c) PROVE NoCommentWithoutPost'
  <2> DEFINE i == job[c].id
             v == [Row(i) EXCEPT !.text = job[c].text]
  <2>1. i \in Id /\ job[c].text \in Text
    BY <1>2, <1>a, JobType DEF UpdateWrite, At
  <2>2. CASE Affects(i)
    <3>1. Row(i) \in Comment /\ Row(i).post \in posts
      BY <1>b, <2>1, <2>2, RowType DEF TypeInv, Affects, Value
    <3>2. v \in Value /\ v.post \in posts
      BY <2>1, <3>1 DEF Comment, Value
    <3>3. Commit(c, i, v) /\ UNCHANGED posts
      BY <1>2, <2>2 DEF UpdateWrite
    <3> HIDE DEF v, i
    <3>4. QED
      BY <1>d, <2>1, <3>2, <3>3
  <2>3. CASE ~Affects(i)
    BY <1>2, <1>c, <2>3 DEF UpdateWrite, tables
  <2>4. QED
    BY <2>2, <2>3
<1>3. ASSUME NEW c \in Call, DeleteWrite(c) PROVE NoCommentWithoutPost'
  <2>1. job[c].id \in Id /\ Absent \in Value
    BY <1>3, <1>a, JobType DEF DeleteWrite, At, Value
  <2>2. CASE Affects(job[c].id)
    BY <1>3, <1>d, <2>1, <2>2 DEF DeleteWrite
  <2>3. CASE ~Affects(job[c].id)
    BY <1>3, <1>c, <2>3 DEF DeleteWrite, tables
  <2>4. QED
    BY <2>2, <2>3
<1>4. ASSUME NEW p \in Post, PostGone(p) PROVE NoCommentWithoutPost'
  <2>1. posts' = posts \ {p}
    BY <1>4 DEF PostGone
  <2>2. \A i \in Id : Row(i)' # Absent => Row(i)'.post \in posts'
    BY <1>4, <1>b, <2>1, PostGoneLog
  <2>3. QED
    BY <2>2 DEF NoCommentWithoutPost, Present
<1>5. QED
  BY <1>1, <1>2, <1>3, <1>4, <1>c
     DEF Next, Serve, Get, All, Update, Delete, GetLookup, GetSelect, GetFill,
         AllLookup, AllSelect, AllFill, UpdateReread, UpdateStore, DeleteEvict,
         Reply, DbError, Drop, Expire, ExpireAll, vars

LEMMA InitPosts == Init => NoCommentWithoutPost
<1> SUFFICES ASSUME Init, NEW i \in Id, Row(i) # Absent
             PROVE  Row(i).post \in posts
  BY DEF NoCommentWithoutPost, Present
<1>1. PICK w \in Comment : w.post \in posts /\ log[i] = <<w>>
  BY DEF Init, Row
<1>2. QED
  BY <1>1 DEF Row, Version

\* However creates, updates and deletions of posts interleave, the foreign key
\* leaves no comment behind without its post.
THEOREM NoOrphans == Spec => []NoCommentWithoutPost
<1>1. Spec => [](TypeInv /\ NoCommentWithoutPost)
  BY InitType, NextType, InitPosts, NextPosts, PTL DEF Spec
<1>2. QED
  BY <1>1, PTL

----------------------------------------------------------------------------
(* Acknowledged writes are read *)

Ended(c) == pc[c] \in {"reply", "done"}

Writes(c) == job[c].op \in {"update", "delete"}

\* Who has been told, or is about to be told, that a write went well.
Acked(d) == Writes(d) /\ outcome[d] = "ok" /\ ~lost[d]

\* A call goes on, ends, or has its answer sent; whatever it knew when it ended
\* it keeps.
CallStep ==
    \A c \in Call :
        \/ /\ pc'[c] = pc[c] /\ outcome'[c] = outcome[c]
           /\ wrote'[c] = wrote[c] /\ lost'[c] = lost[c] /\ before'[c] = before[c]
        \/ /\ ~Ended(c) /\ pc'[c] \notin {"reply", "done"} /\ outcome'[c] = outcome[c]
        \/ /\ ~Ended(c) /\ pc'[c] \in {"reply", "done"} /\ outcome'[c] \in {"ok", "internal"}
        \/ /\ pc[c] = "reply" /\ pc'[c] = "done" /\ outcome'[c] = outcome[c]
           /\ wrote'[c] = wrote[c] /\ lost'[c] = lost[c] /\ before'[c] = before[c]

\* What a call notes at its beginning, and never later.
BeforeStep ==
    \A c \in Call :
        \/ before'[c] = before[c]
        \/ before'[c] = {d \in Call : pc[d] = "done"}

\* A call that updates or deletes writes the last version of its own row.
WroteStep ==
    \A c \in Call :
        wrote'[c] = wrote[c] \/ (Writes(c) => wrote'[c] <= Version(job[c].id)')

\* A write that is acknowledged, and that Redis took, leaves nothing readable.
AckStep ==
    \A c \in Call :
        Acked(c)' /\ outcome[c] # "ok" => ~Readable(job[c].id)'

\* How a get comes by what it answers.
GetStep ==
    \A c \in Call : job[c].op = "get" =>
        \/ /\ row'[c] = row[c] /\ before'[c] = before[c]
           /\ outcome'[c] = "ok" \/ pc'[c] = "fill" => outcome[c] = "ok" \/ pc[c] = "fill"
        \/ before'[c] = before[c] /\ row'[c].at = Version(job[c].id)
        \/ Readable(job[c].id) /\ row'[c].at = cache[job[c].id].at
        \/ outcome'[c] # "ok" /\ pc'[c] # "fill"

\* What a step of one call does to the others' progress: nothing.
LEMMA OneCallMoves ==
    ASSUME TypeOK, NEW c \in Call, Serve(c) \/ DbError(c) \/ Drop(c)
    PROVE  \A d \in Call \ {c} :
              /\ pc'[d] = pc[d] /\ outcome'[d] = outcome[d]
              /\ wrote'[d] = wrote[d] /\ lost'[d] = lost[d] /\ before'[d] = before[d]
              /\ row'[d] = row[d]
<1> DEFINE Still(f, g) == \A d \in Call \ {c} : g[d] = f[d]
<1>1. Still(pc, pc') /\ Still(outcome, outcome')
  <2>1. \/ \E label \in Labels : Goto(c, label)
        \/ \E status \in {"ok", "internal"} : Finish(c, status)
        \/ Return(c)
        \/ pc' = [pc EXCEPT ![c] = "done"] /\ UNCHANGED outcome
        \/ UNCHANGED <<pc, outcome>>
    BY DEF Serve, Get, All, Update, Delete, GetLookup, GetSelect, GetFill, AllLookup,
           AllSelect, AllFill, CreateInsert, UpdateWrite, UpdateReread, UpdateStore,
           DeleteWrite, DeleteEvict, Reply, DbError, Drop, Labels
  <2>2. QED
    BY <2>1 DEF Goto, Finish, Return, TypeOK
<1>2. Still(wrote, wrote')
  <2>1. UNCHANGED wrote \/ \E i \in Id : \E v : Commit(c, i, v)
    <3>1. job[c] \in Job
      BY DEF TypeOK
    <3>2. job[c].op \in {"update", "delete"} => job[c].id \in Id
      BY <3>1, JobType
    <3>3. QED
      BY <3>2
         DEF Serve, Get, All, Update, Delete, GetLookup, GetSelect, GetFill, AllLookup,
             AllSelect, AllFill, CreateInsert, UpdateWrite, UpdateReread, UpdateStore,
             DeleteWrite, DeleteEvict, Reply, DbError, Drop, At, locals
  <2>2. QED
    BY <2>1 DEF Commit, TypeOK
<1>3. Still(lost, lost')
  <2>1. UNCHANGED lost \/ lost' = [lost EXCEPT ![c] = TRUE]
    BY DEF Serve, Get, All, Update, Delete, GetLookup, GetSelect, GetFill, AllLookup,
           AllSelect, AllFill, CreateInsert, UpdateWrite, UpdateReread, UpdateStore,
           DeleteWrite, DeleteEvict, Reply, DbError, Drop, Set, Del, locals
  <2>2. QED
    BY <2>1 DEF TypeOK
<1>4. Still(before, before')
  <2>1. UNCHANGED before \/ Began(c)
    BY DEF Serve, Get, All, Update, Delete, GetLookup, GetSelect, GetFill, AllLookup,
           AllSelect, AllFill, CreateInsert, UpdateWrite, UpdateReread, UpdateStore,
           DeleteWrite, DeleteEvict, Reply, DbError, Drop, locals
  <2>2. QED
    BY <2>1 DEF Began, TypeOK
<1>5. Still(row, row')
  <2>1. \/ UNCHANGED row
        \/ \E i : Hold(c, i)
        \/ \E r : row' = [row EXCEPT ![c] = r]
    BY DEF Serve, Get, All, Update, Delete, GetLookup, GetSelect, GetFill, AllLookup,
           AllSelect, AllFill, CreateInsert, UpdateWrite, UpdateReread, UpdateStore,
           DeleteWrite, DeleteEvict, Reply, DbError, Drop, locals
  <2>2. QED
    BY <2>1 DEF Hold, TypeOK
<1>6. QED
  BY <1>1, <1>2, <1>3, <1>4, <1>5

\* Where a call stands tells whether its answer is settled.
Progress ==
    \A c \in Call :
        /\ Ended(c) <=> outcome[c] # "none"
        /\ pc[c] = "start" => wrote[c] = 0

LEMMA CallSteps == TypeInv /\ Progress /\ [Next]_vars => CallStep /\ BeforeStep
<1> SUFFICES ASSUME TypeInv, Progress, [Next]_vars
             PROVE  CallStep /\ BeforeStep
  OBVIOUS
<1>a. ASSUME UNCHANGED <<pc, outcome, wrote, lost, before>> PROVE CallStep /\ BeforeStep
  BY <1>a DEF CallStep, BeforeStep
<1>b. /\ pc = [d \in Call |-> pc[d]] /\ outcome = [d \in Call |-> outcome[d]]
      /\ before = [d \in Call |-> before[d]]
  BY DEF TypeInv, TypeOK
<1>1. ASSUME NEW c \in Call, Serve(c) \/ DbError(c) \/ Drop(c)
      PROVE  CallStep /\ BeforeStep
  <2>1. \A d \in Call \ {c} :
           /\ pc'[d] = pc[d] /\ outcome'[d] = outcome[d]
           /\ wrote'[d] = wrote[d] /\ lost'[d] = lost[d] /\ before'[d] = before[d]
    BY <1>1, OneCallMoves DEF TypeInv
  <2>2. \/ /\ pc'[c] = pc[c] /\ outcome'[c] = outcome[c]
           /\ wrote'[c] = wrote[c] /\ lost'[c] = lost[c] /\ before'[c] = before[c]
        \/ /\ ~Ended(c) /\ pc'[c] \notin {"reply", "done"} /\ outcome'[c] = outcome[c]
        \/ /\ ~Ended(c) /\ pc'[c] \in {"reply", "done"} /\ outcome'[c] \in {"ok", "internal"}
        \/ /\ pc[c] = "reply" /\ pc'[c] = "done" /\ outcome'[c] = outcome[c]
           /\ wrote'[c] = wrote[c] /\ lost'[c] = lost[c] /\ before'[c] = before[c]
    <3>1. CASE Reply(c)
      BY <1>b, <3>1 DEF Reply, locals
    <3>2. CASE Drop(c)
      BY <3>2 DEF Drop, locals
    <3>3. CASE Get(c) \/ All(c) \/ CreateInsert(c) \/ Update(c) \/ Delete(c) \/ DbError(c)
      <4>1. ~Ended(c)
        BY <3>3
           DEF Get, All, Update, Delete, GetLookup, GetSelect, GetFill, AllLookup,
               AllSelect, AllFill, CreateInsert, UpdateWrite, UpdateReread, UpdateStore,
               DeleteWrite, DeleteEvict, DbError, At, Ended
      <4>2. \/ \E label \in {"select", "fill", "reread", "store", "evict"} : Goto(c, label)
            \/ \E status \in {"ok", "internal"} : Finish(c, status)
            \/ Return(c)
        BY <3>3
           DEF Get, All, Update, Delete, GetLookup, GetSelect, GetFill, AllLookup,
               AllSelect, AllFill, CreateInsert, UpdateWrite, UpdateReread, UpdateStore,
               DeleteWrite, DeleteEvict, DbError
      <4>3. QED
        BY <1>b, <4>1, <4>2 DEF Goto, Finish, Return
    <3>4. QED
      BY <1>1, <3>1, <3>2, <3>3 DEF Serve
  <2>3. before'[c] = before[c] \/ before'[c] = {d \in Call : pc[d] = "done"}
    <3>1. UNCHANGED before \/ Began(c)
      BY <1>1
         DEF Serve, Get, All, Update, Delete, GetLookup, GetSelect, GetFill, AllLookup,
             AllSelect, AllFill, CreateInsert, UpdateWrite, UpdateReread, UpdateStore,
             DeleteWrite, DeleteEvict, Reply, DbError, Drop, locals
    <3>2. QED
      BY <1>b, <3>1 DEF Began
  <2>4. CallStep
    BY <2>1, <2>2 DEF CallStep
  <2>5. BeforeStep
    BY <2>1, <2>3 DEF BeforeStep
  <2>6. QED
    BY <2>4, <2>5
<1>2. QED
  BY <1>1, <1>a DEF Next, PostGone, Expire, ExpireAll, vars, locals

\* A call that is not begun has done nothing.
LEMMA StartStays ==
    ASSUME TypeInv, [Next]_vars, NEW c \in Call, pc'[c] = "start"
    PROVE  pc[c] = "start" /\ wrote'[c] = wrote[c]
<1>1. CASE UNCHANGED <<pc, wrote>>
  BY <1>1
<1>2. ASSUME NEW d \in Call, Serve(d) \/ DbError(d) \/ Drop(d)
      PROVE  pc[c] = "start" /\ wrote'[c] = wrote[c]
  <2>1. CASE d # c
    BY <1>2, <2>1, OneCallMoves DEF TypeInv
  <2>2. CASE d = c
    <3>1. \/ \E label \in {"select", "fill", "reread", "store", "evict"} : Goto(c, label)
          \/ \E status \in {"ok", "internal"} : Finish(c, status)
          \/ Return(c)
          \/ pc' = [pc EXCEPT ![c] = "done"]
          \/ UNCHANGED <<pc, wrote>>
      BY <1>2, <2>2
         DEF Serve, Get, All, Update, Delete, GetLookup, GetSelect, GetFill, AllLookup,
             AllSelect, AllFill, CreateInsert, UpdateWrite, UpdateReread, UpdateStore,
             DeleteWrite, DeleteEvict, Reply, DbError, Drop, locals
    <3>2. QED
      BY <3>1 DEF Goto, Finish, Return, TypeInv, TypeOK
  <2>3. QED
    BY <2>1, <2>2
<1>3. QED
  BY <1>1, <1>2 DEF Next, PostGone, Expire, ExpireAll, vars, locals

LEMMA WroteSteps == TypeInv /\ [Next]_vars => WroteStep
<1> SUFFICES ASSUME TypeInv, [Next]_vars
             PROVE  WroteStep
  OBVIOUS
<1>a. ASSUME UNCHANGED wrote PROVE WroteStep
  BY <1>a DEF WroteStep
<1>b. \A c \in Call : job[c] \in Job
  BY DEF TypeInv, TypeOK
<1>1. ASSUME NEW c \in Call, NEW i \in Id, NEW v \in Value, Commit(c, i, v),
             Writes(c) => i = job[c].id, UNCHANGED job
      PROVE  WroteStep
  <2>1. \A d \in Call \ {c} : wrote'[d] = wrote[d]
    BY <1>1 DEF Commit, TypeInv, TypeOK
  <2>2. wrote'[c] = Version(i) + 1
    BY <1>1 DEF Commit, TypeInv, TypeOK
  <2>3. Version(i)' = Version(i) + 1 /\ Version(i) \in Nat
    BY <1>1, CommitLog, RowType DEF TypeInv
  <2>4. Writes(c) => wrote'[c] <= Version(job[c].id)'
    BY <1>1, <2>2, <2>3 DEF Version
  <2>5. QED
    BY <2>1, <2>4 DEF WroteStep
<1>2. ASSUME NEW c \in Call, CreateInsert(c) PROVE WroteStep
  <2>1. [post |-> job[c].post, text |-> job[c].text] \in Value
    BY <1>2, <1>b, JobType DEF CreateInsert, At, Comment, Value
  <2>2. QED
    BY <1>2, <1>1, <1>a, <2>1 DEF CreateInsert, At, Writes
<1>3. ASSUME NEW c \in Call, UpdateWrite(c) PROVE WroteStep
  <2> DEFINE v == [Row(job[c].id) EXCEPT !.text = job[c].text]
  <2>1. job[c].id \in Id /\ job[c].text \in Text
    BY <1>3, <1>b, JobType DEF UpdateWrite, At
  <2>2. Affects(job[c].id) => v \in Value
    BY <2>1, RowType DEF TypeInv, Affects, Comment, Value
  <2>3. Affects(job[c].id) => Commit(c, job[c].id, v)
    BY <1>3 DEF UpdateWrite
  <2>4. ~Affects(job[c].id) => UNCHANGED wrote
    BY <1>3 DEF UpdateWrite
  <2>5. UNCHANGED job
    BY <1>3 DEF UpdateWrite
  <2> HIDE DEF v
  <2>6. QED
    BY <1>1, <1>a, <2>1, <2>2, <2>3, <2>4, <2>5
<1>4. ASSUME NEW c \in Call, DeleteWrite(c) PROVE WroteStep
  <2>1. job[c].id \in Id /\ Absent \in Value
    BY <1>4, <1>b, JobType DEF DeleteWrite, At, Value
  <2>2. QED
    BY <1>4, <1>1, <1>a, <2>1 DEF DeleteWrite
<1>5. QED
  BY <1>2, <1>3, <1>4, <1>a
     DEF Next, Serve, Get, All, Update, Delete, GetLookup, GetSelect, GetFill,
         AllLookup, AllSelect, AllFill, UpdateReread, UpdateStore, DeleteEvict,
         Reply, DbError, Drop, PostGone, Expire, ExpireAll, vars, locals

LEMMA AckSteps == TypeInv /\ [Next]_vars => AckStep
<1> SUFFICES ASSUME TypeInv, [Next]_vars, NEW c \in Call, Acked(c)', outcome[c] # "ok"
             PROVE  ~Readable(job[c].id)'
  BY DEF AckStep, Acked
<1>a. UNCHANGED job
  BY JobStays
<1>b. Writes(c) /\ outcome'[c] = "ok" /\ ~lost'[c]
  BY <1>a DEF Acked, Writes
<1>c. job[c].id \in Id
  BY <1>b, JobType DEF Writes, TypeInv, TypeOK
<1>1. UpdateStore(c) \/ DeleteEvict(c)
  <2>1. Serve(c) \/ DbError(c) \/ Drop(c)
    BY <1>b, OneCallMoves DEF Next, PostGone, Expire, ExpireAll, vars, TypeInv
  <2>2. \/ UpdateStore(c) \/ DeleteEvict(c)
        \/ UNCHANGED outcome \/ Finish(c, "internal")
    BY <1>b, <2>1
       DEF Serve, Get, All, Update, Delete, GetLookup, GetSelect, GetFill, AllLookup,
           AllSelect, AllFill, CreateInsert, UpdateWrite, UpdateReread, DeleteWrite,
           Reply, DbError, Drop, At, Goto, Writes
  <2>3. QED
    BY <1>b, <2>2 DEF Finish, TypeInv, TypeOK
<1>2. CASE UpdateStore(c)
  <2>1. Set(c, job[c].id, FALSE)
    BY <1>2 DEF UpdateStore
  <2>2. lost' # [lost EXCEPT ![c] = TRUE]
    BY <1>b DEF TypeInv, TypeOK
  <2>3. cache'[job[c].id].whole = FALSE
    BY <1>c, <2>1, <2>2 DEF Set, TypeInv, TypeOK
  <2>4. QED
    BY <1>a, <2>3 DEF Readable
<1>3. CASE DeleteEvict(c)
  <2>1. Del(c, job[c].id)
    BY <1>3 DEF DeleteEvict
  <2>2. lost' # [lost EXCEPT ![c] = TRUE]
    BY <1>b DEF TypeInv, TypeOK
  <2>3. cache'[job[c].id] = NoEntry
    BY <1>c, <2>1, <2>2 DEF Del, TypeInv, TypeOK
  <2>4. QED
    BY <1>a, <2>3 DEF Readable
<1>4. QED
  BY <1>1, <1>2, <1>3

LEMMA GetSteps == TypeInv /\ Progress /\ [Next]_vars => GetStep
<1> SUFFICES ASSUME TypeInv, Progress, [Next]_vars, NEW c \in Call, job[c].op = "get"
             PROVE  \/ /\ row'[c] = row[c] /\ before'[c] = before[c]
                       /\ outcome'[c] = "ok" \/ pc'[c] = "fill"
                             => outcome[c] = "ok" \/ pc[c] = "fill"
                    \/ before'[c] = before[c] /\ row'[c].at = Version(job[c].id)
                    \/ Readable(job[c].id) /\ row'[c].at = cache[job[c].id].at
                    \/ outcome'[c] # "ok" /\ pc'[c] # "fill"
  BY DEF GetStep
<1>a. /\ pc = [d \in Call |-> pc[d]] /\ outcome = [d \in Call |-> outcome[d]]
      /\ row = [d \in Call |-> row[d]]
  BY DEF TypeInv, TypeOK
<1>1. CASE UNCHANGED <<row, before, outcome, pc>>
  BY <1>1
<1>2. ASSUME NEW d \in Call, d # c, Serve(d) \/ DbError(d) \/ Drop(d)
      PROVE  /\ row'[c] = row[c] /\ before'[c] = before[c]
             /\ outcome'[c] = outcome[c] /\ pc'[c] = pc[c]
  BY <1>2, OneCallMoves DEF TypeInv
<1>3. CASE GetLookup(c)
  <2>1. outcome[c] = "none"
    BY <1>3 DEF GetLookup, At, Progress, Ended
  <2>2. CASE Readable(job[c].id) /\ row'[c].at = cache[job[c].id].at
    BY <2>2
  <2>3. CASE Goto(c, "select")
    BY <1>a, <2>1, <2>3 DEF Goto
  <2>4. QED
    BY <1>3, <1>a, <2>2, <2>3 DEF GetLookup
<1>4. CASE GetSelect(c)
  BY <1>4, <1>a DEF GetSelect, Hold
<1>5. CASE GetFill(c)
  BY <1>5 DEF GetFill, At
<1>6. CASE Reply(c)
  BY <1>6, <1>a DEF Reply, locals
<1>7. CASE DbError(c)
  BY <1>7, <1>a DEF DbError, Finish, locals
<1>8. CASE Drop(c)
  BY <1>8 DEF Drop, locals
<1>9. ~(All(c) \/ CreateInsert(c) \/ Update(c) \/ Delete(c))
  BY DEF All, AllLookup, AllSelect, AllFill, CreateInsert, Update, UpdateWrite,
         UpdateReread, UpdateStore, Delete, DeleteWrite, DeleteEvict, At
<1>10. QED
  BY <1>1, <1>2, <1>3, <1>4, <1>5, <1>6, <1>7, <1>8, <1>9
     DEF Next, Serve, Get, PostGone, Expire, ExpireAll, vars, locals

\* A write is in the history of its row.
WroteBound == \A d \in Call : Writes(d) => wrote[d] <= Version(job[d].id)

\* Nothing is of a version later than the one there was when it was read.
NotAhead ==
    /\ \A i \in Id : cache[i] # NoEntry => cache[i].ver <= cache[i].at
    /\ \A c \in Call : row[c].ver <= row[c].at

\* Once a write is acknowledged, what can be read was cached after it.
CacheAfter ==
    \A d \in Call : Acked(d) /\ Readable(job[d].id) => cache[job[d].id].at >= wrote[d]

\* So is what a get answers that began after the acknowledgement.
GetsAfter ==
    \A c \in Call : \A d \in before[c] :
        /\ pc[d] = "done"
        /\ /\ job[c].op = "get" /\ Acked(d) /\ job[d].id = job[c].id
           /\ outcome[c] = "ok" \/ pc[c] = "fill"
           => row[c].at >= wrote[d]

AckInv == Progress /\ WroteBound /\ NotAhead /\ CacheAfter /\ GetsAfter

LEMMA InitAck == Init => TypeInv /\ AckInv
<1> SUFFICES ASSUME Init PROVE AckInv
  BY InitType
<1>1. TypeInv
  BY InitType
<1>2. \A d \in Call : Writes(d) => job[d].id \in Id
  BY <1>1, JobType DEF Writes, TypeInv, TypeOK
<1>3. WroteBound
  BY <1>1, <1>2, RowType DEF WroteBound, Init, TypeInv
<1>4. Progress
  BY DEF Init, Progress, Ended
<1>5. NotAhead
  BY DEF Init, NotAhead, NoRow
<1>6. CacheAfter /\ GetsAfter
  BY DEF Init, CacheAfter, GetsAfter, Acked
<1>7. QED
  BY <1>3, <1>4, <1>5, <1>6 DEF AckInv

LEMMA NextAck ==
    TypeInv /\ TypeInv' /\ StoredInv /\ AckInv /\ [Next]_vars => AckInv'
<1> SUFFICES ASSUME TypeInv, TypeInv', StoredInv, AckInv, [Next]_vars
             PROVE  AckInv'
  OBVIOUS
<1>a. job' = job /\ Grows
  BY JobStays, HistoryGrows
<1>b. Progress /\ WroteBound /\ NotAhead /\ CacheAfter /\ GetsAfter
  BY DEF AckInv
<1>c. CallStep /\ BeforeStep /\ WroteStep /\ AckStep /\ GetStep
  BY <1>b, CallSteps, WroteSteps, AckSteps, GetSteps
<1>d. CacheStep /\ RowStep
  BY CacheSteps, RowSteps
<1>e. \A d \in Call : /\ wrote[d] \in Nat /\ wrote'[d] \in Nat
                      /\ Writes(d) => job[d].id \in Id
                      /\ Writes(d)' = Writes(d)
  BY <1>a, JobType DEF Writes, TypeInv, TypeOK
<1>f. \A i \in Id : Version(i) \in Nat /\ Version(i)' \in Nat /\ Version(i) <= Version(i)'
  BY <1>a, RowType, RowTypeNext DEF TypeInv, Grows
<1>g. \A c \in Call : row[c].ver \in Nat /\ row[c].at \in Nat
  BY DEF TypeInv, TypeOK
<1>h. \A i \in Id : cache[i] # NoEntry => cache[i].ver \in Nat /\ cache[i].at \in Nat
  BY DEF TypeInv, TypeOK, Entry
<1>1. Progress'
  <2>1. \A c \in Call : Ended(c)' <=> outcome'[c] # "none"
    BY <1>b, <1>c DEF CallStep, Progress, Ended
  <2>2. \A c \in Call : pc'[c] = "start" => pc[c] = "start" /\ wrote'[c] = wrote[c]
    BY <1>c, StartStays
  <2>3. QED
    BY <1>b, <2>1, <2>2 DEF Progress
\* What was acknowledged stays so, and was acknowledged before if it ended before.
<1>2. ASSUME NEW d \in Call, Ended(d)
      PROVE  /\ Acked(d)' <=> Acked(d)
             /\ wrote'[d] = wrote[d]
             /\ pc[d] = "done" => pc'[d] = "done"
  BY <1>2, <1>c, <1>e DEF CallStep, Ended, Acked
<1>3. WroteBound'
  <2> SUFFICES ASSUME NEW d \in Call, Writes(d)
               PROVE  wrote'[d] <= Version(job[d].id)'
    BY <1>a, <1>e DEF WroteBound
  <2>1. job[d].id \in Id
    BY <1>e
  <2>2. CASE wrote'[d] = wrote[d]
    <3>1. wrote[d] <= Version(job[d].id)
      BY <1>b DEF WroteBound
    <3>2. wrote[d] <= Version(job[d].id)'
      BY <1>a, <1>e, <1>f, <2>1, <3>1
    <3>3. QED
      BY <2>2, <3>2
  <2>3. QED
    BY <1>c, <2>2 DEF WroteStep
<1>4. NotAhead'
  <2>1. ASSUME NEW i \in Id, cache'[i] # NoEntry PROVE cache'[i].ver <= cache'[i].at
    <3>1. CASE cache'[i] = cache[i]
      BY <1>b, <2>1, <3>1 DEF NotAhead
    <3>2. ASSUME NEW c \in Call, job[c].id = i, cache'[i].ver = row[c].ver,
                 cache'[i].at = Version(i)
          PROVE  cache'[i].ver <= cache'[i].at
      <4>1. CASE row[c] = NoRow
        BY <1>f, <3>2, <4>1 DEF NoRow
      <4>2. CASE row[c] # NoRow
        BY <1>f, <3>2, <4>2 DEF StoredInv, RowStored, WasStored
      <4>3. QED
        BY <4>1, <4>2
    <3>3. QED
      BY <1>d, <2>1, <3>1, <3>2 DEF CacheStep
  <2>2. ASSUME NEW c \in Call PROVE row'[c].ver <= row'[c].at
    BY <1>b, <1>d, <1>f DEF RowStep, NotAhead, Readable
  <2>3. QED
    BY <2>1, <2>2 DEF NotAhead
<1>5. CacheAfter'
  <2> SUFFICES ASSUME NEW d \in Call, Acked(d)', Readable(job[d].id)'
               PROVE  cache'[job[d].id].at >= wrote'[d]
    BY <1>a DEF CacheAfter
  <2> DEFINE i == job[d].id
  <2>1. outcome[d] = "ok"
    BY <1>a, <1>c DEF AckStep
  <2>2. Ended(d)
    BY <1>b, <2>1 DEF Progress
  <2>3. Acked(d) /\ wrote'[d] = wrote[d]
    BY <1>2, <2>2
  <2>4. i \in Id /\ wrote[d] <= Version(i) /\ cache'[i] # NoEntry
    BY <1>a, <1>b, <1>e, <2>3 DEF Acked, WroteBound, Readable
  <2>5. CASE cache'[i] = cache[i]
    <3>1. Readable(i)
      BY <1>a, <2>5 DEF Readable
    <3>2. QED
      BY <1>b, <2>3, <2>5, <3>1 DEF CacheAfter
  <2>6. CASE cache'[i].at = Version(i)
    BY <1>e, <1>f, <2>3, <2>4, <2>6
  <2>7. QED
    BY <1>d, <2>4, <2>5, <2>6 DEF CacheStep
<1>6. GetsAfter'
  <2> SUFFICES ASSUME NEW c \in Call, NEW d \in before'[c]
               PROVE  /\ pc'[d] = "done"
                      /\ /\ job[c].op = "get" /\ Acked(d)' /\ job[d].id = job[c].id
                         /\ outcome'[c] = "ok" \/ pc'[c] = "fill"
                         => row'[c].at >= wrote'[d]
    BY <1>a DEF GetsAfter
  <2>1. d \in Call
    BY DEF TypeInv, TypeOK
  <2>2. pc[d] = "done"
    BY <1>b, <1>c DEF BeforeStep, GetsAfter
  <2>3. /\ Acked(d)' <=> Acked(d)
        /\ wrote'[d] = wrote[d]
        /\ pc'[d] = "done"
    BY <1>2, <2>1, <2>2 DEF Ended
  <2>4. ASSUME job[c].op = "get", Acked(d), job[d].id = job[c].id,
               outcome'[c] = "ok" \/ pc'[c] = "fill"
        PROVE  row'[c].at >= wrote[d]
    <3>1. job[c].id \in Id /\ wrote[d] <= Version(job[c].id)
      BY <1>b, <1>e, <2>1, <2>4 DEF Acked, WroteBound
    <3>2. CASE /\ row'[c] = row[c] /\ before'[c] = before[c]
               /\ outcome'[c] = "ok" \/ pc'[c] = "fill" => outcome[c] = "ok" \/ pc[c] = "fill"
      BY <1>b, <2>4, <3>2 DEF GetsAfter
    <3>3. CASE row'[c].at = Version(job[c].id)
      BY <1>e, <1>f, <2>1, <3>1, <3>3
    <3>4. CASE Readable(job[c].id) /\ row'[c].at = cache[job[c].id].at
      BY <1>b, <2>1, <2>4, <3>4 DEF CacheAfter
    <3>5. QED
      BY <1>c, <2>4, <3>2, <3>3, <3>4 DEF GetStep
  <2>5. QED
    BY <2>3, <2>4
<1>7. QED
  BY <1>1, <1>3, <1>4, <1>5, <1>6 DEF AckInv

\* Who asks for a comment after a write of it was acknowledged gets that write
\* or a later one, but for the two excuses the property names.
THEOREM AckedWrites == Spec => []AckedWritesAreRead
<1>1. TypeInv /\ AckInv => AckedWritesAreRead
  <2> SUFFICES ASSUME TypeInv, AckInv, NEW c \in Call, NEW d \in Call,
                      job[c].op = "get", outcome[c] = "ok", d \in before[c],
                      Acked(d), job[d].id = job[c].id
               PROVE  row[c].ver >= wrote[d] \/ row[c].ver < row[c].at
    BY DEF AckedWritesAreRead, Acked, Writes
  <2>1. row[c].at >= wrote[d] /\ row[c].ver <= row[c].at
    BY DEF AckInv, GetsAfter, NotAhead
  <2>2. row[c].ver \in Nat /\ row[c].at \in Nat /\ wrote[d] \in Nat
    BY DEF TypeInv, TypeOK
  <2>3. QED
    BY <2>1, <2>2
<1>2. Spec => [](TypeInv /\ StoredInv /\ AckInv)
  BY InitType, NextType, InitStored, NextStored, InitAck, NextAck, PTL DEF Spec
<1>3. QED
  BY <1>1, <1>2, PTL

\* An update that comes late, behind a delete or another update, leaves nothing
\* in the cache that a get could read.
THEOREM NoRevival == Spec => UpdatesReviveNothing
<1>1. ASSUME TypeInv, [Next]_vars, NEW c \in Call,
             job[c].op = "update", pc[c] = "store", pc'[c] = "done"
      PROVE  LET i == job[c].id
             IN  ~(cache'[i] # cache[i] /\ Readable(i)' /\ cache'[i].ver < Version(i))
  <2> DEFINE i == job[c].id
  <2>1. Serve(c) \/ DbError(c) \/ Drop(c)
    BY <1>1, OneCallMoves DEF Next, PostGone, Expire, ExpireAll, vars, TypeInv
  <2>2. UpdateStore(c)
    BY <1>1, <2>1
       DEF Serve, Get, All, Update, Delete, GetLookup, GetSelect, GetFill, AllLookup,
           AllSelect, AllFill, CreateInsert, UpdateWrite, UpdateReread, DeleteWrite,
           DeleteEvict, Reply, DbError, Drop, At
  <2>3. i \in Id /\ UNCHANGED job
    BY <1>1, <2>2, JobType DEF UpdateStore, TypeInv, TypeOK
  <2>4. cache'[i] = cache[i] \/ cache'[i].whole = FALSE
    <3>1. Set(c, i, FALSE)
      BY <2>2 DEF UpdateStore
    <3>2. cache = [j \in Id |-> cache[j]]
      BY <1>1 DEF TypeInv, TypeOK
    <3>3. i \in Id
      BY <2>3
    <3> HIDE DEF i
    <3>4. QED
      BY <3>1, <3>2, <3>3 DEF Set
  <2>5. QED
    BY <2>3, <2>4 DEF Readable
<1>2. TypeInv /\ [Next]_vars =>
        [\A c \in Call : job[c].op = "update" /\ pc[c] = "store" /\ pc'[c] = "done" =>
           LET i == job[c].id
           IN  ~(cache'[i] # cache[i] /\ Readable(i)' /\ cache'[i].ver < Version(i))]_vars
  BY <1>1
<1>3. QED
  BY <1>2, InitType, NextType, PTL DEF Spec, UpdatesReviveNothing

=============================================================================
