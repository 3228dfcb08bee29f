------------------------- MODULE PostServiceProofs -------------------------
(* Proofs about PostService, for any calls, ids, categories, users, images,  *)
(* searches and faults, and on a table with the column "img" or without it.  *)
EXTENDS PostService, FiniteSetTheorems, TLAPS

----------------------------------------------------------------------------
(* Type correctness *)

Value == Post \cup {Absent}
Held == [val : Value, ver : Nat]
CachedPage == [page : Page, ttl : BOOLEAN]

\* What get is about to cache is a post.
HoldsPost ==
    \A c \in Call : job[c].op = "get" /\ pc[c] = "fill" => row[c].val \in Post

TypeInv == TypeOK /\ HoldsPost

LEMMA JobType ==
    ASSUME NEW j \in Job
    PROVE  /\ j.op \in {"get", "relation", "delete", "list", "create", "update"}
           /\ j.op \in {"get", "relation", "delete", "update"} => j.id \in Id
           /\ j.op \in {"create", "update"} => j.post \in Post
           /\ j.op = "list" => Normal(j.query) \in Keys
<1>1. j \in AnyJob
  BY PostAssumption
<1>2. /\ j.op \in {"get", "relation", "delete", "list", "create", "update"}
      /\ j.op \in {"get", "relation", "delete", "update"} => j.id \in Id
      /\ j.op \in {"create", "update"} => j.post \in Post
  BY <1>1 DEF AnyJob
<1>3. j.op = "list" => Normal(j.query) \in Keys
  BY DEF Keys
<1>4. QED
  BY <1>2, <1>3

\* The last value of a row is a value of the table.
LEMMA RowType ==
    ASSUME TypeOK, NEW i \in Id
    PROVE  /\ log[i] \in Seq(Value)
           /\ Row(i) \in Value
           /\ Version(i) \in Nat
           /\ i \in Present => Row(i) \in Post
  BY DEF TypeOK, Row, Version, Value, Present

\* The number of rows a search finds is a number: there are finitely many ids.
LEMMA CountType ==
    ASSUME NEW q
    PROVE  Cardinality(Matching(q)) \in Nat
<1>1. Matching(q) \subseteq Id
  BY DEF Matching, Present
<1>2. IsFiniteSet(Matching(q))
  BY <1>1, PostAssumption, FS_Subset
<1>3. QED
  BY <1>2, FS_CardinalityType

LEMMA InitType == Init => TypeInv
<1> SUFFICES ASSUME Init PROVE TypeInv
  OBVIOUS
<1>1. log \in [Id -> Seq(Value)]
  <2>1. \A v \in Post : <<v>> \in Seq(Value)
    BY DEF Value
  <2>2. <<>> \in Seq(Value)
    OBVIOUS
  <2>3. {<<>>} \cup {<<p>> : p \in Post} \subseteq Seq(Value)
    BY <2>1, <2>2
  <2>4. QED
    BY <2>3 DEF Init
<1>2. NoPage \in Page /\ NoRow \in Held
  BY DEF NoPage, Page, NoRow, Held, Value
<1>3. QED
  BY <1>1, <1>2 DEF Init, TypeInv, TypeOK, HoldsPost, Labels, Value, Held

\* A write appends a value of the right type to the history of its row.
LEMMA CommitType ==
    ASSUME TypeOK, NEW c \in Call, NEW i \in Id, NEW v \in Value, Commit(c, i, v)
    PROVE  /\ log' \in [Id -> Seq(Value)]
           /\ wrote' \in [Call -> Nat]
<1>1. log[i] \in Seq(Value) /\ Version(i) \in Nat
  BY RowType
<1>2. Append(log[i], v) \in Seq(Value)
  BY <1>1
<1>3. QED
  BY <1>1, <1>2 DEF Commit, TypeOK, Value

\* Caching a post that a call holds leaves well-typed entries.
LEMMA SetType ==
    ASSUME TypeOK, NEW c \in Call, NEW i \in Id, row[c].val \in Post, Set(c, i)
    PROVE  cache' \in [Id -> Entry \cup {NoEntry}]
<1> DEFINE entry(ttl) == [val |-> row[c].val, ver |-> row[c].ver, at |-> Version(i),
                          ttl |-> ttl]
<1>1. row[c].ver \in Nat /\ Version(i) \in Nat
  BY RowType DEF TypeOK
<1>2. entry(TRUE) \in Entry /\ entry(FALSE) \in Entry
  BY <1>1 DEF Entry
<1>3. \/ cache' = [cache EXCEPT ![i] = entry(TRUE)]
      \/ cache' = [cache EXCEPT ![i] = entry(FALSE)]
      \/ cache' = cache
  BY DEF Set
<1> HIDE DEF entry
<1>4. QED
  BY <1>2, <1>3 DEF TypeOK

LEMMA RefGoneType ==
    ASSUME TypeOK, NEW r \in Ref, RefGone(r)
    PROVE  log' \in [Id -> Seq(Value)]
<1>1. \A i \in Id : log[i] \in Seq(Value) /\ Append(log[i], Absent) \in Seq(Value)
  BY RowType DEF Value
<1>2. QED
  BY <1>1 DEF RefGone

\* The two ways a step of call c moves its program counter.
LEMMA MoveType ==
    ASSUME TypeOK, NEW c \in Call, NEW label \in Labels,
           NEW status \in {"ok", "internal"}, Goto(c, label) \/ Finish(c, status)
    PROVE  /\ pc' \in [Call -> Labels]
           /\ outcome' \in [Call -> {"none", "ok", "internal"}]
           /\ \A d \in Call \ {c} : pc'[d] = pc[d]
           /\ pc'[c] \in {label, "reply"}
<1>1. "reply" \in Labels
  BY DEF Labels
<1>2. CASE Goto(c, label)
  BY <1>2 DEF Goto, TypeOK
<1>3. CASE Finish(c, status)
  BY <1>1, <1>3 DEF Finish, TypeOK
<1>4. QED
  BY <1>2, <1>3

LEMMA NextType == TypeInv /\ [Next]_vars => TypeInv'
<1> SUFFICES ASSUME TypeInv, [Next]_vars
             PROVE  TypeInv'
  OBVIOUS
<1> USE DEF TypeInv
<1>a. \A c \in Call : job[c] \in Job
  BY DEF TypeOK
<1>b. {"select", "fill", "page", "count", "evict", "reply", "done"} \subseteq Labels
  BY DEF Labels
<1>1. ASSUME NEW c \in Call, GetLookup(c) PROVE TypeInv'
  <2>1. job[c].id \in Id
    BY <1>1, <1>a, JobType DEF GetLookup, At
  <2> DEFINE e == cache[job[c].id]
             r == [val |-> e.val, ver |-> e.ver]
  <2>2. e # NoEntry => r \in Held
    BY <2>1 DEF TypeOK, Entry, Held, Value
  <2>3. UNCHANGED row \/ (e # NoEntry /\ row' = [row EXCEPT ![c] = r])
    BY <1>1 DEF GetLookup
  <2>4. Goto(c, "select") \/ Finish(c, "ok")
    BY <1>1 DEF GetLookup
  <2> HIDE DEF e, r
  <2>5. row' \in [Call -> Held] /\ \A d \in Call \ {c} : row'[d] = row[d]
    BY <2>2, <2>3 DEF TypeOK, Held, Value
  <2>6. TypeOK'
    BY <1>1, <1>b, <2>4, <2>5, MoveType DEF GetLookup, tables, TypeOK, Held, Value
  <2>7. HoldsPost'
    BY <1>1, <1>b, <2>4, <2>5, MoveType DEF GetLookup, HoldsPost
  <2>8. QED
    BY <2>6, <2>7
<1>2. ASSUME NEW c \in Call, GetSelect(c) PROVE TypeInv'
  <2>1. job[c].id \in Id
    BY <1>2, <1>a, JobType DEF GetSelect, At
  <2> DEFINE i == job[c].id
             r == [val |-> Row(i), ver |-> Version(i)]
  <2>2. i \in Present => r \in Held /\ r.val \in Post
    BY <2>1, RowType DEF Held, Value
  <2>3. Goto(c, "fill") \/ Finish(c, "internal")
    BY <1>2 DEF GetSelect
  <2>4. \/ i \in Present /\ row' = [row EXCEPT ![c] = r]
        \/ UNCHANGED row /\ Finish(c, "internal")
    BY <1>2 DEF GetSelect
  <2> HIDE DEF i, r
  <2>5. row' \in [Call -> Held] /\ \A d \in Call \ {c} : row'[d] = row[d]
    BY <2>2, <2>4 DEF TypeOK, Held, Value
  <2>6. TypeOK'
    BY <1>2, <1>b, <2>3, <2>5, MoveType DEF GetSelect, tables, TypeOK, Held, Value
  <2>7. row'[c].val \in Post \/ pc'[c] = "reply"
    BY <2>2, <2>4 DEF Finish, TypeOK
  <2>8. HoldsPost'
    BY <1>2, <1>b, <2>3, <2>5, <2>7, MoveType DEF GetSelect, HoldsPost
  <2>9. QED
    BY <2>6, <2>8
<1>3. ASSUME NEW c \in Call, GetFill(c) PROVE TypeInv'
  <2>1. job[c].id \in Id /\ row[c].val \in Post
    BY <1>3, <1>a, JobType DEF GetFill, At, HoldsPost
  <2>2. cache' \in [Id -> Entry \cup {NoEntry}]
    BY <1>3, <2>1, SetType DEF GetFill
  <2>3. QED
    BY <1>3, <2>2 DEF GetFill, Finish, tables, locals, TypeOK, HoldsPost, Labels
<1>4. ASSUME NEW c \in Call, ListLookup(c) PROVE TypeInv'
  <2>1. Normal(job[c].query) \in Keys
    BY <1>4, <1>a, JobType DEF ListLookup, At
  <2>2. page' \in [Call -> Page]
    <3>1. lists[Normal(job[c].query)] # NoEntry
            => lists[Normal(job[c].query)].page \in Page
      BY <2>1 DEF TypeOK
    <3>2. QED
      BY <1>4, <3>1 DEF ListLookup, TypeOK
  <2>3. \/ Goto(c, "page") \/ Finish(c, "ok") \/ UNCHANGED <<pc, outcome>>
    BY <1>4 DEF ListLookup
  <2>4. /\ pc' \in [Call -> Labels]
        /\ outcome' \in [Call -> {"none", "ok", "internal"}]
        /\ \A d \in Call : pc'[d] = "fill" => pc[d] = "fill"
    BY <1>b, <2>3 DEF Goto, Finish, TypeOK
  <2>5. live' \in [Call -> BOOLEAN]
    BY <1>4 DEF ListLookup, TypeOK
  <2>6. QED
    BY <1>4, <2>2, <2>4, <2>5 DEF ListLookup, tables, TypeOK, HoldsPost
<1>5. ASSUME NEW c \in Call, ListPage(c) PROVE TypeInv'
  <2>1. page' \in [Call -> Page]
    <3>1. ASSUME NEW items \in Pages(Normal(job[c].query))
          PROVE  {<<i, Row(i)>> : i \in items} \in SUBSET (Id \X Post)
      <4>1. items \subseteq Present
        BY DEF Pages, Matching
      <4>2. \A i \in items : i \in Id /\ Row(i) \in Post
        BY <4>1, RowType DEF Present
      <4>3. QED
        BY <4>2
    <3>2. ASSUME NEW items \in SUBSET (Id \X Post)
          PROVE  [page EXCEPT ![c].items = items] \in [Call -> Page]
      BY DEF TypeOK, Page
    <3>3. QED
      BY <1>5, <3>1, <3>2 DEF ListPage, TypeOK
  <2>2. Goto(c, "count") \/ Finish(c, "internal")
    BY <1>5 DEF ListPage
  <2>3. job[c].op # "get"
    BY <1>5 DEF ListPage, At
  <2>4. QED
    BY <1>5, <1>b, <2>1, <2>2, <2>3, MoveType DEF ListPage, tables, TypeOK, HoldsPost
<1>6. ASSUME NEW c \in Call, ListCount(c) PROVE TypeInv'
  <2>1. page' \in [Call -> Page]
    <3>1. Cardinality(Matching(Normal(job[c].query))) \in Nat
      BY CountType
    <3>2. QED
      BY <1>6, <3>1 DEF ListCount, TypeOK, Page
  <2>2. QED
    BY <1>6, <2>1 DEF ListCount, At, Goto, tables, TypeOK, HoldsPost, Labels
<1>7. ASSUME NEW c \in Call, ListFill(c) PROVE TypeInv'
  <2>1. Normal(job[c].query) \in Keys
    BY <1>7, <1>a, JobType DEF ListFill, At
  <2>2. [page |-> page[c], ttl |-> TRUE] \in CachedPage
        /\ [page |-> page[c], ttl |-> FALSE] \in CachedPage
    BY DEF TypeOK, CachedPage
  <2>3. lists' \in [Keys -> CachedPage \cup {NoEntry}]
    BY <1>7, <2>1, <2>2 DEF ListFill, TypeOK, CachedPage
  <2>4. QED
    BY <1>7, <2>3
       DEF ListFill, Finish, tables, locals, TypeOK, HoldsPost, Labels, CachedPage
<1>8. ASSUME NEW c \in Call, CreateInsert(c) PROVE TypeInv'
  <2>1. job[c].post \in Value
    BY <1>8, <1>a, JobType DEF CreateInsert, At, Value
  <2>2. log' \in [Id -> Seq(Value)] /\ wrote' \in [Call -> Nat]
    BY <1>8, <2>1, CommitType DEF CreateInsert, TypeOK, Value
  <2>3. QED
    BY <1>8, <2>2 DEF CreateInsert, Finish, TypeOK, HoldsPost, Labels, Value
<1>9. ASSUME NEW c \in Call, UpdateWrite(c) PROVE TypeInv'
  <2>1. job[c].id \in Id /\ job[c].post \in Value
    BY <1>9, <1>a, JobType DEF UpdateWrite, At, Value
  <2>2. log' \in [Id -> Seq(Value)] /\ wrote' \in [Call -> Nat]
    BY <1>9, <2>1, CommitType DEF UpdateWrite, TypeOK, Value
  <2>3. QED
    BY <1>9, <2>2 DEF UpdateWrite, Finish, TypeOK, HoldsPost, Labels, Value
<1>10. ASSUME NEW c \in Call, DeleteWrite(c) PROVE TypeInv'
  <2>1. job[c].id \in Id /\ Absent \in Value
    BY <1>10, <1>a, JobType DEF DeleteWrite, At, Value
  <2>2. log' \in [Id -> Seq(Value)] /\ wrote' \in [Call -> Nat]
    BY <1>10, <2>1, CommitType DEF DeleteWrite, TypeOK, Value
  <2>3. QED
    BY <1>10, <2>2 DEF DeleteWrite, At, Goto, Finish, TypeOK, HoldsPost, Labels, Value
<1>11. ASSUME NEW c \in Call, DeleteEvict(c) PROVE TypeInv'
  <2>1. job[c].id \in Id
    BY <1>11, <1>a, JobType DEF DeleteEvict, At
  <2>2. cache' \in [Id -> Entry \cup {NoEntry}] /\ lost' \in [Call -> BOOLEAN]
    BY <1>11, <2>1 DEF DeleteEvict, Del, TypeOK
  <2>3. QED
    BY <1>11, <2>2 DEF DeleteEvict, Finish, tables, TypeOK, HoldsPost, Labels
<1>12. ASSUME NEW c \in Call, RelationSelect(c) \/ DbError(c) PROVE TypeInv'
  BY <1>12 DEF RelationSelect, DbError, Finish, tables, locals, TypeOK, HoldsPost, Labels
<1>13. ASSUME NEW c \in Call, Reply(c) PROVE TypeInv'
  BY <1>13 DEF Reply, tables, locals, TypeOK, HoldsPost, Labels
<1>14. ASSUME NEW c \in Call, Drop(c) PROVE TypeInv'
  BY <1>14 DEF Drop, tables, locals, TypeOK, HoldsPost
<1>15. ASSUME NEW r \in Ref, RefGone(r) PROVE TypeInv'
  <2>1. log' \in [Id -> Seq(Value)]
    BY <1>15, RefGoneType
  <2>2. QED
    BY <1>15, <2>1 DEF RefGone, locals, TypeOK, HoldsPost, Value
<1>16. ASSUME NEW i \in Id, Expire(i) PROVE TypeInv'
  BY <1>16 DEF Expire, tables, locals, TypeOK, HoldsPost
<1>17. ASSUME NEW k \in Keys, ExpireList(k) PROVE TypeInv'
  BY <1>17 DEF ExpireList, tables, locals, TypeOK, HoldsPost
<1>18. CASE UNCHANGED vars
  BY <1>18 DEF vars, tables, locals, TypeOK, HoldsPost
<1>19. QED
  BY <1>1, <1>2, <1>3, <1>4, <1>5, <1>6, <1>7, <1>8, <1>9, <1>10, <1>11, <1>12,
     <1>13, <1>14, <1>15, <1>16, <1>17, <1>18
     DEF Next, Outside, Serve, Get, List, Delete

\* The service's data have their types in every state, with the column or
\* without it.
THEOREM TypeCorrect == Spec => []TypeOK
<1>1. Spec => []TypeInv
  BY InitType, NextType, PTL DEF Spec
<1>2. QED
  BY <1>1, PTL DEF TypeInv

----------------------------------------------------------------------------
(* No post outlives what it refers to *)

LEMMA CommitLog ==
    ASSUME TypeInv, NEW c \in Call, NEW i \in Id, NEW v \in Value, Commit(c, i, v)
    PROVE  /\ Row(i)' = v
           /\ Version(i)' = Version(i) + 1
           /\ \A j \in Id \ {i} : Row(j)' = Row(j) /\ Version(j)' = Version(j)
<1>1. log[i] \in Seq(Value) /\ log \in [Id -> Seq(Value)]
  BY RowType DEF TypeInv, TypeOK, Value
<1>2. log'[i] = Append(log[i], v) /\ \A j \in Id \ {i} : log'[j] = log[j]
  BY <1>1 DEF Commit
<1>3. QED
  BY <1>1, <1>2 DEF Row, Version

\* A cascade ends the posts that refer to what went, and touches no other.
LEMMA RefGoneLog ==
    ASSUME TypeInv, NEW r \in Ref, RefGone(r), NEW i \in Id
    PROVE  /\ IF i \in Present /\ r \in Refers(Row(i))
              THEN Row(i)' = Absent
              ELSE Row(i)' = Row(i)
           /\ Version(i)' >= Version(i)
<1>1. log[i] \in Seq(Value)
  BY RowType DEF TypeInv
<1>2. CASE i \in Present /\ r \in Refers(Row(i))
  <2>1. log'[i] = Append(log[i], Absent)
    BY <1>2 DEF RefGone
  <2>2. QED
    BY <1>1, <1>2, <2>1 DEF Row, Version, Value
<1>3. CASE ~(i \in Present /\ r \in Refers(Row(i)))
  <2>1. log'[i] = log[i]
    BY <1>3 DEF RefGone
  <2>2. QED
    BY <1>1, <1>3, <2>1 DEF Row, Version
<1>4. QED
  BY <1>2, <1>3

LEMMA InitRefs == Init => NoPostWithoutRefs
<1> SUFFICES ASSUME Init, NEW i \in Id, Row(i) # Absent
             PROVE  MayRefer(Row(i))
  BY DEF NoPostWithoutRefs, Present
<1>1. log[i] \in {<<>>} \cup {<<p>> : p \in Post}
  BY DEF Init
<1>2. PICK p \in Post : log[i] = <<p>>
  BY <1>1 DEF Row
<1>3. Row(i) = p
  BY <1>2 DEF Row, Version
<1>4. QED
  BY <1>3 DEF Init, MayRefer, Refers, Post, Ref

LEMMA NextRefs ==
    TypeInv /\ NoPostWithoutRefs /\ [Next]_vars => NoPostWithoutRefs'
<1> SUFFICES ASSUME TypeInv, NoPostWithoutRefs, [Next]_vars
             PROVE  NoPostWithoutRefs'
  OBVIOUS
<1>a. \A c \in Call : job[c] \in Job
  BY DEF TypeInv, TypeOK
<1>b. \A i \in Id : Row(i) # Absent => Refers(Row(i)) \subseteq refs
  BY DEF NoPostWithoutRefs, Present, MayRefer
<1>c. SUFFICES \A i \in Id : Row(i)' # Absent => Refers(Row(i)') \subseteq refs'
  BY DEF NoPostWithoutRefs, Present, MayRefer, Refers
<1>d. ASSUME UNCHANGED <<log, refs>>, NEW i \in Id, Row(i)' # Absent
      PROVE  Refers(Row(i)') \subseteq refs'
  <2>1. Row(i)' = Row(i)
    BY <1>d DEF Row, Version
  <2>2. QED
    BY <1>b, <1>d, <2>1
<1>e. ASSUME NEW c \in Call, NEW j \in Id, NEW v \in Value, Commit(c, j, v),
             UNCHANGED refs, v # Absent => Refers(v) \subseteq refs,
             NEW i \in Id, Row(i)' # Absent
      PROVE  Refers(Row(i)') \subseteq refs'
  <2>1. CASE i = j
    <3>1. Row(i)' = v
      BY <1>e, <2>1, CommitLog
    <3>2. QED
      BY <1>e, <3>1
  <2>2. CASE i # j
    <3>1. Row(i)' = Row(i)
      BY <1>e, <2>2, CommitLog
    <3>2. QED
      BY <1>b, <1>e, <3>1
  <2>3. QED
    BY <2>1, <2>2
<1>1. ASSUME NEW c \in Call, CreateInsert(c), NEW i \in Id, Row(i)' # Absent
      PROVE  Refers(Row(i)') \subseteq refs'
  <2>1. job[c].post \in Value /\ refs' = refs
    BY <1>1, <1>a, JobType DEF CreateInsert, At, Value
  <2>2. CASE imgColumn /\ MayRefer(job[c].post)
    <3>1. PICK j \in Id : Commit(c, j, job[c].post)
      BY <1>1, <2>2 DEF CreateInsert
    <3>2. QED
      BY <1>e, <1>1, <2>1, <2>2, <3>1 DEF MayRefer
  <2>3. CASE ~(imgColumn /\ MayRefer(job[c].post))
    BY <1>1, <1>d, <2>1, <2>3 DEF CreateInsert
  <2>4. QED
    BY <2>2, <2>3
<1>2. ASSUME NEW c \in Call, UpdateWrite(c), NEW i \in Id, Row(i)' # Absent
      PROVE  Refers(Row(i)') \subseteq refs'
  <2>1. job[c].id \in Id /\ job[c].post \in Value /\ refs' = refs
    BY <1>2, <1>a, JobType DEF UpdateWrite, At, Value
  <2>2. CASE imgColumn /\ job[c].id \in Present /\ MayRefer(job[c].post)
    BY <1>2, <1>e, <2>1, <2>2 DEF UpdateWrite, MayRefer
  <2>3. CASE ~(imgColumn /\ job[c].id \in Present /\ MayRefer(job[c].post))
    BY <1>2, <1>d, <2>1, <2>3 DEF UpdateWrite
  <2>4. QED
    BY <2>2, <2>3
<1>3. ASSUME NEW c \in Call, DeleteWrite(c), NEW i \in Id, Row(i)' # Absent
      PROVE  Refers(Row(i)') \subseteq refs'
  <2>1. job[c].id \in Id /\ Absent \in Value /\ refs' = refs
    BY <1>3, <1>a, JobType DEF DeleteWrite, At, Value
  <2>2. CASE job[c].id \in Present
    BY <1>3, <1>e, <2>1, <2>2 DEF DeleteWrite
  <2>3. CASE job[c].id \notin Present
    BY <1>3, <1>d, <2>1, <2>3 DEF DeleteWrite
  <2>4. QED
    BY <2>2, <2>3
<1>4. ASSUME NEW r \in Ref, RefGone(r), NEW i \in Id, Row(i)' # Absent
      PROVE  Refers(Row(i)') \subseteq refs'
  <2>1. ~(i \in Present /\ r \in Refers(Row(i))) /\ Row(i)' = Row(i)
    BY <1>4, RefGoneLog
  <2>2. r \notin Refers(Row(i))
    BY <1>4, <2>1 DEF Present
  <2>3. QED
    BY <1>4, <1>b, <2>1, <2>2 DEF RefGone
<1>5. QED
  BY <1>1, <1>2, <1>3, <1>4, <1>d
     DEF Next, Outside, Serve, Get, List, Delete, GetLookup, GetSelect, GetFill,
         ListLookup, ListPage, ListCount, ListFill, RelationSelect, DeleteEvict,
         Reply, DbError, Drop, Expire, ExpireList, tables, vars

\* However creates, updates and deletions of categories and users interleave,
\* the foreign keys leave no post behind without its category or its user.
THEOREM NoOrphans == Spec => []NoPostWithoutRefs
<1>1. Spec => [](TypeInv /\ NoPostWithoutRefs)
  BY InitType, NextType, InitRefs, NextRefs, PTL DEF Spec
<1>2. QED
  BY <1>1, PTL

----------------------------------------------------------------------------
(* An acknowledged deletion reaches the cache *)

Deletes(c) == job[c].op = "delete"

\* A call does not claim a version its row never had, and one that goes on has
\* not answered.  Without the first an entry made after the deletion could still
\* be older than what the deletion wrote; without the second a call could be
\* acknowledged, and then write again.
WroteBound == \A c \in Call : Deletes(c) => wrote[c] <= Version(job[c].id)
Unsettled  == \A c \in Call : outcome[c] = "ok" => pc[c] \in {"reply", "done"}

DeleteInv == WroteBound /\ Unsettled /\ AckedDeleteReachesCache

LEMMA JobStays == [Next]_vars => UNCHANGED job
  BY DEF Next, Outside, Serve, Get, List, Delete, GetLookup, GetSelect, GetFill,
         ListLookup, ListPage, ListCount, ListFill, RelationSelect, CreateInsert,
         UpdateWrite, DeleteWrite, DeleteEvict, Reply, DbError, Drop, RefGone,
         Expire, ExpireList, vars

\* No step takes a version of a row back.
VersionsGrow == \A i \in Id : Version(i) <= Version(i)'

LEMMA LogGrows == TypeInv /\ [Next]_vars => VersionsGrow
<1> SUFFICES ASSUME TypeInv, [Next]_vars, NEW i \in Id
             PROVE  Version(i) <= Version(i)'
  BY DEF VersionsGrow
<1>a. (\A c \in Call : job[c] \in Job) /\ Version(i) \in Nat
  BY RowType DEF TypeInv, TypeOK
<1>b. ASSUME UNCHANGED log PROVE Version(i) <= Version(i)'
  BY <1>a, <1>b DEF Version
<1>c. ASSUME NEW c \in Call, NEW j \in Id, NEW v \in Value, Commit(c, j, v)
      PROVE  Version(i) <= Version(i)'
  BY <1>a, <1>c, CommitLog
<1>1. ASSUME NEW c \in Call, CreateInsert(c) PROVE Version(i) <= Version(i)'
  <2>1. job[c].post \in Value
    BY <1>1, <1>a, JobType DEF CreateInsert, At, Value
  <2>2. (\E j \in Id : Commit(c, j, job[c].post)) \/ UNCHANGED log
    BY <1>1 DEF CreateInsert
  <2>3. QED
    BY <1>b, <1>c, <2>1, <2>2
<1>2. ASSUME NEW c \in Call, UpdateWrite(c) PROVE Version(i) <= Version(i)'
  <2>1. job[c].id \in Id /\ job[c].post \in Value
    BY <1>2, <1>a, JobType DEF UpdateWrite, At, Value
  <2>2. Commit(c, job[c].id, job[c].post) \/ UNCHANGED log
    BY <1>2 DEF UpdateWrite
  <2>3. QED
    BY <1>b, <1>c, <2>1, <2>2
<1>3. ASSUME NEW c \in Call, DeleteWrite(c) PROVE Version(i) <= Version(i)'
  <2>1. job[c].id \in Id /\ Absent \in Value
    BY <1>3, <1>a, JobType DEF DeleteWrite, At, Value
  <2>2. Commit(c, job[c].id, Absent) \/ UNCHANGED log
    BY <1>3 DEF DeleteWrite
  <2>3. QED
    BY <1>b, <1>c, <2>1, <2>2
<1>4. ASSUME NEW r \in Ref, RefGone(r) PROVE Version(i) <= Version(i)'
  <2>1. Version(i)' >= Version(i)
    BY <1>4, RefGoneLog
  <2>2. QED
    BY <1>a, <2>1
<1>5. QED
  BY <1>1, <1>2, <1>3, <1>4, <1>b
     DEF Next, Outside, Serve, Get, List, Delete, GetLookup, GetSelect, GetFill,
         ListLookup, ListPage, ListCount, ListFill, RelationSelect, DeleteEvict,
         Reply, DbError, Drop, Expire, ExpireList, tables, vars

\* An entry stays, goes, or is made at the version its row has now.
CacheStep ==
    \A i \in Id :
        \/ cache'[i] = cache[i]
        \/ cache'[i] = NoEntry
        \/ UNCHANGED log /\ cache'[i].at = Version(i)

LEMMA CacheSteps == TypeInv /\ [Next]_vars => CacheStep
<1> SUFFICES ASSUME TypeInv, [Next]_vars
             PROVE  CacheStep
  OBVIOUS
<1>a. cache \in [Id -> Entry \cup {NoEntry}]
  BY DEF TypeInv, TypeOK
<1>1. ASSUME NEW c \in Call, GetFill(c) PROVE CacheStep
  <2> DEFINE j == job[c].id
             entry(ttl) == [val |-> row[c].val, ver |-> row[c].ver, at |-> Version(j),
                            ttl |-> ttl]
  <2>1. \/ cache' = [cache EXCEPT ![j] = entry(TRUE)]
        \/ cache' = [cache EXCEPT ![j] = entry(FALSE)]
        \/ cache' = cache
    BY <1>1 DEF GetFill, Set
  <2>2. entry(TRUE).at = Version(j) /\ entry(FALSE).at = Version(j)
    OBVIOUS
  <2>3. UNCHANGED log
    BY <1>1 DEF GetFill, tables
  <2> HIDE DEF entry, j
  <2>4. QED
    BY <1>a, <2>1, <2>2, <2>3 DEF CacheStep
<1>2. ASSUME NEW c \in Call, DeleteEvict(c) PROVE CacheStep
  BY <1>2, <1>a DEF DeleteEvict, Del, CacheStep
<1>3. ASSUME NEW i \in Id, Expire(i) PROVE CacheStep
  BY <1>3, <1>a DEF Expire, CacheStep
<1>4. QED
  BY <1>1, <1>2, <1>3
     DEF CacheStep, Next, Outside, Serve, Get, List, Delete, GetLookup, GetSelect,
         ListLookup, ListPage, ListCount, ListFill, RelationSelect, CreateInsert,
         UpdateWrite, DeleteWrite, Reply, DbError, Drop, RefGone, ExpireList, vars

\* What a call knows of its own write changes only before it answers, and then
\* to the version its row has now.
WroteStep ==
    \A c \in Call :
        \/ wrote'[c] = wrote[c]
        \/ /\ pc[c] = "start"
           /\ Deletes(c) => wrote'[c] = Version(job[c].id)'

LEMMA WroteSteps == TypeInv /\ [Next]_vars => WroteStep
<1> SUFFICES ASSUME TypeInv, [Next]_vars
             PROVE  WroteStep
  OBVIOUS
<1>a. (\A c \in Call : job[c] \in Job) /\ wrote \in [Call -> Nat]
  BY DEF TypeInv, TypeOK
<1>1. ASSUME NEW c \in Call, CreateInsert(c) \/ UpdateWrite(c) PROVE WroteStep
  <2>1. pc[c] = "start" /\ ~Deletes(c)
    BY <1>1 DEF CreateInsert, UpdateWrite, At, Deletes
  <2>2. \A d \in Call \ {c} : wrote'[d] = wrote[d]
    BY <1>1, <1>a DEF CreateInsert, UpdateWrite, Commit
  <2>3. QED
    BY <2>1, <2>2 DEF WroteStep
<1>2. ASSUME NEW c \in Call, DeleteWrite(c) PROVE WroteStep
  <2>1. job[c].id \in Id /\ Absent \in Value /\ pc[c] = "start"
    BY <1>2, <1>a, JobType DEF DeleteWrite, At, Value
  <2>2. CASE Commit(c, job[c].id, Absent)
    <3>1. wrote'[c] = Version(job[c].id) + 1
          /\ \A d \in Call \ {c} : wrote'[d] = wrote[d]
      BY <1>a, <2>2 DEF Commit
    <3>2. \A i \in Id : i = job[c].id => Version(i)' = Version(i) + 1
      BY <2>1, <2>2, CommitLog
    <3>3. UNCHANGED job
      BY <1>2 DEF DeleteWrite
    <3>4. wrote'[c] = Version(job[c].id)'
      BY <2>1, <3>1, <3>2, <3>3 DEF Version
    <3>5. QED
      BY <2>1, <3>1, <3>4 DEF WroteStep
  <2>3. CASE UNCHANGED wrote
    BY <2>3 DEF WroteStep
  <2>4. QED
    BY <1>2, <2>2, <2>3 DEF DeleteWrite
<1>3. CASE UNCHANGED wrote
  BY <1>3 DEF WroteStep
<1>4. QED
  BY <1>1, <1>2, <1>3
     DEF Next, Outside, Serve, Get, List, Delete, GetLookup, GetSelect, GetFill,
         ListLookup, ListPage, ListCount, ListFill, RelationSelect, DeleteEvict,
         Reply, DbError, Drop, RefGone, Expire, ExpireList, locals, vars

\* A deletion that answers "ok" leaves no entry, or knows that Redis kept it;
\* after that its answer, and what it knows of Redis, are settled.
AnswerStep ==
    \A c \in Call :
        \/ outcome'[c] = outcome[c] /\ lost'[c] = lost[c]
           /\ (pc[c] \in {"reply", "done"} => pc'[c] \in {"reply", "done"})
        \/ /\ pc[c] \notin {"reply", "done"} /\ pc'[c] = "reply"
           /\ Deletes(c) /\ outcome'[c] = "ok" /\ ~lost'[c] => cache'[job[c].id] = NoEntry

LEMMA AnswerSteps == TypeInv /\ [Next]_vars => AnswerStep
<1> SUFFICES ASSUME TypeInv, [Next]_vars
             PROVE  AnswerStep
  OBVIOUS
<1>a. /\ \A c \in Call : job[c] \in Job
      /\ cache \in [Id -> Entry \cup {NoEntry}]
      /\ pc \in [Call -> Labels] /\ lost \in [Call -> BOOLEAN]
      /\ outcome \in [Call -> {"none", "ok", "internal"}]
  BY DEF TypeInv, TypeOK
<1>b. ASSUME NEW c \in Call, NEW label, NEW status \in {"ok", "internal"},
             Goto(c, label) \/ Finish(c, status), UNCHANGED lost,
             pc[c] \notin {"reply", "done"}, ~Deletes(c) \/ status = "internal"
      PROVE  AnswerStep
  BY <1>a, <1>b DEF Goto, Finish, AnswerStep
<1>1. ASSUME NEW c \in Call, GetLookup(c) \/ GetSelect(c) \/ GetFill(c) PROVE AnswerStep
  BY <1>1, <1>b DEF GetLookup, GetSelect, GetFill, At, Deletes, locals
<1>2. ASSUME NEW c \in Call, ListLookup(c) PROVE AnswerStep
  <2>1. Goto(c, "page") \/ Finish(c, "ok") \/ UNCHANGED <<pc, outcome>>
    BY <1>2 DEF ListLookup
  <2>2. UNCHANGED lost /\ ~Deletes(c) /\ pc[c] \notin {"reply", "done"}
    BY <1>2 DEF ListLookup, At, Deletes
  <2>3. CASE UNCHANGED <<pc, outcome>>
    BY <2>2, <2>3 DEF AnswerStep
  <2>4. QED
    BY <1>b, <2>1, <2>2, <2>3
<1>3. ASSUME NEW c \in Call, ListPage(c) \/ ListCount(c) \/ ListFill(c) PROVE AnswerStep
  BY <1>3, <1>b DEF ListPage, ListCount, ListFill, At, Deletes, locals
<1>4. ASSUME NEW c \in Call, RelationSelect(c) \/ CreateInsert(c) \/ UpdateWrite(c)
      PROVE  AnswerStep
  BY <1>4, <1>b DEF RelationSelect, CreateInsert, UpdateWrite, At, Deletes, locals
<1>5. ASSUME NEW c \in Call, DeleteWrite(c) PROVE AnswerStep
  BY <1>5, <1>b DEF DeleteWrite, At
<1>6. ASSUME NEW c \in Call, DeleteEvict(c) PROVE AnswerStep
  <2>1. job[c].id \in Id /\ pc[c] = "evict"
    BY <1>6, <1>a, JobType DEF DeleteEvict, At
  <2>2. cache'[job[c].id] = NoEntry \/ lost'[c]
    BY <1>6, <1>a, <2>1 DEF DeleteEvict, Del
  <2>3. pc'[c] = "reply" /\ \A d \in Call \ {c} :
            pc'[d] = pc[d] /\ outcome'[d] = outcome[d] /\ lost'[d] = lost[d]
    BY <1>6, <1>a DEF DeleteEvict, Del, Finish
  <2>4. QED
    BY <2>1, <2>2, <2>3 DEF AnswerStep
<1>7. ASSUME NEW c \in Call, DbError(c) PROVE AnswerStep
  BY <1>7, <1>b DEF DbError, locals
<1>8. ASSUME NEW c \in Call, Reply(c) PROVE AnswerStep
  BY <1>8, <1>a DEF Reply, locals, AnswerStep
<1>9. CASE UNCHANGED <<pc, outcome, lost>>
  BY <1>9 DEF AnswerStep
<1>10. QED
  BY <1>1, <1>2, <1>3, <1>4, <1>5, <1>6, <1>7, <1>8, <1>9
     DEF Next, Outside, Serve, Get, List, Delete, Drop, RefGone, Expire,
         ExpireList, locals, vars

LEMMA InitDelete == Init => DeleteInv
<1> SUFFICES ASSUME Init PROVE DeleteInv
  OBVIOUS
<1>1. TypeInv
  BY InitType
<1>2. ASSUME NEW c \in Call, Deletes(c) PROVE wrote[c] <= Version(job[c].id)
  <2>1. job[c].id \in Id
    BY <1>1, <1>2, JobType DEF TypeInv, TypeOK, Deletes
  <2>2. QED
    BY <1>1, <2>1, RowType DEF Init, TypeInv
<1>3. QED
  BY <1>2 DEF Init, DeleteInv, WroteBound, Unsettled, AckedDeleteReachesCache

LEMMA NextDelete == TypeInv /\ TypeInv' /\ DeleteInv /\ [Next]_vars => DeleteInv'
<1> SUFFICES ASSUME TypeInv, TypeInv', DeleteInv, [Next]_vars
             PROVE  DeleteInv'
  OBVIOUS
<1>a. job' = job /\ VersionsGrow /\ CacheStep /\ WroteStep /\ AnswerStep
  BY JobStays, LogGrows, CacheSteps, WroteSteps, AnswerSteps
<1>b. ASSUME NEW c \in Call, Deletes(c)
      PROVE  /\ job[c].id \in Id
             /\ wrote[c] \in Nat /\ wrote'[c] \in Nat
             /\ Version(job[c].id) \in Nat /\ Version(job[c].id)' \in Nat
  <2>1. job[c].id \in Id
    BY <1>b, JobType DEF TypeInv, TypeOK, Deletes
  <2>2. Version(job[c].id) \in Nat
    BY <2>1, RowType DEF TypeInv
  <2>3. log' \in [Id -> Seq(Value)]
    BY DEF TypeInv, TypeOK, Value
  <2>4. Version(job[c].id)' \in Nat
    BY <1>a, <2>1, <2>3 DEF Version
  <2>5. QED
    BY <2>1, <2>2, <2>4 DEF TypeInv, TypeOK
<1>1. WroteBound'
  <2> SUFFICES ASSUME NEW c \in Call, Deletes(c)
               PROVE  wrote'[c] <= Version(job[c].id)'
    BY <1>a DEF WroteBound, Deletes
  <2>1. wrote[c] <= Version(job[c].id) /\ Version(job[c].id) <= Version(job[c].id)'
    BY <1>a, <1>b DEF DeleteInv, WroteBound, VersionsGrow
  <2>2. wrote'[c] = wrote[c] \/ wrote'[c] = Version(job[c].id)'
    BY <1>a DEF WroteStep
  <2>3. QED
    BY <1>b, <2>1, <2>2
<1>2. Unsettled'
  BY <1>a DEF DeleteInv, Unsettled, AnswerStep
<1>3. AckedDeleteReachesCache'
  <2> SUFFICES ASSUME NEW c \in Call, Deletes(c), outcome'[c] = "ok", ~lost'[c],
                      cache'[job[c].id] # NoEntry
               PROVE  cache'[job[c].id].at >= wrote'[c]
    BY <1>a DEF AckedDeleteReachesCache, Deletes
  <2>1. outcome[c] = "ok" /\ ~lost[c] /\ pc[c] \in {"reply", "done"}
    BY <1>a DEF AnswerStep, DeleteInv, Unsettled
  <2>2. wrote'[c] = wrote[c]
    BY <1>a, <2>1 DEF WroteStep
  <2>3. CASE cache'[job[c].id] = cache[job[c].id]
    BY <2>1, <2>2, <2>3 DEF DeleteInv, AckedDeleteReachesCache, Deletes
  <2>4. CASE UNCHANGED log /\ cache'[job[c].id].at = Version(job[c].id)
    BY <1>b, <2>2, <2>4 DEF DeleteInv, WroteBound
  <2>5. QED
    BY <1>a, <1>b, <2>3, <2>4 DEF CacheStep
<1>4. QED
  BY <1>1, <1>2, <1>3 DEF DeleteInv

\* What was cached of a post before its deletion was acknowledged is gone,
\* whatever reads, writes, cascades and faults came between, unless Redis
\* refused the DEL.
THEOREM DeletionReachesCache == Spec => []AckedDeleteReachesCache
<1>1. Spec => [](TypeInv /\ DeleteInv)
  BY InitType, NextType, InitDelete, NextDelete, PTL DEF Spec
<1>2. QED
  BY <1>1, PTL DEF DeleteInv

=============================================================================
