----------------------- MODULE CategoryServiceProofs -----------------------
(* Proofs about CategoryService, for any calls, ids, names and faults. *)
EXTENDS CategoryService, FiniteSetTheorems, TLAPS

----------------------------------------------------------------------------
(* Type correctness *)

\* What a call is about to cache is a row with a name.
HoldsName ==
    \A c \in Call : job[c].op \in {"get", "update"} /\ pc[c] \in {"fill", "store"}
        => row[c].name \in Name

TypeInv == TypeOK /\ HoldsName

LEMMA JobType ==
    ASSUME NEW j \in Job
    PROVE  /\ j.op \in {"get", "list", "create", "update", "delete"}
           /\ j.op \in {"get", "update", "delete"} => j.id \in Id
           /\ j.op \in {"create", "update"} => j.name \in Name
           /\ j.op = "list" => ListKey(j.query) \in Keys
  BY CategoryAssumption DEF AnyJob, Keys

\* The last value of a row is a value of the table.
LEMMA RowType ==
    ASSUME TypeOK, NEW i \in Id
    PROVE  /\ Row(i) \in Name \cup {Absent}
           /\ Version(i) \in Nat
  BY DEF TypeOK, Row, Version

\* Ids are finitely many, so every set of them can be counted.
LEMMA TotalType ==
    ASSUME NEW q
    PROVE  TotalOf(q) \in Nat
  BY CategoryAssumption, FS_Subset, FS_CardinalityType
     DEF TotalOf, Matching, Present

LEMMA PageType ==
    ASSUME TypeOK, NEW q
    PROVE  PageOf(q) \subseteq Items
<1> DEFINE P == {<<i, Row(i)>> : i \in Matching(q.search)}
<1>1. PageOf(q) \subseteq P
  BY DEF PageOf
<1>2. \A i \in Matching(q.search) : i \in Id /\ Row(i) \in Name
  BY RowType DEF Matching, Present
<1>3. P \subseteq Items
  BY <1>2 DEF Items
<1>4. QED
  BY <1>1, <1>3

LEMMA InitType == Init => TypeInv
<1> SUFFICES ASSUME Init PROVE TypeInv
  OBVIOUS
<1>1. log \in [Id -> Seq(Name \cup {Absent})]
  <2>1. \A n \in Name : <<n>> \in Seq(Name \cup {Absent})
    OBVIOUS
  <2>2. <<>> \in Seq(Name \cup {Absent})
    OBVIOUS
  <2>3. {<<>>} \cup {<<n>> : n \in Name} \subseteq Seq(Name \cup {Absent})
    BY <2>1, <2>2
  <2>4. QED
    BY <2>3 DEF Init
<1>2. cache \in [Id -> Entry \cup {NoEntry}]
  <2>1. \A i \in Present : Row(i) \in Name /\ Version(i) \in Nat
    BY <1>1 DEF Present, Row, Version
  <2>2. \A i \in Present : Fresh(i) \in Entry
    BY <2>1 DEF Fresh, Entry
  <2>3. QED
    BY <2>2 DEF Init
<1>3. QED
  BY <1>1, <1>2 DEF Init, TypeInv, TypeOK, HoldsName, NoRow, NoPage, Page, Labels

\* A write appends a value of the right type to the history of its row.
LEMMA CommitType ==
    ASSUME TypeOK, NEW c \in Call, NEW i \in Id, NEW v \in Name \cup {Absent},
           Commit(c, i, v)
    PROVE  /\ log' \in [Id -> Seq(Name \cup {Absent})]
           /\ wrote' \in [Call -> Nat]
<1>1. log[i] \in Seq(Name \cup {Absent}) /\ Version(i) \in Nat
  BY DEF TypeOK, Version
<1>2. Append(log[i], v) \in Seq(Name \cup {Absent})
  BY <1>1
<1>3. QED
  BY <1>1, <1>2 DEF Commit, TypeOK

\* Caching a row with a name leaves well-typed entries.
LEMMA CacheSetType ==
    ASSUME TypeOK, NEW c \in Call, NEW i \in Id, row[c].name \in Name,
           CacheSet(c, i)
    PROVE  /\ cache' \in [Id -> Entry \cup {NoEntry}]
           /\ lost' \in [Call -> BOOLEAN]
<1>1. row[c].ver \in Nat /\ Version(i) \in Nat
  BY DEF TypeOK, Version
<1> DEFINE entry(ttl) == [name |-> row[c].name, ver |-> row[c].ver,
                          at |-> Version(i), ttl |-> ttl]
<1>2. entry(TRUE) \in Entry /\ entry(FALSE) \in Entry
  BY <1>1 DEF Entry
<1>3. cache' \in [Id -> Entry \cup {NoEntry}]
  <2>1. \/ cache' = [cache EXCEPT ![i] = entry(TRUE)]
        \/ cache' = [cache EXCEPT ![i] = entry(FALSE)]
        \/ cache' = cache
    BY DEF CacheSet
  <2> HIDE DEF entry
  <2>2. QED
    BY <1>2, <2>1 DEF TypeOK
<1>4. lost' \in [Call -> BOOLEAN]
  BY DEF CacheSet, TypeOK
<1>5. QED
  BY <1>3, <1>4

LEMMA CacheDelType ==
    ASSUME TypeOK, NEW c \in Call, NEW i \in Id, CacheDel(c, i)
    PROVE  /\ cache' \in [Id -> Entry \cup {NoEntry}]
           /\ lost' \in [Call -> BOOLEAN]
  BY DEF CacheDel, TypeOK

LEMMA HoldType ==
    ASSUME TypeOK, NEW c \in Call, NEW i,
           Row(i) \in Name \cup {Absent}, Version(i) \in Nat, Hold(c, i)
    PROVE  row' \in [Call -> [name : Name \cup {Absent}, ver : Nat]]
<1>1. [name |-> Row(i), ver |-> Version(i)] \in [name : Name \cup {Absent}, ver : Nat]
  OBVIOUS
<1>2. QED
  BY <1>1 DEF Hold, TypeOK

LEMMA NextType == TypeInv /\ [Next]_vars => TypeInv'
<1> SUFFICES ASSUME TypeInv, [Next]_vars
             PROVE  TypeInv'
  OBVIOUS
<1> USE DEF TypeInv
<1>a. ASSUME NEW c \in Call PROVE job[c] \in Job
  BY DEF TypeOK
<1>1. ASSUME NEW c \in Call, GetLookup(c) PROVE TypeInv'
  <2>1. job[c].id \in Id /\ job[c].op = "get"
    BY <1>1, <1>a, JobType DEF GetLookup, At
  <2>2. cache[job[c].id] \in Entry \cup {NoEntry}
    BY <2>1 DEF TypeOK
  <2>3. row' \in [Call -> [name : Name \cup {Absent}, ver : Nat]]
    <3>1. CASE cache[job[c].id] # NoEntry /\ row' # row
      <4> DEFINE r == [name |-> cache[job[c].id].name, ver |-> cache[job[c].id].ver]
      <4>1. r \in [name : Name \cup {Absent}, ver : Nat]
        BY <2>2, <3>1 DEF Entry
      <4>2. row' = [row EXCEPT ![c] = r]
        BY <1>1, <3>1 DEF GetLookup
      <4> HIDE DEF r
      <4>3. QED
        BY <4>1, <4>2 DEF TypeOK
    <3>2. CASE row' = row
      BY <3>2 DEF TypeOK
    <3>3. QED
      BY <1>1, <3>1, <3>2 DEF GetLookup
  <2>4. QED
    BY <1>1, <2>3 DEF GetLookup, At, Goto, Finish, TypeOK, HoldsName, stores, Labels
<1>2. ASSUME NEW c \in Call, GetSelect(c) PROVE TypeInv'
  <2>1. job[c].id \in Id /\ job[c].op = "get"
    BY <1>2, <1>a, JobType DEF GetSelect, At
  <2>2. Row(job[c].id) \in Name \cup {Absent} /\ Version(job[c].id) \in Nat
    BY <2>1, RowType
  <2>3. row' \in [Call -> [name : Name \cup {Absent}, ver : Nat]]
    BY <1>2, <2>2, HoldType DEF GetSelect, TypeOK
  <2>4. TypeOK'
    BY <1>2, <2>3 DEF GetSelect, At, Goto, Finish, TypeOK, stores, Labels
  <2>5. CASE Row(job[c].id) # Absent
    <3>1. row' = [row EXCEPT ![c] = [name |-> Row(job[c].id),
                                     ver |-> Version(job[c].id)]]
      BY <1>2, <2>5 DEF GetSelect, Hold
    <3>2. row'[c].name \in Name
      BY <2>2, <2>5, <3>1 DEF TypeOK
    <3>3. \A d \in Call : d # c => row'[d] = row[d] /\ pc'[d] = pc[d]
      BY <1>2, <3>1 DEF GetSelect, Goto, Finish, TypeOK
    <3>4. job' = job
      BY <1>2 DEF GetSelect
    <3>5. HoldsName'
      BY <3>2, <3>3, <3>4 DEF HoldsName
    <3>6. QED
      BY <2>4, <3>5
  <2>6. CASE Row(job[c].id) = Absent
    BY <1>2, <2>4, <2>6 DEF GetSelect, At, Finish, TypeOK, HoldsName, stores
  <2>7. QED
    BY <2>5, <2>6
<1>3. ASSUME NEW c \in Call, GetFill(c) PROVE TypeInv'
  <2>1. job[c].id \in Id /\ job[c].op = "get" /\ row[c].name \in Name
    BY <1>3, <1>a, JobType DEF GetFill, At, HoldsName
  <2>2. cache' \in [Id -> Entry \cup {NoEntry}] /\ lost' \in [Call -> BOOLEAN]
    BY <1>3, <2>1, CacheSetType DEF GetFill
  <2>3. QED
    BY <1>3, <2>2 DEF GetFill, At, Finish, TypeOK, HoldsName, Labels
<1>4. ASSUME NEW c \in Call, ListLookup(c) PROVE TypeInv'
  <2>1. ListKey(job[c].query) \in Keys
    BY <1>4, <1>a, JobType DEF ListLookup, At
  <2>2. lists[ListKey(job[c].query)] \in ListEntry \cup {NoEntry}
    BY <2>1 DEF TypeOK
  <2>3. page' \in [Call -> Page]
    BY <1>4, <2>2 DEF ListLookup, TypeOK, ListEntry
  <2>4. live' \in [Call -> BOOLEAN] /\ pc' \in [Call -> Labels]
    BY <1>4 DEF ListLookup, Goto, Finish, TypeOK, Labels
  <2>5. outcome' \in [Call -> {"none", "ok", "not_found", "internal"}]
    BY <1>4 DEF ListLookup, Goto, Finish, TypeOK
  <2>6. HoldsName'
    BY <1>4 DEF ListLookup, At, Goto, Finish, TypeOK, HoldsName
  <2>7. QED
    BY <1>4, <2>3, <2>4, <2>5, <2>6 DEF ListLookup, TypeOK, stores
<1>5. ASSUME NEW c \in Call, ListPage(c) PROVE TypeInv'
  <2>1. PageOf(Normal(job[c].query)) \subseteq Items /\ Committed \subseteq Call
    BY PageType DEF Committed
  <2>2. page' \in [Call -> Page]
    <3>1. \A p \in Page, x \in SUBSET Items, y \in SUBSET Call :
            [p EXCEPT !.items = x, !.itemsAt = y] \in Page
      BY DEF Page
    <3>2. QED
      BY <1>5, <2>1, <3>1 DEF ListPage, TypeOK
  <2>3. QED
    BY <1>5, <2>2 DEF ListPage, At, Goto, TypeOK, HoldsName, stores, Labels
<1>6. ASSUME NEW c \in Call, ListCount(c) PROVE TypeInv'
  <2>1. TotalOf(Normal(job[c].query)) \in Nat /\ Committed \subseteq Call
    BY TotalType DEF Committed
  <2>2. page' \in [Call -> Page]
    <3>1. \A p \in Page, x \in Nat, y \in SUBSET Call :
            [p EXCEPT !.total = x, !.totalAt = y] \in Page
      BY DEF Page
    <3>2. QED
      BY <1>6, <2>1, <3>1 DEF ListCount, TypeOK
  <2>3. QED
    BY <1>6, <2>2 DEF ListCount, At, Goto, TypeOK, HoldsName, stores, Labels
<1>7. ASSUME NEW c \in Call, ListFill(c) PROVE TypeInv'
  <2>1. page[c] \in Page
    BY DEF TypeOK
  <2>2. lists' \in [Keys -> ListEntry \cup {NoEntry}]
    <3>1. /\ [page |-> page[c], ttl |-> TRUE] \in ListEntry
          /\ [page |-> page[c], ttl |-> FALSE] \in ListEntry
      BY <2>1 DEF ListEntry
    <3>2. QED
      BY <1>7, <3>1 DEF ListFill, TypeOK
  <2>3. QED
    BY <1>7, <2>2 DEF ListFill, At, Finish, TypeOK, HoldsName, Labels
<1>8. ASSUME NEW c \in Call, CreateInsert(c) PROVE TypeInv'
  <2>1. job[c].name \in Name
    BY <1>8, <1>a, JobType DEF CreateInsert, At
  <2>2. log' \in [Id -> Seq(Name \cup {Absent})] /\ wrote' \in [Call -> Nat]
    <3>1. CASE UNCHANGED <<log, wrote>>
      BY <3>1 DEF TypeOK
    <3>2. CASE \E i \in Id : IsNextId(i) /\ Commit(c, i, job[c].name)
      BY <2>1, <3>2, CommitType
    <3>3. QED
      BY <1>8, <3>1, <3>2 DEF CreateInsert
  <2>3. QED
    BY <1>8, <2>2 DEF CreateInsert, At, Finish, TypeOK, HoldsName, Labels
<1>9. ASSUME NEW c \in Call, UpdateWrite(c) PROVE TypeInv'
  <2>1. job[c].id \in Id /\ job[c].name \in Name
    BY <1>9, <1>a, JobType DEF UpdateWrite, At
  <2>2. log' \in [Id -> Seq(Name \cup {Absent})] /\ wrote' \in [Call -> Nat]
    BY <1>9, <2>1, CommitType DEF UpdateWrite, TypeOK
  <2>3. QED
    BY <1>9, <2>2 DEF UpdateWrite, At, Goto, Finish, TypeOK, HoldsName, Labels
<1>10. ASSUME NEW c \in Call, UpdateReread(c) PROVE TypeInv'
  <2>1. job[c].id \in Id
    BY <1>10, <1>a, JobType DEF UpdateReread, At
  <2>2. Row(job[c].id) \in Name \cup {Absent} /\ Version(job[c].id) \in Nat
    BY <2>1, RowType
  <2>3. row' \in [Call -> [name : Name \cup {Absent}, ver : Nat]]
    BY <1>10, <2>2, HoldType DEF UpdateReread, TypeOK
  <2>4. TypeOK'
    BY <1>10, <2>3 DEF UpdateReread, At, Goto, Finish, TypeOK, stores, Labels
  <2>5. CASE Row(job[c].id) # Absent
    <3>1. row' = [row EXCEPT ![c] = [name |-> Row(job[c].id),
                                     ver |-> Version(job[c].id)]]
      BY <1>10, <2>5 DEF UpdateReread, Hold
    <3>2. row'[c].name \in Name
      BY <2>2, <2>5, <3>1 DEF TypeOK
    <3>3. \A d \in Call : d # c => row'[d] = row[d] /\ pc'[d] = pc[d]
      BY <1>10, <3>1 DEF UpdateReread, Goto, Finish, TypeOK
    <3>4. job' = job
      BY <1>10 DEF UpdateReread
    <3>5. HoldsName'
      BY <3>2, <3>3, <3>4 DEF HoldsName
    <3>6. QED
      BY <2>4, <3>5
  <2>6. CASE Row(job[c].id) = Absent
    BY <1>10, <2>4, <2>6 DEF UpdateReread, At, Finish, TypeOK, HoldsName, stores
  <2>7. QED
    BY <2>5, <2>6
<1>11. ASSUME NEW c \in Call, UpdateStore(c) PROVE TypeInv'
  <2>1. job[c].id \in Id /\ row[c].name \in Name
    BY <1>11, <1>a, JobType DEF UpdateStore, At, HoldsName
  <2>2. cache' \in [Id -> Entry \cup {NoEntry}] /\ lost' \in [Call -> BOOLEAN]
    BY <1>11, <2>1, CacheSetType DEF UpdateStore
  <2>3. QED
    BY <1>11, <2>2 DEF UpdateStore, At, Finish, TypeOK, HoldsName, Labels
<1>12. ASSUME NEW c \in Call, DeleteWrite(c) PROVE TypeInv'
  <2>1. job[c].id \in Id
    BY <1>12, <1>a, JobType DEF DeleteWrite, At
  <2>2. log' \in [Id -> Seq(Name \cup {Absent})] /\ wrote' \in [Call -> Nat]
    BY <1>12, <2>1, CommitType DEF DeleteWrite, TypeOK
  <2>3. QED
    BY <1>12, <2>2 DEF DeleteWrite, At, Goto, Finish, TypeOK, HoldsName, Labels
<1>13. ASSUME NEW c \in Call, DeleteEvict(c) PROVE TypeInv'
  <2>1. job[c].id \in Id
    BY <1>13, <1>a, JobType DEF DeleteEvict, At
  <2>2. cache' \in [Id -> Entry \cup {NoEntry}] /\ lost' \in [Call -> BOOLEAN]
    BY <1>13, <2>1, CacheDelType DEF DeleteEvict
  <2>3. QED
    BY <1>13, <2>2 DEF DeleteEvict, At, Finish, TypeOK, HoldsName, Labels
<1>14. ASSUME NEW c \in Call, Reply(c) PROVE TypeInv'
  BY <1>14 DEF Reply, TypeOK, HoldsName, stores, Labels
<1>15. ASSUME NEW c \in Call, DbError(c) PROVE TypeInv'
  BY <1>15 DEF DbError, Finish, TypeOK, HoldsName, stores, Labels
<1>16. ASSUME NEW c \in Call, Drop(c) PROVE TypeInv'
  BY <1>16 DEF Drop, TypeOK, HoldsName, stores
<1>17. ASSUME NEW i \in Id, ExpireRow(i) PROVE TypeInv'
  BY <1>17 DEF ExpireRow, TypeOK, HoldsName
<1>18. ASSUME NEW k \in Keys, ExpireList(k) PROVE TypeInv'
  BY <1>18 DEF ExpireList, TypeOK, HoldsName
<1>19. CASE UNCHANGED vars
  BY <1>19 DEF vars, TypeOK, HoldsName
<1>20. QED
  BY <1>1, <1>2, <1>3, <1>4, <1>5, <1>6, <1>7, <1>8, <1>9, <1>10, <1>11, <1>12,
     <1>13, <1>14, <1>15, <1>16, <1>17, <1>18, <1>19
     DEF Next, Serve, Get, List, Update, Delete

\* The service's data have their types in every state.
THEOREM TypeCorrect == Spec => []TypeOK
<1>1. Spec => []TypeInv
  BY InitType, NextType, PTL DEF Spec
<1>2. QED
  BY <1>1, PTL DEF TypeInv

----------------------------------------------------------------------------
(* What a step may do to each part of the state *)

\* The history of the table changes by one commit of one writing call, to a
\* row that is there or to an id that was never issued.
LogStep ==
    \/ UNCHANGED <<log, wrote>>
    \/ \E c \in Call, i \in Id, v \in Name \cup {Absent} :
          /\ Commit(c, i, v)
          /\ log[i] = <<>> \/ Row(i) # Absent
          /\ pc[c] = "start"
          /\ job[c].op \in {"update", "delete"} =>
                i = job[c].id /\ (job[c].op = "delete" => v = Absent)

\* A call takes its row from the table, or (get only) from the cache.
RowStep ==
    \A c \in Call :
        \/ row'[c] = row[c]
        \/ /\ UNCHANGED log
           /\ job[c].id \in Id
           /\ Row(job[c].id) # Absent
           /\ row'[c] = [name |-> Row(job[c].id), ver |-> Version(job[c].id)]
        \/ /\ UNCHANGED log
           /\ job[c].op = "get"
           /\ job[c].id \in Id
           /\ cache[job[c].id] # NoEntry
           /\ row'[c] = [name |-> cache[job[c].id].name,
                         ver |-> cache[job[c].id].ver]

\* An entry of the cache goes, or is replaced by the row some call holds.
CacheStep ==
    \A i \in Id :
        \/ cache'[i] = cache[i]
        \/ cache'[i] = NoEntry
        \/ /\ UNCHANGED log
           /\ \E c \in Call :
                /\ job[c].id = i
                /\ row[c].name \in Name
                /\ cache'[i].name = row[c].name
                /\ cache'[i].ver = row[c].ver
                /\ cache'[i].at = Version(i)

LEMMA LogSteps == TypeInv /\ [Next]_vars => LogStep
<1> SUFFICES ASSUME TypeInv, [Next]_vars
             PROVE  LogStep
  OBVIOUS
<1>1. \A c \in Call : job[c] \in Job
  BY DEF TypeInv, TypeOK
<1>2. ASSUME NEW c \in Call, CreateInsert(c) PROVE LogStep
  <2>1. job[c].name \in Name
    BY <1>1, <1>2, JobType DEF CreateInsert, At
  <2>2. QED
    BY <1>2, <2>1 DEF CreateInsert, At, IsNextId, LogStep
<1>3. ASSUME NEW c \in Call, UpdateWrite(c) PROVE LogStep
  <2>1. job[c].name \in Name /\ job[c].id \in Id
    BY <1>1, <1>3, JobType DEF UpdateWrite, At
  <2>2. QED
    BY <1>3, <2>1 DEF UpdateWrite, At, Affects, LogStep
<1>4. ASSUME NEW c \in Call, DeleteWrite(c) PROVE LogStep
  <2>1. job[c].id \in Id
    BY <1>1, <1>4, JobType DEF DeleteWrite, At
  <2>2. QED
    BY <1>4, <2>1 DEF DeleteWrite, At, Affects, LogStep
<1>5. QED
  BY <1>2, <1>3, <1>4
     DEF Next, Serve, Get, List, Update, Delete, GetLookup, GetSelect, GetFill,
         ListLookup, ListPage, ListCount, ListFill, UpdateReread, UpdateStore,
         DeleteEvict, Reply, DbError, Drop, ExpireRow, ExpireList, vars, stores,
         LogStep

LEMMA RowSteps == TypeInv /\ [Next]_vars => RowStep
<1> SUFFICES ASSUME TypeInv, [Next]_vars
             PROVE  RowStep
  OBVIOUS
<1>1. \A c \in Call : job[c] \in Job
  BY DEF TypeInv, TypeOK
<1>2. ASSUME NEW c \in Call, GetLookup(c) PROVE RowStep
  <2>1. job[c].id \in Id
    BY <1>1, <1>2, JobType DEF GetLookup, At
  <2>2. QED
    BY <1>2, <2>1 DEF GetLookup, At, TypeInv, TypeOK, stores, RowStep
<1>3. ASSUME NEW c \in Call, GetSelect(c) \/ UpdateReread(c) PROVE RowStep
  <2>1. job[c].id \in Id
    BY <1>1, <1>3, JobType DEF GetSelect, UpdateReread, At
  <2>2. QED
    BY <1>3, <2>1
       DEF GetSelect, UpdateReread, Hold, TypeInv, TypeOK, stores, RowStep
<1>4. QED
  BY <1>2, <1>3
     DEF Next, Serve, Get, List, Update, Delete, GetFill, CreateInsert,
         ListLookup, ListPage, ListCount, ListFill, UpdateWrite, UpdateStore,
         DeleteWrite, DeleteEvict, Reply, DbError, Drop, ExpireRow, ExpireList,
         vars, stores, RowStep

LEMMA CacheSteps == TypeInv /\ [Next]_vars => CacheStep
<1> SUFFICES ASSUME TypeInv, [Next]_vars
             PROVE  CacheStep
  OBVIOUS
<1>1. \A c \in Call : job[c] \in Job
  BY DEF TypeInv, TypeOK
<1>2. ASSUME NEW c \in Call, GetFill(c) \/ UpdateStore(c) PROVE CacheStep
  <2>1. job[c].id \in Id /\ row[c].name \in Name
    BY <1>1, <1>2, JobType DEF GetFill, UpdateStore, At, TypeInv, HoldsName
  <2>2. CacheSet(c, job[c].id) /\ UNCHANGED log
    BY <1>2 DEF GetFill, UpdateStore
  <2>3. ASSUME NEW i \in Id, i # job[c].id PROVE cache'[i] = cache[i]
    BY <2>2, <2>3 DEF CacheSet, TypeInv, TypeOK
  <2>4. \/ cache'[job[c].id] = cache[job[c].id]
        \/ /\ cache'[job[c].id].name = row[c].name
           /\ cache'[job[c].id].ver = row[c].ver
           /\ cache'[job[c].id].at = Version(job[c].id)
    BY <2>1, <2>2 DEF CacheSet, TypeInv, TypeOK
  <2>5. QED
    BY <2>1, <2>2, <2>3, <2>4 DEF CacheStep
<1>3. ASSUME NEW c \in Call, DeleteEvict(c) PROVE CacheStep
  <2>1. job[c].id \in Id
    BY <1>1, <1>3, JobType DEF DeleteEvict, At
  <2>2. QED
    BY <1>3, <2>1 DEF DeleteEvict, CacheDel, CacheStep, TypeInv, TypeOK
<1>4. ASSUME NEW i \in Id, ExpireRow(i) PROVE CacheStep
  BY <1>4 DEF ExpireRow, CacheStep, TypeInv, TypeOK
<1>5. QED
  BY <1>2, <1>3, <1>4
     DEF Next, Serve, Get, List, Update, Delete, GetLookup, GetSelect,
         ListLookup, ListPage, ListCount, ListFill, CreateInsert, UpdateWrite,
         UpdateReread, DeleteWrite, Reply, DbError, Drop, ExpireList,
         vars, stores, CacheStep


\* A call takes its list from the table or from the cache of lists; an entry
\* of that cache goes, or is replaced by the list some call holds.
PageStep ==
    \A c \in Call :
        \/ page'[c].items = page[c].items
        \/ UNCHANGED log /\ \E q : page'[c].items = PageOf(q)
        \/ /\ UNCHANGED log
           /\ \E k \in Keys : lists[k] # NoEntry /\ page'[c] = lists[k].page

ListsStep ==
    \A k \in Keys :
        \/ lists'[k] = lists[k]
        \/ lists'[k] = NoEntry
        \/ UNCHANGED log /\ \E c \in Call : lists'[k].page = page[c]

LEMMA PageSteps == TypeInv /\ [Next]_vars => PageStep
<1> SUFFICES ASSUME TypeInv, [Next]_vars
             PROVE  PageStep
  OBVIOUS
<1>1. \A c \in Call : job[c] \in Job /\ page[c] \in Page
  BY DEF TypeInv, TypeOK
<1>2. ASSUME NEW c \in Call, ListLookup(c) PROVE PageStep
  <2>1. ListKey(job[c].query) \in Keys
    BY <1>1, <1>2, JobType DEF ListLookup, At
  <2>2. \A d \in Call : d # c => page'[d] = page[d]
    BY <1>2 DEF ListLookup, TypeInv, TypeOK
  <2>3. UNCHANGED log
    BY <1>2 DEF ListLookup, stores
  <2>4. \/ page'[c] = page[c]
        \/ /\ lists[ListKey(job[c].query)] # NoEntry
           /\ page'[c] = lists[ListKey(job[c].query)].page
    BY <1>2 DEF ListLookup, TypeInv, TypeOK
  <2>5. QED
    BY <2>1, <2>2, <2>3, <2>4 DEF PageStep
<1>3. ASSUME NEW c \in Call, ListPage(c) PROVE PageStep
  <2>1. page'[c].items = PageOf(Normal(job[c].query))
    BY <1>1, <1>3 DEF ListPage, TypeInv, TypeOK, Page
  <2>2. \A d \in Call : d # c => page'[d] = page[d]
    BY <1>3 DEF ListPage, TypeInv, TypeOK
  <2>3. UNCHANGED log
    BY <1>3 DEF ListPage, stores
  <2>4. QED
    BY <2>1, <2>2, <2>3 DEF PageStep
<1>4. ASSUME NEW c \in Call, ListCount(c) PROVE PageStep
  <2>1. page'[c].items = page[c].items
    BY <1>1, <1>4 DEF ListCount, TypeInv, TypeOK, Page
  <2>2. \A d \in Call : d # c => page'[d] = page[d]
    BY <1>4 DEF ListCount, TypeInv, TypeOK
  <2>3. QED
    BY <2>1, <2>2 DEF PageStep
<1>5. QED
  BY <1>2, <1>3, <1>4
     DEF Next, Serve, Get, List, Update, Delete, GetLookup, GetSelect, GetFill,
         ListFill, CreateInsert, UpdateWrite, UpdateReread, UpdateStore,
         DeleteWrite, DeleteEvict, Reply, DbError, Drop, ExpireRow, ExpireList,
         vars, stores, PageStep

LEMMA ListsSteps == TypeInv /\ [Next]_vars => ListsStep
<1> SUFFICES ASSUME TypeInv, [Next]_vars
             PROVE  ListsStep
  OBVIOUS
<1>1. ASSUME NEW c \in Call, ListFill(c) PROVE ListsStep
  <2> DEFINE key == ListKey(job[c].query)
  <2>1. \A k \in Keys : k # key => lists'[k] = lists[k]
    BY <1>1 DEF ListFill, TypeInv, TypeOK
  <2>2. key \in Keys => lists'[key] = lists[key] \/ lists'[key].page = page[c]
    BY <1>1 DEF ListFill, TypeInv, TypeOK
  <2>3. UNCHANGED log
    BY <1>1 DEF ListFill
  <2>4. QED
    BY <2>1, <2>2, <2>3 DEF ListsStep
<1>2. ASSUME NEW k \in Keys, ExpireList(k) PROVE ListsStep
  BY <1>2 DEF ExpireList, ListsStep, TypeInv, TypeOK
<1>3. QED
  BY <1>1, <1>2
     DEF Next, Serve, Get, List, Update, Delete, GetLookup, GetSelect, GetFill,
         ListLookup, ListPage, ListCount, CreateInsert, UpdateWrite,
         UpdateReread, UpdateStore, DeleteWrite, DeleteEvict, Reply, DbError,
         Drop, ExpireRow, vars, stores, ListsStep

----------------------------------------------------------------------------
(* The history of a row only grows *)

LEMMA CommitLog ==
    ASSUME TypeOK, NEW c \in Call, NEW i \in Id, NEW v \in Name \cup {Absent},
           Commit(c, i, v)
    PROVE  /\ Version(i)' = Version(i) + 1
           /\ log'[i][Version(i) + 1] = v
           /\ \A n \in 1..Version(i) : log'[i][n] = log[i][n]
           /\ \A j \in Id : j # i => log'[j] = log[j]
           /\ wrote'[c] = Version(i) + 1
           /\ \A d \in Call : d # c => wrote'[d] = wrote[d]
<1>1. log[i] \in Seq(Name \cup {Absent}) /\ log'[i] = Append(log[i], v)
  BY DEF TypeOK, Commit
<1>2. QED
  BY <1>1 DEF TypeOK, Commit, Version

LEMMA Grows ==
    ASSUME TypeInv, [Next]_vars, NEW i \in Id
    PROVE  /\ Version(i) \in Nat /\ Version(i)' \in Nat
           /\ Version(i) <= Version(i)'
           /\ \A n \in 1..Version(i) : log'[i][n] = log[i][n]
<1>1. LogStep /\ Version(i) \in Nat
  BY LogSteps, RowType DEF TypeInv
<1>2. CASE UNCHANGED <<log, wrote>>
  BY <1>1, <1>2 DEF Version
<1>3. ASSUME NEW c \in Call, NEW j \in Id, NEW v \in Name \cup {Absent},
             Commit(c, j, v)
      PROVE  /\ Version(i)' \in Nat
             /\ Version(i) <= Version(i)'
             /\ \A n \in 1..Version(i) : log'[i][n] = log[i][n]
  <2>1. CASE i = j
    BY <1>1, <1>3, <2>1, CommitLog DEF TypeInv
  <2>2. CASE i # j
    <3>1. log'[i] = log[i]
      BY <1>3, <2>2, CommitLog DEF TypeInv
    <3>2. QED
      BY <1>1, <3>1 DEF Version
  <2>3. QED
    BY <2>1, <2>2
<1>4. QED
  BY <1>1, <1>2, <1>3 DEF LogStep


----------------------------------------------------------------------------
(* What is answered, cached or listed was stored *)

\* Row i had name v at version n.
Was(i, v, n) == n \in 1..Version(i) /\ log[i][n] = v

CachedWas == \A i \in Id : cache[i] # NoEntry => Was(i, cache[i].name, cache[i].ver)
HeldWas   == \A c \in Call : row[c] # NoRow =>
                 job[c].id \in Id /\ Was(job[c].id, row[c].name, row[c].ver)
ListedWas == \A k \in Keys : lists[k] # NoEntry =>
                 \A e \in lists[k].page.items : e[1] \in Id /\ WasStored(e[1], e[2])
PagedWas  == \A c \in Call :
                 \A e \in page[c].items : e[1] \in Id /\ WasStored(e[1], e[2])

StoredInv == CachedWas /\ HeldWas /\ ListedWas /\ PagedWas

LEMMA WasGrows ==
    ASSUME TypeInv, [Next]_vars, NEW i \in Id, NEW v
    PROVE  /\ \A n : Was(i, v, n) => Was(i, v, n)'
           /\ WasStored(i, v) => WasStored(i, v)'
<1>1. ASSUME NEW n, Was(i, v, n) PROVE Was(i, v, n)'
  BY <1>1, Grows DEF Was
<1>2. ASSUME WasStored(i, v) PROVE WasStored(i, v)'
  BY <1>2, Grows DEF WasStored
<1>3. QED
  BY <1>1, <1>2

\* A row read from the table was stored, in its last version.
LEMMA ReadWas ==
    ASSUME TypeInv, NEW i \in Id, Row(i) # Absent
    PROVE  Was(i, Row(i), Version(i)) /\ WasStored(i, Row(i))
<1>1. log[i] \in Seq(Name \cup {Absent}) /\ log[i] # <<>>
  BY DEF TypeInv, TypeOK, Row
<1>2. Version(i) \in 1..Version(i)
  BY <1>1 DEF Version
<1>3. QED
  BY <1>1, <1>2 DEF Row, Was, WasStored

LEMMA PageWas ==
    ASSUME TypeInv, NEW q, NEW e \in PageOf(q)
    PROVE  e[1] \in Id /\ WasStored(e[1], e[2])
<1>1. PICK i \in Matching(q.search) : e = <<i, Row(i)>>
  BY DEF PageOf
<1>2. i \in Id /\ Row(i) # Absent
  BY DEF Matching, Present
<1>3. QED
  BY <1>1, <1>2, ReadWas

LEMMA InitStored == Init => StoredInv
<1> SUFFICES ASSUME Init PROVE StoredInv
  OBVIOUS
<1>1. CachedWas
  <2>1. TypeInv
    BY InitType
  <2>2. \A i \in Present : Was(i, Row(i), Version(i))
    BY <2>1, ReadWas DEF Present
  <2>3. QED
    BY <2>2 DEF Init, CachedWas, Fresh
<1>2. HeldWas /\ ListedWas /\ PagedWas
  BY DEF Init, HeldWas, ListedWas, PagedWas, NoPage
<1>3. QED
  BY <1>1, <1>2 DEF StoredInv

LEMMA NextStored == TypeInv /\ TypeInv' /\ StoredInv /\ [Next]_vars => StoredInv'
<1> SUFFICES ASSUME TypeInv, TypeInv', StoredInv, [Next]_vars
             PROVE  StoredInv'
  OBVIOUS
<1>a. job' = job
  BY DEF Next, Serve, Get, List, Update, Delete, GetLookup, GetSelect, GetFill,
         ListLookup, ListPage, ListCount, ListFill, CreateInsert, UpdateWrite,
         UpdateReread, UpdateStore, DeleteWrite, DeleteEvict, Reply, DbError,
         Drop, ExpireRow, ExpireList, vars
<1>b. CacheStep /\ RowStep /\ PageStep /\ ListsStep
  BY CacheSteps, RowSteps, PageSteps, ListsSteps
<1>1. CachedWas'
  <2> SUFFICES ASSUME NEW i \in Id, cache'[i] # NoEntry
               PROVE  Was(i, cache[i].name, cache[i].ver)'
    BY DEF CachedWas
  <2>1. CASE cache'[i] = cache[i]
    BY <2>1, WasGrows DEF StoredInv, CachedWas
  <2>2. ASSUME NEW c \in Call, job[c].id = i, row[c].name \in Name,
               cache'[i].name = row[c].name, cache'[i].ver = row[c].ver
        PROVE  Was(i, cache[i].name, cache[i].ver)'
    <3>1. row[c] # NoRow
      BY <2>2, CategoryAssumption DEF NoRow
    <3>2. Was(i, row[c].name, row[c].ver)
      BY <2>2, <3>1 DEF StoredInv, HeldWas
    <3>3. QED
      BY <2>2, <3>2, Grows DEF Was
  <2>3. QED
    BY <1>b, <2>1, <2>2 DEF CacheStep
<1>2. HeldWas'
  <2> SUFFICES ASSUME NEW c \in Call, row'[c] # NoRow
               PROVE  job[c].id \in Id /\ Was(job[c].id, row[c].name, row[c].ver)'
    BY <1>a DEF HeldWas
  <2>1. CASE row'[c] = row[c]
    <3>1. job[c].id \in Id /\ Was(job[c].id, row[c].name, row[c].ver)
      BY <2>1 DEF StoredInv, HeldWas
    <3>2. QED
      BY <1>a, <2>1, <3>1, Grows DEF Was
  <2>2. CASE /\ job[c].id \in Id
             /\ Row(job[c].id) # Absent
             /\ row'[c] = [name |-> Row(job[c].id), ver |-> Version(job[c].id)]
    BY <1>a, <2>2, ReadWas, Grows DEF Was
  <2>3. CASE /\ job[c].id \in Id
             /\ cache[job[c].id] # NoEntry
             /\ row'[c] = [name |-> cache[job[c].id].name,
                           ver |-> cache[job[c].id].ver]
    <3>1. Was(job[c].id, cache[job[c].id].name, cache[job[c].id].ver)
      BY <2>3 DEF StoredInv, CachedWas
    <3>2. QED
      BY <1>a, <2>3, <3>1, Grows DEF Was
  <2>4. QED
    BY <1>b, <2>1, <2>2, <2>3 DEF RowStep
<1>3. ListedWas'
  <2> SUFFICES ASSUME NEW k \in Keys, lists'[k] # NoEntry,
                      NEW e \in lists'[k].page.items
               PROVE  e[1] \in Id /\ WasStored(e[1], e[2])'
    BY DEF ListedWas
  <2>1. e[1] \in Id /\ WasStored(e[1], e[2])
    BY <1>b DEF ListsStep, StoredInv, ListedWas, PagedWas
  <2>2. QED
    BY <2>1, WasGrows
<1>4. PagedWas'
  <2> SUFFICES ASSUME NEW c \in Call, NEW e \in page'[c].items
               PROVE  e[1] \in Id /\ WasStored(e[1], e[2])'
    BY DEF PagedWas
  <2>1. e[1] \in Id /\ WasStored(e[1], e[2])
    BY <1>b, PageWas DEF PageStep, StoredInv, ListedWas, PagedWas
  <2>2. QED
    BY <2>1, WasGrows
<1>5. QED
  BY <1>1, <1>2, <1>3, <1>4 DEF StoredInv

\* No answer, cache entry or list ever holds a category's value that its row
\* did not have: calls, faults and expiries in any order cannot mix rows up.
THEOREM OnlyStoredAnswers == Spec => []AnswersWereStored
<1>1. StoredInv => AnswersWereStored
  BY DEF StoredInv, CachedWas, HeldWas, ListedWas, PagedWas, AnswersWereStored, Was
<1>2. Spec => [](TypeInv /\ StoredInv)
  BY InitType, NextType, InitStored, NextStored, PTL DEF Spec
<1>3. QED
  BY <1>1, <1>2, PTL


----------------------------------------------------------------------------
(* Writes: one version each, and none after a delete *)

Writes(c) == job[c].op \in {"update", "delete"}

\* Where a call stands tells whether it has written and been answered.
Progress ==
    \A c \in Call :
        /\ pc[c] = "start" => wrote[c] = 0
        /\ pc[c] \notin {"reply", "done"} => outcome[c] = "none"
        /\ Writes(c) /\ (pc[c] \in {"reread", "store", "evict"} \/ outcome[c] = "ok")
              => wrote[c] > 0

\* The version a write made is in the history of its row ...
WroteIt ==
    \A c \in Call : Writes(c) /\ wrote[c] > 0 =>
        /\ job[c].id \in Id
        /\ wrote[c] <= Version(job[c].id)
        /\ job[c].op = "delete" => log[job[c].id][wrote[c]] = Absent

\* ... and no two writes made the same one.
OneWriter ==
    \A c, d \in Call :
        /\ Writes(c) /\ Writes(d)
        /\ job[c].id = job[d].id
        /\ wrote[c] > 0 /\ wrote[c] = wrote[d]
        => c = d

WriteInv == Progress /\ WroteIt /\ OneWriter /\ DeletedStaysDeleted

LEMMA InitWrite == Init => WriteInv
<1> SUFFICES ASSUME Init PROVE WriteInv
  OBVIOUS
<1>1. Progress /\ WroteIt /\ OneWriter
  BY DEF Init, Progress, WroteIt, OneWriter
<1>2. DeletedStaysDeleted
  <2> SUFFICES ASSUME NEW i \in Id, NEW n \in 1..Version(i) - 1 PROVE FALSE
    BY DEF DeletedStaysDeleted
  <2>1. log[i] \in {<<>>} \cup {<<m>> : m \in Name}
    BY DEF Init
  <2>2. Version(i) \in {0, 1}
    BY <2>1 DEF Version
  <2>3. QED
    BY <2>2
<1>3. QED
  BY <1>1, <1>2 DEF WriteInv

LEMMA NextProgress == TypeInv /\ Progress /\ [Next]_vars => Progress'
<1> SUFFICES ASSUME TypeInv, Progress, [Next]_vars
             PROVE  Progress'
  OBVIOUS
<1>1. ASSUME NEW c \in Call, CreateInsert(c) \/ UpdateWrite(c) \/ DeleteWrite(c)
      PROVE  Progress'
  <2>1. \A d \in Call : d # c => /\ pc'[d] = pc[d] /\ outcome'[d] = outcome[d]
                                 /\ wrote'[d] = wrote[d]
    BY <1>1 DEF CreateInsert, UpdateWrite, DeleteWrite, Commit, Goto, Finish,
                TypeInv, TypeOK
  <2>2. job' = job
    BY <1>1 DEF CreateInsert, UpdateWrite, DeleteWrite
  <2>3. outcome[c] = "none"
    BY <1>1 DEF CreateInsert, UpdateWrite, DeleteWrite, At, Progress
  <2>4. \/ pc'[c] = "reply" /\ outcome'[c] = "internal"
        \/ /\ pc'[c] \in {"reread", "evict"} /\ outcome'[c] = "none"
           /\ wrote'[c] = Version(job[c].id) + 1 /\ job[c].id \in Id
    <3>1. CreateInsert(c) => pc'[c] = "reply" /\ outcome'[c] = "internal"
      BY DEF CreateInsert, Finish, TypeInv, TypeOK
    <3>2. job[c] \in Job
      BY DEF TypeInv, TypeOK
    <3>3. UpdateWrite(c) \/ DeleteWrite(c) => job[c].id \in Id
      BY <3>2, JobType DEF UpdateWrite, DeleteWrite, At
    <3>4. QED
      BY <1>1, <2>3, <3>1, <3>3
         DEF UpdateWrite, DeleteWrite, Commit, Goto, Finish, TypeInv, TypeOK
  <2>5. QED
    BY <2>1, <2>2, <2>4, RowType DEF Progress, Writes, TypeInv
<1>2. ASSUME NEW c \in Call,
             \/ GetLookup(c) \/ GetSelect(c) \/ GetFill(c)
             \/ ListLookup(c) \/ ListPage(c) \/ ListCount(c) \/ ListFill(c)
      PROVE  Progress'
  BY <1>2 DEF GetLookup, GetSelect, GetFill, ListLookup, ListPage, ListCount,
              ListFill, At, Goto, Finish, Progress, Writes, TypeInv, TypeOK
<1>3. ASSUME NEW c \in Call, UpdateReread(c) \/ UpdateStore(c) \/ DeleteEvict(c)
      PROVE  Progress'
  BY <1>3 DEF UpdateReread, UpdateStore, DeleteEvict, At, Goto, Finish, Progress,
              Writes, TypeInv, TypeOK
<1>4. ASSUME NEW c \in Call, Reply(c) \/ DbError(c) \/ Drop(c)
      PROVE  Progress'
  BY <1>4 DEF Reply, DbError, Drop, Finish, Progress, Writes, TypeInv, TypeOK
<1>5. CASE UNCHANGED <<job, pc, wrote, outcome>>
  BY <1>5 DEF Progress, Writes
<1>6. QED
  BY <1>1, <1>2, <1>3, <1>4, <1>5
     DEF Next, Serve, Get, List, Update, Delete, ExpireRow, ExpireList, vars


LEMMA JobKept == [Next]_vars => job' = job
  BY DEF Next, Serve, Get, List, Update, Delete, GetLookup, GetSelect, GetFill,
         ListLookup, ListPage, ListCount, ListFill, CreateInsert, UpdateWrite,
         UpdateReread, UpdateStore, DeleteWrite, DeleteEvict, Reply, DbError,
         Drop, ExpireRow, ExpireList, vars

LEMMA NextWrite == TypeInv /\ WriteInv /\ [Next]_vars => WriteInv'
<1> SUFFICES ASSUME TypeInv, WriteInv, [Next]_vars
             PROVE  WriteInv'
  OBVIOUS
<1>1. Progress'
  BY NextProgress DEF WriteInv
<1>2. job' = job /\ LogStep
  BY JobKept, LogSteps
<1>3. CASE UNCHANGED <<log, wrote>>
  <2>1. (WroteIt /\ OneWriter /\ DeletedStaysDeleted)'
    BY <1>2, <1>3
       DEF WriteInv, WroteIt, OneWriter, DeletedStaysDeleted, Writes, Version
  <2>2. QED
    BY <1>1, <2>1 DEF WriteInv
<1>4. ASSUME NEW c \in Call, NEW i \in Id, NEW v \in Name \cup {Absent},
             Commit(c, i, v),
             log[i] = <<>> \/ Row(i) # Absent,
             pc[c] = "start",
             Writes(c) => i = job[c].id /\ (job[c].op = "delete" => v = Absent)
      PROVE  (WroteIt /\ OneWriter /\ DeletedStaysDeleted)'
  <2>1. /\ Version(i) \in Nat
        /\ Version(i)' = Version(i) + 1
        /\ log'[i][Version(i) + 1] = v
        /\ \A n \in 1..Version(i) : log'[i][n] = log[i][n]
        /\ \A j \in Id : j # i => log'[j] = log[j]
        /\ wrote'[c] = Version(i) + 1
        /\ \A d \in Call : d # c => wrote'[d] = wrote[d]
    BY <1>4, CommitLog, RowType DEF TypeInv
  <2>2. \A d \in Call : Writes(d)' = Writes(d)
    BY <1>2 DEF Writes
  <2>3. \A d \in Call : wrote[d] \in Nat
    BY DEF TypeInv, TypeOK
  <2>4. WroteIt'
    <3>1. ASSUME NEW d \in Call, Writes(d), wrote'[d] > 0
          PROVE  /\ job[d].id \in Id
                 /\ wrote'[d] <= Len(log'[job[d].id])
                 /\ job[d].op = "delete" => log'[job[d].id][wrote'[d]] = Absent
      <4>1. CASE d = c
        BY <1>4, <2>1, <3>1, <4>1 DEF Version
      <4>2. CASE d # c
        <5>1. /\ job[d].id \in Id
              /\ wrote[d] <= Version(job[d].id)
              /\ job[d].op = "delete" => log[job[d].id][wrote[d]] = Absent
          BY <2>1, <3>1, <4>2 DEF WriteInv, WroteIt
        <5>2. wrote'[d] = wrote[d] /\ wrote[d] \in 1..Version(job[d].id)
          BY <2>1, <2>3, <3>1, <4>2, <5>1, RowType DEF TypeInv
        <5> DEFINE k == job[d].id
        <5>3. /\ Version(k) \in Nat /\ Len(log'[k]) \in Nat
              /\ Version(k) <= Len(log'[k])
              /\ \A n \in 1..Version(k) : log'[k][n] = log[k][n]
          BY <5>1, Grows DEF Version
        <5>4. QED
          BY <5>1, <5>2, <5>3
      <4>3. QED
        BY <4>1, <4>2
    <3>2. QED
      BY <1>2, <2>2, <3>1 DEF WroteIt, Version
  <2>5. OneWriter'
    <3>1. ASSUME NEW d \in Call, Writes(c), Writes(d), d # c, job[d].id = i,
                 wrote[d] > 0
          PROVE  wrote[d] < wrote'[c]
      BY <2>1, <2>3, <3>1 DEF WriteInv, WroteIt
    <3>2. QED
      BY <1>2, <1>4, <2>1, <2>2, <2>3, <3>1 DEF WriteInv, OneWriter
  <2>6. DeletedStaysDeleted'
    <3> SUFFICES ASSUME NEW j \in Id, NEW n \in 1..Version(j)' - 1
                 PROVE  log'[j][n] # Absent
      BY DEF DeletedStaysDeleted
    <3>1. CASE j # i
      BY <2>1, <3>1 DEF WriteInv, DeletedStaysDeleted, Version
    <3>2. CASE j = i /\ n # Version(i)
      <4>1. n \in 1..Version(i) - 1
        BY <2>1, <3>2
      <4>2. QED
        BY <2>1, <3>2, <4>1 DEF WriteInv, DeletedStaysDeleted
    <3>3. CASE j = i /\ n = Version(i)
      <4>1. log[i] # <<>> /\ Row(i) # Absent
        BY <1>4, <2>1, <3>3 DEF Version
      <4>2. QED
        BY <2>1, <3>3, <4>1 DEF Row
    <3>4. QED
      BY <3>1, <3>2, <3>3
  <2>7. QED
    BY <2>4, <2>5, <2>6
<1>5. QED
  BY <1>1, <1>2, <1>3, <1>4 DEF LogStep, WriteInv, Writes

\* No update brings a deleted category back.
THEOREM NoResurrection == Spec => []DeletedStaysDeleted
<1>1. Spec => [](TypeInv /\ WriteInv)
  BY InitType, NextType, InitWrite, NextWrite, PTL DEF Spec
<1>2. QED
  BY <1>1, PTL DEF WriteInv

\* Two deletes that both succeed would be two tombstones in one history.
THEOREM OneDelete == Spec => []AtMostOneDeleteSucceeds
<1>1. ASSUME TypeInv, WriteInv PROVE AtMostOneDeleteSucceeds
  <2> SUFFICES ASSUME NEW c \in Call, NEW d \in Call,
                      job[c].op = "delete", outcome[c] = "ok",
                      job[d].op = "delete", outcome[d] = "ok",
                      job[c].id = job[d].id
               PROVE  c = d
    BY DEF AtMostOneDeleteSucceeds
  <2> DEFINE i == job[c].id
  <2>1. /\ i \in Id
        /\ wrote[c] \in 1..Version(i) /\ log[i][wrote[c]] = Absent
        /\ wrote[d] \in 1..Version(i) /\ log[i][wrote[d]] = Absent
    BY <1>1, RowType DEF WriteInv, Progress, WroteIt, Writes, TypeInv, TypeOK
  <2>2. Version(i) \in Nat
    BY <1>1, <2>1, RowType DEF TypeInv
  <2>3. wrote[c] = Version(i) /\ wrote[d] = Version(i)
    BY <1>1, <2>1, <2>2 DEF WriteInv, DeletedStaysDeleted
  <2>4. QED
    BY <1>1, <2>1, <2>3 DEF WriteInv, OneWriter, Writes
<1>2. Spec => [](TypeInv /\ WriteInv)
  BY InitType, NextType, InitWrite, NextWrite, PTL DEF Spec
<1>3. QED
  BY <1>1, <1>2, PTL


----------------------------------------------------------------------------
(* What an update answers, and what an acknowledged write leaves cached *)

FreshInv ==
    \A c \in Call : job[c].op = "update" /\ (pc[c] = "store" \/ outcome[c] = "ok")
        => wrote[c] > 0 /\ row[c].ver >= wrote[c]

LEMMA NextFresh ==
    TypeInv /\ WriteInv /\ FreshInv /\ [Next]_vars => FreshInv'
<1> SUFFICES ASSUME TypeInv, WriteInv, FreshInv, [Next]_vars
             PROVE  FreshInv'
  OBVIOUS
<1>1. ASSUME NEW c \in Call, UpdateReread(c) PROVE FreshInv'
  <2> DEFINE i == job[c].id
  <2>1. /\ job[c].op = "update" /\ i \in Id
        /\ wrote[c] > 0 /\ wrote[c] <= Version(i) /\ wrote[c] \in Nat
    BY <1>1 DEF UpdateReread, At, WriteInv, Progress, WroteIt, Writes, TypeInv, TypeOK
  <2>2. outcome[c] = "none"
    BY <1>1 DEF UpdateReread, At, WriteInv, Progress
  <2>3. pc'[c] = "store" => row'[c].ver = Version(i)
    BY <1>1 DEF UpdateReread, Hold, Goto, Finish, TypeInv, TypeOK
  <2>4. outcome'[c] # "ok"
    BY <1>1, <2>2 DEF UpdateReread, Goto, Finish, TypeInv, TypeOK
  <2>5. \A d \in Call : d # c => /\ row'[d] = row[d] /\ pc'[d] = pc[d]
                                 /\ outcome'[d] = outcome[d]
    BY <1>1 DEF UpdateReread, Hold, Goto, Finish, TypeInv, TypeOK
  <2>6. job' = job /\ wrote' = wrote
    BY <1>1 DEF UpdateReread
  <2>7. QED
    BY <2>1, <2>3, <2>4, <2>5, <2>6 DEF FreshInv
<1>2. ASSUME NEW c \in Call, GetLookup(c) \/ GetSelect(c) PROVE FreshInv'
  BY <1>2 DEF GetLookup, GetSelect, At, Hold, Goto, Finish, FreshInv, TypeInv, TypeOK
<1>3. ASSUME NEW c \in Call,
             \/ GetFill(c) \/ ListLookup(c) \/ ListPage(c) \/ ListCount(c)
             \/ ListFill(c) \/ UpdateStore(c) \/ DeleteEvict(c)
             \/ Reply(c) \/ DbError(c) \/ Drop(c)
      PROVE  FreshInv'
  BY <1>3 DEF GetFill, ListLookup, ListPage, ListCount, ListFill, UpdateStore,
              DeleteEvict, Reply, DbError, Drop, At, Goto, Finish, FreshInv,
              TypeInv, TypeOK
<1>4. ASSUME NEW c \in Call, CreateInsert(c) \/ UpdateWrite(c) \/ DeleteWrite(c)
      PROVE  FreshInv'
  <2>1. \A d \in Call : d # c => /\ pc'[d] = pc[d] /\ outcome'[d] = outcome[d]
                                 /\ wrote'[d] = wrote[d]
    BY <1>4 DEF CreateInsert, UpdateWrite, DeleteWrite, Commit, Goto, Finish,
                TypeInv, TypeOK
  <2>2. job' = job /\ row' = row
    BY <1>4 DEF CreateInsert, UpdateWrite, DeleteWrite
  <2>3. outcome[c] = "none"
    BY <1>4 DEF CreateInsert, UpdateWrite, DeleteWrite, At, WriteInv, Progress
  <2>4. pc'[c] # "store" /\ outcome'[c] # "ok"
    BY <1>4, <2>3 DEF CreateInsert, UpdateWrite, DeleteWrite, Goto, Finish,
                      TypeInv, TypeOK
  <2>5. QED
    BY <2>1, <2>2, <2>4 DEF FreshInv
<1>5. CASE UNCHANGED <<job, pc, row, wrote, outcome>>
  BY <1>5 DEF FreshInv
<1>6. QED
  BY <1>1, <1>2, <1>3, <1>4, <1>5
     DEF Next, Serve, Get, List, Update, Delete, ExpireRow, ExpireList, vars

LEMMA SpecWrite == Spec => [](TypeInv /\ WriteInv)
  BY InitType, NextType, InitWrite, NextWrite, PTL DEF Spec

\* An update answers with the row as its own write, or a later one, left it.
THEOREM FreshUpdates == Spec => []UpdateAnswerIsFresh
<1>1. Init => FreshInv
  BY DEF Init, FreshInv
<1>2. FreshInv => UpdateAnswerIsFresh
  BY DEF FreshInv, UpdateAnswerIsFresh
<1>3. QED
  BY <1>1, <1>2, SpecWrite, NextFresh, PTL DEF Spec

\* Call c has been told its write was done, and Redis took its update.
Acked(c) == Writes(c) /\ outcome[c] = "ok" /\ ~lost[c]

LEMMA AckSteps ==
    ASSUME TypeInv, WriteInv, [Next]_vars, NEW c \in Call, Acked(c)'
    PROVE  /\ wrote'[c] = wrote[c] /\ wrote[c] > 0
           /\ \/ Acked(c)
              \/ cache'[job[c].id] = NoEntry
              \/ UNCHANGED log /\ cache'[job[c].id].at = Version(job[c].id)
<1> DEFINE G == /\ wrote'[c] = wrote[c] /\ wrote[c] > 0
                /\ \/ Acked(c)
                   \/ cache'[job[c].id] = NoEntry
                   \/ UNCHANGED log /\ cache'[job[c].id].at = Version(job[c].id)
<1>1. job' = job /\ Writes(c) /\ outcome'[c] = "ok" /\ ~lost'[c]
  BY JobKept DEF Acked, Writes
<1>2. outcome[c] = "ok" => wrote[c] > 0
  BY <1>1 DEF WriteInv, Progress
<1>3. ASSUME NEW d \in Call, CreateInsert(d) \/ UpdateWrite(d) \/ DeleteWrite(d)
      PROVE  G
  <2>1. outcome[d] = "none"
    BY <1>3 DEF CreateInsert, UpdateWrite, DeleteWrite, At, WriteInv, Progress
  <2>2. outcome'[d] # "ok"
    BY <1>3, <2>1 DEF CreateInsert, UpdateWrite, DeleteWrite, Goto, Finish,
                      TypeInv, TypeOK
  <2>3. d # c
    BY <1>1, <2>2
  <2>4. wrote'[c] = wrote[c] /\ outcome'[c] = outcome[c] /\ lost' = lost
    BY <1>3, <2>3 DEF CreateInsert, UpdateWrite, DeleteWrite, Commit, Goto, Finish,
                      TypeInv, TypeOK
  <2>5. QED
    BY <1>1, <1>2, <2>4 DEF Acked
<1>4. ASSUME NEW d \in Call, UpdateStore(d)
      PROVE  G
  <2>1. d # c => outcome'[c] = outcome[c] /\ (~lost'[c] => ~lost[c])
    BY <1>4 DEF UpdateStore, CacheSet, Finish, TypeInv, TypeOK
  <2>2. d = c => wrote[c] > 0
    BY <1>1, <1>4 DEF UpdateStore, At, WriteInv, Progress
  <2>3. d = c => job[c].id \in Id
    BY <1>1, <2>2 DEF WriteInv, WroteIt
  <2>4. d = c => cache'[job[c].id].at = Version(job[c].id)
    BY <1>1, <1>4, <2>3 DEF UpdateStore, CacheSet, TypeInv, TypeOK
  <2>5. wrote' = wrote /\ log' = log
    BY <1>4 DEF UpdateStore
  <2>6. QED
    BY <1>1, <1>2, <2>1, <2>2, <2>4, <2>5 DEF Acked
<1>5. ASSUME NEW d \in Call, DeleteEvict(d)
      PROVE  G
  <2>1. d # c => outcome'[c] = outcome[c] /\ (~lost'[c] => ~lost[c])
    BY <1>5 DEF DeleteEvict, CacheDel, Finish, TypeInv, TypeOK
  <2>2. d = c => wrote[c] > 0
    BY <1>1, <1>5 DEF DeleteEvict, At, WriteInv, Progress
  <2>3. d = c => job[c].id \in Id
    BY <1>1, <2>2 DEF WriteInv, WroteIt
  <2>4. d = c => cache'[job[c].id] = NoEntry
    BY <1>1, <1>5, <2>3 DEF DeleteEvict, CacheDel, TypeInv, TypeOK
  <2>5. wrote' = wrote
    BY <1>5 DEF DeleteEvict
  <2>6. QED
    BY <1>1, <1>2, <2>1, <2>2, <2>4, <2>5 DEF Acked
<1>6. ASSUME NEW d \in Call,
             \/ GetLookup(d) \/ GetSelect(d) \/ GetFill(d) \/ ListLookup(d)
             \/ ListPage(d) \/ ListCount(d) \/ ListFill(d) \/ UpdateReread(d)
             \/ Reply(d) \/ DbError(d) \/ Drop(d)
      PROVE  G
  <2>1. wrote' = wrote
    BY <1>6 DEF GetLookup, GetSelect, GetFill, ListLookup, ListPage, ListCount,
                ListFill, UpdateReread, Reply, DbError, Drop
  <2>2. outcome[c] = "ok" /\ ~lost[c]
    BY <1>1, <1>6
       DEF GetLookup, GetSelect, GetFill, ListLookup, ListPage, ListCount, ListFill,
           UpdateReread, Reply, DbError, Drop, At, Goto, Finish, CacheSet, Writes,
           TypeInv, TypeOK
  <2>3. QED
    BY <1>1, <1>2, <2>1, <2>2 DEF Acked
<1>7. CASE UNCHANGED <<wrote, outcome, lost>>
  BY <1>1, <1>2, <1>7 DEF Acked
<1>8. QED
  BY <1>3, <1>4, <1>5, <1>6, <1>7
     DEF Next, Serve, Get, List, Update, Delete, ExpireRow, ExpireList, vars

AckInv ==
    \A c \in Call : Acked(c) =>
        cache[job[c].id] = NoEntry \/ cache[job[c].id].at >= wrote[c]

LEMMA NextAck == TypeInv /\ WriteInv /\ AckInv /\ [Next]_vars => AckInv'
<1> SUFFICES ASSUME TypeInv, WriteInv, AckInv, [Next]_vars,
                    NEW c \in Call, Acked(c)'
             PROVE  cache'[job[c].id] = NoEntry \/ cache'[job[c].id].at >= wrote'[c]
  BY JobKept DEF AckInv
<1> DEFINE i == job[c].id
<1>1. wrote'[c] = wrote[c] /\ wrote[c] > 0 /\ wrote[c] \in Nat
  BY AckSteps DEF TypeInv, TypeOK
<1>2. i \in Id /\ wrote[c] <= Version(i) /\ Version(i) \in Nat
  BY <1>1, JobKept, RowType DEF Acked, Writes, WriteInv, WroteIt, TypeInv
<1>3. CASE Acked(c) /\ cache'[i] = cache[i]
  BY <1>1, <1>3 DEF AckInv
<1>4. CASE cache'[i].at = Version(i)
  BY <1>1, <1>2, <1>4
<1>5. QED
  BY <1>2, <1>3, <1>4, AckSteps, CacheSteps DEF CacheStep

\* Whatever races and faults there are, an acknowledged write whose update of
\* the cache was taken leaves nothing older than itself cached, unless that is
\* stored afresh after it.
THEOREM AckedWrites == Spec => []AckedWriteReachesCache
<1>1. Init => AckInv
  BY DEF Init, AckInv, Acked, Writes
<1>2. AckInv => AckedWriteReachesCache
  BY DEF AckInv, Acked, Writes, AckedWriteReachesCache
<1>3. QED
  BY <1>1, <1>2, SpecWrite, NextAck, PTL DEF Spec

----------------------------------------------------------------------------
(* The arithmetic of a page *)

\* A number that is an i32 stays what it is.
LEMMA WrappedInt == ASSUME NEW n \in Int PROVE Wrapped(n) \in Int
<1>1. n + MaxInt + 1 \in Int /\ 2 * (MaxInt + 1) \in Nat \ {0}
  BY PagingAssumption
<1>2. \A a \in Int, b \in Nat \ {0} : a % b \in Int
  OBVIOUS
<1>3. (n + MaxInt + 1) % (2 * (MaxInt + 1)) \in Int
  BY <1>1, <1>2
<1>4. QED
  BY <1>3, PagingAssumption DEF Wrapped

LEMMA WrappedInRange == ASSUME NEW n \in 0..MaxInt PROVE Wrapped(n) = n
<1>1. /\ n + MaxInt + 1 \in Nat /\ 2 * (MaxInt + 1) \in Nat \ {0}
      /\ n + MaxInt + 1 < 2 * (MaxInt + 1)
  BY PagingAssumption
<1>2. \A a \in Nat, b \in Nat \ {0} : a < b => a % b = a
  OBVIOUS
<1>3. (n + MaxInt + 1) % (2 * (MaxInt + 1)) = n + MaxInt + 1
  BY <1>1, <1>2
<1>4. QED
  BY <1>3, PagingAssumption DEF Wrapped

\* A page number and a size that were put right are positive.
LEMMA NormalType ==
    ASSUME NEW q \in Query
    PROVE  /\ Normal(q).page \in Nat \ {0}
           /\ Normal(q).size \in Nat \ {0}
           /\ Normal(q).search \in Search
  BY PagingAssumption DEF Query, Normal, Int32

LEMMA ProductType ==
    ASSUME NEW p \in Nat \ {0}, NEW s \in Nat \ {0}
    PROVE  (p - 1) * s \in Nat
<1>1. \A a, b \in Nat : a * b \in Nat
  OBVIOUS
<1>2. QED
  BY <1>1

\* The offset of a page that is in range is not wrapped ...
LEMMA OffsetInRange ==
    ASSUME NEW q, q.page \in Nat \ {0}, q.size \in Nat \ {0}, InRange(q)
    PROVE  Offset(q.page, q.size) = (q.page - 1) * q.size
<1> DEFINE n == (q.page - 1) * q.size
<1>1. n \in Nat
  BY ProductType
<1>2. n <= MaxInt
  BY DEF InRange
<1>3. n \in 0..MaxInt
  BY <1>1, <1>2, PagingAssumption
<1> HIDE DEF n
<1>4. Wrapped(n) = n
  BY <1>3, WrappedInRange
<1>5. QED
  BY <1>4 DEF Offset, n

\* ... and every page that the total announces is in range.
LEMMA AnnouncedInRange ==
    ASSUME NEW q, q.page \in Nat \ {0}, q.size \in Nat \ {0},
           NEW total \in 0..MaxInt, q.page <= TotalPages(total, q.size)
    PROVE  InRange(q)
<1>1. \A a \in Nat, b \in Nat \ {0} : (a \div b) \in Nat /\ b * (a \div b) <= a
  OBVIOUS
<1> DEFINE d == (total + q.size - 1) \div q.size
<1>2. d \in Nat /\ q.size * d <= total + q.size - 1
  BY <1>1
<1>3. q.page <= d
  BY DEF TotalPages
<1> HIDE DEF d
<1>4. \A a, b, s \in Nat : a <= b => s * a <= s * b
  OBVIOUS
<1>5. q.size * q.page <= q.size * d
  BY <1>2, <1>3, <1>4
<1>6. (q.page - 1) * q.size = q.size * q.page - q.size
  OBVIOUS
<1>7. q.size * q.page \in Nat /\ q.size * d \in Nat
  <2>1. \A a, b \in Nat : a * b \in Nat
    OBVIOUS
  <2>2. QED
    BY <1>2, <2>1
<1>8. QED
  BY <1>2, <1>5, <1>6, <1>7, PagingAssumption DEF InRange

----------------------------------------------------------------------------
(* The rows of a page, counted *)

\* The rank of i among the members of a set of numbers: how many are smaller.
RankIn(S, i) == Cardinality({j \in S : j < i})

LEMMA RankGrows ==
    ASSUME NEW S \in SUBSET Nat, IsFiniteSet(S), NEW i \in S, NEW k \in S, i < k
    PROVE  RankIn(S, i) < RankIn(S, k)
<1> DEFINE A == {j \in S : j < i}
           B == {j \in S : j < k}
<1>1. B \in SUBSET S /\ A \in SUBSET B
  <2>1. \A j \in S : j < i => j < k
    OBVIOUS
  <2>2. QED
    BY <2>1
<1>2. A # B
  <2>1. i \in B /\ i \notin A
    OBVIOUS
  <2>2. QED
    BY <2>1
<1> HIDE DEF A, B
<1>3. IsFiniteSet(B)
  BY <1>1, FS_Subset
<1>4. /\ IsFiniteSet(A)
      /\ Cardinality(A) <= Cardinality(B) /\ Cardinality(A) # Cardinality(B)
  BY <1>1, <1>2, <1>3, FS_Subset
<1>5. Cardinality(A) \in Nat /\ Cardinality(B) \in Nat
  BY <1>3, <1>4, FS_CardinalityType
<1>6. QED
  BY <1>4, <1>5 DEF RankIn, A, B

\* The members of a finite set of numbers have the ranks from 0 on, each one.
LEMMA RankBijection ==
    ASSUME NEW S \in SUBSET Nat, IsFiniteSet(S)
    PROVE  /\ Cardinality(S) \in Nat
           /\ [i \in S |-> RankIn(S, i)] \in Bijection(S, 0..Cardinality(S) - 1)
<1> DEFINE n == Cardinality(S)
           f == [i \in S |-> RankIn(S, i)]
<1>1. n \in Nat
  BY FS_CardinalityType
<1>2. ASSUME NEW i \in S PROVE RankIn(S, i) \in 0..n - 1
  <2> DEFINE A == {j \in S : j < i}
  <2>1. A \in SUBSET S /\ i \notin A
    OBVIOUS
  <2>2. A # S
    BY <2>1
  <2> HIDE DEF A
  <2>3. IsFiniteSet(A) /\ Cardinality(A) <= n /\ Cardinality(A) # n
    BY <2>1, <2>2, FS_Subset
  <2>4. Cardinality(A) \in Nat
    BY <2>3, FS_CardinalityType
  <2>5. QED
    BY <1>1, <2>3, <2>4 DEF RankIn, A
<1>3. f \in [S -> 0..n - 1]
  BY <1>2
<1>4. \A i, k \in S : f[i] = f[k] => i = k
  <2> SUFFICES ASSUME NEW i \in S, NEW k \in S, i # k PROVE f[i] # f[k]
    OBVIOUS
  <2>1. RankIn(S, i) \in Int /\ RankIn(S, k) \in Int
    BY <1>2
  <2>2. CASE i < k
    BY <2>1, <2>2, RankGrows
  <2>3. CASE k < i
    BY <2>1, <2>3, RankGrows
  <2>4. QED
    BY <2>2, <2>3
<1> HIDE DEF f
<1>5. f \in Injection(S, 0..n - 1)
  BY <1>3, <1>4 DEF Injection, IsInjective
<1> HIDE DEF n
<1>6. IsFiniteSet(0..n - 1) /\ Cardinality(0..n - 1) = n
  <2>1. 0 \in Int /\ n - 1 \in Int
    BY <1>1
  <2>2. Cardinality(0..n - 1) = IF 0 > n - 1 THEN 0 ELSE (n - 1) - 0 + 1
    BY <2>1, FS_Interval
  <2>3. IsFiniteSet(0..n - 1)
    BY <2>1, FS_Interval
  <2>4. QED
    BY <1>1, <2>2, <2>3
<1>7. f \in Surjection(S, 0..n - 1)
  BY <1>5, <1>6, FS_Injection DEF n
<1>8. QED
  BY <1>1, <1>5, <1>7 DEF Bijection, f, n

\* A window of b ranks from a on: never more than b members of the set, and
\* when a is not negative just those that are left from there.
LEMMA WindowSize ==
    ASSUME NEW S \in SUBSET Nat, IsFiniteSet(S), NEW a \in Int, NEW b \in Nat \ {0}
    PROVE  LET P    == {i \in S : a <= RankIn(S, i) /\ RankIn(S, i) < a + b}
               left == Cardinality(S) - a
           IN  /\ IsFiniteSet(P)
               /\ Cardinality(P) \in Nat
               /\ Cardinality(P) <= b
               /\ a >= 0 => Cardinality(P) =
                     IF left < 0 THEN 0 ELSE IF left < b THEN left ELSE b
<1> DEFINE P == {i \in S : a <= RankIn(S, i) /\ RankIn(S, i) < a + b}
           n == Cardinality(S)
           f == [i \in S |-> RankIn(S, i)]
           lo == IF a < 0 THEN 0 ELSE a
           hi == IF n < a + b THEN n - 1 ELSE a + b - 1
           g == [i \in P |-> f[i]]
<1>1. n \in Nat /\ f \in Bijection(S, 0..n - 1)
  BY RankBijection
<1>2. /\ \A i \in S : f[i] \in 0..n - 1
      /\ \A i, k \in S : f[i] = f[k] => i = k
      /\ \A r \in 0..n - 1 : \E i \in S : f[i] = r
  BY <1>1 DEF Bijection, Injection, Surjection, IsInjective
<1>3. \A i \in S : i \in P <=> a <= f[i] /\ f[i] < a + b
  OBVIOUS
<1>4. P \in SUBSET S
  OBVIOUS
<1> HIDE DEF f, P
<1>5. /\ lo \in Int /\ hi \in Int
      /\ \A r \in 0..n - 1 : r \in lo..hi <=> a <= r /\ r < a + b
  BY <1>1
<1>6. lo..hi \subseteq 0..n - 1
  BY <1>1
<1>7. g \in [P -> lo..hi]
  BY <1>2, <1>3, <1>4, <1>5
<1>8. \A i, k \in P : g[i] = g[k] => i = k
  BY <1>2, <1>4
<1>9. \A r \in lo..hi : \E i \in P : g[i] = r
  <2> SUFFICES ASSUME NEW r \in lo..hi PROVE \E i \in P : g[i] = r
    OBVIOUS
  <2>1. r \in 0..n - 1
    BY <1>6
  <2>2. PICK i \in S : f[i] = r
    BY <1>2, <2>1
  <2>3. i \in P
    BY <1>3, <1>5, <2>1, <2>2
  <2>4. QED
    BY <2>2, <2>3
<1> HIDE DEF g, lo, hi
<1>10. g \in Injection(P, lo..hi) /\ g \in Surjection(P, lo..hi)
  BY <1>7, <1>8, <1>9 DEF Injection, IsInjective, Surjection
<1>11. IsFiniteSet(P)
  BY <1>4, FS_Subset
<1>12. Cardinality(P) = Cardinality(lo..hi)
  BY <1>10, <1>11, FS_Bijection DEF ExistsBijection, Bijection
<1>13. Cardinality(P) = IF lo > hi THEN 0 ELSE hi - lo + 1
  BY <1>5, <1>12, FS_Interval
<1>14. /\ Cardinality(P) \in Nat
       /\ Cardinality(P) <= b
       /\ a >= 0 => Cardinality(P) =
             IF n - a < 0 THEN 0 ELSE IF n - a < b THEN n - a ELSE b
  BY <1>1, <1>13 DEF lo, hi
<1>15. QED
  BY <1>11, <1>14 DEF P

----------------------------------------------------------------------------
(* A list answers its query, and its two statements agree *)

\* The two properties, of one page and one query put right.
Answers(p, q) ==
    /\ Cardinality(p.items) <= q.size
    /\ \A e \in p.items : q.search = NoSearch \/ e[2] \in Like[q.search]

Left(n, q) == LET left == n - (q.page - 1) * q.size
              IN  IF left < 0 THEN 0 ELSE IF left < q.size THEN left ELSE q.size

Fits(p, q) ==
    /\ p.itemsAt = p.totalAt
    /\ InRange(q) \/ q.page <= TotalPages(p.total, q.size)
    => Cardinality(p.items) = Left(p.total, q)

\* Between its two statements a call holds the page of the table as it is,
\* unless some call has written since: then Committed has grown.
Between(c) ==
    /\ page[c].itemsAt \subseteq Committed
    /\ page[c].itemsAt = Committed => page[c].items = PageOf(Normal(job[c].query))

ListsCall(c) ==
    LET q == Normal(job[c].query)
    IN  /\ pc[c] = "count" => Between(c)
        /\ pc[c] \in {"count", "fill"} \/ outcome[c] = "ok" => Answers(page[c], q)
        /\ pc[c] = "fill" \/ outcome[c] = "ok" => Fits(page[c], q)

CachedLists ==
    \A k \in Keys : lists[k] # NoEntry =>
        Answers(lists[k].page, k) /\ Fits(lists[k].page, k)

ListInv == CachedLists /\ \A c \in Call : job[c].op = "list" => ListsCall(c)

\* Every page read from the table answers its query, and the table's own count
\* of that moment fits it.
LEMMA PageSize ==
    ASSUME TypeOK, NEW q, q.page \in Nat \ {0}, q.size \in Nat \ {0}
    PROVE  LET left == TotalOf(q) - Offset(q.page, q.size)
               n    == Cardinality(PageOf(q))
           IN  /\ n \in Nat
               /\ n <= q.size
               /\ Offset(q.page, q.size) >= 0 =>
                     n = IF left < 0 THEN 0 ELSE IF left < q.size THEN left ELSE q.size
<1> DEFINE S == Matching(q.search)
           from == Offset(q.page, q.size)
           P == {i \in S : from <= RankIn(S, i) /\ RankIn(S, i) < from + q.size}
           f == [i \in P |-> <<i, Row(i)>>]
<1>1. S \in SUBSET Nat /\ IsFiniteSet(S)
  <2>1. S \in SUBSET Id
    BY DEF Matching, Present
  <2>2. QED
    BY <2>1, CategoryAssumption, FS_Subset
<1>2. from \in Int
  <2>1. (q.page - 1) * q.size \in Nat
    BY ProductType
  <2>2. QED
    BY <2>1, WrappedInt DEF Offset
<1>3. PageOf(q) = {<<i, Row(i)>> : i \in P}
  BY DEF PageOf, OnPage, RankIn
<1>4. TotalOf(q) = Cardinality(S)
  BY DEF TotalOf
<1> HIDE DEF S, from
<1>5. /\ IsFiniteSet(P)
      /\ Cardinality(P) \in Nat
      /\ Cardinality(P) <= q.size
      /\ from >= 0 => Cardinality(P) =
            IF Cardinality(S) - from < 0 THEN 0
            ELSE IF Cardinality(S) - from < q.size THEN Cardinality(S) - from
            ELSE q.size
  BY <1>1, <1>2, WindowSize
<1> HIDE DEF P
<1>6. /\ f \in [P -> PageOf(q)]
      /\ \A i, k \in P : f[i] = f[k] => i = k
      /\ \A e \in PageOf(q) : \E i \in P : f[i] = e
  BY <1>3
<1> HIDE DEF f
<1>7. f \in Injection(P, PageOf(q)) /\ f \in Surjection(P, PageOf(q))
  BY <1>6 DEF Injection, IsInjective, Surjection
<1>8. Cardinality(PageOf(q)) = Cardinality(P)
  BY <1>5, <1>7, FS_Bijection DEF ExistsBijection, Bijection
<1>9. QED
  BY <1>4, <1>5, <1>8 DEF from

LEMMA PageAnswers ==
    ASSUME TypeOK, NEW q, q.page \in Nat \ {0}, q.size \in Nat \ {0},
           NEW p, p.items = PageOf(q)
    PROVE  Answers(p, q)
<1>1. Cardinality(p.items) <= q.size
  BY PageSize
<1>2. ASSUME NEW e \in p.items PROVE q.search = NoSearch \/ e[2] \in Like[q.search]
  <2>1. PICK i \in Matching(q.search) : e = <<i, Row(i)>>
    BY DEF PageOf
  <2>2. QED
    BY <2>1 DEF Matching
<1>3. QED
  BY <1>1, <1>2 DEF Answers

\* The ids are i32s, so what the table holds can be counted in one.
LEMMA TotalInRange == ASSUME NEW q PROVE TotalOf(q) \in 0..MaxInt
<1>1. Matching(q.search) \in SUBSET (1..MaxInt)
  BY SerialAssumption DEF Matching, Present
<1>2. IsFiniteSet(1..MaxInt) /\ Cardinality(1..MaxInt) = MaxInt
  <2>1. 1 \in Int /\ MaxInt \in Int /\ ~(1 > MaxInt) /\ MaxInt - 1 + 1 = MaxInt
    BY PagingAssumption
  <2>2. QED
    BY <2>1, FS_Interval
<1>3. Cardinality(Matching(q.search)) <= MaxInt
  BY <1>1, <1>2, FS_Subset
<1>4. QED
  BY <1>3, TotalType, PagingAssumption DEF TotalOf

LEMMA PageFits ==
    ASSUME TypeOK, NEW q, q.page \in Nat \ {0}, q.size \in Nat \ {0},
           NEW p, p.itemsAt = p.totalAt => p.items = PageOf(q), p.total = TotalOf(q)
    PROVE  Fits(p, q)
<1> SUFFICES ASSUME p.items = PageOf(q),
                    InRange(q) \/ q.page <= TotalPages(p.total, q.size)
             PROVE  Cardinality(p.items) = Left(p.total, q)
  BY DEF Fits
<1>1. InRange(q)
  BY TotalInRange, AnnouncedInRange
<1>2. Offset(q.page, q.size) = (q.page - 1) * q.size
  BY <1>1, OffsetInRange
<1>3. (q.page - 1) * q.size \in Nat
  BY ProductType
<1>4. Offset(q.page, q.size) >= 0
  BY <1>2, <1>3
<1> DEFINE left == TotalOf(q) - Offset(q.page, q.size)
<1>5. Cardinality(PageOf(q)) =
        IF left < 0 THEN 0 ELSE IF left < q.size THEN left ELSE q.size
  BY <1>4, PageSize
<1>6. QED
  BY <1>2, <1>5 DEF Left

\* The key of a list is its query put right.
LEMMA KeyType ==
    ASSUME TypeOK, NEW c \in Call, job[c].op = "list"
    PROVE  /\ Normal(job[c].query) \in Keys
           /\ Normal(job[c].query).page \in Nat \ {0}
           /\ Normal(job[c].query).size \in Nat \ {0}
<1>1. job[c] \in Job
  BY DEF TypeOK
<1>2. job[c].query \in Query
  BY <1>1, CategoryAssumption DEF AnyJob
<1>3. ListKey(job[c].query) \in Keys
  BY <1>1, JobType
<1>4. QED
  BY <1>2, <1>3, NormalType DEF ListKey

\* What a step may do to a list call: leave its page alone and not answer it
\* "ok", answer it from the cache, or run or store one of its two statements.
Unanswered(c) ==
    /\ page'[c] = page[c]
    /\ pc'[c] = pc[c] \/ pc'[c] \notin {"count", "fill"}
    /\ outcome'[c] = outcome[c] \/ outcome'[c] # "ok"

FromCache(c, k) ==
    /\ lists[k] # NoEntry
    /\ page'[c] = lists[k].page
    /\ pc'[c] = "reply"

Paged(c, q) ==
    /\ page'[c].items = PageOf(q)
    /\ page'[c].itemsAt = Committed
    /\ pc'[c] = "count"
    /\ outcome'[c] = "none"
    /\ UNCHANGED <<log, wrote>>

Counted(c, q) ==
    /\ pc[c] = "count"
    /\ page'[c].items = page[c].items
    /\ page'[c].itemsAt = page[c].itemsAt
    /\ page'[c].total = TotalOf(q)
    /\ page'[c].totalAt = Committed
    /\ pc'[c] = "fill"
    /\ outcome'[c] = "none"

Filled(c) ==
    /\ pc[c] = "fill"
    /\ page'[c] = page[c]
    /\ pc'[c] = "reply"

ListCallStep(c) ==
    LET q == Normal(job[c].query)
    IN  Unanswered(c) \/ FromCache(c, q) \/ Paged(c, q) \/ Counted(c, q) \/ Filled(c)

LEMMA ListCallSteps ==
    ASSUME TypeInv, WriteInv, [Next]_vars, NEW c \in Call, job[c].op = "list"
    PROVE  ListCallStep(c)
<1> DEFINE q == Normal(job[c].query)
<1>1. q \in Keys
  BY KeyType DEF TypeInv
<1>2. page[c] \in Page
  BY DEF TypeInv, TypeOK
<1>3. pc[c] \notin {"reply", "done"} => outcome[c] = "none"
  BY DEF WriteInv, Progress
<1>4. ASSUME NEW d \in Call, d # c, Serve(d) \/ DbError(d) \/ Drop(d)
      PROVE  Unanswered(c)
  <2>1. page'[c] = page[c]
    BY <1>4
       DEF Serve, Get, List, Update, Delete, GetLookup, GetSelect, GetFill,
           ListLookup, ListPage, ListCount, ListFill, CreateInsert, UpdateWrite,
           UpdateReread, UpdateStore, DeleteWrite, DeleteEvict, Reply, DbError,
           Drop, TypeInv, TypeOK
  <2>2. pc'[c] = pc[c] /\ outcome'[c] = outcome[c]
    BY <1>4
       DEF Serve, Get, List, Update, Delete, GetLookup, GetSelect, GetFill,
           ListLookup, ListPage, ListCount, ListFill, CreateInsert, UpdateWrite,
           UpdateReread, UpdateStore, DeleteWrite, DeleteEvict, Reply, DbError,
           Drop, Goto, Finish, TypeInv, TypeOK
  <2>3. QED
    BY <2>1, <2>2 DEF Unanswered
<1>5. ASSUME ListLookup(c) PROVE Unanswered(c) \/ FromCache(c, q)
  <2>1. CASE /\ lists[q] # NoEntry
             /\ page' = [page EXCEPT ![c] = lists[q].page]
             /\ Finish(c, "ok")
    BY <1>1, <2>1 DEF FromCache, Finish, TypeInv, TypeOK
  <2>2. CASE Goto(c, "page") /\ UNCHANGED page
    BY <2>2 DEF Unanswered, Goto, TypeInv, TypeOK
  <2>3. CASE UNCHANGED <<pc, outcome, page>>
    BY <2>3 DEF Unanswered
  <2>4. QED
    BY <1>5, <2>1, <2>2, <2>3 DEF ListLookup, ListKey
<1>6. ASSUME ListPage(c) PROVE Paged(c, q)
  BY <1>2, <1>3, <1>6 DEF ListPage, At, Goto, Paged, stores, Page, TypeInv, TypeOK
<1>7. ASSUME ListCount(c) PROVE Counted(c, q)
  BY <1>2, <1>3, <1>7 DEF ListCount, At, Goto, Counted, Page, TypeInv, TypeOK
<1>8. ASSUME ListFill(c) PROVE Filled(c)
  BY <1>8 DEF ListFill, At, Finish, Filled, TypeInv, TypeOK
<1>9. ASSUME Reply(c) \/ DbError(c) \/ Drop(c) PROVE Unanswered(c)
  BY <1>9 DEF Reply, DbError, Drop, Finish, Unanswered, TypeInv, TypeOK
<1>10. ASSUME Serve(c) PROVE List(c) \/ Reply(c)
  BY <1>10
     DEF Serve, Get, Update, Delete, GetLookup, GetSelect, GetFill, CreateInsert,
         UpdateWrite, UpdateReread, UpdateStore, DeleteWrite, DeleteEvict, At
<1>11. CASE UNCHANGED <<page, pc, outcome>>
  BY <1>11 DEF Unanswered, ListCallStep
<1>12. QED
  BY <1>4, <1>5, <1>6, <1>7, <1>8, <1>9, <1>10, <1>11
     DEF Next, List, ListCallStep, ExpireRow, ExpireList, vars

\* Committed grows when, and only when, the table changes.
LEMMA CommittedSteps ==
    ASSUME TypeInv, WriteInv, [Next]_vars
    PROVE  /\ Committed \subseteq Committed'
           /\ Committed' \subseteq Committed => UNCHANGED log
<1>1. LogStep
  BY LogSteps
<1>2. CASE UNCHANGED <<log, wrote>>
  BY <1>2 DEF Committed
<1>3. ASSUME NEW d \in Call, NEW i \in Id, NEW v \in Name \cup {Absent},
             Commit(d, i, v), pc[d] = "start"
      PROVE  Committed \subseteq Committed' /\ ~(Committed' \subseteq Committed)
  <2>1. wrote[d] = 0
    BY <1>3 DEF WriteInv, Progress
  <2>2. wrote'[d] = Version(i) + 1 /\ Version(i) \in Nat
    BY <1>3, CommitLog, RowType DEF TypeInv
  <2>3. \A b \in Call : b # d => wrote'[b] = wrote[b]
    BY <1>3, CommitLog DEF TypeInv
  <2>4. d \in Committed' /\ d \notin Committed
    BY <2>1, <2>2 DEF Committed
  <2>5. QED
    BY <2>3, <2>4 DEF Committed
<1>4. QED
  BY <1>1, <1>2, <1>3 DEF LogStep

LEMMA NextListsCall ==
    ASSUME TypeInv, WriteInv, ListInv, [Next]_vars, NEW c \in Call,
           job[c].op = "list"
    PROVE  ListsCall(c)'
<1> DEFINE q == Normal(job[c].query)
<1>1. /\ q \in Keys /\ q.page \in Nat \ {0} /\ q.size \in Nat \ {0}
      /\ job' = job
  BY KeyType, JobKept DEF TypeInv
<1>2. ListsCall(c) /\ TypeOK
  BY DEF ListInv, TypeInv
<1>3. Normal(job[c].query)' = q
  BY <1>1
<1>4. CASE Unanswered(c)
  <2>1. ASSUME pc[c] = "count", Between(c) PROVE Between(c)'
    <3> SUFFICES ASSUME page[c].itemsAt = Committed'
                 PROVE  page[c].items = PageOf(q)'
      BY <1>3, <1>4, <2>1, CommittedSteps DEF Between, Unanswered
    <3>1. page[c].itemsAt = Committed /\ UNCHANGED log
      BY <2>1, CommittedSteps DEF Between
    <3>2. PageOf(q)' = PageOf(q)
      BY <1>1, <3>1 DEF PageOf, Matching, Present, Row, Version
    <3>3. QED
      BY <2>1, <3>1, <3>2 DEF Between
  <2>2. QED
    BY <1>2, <1>3, <1>4, <2>1 DEF ListsCall, Unanswered
<1>5. CASE FromCache(c, q)
  <2>1. Answers(page'[c], q) /\ Fits(page'[c], q)
    BY <1>1, <1>5 DEF FromCache, ListInv, CachedLists
  <2>2. QED
    BY <1>3, <1>5, <2>1 DEF ListsCall, FromCache
<1>6. CASE Paged(c, q)
  <2>1. Answers(page'[c], q)
    BY <1>1, <1>2, <1>6, PageAnswers DEF Paged
  <2>2. Between(c)'
    BY <1>1, <1>6
       DEF Between, Paged, Committed, PageOf, Matching, Present, Row, Version
  <2>3. QED
    BY <1>3, <1>6, <2>1, <2>2 DEF ListsCall, Paged
<1>7. CASE Counted(c, q)
  <2>1. Answers(page'[c], q)
    BY <1>2, <1>7 DEF ListsCall, Answers, Counted
  <2>2. Fits(page'[c], q)
    <3>1. page'[c].itemsAt = page'[c].totalAt => page'[c].items = PageOf(q)
      BY <1>2, <1>7 DEF ListsCall, Between, Counted
    <3>2. page'[c].total = TotalOf(q)
      BY <1>7 DEF Counted
    <3>3. QED
      BY <1>1, <1>2, <3>1, <3>2, PageFits
  <2>3. QED
    BY <1>3, <1>7, <2>1, <2>2 DEF ListsCall, Counted
<1>8. CASE Filled(c)
  BY <1>2, <1>3, <1>8 DEF ListsCall, Filled
<1>9. QED
  BY <1>4, <1>5, <1>6, <1>7, <1>8, ListCallSteps DEF ListCallStep

LEMMA NextCachedLists ==
    ASSUME TypeInv, ListInv, [Next]_vars
    PROVE  CachedLists'
<1> SUFFICES ASSUME NEW k \in Keys, lists'[k] # NoEntry
             PROVE  Answers(lists'[k].page, k) /\ Fits(lists'[k].page, k)
  BY DEF CachedLists, Keys
<1>1. ASSUME lists[k] # NoEntry
      PROVE  Answers(lists[k].page, k) /\ Fits(lists[k].page, k)
  BY <1>1 DEF ListInv, CachedLists
<1>2. ASSUME NEW c \in Call, ListFill(c)
      PROVE  Answers(lists'[k].page, k) /\ Fits(lists'[k].page, k)
  <2>1. job[c].op = "list" /\ pc[c] = "fill"
    BY <1>2 DEF ListFill, At
  <2>2. ListsCall(c)
    BY <2>1 DEF ListInv
  <2>3. CASE k = Normal(job[c].query)
    <3>1. lists'[k] = lists[k] \/ lists'[k].page = page[c]
      BY <1>2, <2>3 DEF ListFill, ListKey, TypeInv, TypeOK
    <3>2. Answers(page[c], k) /\ Fits(page[c], k)
      BY <2>1, <2>2, <2>3 DEF ListsCall
    <3>3. QED
      BY <1>1, <3>1, <3>2
  <2>4. CASE k # Normal(job[c].query)
    <3>1. lists'[k] = lists[k]
      BY <1>2, <2>4 DEF ListFill, ListKey, TypeInv, TypeOK
    <3>2. QED
      BY <1>1, <3>1
  <2>5. QED
    BY <2>3, <2>4
<1>3. ASSUME NEW j \in Keys, ExpireList(j)
      PROVE  Answers(lists'[k].page, k) /\ Fits(lists'[k].page, k)
  <2>1. lists'[k] = lists[k] \/ lists'[k] = NoEntry
    BY <1>3 DEF ExpireList, TypeInv, TypeOK
  <2>2. QED
    BY <1>1, <2>1
<1>4. CASE UNCHANGED lists
  BY <1>1, <1>4
<1>5. QED
  BY <1>2, <1>3, <1>4
     DEF Next, Serve, Get, List, Update, Delete, GetLookup, GetSelect, GetFill,
         ListLookup, ListPage, ListCount, CreateInsert, UpdateWrite,
         UpdateReread, UpdateStore, DeleteWrite, DeleteEvict, Reply, DbError,
         Drop, ExpireRow, vars, stores

LEMMA InitLists == Init => ListInv
  BY DEF Init, ListInv, CachedLists, ListsCall

LEMMA NextLists == TypeInv /\ WriteInv /\ ListInv /\ [Next]_vars => ListInv'
<1> SUFFICES ASSUME TypeInv, WriteInv, ListInv, [Next]_vars PROVE ListInv'
  OBVIOUS
<1>1. \A c \in Call : job[c].op = "list" => ListsCall(c)'
  BY NextListsCall
<1>2. job' = job
  BY JobKept
<1>3. QED
  BY <1>1, <1>2, NextCachedLists DEF ListInv

LEMMA SpecLists == Spec => []ListInv
<1>1. Spec => [](TypeInv /\ WriteInv)
  BY SpecWrite
<1>2. QED
  BY <1>1, InitLists, NextLists, PTL DEF Spec

\* For any queries, rows and search terms, and any calls that write beside it:
\* a list that is answered, from the table or from the cache, has no more rows
\* than its page may have, and only rows that its search finds.
THEOREM ListsAnswerQueries == Spec => []ListAnswersItsQuery
<1>1. ListInv => ListAnswersItsQuery
  BY DEF ListInv, ListsCall, Answers, ListAnswersItsQuery
<1>2. QED
  BY <1>1, SpecLists, PTL

\* The page and the total of an answer, when no write came between the two
\* statements, fit: no page up to the last one announced is short of a row, and
\* those beyond it are empty, while their offset is an i32.
THEOREM TotalsFitPages == Spec => []ListTotalFitsPage
<1>1. ListInv => ListTotalFitsPage
  <2> SUFFICES ASSUME ListInv, NEW c \in Call, job[c].op = "list", outcome[c] = "ok"
               PROVE  Fits(page[c], Normal(job[c].query))
    BY DEF ListTotalFitsPage, Fits, Left
  <2>1. QED
    BY DEF ListInv, ListsCall
<1>2. QED
  BY <1>1, SpecLists, PTL

=============================================================================
