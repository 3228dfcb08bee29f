---------------------------- MODULE AccountProofs ----------------------------
(* Proofs about AccountService, for any calls, ids, accounts and faults, and  *)
(* about the sessions of AccountGateway in front of it.                       *)
EXTENDS AccountGateway, FiniteSetTheorems, TLAPS

----------------------------------------------------------------------------
(* Type correctness *)

\* A call that is about to cache or to check an account holds one.
HoldsAccount ==
    \A c \in Call :
        pc[c] \in {"check", "store"} \/ At(c, {"find"}, "fill") => held[c].id \in Id

\* No row has an id that is still to be issued.
Unissued == \A u \in Id : u >= nextId => log[u] = <<>>

TypeInv == TypeOK /\ HoldsAccount /\ Unissued

LEMMA JobType ==
    ASSUME NEW j \in Job
    PROVE  /\ j.op \in {"register", "create", "login", "find", "list", "update", "delete"}
           /\ j.op \in {"register", "create"} =>
                 j.name \in Name /\ j.email \in Email /\ j.pw \in Password
           /\ j.op = "login" => j.email \in Email /\ j.pw \in Password
           /\ j.op \in {"find", "update"} => j.id \in Id
           /\ j.op = "update" => /\ j.name \in Name \cup {Omitted}
                                 /\ j.email \in Email \cup {Omitted}
           /\ j.op = "delete" => j.email \in Email
           /\ j.op = "list" => Normal(j.query) \in ListKey
  BY AccountAssumption DEF AnyJob, ListKey

LEMMA RowType ==
    ASSUME TypeOK, NEW u \in Id
    PROVE  /\ log[u] \in Seq(Account \cup {Absent})
           /\ Row(u) \in Account \cup {Absent}
           /\ Version(u) \in Nat
           /\ Row(u) # Absent => Version(u) \in 1..Version(u)
                                 /\ Row(u) = log[u][Version(u)]
  BY DEF TypeOK, Row, Version

LEMMA SetType ==
    ASSUME TypeOK, NEW k, NEW u \in Id, NEW n \in Nat, Set(k, u, n)
    PROVE  redis' \in [Key -> [id : Id, ver : Nat, ttl : BOOLEAN] \cup {NoEntry}]
<1> DEFINE entry(ttl) == [id |-> u, ver |-> n, ttl |-> ttl]
<1>1. /\ entry(TRUE) \in [id : Id, ver : Nat, ttl : BOOLEAN]
      /\ entry(FALSE) \in [id : Id, ver : Nat, ttl : BOOLEAN]
  OBVIOUS
<1>2. \/ redis' = [redis EXCEPT ![k] = entry(TRUE)]
      \/ redis' = [redis EXCEPT ![k] = entry(FALSE)]
      \/ redis' = redis
  BY DEF Set
<1> HIDE DEF entry
<1>3. QED
  BY <1>1, <1>2 DEF TypeOK

LEMMA HoldType ==
    ASSUME TypeOK, NEW c \in Call,
           UNCHANGED held \/ \E u \in Id, n \in Nat : Hold(c, u, n)
    PROVE  /\ held' \in [Call -> [id : Id \cup {0}, ver : Nat]]
           /\ \A d \in Call : d # c => held'[d] = held[d]
           /\ UNCHANGED held \/ held'[c].id \in Id
<1>1. CASE UNCHANGED held
  BY <1>1 DEF TypeOK
<1>2. ASSUME NEW u \in Id, NEW n \in Nat, Hold(c, u, n)
      PROVE  /\ held' \in [Call -> [id : Id \cup {0}, ver : Nat]]
             /\ \A d \in Call : d # c => held'[d] = held[d]
             /\ held'[c].id \in Id
  <2>1. [id |-> u, ver |-> n] \in [id : Id \cup {0}, ver : Nat]
    OBVIOUS
  <2>2. QED
    BY <1>2, <2>1 DEF Hold, TypeOK
<1>3. QED
  BY <1>1, <1>2

\* What a sign-up stores is an account, and so is what an update makes of one.
LEMMA SignedType ==
    ASSUME TypeOK, NEW c \in Call, job[c].op \in {"register", "create"}
    PROVE  Signed(c) \in Account /\ Signed(c).email = job[c].email
<1>1. job[c] \in Job
  BY DEF TypeOK
<1>2. job[c].name \in Name /\ job[c].email \in Email /\ job[c].pw \in Password
  BY <1>1, JobType
<1>3. [pw |-> job[c].pw, hashed |-> job[c].op = "register"] \in Secret
  BY <1>2 DEF Secret
<1>4. QED
  BY <1>2, <1>3 DEF Signed, Account

Changed(a, n, e) == [a EXCEPT !.name = n, !.email = e]

LEMMA ChangedType ==
    ASSUME NEW a \in Account, NEW n \in Name \cup {Blank}, NEW e \in Email \cup {Blank}
    PROVE  Changed(a, n, e) \in Account /\ Changed(a, n, e).email = e
  BY DEF Account, Changed

LEMMA SentType ==
    /\ \A n \in Name \cup {Omitted} : Sent(n) \in Name \cup {Blank}
    /\ \A e \in Email \cup {Omitted} : Sent(e) \in Email \cup {Blank}
  BY AccountAssumption DEF Sent

----------------------------------------------------------------------------
(* What a step may do to the table *)

\* Rows that are there are deleted, or one row is changed or made; who takes an
\* e-mail takes it from no one else.
LogStep ==
    \A u \in Id :
        \/ log'[u] = log[u]
        \/ Row(u) # Absent /\ log'[u] = Append(log[u], Absent)
        \/ \E a \in Account :
              /\ log'[u] = Append(log[u], a)
              /\ log[u] = <<>> \/ Row(u) # Absent
              /\ WithEmail(a.email) \subseteq {u}
              /\ \A v \in Id \ {u} : log'[v] = log[v]

\* One row gets its next value.
LEMMA AppendStep ==
    ASSUME TypeInv, NEW u \in Id, NEW a \in Account,
           log' = [log EXCEPT ![u] = Append(@, a)],
           log[u] = <<>> \/ Row(u) # Absent,
           MayTake(u, a.email)
    PROVE  /\ LogStep
           /\ log' \in [Id -> Seq(Account \cup {Absent})]
<1>1. log \in [Id -> Seq(Account \cup {Absent})]
  BY DEF TypeInv, TypeOK
<1>2. Append(log[u], a) \in Seq(Account \cup {Absent})
  BY <1>1
<1>3. log'[u] = Append(log[u], a) /\ \A v \in Id \ {u} : log'[v] = log[v]
  BY <1>1
<1>4. QED
  BY <1>1, <1>2, <1>3 DEF LogStep, MayTake

LEMMA InsertStep ==
    ASSUME TypeInv, NEW c \in Call, SignupInsert(c)
    PROVE  /\ LogStep
           /\ log' \in [Id -> Seq(Account \cup {Absent})]
           /\ Unissued'
<1>1. Signed(c) \in Account /\ Signed(c).email = job[c].email
  BY SignedType DEF SignupInsert, At, TypeInv
<1>2. CASE nextId \in Id /\ MayTake(nextId, job[c].email)
  <2>1. log[nextId] = <<>>
    BY <1>2 DEF TypeInv, Unissued, Id
  <2>2. log' = [log EXCEPT ![nextId] = Append(@, Signed(c))]
    BY <1>2 DEF SignupInsert
  <2>3. LogStep /\ log' \in [Id -> Seq(Account \cup {Absent})]
    BY <1>1, <1>2, <2>1, <2>2, AppendStep
  <2>4. \A u \in Id : u >= nextId + 1 => log'[u] = log[u] /\ u >= nextId
    BY <1>2, <2>2 DEF TypeInv, TypeOK, Id
  <2>5. nextId' = nextId + 1
    BY <1>2 DEF SignupInsert
  <2>6. QED
    BY <2>3, <2>4, <2>5 DEF TypeInv, Unissued
<1>3. CASE ~(nextId \in Id /\ MayTake(nextId, job[c].email))
  <2>1. UNCHANGED log /\ nextId' \in {nextId, nextId + 1}
    BY <1>3 DEF SignupInsert
  <2>2. QED
    BY <2>1 DEF LogStep, TypeInv, TypeOK, Unissued, Id
<1>4. QED
  BY <1>2, <1>3

LEMMA UpdateStep ==
    ASSUME TypeInv, NEW c \in Call, UpdateWrite(c)
    PROVE  /\ LogStep
           /\ log' \in [Id -> Seq(Account \cup {Absent})]
           /\ Unissued'
<1> DEFINE u == job[c].id
           name == Sent(job[c].name)
           email == Sent(job[c].email)
           a == Changed(Row(u), name, email)
<1>1. job[c] \in Job /\ job[c].op = "update"
  BY DEF UpdateWrite, At, TypeInv, TypeOK
<1>2. u \in Id /\ name \in Name \cup {Blank} /\ email \in Email \cup {Blank}
  BY <1>1, JobType, SentType
<1>3. CASE Row(u) # Absent /\ MayTake(u, email)
  <2>1. Row(u) \in Account
    BY <1>2, <1>3, RowType DEF TypeInv
  <2>2. a \in Account /\ a.email = email
    BY <1>2, <2>1, ChangedType
  <2>3. log' = [log EXCEPT ![u] = Append(@, a)] /\ nextId' = nextId
    BY <1>3 DEF UpdateWrite, Changed
  <2> HIDE DEF a
  <2>4. LogStep /\ log' \in [Id -> Seq(Account \cup {Absent})]
    BY <1>2, <1>3, <2>2, <2>3, AppendStep
  <2>5. \A v \in Id : log[v] = <<>> => log'[v] = <<>>
    BY <1>3, <2>3 DEF TypeInv, TypeOK, Row
  <2>6. QED
    BY <2>3, <2>4, <2>5 DEF TypeInv, Unissued
<1>4. CASE ~(Row(u) # Absent /\ MayTake(u, email))
  <2>1. UNCHANGED <<log, nextId>>
    BY <1>4 DEF UpdateWrite
  <2>2. QED
    BY <2>1 DEF LogStep, TypeInv, TypeOK, Unissued
<1>5. QED
  BY <1>3, <1>4

LEMMA DeleteStep ==
    ASSUME TypeInv, NEW c \in Call, DeleteWrite(c)
    PROVE  /\ LogStep
           /\ log' \in [Id -> Seq(Account \cup {Absent})]
           /\ Unissued'
<1>1. log \in [Id -> Seq(Account \cup {Absent})]
  BY DEF TypeInv, TypeOK
<1>2. log' = [u \in Id |-> IF u \in WithEmail(job[c].email)
                           THEN Append(log[u], Absent) ELSE log[u]]
  BY DEF DeleteWrite
<1>3. \A u \in WithEmail(job[c].email) : Row(u) # Absent
  BY DEF WithEmail, Present
<1>4. \A u \in Id : \/ log'[u] = log[u]
                    \/ Row(u) # Absent /\ log'[u] = Append(log[u], Absent)
  BY <1>2, <1>3
<1>5. \A u \in Id : log'[u] \in Seq(Account \cup {Absent})
  BY SMTT(30), <1>1, <1>4
<1>6. \A u \in Id : log[u] = <<>> => log'[u] = <<>>
  BY <1>4 DEF Row
<1>7. QED
  BY <1>2, <1>4, <1>5, <1>6 DEF DeleteWrite, TypeInv, Unissued, LogStep

LEMMA LogSteps == TypeInv /\ [Next]_vars => LogStep
<1> SUFFICES ASSUME TypeInv, [Next]_vars
             PROVE  LogStep
  OBVIOUS
<1>1. ASSUME UNCHANGED log PROVE LogStep
  BY <1>1 DEF LogStep
<1>2. QED
  BY <1>1, InsertStep, UpdateStep, DeleteStep
     DEF Next, Serve, Signup, Login, Find, List, Update, Delete, SignupCheck,
         LoginLookup, LoginSelect, LoginCheck, FindLookup, FindSelect, FindFill,
         ListLookup, ListPage, ListCount, ListFill, UpdateStore, DeleteEvict,
         Reply, DbError, Drop, Expire, ExpireList, vars, stores

\* Ids are finitely many, so every set of accounts can be counted.
LEMMA TotalType == \A q : Cardinality(Matching(q)) \in Nat
<1>1. IsFiniteSet(Id)
  BY AccountAssumption, FS_Interval DEF Id
<1>2. \A q : Matching(q) \subseteq Id
  BY DEF Matching, Present
<1>3. QED
  BY <1>1, <1>2, FS_Subset, FS_CardinalityType

LEMMA PageType ==
    ASSUME TypeOK, NEW q
    PROVE  PageOf(q) \subseteq Id \X Nat
<1>1. \A u \in Matching(q) : u \in Id /\ Version(u) \in Nat
  BY RowType DEF Matching, Present
<1>2. PageOf(q) \subseteq {<<u, Version(u)>> : u \in Matching(q)}
  BY DEF PageOf
<1>3. QED
  BY <1>1, <1>2

LEMMA InitType == Init => TypeInv
<1> SUFFICES ASSUME Init PROVE TypeInv
  OBVIOUS
<1>1. {<<>>} \cup {<<a>> : a \in Account} \subseteq Seq(Account \cup {Absent})
  <2>1. \A a \in Account : <<a>> \in Seq(Account \cup {Absent})
    OBVIOUS
  <2>2. <<>> \in Seq(Account \cup {Absent})
    OBVIOUS
  <2>3. QED
    BY <2>1, <2>2
<1>2. log \in [Id -> Seq(Account \cup {Absent})]
  BY <1>1 DEF Init
<1>3. held \in [Call -> [id : Id \cup {0}, ver : Nat]]
  BY DEF Init, Nobody
<1>4. QED
  BY <1>2, <1>3
     DEF Init, TypeInv, TypeOK, HoldsAccount, At, Unissued, Labels, NoPage, Page

LEMMA NextType == TypeInv /\ [Next]_vars => TypeInv'
<1> SUFFICES ASSUME TypeInv, [Next]_vars
             PROVE  TypeInv'
  OBVIOUS
<1> USE DEF TypeInv
<1>a. ASSUME NEW c \in Call PROVE job[c] \in Job /\ held[c].ver \in Nat
  BY DEF TypeOK
<1>1. ASSUME NEW c \in Call, SignupCheck(c) PROVE TypeInv'
  BY <1>1 DEF SignupCheck, At, Goto, Finish, TypeOK, HoldsAccount, Unissued, Labels, stores
<1>2. ASSUME NEW c \in Call, SignupInsert(c) PROVE TypeInv'
  <2>1. log' \in [Id -> Seq(Account \cup {Absent})] /\ Unissued'
    BY <1>2, InsertStep
  <2>2. nextId' \in 1..MaxId + 1
    BY <1>2, AccountAssumption DEF SignupInsert, TypeOK, Id
  <2>3. /\ held' \in [Call -> [id : Id \cup {0}, ver : Nat]]
        /\ \A d \in Call : held'[d].id \in Id \/ held'[d] = held[d]
    BY <1>2, HoldType DEF SignupInsert
  <2>4. QED
    BY <1>2, <2>1, <2>2, <2>3 DEF SignupInsert, At, Finish, TypeOK, HoldsAccount, Labels
<1>3. ASSUME NEW c \in Call, LoginLookup(c) \/ FindLookup(c) PROVE TypeInv'
  <2>1. \A k \in Key : redis[k] \in [id : Id, ver : Nat, ttl : BOOLEAN] \cup {NoEntry}
    BY DEF TypeOK
  <2>2. LoginLookup(c) => LoginKeyRead(job[c].email) \in Key
    BY <1>a, JobType DEF LoginLookup, At, Key
  <2>3. FindLookup(c) => UserKey(job[c].id) \in Key
    BY <1>a, JobType DEF FindLookup, At, Key
  <2>4. \/ held' = held
        \/ \E u \in Id, n \in Nat : Hold(c, u, n)
    BY <1>3, <2>1, <2>2, <2>3 DEF LoginLookup, FindLookup
  <2>5. held' \in [Call -> [id : Id \cup {0}, ver : Nat]]
        /\ \A d \in Call : held'[d].id \in Id \/ held'[d] = held[d]
    BY <2>4, HoldType DEF TypeOK
  <2>6. UNCHANGED <<log, nextId, redis, lists, job, live, page>>
    BY <1>3 DEF LoginLookup, FindLookup, stores
  <2>7. \E l \in {"reply", "select"} : pc' = [pc EXCEPT ![c] = l]
    BY <1>3 DEF LoginLookup, FindLookup, Goto, Finish
  <2>8. outcome' = outcome \/ outcome' = [outcome EXCEPT ![c] = "ok"]
    BY <1>3 DEF LoginLookup, FindLookup, Goto, Finish
  <2>9. QED
    BY <2>5, <2>6, <2>7, <2>8 DEF TypeOK, HoldsAccount, At, Unissued, Labels
<1>4. ASSUME NEW c \in Call, LoginSelect(c) \/ FindSelect(c) PROVE TypeInv'
  <2>1. FindSelect(c) => job[c].id \in Id
    BY <1>a, JobType DEF FindSelect, At
  <2>2. \A u \in Id : Version(u) \in Nat
    BY RowType
  <2>3. \/ held' = held /\ pc'[c] \notin {"check", "fill"}
        \/ \E u \in Id, n \in Nat : Hold(c, u, n) /\ held'[c].id \in Id
    BY <1>4, <2>1, <2>2
       DEF LoginSelect, FindSelect, WithEmail, Present, Finish, Hold, TypeOK
  <2>4. /\ held' \in [Call -> [id : Id \cup {0}, ver : Nat]]
        /\ \A d \in Call : d # c => held'[d] = held[d]
        /\ pc'[c] \in {"check", "fill"} => held'[c].id \in Id
    BY <2>3, HoldType DEF TypeOK
  <2>5. UNCHANGED <<log, nextId, redis, lists, job, live, page>>
    BY <1>4 DEF LoginSelect, FindSelect, stores
  <2>6. \E l \in {"reply", "check", "fill"} : pc' = [pc EXCEPT ![c] = l]
    BY <1>4 DEF LoginSelect, FindSelect, Goto, Finish
  <2>7. \/ outcome' = outcome
        \/ \E o \in {"internal", "unauthenticated"} : outcome' = [outcome EXCEPT ![c] = o]
    BY <1>4 DEF LoginSelect, FindSelect, Goto, Finish
  <2>8. QED
    BY <2>4, <2>5, <2>6, <2>7 DEF TypeOK, HoldsAccount, At, Unissued, Labels
<1>5. ASSUME NEW c \in Call, LoginCheck(c) \/ FindFill(c) \/ UpdateStore(c)
      PROVE  TypeInv'
  <2>1. held[c].id \in Id
    BY <1>5 DEF LoginCheck, FindFill, UpdateStore, At, HoldsAccount
  <2>2. redis' \in [Key -> [id : Id, ver : Nat, ttl : BOOLEAN] \cup {NoEntry}]
    BY <1>5, <1>a, <2>1, SetType DEF LoginCheck, FindFill, UpdateStore, TypeOK
  <2>3. UNCHANGED <<log, nextId, lists, job, live, held, page>>
    BY <1>5 DEF LoginCheck, FindFill, UpdateStore
  <2>4. pc' = [pc EXCEPT ![c] = "reply"]
    BY <1>5 DEF LoginCheck, FindFill, UpdateStore, Finish
  <2>5. \E o \in {"ok", "unauthenticated", "internal"} : outcome' = [outcome EXCEPT ![c] = o]
    BY <1>5 DEF LoginCheck, FindFill, UpdateStore, Finish
  <2>6. QED
    BY <2>2, <2>3, <2>4, <2>5 DEF TypeOK, HoldsAccount, At, Unissued, Labels
<1>6. ASSUME NEW c \in Call, UpdateWrite(c) PROVE TypeInv'
  <2>1. log' \in [Id -> Seq(Account \cup {Absent})] /\ Unissued'
    BY <1>6, UpdateStep
  <2>2. job[c].id \in Id
    BY <1>6, <1>a, JobType DEF UpdateWrite, At
  <2>3. Version(job[c].id) + 1 \in Nat
    BY <2>2, RowType
  <2>4. \/ held' = held /\ pc'[c] = "reply"
        \/ Hold(c, job[c].id, Version(job[c].id) + 1) /\ held'[c].id \in Id
    BY <1>6, <2>2 DEF UpdateWrite, Finish, Hold, TypeOK
  <2>5. /\ held' \in [Call -> [id : Id \cup {0}, ver : Nat]]
        /\ \A d \in Call : d # c => held'[d] = held[d]
        /\ pc'[c] # "reply" => held'[c].id \in Id
    BY <2>2, <2>3, <2>4, HoldType DEF TypeOK
  <2>6. QED
    BY <1>6, <2>1, <2>5 DEF UpdateWrite, At, Goto, Finish, TypeOK, HoldsAccount, Labels
<1>7. ASSUME NEW c \in Call, DeleteWrite(c) PROVE TypeInv'
  <2>1. log' \in [Id -> Seq(Account \cup {Absent})] /\ Unissued'
    BY <1>7, DeleteStep
  <2>2. QED
    BY <1>7, <2>1 DEF DeleteWrite, At, Goto, Finish, TypeOK, HoldsAccount, Labels
<1>8. ASSUME NEW c \in Call, DeleteEvict(c) PROVE TypeInv'
  BY <1>8 DEF DeleteEvict, Del, At, Finish, TypeOK, HoldsAccount, Unissued, Labels
<1>9. ASSUME NEW c \in Call, Reply(c) \/ DbError(c) \/ Drop(c) PROVE TypeInv'
  BY <1>9 DEF Reply, DbError, Drop, At, Finish, TypeOK, HoldsAccount, Unissued, Labels, stores
<1>10. ASSUME NEW c \in Call, ListLookup(c) PROVE TypeInv'
  <2>1. lists[Normal(job[c].query)] \in [page : Page, ttl : BOOLEAN] \cup {NoEntry}
    BY <1>10, <1>a, JobType DEF ListLookup, At, TypeOK
  <2>2. page' \in [Call -> Page]
    BY <1>10, <2>1 DEF ListLookup, TypeOK
  <2>3. live' \in [Call -> BOOLEAN] /\ pc' \in [Call -> Labels]
    BY <1>10 DEF ListLookup, Goto, Finish, TypeOK, Labels
  <2>4. outcome' \in [Call -> {"none", "ok", "internal", "unauthenticated"}]
    BY <1>10 DEF ListLookup, Goto, Finish, TypeOK
  <2>5. HoldsAccount'
    BY <1>10 DEF ListLookup, At, Goto, Finish, TypeOK, HoldsAccount
  <2>6. QED
    BY <1>10, <2>2, <2>3, <2>4, <2>5 DEF ListLookup, TypeOK, Unissued, stores
<1>11. ASSUME NEW c \in Call, ListPage(c) \/ ListCount(c) PROVE TypeInv'
  <2>1. \A p \in Page, x \in SUBSET (Id \X Nat), n \in Nat :
           [p EXCEPT !.items = x] \in Page /\ [p EXCEPT !.total = n] \in Page
    BY DEF Page
  <2>2. page' \in [Call -> Page]
    <3>1. \A q : PageOf(q) \in SUBSET (Id \X Nat) /\ Cardinality(Matching(q)) \in Nat
      BY PageType, TotalType
    <3>2. \E p \in Page : page' = [page EXCEPT ![c] = p]
      <4>1. page[c] \in Page
        BY DEF TypeOK
      <4>2. CASE ListPage(c)
        BY <2>1, <3>1, <4>1, <4>2 DEF ListPage
      <4>3. CASE ListCount(c)
        BY <2>1, <3>1, <4>1, <4>3 DEF ListCount
      <4>4. QED
        BY <1>11, <4>2, <4>3
    <3>3. QED
      BY <3>2 DEF TypeOK
  <2>3. QED
    BY <1>11, <2>2
       DEF ListPage, ListCount, At, Goto, TypeOK, HoldsAccount, Unissued, Labels, stores
<1>12. ASSUME NEW c \in Call, ListFill(c) PROVE TypeInv'
  <2>1. page[c] \in Page
    BY DEF TypeOK
  <2>2. lists' \in [ListKey -> [page : Page, ttl : BOOLEAN] \cup {NoEntry}]
    <3>1. \A b \in BOOLEAN : [page |-> page[c], ttl |-> b] \in [page : Page, ttl : BOOLEAN]
      BY <2>1
    <3>2. QED
      BY <1>12, <3>1 DEF ListFill, TypeOK
  <2>3. QED
    BY <1>12, <2>2 DEF ListFill, At, Finish, TypeOK, HoldsAccount, Unissued, Labels
<1>13. ASSUME NEW k \in Key, Expire(k) PROVE TypeInv'
  BY <1>13 DEF Expire, At, TypeOK, HoldsAccount, Unissued
<1>14. ASSUME NEW k \in ListKey, ExpireList(k) PROVE TypeInv'
  BY <1>14 DEF ExpireList, At, TypeOK, HoldsAccount, Unissued
<1>15. CASE UNCHANGED vars
  BY <1>15 DEF vars, stores, At, TypeOK, HoldsAccount, Unissued
<1>16. QED
  BY <1>1, <1>2, <1>3, <1>4, <1>5, <1>6, <1>7, <1>8, <1>9, <1>10, <1>11, <1>12,
     <1>13, <1>14, <1>15
     DEF Next, Serve, Signup, Login, Find, List, Update, Delete

\* The services' data have their types in every state.
THEOREM TypeCorrect == Spec => []TypeOK
<1>1. Spec => []TypeInv
  BY InitType, NextType, PTL DEF Spec
<1>2. QED
  BY <1>1, PTL DEF TypeInv

----------------------------------------------------------------------------
(* The table *)

\* The last value of a row after a value was appended, and the ones before.
LEMMA AppendedRow ==
    ASSUME TypeInv, NEW u \in Id, NEW v \in Account \cup {Absent},
           log'[u] = Append(log[u], v)
    PROVE  /\ Version(u)' = Version(u) + 1
           /\ Row(u)' = v
           /\ log'[u][Version(u) + 1] = v
           /\ \A n \in 1..Version(u) : log'[u][n] = log[u][n]
<1>1. log[u] \in Seq(Account \cup {Absent})
  BY DEF TypeInv, TypeOK
<1>2. log'[u] # <<>>
  BY <1>1
<1>3. QED
  BY <1>1, <1>2 DEF Version, Row

\* No value a row had is ever lost.
LEMMA Grows ==
    ASSUME TypeInv, [Next]_vars, NEW u \in Id
    PROVE  /\ Version(u) \in Nat /\ Version(u)' \in Nat
           /\ Version(u) <= Version(u)'
           /\ \A n \in 1..Version(u) : log'[u][n] = log[u][n]
<1>1. Version(u) \in Nat
  BY RowType DEF TypeInv
<1>2. \/ log'[u] = log[u]
      \/ \E v \in Account \cup {Absent} : log'[u] = Append(log[u], v)
  BY LogSteps DEF LogStep
<1>3. CASE log'[u] = log[u]
  BY <1>1, <1>3 DEF Version
<1>4. ASSUME NEW v \in Account \cup {Absent}, log'[u] = Append(log[u], v)
      PROVE  /\ Version(u)' = Version(u) + 1
             /\ \A n \in 1..Version(u) : log'[u][n] = log[u][n]
  BY <1>4, AppendedRow
<1>5. CASE \E v \in Account \cup {Absent} : log'[u] = Append(log[u], v)
  <2>1. PICK v \in Account \cup {Absent} : log'[u] = Append(log[u], v)
    BY <1>5
  <2>2. Version(u)' = Version(u) + 1
    BY <1>4, <2>1
  <2>3. \A n \in 1..Version(u) : log'[u][n] = log[u][n]
    BY <1>4, <2>1
  <2>4. Version(u)' \in Nat /\ Version(u) <= Version(u)'
    BY <1>1, <2>2
  <2>5. QED
    BY <1>1, <2>3, <2>4
<1>6. QED
  BY <1>2, <1>3, <1>5

LEMMA InitEmails == Init => OneAccountPerEmail
<1> SUFFICES ASSUME Init, NEW u \in Present, NEW v \in Present,
                    Row(u).email = Row(v).email
             PROVE  u = v
  BY DEF OneAccountPerEmail
<1>1. \A w \in Present : w \in Id /\ log[w] # <<>> /\ Row(w) = log[w][1]
  BY DEF Init, Present, Row, Version
<1>2. QED
  BY <1>1 DEF Init

LEMMA NextEmails ==
    TypeInv /\ OneAccountPerEmail /\ [Next]_vars => OneAccountPerEmail'
<1> SUFFICES ASSUME TypeInv, OneAccountPerEmail, [Next]_vars,
                    NEW u \in Id, NEW v \in Id, u # v,
                    Row(u)' # Absent, Row(v)' # Absent,
                    Row(u)'.email = Row(v)'.email
             PROVE  FALSE
  BY DEF OneAccountPerEmail, Present
<1>1. LogStep
  BY LogSteps
<1>2. ASSUME NEW w \in Id
      PROVE  \/ Row(w)' = Row(w)
             \/ Row(w)' = Absent
             \/ /\ WithEmail(Row(w)'.email) \subseteq {w}
                /\ \A x \in Id \ {w} : Row(x)' = Row(x)
  <2>1. CASE log'[w] = log[w]
    BY <2>1 DEF Row, Version
  <2>2. CASE log'[w] = Append(log[w], Absent)
    BY <2>2, AppendedRow
  <2>3. ASSUME NEW a \in Account, log'[w] = Append(log[w], a),
               WithEmail(a.email) \subseteq {w},
               \A x \in Id \ {w} : log'[x] = log[x]
        PROVE  /\ WithEmail(Row(w)'.email) \subseteq {w}
               /\ \A x \in Id \ {w} : Row(x)' = Row(x)
    <3>1. Row(w)' = a
      BY <2>3, AppendedRow
    <3>2. QED
      BY <2>3, <3>1 DEF Row, Version
  <2>4. QED
    BY <1>1, <2>1, <2>2, <2>3 DEF LogStep
<1>3. CASE Row(u)' = Row(u) /\ Row(v)' = Row(v)
  BY <1>3 DEF OneAccountPerEmail, Present
<1>4. ASSUME NEW w \in Id, NEW x \in Id, w # x,
             Row(w)' # Absent, Row(x)' # Absent, Row(w)'.email = Row(x)'.email,
             Row(w)' # Row(w)
      PROVE  FALSE
  <2>1. WithEmail(Row(w)'.email) \subseteq {w} /\ Row(x)' = Row(x)
    BY <1>2, <1>4
  <2>2. x \in WithEmail(Row(w)'.email)
    BY <1>4, <2>1 DEF WithEmail, Present
  <2>3. QED
    BY <1>4, <2>1, <2>2
<1>5. QED
  BY <1>3, <1>4

\* No two accounts share an e-mail, however sign-ups and updates race.
THEOREM OneEmail == Spec => []OneAccountPerEmail
<1>1. Spec => [](TypeInv /\ OneAccountPerEmail)
  BY InitType, NextType, InitEmails, NextEmails, PTL DEF Spec
<1>2. QED
  BY <1>1, PTL

LEMMA InitIds == Init => IdNamesOneAccount
<1> SUFFICES ASSUME Init, NEW u \in Id
             PROVE  \A n \in 1..Version(u) - 1 : log[u][n] # Absent
  BY DEF IdNamesOneAccount
<1>1. Version(u) \in {0, 1}
  BY DEF Init, Version
<1>2. QED
  BY <1>1

LEMMA NextIds ==
    TypeInv /\ IdNamesOneAccount /\ [Next]_vars => IdNamesOneAccount'
<1> SUFFICES ASSUME TypeInv, IdNamesOneAccount, [Next]_vars, NEW u \in Id
             PROVE  \A n \in 1..Version(u)' - 1 : log'[u][n] # Absent
  BY DEF IdNamesOneAccount
<1>1. LogStep /\ Version(u) \in Nat
  BY LogSteps, RowType DEF TypeInv
<1>2. \A n \in 1..Version(u) - 1 : log[u][n] # Absent
  BY DEF IdNamesOneAccount
<1>3. CASE log'[u] = log[u]
  BY <1>2, <1>3 DEF Version
<1>4. ASSUME NEW v \in Account \cup {Absent}, log'[u] = Append(log[u], v),
             log[u] = <<>> \/ Row(u) # Absent
      PROVE  \A n \in 1..Version(u)' - 1 : log'[u][n] # Absent
  <2>1. /\ Version(u)' = Version(u) + 1
        /\ \A n \in 1..Version(u) : log'[u][n] = log[u][n]
    BY <1>4, AppendedRow
  <2>2. \A n \in 1..Version(u) : log[u][n] # Absent
    <3>1. CASE log[u] = <<>>
      BY <3>1 DEF Version
    <3>2. CASE log[u] # <<>> /\ Row(u) # Absent
      BY <1>1, <1>2, <3>2 DEF Row
    <3>3. QED
      BY <1>4, <3>1, <3>2
  <2>3. QED
    BY <1>1, <2>1, <2>2
<1>5. QED
  BY <1>1, <1>3, <1>4 DEF LogStep

\* An id, once its account is deleted, never names an account again.
THEOREM OneAccountPerId == Spec => []IdNamesOneAccount
<1>1. Spec => [](TypeInv /\ IdNamesOneAccount)
  BY InitType, NextType, InitIds, NextIds, PTL DEF Spec
<1>2. QED
  BY <1>1, PTL

----------------------------------------------------------------------------
(* Logging in *)

\* The account a login holds is one that had the e-mail given.
HoldsLogin(c) ==
    LET u == held[c].id
    IN  /\ u \in Id
        /\ held[c].ver \in 1..Version(u)
        /\ log[u][held[c].ver] # Absent
        /\ log[u][held[c].ver].email = job[c].email

\* Nothing is ever stored under the key a login looks up.
NoTokenFound == \A e \in Email : redis[LoginKeyRead(e)] = NoEntry

LoginInv ==
    /\ NoTokenFound
    /\ \A c \in Call : job[c].op = "login" /\ pc[c] = "check" => HoldsLogin(c)
    /\ \A c \in Call : job[c].op = "login" /\ outcome[c] = "ok" =>
          /\ pc[c] \in {"reply", "done"}
          /\ HoldsLogin(c)
          /\ Verifies(job[c].pw, log[held[c].id][held[c].ver].secret)

\* The families of keys are apart.
LEMMA KeysApart ==
    ASSUME NEW e
    PROVE  /\ \A f : LoginKey(f) # LoginKeyRead(e)
           /\ \A u : UserKey(u) # LoginKeyRead(e)
           /\ \A f : UserEmailKey(f) # LoginKeyRead(e)
  BY DEF LoginKey, LoginKeyRead, UserKey, UserEmailKey

LEMMA SetElsewhere ==
    ASSUME TypeOK, NEW k, NEW u, NEW n, Set(k, u, n), NEW l \in Key, l # k
    PROVE  redis'[l] = redis[l]
  BY DEF Set, TypeOK

LEMMA NextNoToken == TypeInv /\ NoTokenFound /\ [Next]_vars => NoTokenFound'
<1> SUFFICES ASSUME TypeInv, NoTokenFound, [Next]_vars, NEW e \in Email
             PROVE  redis'[LoginKeyRead(e)] = NoEntry
  BY DEF NoTokenFound
<1>1. LoginKeyRead(e) \in Key /\ redis[LoginKeyRead(e)] = NoEntry
  BY DEF Key, NoTokenFound
<1>2. ASSUME NEW c \in Call, LoginCheck(c) \/ FindFill(c) \/ UpdateStore(c)
      PROVE  redis'[LoginKeyRead(e)] = NoEntry
  BY <1>1, <1>2, KeysApart, SetElsewhere
     DEF LoginCheck, FindFill, UpdateStore, TypeInv
<1>3. ASSUME NEW c \in Call, DeleteEvict(c) PROVE redis'[LoginKeyRead(e)] = NoEntry
  BY <1>1, <1>3 DEF DeleteEvict, Del, TypeInv, TypeOK
<1>4. ASSUME NEW k \in Key, Expire(k) PROVE redis'[LoginKeyRead(e)] = NoEntry
  BY <1>1, <1>4 DEF Expire, TypeInv, TypeOK
<1>5. QED
  BY <1>1, <1>2, <1>3, <1>4
     DEF Next, Serve, Signup, Login, Find, List, Update, Delete, SignupCheck,
         SignupInsert, LoginLookup, LoginSelect, FindLookup, FindSelect,
         ListLookup, ListPage, ListCount, ListFill, UpdateWrite, DeleteWrite,
         Reply, DbError, Drop, ExpireList, vars, stores

\* What a step may do to a login.
LoginStep(c) ==
    \/ held'[c] = held[c] /\ pc'[c] = pc[c] /\ outcome'[c] = outcome[c]
    \/ pc[c] = "start" /\ pc'[c] = "select" /\ outcome'[c] = outcome[c]
    \/ /\ pc[c] = "select" /\ pc'[c] = "check" /\ outcome'[c] = outcome[c]
       /\ UNCHANGED log
       /\ \E u \in WithEmail(job[c].email) : held'[c] = [id |-> u, ver |-> Version(u)]
    \/ pc'[c] = "reply" /\ outcome'[c] = "unauthenticated"
    \/ /\ pc[c] = "check" /\ pc'[c] = "reply" /\ outcome'[c] = "ok"
       /\ Verifies(job[c].pw, log[held[c].id][held[c].ver].secret)
       /\ held'[c] = held[c] /\ UNCHANGED log
    \/ /\ pc[c] = "reply" /\ pc'[c] = "done"
       /\ held'[c] = held[c] /\ outcome'[c] = outcome[c]

LEMMA LoginSteps ==
    ASSUME TypeInv, NoTokenFound, [Next]_vars, NEW c \in Call, job[c].op = "login"
    PROVE  LoginStep(c) /\ job' = job
<1>1. job[c] \in Job /\ job[c].email \in Email
  BY JobType DEF TypeInv, TypeOK
<1>2. redis[LoginKeyRead(job[c].email)] = NoEntry
  BY <1>1 DEF NoTokenFound
<1> DEFINE Same(d) == held'[d] = held[d] /\ pc'[d] = pc[d] /\ outcome'[d] = outcome[d]
<1>3. ASSUME LoginLookup(c) PROVE LoginStep(c)
  BY <1>2, <1>3 DEF LoginLookup, At, Goto, TypeInv, TypeOK, LoginStep
<1>4. ASSUME LoginSelect(c) PROVE LoginStep(c)
  BY <1>4 DEF LoginSelect, At, Goto, Finish, Hold, TypeInv, TypeOK, LoginStep, stores
<1>5. ASSUME LoginCheck(c) PROVE LoginStep(c)
  BY <1>5 DEF LoginCheck, At, Finish, TypeInv, TypeOK, LoginStep
<1>6. ASSUME Reply(c) \/ DbError(c) \/ Drop(c) PROVE LoginStep(c)
  BY <1>6 DEF Reply, DbError, Drop, Finish, TypeInv, TypeOK, LoginStep
<1>7. ~Signup(c) /\ ~Find(c) /\ ~List(c) /\ ~Update(c) /\ ~Delete(c)
  BY DEF Signup, Find, List, Update, Delete, SignupCheck, SignupInsert, FindLookup,
         FindSelect, FindFill, ListLookup, ListPage, ListCount, ListFill,
         UpdateWrite, UpdateStore, DeleteWrite, DeleteEvict, At
<1>8. ASSUME NEW d \in Call, d # c, Serve(d) \/ DbError(d) \/ Drop(d) PROVE Same(c)
  <2>1. CASE Signup(d) \/ Delete(d) \/ Reply(d) \/ DbError(d) \/ Drop(d)
    BY <1>8, <2>1
       DEF Signup, Delete, Reply, DbError, Drop, SignupCheck, SignupInsert,
           DeleteWrite, DeleteEvict, Goto, Finish, Hold, TypeInv, TypeOK
  <2>2. CASE Login(d)
    BY <1>8, <2>2 DEF Login, LoginLookup, LoginSelect, LoginCheck, Goto, Finish,
                      Hold, TypeInv, TypeOK
  <2>3. CASE Find(d) \/ Update(d)
    BY <1>8, <2>3 DEF Find, Update, FindLookup, FindSelect, FindFill, UpdateWrite,
                      UpdateStore, Goto, Finish, Hold, TypeInv, TypeOK
  <2>4. CASE List(d)
    BY <1>8, <2>4 DEF List, ListLookup, ListPage, ListCount, ListFill, Goto, Finish,
                      TypeInv, TypeOK
  <2>5. QED
    BY <1>8, <2>1, <2>2, <2>3, <2>4 DEF Serve
<1>9. ASSUME \/ \E k \in Key : Expire(k)
             \/ \E k \in ListKey : ExpireList(k)
             \/ UNCHANGED vars
      PROVE  Same(c)
  BY <1>9 DEF Expire, ExpireList, vars
<1>10. LoginStep(c)
  BY <1>3, <1>4, <1>5, <1>6, <1>7, <1>8, <1>9 DEF Next, Serve, Login, LoginStep
<1>11. job' = job
  BY DEF Next, Serve, Signup, Login, Find, List, Update, Delete, SignupCheck, SignupInsert,
         LoginLookup, LoginSelect, LoginCheck, FindLookup, FindSelect, FindFill,
         ListLookup, ListPage, ListCount, ListFill, UpdateWrite, UpdateStore,
         DeleteWrite, DeleteEvict, Reply, DbError, Drop, Expire, ExpireList, vars
<1>12. QED
  BY <1>10, <1>11

LEMMA NextLogin == TypeInv /\ LoginInv /\ [Next]_vars => LoginInv'
<1> SUFFICES ASSUME TypeInv, LoginInv, [Next]_vars
             PROVE  LoginInv'
  OBVIOUS
<1>1. NoTokenFound /\ NoTokenFound'
  BY NextNoToken DEF LoginInv
<1>2. ASSUME NEW c \in Call, job[c].op = "login"
      PROVE  /\ LoginStep(c)
             /\ job' = job
             /\ held[c] \in [id : Id \cup {0}, ver : Nat]
  BY <1>1, <1>2, LoginSteps DEF TypeInv, TypeOK
\* An account once held, and its password, stay what they were.
<1>3. ASSUME NEW c \in Call, job[c].op = "login", HoldsLogin(c), held'[c] = held[c]
      PROVE  /\ HoldsLogin(c)'
             /\ log'[held[c].id][held[c].ver] = log[held[c].id][held[c].ver]
  <2>1. /\ held[c].id \in Id
        /\ held[c].ver \in 1..Version(held[c].id)
    BY <1>3 DEF HoldsLogin
  <2>2. ASSUME NEW u \in Id, NEW n \in 1..Version(u)
        PROVE  n \in 1..Version(u)' /\ log'[u][n] = log[u][n]
    BY Grows
  <2>3. /\ held[c].ver \in 1..Len(log'[held[c].id])
        /\ log'[held[c].id][held[c].ver] = log[held[c].id][held[c].ver]
    BY <2>1, <2>2 DEF Version
  <2>4. QED
    BY <1>2, <1>3, <2>1, <2>3 DEF HoldsLogin, Version
<1>4. ASSUME NEW c \in Call, job[c].op = "login", pc'[c] = "check"
      PROVE  HoldsLogin(c)'
  <2>1. CASE pc[c] = "check"
    BY <1>2, <1>3, <1>4, <2>1 DEF LoginStep, LoginInv
  <2>2. CASE pc[c] # "check"
    <3>1. PICK u \in WithEmail(job[c].email) :
             held'[c] = [id |-> u, ver |-> Version(u)] /\ UNCHANGED log
      BY <1>2, <1>4, <2>2 DEF LoginStep
    <3>2. u \in Id /\ Row(u) # Absent /\ Row(u).email = job[c].email
      BY DEF WithEmail, Present
    <3>3. Version(u) \in 1..Version(u) /\ Row(u) = log[u][Version(u)]
      BY <3>2, RowType DEF TypeInv
    <3>4. QED
      BY <1>2, <1>4, <3>1, <3>2, <3>3 DEF HoldsLogin, Version
  <2>3. QED
    BY <2>1, <2>2
<1>5. ASSUME NEW c \in Call, job[c].op = "login", outcome'[c] = "ok"
      PROVE  /\ pc'[c] \in {"reply", "done"}
             /\ HoldsLogin(c)'
             /\ Verifies(job[c].pw, log'[held'[c].id][held'[c].ver].secret)
  <2>1. /\ HoldsLogin(c)
        /\ held'[c] = held[c]
        /\ pc'[c] \in {"reply", "done"}
        /\ Verifies(job[c].pw, log[held[c].id][held[c].ver].secret)
    <3>1. CASE outcome[c] = "ok"
      BY <1>2, <1>5, <3>1 DEF LoginStep, LoginInv
    <3>2. CASE outcome[c] # "ok"
      BY <1>2, <1>5, <3>2 DEF LoginStep, LoginInv
    <3>3. QED
      BY <3>1, <3>2
  <2>2. QED
    BY <1>3, <1>5, <2>1
<1>6. ASSUME NEW c \in Call, job'[c].op = "login" PROVE job[c].op = "login" /\ job' = job
  BY <1>6 DEF Next, Serve, Signup, Login, Find, List, Update, Delete, SignupCheck, SignupInsert,
         LoginLookup, LoginSelect, LoginCheck, FindLookup, FindSelect, FindFill,
         ListLookup, ListPage, ListCount, ListFill, UpdateWrite, UpdateStore,
         DeleteWrite, DeleteEvict, Reply, DbError, Drop, Expire, ExpireList, vars
<1>7. QED
  BY <1>1, <1>4, <1>5, <1>6 DEF LoginInv

\* Whoever is logged in gave the password of the account the token names.
THEOREM LoginsAreChecked == Spec => []LoginChecksPassword
<1>1. Init => LoginInv
  BY DEF Init, LoginInv, NoTokenFound, Key
<1>2. LoginInv => LoginChecksPassword
  BY DEF LoginInv, LoginChecksPassword, HoldsLogin
<1>3. Spec => [](TypeInv /\ LoginInv)
  BY <1>1, InitType, NextType, NextLogin, PTL DEF Spec
<1>4. QED
  BY <1>2, <1>3, PTL

----------------------------------------------------------------------------
(* What is shown of an account *)

\* A call that has its outcome only waits for its answer to go out.
SettledOnce == \A c \in Call : outcome[c] # "none" => pc[c] \in {"reply", "done"}

\* What a find holds is the account it was asked for, as it was stored.
HoldsAsked(c) == held[c].id = job[c].id /\ WasStored(held[c].id, held[c].ver)

CachedUsers ==
    \A u \in Id : redis[UserKey(u)] # NoEntry =>
        redis[UserKey(u)].id = u /\ WasStored(u, redis[UserKey(u)].ver)

FoundUsers ==
    \A c \in Call : job[c].op = "find" /\ (pc[c] = "fill" \/ outcome[c] = "ok") =>
        HoldsAsked(c)

ListedUsers ==
    /\ \A k \in ListKey : lists[k] # NoEntry =>
          \A e \in lists[k].page.items : WasStored(e[1], e[2])
    /\ \A c \in Call : \A e \in page[c].items : WasStored(e[1], e[2])

ShownInv == SettledOnce /\ CachedUsers /\ FoundUsers /\ ListedUsers

\* What was once stored has been stored ever after.
StoredIn(table, u, n) == n \in 1..Len(table[u]) /\ table[u][n] # Absent

LEMMA StoredStays ==
    ASSUME TypeInv, [Next]_vars, NEW u \in Id, NEW n, WasStored(u, n)
    PROVE  WasStored(u, n)' /\ StoredIn(log', u, n)
<1>1. /\ Version(u) \in Nat /\ Version(u)' \in Nat
      /\ Version(u) <= Version(u)'
      /\ \A m \in 1..Version(u) : log'[u][m] = log[u][m]
  BY Grows
<1>2. QED
  BY <1>1 DEF WasStored, StoredIn, Version

\* The version a row has now is of an account that is stored.
LEMMA PresentStored ==
    ASSUME TypeInv, NEW u \in Id, Row(u) # Absent
    PROVE  WasStored(u, Version(u))
  BY RowType DEF TypeInv, WasStored

LEMMA UserKeysApart ==
    ASSUME NEW u
    PROVE  /\ \A v : UserKey(v) = UserKey(u) => v = u
           /\ \A e : LoginKey(e) # UserKey(u)
           /\ \A e : UserEmailKey(e) # UserKey(u)
  BY DEF LoginKey, UserKey, UserEmailKey

LEMMA JobStays == [Next]_vars => job' = job
  BY DEF Next, Serve, Signup, Login, Find, List, Update, Delete, SignupCheck,
         SignupInsert, LoginLookup, LoginSelect, LoginCheck, FindLookup, FindSelect,
         FindFill, ListLookup, ListPage, ListCount, ListFill, UpdateWrite, UpdateStore,
         DeleteWrite, DeleteEvict, Reply, DbError, Drop, Expire, ExpireList, vars

\* Only a find puts an entry under the key of an id, and it is what it holds.
EntryStep ==
    \A u \in Id :
        \/ redis'[UserKey(u)] = redis[UserKey(u)]
        \/ redis'[UserKey(u)] = NoEntry
        \/ \E c \in Call :
              /\ job[c].op = "find" /\ pc[c] = "fill" /\ job[c].id = u
              /\ redis'[UserKey(u)].id = held[c].id
              /\ redis'[UserKey(u)].ver = held[c].ver

LEMMA EntrySteps == TypeInv /\ [Next]_vars => EntryStep
<1> SUFFICES ASSUME TypeInv, [Next]_vars, NEW u \in Id
             PROVE  \/ redis'[UserKey(u)] = redis[UserKey(u)]
                    \/ redis'[UserKey(u)] = NoEntry
                    \/ \E c \in Call :
                          /\ job[c].op = "find" /\ pc[c] = "fill" /\ job[c].id = u
                          /\ redis'[UserKey(u)].id = held[c].id
                          /\ redis'[UserKey(u)].ver = held[c].ver
  BY DEF EntryStep
<1> DEFINE key == UserKey(u)
<1>1. key \in Key /\ \A c \in Call : job[c] \in Job
  BY DEF Key, TypeInv, TypeOK
<1> HIDE DEF key
<1>2. ASSUME NEW c \in Call, LoginCheck(c) \/ UpdateStore(c)
      PROVE  redis'[key] = redis[key]
  BY <1>1, <1>2, UserKeysApart, SetElsewhere DEF LoginCheck, UpdateStore, TypeInv, key
<1>3. ASSUME NEW c \in Call, FindFill(c)
      PROVE  \/ redis'[key] = redis[key]
             \/ /\ job[c].op = "find" /\ pc[c] = "fill" /\ job[c].id = u
                /\ redis'[key].id = held[c].id /\ redis'[key].ver = held[c].ver
  <2>1. Set(UserKey(job[c].id), held[c].id, held[c].ver) /\ At(c, {"find"}, "fill")
    BY <1>3 DEF FindFill
  <2>2. CASE job[c].id = u
    <3>1. Set(key, held[c].id, held[c].ver)
      BY <2>1, <2>2 DEF key
    <3>2. QED
      BY <1>1, <2>1, <2>2, <3>1 DEF Set, At, TypeInv, TypeOK
  <2>3. CASE job[c].id # u
    BY <1>1, <2>1, <2>3, UserKeysApart, SetElsewhere DEF TypeInv, key
  <2>4. QED
    BY <2>2, <2>3
<1>4. ASSUME NEW c \in Call, DeleteEvict(c) PROVE redis'[key] \in {redis[key], NoEntry}
  BY <1>1, <1>4 DEF DeleteEvict, Del, TypeInv, TypeOK
<1>5. ASSUME NEW k \in Key, Expire(k) PROVE redis'[key] \in {redis[key], NoEntry}
  BY <1>1, <1>5 DEF Expire, TypeInv, TypeOK
<1>6. QED
  BY <1>2, <1>3, <1>4, <1>5
     DEF Next, Serve, Signup, Login, Find, List, Update, Delete, SignupCheck,
         SignupInsert, LoginLookup, LoginSelect, FindLookup, FindSelect, ListLookup,
         ListPage, ListCount, ListFill, UpdateWrite, DeleteWrite, Reply, DbError, Drop,
         ExpireList, vars, stores, key

\* A step of one call leaves what the others hold.
LEMMA OneCallMoves ==
    ASSUME TypeInv, NEW d \in Call, Serve(d) \/ DbError(d) \/ Drop(d),
           NEW c \in Call, c # d
    PROVE  /\ held'[c] = held[c] /\ pc'[c] = pc[c] /\ outcome'[c] = outcome[c]
           /\ page'[c] = page[c] /\ live'[c] = live[c]
<1>1. CASE Signup(d) \/ Delete(d) \/ Reply(d) \/ DbError(d) \/ Drop(d)
  BY <1>1 DEF Signup, Delete, Reply, DbError, Drop, SignupCheck, SignupInsert,
     DeleteWrite, DeleteEvict, Goto, Finish, Hold, TypeInv, TypeOK
<1>2. CASE Login(d)
  BY <1>2 DEF Login, LoginLookup, LoginSelect, LoginCheck, Goto, Finish, Hold, TypeInv,
     TypeOK
<1>3. CASE Find(d) \/ Update(d)
  BY <1>3 DEF Find, Update, FindLookup, FindSelect, FindFill, UpdateWrite, UpdateStore,
     Goto, Finish, Hold, TypeInv, TypeOK
<1>4. CASE List(d)
  BY <1>4 DEF List, ListLookup, ListPage, ListCount, ListFill, Goto, Finish, TypeInv,
     TypeOK
<1>5. QED
  BY <1>1, <1>2, <1>3, <1>4 DEF Serve

\* What the steps that no call makes leave alone.
LEMMA ExpiryMovesNone ==
    ASSUME \/ \E k \in Key : Expire(k)
           \/ \E k \in ListKey : ExpireList(k)
           \/ UNCHANGED vars
    PROVE  UNCHANGED <<log, nextId, job, pc, live, held, page, outcome>>
  BY DEF Expire, ExpireList, vars, stores

\* A find holds what it found in Redis under its key, or the row as it is; what
\* it has answered it holds on to.
FindStep(c) ==
    \/ /\ held'[c] = held[c] /\ outcome'[c] = outcome[c]
       /\ pc'[c] = "fill" => pc[c] = "fill"
    \/ /\ pc[c] = "start" /\ redis[UserKey(job[c].id)] # NoEntry
       /\ held'[c].id = redis[UserKey(job[c].id)].id
       /\ held'[c].ver = redis[UserKey(job[c].id)].ver
    \/ /\ pc[c] = "select" /\ Row(job[c].id) # Absent
       /\ held'[c] = [id |-> job[c].id, ver |-> Version(job[c].id)]
    \/ pc[c] = "fill" /\ pc'[c] = "reply" /\ held'[c] = held[c]
    \/ pc'[c] = "reply" /\ outcome'[c] # "ok"

LEMMA FindSteps ==
    ASSUME TypeInv, [Next]_vars, NEW c \in Call, job[c].op = "find"
    PROVE  FindStep(c)
<1>1. ASSUME NEW d \in Call, Serve(d) \/ DbError(d) \/ Drop(d), c # d
      PROVE  FindStep(c)
  BY <1>1, OneCallMoves DEF FindStep
<1>2. CASE FindLookup(c)
  BY <1>2 DEF FindLookup, At, Hold, Goto, TypeInv, TypeOK, FindStep
<1>3. CASE FindSelect(c)
  BY <1>3 DEF FindSelect, At, Hold, Finish, TypeInv, TypeOK, FindStep
<1>4. CASE FindFill(c)
  BY <1>4 DEF FindFill, At, Finish, TypeInv, TypeOK, FindStep
<1>5. CASE Reply(c) \/ DbError(c) \/ Drop(c)
  BY <1>5 DEF Reply, DbError, Drop, Finish, TypeInv, TypeOK, FindStep
<1>6. ~Signup(c) /\ ~Login(c) /\ ~List(c) /\ ~Update(c) /\ ~Delete(c)
  BY DEF Signup, Login, List, Update, Delete, SignupCheck, SignupInsert, LoginLookup,
         LoginSelect, LoginCheck, ListLookup, ListPage, ListCount, ListFill,
         UpdateWrite, UpdateStore, DeleteWrite, DeleteEvict, At
<1>7. CASE \/ \E k \in Key : Expire(k)
           \/ \E k \in ListKey : ExpireList(k)
           \/ UNCHANGED vars
  BY <1>7, ExpiryMovesNone DEF FindStep
<1>8. QED
  BY <1>1, <1>2, <1>3, <1>4, <1>5, <1>6, <1>7 DEF Next, Serve, Find

\* A call's outcome is set once, with its last step but the answer.
LEMMA NextSettled == TypeInv /\ SettledOnce /\ [Next]_vars => SettledOnce'
<1> SUFFICES ASSUME TypeInv, SettledOnce, [Next]_vars, NEW c \in Call
             PROVE  outcome'[c] # "none" => pc'[c] \in {"reply", "done"}
  BY DEF SettledOnce
<1>1. outcome[c] # "none" => pc[c] \in {"reply", "done"}
  BY DEF SettledOnce
<1>2. ASSUME NEW d \in Call, Serve(d) \/ DbError(d) \/ Drop(d), c # d
      PROVE  outcome'[c] = outcome[c] /\ pc'[c] = pc[c]
  BY <1>2, OneCallMoves
<1>3. ASSUME NEW label, NEW status, Goto(c, label) \/ Finish(c, status),
             pc[c] \notin {"reply", "done"}
      PROVE  outcome'[c] # "none" => pc'[c] \in {"reply", "done"}
  BY <1>1, <1>3 DEF Goto, Finish, TypeInv, TypeOK
<1>4. ASSUME Signup(c) \/ Login(c) \/ Find(c) \/ Update(c) \/ Delete(c)
      PROVE  \E label, status :
                /\ Goto(c, label) \/ Finish(c, status)
                /\ pc[c] \notin {"reply", "done"}
  BY <1>4 DEF Signup, Login, Find, Update, Delete, SignupCheck, SignupInsert, LoginLookup,
     LoginSelect, LoginCheck, FindLookup, FindSelect, FindFill, UpdateWrite, UpdateStore,
     DeleteWrite, DeleteEvict, At
<1>5. ASSUME List(c)
      PROVE  \/ UNCHANGED <<pc, outcome>>
             \/ \E label, status :
                   /\ Goto(c, label) \/ Finish(c, status)
                   /\ pc[c] \notin {"reply", "done"}
  BY <1>5 DEF List, ListLookup, ListPage, ListCount, ListFill, At
<1>6. ASSUME Reply(c) \/ DbError(c) \/ Drop(c)
      PROVE  outcome'[c] # "none" => pc'[c] \in {"reply", "done"}
  BY <1>1, <1>6 DEF Reply, DbError, Drop, Finish, TypeInv, TypeOK
<1>7. CASE \/ \E k \in Key : Expire(k)
           \/ \E k \in ListKey : ExpireList(k)
           \/ UNCHANGED vars
  BY <1>1, <1>7, ExpiryMovesNone
<1>8. QED
  BY <1>1, <1>2, <1>3, <1>4, <1>5, <1>6, <1>7 DEF Next, Serve

\* A list shows accounts as they are, or as they were when it was cached.
PageStep ==
    \A c \in Call :
        \/ page'[c].items = page[c].items
        \/ \E q : page'[c].items = PageOf(q)
        \/ \E k \in ListKey : lists[k] # NoEntry /\ page'[c].items = lists[k].page.items

CacheStep ==
    \A k \in ListKey :
        \/ lists'[k] = lists[k]
        \/ lists'[k] = NoEntry
        \/ \E c \in Call : lists'[k].page = page[c]

LEMMA PageSteps == TypeInv /\ [Next]_vars => PageStep /\ CacheStep
<1> SUFFICES ASSUME TypeInv, [Next]_vars PROVE PageStep /\ CacheStep
  OBVIOUS
<1>a. page \in [Call -> Page] /\ \A c \in Call : job[c] \in Job
  BY DEF TypeInv, TypeOK
<1>1. ASSUME NEW c \in Call, ListLookup(c) PROVE PageStep /\ CacheStep
  <2>1. Normal(job[c].query) \in ListKey
    BY <1>1, <1>a, JobType DEF ListLookup, At
  <2> DEFINE e == lists[Normal(job[c].query)]
  <2>2. \/ page' = page
        \/ e # NoEntry /\ page' = [page EXCEPT ![c] = e.page]
    BY <1>1 DEF ListLookup
  <2>3. lists' = lists
    BY <1>1 DEF ListLookup, stores
  <2>4. QED
    BY <1>a, <2>1, <2>2, <2>3 DEF PageStep, CacheStep
<1>2. ASSUME NEW c \in Call, ListPage(c) \/ ListCount(c) PROVE PageStep /\ CacheStep
  <2>1. lists' = lists
    BY <1>2 DEF ListPage, ListCount, stores
  <2>2. page[c] \in Page
    BY <1>a
  <2>3. \A d \in Call : d # c => page'[d] = page[d]
    BY <1>2, <1>a DEF ListPage, ListCount
  <2>4. ListPage(c) => page'[c] = [page[c] EXCEPT !.items = PageOf(Normal(job[c].query))]
    BY <1>a DEF ListPage
  <2>5. ListCount(c) => \E n : page'[c] = [page[c] EXCEPT !.total = n]
    BY <1>a DEF ListCount
  <2>6. page'[c].items = page[c].items \/ \E q : page'[c].items = PageOf(q)
    <3>1. CASE ListPage(c)
      BY <2>2, <2>4, <3>1 DEF Page
    <3>2. CASE ListCount(c)
      BY <2>2, <2>5, <3>2 DEF Page
    <3>3. QED
      BY <1>2, <3>1, <3>2
  <2>7. QED
    BY <2>1, <2>3, <2>6 DEF PageStep, CacheStep
<1>3. ASSUME NEW c \in Call, ListFill(c) PROVE PageStep /\ CacheStep
  <2> DEFINE key == Normal(job[c].query)
             stored(ttl) == [page |-> page[c], ttl |-> ttl]
  <2>1. \/ lists' = [lists EXCEPT ![key] = stored(TRUE)]
        \/ lists' = [lists EXCEPT ![key] = stored(FALSE)]
        \/ lists' = lists
    BY <1>3 DEF ListFill
  <2>2. stored(TRUE).page = page[c] /\ stored(FALSE).page = page[c]
    OBVIOUS
  <2>3. page' = page
    BY <1>3 DEF ListFill
  <2> HIDE DEF stored, key
  <2>4. QED
    BY <2>1, <2>2, <2>3 DEF PageStep, CacheStep, TypeInv, TypeOK
<1>4. ASSUME NEW k \in ListKey, ExpireList(k) PROVE PageStep /\ CacheStep
  BY <1>4 DEF ExpireList, PageStep, CacheStep, TypeInv, TypeOK
<1>5. ASSUME UNCHANGED <<page, lists>> PROVE PageStep /\ CacheStep
  BY <1>5 DEF PageStep, CacheStep
<1>6. QED
  BY <1>1, <1>2, <1>3, <1>4, <1>5
     DEF Next, Serve, Signup, Login, Find, List, Update, Delete, SignupCheck,
         SignupInsert, LoginLookup, LoginSelect, LoginCheck, FindLookup, FindSelect,
         FindFill, UpdateWrite, UpdateStore, DeleteWrite, DeleteEvict, Reply, DbError,
         Drop, Expire, vars, stores

LEMMA PageStored ==
    ASSUME TypeInv, NEW q, NEW e \in PageOf(q)
    PROVE  WasStored(e[1], e[2])
<1>1. PICK u \in Matching(q) : e = <<u, Version(u)>>
  BY DEF PageOf
<1>2. u \in Id /\ Row(u) # Absent
  BY DEF Matching, Present
<1>3. QED
  BY <1>1, <1>2, PresentStored

LEMMA NextShown == TypeInv /\ ShownInv /\ [Next]_vars => ShownInv'
<1> SUFFICES ASSUME TypeInv, ShownInv, [Next]_vars
             PROVE  ShownInv'
  OBVIOUS
<1>a. \A u \in Id : \A n : WasStored(u, n) => WasStored(u, n)' /\ StoredIn(log', u, n)
  BY StoredStays
<1>b. job' = job /\ \A c \in Call : job[c] \in Job
  BY JobStays DEF TypeInv, TypeOK
<1>1. SettledOnce'
  BY NextSettled DEF ShownInv
<1>2. CachedUsers'
  <2> SUFFICES ASSUME NEW u \in Id, redis'[UserKey(u)] # NoEntry
               PROVE  /\ redis'[UserKey(u)].id = u
                      /\ StoredIn(log', u, redis'[UserKey(u)].ver)
    BY DEF CachedUsers, UserKey, WasStored, StoredIn, Version
  <2>1. CASE redis'[UserKey(u)] = redis[UserKey(u)]
    BY <1>a, <2>1 DEF ShownInv, CachedUsers
  <2>2. ASSUME NEW c \in Call, job[c].op = "find", pc[c] = "fill", job[c].id = u,
               redis'[UserKey(u)].id = held[c].id, redis'[UserKey(u)].ver = held[c].ver
        PROVE  redis'[UserKey(u)].id = u /\ StoredIn(log', u, redis'[UserKey(u)].ver)
    <3>1. held[c].id = u /\ WasStored(u, held[c].ver)
      BY <2>2 DEF ShownInv, FoundUsers, HoldsAsked
    <3>2. QED
      BY <1>a, <2>2, <3>1
  <2>3. QED
    BY <2>1, <2>2, EntrySteps DEF EntryStep
<1>3. FoundUsers'
  <2> SUFFICES ASSUME NEW c \in Call, job[c].op = "find",
                      pc'[c] = "fill" \/ outcome'[c] = "ok"
               PROVE  HoldsAsked(c)'
    BY <1>b DEF FoundUsers
  <2> DEFINE u == job[c].id
  <2>1. u \in Id
    BY <1>b, JobType
  <2>2. held'[c].id = u /\ WasStored(u, held'[c].ver)
    <3>1. CASE /\ held'[c] = held[c]
               /\ pc[c] = "fill" \/ outcome[c] = "ok"
      BY <3>1 DEF ShownInv, FoundUsers, HoldsAsked
    <3>2. CASE /\ redis[UserKey(u)] # NoEntry
               /\ held'[c].id = redis[UserKey(u)].id
               /\ held'[c].ver = redis[UserKey(u)].ver
      BY <2>1, <3>2 DEF ShownInv, CachedUsers
    <3>3. CASE Row(u) # Absent /\ held'[c] = [id |-> u, ver |-> Version(u)]
      BY <2>1, <3>3, PresentStored
    <3>4. QED
      BY <3>1, <3>2, <3>3, FindSteps DEF FindStep
  <2>3. StoredIn(log', u, held'[c].ver)
    BY <1>a, <2>1, <2>2
  <2>4. QED
    BY <1>b, <2>2, <2>3 DEF HoldsAsked, WasStored, StoredIn, Version
<1>4. ListedUsers'
  <2>1. ASSUME NEW x \in SUBSET (Id \X Nat),
               \A e \in x : WasStored(e[1], e[2]),
               NEW e \in x
        PROVE  WasStored(e[1], e[2])'
    BY <1>a, <2>1
  <2>2. \A c \in Call : page[c].items \in SUBSET (Id \X Nat)
    BY DEF TypeInv, TypeOK, Page
  <2>3. \A k \in ListKey :
           lists[k] # NoEntry => lists[k].page.items \in SUBSET (Id \X Nat)
    BY DEF TypeInv, TypeOK, Page
  <2>4. ASSUME NEW k \in ListKey, lists'[k] # NoEntry, NEW e \in lists'[k].page.items
        PROVE  WasStored(e[1], e[2])'
    <3>1. CASE lists'[k] = lists[k]
      BY <2>1, <2>3, <2>4, <3>1 DEF ShownInv, ListedUsers
    <3>2. ASSUME NEW c \in Call, lists'[k].page = page[c] PROVE WasStored(e[1], e[2])'
      BY <2>1, <2>2, <2>4, <3>2 DEF ShownInv, ListedUsers
    <3>3. QED
      BY <2>4, <3>1, <3>2, PageSteps DEF CacheStep
  <2>5. ASSUME NEW c \in Call, NEW e \in page'[c].items PROVE WasStored(e[1], e[2])'
    <3>1. CASE page'[c].items = page[c].items
      BY <2>1, <2>2, <2>5, <3>1 DEF ShownInv, ListedUsers
    <3>2. ASSUME NEW q, page'[c].items = PageOf(q) PROVE WasStored(e[1], e[2])'
      BY <2>1, <2>5, <3>2, PageStored, PageType DEF TypeInv
    <3>3. ASSUME NEW k \in ListKey, lists[k] # NoEntry,
                 page'[c].items = lists[k].page.items
          PROVE  WasStored(e[1], e[2])'
      BY <2>1, <2>3, <2>5, <3>3 DEF ShownInv, ListedUsers
    <3>4. QED
      BY <3>1, <3>2, <3>3, PageSteps DEF PageStep
  <2>6. QED
    BY <2>4, <2>5 DEF ListedUsers
<1>5. QED
  BY <1>1, <1>2, <1>3, <1>4 DEF ShownInv

LEMMA InitShown == Init => ShownInv
  BY DEF Init, ShownInv, SettledOnce, CachedUsers, FoundUsers, ListedUsers, NoPage, Key

\* A user's page shows that user as the account once was, cached or not, and so
\* does every list.
THEOREM ShownAsStored == Spec => []UsersShownWereStored
<1>1. ShownInv => UsersShownWereStored
  BY DEF ShownInv, CachedUsers, FoundUsers, HoldsAsked, ListedUsers, UsersShownWereStored
<1>2. Spec => [](TypeInv /\ ShownInv)
  BY InitType, NextType, InitShown, NextShown, PTL DEF Spec
<1>3. QED
  BY <1>1, <1>2, PTL

----------------------------------------------------------------------------
(* Sessions: what the gateway adds *)

ServiceInv ==
    TypeInv /\ LoginInv /\ ShownInv /\ OneAccountPerEmail /\ IdNamesOneAccount

\* The one thing the gateway does to a call of the service before it sends it:
\* who asks for "me" asks for the account of the token.
Redirect(c, u) ==
    /\ job[c].op = "find" /\ pc[c] = "start"
    /\ job' = [job EXCEPT ![c] = [@ EXCEPT !.id = u]]
    /\ UNCHANGED <<stores, pc, live, held, page, outcome>>

LEMMA RedirectJob ==
    ASSUME TypeInv, NEW c \in Call, NEW u \in Id, Redirect(c, u)
    PROVE  /\ job' \in [Call -> Job]
           /\ \A d \in Call : d # c => job'[d] = job[d]
           /\ job'[c].op = "find" /\ job'[c].id = u
<1>1. job[c] \in Job /\ job[c] \in [op : {"find"}, id : Id]
  <2>1. job[c] \in Job /\ job[c].op = "find"
    BY DEF TypeInv, TypeOK, Redirect
  <2>2. job[c] \in AnyJob
    BY <2>1, AccountAssumption
  <2>3. QED
    BY <2>1, <2>2 DEF AnyJob
<1>2. [job[c] EXCEPT !.id = u] \in Job
  BY <1>1, GateAssumption DEF Redirect
<1>3. [job[c] EXCEPT !.id = u].op = "find" /\ [job[c] EXCEPT !.id = u].id = u
  BY <1>1
<1>4. QED
  BY <1>2, <1>3 DEF Redirect, TypeInv, TypeOK

LEMMA RedirectKeeps ==
    ASSUME ServiceInv, NEW c \in Call, NEW u \in Id, Redirect(c, u)
    PROVE  ServiceInv'
<1>1. /\ job' \in [Call -> Job]
      /\ \A d \in Call : d # c => job'[d] = job[d]
      /\ job[c].op = "find" /\ pc[c] = "start" /\ job'[c].op = "find"
  BY RedirectJob DEF ServiceInv, Redirect
<1>2. UNCHANGED <<stores, pc, live, held, page, outcome>>
  BY DEF Redirect
<1>3. TypeInv'
  BY <1>1, <1>2
     DEF ServiceInv, TypeInv, TypeOK, HoldsAccount, Unissued, At, stores
<1>4. LoginInv'
  BY <1>1, <1>2
     DEF ServiceInv, LoginInv, NoTokenFound, HoldsLogin, Version, stores
<1>5. SettledOnce' /\ outcome[c] = "none"
  BY <1>1, <1>2 DEF ServiceInv, ShownInv, SettledOnce
<1>6. CachedUsers' /\ ListedUsers'
  BY <1>2 DEF ServiceInv, ShownInv, CachedUsers, ListedUsers, WasStored, Version, stores
<1>7. FoundUsers'
  BY <1>1, <1>2, <1>5
     DEF ServiceInv, ShownInv, FoundUsers, HoldsAsked, WasStored, Version, stores
<1>8. OneAccountPerEmail' /\ IdNamesOneAccount'
  BY <1>2
     DEF ServiceInv, OneAccountPerEmail, IdNamesOneAccount, Present, Row, Version, stores
<1>9. QED
  BY <1>3, <1>4, <1>5, <1>6, <1>7, <1>8 DEF ServiceInv, ShownInv

----------------------------------------------------------------------------
(* The session invariant *)

Stages == {"new", "body", "queued", "calling", "closing", "served", "left", "hungup"}

GateOK ==
    /\ now \in Nat
    /\ token \in [Call -> Token \cup {NoToken}]
    /\ me \subseteq {c \in Call : job[c].op = "find"}
    /\ admitted \in [Call -> [id : Id \cup {0}, at : Nat]]
    /\ gate \in [Call -> Stages]
    /\ http \in [Call -> {0, 200, 201, 400, 401, 500}]

\* The server has not begun what has not come in.
Unsent == \A c \in Call : gate[c] = "new" => pc[c] = "start"

\* A token names the account that a login, checked, still holds.
TokensAreChecked ==
    \A l \in Call : token[l] # NoToken =>
        /\ job[l].op = "login" /\ outcome[l] = "ok" /\ pc[l] \in {"reply", "done"}
        /\ token[l].id = held[l].id

\* The middleware did not stop call c.
Passed(c) ==
    /\ gate[c] # "new"
    /\ ~(gate[c] = "served" /\ http[c] = 401 /\ pc[c] = "start")

ByLogin(c) ==
    \E l \in Call : LoggedIn(l, admitted[c].id) /\ admitted[c].at <= token[l].exp

\* What the middleware let in it let in by a login, and "me" asks for its account.
Admission ==
    \A c \in Call : job[c].op \notin Open /\ Passed(c) =>
        ByLogin(c) /\ (c \in me => job[c].id = admitted[c].id)

SessionInv == GateOK /\ Unsent /\ TokensAreChecked /\ Admission

LEMMA InitSession == GateInit => ServiceInv /\ SessionInv
<1> SUFFICES ASSUME GateInit PROVE ServiceInv /\ SessionInv
  OBVIOUS
<1>1. Init
  BY DEF GateInit
<1>2. ServiceInv
  BY <1>1, InitType, InitShown, InitEmails, InitIds
     DEF Init, ServiceInv, LoginInv, NoTokenFound, Key
<1>3. SessionInv
  BY <1>1 DEF GateInit, Init, NotYet, SessionInv, GateOK, Unsent, TokensAreChecked,
     Admission, Passed, Stages
<1>4. QED
  BY <1>2, <1>3

\* What a step of the gateway is to the service: a step of its own, or a call
\* sent on to another account before it begins.
LEMMA GateSteps ==
    ASSUME ServiceInv, SessionInv, [GateNext]_allVars
    PROVE  [Next]_vars \/ \E c \in me, u \in Id : Arrive(c) /\ Redirect(c, u)
<1>1. ASSUME NEW c \in Call, Arrive(c)
      PROVE  UNCHANGED vars \/ \E u \in Id : c \in me /\ Redirect(c, u)
  <2>1. UNCHANGED <<stores, pc, live, held, page, outcome>>
    BY <1>1 DEF Arrive
  <2>2. CASE job' = job
    BY <2>1, <2>2 DEF vars
  <2>3. ASSUME NEW u \in Id, c \in me, AskFor(c, u) PROVE Redirect(c, u)
    <3>1. job[c].op = "find" /\ pc[c] = "start"
      BY <1>1, <2>3 DEF Arrive, SessionInv, GateOK, Unsent
    <3>2. QED
      BY <2>1, <2>3, <3>1 DEF AskFor, Redirect
  <2>4. ASSUME NEW u, c \notin me, AskFor(c, u) PROVE job' = job
    BY <2>4 DEF AskFor, ServiceInv, TypeInv, TypeOK
  <2>5. job' = job \/ \E u \in Id : AskFor(c, u)
    BY <1>1 DEF Arrive, Valid, Token
  <2>6. QED
    BY <2>2, <2>3, <2>4, <2>5
<1>2. QED
  BY <1>1 DEF GateNext, ReadBody, Acquire, Answered, Release, HangUp, ServerStep,
     ServerDrop, Expiry, Tick, Next, allVars, SessionInv, GateOK

LEMMA NextService == ServiceInv /\ SessionInv /\ [GateNext]_allVars => ServiceInv'
<1> SUFFICES ASSUME ServiceInv, SessionInv, [GateNext]_allVars PROVE ServiceInv'
  OBVIOUS
<1>1. CASE [Next]_vars
  BY <1>1, NextType, NextLogin, NextShown, NextEmails, NextIds DEF ServiceInv
<1>2. CASE \E c \in me, u \in Id : Redirect(c, u)
  BY <1>2, RedirectKeeps DEF SessionInv, GateOK
<1>3. QED
  BY <1>1, <1>2, GateSteps

\* No step changes what kind of call a call is.
LEMMA OpsStay ==
    ASSUME ServiceInv, SessionInv, [GateNext]_allVars, NEW c \in Call
    PROVE  job'[c].op = job[c].op
<1>1. CASE [Next]_vars
  BY <1>1, JobStays
<1>2. ASSUME NEW d \in me, NEW u \in Id, Redirect(d, u) PROVE job'[c].op = job[c].op
  BY <1>2, RedirectJob DEF ServiceInv, SessionInv, GateOK, Redirect
<1>3. QED
  BY <1>1, <1>2, GateSteps

----------------------------------------------------------------------------
(* Tokens and the requests that bring them *)

\* A call that has its outcome keeps it, and what it holds.
LEMMA OutcomeStays ==
    ASSUME TypeInv, [Next]_vars, NEW c \in Call, pc[c] \in {"reply", "done"}
    PROVE  /\ pc'[c] \in {"reply", "done"}
           /\ outcome'[c] = outcome[c] /\ held'[c] = held[c]
<1>1. ASSUME NEW d \in Call, Serve(d) \/ DbError(d) \/ Drop(d), c # d
      PROVE  outcome'[c] = outcome[c] /\ pc'[c] = pc[c] /\ held'[c] = held[c]
  BY <1>1, OneCallMoves
<1>2. ~Signup(c) /\ ~Login(c) /\ ~Find(c) /\ ~List(c) /\ ~Update(c) /\ ~Delete(c)
  BY DEF Signup, Login, Find, List, Update, Delete, SignupCheck, SignupInsert,
         LoginLookup, LoginSelect, LoginCheck, FindLookup, FindSelect, FindFill,
         ListLookup, ListPage, ListCount, ListFill, UpdateWrite, UpdateStore,
         DeleteWrite, DeleteEvict, At
<1>3. ~DbError(c)
  BY DEF DbError, At
<1>4. CASE Reply(c) \/ Drop(c)
  BY <1>4 DEF Reply, Drop, TypeInv, TypeOK
<1>5. CASE \/ \E k \in Key : Expire(k)
           \/ \E k \in ListKey : ExpireList(k)
           \/ UNCHANGED vars
  BY <1>5, ExpiryMovesNone
<1>6. QED
  BY <1>1, <1>2, <1>3, <1>4, <1>5 DEF Next, Serve

\* No step begins a call for the server but one that serves it.
LEMMA StartStays ==
    ASSUME ServiceInv, SessionInv, [GateNext]_allVars, NEW c \in Call,
           pc[c] = "start", pc'[c] # "start"
    PROVE  ServerStep(c)
<1>1. ~UNCHANGED pc
  OBVIOUS
<1>2. PICK d \in Call : ServerStep(d)
  BY <1>1 DEF GateNext, Arrive, ReadBody, Acquire, Answered, Release, HangUp, ServerDrop,
     Drop, Expiry, Expire, ExpireList, Tick, vars, allVars
<1>3. d = c
  BY <1>2, OneCallMoves DEF ServerStep, ServiceInv
<1>4. QED
  BY <1>2, <1>3

\* A new token is that of a login whose password was just found right.
TokenStep(l) ==
    \/ token'[l] = token[l]
    \/ /\ job[l].op = "login" /\ pc[l] = "check" /\ pc'[l] = "reply"
       /\ outcome'[l] = "ok" /\ held'[l] = held[l]
       /\ token'[l] = [id |-> held[l].id, exp |-> now + Life]
       /\ held[l].id \in Id

LEMMA TokenSteps ==
    ASSUME ServiceInv, SessionInv, [GateNext]_allVars, NEW l \in Call
    PROVE  TokenStep(l)
<1>1. token \in [Call -> Token \cup {NoToken}]
  BY DEF SessionInv, GateOK
<1>2. ASSUME NEW c \in Call, ServerStep(c) PROVE TokenStep(l)
  <2>1. \/ token' = token
        \/ /\ At(c, {"login"}, "check") /\ outcome'[c] = "ok"
           /\ token' = [token EXCEPT ![c] = [id |-> held[c].id, exp |-> now + Life]]
    BY <1>2 DEF ServerStep, Issue
  <2>2. CASE token' = token \/ l # c
    BY <1>1, <2>1, <2>2 DEF TokenStep
  <2>3. CASE l = c /\ token' # token
    <3>1. job[l].op = "login" /\ pc[l] = "check" /\ outcome'[l] = "ok"
      BY <2>1, <2>3 DEF At
    <3>2. LoginStep(l)
      <4>1. [Next]_vars
        BY <1>2 DEF ServerStep, Next
      <4>2. QED
        BY <3>1, <4>1, LoginSteps DEF ServiceInv, LoginInv
    <3>3. outcome[l] # "ok"
      BY <3>1 DEF ServiceInv, LoginInv
    <3>4. pc'[l] = "reply" /\ held'[l] = held[l]
      BY <3>1, <3>2, <3>3 DEF LoginStep
    <3>5. held[l].id \in Id
      BY <3>1 DEF ServiceInv, LoginInv, HoldsLogin
    <3>6. QED
      BY <1>1, <2>1, <2>3, <3>1, <3>4, <3>5 DEF TokenStep
  <2>4. QED
    BY <2>2, <2>3
<1>3. CASE UNCHANGED token
  BY <1>3 DEF TokenStep
<1>4. QED
  BY <1>2, <1>3
     DEF GateNext, Arrive, ReadBody, Acquire, Answered, Release, HangUp, ServerDrop,
         Expiry, Tick, sessionVars, allVars

LEMMA NextTokens ==
    ServiceInv /\ SessionInv /\ [GateNext]_allVars => TokensAreChecked'
<1> SUFFICES ASSUME ServiceInv, SessionInv, [GateNext]_allVars,
                    NEW l \in Call, token'[l] # NoToken
             PROVE  /\ job'[l].op = "login" /\ outcome'[l] = "ok"
                    /\ pc'[l] \in {"reply", "done"}
                    /\ token'[l].id = held'[l].id
  BY DEF TokensAreChecked
<1>1. job'[l].op = job[l].op
  BY OpsStay
<1>2. CASE token'[l] = token[l]
  <2>1. /\ job[l].op = "login" /\ outcome[l] = "ok" /\ pc[l] \in {"reply", "done"}
        /\ token[l].id = held[l].id
    BY <1>2 DEF SessionInv, TokensAreChecked
  <2>2. CASE [Next]_vars
    BY <1>1, <1>2, <2>1, <2>2, OutcomeStays DEF ServiceInv
  <2>3. CASE \E c \in me, u \in Id : Redirect(c, u)
    BY <1>1, <1>2, <2>1, <2>3 DEF Redirect
  <2>4. QED
    BY <2>2, <2>3, GateSteps
<1>3. CASE token'[l] # token[l]
  <2>1. /\ job[l].op = "login" /\ outcome'[l] = "ok" /\ pc'[l] = "reply"
        /\ held'[l] = held[l] /\ token'[l] = [id |-> held[l].id, exp |-> now + Life]
    BY <1>3, TokenSteps DEF TokenStep
  <2>2. token'[l].id = held[l].id
    BY <2>1
  <2>3. QED
    BY <1>1, <2>1, <2>2
<1>4. QED
  BY <1>2, <1>3

LEMMA NextGateOK ==
    ServiceInv /\ SessionInv /\ [GateNext]_allVars => GateOK' /\ Unsent'
<1> SUFFICES ASSUME ServiceInv, SessionInv, [GateNext]_allVars PROVE GateOK' /\ Unsent'
  OBVIOUS
<1>1. now' \in Nat
  <2>1. now' = now \/ now' = now + 1
    BY DEF GateNext, Arrive, ReadBody, Acquire, Answered, Release, HangUp, ServerStep,
           ServerDrop, Expiry, Tick, sessionVars, allVars
  <2>2. QED
    BY <2>1 DEF SessionInv, GateOK
<1>2. \A l \in Call : token'[l] \in Token \cup {NoToken}
  <2> SUFFICES ASSUME NEW l \in Call PROVE token'[l] \in Token \cup {NoToken}
    OBVIOUS
  <2>1. now + Life \in Nat
    BY GateAssumption DEF SessionInv, GateOK
  <2>2. \A u \in Id : [id |-> u, exp |-> now + Life] \in Token
    BY <2>1 DEF Token
  <2>3. token[l] \in Token \cup {NoToken}
    BY DEF SessionInv, GateOK
  <2>4. token'[l] = token[l] \/ \E u \in Id : token'[l] = [id |-> u, exp |-> now + Life]
    BY TokenSteps DEF TokenStep
  <2>5. QED
    BY <2>2, <2>3, <2>4
<1>3. token' \in [Call -> Token \cup {NoToken}]
  <2>1. \/ token' = token
        \/ \E c \in Call : \E v : token' = [token EXCEPT ![c] = v]
    BY DEF GateNext, Arrive, ReadBody, Acquire, Answered, Release, HangUp, ServerStep,
           Issue, ServerDrop, Expiry, Tick, sessionVars, allVars
  <2>2. QED
    BY <1>2, <2>1 DEF SessionInv, GateOK
<1>4. me' \subseteq {c \in Call : job'[c].op = "find"}
  <2>1. me' = me
    BY DEF GateNext, Arrive, ReadBody, Acquire, Answered, Release, HangUp, ServerStep,
           ServerDrop, Expiry, Tick, sessionVars, allVars
  <2>2. QED
    BY <2>1, OpsStay DEF SessionInv, GateOK
<1>5. gate' \in [Call -> Stages] /\ \A c \in Call : gate'[c] = "new" => gate[c] = "new"
  <2>1. \/ gate' = gate
        \/ \E c \in Call, s \in Stages \ {"new"} : gate' = [gate EXCEPT ![c] = s]
    BY DEF GateNext, Arrive, Proceed, ReadBody, Acquire, Answered, Release, HangUp, Move,
           ServerStep, ServerDrop, Expiry, Tick, gateVars, allVars, Stages
  <2>2. QED
    BY <2>1 DEF SessionInv, GateOK
<1>6. Unsent'
  <2> SUFFICES ASSUME NEW c \in Call, gate'[c] = "new" PROVE pc'[c] = "start"
    BY DEF Unsent
  <2>1. gate[c] = "new" /\ pc[c] = "start"
    BY <1>5 DEF SessionInv, Unsent
  <2>2. ~ServerStep(c)
    BY <2>1 DEF ServerStep, AtServer
  <2>3. QED
    BY <2>1, <2>2, StartStays
<1>7. admitted' \in [Call -> [id : Id \cup {0}, at : Nat]]
  <2>1. \/ admitted' = admitted
        \/ \E c \in Call, u \in Id :
              admitted' = [admitted EXCEPT ![c] = [id |-> u, at |-> now]]
    BY DEF GateNext, Arrive, Valid, Token, ReadBody, Acquire, Answered, Release, HangUp,
           ServerStep, ServerDrop, Expiry, Tick, sessionVars, allVars
  <2>2. \A u \in Id : [id |-> u, at |-> now] \in [id : Id \cup {0}, at : Nat]
    BY DEF SessionInv, GateOK
  <2>3. QED
    BY <2>1, <2>2 DEF SessionInv, GateOK
<1>8. http' \in [Call -> {0, 200, 201, 400, 401, 500}]
  <2>1. \A op, code : HttpStatus(op, code) \in {200, 201, 401, 500}
    BY DEF HttpStatus
  <2>2. ASSUME NEW c \in Call, Arrive(c) \/ ReadBody(c) \/ Answered(c)
        PROVE  http' \in [Call -> {0, 200, 201, 400, 401, 500}]
    <3>1. \/ http' = http
          \/ \E s \in {200, 201, 400, 401, 500} : http' = [http EXCEPT ![c] = s]
      BY <2>1, <2>2 DEF Arrive, ReadBody, Answered
    <3>2. QED
      BY <3>1 DEF SessionInv, GateOK
  <2>3. CASE http' = http
    BY <2>3 DEF SessionInv, GateOK
  <2>4. QED
    BY <2>2, <2>3 DEF GateNext, Acquire, Release, HangUp, ServerStep, ServerDrop, Expiry,
       Tick, gateVars, allVars
<1>9. QED
  BY <1>1, <1>3, <1>4, <1>5, <1>6, <1>7, <1>8 DEF GateOK

----------------------------------------------------------------------------
(* Who is let in has logged in *)

\* What the gateway does for a request it does to no other.
LEMMA GateMoves ==
    ASSUME SessionInv, NEW d \in Call,
           \/ Arrive(d) \/ ReadBody(d) \/ Acquire(d) \/ Answered(d) \/ Release(d)
           \/ HangUp(d),
           NEW c \in Call, c # d
    PROVE  gate'[c] = gate[c] /\ http'[c] = http[c] /\ admitted'[c] = admitted[c]
<1>1. \E s : gate' = [gate EXCEPT ![d] = s]
  BY DEF Arrive, Proceed, ReadBody, Acquire, Answered, Release, HangUp, Move
<1>2. UNCHANGED http \/ \E s : http' = [http EXCEPT ![d] = s]
  BY DEF Arrive, ReadBody, Acquire, Answered, Release, HangUp
<1>3. UNCHANGED admitted \/ \E s : admitted' = [admitted EXCEPT ![d] = s]
  BY DEF Arrive, ReadBody, Acquire, Answered, Release, HangUp, sessionVars
<1>4. QED
  BY <1>1, <1>2, <1>3 DEF SessionInv, GateOK

\* What was answered stays answered.
LEMMA ServedStays ==
    ASSUME ServiceInv, SessionInv, [GateNext]_allVars, NEW c \in Call, gate[c] = "served"
    PROVE  gate'[c] = "served" /\ http'[c] = http[c]
<1>1. ASSUME NEW d \in Call,
             \/ Arrive(d) \/ ReadBody(d) \/ Acquire(d) \/ Answered(d) \/ Release(d)
             \/ HangUp(d)
      PROVE  gate'[c] = "served" /\ http'[c] = http[c]
  <2>1. gate[d] # "served"
    BY <1>1 DEF Arrive, ReadBody, Acquire, Answered, Release, HangUp
  <2>2. d # c
    BY <2>1
  <2>3. QED
    BY <1>1, <2>2, GateMoves
<1>2. CASE UNCHANGED <<gate, http>>
  BY <1>2
<1>3. QED
  BY <1>1, <1>2 DEF GateNext, ServerStep, ServerDrop, Expiry, Tick, gateVars, allVars

\* A login answered with a token stays one, and the token what it was.
LEMMA LoginStays ==
    ASSUME ServiceInv, SessionInv, [GateNext]_allVars,
           NEW l \in Call, NEW u, LoggedIn(l, u)
    PROVE  LoggedIn(l, u)' /\ token'[l] = token[l]
<1>1. pc[l] \in {"reply", "done"}
  BY DEF LoggedIn, SessionInv, TokensAreChecked
<1>2. token'[l] = token[l]
  BY <1>1, TokenSteps DEF TokenStep
<1>3. gate'[l] = "served" /\ http'[l] = http[l]
  BY ServedStays DEF LoggedIn
<1>4. job'[l].op = job[l].op
  BY OpsStay
<1>5. QED
  BY <1>2, <1>3, <1>4 DEF LoggedIn

\* The middleware lets in who brings the token of a login that was answered.
LEMMA ArriveByLogin ==
    ASSUME ServiceInv, SessionInv, NEW c \in Call, Arrive(c), job[c].op \notin Open,
           Passed(c)'
    PROVE  /\ \E l \in Call : /\ LoggedIn(l, admitted'[c].id)
                              /\ admitted'[c].at <= token[l].exp
           /\ c \in me => job'[c].id = admitted'[c].id
<1>a. /\ pc[c] = "start" /\ pc'[c] = "start"
      /\ admitted \in [Call -> [id : Id \cup {0}, at : Nat]]
      /\ job \in [Call -> Job]
  BY DEF Arrive, SessionInv, Unsent, GateOK, ServiceInv, TypeInv, TypeOK
<1>b. ~(http'[c] = 401 /\ gate'[c] = "served")
  BY <1>a DEF Passed
<1>1. PICK cookie \in InHand \cup {NoToken, BadToken},
           bearer \in InHand \cup {NoToken, BadToken} :
         LET t == Presented(cookie, bearer)
         IN  IF Valid(t)
             THEN /\ admitted' = [admitted EXCEPT ![c] = [id |-> t.id, at |-> now]]
                  /\ AskFor(c, t.id)
             ELSE /\ http' = [http EXCEPT ![c] = 401]
                  /\ gate' = [gate EXCEPT ![c] = "served"]
  BY DEF Arrive
<1> DEFINE t == Presented(cookie, bearer)
<1>2. Valid(t)
  BY <1>b, <1>1 DEF SessionInv, GateOK
<1>3. t \in Token /\ now <= t.exp /\ t \in InHand
  BY <1>2, GateAssumption DEF Valid, Presented, SessionInv, GateOK, Token
<1>4. /\ admitted' = [admitted EXCEPT ![c] = [id |-> t.id, at |-> now]]
      /\ AskFor(c, t.id)
  BY <1>1, <1>2
<1> HIDE DEF t
<1>5. admitted'[c].id = t.id /\ admitted'[c].at = now
  BY <1>a, <1>4
<1>6. PICK l \in Call : gate[l] = "served" /\ http[l] = 200 /\ token[l] = t
  BY <1>3 DEF InHand
<1>7. token[l] # NoToken
  BY <1>3, <1>6, GateAssumption
<1>8. LoggedIn(l, t.id)
  BY <1>6, <1>7 DEF LoggedIn, SessionInv, TokensAreChecked
<1>9. c \in me => job'[c].id = t.id
  <2> SUFFICES ASSUME c \in me PROVE job'[c].id = t.id
    OBVIOUS
  <2>1. Redirect(c, t.id)
    BY <1>a, <1>4 DEF AskFor, Redirect, Arrive, SessionInv, GateOK
  <2>2. QED
    BY <1>3, <2>1, RedirectJob DEF ServiceInv, Token
<1>10. QED
  BY <1>3, <1>5, <1>6, <1>8, <1>9

LEMMA NextAdmission ==
    ServiceInv /\ SessionInv /\ [GateNext]_allVars => Admission'
<1> SUFFICES ASSUME ServiceInv, SessionInv, [GateNext]_allVars,
                    NEW c \in Call, job'[c].op \notin Open, Passed(c)'
             PROVE  ByLogin(c)' /\ (c \in me' => job'[c].id = admitted'[c].id)
  BY DEF Admission
<1>1. me' = me /\ job[c].op \notin Open
  <2>1. me' = me
    BY DEF GateNext, Arrive, ReadBody, Acquire, Answered, Release, HangUp, ServerStep,
           ServerDrop, Expiry, Tick, sessionVars, allVars
  <2>2. QED
    BY <2>1, OpsStay
<1>2. ASSUME NEW u, NEW l \in Call, LoggedIn(l, u), admitted'[c].id = u,
             admitted'[c].at <= token[l].exp
      PROVE  ByLogin(c)'
  <2>1. LoggedIn(l, u)' /\ token'[l] = token[l]
    BY <1>2, LoginStays
  <2>2. QED
    BY <1>2, <2>1 DEF ByLogin, LoggedIn
<1>3. CASE Arrive(c)
  BY <1>1, <1>2, <1>3, ArriveByLogin
<1>4. CASE ~Arrive(c)
  <2>1. Passed(c)
    <3>1. gate[c] # "new"
      <4>1. ASSUME gate[c] = "new" PROVE gate'[c] = "new"
        <5>1. ~ReadBody(c) /\ ~Acquire(c) /\ ~Answered(c) /\ ~Release(c) /\ ~HangUp(c)
          BY <4>1 DEF ReadBody, Acquire, Answered, Release, HangUp
        <5>2. QED
          BY <1>4, <4>1, <5>1, GateMoves
             DEF GateNext, ServerStep, ServerDrop, Expiry, Tick, gateVars, allVars
      <4>2. QED
        BY <4>1 DEF Passed
    <3>2. ASSUME gate[c] = "served", http[c] = 401, pc[c] = "start" PROVE FALSE
      <4>1. gate'[c] = "served" /\ http'[c] = 401
        BY <3>2, ServedStays
      <4>2. ~ServerStep(c)
        BY <3>2 DEF ServerStep, AtServer
      <4>3. pc'[c] = "start"
        BY <3>2, <4>2, StartStays
      <4>4. QED
        BY <4>1, <4>3 DEF Passed
    <3>3. QED
      BY <3>1, <3>2 DEF Passed
  <2>2. admitted'[c] = admitted[c]
    <3>1. ASSUME NEW d \in Call, Arrive(d) PROVE admitted'[c] = admitted[c]
      BY <1>4, <3>1, GateMoves
    <3>2. QED
      BY <3>1 DEF GateNext, ReadBody, Acquire, Answered, Release, HangUp, ServerStep,
         ServerDrop, Expiry, Tick, sessionVars, allVars
  <2>3. job'[c] = job[c]
    <3>1. ASSUME NEW d \in me, NEW u \in Id, Arrive(d), Redirect(d, u)
          PROVE  job'[c] = job[c]
      BY <1>4, <3>1, RedirectJob DEF ServiceInv, SessionInv, GateOK
    <3>2. QED
      BY <3>1, GateSteps, JobStays
  <2>4. ByLogin(c) /\ (c \in me => job[c].id = admitted[c].id)
    BY <1>1, <2>1 DEF SessionInv, Admission
  <2>5. QED
    BY <1>1, <1>2, <2>2, <2>3, <2>4 DEF ByLogin
<1>5. QED
  BY <1>3, <1>4

LEMMA SessionHolds == GateSpec => [](ServiceInv /\ SessionInv)
<1>1. ServiceInv /\ SessionInv /\ [GateNext]_allVars => (ServiceInv /\ SessionInv)'
  BY NextService, NextGateOK, NextTokens, NextAdmission DEF SessionInv
<1>2. QED
  BY <1>1, InitSession, PTL DEF GateSpec

\* Nothing but register and login reaches the server for someone who did not log
\* in, or whose token was no longer good when it came.
THEOREM ServerForLoggedIn == GateSpec => []OnlyLoggedInReachServer
<1>1. ServiceInv /\ SessionInv => OnlyLoggedInReachServer
  BY DEF SessionInv, Admission, Unsent, Passed, ByLogin, OnlyLoggedInReachServer
<1>2. QED
  BY <1>1, SessionHolds, PTL

\* Who asks for "me" is shown the account whose e-mail and password were given,
\* whatever becomes of accounts, entries and calls meanwhile.
THEOREM MeIsTheLogin == GateSpec => []MeIsWhoLoggedIn
<1>1. ASSUME ServiceInv, SessionInv, NEW c \in me, outcome[c] = "ok"
      PROVE  \E l \in Call :
                LET u == held[l].id
                IN  /\ LoggedIn(l, u) /\ held[c].id = u
                    /\ log[u][held[l].ver].email = job[l].email
                    /\ Verifies(job[l].pw, log[u][held[l].ver].secret)
  <2>1. c \in Call /\ job[c].op = "find" /\ job[c].op \notin Open
    BY <1>1 DEF SessionInv, GateOK, Open
  <2>2. pc[c] \in {"reply", "done"}
    BY <1>1, <2>1 DEF ServiceInv, ShownInv, SettledOnce
  <2>3. Passed(c)
    BY <1>1, <2>1, <2>2 DEF Passed, SessionInv, Unsent
  <2>4. held[c].id = job[c].id
    BY <1>1, <2>1 DEF ServiceInv, ShownInv, FoundUsers, HoldsAsked
  <2>5. PICK l \in Call : LoggedIn(l, admitted[c].id)
    BY <1>1, <2>1, <2>3 DEF SessionInv, Admission, ByLogin
  <2>6. job[c].id = admitted[c].id
    BY <1>1, <2>1, <2>3 DEF SessionInv, Admission
  <2>7. /\ token[l] # NoToken /\ token[l].id = admitted[c].id
        /\ job[l].op = "login" /\ outcome[l] = "ok" /\ token[l].id = held[l].id
    BY <1>1, <2>5 DEF LoggedIn, SessionInv, TokensAreChecked
  <2>8. HoldsLogin(l) /\ Verifies(job[l].pw, log[held[l].id][held[l].ver].secret)
    BY <1>1, <2>7 DEF ServiceInv, LoginInv
  <2>9. QED
    BY <2>4, <2>5, <2>6, <2>7, <2>8 DEF HoldsLogin
<1>2. ServiceInv /\ SessionInv => MeIsWhoLoggedIn
  BY <1>1 DEF MeIsWhoLoggedIn
<1>3. QED
  BY <1>2, SessionHolds, PTL

\* The gateway is not quite the service, since it sends "me" on to the account of
\* the token; what the service guarantees holds behind it all the same.
THEOREM AccountsBehindGateway ==
    GateSpec => [](/\ TypeOK
                   /\ OneAccountPerEmail
                   /\ IdNamesOneAccount
                   /\ LoginChecksPassword
                   /\ UsersShownWereStored)
<1>1. ServiceInv => TypeOK /\ OneAccountPerEmail /\ IdNamesOneAccount
  BY DEF ServiceInv, TypeInv
<1>2. ServiceInv => LoginChecksPassword
  BY DEF ServiceInv, LoginInv, LoginChecksPassword, HoldsLogin
<1>3. ServiceInv => UsersShownWereStored
  BY DEF ServiceInv, ShownInv, CachedUsers, FoundUsers, HoldsAsked, ListedUsers,
         UsersShownWereStored
<1>4. QED
  BY <1>1, <1>2, <1>3, SessionHolds, PTL

=============================================================================
