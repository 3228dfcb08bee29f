----------------------- MODULE CategoryGatewayProofs -----------------------
(* Proofs about CategoryGateway: what the mutex adds to the service, and the *)
(* step simulation of CategoryTable.                                         *)
EXTENDS CategoryGateway, CategoryServiceProofs

----------------------------------------------------------------------------
(* Behind the gateway the service takes its own steps and no others *)

LEMMA GateNextIsNext ==
    [GateNext]_allVars => [Next]_vars
  BY DEF GateNext, Ask, Acquire, Answered, Release, HangUp, ServerStep, ServerDrop,
         Expiry, Next, allVars

\* The gateway and the service together are still the service: whatever the
\* mutex, hangups and crashes do to the order of calls, every theorem about the
\* service holds behind the gateway.
THEOREM GateServes == GateSpec => Spec
<1>1. GateInit => Init
  BY DEF GateInit
<1>2. QED
  BY <1>1, GateNextIsNext, PTL DEF GateSpec, Spec

Stages == {"new", "queued", "calling", "closing", "served", "left", "hungup"}

ServiceInv == TypeInv /\ StoredInv /\ WriteInv

LEMMA ServiceHolds == GateSpec => []ServiceInv
<1>1. Spec => []ServiceInv
  BY InitType, NextType, InitStored, NextStored, InitWrite, NextWrite, PTL
     DEF Spec, ServiceInv
<1>2. QED
  BY <1>1, GateServes, PTL

\* What the gateway does, as seen from the server: nothing, or one step of one
\* call that was sent; the gateway stands still while the server moves.
LEMMA GateSteps ==
    ASSUME [GateNext]_allVars
    PROVE  \/ UNCHANGED vars
           \/ UNCHANGED gateVars /\ \E c \in Call : Sent(c) /\ (Serve(c) \/ DbError(c))
           \/ UNCHANGED gateVars /\ \E c \in Call :
                 gate[c] \in {"hungup", "calling"} /\ Drop(c)
           \/ UNCHANGED gateVars
              /\ ((\E i \in Id : ExpireRow(i)) \/ (\E k \in Keys : ExpireList(k)))
  BY DEF GateNext, Ask, Acquire, Answered, Release, HangUp, ServerStep, ServerDrop,
         Expiry, allVars

\* A service step of one call leaves the others as they are.
Alone(c) ==
    \A d \in Call : d # c =>
        /\ pc'[d] = pc[d] /\ live'[d] = live[d] /\ row'[d] = row[d]
        /\ wrote'[d] = wrote[d] /\ lost'[d] = lost[d] /\ outcome'[d] = outcome[d]

LEMMA StepsAlone ==
    ASSUME TypeInv, NEW c \in Call, Serve(c) \/ DbError(c) \/ Drop(c)
    PROVE  Alone(c)
<1>1. CASE GetLookup(c) \/ GetSelect(c) \/ GetFill(c)
  BY <1>1 DEF GetLookup, GetSelect, GetFill, Hold, CacheSet, Goto, Finish, Alone,
              TypeInv, TypeOK
<1>2. CASE ListLookup(c) \/ ListPage(c) \/ ListCount(c) \/ ListFill(c)
  BY <1>2 DEF ListLookup, ListPage, ListCount, ListFill, Goto, Finish, Alone,
              TypeInv, TypeOK
<1>3. CASE CreateInsert(c) \/ UpdateWrite(c) \/ DeleteWrite(c)
  BY <1>3 DEF CreateInsert, UpdateWrite, DeleteWrite, Commit, Goto, Finish, Alone,
              TypeInv, TypeOK
<1>4. CASE UpdateReread(c) \/ UpdateStore(c) \/ DeleteEvict(c)
  BY <1>4 DEF UpdateReread, UpdateStore, DeleteEvict, Hold, CacheSet, CacheDel, Goto,
              Finish, Alone, TypeInv, TypeOK
<1>5. CASE Reply(c) \/ DbError(c) \/ Drop(c)
  BY <1>5 DEF Reply, DbError, Drop, Finish, Alone, TypeInv, TypeOK
<1>6. QED
  BY <1>1, <1>2, <1>3, <1>4, <1>5 DEF Serve, Get, List, Update, Delete

\* What a call has done, lost or answered it does not take back.
Keeps(c) ==
    /\ wrote[c] > 0 => wrote'[c] = wrote[c]
    /\ ~live[c] => ~live'[c] /\ (pc'[c] = "done" => pc[c] = "done")
    /\ lost[c] => lost'[c]
    /\ pc[c] \in {"reply", "done"} =>
          pc'[c] \in {pc[c], "done"} /\ outcome'[c] = outcome[c] /\ row'[c] = row[c]

LEMMA StepKeeps ==
    ASSUME TypeInv, Progress, NEW c \in Call, Serve(c) \/ DbError(c) \/ Drop(c)
    PROVE  Keeps(c)
<1>1. CASE GetLookup(c) \/ GetSelect(c) \/ GetFill(c)
  BY <1>1 DEF GetLookup, GetSelect, GetFill, At, Hold, CacheSet, Goto, Finish, Keeps,
              TypeInv, TypeOK
<1>2. CASE ListLookup(c) \/ ListPage(c) \/ ListCount(c) \/ ListFill(c)
  BY <1>2 DEF ListLookup, ListPage, ListCount, ListFill, At, Goto, Finish, Keeps,
              TypeInv, TypeOK
<1>3. CASE CreateInsert(c) \/ UpdateWrite(c) \/ DeleteWrite(c)
  <2>1. wrote[c] = 0 /\ pc[c] = "start"
    BY <1>3 DEF CreateInsert, UpdateWrite, DeleteWrite, At, Progress
  <2>2. QED
    BY <1>3, <2>1 DEF CreateInsert, UpdateWrite, DeleteWrite, Goto, Finish, Keeps,
                      TypeInv, TypeOK
<1>4. CASE UpdateReread(c) \/ UpdateStore(c) \/ DeleteEvict(c)
  BY <1>4 DEF UpdateReread, UpdateStore, DeleteEvict, At, Hold, CacheSet, CacheDel,
              Goto, Finish, Keeps, TypeInv, TypeOK
<1>5. CASE Reply(c) \/ DbError(c) \/ Drop(c)
  BY <1>5 DEF Reply, DbError, Drop, Finish, Keeps, TypeInv, TypeOK
<1>6. QED
  BY <1>1, <1>2, <1>3, <1>4, <1>5 DEF Serve, Get, List, Update, Delete

LEMMA AllKeep ==
    ASSUME TypeInv, Progress, [GateNext]_allVars, NEW c \in Call
    PROVE  Keeps(c)
<1>1. CASE UNCHANGED vars
  BY <1>1 DEF vars, Keeps
<1>2. ASSUME NEW d \in Call, Serve(d) \/ DbError(d) \/ Drop(d) PROVE Keeps(c)
  BY <1>2, StepsAlone, StepKeeps DEF Alone, Keeps
<1>3. CASE (\E i \in Id : ExpireRow(i)) \/ (\E k \in Keys : ExpireList(k))
  BY <1>3 DEF ExpireRow, ExpireList, Keeps
<1>4. QED
  BY <1>1, <1>2, <1>3, GateSteps

----------------------------------------------------------------------------
(* The calm *)

Calm == ~Overlapped /\ \A c \in Call : ~Harmed(c)

\* No step brings the calm back.
LEMMA CalmFades ==
    ASSUME TypeInv, Progress, gate \in [Call -> Stages], [GateNext]_allVars, Calm'
    PROVE  Calm
<1>1. \A c \in Call : gate[c] = "hungup" => gate'[c] = "hungup"
  BY DEF GateNext, Ask, Acquire, Answered, Release, HangUp, ServerStep, ServerDrop,
         Expiry, allVars, gateVars, Move
<1>2. \A c \in Call : Harmed(c) => Harmed(c)'
  BY AllKeep DEF Harmed, Keeps
<1>3. QED
  BY <1>1, <1>2 DEF Calm, Overlapped

----------------------------------------------------------------------------
(* The mutex *)

\* One request has the client; the server has not begun what it was not sent,
\* and is done with what the gateway has an answer to.
GateOK    == gate \in [Call -> Stages]
OneHolder == \A c, d \in Holders : c = d
Unsent    == \A c \in Call : gate[c] \in {"new", "queued", "left"} =>
                 pc[c] = "start" /\ live[c]
Settled   == \A c \in Call : gate[c] \in {"closing", "served"} =>
                 pc[c] = "done" \/ ~live[c]

MutexInv == GateOK /\ OneHolder /\ Unsent /\ Settled

LEMMA InitMutex == GateInit => MutexInv
  BY DEF GateInit, Init, MutexInv, GateOK, OneHolder, Holders, Unsent, Settled, Stages

LEMMA NextMutex == TypeInv /\ Progress /\ MutexInv /\ [GateNext]_allVars => MutexInv'
<1> SUFFICES ASSUME TypeInv, Progress, MutexInv, [GateNext]_allVars
             PROVE  MutexInv'
  OBVIOUS
<1> USE DEF MutexInv
<1>1. ASSUME NEW c \in Call,
             Ask(c) \/ Acquire(c) \/ Answered(c) \/ Release(c) \/ HangUp(c)
      PROVE  MutexInv'
  <2>1. UNCHANGED <<pc, live>> /\ \A d \in Call : d # c => gate'[d] = gate[d]
    BY <1>1 DEF Ask, Acquire, Answered, Release, HangUp, Move, GateOK, vars
  <2>2. GateOK'
    BY <1>1 DEF Ask, Acquire, Answered, Release, HangUp, Move, GateOK, Stages
  <2>3. OneHolder'
    BY <1>1, <2>1
       DEF Ask, Acquire, Answered, Release, HangUp, Move, GateOK, OneHolder, Holders
  <2>4. Unsent'
    BY <1>1, <2>1
       DEF Ask, Acquire, Answered, Release, HangUp, Move, GateOK, Unsent
  <2>5. Settled'
    BY <1>1, <2>1
       DEF Ask, Acquire, Answered, Release, HangUp, Move, GateOK, Settled
  <2>6. QED
    BY <2>2, <2>3, <2>4, <2>5
<1>2. CASE UNCHANGED gateVars
  <2>1. GateOK' /\ OneHolder'
    BY <1>2 DEF gateVars, GateOK, OneHolder, Holders
  <2>2. Settled'
    BY <1>2, AllKeep DEF gateVars, Keeps, Settled
  <2>3. Unsent'
    <3>1. CASE UNCHANGED vars
      BY <1>2, <3>1 DEF gateVars, vars, Unsent
    <3>2. ASSUME NEW c \in Call, Serve(c) \/ DbError(c) \/ Drop(c),
                 gate[c] \notin {"new", "queued", "left"}
          PROVE  Unsent'
      BY <1>2, <3>2, StepsAlone DEF gateVars, Unsent, Alone
    <3>3. CASE (\E i \in Id : ExpireRow(i)) \/ (\E k \in Keys : ExpireList(k))
      BY <1>2, <3>3 DEF gateVars, Unsent, ExpireRow, ExpireList
    <3>4. QED
      BY <3>1, <3>2, <3>3, GateSteps DEF Sent
  <2>4. QED
    BY <2>1, <2>2, <2>3
<1>3. CASE UNCHANGED allVars
  BY <1>2, <1>3 DEF allVars
<1>4. QED
  BY <1>1, <1>2, <1>3 DEF GateNext, ServerStep, ServerDrop, Expiry

----------------------------------------------------------------------------
(* What a call answers *)

AnswerInv ==
    \A c \in Call :
        /\ pc[c] \in {"reply", "done"} => outcome[c] # "none"
        /\ job[c].op \in {"get", "update"} /\ outcome[c] = "ok" => row[c].name \in Name
        /\ job[c].op \notin {"get", "update"} => row[c] = NoRow
        /\ outcome[c] = "not_found" => job[c].op = "get"
        /\ outcome[c] = "ok" => job[c].op # "create"

LEMMA InitAnswer == Init => AnswerInv
  BY DEF Init, AnswerInv

LEMMA NextAnswer ==
    TypeInv /\ TypeInv' /\ Progress /\ AnswerInv /\ [Next]_vars => AnswerInv'
<1> SUFFICES ASSUME TypeInv, TypeInv', Progress, AnswerInv, [Next]_vars
             PROVE  AnswerInv'
  OBVIOUS
<1>1. ASSUME NEW c \in Call, GetLookup(c) \/ GetSelect(c) \/ GetFill(c)
      PROVE  AnswerInv'
  <2>1. job[c].id \in Id /\ (cache[job[c].id] # NoEntry => cache[job[c].id].name \in Name)
    <3>1. job[c] \in Job /\ job[c].op = "get"
      BY <1>1 DEF GetLookup, GetSelect, GetFill, At, TypeInv, TypeOK
    <3>2. job[c].id \in Id
      BY <3>1, JobType
    <3>3. QED
      BY <3>2 DEF TypeInv, TypeOK, Entry
  <2>2. outcome[c] = "none"
    BY <1>1 DEF GetLookup, GetSelect, GetFill, At, Progress
  <2>3. QED
    BY <1>1, <2>1, <2>2
       DEF GetLookup, GetSelect, GetFill, At, Hold, Goto, Finish, AnswerInv, TypeInv,
           TypeOK, HoldsName
<1>2. ASSUME NEW c \in Call,
             ListLookup(c) \/ ListPage(c) \/ ListCount(c) \/ ListFill(c)
      PROVE  AnswerInv'
  BY <1>2 DEF ListLookup, ListPage, ListCount, ListFill, At, Goto, Finish, AnswerInv,
              TypeInv, TypeOK
<1>3. ASSUME NEW c \in Call, CreateInsert(c) \/ UpdateWrite(c) \/ DeleteWrite(c)
      PROVE  AnswerInv'
  BY <1>3 DEF CreateInsert, UpdateWrite, DeleteWrite, At, Goto, Finish, AnswerInv,
              TypeInv, TypeOK
<1>4. ASSUME NEW c \in Call, UpdateReread(c) \/ UpdateStore(c) \/ DeleteEvict(c)
      PROVE  AnswerInv'
  <2>1. outcome[c] = "none"
    BY <1>4 DEF UpdateReread, UpdateStore, DeleteEvict, At, Progress
  <2>2. QED
    BY <1>4, <2>1 DEF UpdateReread, UpdateStore, DeleteEvict, At, Hold, Goto, Finish,
              AnswerInv, TypeInv, TypeOK, HoldsName
<1>5. ASSUME NEW c \in Call, Reply(c) \/ DbError(c) \/ Drop(c)
      PROVE  AnswerInv'
  BY <1>5 DEF Reply, DbError, Drop, Finish, AnswerInv, TypeInv, TypeOK
<1>6. CASE UNCHANGED <<job, pc, row, outcome>>
  BY <1>6 DEF AnswerInv
<1>7. QED
  BY <1>1, <1>2, <1>3, <1>4, <1>5, <1>6
     DEF Next, Serve, Get, List, Update, Delete, ExpireRow, ExpireList, vars

----------------------------------------------------------------------------
(* Cache, answers and table in the calm *)

\* Call c has changed row i, and the cache does not have it yet.
Behind(c, i) ==
    Writes(c) /\ job[c].id = i /\ pc[c] \in {"reread", "store", "evict"}

CacheFollows(i) ==
    cache[i] # NoEntry =>
        cache[i].ver = Version(i) \/ \E c \in Holders : Behind(c, i)

\* Call c has the row in hand that it will answer with.
HasRow(c) ==
    \/ job[c].op = "get" /\ (pc[c] = "fill" \/ outcome[c] = "ok")
    \/ job[c].op = "update" /\ (pc[c] = "store" \/ outcome[c] = "ok")

AnswerFollows(c) ==
    /\ HasRow(c) => row[c].ver = Version(job[c].id)
    /\ job[c].op = "get" /\ outcome[c] = "not_found" => Row(job[c].id) = Absent

\* As long as it is calm, an entry of the cache is the row as it stands or the
\* holder of the client is about to replace it, and what the holder is about
\* to answer is the row as it stands.
Follows ==
    /\ \A i \in Id : CacheFollows(i)
    /\ \A c \in Holders : AnswerFollows(c)

CalmInv == Calm => Follows

LEMMA InitCalm == GateInit => CalmInv
<1> SUFFICES ASSUME GateInit PROVE Follows
  BY DEF CalmInv
<1>1. Holders = {}
  BY DEF GateInit, Holders
<1>2. ASSUME NEW i \in Id, cache[i] # NoEntry PROVE cache[i].ver = Version(i)
  BY <1>2 DEF GateInit, Init, Fresh
<1>3. QED
  BY <1>1, <1>2 DEF Follows, CacheFollows

\* In the calm a call whose future is gone changes nothing any more: a write of
\* it that took effect would end the calm.
LEMMA DeadStep ==
    ASSUME TypeInv, NEW c \in Call, ~live[c], Serve(c) \/ DbError(c), Calm'
    PROVE  /\ UNCHANGED <<log, cache, lists, job, live, row, page, wrote, lost>>
           /\ pc'[c] = "reply" /\ outcome'[c] = "internal"
<1>1. CreateInsert(c) \/ UpdateWrite(c) \/ DeleteWrite(c)
  BY DEF Serve, Get, List, Update, Delete, GetLookup, GetSelect, GetFill, ListLookup,
         ListPage, ListCount, ListFill, UpdateReread, UpdateStore, DeleteEvict, Reply,
         DbError
<1>2. ~live'[c] /\ wrote'[c] = 0
  <2>1. ~live'[c] /\ wrote'[c] \in Nat
    <3>1. live' = live
      BY <1>1 DEF CreateInsert, UpdateWrite, DeleteWrite
    <3>2. wrote'[c] \in Nat
      <4>1. job[c] \in Job
        BY DEF TypeInv, TypeOK
      <4>2. \A i \in Id : Version(i) + 1 \in Nat
        BY RowType DEF TypeInv
      <4>3. wrote'[c] = wrote[c] \/ \E i \in Id : wrote'[c] = Version(i) + 1
        BY <1>1, <4>1, JobType DEF CreateInsert, UpdateWrite, DeleteWrite, At, Commit,
                                   TypeInv, TypeOK
      <4>4. QED
        BY <4>2, <4>3 DEF TypeInv, TypeOK
    <3>3. QED
      BY <3>1, <3>2
  <2>2. QED
    BY <2>1 DEF Calm, Harmed
<1>3. ASSUME NEW i \in Id, NEW v PROVE ~Commit(c, i, v)
  BY <1>2, RowType DEF Commit, TypeInv, TypeOK
<1>4. job[c].op \in {"update", "delete"} => job[c].id \in Id
  BY JobType DEF TypeInv, TypeOK
<1>5. UNCHANGED <<log, wrote>> /\ Finish(c, "internal")
  BY <1>1, <1>3, <1>4 DEF CreateInsert, UpdateWrite, DeleteWrite, At
<1>6. pc'[c] = "reply" /\ outcome'[c] = "internal"
  BY <1>5 DEF Finish, TypeInv, TypeOK
<1>7. QED
  BY <1>1, <1>5, <1>6 DEF CreateInsert, UpdateWrite, DeleteWrite

\* A step of the one call that has the client.
LEMMA HolderStep ==
    ASSUME TypeInv, TypeInv', Progress, WroteIt, AnswerInv, Follows, Calm',
           NEW c \in Call, Holders = {c}, live[c], UNCHANGED gateVars,
           Serve(c) \/ DbError(c)
    PROVE  Follows'
<1> DEFINE i == job[c].id
<1>1. Holders' = {c} /\ job' = job
  BY DEF Holders, gateVars, Serve, Get, List, Update, Delete, GetLookup, GetSelect,
         GetFill, ListLookup, ListPage, ListCount, ListFill, CreateInsert, UpdateWrite,
         UpdateReread, UpdateStore, DeleteWrite, DeleteEvict, Reply, DbError
<1>2. \A j \in Id : Version(j) \in Nat
  BY RowType DEF TypeInv
<1>3. job[c].op \in {"get", "update", "delete"} => i \in Id
  BY JobType DEF TypeInv, TypeOK
<1>4. wrote'[c] > 0 => ~lost'[c] /\ (pc'[c] \in {"reply", "done"} => outcome'[c] = "ok")
  BY DEF Calm, Harmed
<1>5. \A j \in Id : cache[j] # NoEntry => cache[j].ver = Version(j) \/ Behind(c, j)
  BY DEF Follows, CacheFollows
<1>6. HasRow(c) => row[c].ver = Version(i)
  BY DEF Follows, AnswerFollows
<1>7. ASSUME \A j \in Id : cache'[j] # NoEntry =>
                 cache'[j].ver = Len(log'[j]) \/ Behind(c, j)',
             HasRow(c)' => row'[c].ver = Len(log'[i]),
             job[c].op = "get" /\ outcome'[c] = "not_found" => Row(i)' = Absent
      PROVE  Follows'
  BY <1>1, <1>7 DEF Follows, CacheFollows, AnswerFollows, Version
<1>8. CASE GetLookup(c)
  <2>1. job[c].op = "get" /\ outcome[c] = "none" /\ log' = log /\ cache' = cache
    BY <1>8 DEF GetLookup, At, Progress, stores
  <2>2. \A j \in Id : cache[j] # NoEntry => cache[j].ver = Version(j)
    BY <1>5, <2>1 DEF Behind, Writes
  <2>3. HasRow(c)' => row'[c].ver = Version(i)
    BY <1>1, <1>3, <1>8, <2>1, <2>2
       DEF GetLookup, Goto, Finish, HasRow, TypeInv, TypeOK
  <2>4. outcome'[c] # "not_found"
    BY <1>8, <2>1 DEF GetLookup, Goto, Finish, TypeInv, TypeOK
  <2>5. QED
    BY <1>7, <2>1, <2>2, <2>3, <2>4 DEF Version
<1>9. CASE GetSelect(c)
  <2>1. job[c].op = "get" /\ outcome[c] = "none" /\ log' = log /\ cache' = cache
    BY <1>9 DEF GetSelect, At, Progress, stores
  <2>2. \A j \in Id : cache[j] # NoEntry => cache[j].ver = Version(j)
    BY <1>5, <2>1 DEF Behind, Writes
  <2>3. HasRow(c)' => row'[c].ver = Version(i)
    BY <1>1, <1>9, <2>1 DEF GetSelect, Hold, Goto, Finish, HasRow, TypeInv, TypeOK
  <2>4. outcome'[c] = "not_found" => Row(i)' = Absent
    BY <1>1, <1>9, <2>1 DEF GetSelect, Goto, Finish, Row, Version, TypeInv, TypeOK
  <2>5. QED
    BY <1>7, <2>1, <2>2, <2>3, <2>4 DEF Version
<1>10. CASE GetFill(c) \/ UpdateStore(c)
  <2>1. /\ log' = log /\ row' = row /\ wrote' = wrote /\ i \in Id
        /\ HasRow(c) /\ CacheSet(c, i) /\ pc'[c] = "reply" /\ outcome'[c] = "ok"
    BY <1>3, <1>10 DEF GetFill, UpdateStore, At, HasRow, Finish, TypeInv, TypeOK
  <2>2. row[c].ver = Version(i)
    BY <1>6, <2>1
  <2>3. \A j \in Id : j # i => cache'[j] = cache[j] /\ ~Behind(c, j)
    BY <2>1 DEF CacheSet, Behind, TypeInv, TypeOK
  <2>4. cache'[i] # NoEntry => cache'[i].ver = Version(i)
    <3>1. CASE cache'[i] # cache[i]
      BY <2>1, <2>2, <3>1 DEF CacheSet, TypeInv, TypeOK
    <3>2. CASE cache'[i] = cache[i] /\ ~Behind(c, i)
      BY <1>5, <2>1, <3>2
    <3>3. CASE cache'[i] = cache[i] /\ Behind(c, i)
      <4>1. wrote[c] > 0
        BY <3>3 DEF Behind, Progress
      <4>2. ~lost'[c]
        BY <1>4, <2>1, <4>1
      <4>3. QED
        BY <2>1, <2>2, <4>2 DEF CacheSet, TypeInv, TypeOK
    <3>4. QED
      BY <3>1, <3>2, <3>3
  <2>5. QED
    BY <1>5, <1>7, <2>1, <2>2, <2>3, <2>4 DEF Version
<1>11. CASE ListLookup(c) \/ ListPage(c) \/ ListCount(c) \/ ListFill(c)
  BY <1>1, <1>5, <1>7, <1>11
     DEF ListLookup, ListPage, ListCount, ListFill, At, stores, Behind, Writes, HasRow,
         Version
<1>12. CASE CreateInsert(c) \/ UpdateWrite(c) \/ DeleteWrite(c)
  <2>1. /\ UNCHANGED <<cache, row>> /\ outcome'[c] \in {"none", "internal"}
        /\ pc'[c] \in {"reply", "reread", "evict"} /\ pc[c] = "start"
    BY <1>12 DEF CreateInsert, UpdateWrite, DeleteWrite, At, Goto, Finish, Progress,
                 TypeInv, TypeOK
  <2>2. ~HasRow(c)'
    BY <2>1 DEF HasRow
  <2>3. \A j \in Id : cache[j] # NoEntry => cache[j].ver = Version(j)
    BY <1>5, <2>1 DEF Behind
  <2>4. CASE UNCHANGED log
    BY <1>7, <2>1, <2>2, <2>3, <2>4 DEF Version
  <2>5. ASSUME NEW j \in Id, NEW v \in Name \cup {Absent}, Commit(c, j, v)
        PROVE  Follows'
    <3>1. wrote'[c] = Version(j) + 1 /\ \A k \in Id : k # j => log'[k] = log[k]
      BY <2>5, CommitLog DEF TypeInv
    <3>2. wrote'[c] > 0
      BY <1>2, <3>1
    <3>3. pc'[c] \notin {"reply", "done"}
      BY <1>4, <2>1, <3>2
    <3>4. Writes(c) /\ pc'[c] \in {"reread", "evict"}
      BY <1>12, <2>1, <3>3 DEF CreateInsert, UpdateWrite, DeleteWrite, At, Goto, Finish,
                               Writes, TypeInv, TypeOK
    <3>5. log' = [log EXCEPT ![i] = Append(@, v)] \/ \A k \in Id : k # i => log'[k] = log[k]
      BY <1>12, <3>4 DEF CreateInsert, UpdateWrite, DeleteWrite, At, Commit, Writes,
                         TypeInv, TypeOK
    <3>6. \A k \in Id : k # i => log'[k] = log[k]
      BY <3>5 DEF TypeInv, TypeOK
    <3>7. Behind(c, i)'
      BY <1>1, <3>4 DEF Behind, Writes
    <3>8. QED
      BY <1>1, <1>7, <2>1, <2>2, <2>3, <3>6, <3>7 DEF Version
  <2>6. job[c].op \in {"create", "update"} => job[c].name \in Name
    BY JobType DEF TypeInv, TypeOK
  <2>7. UNCHANGED log \/ \E j \in Id, v \in Name \cup {Absent} : Commit(c, j, v)
    BY <1>3, <1>12, <2>6 DEF CreateInsert, UpdateWrite, DeleteWrite, At
  <2>8. QED
    BY <2>4, <2>5, <2>7
<1>13. CASE UpdateReread(c)
  <2>1. /\ job[c].op = "update" /\ wrote[c] > 0 /\ wrote' = wrote
        /\ UNCHANGED <<log, cache>> /\ outcome[c] = "none"
    BY <1>13 DEF UpdateReread, At, Progress, Writes, stores
  <2>2. pc'[c] = "store" /\ outcome'[c] = "none" /\ row'[c].ver = Version(i)
    BY <1>4, <1>13, <2>1 DEF UpdateReread, Hold, Goto, Finish, TypeInv, TypeOK
  <2>3. \A j \in Id : Behind(c, j) => Behind(c, j)'
    BY <1>1, <2>2 DEF Behind, Writes
  <2>4. QED
    BY <1>5, <1>7, <2>1, <2>2, <2>3 DEF Version
<1>14. CASE DeleteEvict(c)
  <2>1. /\ job[c].op = "delete" /\ wrote[c] > 0 /\ wrote' = wrote /\ i \in Id
        /\ UNCHANGED log /\ CacheDel(c, i)
    BY <1>3, <1>14 DEF DeleteEvict, At, Progress, Writes
  <2>2. ~lost'[c]
    BY <1>4, <2>1
  <2>3. cache' = [cache EXCEPT ![i] = NoEntry]
    BY <2>1, <2>2 DEF CacheDel, TypeInv, TypeOK
  <2>4. \A j \in Id : j # i => ~Behind(c, j) /\ cache'[j] = cache[j]
    BY <2>3 DEF Behind, TypeInv, TypeOK
  <2>5. cache'[i] = NoEntry
    BY <2>1, <2>3 DEF TypeInv, TypeOK
  <2>6. ~HasRow(c)'
    BY <1>1, <2>1 DEF HasRow
  <2>7. QED
    BY <1>5, <1>7, <2>1, <2>4, <2>5, <2>6 DEF Version
<1>15. CASE Reply(c) \/ DbError(c)
  <2>1. UNCHANGED <<log, cache, row, wrote>>
    BY <1>15 DEF Reply, DbError, stores
  <2>2. \/ pc'[c] = "done" /\ outcome'[c] = outcome[c] /\ pc[c] = "reply"
        \/ pc'[c] = "reply" /\ outcome'[c] = "internal"
    <3>1. Reply(c) => pc'[c] = "done" /\ outcome'[c] = outcome[c] /\ pc[c] = "reply"
      BY DEF Reply, TypeInv, TypeOK
    <3>2. DbError(c) => pc'[c] = "reply" /\ outcome'[c] = "internal"
      BY DEF DbError, Finish, TypeInv, TypeOK
    <3>3. QED
      BY <1>15, <3>1, <3>2
  <2>3. \A j \in Id : ~Behind(c, j)
    <3>1. ASSUME NEW j \in Id, Behind(c, j) PROVE FALSE
      <4>1. wrote[c] > 0 /\ pc[c] # "reply"
        BY <3>1 DEF Behind, Progress
      <4>2. QED
        BY <1>4, <2>1, <2>2, <4>1
    <3>2. QED
      BY <3>1
  <2>4. HasRow(c)' => HasRow(c)
    BY <1>1, <2>2 DEF HasRow
  <2>5. job[c].op = "get" /\ outcome[c] = "not_found" => Row(i) = Absent
    BY DEF Follows, AnswerFollows
  <2>6. QED
    BY <1>1, <1>5, <1>6, <1>7, <2>1, <2>2, <2>3, <2>4, <2>5 DEF Row, Version
<1>16. QED
  BY <1>8, <1>9, <1>10, <1>11, <1>12, <1>13, <1>14, <1>15
     DEF Serve, Get, List, Update, Delete

\* A step after which cache, table and every holder's row are as they were.
LEMMA QuietStep ==
    /\ Follows
    /\ log' = log /\ cache' = cache /\ row' = row /\ job' = job
    /\ \A c \in Holders' :
          \/ c \in Holders /\ pc'[c] = pc[c] /\ outcome'[c] = outcome[c]
          \/ outcome'[c] \in {"none", "internal"} /\ pc'[c] \notin {"fill", "store"}
    /\ \A c \in Holders : \A i \in Id :
          Behind(c, i) => c \in Holders' /\ pc'[c] = pc[c]
    => Follows'
<1> SUFFICES ASSUME Follows, log' = log, cache' = cache, row' = row, job' = job,
                    \A c \in Holders' :
                       \/ c \in Holders /\ pc'[c] = pc[c] /\ outcome'[c] = outcome[c]
                       \/ outcome'[c] \in {"none", "internal"}
                          /\ pc'[c] \notin {"fill", "store"},
                    \A c \in Holders : \A i \in Id :
                       Behind(c, i) => c \in Holders' /\ pc'[c] = pc[c]
             PROVE  Follows'
  OBVIOUS
<1>1. ASSUME NEW i \in Id PROVE CacheFollows(i)'
  BY DEF Follows, CacheFollows, Behind, Writes, Version
<1>2. ASSUME NEW c \in Holders' PROVE AnswerFollows(c)'
  BY DEF Follows, AnswerFollows, HasRow, Row, Version
<1>3. QED
  BY <1>1, <1>2 DEF Follows

LEMMA NextCalm ==
    /\ TypeInv /\ TypeInv' /\ WriteInv /\ AnswerInv /\ MutexInv /\ CalmInv
    /\ [GateNext]_allVars
    => CalmInv'
<1> SUFFICES ASSUME TypeInv, TypeInv', WriteInv, AnswerInv, MutexInv, CalmInv,
                    [GateNext]_allVars, Calm'
             PROVE  Follows'
  BY DEF CalmInv
<1>1. Calm /\ Follows
  BY CalmFades DEF CalmInv, WriteInv, MutexInv, GateOK
<1>2. Progress /\ WroteIt
  BY DEF WriteInv
<1>3. ASSUME NEW c \in Call, NEW i \in Id, Behind(c, i) PROVE live[c]
  BY <1>1, <1>2, <1>3 DEF Behind, Progress, Calm, Harmed
<1>4. ASSUME NEW c \in Call,
             Ask(c) \/ Acquire(c) \/ Answered(c) \/ Release(c) \/ HangUp(c)
      PROVE  Follows'
  <2>1. UNCHANGED vars
    BY <1>4 DEF Ask, Acquire, Answered, Release, HangUp
  <2>2. \/ ~HangUp(c)
        \/ gate[c] = "queued" /\ Move(c, "left")
    <3>1. gate'[c] # "hungup"
      BY DEF Calm, Overlapped
    <3>2. QED
      BY <3>1 DEF HangUp, Move, MutexInv, GateOK
  <2>3. \A d \in Holders' : \/ d \in Holders
                             \/ pc[d] = "start"
    BY <1>4, <2>2
       DEF Ask, Acquire, Answered, Release, HangUp, Move, Holders, MutexInv, GateOK,
           Unsent
  <2>4. \A d \in Holders, i \in Id : Behind(d, i) => d \in Holders'
    <3>1. ASSUME NEW d \in Holders, NEW i \in Id, Behind(d, i) PROVE gate[d] = "calling"
      BY <1>3, <3>1 DEF Holders, MutexInv, Settled, Behind
    <3>2. QED
      BY <1>4, <2>2, <3>1
         DEF Ask, Acquire, Answered, Release, HangUp, Move, Holders, MutexInv, GateOK
  <2>5. Holders' \subseteq Call
    BY DEF Holders
  <2>6. /\ log' = log /\ cache' = cache /\ row' = row /\ job' = job
        /\ pc' = pc /\ outcome' = outcome
    BY <2>1 DEF vars
  <2>7. \A d \in Call : pc[d] = "start" => outcome[d] = "none"
    BY <1>2 DEF Progress
  <2>8. QED
    BY <1>1, <2>3, <2>4, <2>5, <2>6, <2>7, QuietStep
<1>5. ASSUME UNCHANGED gateVars, NEW c \in Call, Sent(c), Serve(c) \/ DbError(c)
      PROVE  Follows'
  <2>1. CASE live[c]
    <3>1. gate[c] = "calling"
      <4>1. pc[c] # "done"
        BY <1>5 DEF Serve, Get, List, Update, Delete, GetLookup, GetSelect, GetFill,
           ListLookup, ListPage, ListCount, ListFill, CreateInsert, UpdateWrite,
           UpdateReread, UpdateStore, DeleteWrite, DeleteEvict, Reply, DbError, At
      <4>2. gate[c] # "hungup"
        BY <1>1 DEF Calm, Overlapped
      <4>3. QED
        BY <1>5, <2>1, <4>1, <4>2 DEF Sent, MutexInv, Settled
    <3>2. Holders = {c}
      BY <3>1 DEF MutexInv, OneHolder, Holders
    <3>3. QED
      BY <1>1, <1>2, <1>5, <2>1, <3>2, HolderStep
  <2>2. CASE ~live[c]
    <3>1. /\ log' = log /\ cache' = cache /\ row' = row /\ job' = job
          /\ pc'[c] = "reply" /\ outcome'[c] = "internal"
      BY <1>5, <2>2, DeadStep
    <3>2. \A d \in Call : d # c => pc'[d] = pc[d] /\ outcome'[d] = outcome[d]
      BY <1>5, StepsAlone DEF Alone
    <3>3. Holders' = Holders /\ Holders \subseteq Call
      BY <1>5 DEF Holders, gateVars
    <3>4. \A d \in Call, i \in Id : Behind(d, i) => d # c
      BY <1>3, <2>2
    <3>5. QED
      BY <1>1, <3>1, <3>2, <3>3, <3>4, QuietStep
  <2>3. QED
    BY <2>1, <2>2
<1>6. ASSUME UNCHANGED gateVars, NEW c \in Call, Drop(c) PROVE Follows'
  <2>1. Holders' = Holders
    BY <1>6 DEF Holders, gateVars
  <2>2. /\ log' = log /\ cache' = cache /\ row' = row /\ job' = job
        /\ pc' = pc /\ outcome' = outcome
    BY <1>6 DEF Drop, stores
  <2>3. QED
    BY <1>1, <2>1, <2>2, QuietStep
<1>7. ASSUME UNCHANGED gateVars,
             (\E i \in Id : ExpireRow(i)) \/ (\E k \in Keys : ExpireList(k))
      PROVE  Follows'
  <2>1. /\ UNCHANGED <<log, row, job, pc, outcome>>
        /\ \A i \in Id : cache'[i] \in {cache[i], NoEntry}
    BY <1>7 DEF ExpireRow, ExpireList, TypeInv, TypeOK
  <2>2. Holders' = Holders
    BY <1>7 DEF Holders, gateVars
  <2>3. QED
    BY <1>1, <2>1, <2>2
       DEF Follows, CacheFollows, AnswerFollows, HasRow, Behind, Writes, Row, Version
<1>8. CASE UNCHANGED allVars
  BY <1>1, <1>8 DEF allVars, vars, gateVars, Follows, CacheFollows, AnswerFollows,
                    HasRow, Behind, Writes, Row, Version, Holders
<1>9. QED
  BY <1>4, <1>5, <1>6, <1>7, <1>8
     DEF GateNext, ServerStep, ServerDrop, Expiry

----------------------------------------------------------------------------

GateInv == ServiceInv /\ MutexInv /\ AnswerInv /\ CalmInv

LEMMA GateHolds == GateSpec => []GateInv
<1>1. GateInit => MutexInv /\ AnswerInv /\ CalmInv
  BY InitMutex, InitAnswer, InitCalm DEF GateInit
<1>2. /\ ServiceInv /\ ServiceInv' /\ MutexInv /\ AnswerInv /\ CalmInv
      /\ [GateNext]_allVars
      => (MutexInv /\ AnswerInv /\ CalmInv)'
  BY GateNextIsNext, NextMutex, NextAnswer, NextCalm DEF ServiceInv, WriteInv
<1>3. QED
  BY <1>1, <1>2, ServiceHolds, PTL DEF GateSpec, GateInv

\* Behind the mutex the cache is the table again whenever the client is free, as
\* long as no request was hung up on and every write ended well: no race of the
\* gateway's own requests leaves an old category in Redis.
THEOREM CacheCurrent == GateSpec => []CacheIsCurrent
<1>1. Smooth => Calm
  BY DEF Smooth, Calm, Botched, Harmed
<1>2. GateInv => CacheIsCurrent
  BY <1>1 DEF GateInv, CalmInv, Follows, CacheFollows, CacheIsCurrent
<1>3. QED
  BY <1>2, GateHolds, PTL

----------------------------------------------------------------------------
(* The gateway implements CategoryTable *)

Changed == {c \in Call : wrote[c] > 0}

Tables == [i \in Id |-> Row(i)]
Past   == [i \in Id |-> {log[i][n] : n \in 1..Version(i)}]

LEMMA TableInit == GateInit => Table!Init
<1> SUFFICES ASSUME GateInit PROVE Table!Init
  OBVIOUS
<1>1. Init /\ TypeInv
  BY InitType DEF GateInit
<1>2. Tables \in [Id -> Name \cup {Absent}]
  BY <1>1, RowType DEF Tables, TypeInv
<1>3. ASSUME NEW i \in Id
      PROVE  {log[i][n] : n \in 1..Version(i)} = IF Row(i) = Absent THEN {} ELSE {Row(i)}
  <2>1. CASE log[i] = <<>>
    BY <2>1 DEF Row, Version
  <2>2. ASSUME NEW m \in Name, log[i] = <<m>>
        PROVE  {log[i][n] : n \in 1..Version(i)} = IF Row(i) = Absent THEN {} ELSE {Row(i)}
    <3>1. Version(i) = 1 /\ Row(i) = m /\ log[i][1] = m
      BY <2>2 DEF Row, Version
    <3>2. m # Absent
      BY CategoryAssumption
    <3>3. {log[i][n] : n \in 1..1} = {m}
      BY <3>1
    <3>4. QED
      BY <3>1, <3>2, <3>3
  <2>3. log[i] \in {<<>>} \cup {<<m>> : m \in Name}
    BY <1>1 DEF Init
  <2>4. QED
    BY <2>1, <2>2, <2>3
<1>4. Past = [i \in Id |-> IF Tables[i] = Absent THEN {} ELSE {Tables[i]}]
  BY <1>3 DEF Past, Tables
<1>5. Changed = {}
  BY <1>1 DEF Changed, Init
<1>6. [c \in Call |-> Told(c)] = [c \in Call |-> Table!Untold]
  BY DEF GateInit, Told, Table!Untold
<1>7. ~Overlapped /\ \A c \in Call : ~Harmed(c)
  BY <1>1 DEF GateInit, Init, Overlapped, Harmed
<1>8. job \in [Call -> Job]
  BY <1>1 DEF Init
<1>9. QED
  BY <1>2, <1>4, <1>5, <1>6, <1>7, <1>8 DEF Table!Init, Tables, Past, Changed

\* What a caller was told stays, and nobody is told but by Release.
LEMMA ToldKept ==
    ASSUME TypeInv, Progress, [GateNext]_allVars, NEW c \in Call,
           gate'[c] = "served" => gate[c] = "served",
           gate[c] = "served" => gate'[c] = "served",
           gate[c] = "served" => pc[c] = "done" \/ ~live[c]
    PROVE  Told(c)' = Told(c)
<1>1. Keeps(c)
  BY AllKeep
<1>2. gate[c] = "served" =>
         /\ pc'[c] = "done" <=> pc[c] = "done"
         /\ pc[c] = "done" => outcome'[c] = outcome[c] /\ row'[c] = row[c]
  BY <1>1 DEF Keeps
<1>3. QED
  BY <1>2 DEF Told

LEMMA ReleaseTells ==
    ASSUME GateInv, NEW c \in Call, Release(c)
    PROVE  Table!Tell(c)
<1>1. /\ TypeInv /\ StoredInv /\ Progress /\ MutexInv /\ AnswerInv
      /\ (Calm => AnswerFollows(c))
  BY DEF GateInv, ServiceInv, WriteInv, CalmInv, Follows, Release, Holders
<1>2. /\ UNCHANGED vars /\ gate[c] = "closing" /\ gate'[c] = "served"
      /\ \A d \in Call : d # c => gate'[d] = gate[d]
  BY <1>1 DEF Release, Move, MutexInv, GateOK
<1>3. pc[c] = "done" \/ ~live[c]
  BY <1>1, <1>2 DEF MutexInv, Settled
<1>4. Told(c) = Table!Untold /\ \A d \in Call : d # c => Told(d)' = Told(d)
  BY <1>2 DEF Told, Table!Untold, vars
<1>5. [d \in Call |-> Told(d)]' = [[d \in Call |-> Told(d)] EXCEPT ![c] = Told(c)']
  BY <1>4
<1>6. Calm' = Calm
  BY <1>2 DEF Calm, Overlapped, Harmed, vars
<1>7. Told(c)' \in Table!GoodAnswers(c) \cup Table!BadAnswers(c)
  <2> DEFINE i == job[c].id
  <2>1. job[c] \in Job /\ job' = job
    BY <1>1, <1>2 DEF TypeInv, TypeOK, vars
  <2>2. CASE pc[c] # "done" \/ outcome[c] = "internal"
    <3>1. Told(c)' = Table!Failed
      BY <1>2, <2>2 DEF Told, Table!Failed, vars
    <3>2. Calm => ~(wrote[c] > 0)
      BY <1>3, <2>2 DEF Calm, Harmed
    <3>3. QED
      BY <3>1, <3>2 DEF Table!BadAnswers, Calm
  <2>3. CASE pc[c] = "done" /\ outcome[c] = "not_found"
    <3>1. Told(c)' = Table!Missing
      BY <1>2, <2>3 DEF Told, Table!Missing, vars
    <3>2. job[c].op = "get" /\ i \in Id /\ (Calm => Row(i) = Absent)
      BY <1>1, <2>1, <2>3, JobType DEF AnswerInv, AnswerFollows
    <3>3. QED
      BY <3>1, <3>2 DEF Table!BadAnswers, Calm
  <2>4. CASE pc[c] = "done" /\ outcome[c] = "ok"
    <3>1. Told(c)' = [status |-> "ok", name |-> row[c].name]
      BY <1>2, <2>4 DEF Told, vars
    <3>2. CASE job[c].op \in {"get", "update"}
      <4>1. i \in Id /\ row[c].name \in Name /\ row[c] # NoRow /\ row[c].name # Absent
        BY <1>1, <2>1, <2>4, <3>2, JobType, CategoryAssumption DEF AnswerInv, NoRow
      <4>2. Was(i, row[c].name, row[c].ver)
        BY <1>1, <4>1 DEF StoredInv, HeldWas
      <4>3. row[c].name \in {log[i][n] : n \in 1..Version(i)}
        BY <4>2 DEF Was
      <4>4. Calm => row[c].name = Row(i)
        <5>1. Calm => row[c].ver = Version(i)
          BY <1>1, <2>4, <3>2 DEF AnswerFollows, HasRow
        <5>2. log[i] # <<>>
          BY <4>2 DEF Was, Version
        <5>3. QED
          BY <4>2, <5>1, <5>2 DEF Was, Row
      <4>5. row[c].name \in Table!Readable(i)
        BY <4>1, <4>3, <4>4 DEF Table!Readable, Calm
      <4>6. job[c].op = "update" => wrote[c] > 0
        BY <1>1, <2>4 DEF Progress, Writes
      <4>7. Told(c)' \in Table!Ok(Table!Readable(i))
        BY <3>1, <4>5 DEF Table!Ok
      <4>8. Table!GoodAnswers(c) = Table!Ok(Table!Readable(i))
        BY <3>2, <4>6 DEF Table!GoodAnswers
      <4>9. QED
        BY <4>7, <4>8
    <3>3. CASE job[c].op \notin {"get", "update"}
      <4>1. row[c].name = Absent /\ job[c].op # "create"
        BY <1>1, <2>4, <3>3 DEF AnswerInv, NoRow
      <4>2. job[c].op = "delete" => wrote[c] > 0
        BY <1>1, <2>4 DEF Progress, Writes
      <4>3. Told(c)' \in Table!Ok({Absent})
        BY <3>1, <4>1 DEF Table!Ok
      <4>4. Table!GoodAnswers(c) = Table!Ok({Absent})
        BY <3>3, <4>1, <4>2 DEF Table!GoodAnswers
      <4>5. QED
        BY <4>3, <4>4
    <3>4. QED
      BY <3>2, <3>3
  <2>5. QED
    BY <1>1, <2>2, <2>3, <2>4 DEF AnswerInv, TypeInv, TypeOK
<1>8. job' = job /\ log' = log /\ wrote' = wrote
  BY <1>2 DEF vars
<1>9. Tables' = Tables /\ Past' = Past /\ Changed' = Changed
  BY <1>8 DEF Tables, Past, Changed, Row, Version
<1>10. QED
  BY <1>4, <1>5, <1>6, <1>7, <1>8, <1>9 DEF Table!Tell, Tables, Past, Changed, Calm

\* Every caller's answer but one changes in Release only.
LEMMA ToldSame ==
    ASSUME GateInv, [GateNext]_allVars,
           \A c \in Call : gate'[c] = "served" <=> gate[c] = "served"
    PROVE  [c \in Call |-> Told(c)]' = [c \in Call |-> Told(c)]
<1>1. TypeInv /\ Progress /\ \A c \in Call : gate[c] = "served" => pc[c] = "done" \/ ~live[c]
  BY DEF GateInv, ServiceInv, WriteInv, MutexInv, Settled
<1>2. ASSUME NEW c \in Call PROVE Told(c)' = Told(c)
  BY <1>1, <1>2, ToldKept
<1>3. QED
  BY <1>2

\* A statement that changes a row is the change of the table: whatever the call
\* does next, the table has it now.
LEMMA CommitChanges ==
    ASSUME GateInv, [GateNext]_allVars, UNCHANGED gateVars,
           NEW c \in Call, Sent(c), Serve(c), NEW i \in Id,
           NEW v \in Name \cup {Absent}, Commit(c, i, v)
    PROVE  Table!Change(c)
<1>1. TypeInv /\ Progress /\ MutexInv /\ [Next]_vars
  BY GateNextIsNext DEF GateInv, ServiceInv, WriteInv
<1>2. CreateInsert(c) \/ UpdateWrite(c) \/ DeleteWrite(c)
  <2>1. log' # log
    BY <1>1, CommitLog, RowType DEF TypeInv, Version
  <2>2. QED
    BY <2>1 DEF Serve, Get, List, Update, Delete, GetLookup, GetSelect, GetFill,
       ListLookup, ListPage, ListCount, ListFill, UpdateReread, UpdateStore,
       DeleteEvict, Reply, stores
<1>3. /\ Version(i) \in Nat
      /\ Version(i)' = Version(i) + 1 /\ log'[i][Version(i) + 1] = v
      /\ \A n \in 1..Version(i) : log'[i][n] = log[i][n]
      /\ \A j \in Id : j # i => log'[j] = log[j]
      /\ wrote'[c] = Version(i) + 1 /\ \A d \in Call : d # c => wrote'[d] = wrote[d]
  BY <1>1, CommitLog, RowType DEF TypeInv
<1>4. job' = job /\ pc[c] = "start" /\ wrote[c] = 0 /\ live' = live
  BY <1>1, <1>2 DEF CreateInsert, UpdateWrite, DeleteWrite, At, Progress
<1>5. \E j \in Id :
         /\ IF job[c].op = "create" THEN log[j] = <<>> ELSE j = job[c].id /\ Row(j) # Absent
         /\ j = i /\ v = IF job[c].op = "delete" THEN Absent ELSE job[c].name
  <2>1. job[c].op \in {"update", "delete"} => job[c].id \in Id
    BY <1>1, JobType DEF TypeInv, TypeOK
  <2>2. ASSUME NEW j \in Id, NEW w, Commit(c, j, w) PROVE j = i /\ w = v
    <3>1. log[i] \in Seq(Name \cup {Absent}) /\ log[j] \in Seq(Name \cup {Absent})
      BY <1>1 DEF TypeInv, TypeOK
    <3>2. log'[j] = Append(log[j], w) /\ log'[i] = Append(log[i], v)
      BY <1>1, <2>2 DEF Commit, TypeInv, TypeOK
    <3>3. Len(log'[j]) # Len(log[j]) \/ j \notin Id
      BY <3>1, <3>2
    <3>4. j = i
      BY <1>3, <3>1, <3>3
    <3>5. log'[i][Version(i) + 1] = w
      BY <3>1, <3>2, <3>4 DEF Version
    <3>6. QED
      BY <1>3, <3>4, <3>5
  <2>3. log' # log
    BY <1>3 DEF Version
  <2>4. QED
    BY <1>2, <2>1, <2>2, <2>3
       DEF CreateInsert, UpdateWrite, DeleteWrite, At, IsNextId, Affects
<1>6. Tables' = [Tables EXCEPT ![i] = v]
  <2>1. Row(i)' = v
    BY <1>3 DEF Row, Version
  <2>2. \A j \in Id : j # i => Row(j)' = Row(j)
    BY <1>3 DEF Row, Version
  <2>3. QED
    BY <2>1, <2>2 DEF Tables
<1>7. Past' = [Past EXCEPT ![i] = @ \cup {v}]
  <2>1. {log'[i][n] : n \in 1..Version(i) + 1} = {log[i][n] : n \in 1..Version(i)} \cup {v}
    BY <1>3
  <2>2. \A j \in Id : j # i => Len(log'[j]) = Version(j) /\ log'[j] = log[j]
    BY <1>3 DEF Version
  <2>3. Len(log'[i]) = Version(i) + 1
    BY <1>3 DEF Version
  <2>4. \A j \in Id : {log'[j][n] : n \in 1..Len(log'[j])}
                     = IF j = i THEN Past[i] \cup {v} ELSE Past[j]
    BY <2>1, <2>2, <2>3 DEF Past
  <2>5. Past' = [j \in Id |-> IF j = i THEN Past[i] \cup {v} ELSE Past[j]]
    BY <2>4 DEF Past, Version
  <2>6. QED
    BY <2>5 DEF Past
<1>8. Changed' = Changed \cup {c} /\ c \notin Changed
  BY <1>3, <1>4 DEF Changed
<1>9. Told(c) = Table!Untold \/ ~Calm'
  <2>1. CASE gate[c] = "served"
    <3>1. ~live'[c] /\ wrote'[c] > 0
      BY <1>1, <1>3, <1>4, <2>1 DEF MutexInv, Settled
    <3>2. QED
      BY <3>1 DEF Calm, Harmed
  <2>2. CASE gate[c] # "served"
    BY <2>2 DEF Told, Table!Untold
  <2>3. QED
    BY <2>1, <2>2
<1>10. Calm' => Calm
  BY <1>1, CalmFades DEF MutexInv, GateOK
<1>11. [d \in Call |-> Told(d)]' = [d \in Call |-> Told(d)]
  BY ToldSame DEF gateVars
<1>12. job[c].op \in Table!Writes
  BY <1>2 DEF CreateInsert, UpdateWrite, DeleteWrite, At, Table!Writes
<1>13. log[i] = <<>> => Past[i] = {}
  BY DEF Past, Version
<1> DEFINE Here(t, p) ==
        /\ IF job[c].op = "create" THEN p[i] = {} ELSE i = job[c].id /\ t[i] # Absent
        /\ Tables' = [t EXCEPT ![i] = Table!Written(c)]
        /\ Past' = [p EXCEPT ![i] = @ \cup {Table!Written(c)}]
<1>14. Here(Tables, Past)
  <2>1. v = Table!Written(c)
    BY <1>5 DEF Table!Written
  <2>2. Tables[i] = Row(i)
    BY DEF Tables
  <2>3. QED
    BY <1>5, <1>6, <1>7, <1>13, <2>1, <2>2
<1>15. [d \in Call |-> Told(d)][c] = Told(c)
  OBVIOUS
<1>16. QED
  BY <1>4, <1>8, <1>9, <1>10, <1>11, <1>12, <1>14, <1>15
     DEF Table!Change, Tables, Past, Changed, Calm

\* Any other step of the system is none of the table's, or ends the calm.
LEMMA OtherwiseStutters ==
    ASSUME GateInv, [GateNext]_allVars, log' = log, wrote' = wrote,
           \A c \in Call : gate'[c] = "served" <=> gate[c] = "served"
    PROVE  Table!Disturb \/ UNCHANGED Table!vars
<1>1. job' = job
  BY GateNextIsNext, JobKept
<1>2. [c \in Call |-> Told(c)]' = [c \in Call |-> Told(c)]
  BY ToldSame
<1>3. Tables' = Tables /\ Past' = Past /\ Changed' = Changed
  BY DEF Tables, Past, Changed, Row, Version
<1>4. Calm' => Calm
  BY CalmFades DEF GateInv, ServiceInv, WriteInv, MutexInv, GateOK
<1>5. Calm' \in BOOLEAN /\ Calm \in BOOLEAN
  BY DEF Calm
<1>6. QED
  BY <1>1, <1>2, <1>3, <1>4, <1>5
     DEF Table!Disturb, Table!vars, Tables, Past, Changed, Calm

LEMMA TableNext ==
    GateInv /\ [GateNext]_allVars => [Table!Next]_(Table!vars)
<1> SUFFICES ASSUME GateInv, [GateNext]_allVars
             PROVE  [Table!Next]_(Table!vars)
  OBVIOUS
<1>1. TypeInv /\ gate \in [Call -> Stages]
  BY DEF GateInv, ServiceInv, MutexInv, GateOK
<1>2. ASSUME NEW c \in Call, Release(c) PROVE Table!Next
  BY <1>2, ReleaseTells DEF Table!Next
<1>3. ASSUME NEW c \in Call, Ask(c) \/ Acquire(c) \/ Answered(c) \/ HangUp(c)
      PROVE  [Table!Next]_(Table!vars)
  <2>1. \A d \in Call : gate'[d] = "served" <=> gate[d] = "served"
    BY <1>1, <1>3 DEF Ask, Acquire, Answered, HangUp, Move
  <2>2. log' = log /\ wrote' = wrote
    BY <1>3 DEF Ask, Acquire, Answered, HangUp, vars
  <2>3. QED
    BY <2>1, <2>2, OtherwiseStutters DEF Table!Next
<1>4. ASSUME UNCHANGED gateVars, NEW c \in Call, Sent(c), Serve(c), UNCHANGED <<log, wrote>>
             \/ \E i \in Id, v \in Name \cup {Absent} : Commit(c, i, v)
      PROVE  [Table!Next]_(Table!vars)
  <2>1. CASE UNCHANGED <<log, wrote>>
    BY <1>4, <2>1, OtherwiseStutters DEF Table!Next, gateVars
  <2>2. ASSUME NEW i \in Id, NEW v \in Name \cup {Absent}, Commit(c, i, v)
        PROVE  Table!Next
    BY <1>4, <2>2, CommitChanges DEF Table!Next
  <2>3. QED
    BY <1>4, <2>1, <2>2
<1>5. ASSUME NEW c \in Call, Serve(c)
      PROVE  UNCHANGED <<log, wrote>>
             \/ \E i \in Id, v \in Name \cup {Absent} : Commit(c, i, v)
  <2>1. job[c] \in Job
    BY <1>1 DEF TypeInv, TypeOK
  <2>2. CASE CreateInsert(c) \/ UpdateWrite(c) \/ DeleteWrite(c)
    BY <2>1, <2>2, JobType DEF CreateInsert, UpdateWrite, DeleteWrite, At
  <2>3. QED
    BY <1>5, <2>2 DEF Serve, Get, List, Update, Delete, GetLookup, GetSelect, GetFill,
       ListLookup, ListPage, ListCount, ListFill, UpdateReread, UpdateStore,
       DeleteEvict, Reply, stores
<1>6. ASSUME UNCHANGED gateVars,
             \/ \E c \in Call : DbError(c) \/ Drop(c)
             \/ \E i \in Id : ExpireRow(i)
             \/ \E k \in Keys : ExpireList(k)
      PROVE  [Table!Next]_(Table!vars)
  <2>1. log' = log /\ wrote' = wrote
    BY <1>6 DEF DbError, Drop, ExpireRow, ExpireList, stores
  <2>2. QED
    BY <1>6, <2>1, OtherwiseStutters DEF Table!Next, gateVars
<1>7. CASE UNCHANGED allVars
  BY <1>7, OtherwiseStutters DEF Table!Next, allVars, vars, gateVars
<1>8. QED
  BY <1>2, <1>3, <1>4, <1>5, <1>6, <1>7 DEF GateNext, ServerStep, ServerDrop, Expiry

\* The gateway, the service and the cache together are, to their callers, the
\* plain table of CategoryTable.
THEOREM GatewayIsTable == GateSpec => ImplementsTable
<1>1. GateSpec => Table!Init /\ [][Table!Next]_(Table!vars)
  BY TableInit, TableNext, GateHolds, PTL DEF GateSpec
<1>2. QED
  BY <1>1 DEF ImplementsTable, Table!Spec

=============================================================================
