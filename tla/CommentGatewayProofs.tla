------------------------ MODULE CommentGatewayProofs ------------------------
(* Proofs about CommentGateway: what its mutex adds to the comment service. *)
EXTENDS CommentGateway, CommentServiceProofs

----------------------------------------------------------------------------
(* Behind the gateway the service takes its own steps and no others *)

LEMMA GateNextIsNext == [GateNext]_allVars => [Next]_vars
  BY DEF GateNext, Refuse, Ask, Acquire, Answered, Release, HangUp, ServerStep,
         ServerDrop, Elsewhere, Next, allVars

\* The gateway and the service together are still the service: whatever the
\* mutex, hangups and crashes do to the order of calls, every theorem about the
\* service holds behind the gateway.
THEOREM GateServes == GateSpec => Spec
<1>1. GateInit => Init
  BY DEF GateInit
<1>2. QED
  BY <1>1, GateNextIsNext, PTL DEF GateSpec, Spec

ServiceInv == TypeInv /\ StoredInv /\ AckInv

LEMMA ServiceHolds == GateSpec => []ServiceInv
<1>1. Spec => []ServiceInv
  BY InitType, NextType, InitStored, NextStored, InitAck, NextAck, PTL
     DEF Spec, ServiceInv
<1>2. QED
  BY <1>1, GateServes, PTL

\* What the gateway does to the server's state: nothing, or one step of a call
\* that was sent, while the gateway stands still.
LEMMA GateSteps ==
    ASSUME [GateNext]_allVars
    PROVE  \/ UNCHANGED vars
           \/ UNCHANGED gateVars /\ \E c \in Call : Sent(c) /\ (Serve(c) \/ DbError(c))
           \/ UNCHANGED gateVars /\ \E c \in Call : Sent(c) /\ Drop(c)
           \/ /\ UNCHANGED gateVars
              /\ \/ \E p \in Post : PostGone(p)
                 \/ \E i \in Id : Expire(i)
                 \/ ExpireAll
  BY DEF GateNext, Refuse, Ask, Acquire, Answered, Release, HangUp, ServerStep,
         ServerDrop, Elsewhere, allVars, Sent

\* What a call has ended, it has ended; who is gone stays gone.
LEMMA CallsKeep ==
    ASSUME TypeInv, Progress, [GateNext]_allVars, NEW c \in Call
    PROVE  /\ pc[c] = "done" => pc'[c] = "done"
           /\ Ended(c) => outcome'[c] = outcome[c] /\ wrote'[c] = wrote[c] /\ lost'[c] = lost[c]
           /\ ~live[c] => ~live'[c]
<1>1. CallStep /\ [Next]_vars
  BY CallSteps, GateNextIsNext
<1>2. live' = live \/ \E d \in Call : Drop(d)
  BY <1>1 DEF Next, Serve, Get, All, Update, Delete, GetLookup, GetSelect, GetFill,
     AllLookup, AllSelect, AllFill, CreateInsert, UpdateWrite, UpdateReread,
     UpdateStore, DeleteWrite, DeleteEvict, Reply, DbError, PostGone, Expire,
     ExpireAll, vars
<1>3. ~live[c] => ~live'[c]
  BY <1>2 DEF Drop, TypeInv, TypeOK
<1>4. QED
  BY <1>1, <1>3 DEF CallStep, Ended

----------------------------------------------------------------------------
(* The mutex *)

Stages == {"new", "queued", "calling", "closing", "served", "left", "hungup"}

\* One request has the client; the server has not begun what it was not sent,
\* and is done with what the gateway has an answer to.
GateOK    == gate \in [Call -> Stages] /\ http \in [Call -> {0, 200, 201, 400, 401, 500}]
OneHolder == \A c, d \in Holders : c = d
Unsent    == \A c \in Call : ~Sent(c) => pc[c] = "start" /\ live[c]
Settled   == \A c \in Call :
                 gate[c] = "closing" \/ (gate[c] = "served" /\ http[c] \in {200, 201, 500})
                 => pc[c] = "done" \/ ~live[c]
\* The HTTP status is the service's answer, or the gateway's own refusal.
HttpIs    == \A c \in Call :
                 /\ gate[c] = "closing" => http[c] \in {200, 201, 500}
                 /\ gate[c] \in {"new", "queued", "calling"} => http[c] = 0
                 /\ http[c] \in {200, 201} => pc[c] = "done" /\ outcome[c] = "ok"

MutexInv == GateOK /\ OneHolder /\ Unsent /\ Settled /\ HttpIs

LEMMA InitMutex == GateInit => MutexInv
  BY DEF GateInit, Init, MutexInv, GateOK, OneHolder, Holders, Unsent, Settled, HttpIs,
         Stages, Sent

LEMMA NextMutex == TypeInv /\ Progress /\ MutexInv /\ [GateNext]_allVars => MutexInv'
<1> SUFFICES ASSUME TypeInv, Progress, MutexInv, [GateNext]_allVars
             PROVE  MutexInv'
  OBVIOUS
<1> USE DEF MutexInv
<1>1. ASSUME NEW c \in Call,
             \/ Refuse(c) \/ Ask(c) \/ Acquire(c) \/ Answered(c) \/ Release(c)
             \/ HangUp(c)
      PROVE  MutexInv'
  <2>1. /\ UNCHANGED <<pc, live, job, outcome>>
        /\ \A d \in Call : d # c => gate'[d] = gate[d] /\ http'[d] = http[d]
    BY <1>1 DEF Refuse, Ask, Acquire, Answered, Release, HangUp, Move, GateOK, vars
  <2>2. \A op, code : HttpStatus(op, code) \in {200, 201, 500}
    BY DEF HttpStatus
  <2>3. GateOK'
    BY <1>1, <2>2
       DEF Refuse, Ask, Acquire, Answered, Release, HangUp, Move, GateOK, Stages
  <2>4. OneHolder'
    BY <1>1, <2>1
       DEF Refuse, Ask, Acquire, Answered, Release, HangUp, Move, GateOK, OneHolder,
           Holders
  <2>5. Unsent'
    BY <1>1, <2>1, <2>2
       DEF Refuse, Ask, Acquire, Answered, Release, HangUp, Move, GateOK, Unsent,
           Sent, HttpIs
  <2>6. Settled'
    BY <1>1, <2>1
       DEF Refuse, Ask, Acquire, Answered, Release, HangUp, Move, GateOK, Settled
  <2>7. HttpIs'
    <3>1. \A op, code : HttpStatus(op, code) \in {200, 201} => code = "ok"
      BY DEF HttpStatus
    <3>2. QED
      BY <1>1, <2>1, <2>2, <3>1
         DEF Refuse, Ask, Acquire, Answered, Release, HangUp, Move, GateOK, HttpIs
  <2>8. QED
    BY <2>3, <2>4, <2>5, <2>6, <2>7
<1>2. CASE UNCHANGED gateVars
  <2>1. GateOK' /\ OneHolder'
    BY <1>2 DEF gateVars, GateOK, OneHolder, Holders
  <2>2. Settled' /\ HttpIs'
    BY <1>2, CallsKeep DEF gateVars, Settled, HttpIs, Ended
  <2>3. Unsent'
    <3>1. CASE UNCHANGED vars
      BY <1>2, <3>1 DEF gateVars, vars, Unsent, Sent
    <3>2. ASSUME NEW c \in Call, Serve(c) \/ DbError(c) \/ Drop(c), Sent(c)
          PROVE  Unsent'
      <4>1. \A d \in Call \ {c} : pc'[d] = pc[d] /\ live'[d] = live[d]
        <5>1. live' = live \/ Drop(c)
          BY <3>2 DEF Serve, Get, All, Update, Delete, GetLookup, GetSelect, GetFill,
             AllLookup, AllSelect, AllFill, CreateInsert, UpdateWrite, UpdateReread,
             UpdateStore, DeleteWrite, DeleteEvict, Reply, DbError
        <5>2. QED
          BY <3>2, <5>1, OneCallMoves DEF Drop, TypeInv, TypeOK
      <4>2. QED
        BY <1>2, <3>2, <4>1 DEF gateVars, Unsent, Sent
    <3>3. CASE \/ \E p \in Post : PostGone(p)
               \/ \E i \in Id : Expire(i)
               \/ ExpireAll
      BY <1>2, <3>3 DEF gateVars, Unsent, Sent, PostGone, Expire, ExpireAll
    <3>4. QED
      BY <3>1, <3>2, <3>3, GateSteps
  <2>4. QED
    BY <2>1, <2>2, <2>3
<1>3. CASE UNCHANGED allVars
  BY <1>2, <1>3 DEF allVars
<1>4. QED
  BY <1>1, <1>2, <1>3 DEF GateNext, ServerStep, ServerDrop, Elsewhere

\* Who hung up has hung up.
LEMMA OverlapStays ==
    ASSUME gate \in [Call -> Stages], [GateNext]_allVars, Overlapped
    PROVE  Overlapped'
  BY DEF GateNext, Refuse, Ask, Acquire, Answered, Release, HangUp, ServerStep,
         ServerDrop, Elsewhere, allVars, gateVars, Move, Overlapped

\* As long as no one hung up, a call whose future goes on has the client.
LEMMA MoverHolds ==
    ASSUME TypeInv, MutexInv, ~Overlapped, NEW c \in Call, Sent(c), live[c], pc[c] # "done"
    PROVE  Holders = {c}
<1>1. gate[c] = "calling"
  BY DEF Overlapped, Sent, MutexInv, Settled
<1>2. QED
  BY <1>1 DEF MutexInv, OneHolder, Holders

----------------------------------------------------------------------------
(* No entry a get can find is older than an acknowledged write *)

ReadableIsNew ==
    \A d \in Call : Acked(d) /\ Readable(job[d].id) => cache[job[d].id].ver >= wrote[d]

\* What the holder of the client is about to cache is no older either.
FillIsNew ==
    \A c \in Holders, d \in Call :
        /\ job[c].op = "get" /\ pc[c] = "fill"
        /\ Acked(d) /\ job[d].id = job[c].id
        => row[c].ver >= wrote[d]

NewInv == ~Overlapped => ReadableIsNew /\ FillIsNew

\* A write that was not acknowledged before is by the step of its own call.
LEMMA NewAck ==
    ASSUME TypeInv, Progress, [GateNext]_allVars, MutexInv, ~Overlapped,
           NEW d \in Call, Acked(d)', outcome[d] # "ok"
    PROVE  /\ UNCHANGED gateVars /\ Holders = {d}
           /\ ~Readable(job[d].id)' /\ row' = row
<1>1. AckStep /\ [Next]_vars
  BY AckSteps, GateNextIsNext
<1>2. ~Readable(job[d].id)'
  BY <1>1 DEF AckStep
<1>3. outcome'[d] = "ok" /\ Writes(d)
  BY <1>1, JobStays DEF Acked, Writes
<1>4. UNCHANGED gateVars /\ Sent(d) /\ (Serve(d) \/ DbError(d) \/ Drop(d))
  <2>1. ~UNCHANGED outcome
    BY <1>3
  <2>2. PICK e \in Call : UNCHANGED gateVars /\ Sent(e) /\ (Serve(e) \/ DbError(e) \/ Drop(e))
    BY <2>1, GateSteps DEF PostGone, Expire, ExpireAll, vars
  <2>3. e = d
    BY <1>3, <2>2, OneCallMoves DEF TypeInv
  <2>4. QED
    BY <2>2, <2>3
<1>5. UpdateStore(d) \/ DeleteEvict(d)
  <2>1. UpdateReread(d) \/ UpdateWrite(d) \/ DeleteWrite(d) => outcome'[d] # "ok"
    BY <1>3 DEF UpdateReread, UpdateWrite, DeleteWrite, Goto, Finish, TypeInv, TypeOK
  <2>2. DbError(d) \/ Drop(d) \/ Reply(d) => outcome'[d] # "ok"
    BY DEF DbError, Drop, Reply, Finish, TypeInv, TypeOK
  <2>3. QED
    BY <1>3, <1>4, <2>1, <2>2
       DEF Serve, Get, All, Update, Delete, GetLookup, GetSelect, GetFill, AllLookup,
           AllSelect, AllFill, CreateInsert, At, Writes
<1>6. live[d] /\ pc[d] # "done" /\ row' = row
  BY <1>5 DEF UpdateStore, DeleteEvict, At
<1>7. QED
  BY <1>2, <1>4, <1>6, MoverHolds

\* Only a get makes an entry that a get can find.
LEMMA NewEntry ==
    ASSUME TypeInv, [GateNext]_allVars, NEW i \in Id,
           Readable(i)', cache'[i] # cache[i]
    PROVE  \E c \in Call :
              /\ UNCHANGED gateVars /\ Sent(c) /\ GetFill(c)
              /\ job[c].id = i /\ cache'[i].ver = row[c].ver
<1>1. cache'[i] # NoEntry /\ cache'[i].whole
  BY DEF Readable
<1>2. PICK c \in Call : UNCHANGED gateVars /\ Sent(c) /\ (Serve(c) \/ DbError(c) \/ Drop(c))
  <2>1. ~UNCHANGED cache
    OBVIOUS
  <2>2. ~\E j \in Id : Expire(j)
    BY <1>1 DEF Expire, TypeInv, TypeOK
  <2>3. QED
    BY <2>1, <2>2, GateSteps DEF PostGone, ExpireAll, vars
<1>3. job[c] \in Job
  BY DEF TypeInv, TypeOK
<1>4. ~UpdateStore(c)
  BY <1>1, <1>3, JobType DEF UpdateStore, Set, At, TypeInv, TypeOK
<1>5. ~DeleteEvict(c)
  BY <1>1, <1>3, JobType DEF DeleteEvict, Del, At, TypeInv, TypeOK
<1>6. GetFill(c)
  BY <1>2, <1>4, <1>5
     DEF Serve, Get, All, Update, Delete, GetLookup, GetSelect, AllLookup, AllSelect,
         AllFill, CreateInsert, UpdateWrite, UpdateReread, DeleteWrite, Reply, DbError,
         Drop
<1>7. job[c].id = i /\ cache'[i].ver = row[c].ver
  BY <1>1, <1>3, <1>6, JobType DEF GetFill, Set, At, TypeInv, TypeOK
<1>8. QED
  BY <1>2, <1>6, <1>7

\* A get is about to cache what it has just read, or what it had before.
LEMMA NewFill ==
    ASSUME TypeInv, [Next]_vars, NEW c \in Call, job[c].op = "get", pc'[c] = "fill"
    PROVE  \/ pc[c] = "fill" /\ row'[c] = row[c]
           \/ log' = log /\ wrote' = wrote /\ row'[c].ver = Version(job[c].id)
<1>1. CASE UNCHANGED <<pc, row>>
  BY <1>1
<1>2. ASSUME NEW d \in Call, Serve(d) \/ DbError(d) \/ Drop(d), d # c
      PROVE  pc'[c] = pc[c] /\ row'[c] = row[c]
  BY <1>2, OneCallMoves DEF TypeInv
<1>3. CASE Serve(c) \/ DbError(c) \/ Drop(c)
  <2>1. CASE GetSelect(c)
    BY <2>1 DEF GetSelect, Hold, TypeInv, TypeOK, tables
  <2>2. CASE Drop(c)
    BY <2>2 DEF Drop, locals
  <2>3. ASSUME ~GetSelect(c), ~Drop(c) PROVE FALSE
    BY <1>3, <2>3
       DEF Serve, Get, All, Update, Delete, GetLookup, GetFill, AllLookup, AllSelect,
           AllFill, CreateInsert, UpdateWrite, UpdateReread, UpdateStore, DeleteWrite,
           DeleteEvict, Reply, DbError, At, Goto, Finish, Return, TypeInv, TypeOK
  <2>4. QED
    BY <2>1, <2>2, <2>3
<1>4. QED
  BY <1>1, <1>2, <1>3 DEF Next, PostGone, Expire, ExpireAll, vars, locals

\* Who has the client had it before, or has just had its turn.
LEMMA HolderSteps ==
    ASSUME MutexInv, [GateNext]_allVars, NEW c \in Holders'
    PROVE  c \in Holders \/ (pc[c] = "start" /\ pc' = pc)
<1>1. c \in Holders \/ (gate[c] = "queued" /\ UNCHANGED vars)
  <2>1. c \in Call /\ gate'[c] \in {"calling", "closing"}
    BY DEF Holders
  <2>2. CASE UNCHANGED gateVars
    BY <2>1, <2>2 DEF gateVars, Holders
  <2>3. ASSUME NEW d \in Call,
               \/ Refuse(d) \/ Ask(d) \/ Acquire(d) \/ Answered(d) \/ Release(d)
               \/ HangUp(d)
        PROVE  c \in Holders \/ (gate[c] = "queued" /\ UNCHANGED vars)
    BY <2>1, <2>3 DEF Refuse, Ask, Acquire, Answered, Release, HangUp, Move, Holders,
                      MutexInv, GateOK
  <2>4. QED
    BY <2>2, <2>3 DEF GateNext, ServerStep, ServerDrop, Elsewhere, allVars
<1>2. gate[c] = "queued" => pc[c] = "start"
  BY DEF MutexInv, Unsent, Sent, Holders
<1>3. QED
  BY <1>1, <1>2 DEF vars

LEMMA NextNew ==
    /\ TypeInv /\ AckInv /\ MutexInv /\ NewInv
    /\ [GateNext]_allVars
    => NewInv'
<1> SUFFICES ASSUME TypeInv, AckInv, MutexInv, NewInv, [GateNext]_allVars,
                    ~Overlapped'
             PROVE  ReadableIsNew' /\ FillIsNew'
  BY DEF NewInv
<1>1. ~Overlapped /\ ReadableIsNew /\ FillIsNew
  BY OverlapStays DEF NewInv, MutexInv, GateOK
<1>2. Progress /\ WroteBound /\ [Next]_vars /\ job' = job
  BY GateNextIsNext, JobStays DEF AckInv
<1>3. ASSUME NEW d \in Call, Acked(d)', outcome[d] = "ok"
      PROVE  Acked(d) /\ wrote'[d] = wrote[d]
  BY <1>2, <1>3, CallsKeep DEF Acked, Writes, Progress
<1>4. \A d \in Call : Acked(d)' => Writes(d) /\ job[d].id \in Id
  BY <1>2, JobType DEF Acked, Writes, TypeInv, TypeOK
<1>5. ReadableIsNew'
  <2> SUFFICES ASSUME NEW d \in Call, Acked(d)', Readable(job[d].id)'
               PROVE  cache'[job[d].id].ver >= wrote'[d]
    BY <1>2 DEF ReadableIsNew
  <2> DEFINE i == job[d].id
  <2>1. Acked(d) /\ wrote'[d] = wrote[d]
    BY <1>1, <1>2, <1>3, NewAck
  <2>2. CASE cache'[i] = cache[i]
    BY <1>1, <1>2, <2>1, <2>2 DEF Readable, ReadableIsNew
  <2>3. CASE cache'[i] # cache[i]
    <3>1. i \in Id /\ Readable(i)'
      BY <1>4
    <3>2. PICK c \in Call : Sent(c) /\ GetFill(c) /\ job[c].id = i
                            /\ cache'[i].ver = row[c].ver
      BY <1>2, <2>3, <3>1, NewEntry
    <3>3. Holders = {c} /\ job[c].op = "get" /\ pc[c] = "fill"
      BY <1>1, <3>2, MoverHolds DEF GetFill, At
    <3>4. QED
      BY <1>1, <2>1, <3>2, <3>3 DEF FillIsNew
  <2>4. QED
    BY <2>2, <2>3
<1>6. FillIsNew'
  <2> SUFFICES ASSUME NEW c \in Holders', NEW d \in Call,
                      job[c].op = "get", pc'[c] = "fill",
                      Acked(d)', job[d].id = job[c].id
               PROVE  row'[c].ver >= wrote'[d]
    BY <1>2 DEF FillIsNew
  <2>1. c \in Call /\ (c \in Holders \/ pc[c] = "start")
    BY HolderSteps DEF Holders
  <2>2. CASE pc[c] = "fill" /\ row'[c] = row[c]
    <3>1. c # d
      BY <1>4 DEF Writes
    <3>2. Acked(d) /\ wrote'[d] = wrote[d]
      BY <1>1, <1>2, <1>3, <2>1, <2>2, <3>1, NewAck
    <3>3. QED
      BY <1>1, <2>1, <2>2, <3>2 DEF FillIsNew
  <2>3. CASE wrote' = wrote /\ row'[c].ver = Version(job[c].id)
    <3>1. wrote[d] <= Version(job[c].id) /\ wrote[d] \in Nat /\ Version(job[c].id) \in Nat
      BY <1>2, <1>4, RowType DEF WroteBound, TypeInv, TypeOK
    <3>2. QED
      BY <2>3, <3>1
  <2>4. QED
    BY <1>2, <2>1, <2>2, <2>3, NewFill
<1>7. QED
  BY <1>5, <1>6

LEMMA GateHolds == GateSpec => [](ServiceInv /\ MutexInv)
<1>1. ServiceInv /\ MutexInv /\ [GateNext]_allVars => MutexInv'
  BY NextMutex DEF ServiceInv, AckInv
<1>2. QED
  BY <1>1, InitMutex, ServiceHolds, PTL DEF GateSpec

\* The mutex of the gateway takes from the service its one bad race: until a
\* request is hung up on, no get finds an entry older than a write that was
\* acknowledged and that Redis took.
THEOREM GatewayNewEnough == GateSpec => []NoOlderThanAcked
<1>1. GateInit => NewInv
  BY DEF GateInit, Init, NewInv, ReadableIsNew, FillIsNew, Acked, Holders
<1>2. ServiceInv /\ MutexInv /\ NewInv /\ [GateNext]_allVars => NewInv'
  BY NextNew DEF ServiceInv
<1>3. NewInv => NoOlderThanAcked
  BY DEF NewInv, ReadableIsNew, NoOlderThanAcked, Acked, Writes
<1>4. QED
  BY <1>1, <1>2, <1>3, GateHolds, PTL DEF GateSpec

----------------------------------------------------------------------------
(* An update answers with its own text *)

\* No call was cut off: neither by its caller nor by the server.
Undisturbed == ~Overlapped /\ \A d \in Call : live[d]

\* The row is as update c left it, unless it went with its post.
RowIsOwn(c) ==
    LET i == job[c].id
    IN  Row(i) # Absent => Version(i) = wrote[c] /\ Row(i).text = job[c].text

OwnText ==
    \A c \in Call : job[c].op = "update" =>
        /\ pc[c] = "reread" => RowIsOwn(c)
        /\ pc[c] = "store" \/ outcome[c] = "ok" =>
              row[c].ver = wrote[c] /\ row[c].val.text = job[c].text

OwnInv == Undisturbed => OwnText

\* The values a row can have had: comments, and what says that it is gone.
LEMMA RowOfCommit ==
    ASSUME TypeInv, NEW c \in Call, UpdateWrite(c), log' # log
    PROVE  /\ job[c].id \in Id
           /\ Row(job[c].id)'.text = job[c].text
           /\ wrote'[c] = Version(job[c].id)' /\ pc'[c] \in {"reread", "reply"}
<1> DEFINE i == job[c].id
           v == [Row(i) EXCEPT !.text = job[c].text]
<1>1. i \in Id /\ job[c].text \in Text /\ Row(i) \in Value
  BY JobType, RowType DEF UpdateWrite, At, TypeInv, TypeOK
<1>2. Row(i) # Absent /\ Commit(c, i, v)
  BY DEF UpdateWrite, Affects
<1>3. Row(i) \in Comment
  BY <1>1, <1>2 DEF Value
<1>4. v \in Value /\ v.text = job[c].text
  BY <1>1, <1>3 DEF Value, Comment
<1>5. wrote'[c] = Version(i) + 1
  BY <1>2 DEF Commit, TypeInv, TypeOK
<1>6. pc'[c] \in {"reread", "reply"}
  BY DEF UpdateWrite, Goto, Finish, TypeInv, TypeOK
<1>7. job' = job
  BY DEF UpdateWrite
<1> HIDE DEF v
<1>8. Row(i)' = v /\ Version(i)' = Version(i) + 1
  BY <1>1, <1>2, <1>4, <1>7, CommitLog
<1>9. QED
  BY <1>1, <1>4, <1>5, <1>6, <1>7, <1>8

\* The steps of the update itself.
LEMMA OwnStep ==
    ASSUME TypeInv, Progress, OwnText, NEW c \in Call, job[c].op = "update",
           Serve(c) \/ DbError(c)
    PROVE  /\ pc'[c] = "reread" => RowIsOwn(c)'
           /\ pc'[c] = "store" \/ outcome'[c] = "ok" =>
                 row'[c].ver = wrote'[c] /\ row'[c].val.text = job[c].text
<1>1. job' = job
  BY JobStays DEF Next
<1>2. job[c].id \in Id
  BY JobType DEF TypeInv, TypeOK
<1>3. CASE UpdateWrite(c)
  <2>1. outcome'[c] # "ok" /\ pc'[c] # "store"
    BY <1>3 DEF UpdateWrite, At, Progress, Ended, Goto, Finish, TypeInv, TypeOK
  <2>2. CASE log' = log
    <3>1. ~Affects(job[c].id)
      <4>1. \A v : Append(log[job[c].id], v) # log[job[c].id]
        BY <1>2, RowType DEF TypeInv
      <4>2. QED
        BY <1>2, <1>3, <2>2, <4>1 DEF UpdateWrite, Commit, TypeInv, TypeOK
    <3>2. pc'[c] = "reply"
      BY <1>3, <3>1 DEF UpdateWrite, Finish, TypeInv, TypeOK
    <3>3. QED
      BY <2>1, <3>2
  <2>3. CASE log' # log
    BY <1>1, <1>3, <2>1, <2>3, RowOfCommit DEF RowIsOwn
  <2>4. QED
    BY <2>2, <2>3
<1>4. CASE UpdateReread(c)
  <2>1. pc[c] = "reread" /\ outcome[c] = "none" /\ wrote' = wrote
    BY <1>4 DEF UpdateReread, At, Progress, Ended
  <2>2. RowIsOwn(c)
    BY <2>1 DEF OwnText
  <2>3. CASE Row(job[c].id) # Absent
    <3>1. row'[c].ver = Version(job[c].id) /\ row'[c].val = Row(job[c].id)
      BY <1>4, <2>3 DEF UpdateReread, Hold, Response, TypeInv, TypeOK
    <3>2. pc'[c] = "store"
      BY <1>4, <2>3 DEF UpdateReread, Goto, TypeInv, TypeOK
    <3>3. QED
      BY <2>1, <2>2, <2>3, <3>1, <3>2 DEF RowIsOwn
  <2>4. CASE Row(job[c].id) = Absent
    BY <1>4, <2>4 DEF UpdateReread, Finish, TypeInv, TypeOK
  <2>5. QED
    BY <2>3, <2>4
<1>5. CASE UpdateStore(c)
  <2>1. pc[c] = "store" /\ row' = row /\ wrote' = wrote
    BY <1>5 DEF UpdateStore, At
  <2>2. pc'[c] = "done"
    BY <1>5 DEF UpdateStore, Return, TypeInv, TypeOK
  <2>3. QED
    BY <2>1, <2>2 DEF OwnText
<1>6. CASE Reply(c)
  BY <1>6 DEF Reply, locals, OwnText, TypeInv, TypeOK
<1>7. CASE DbError(c)
  BY <1>7 DEF DbError, Finish, TypeInv, TypeOK
<1>8. QED
  BY <1>3, <1>4, <1>5, <1>6, <1>7
     DEF Serve, Get, All, Update, Delete, GetLookup, GetSelect, GetFill, AllLookup,
         AllSelect, AllFill, CreateInsert, DeleteWrite, DeleteEvict, At

LEMMA NextOwn ==
    TypeInv /\ Progress /\ MutexInv /\ OwnInv /\ [GateNext]_allVars => OwnInv'
<1> SUFFICES ASSUME TypeInv, Progress, MutexInv, OwnInv, [GateNext]_allVars,
                    Undisturbed'
             PROVE  OwnText'
  BY DEF OwnInv
<1>1. ~Overlapped /\ (\A d \in Call : live[d]) /\ OwnText
  BY OverlapStays, CallsKeep DEF Undisturbed, OwnInv, MutexInv, GateOK
<1>2. job' = job
  BY GateNextIsNext, JobStays
<1>3. \A c \in Call : pc[c] = "reread" => Holders = {c}
  BY <1>1, MoverHolds DEF MutexInv, Unsent
<1>4. CASE UNCHANGED vars
  BY <1>1, <1>4 DEF vars, tables, locals, OwnText, RowIsOwn, Row, Version
<1>5. ASSUME NEW d \in Call, Sent(d), Serve(d) \/ DbError(d) PROVE OwnText'
  <2>1. pc[d] # "done"
    BY <1>5 DEF Serve, Get, All, Update, Delete, GetLookup, GetSelect, GetFill,
       AllLookup, AllSelect, AllFill, CreateInsert, UpdateWrite, UpdateReread,
       UpdateStore, DeleteWrite, DeleteEvict, Reply, DbError, At
  <2>2. Holders = {d}
    BY <1>1, <1>5, <2>1, MoverHolds
  <2>3. ASSUME NEW c \in Call, c # d, job[c].op = "update"
        PROVE  /\ pc'[c] # "reread"
               /\ pc'[c] = "store" \/ outcome'[c] = "ok" =>
                     row'[c].ver = wrote'[c] /\ row'[c].val.text = job[c].text
    <3>1. pc[c] # "reread"
      BY <1>3, <2>2, <2>3
    <3>2. QED
      BY <1>1, <1>5, <2>3, <3>1, OneCallMoves DEF OwnText, TypeInv
  <2>4. QED
    BY <1>1, <1>2, <1>5, <2>3, OwnStep DEF OwnText
<1>6. ASSUME NEW d \in Call, Drop(d) PROVE FALSE
  BY <1>6 DEF Drop, Undisturbed, TypeInv, TypeOK
<1>7. ASSUME NEW p \in Post, PostGone(p) PROVE OwnText'
  <2>1. \A c \in Call : job[c].op = "update" => job[c].id \in Id
    BY JobType DEF TypeInv, TypeOK
  <2>2. \A i \in Id : Row(i)' = Absent \/ (Row(i)' = Row(i) /\ Version(i)' = Version(i))
    BY <1>7, PostGoneLog DEF PostGone, Row, Version
  <2>3. UNCHANGED <<pc, row, wrote, outcome>>
    BY <1>7 DEF PostGone, locals
  <2>4. QED
    BY <1>1, <1>2, <2>1, <2>2, <2>3 DEF OwnText, RowIsOwn
<1>8. CASE (\E i \in Id : Expire(i)) \/ ExpireAll
  BY <1>1, <1>8 DEF Expire, ExpireAll, tables, locals, OwnText, RowIsOwn, Row, Version
<1>9. QED
  BY <1>4, <1>5, <1>6, <1>7, <1>8, GateSteps

\* Between the UPDATE and the SELECT of an update no other call of this gateway
\* can write: the answer is the caller's own text, until a call is cut off.
THEOREM GatewayUpdatesOwn == GateSpec => []UpdateAnswersItself
<1>1. GateInit => OwnInv
  BY DEF GateInit, Init, OwnInv, OwnText
<1>2. ServiceInv /\ MutexInv /\ OwnInv /\ [GateNext]_allVars => OwnInv'
  BY NextOwn DEF ServiceInv, AckInv
<1>3. MutexInv /\ OwnInv => UpdateAnswersItself
  BY DEF MutexInv, HttpIs, OwnInv, OwnText, Undisturbed, UpdateAnswersItself
<1>4. QED
  BY <1>1, <1>2, <1>3, GateHolds, PTL DEF GateSpec

=============================================================================
