-------------------------- MODULE PostGatewayProofs --------------------------
(* Proofs about PostGateway: the images of the posts, for any requests, jobs, *)
(* files, faults of the server and faults of the gateway.                     *)
EXTENDS PostGateway, PostServiceProofs

----------------------------------------------------------------------------
(* Behind the gateway the service takes its own steps and no others *)

LEMMA GateNextIsNext == [GateNext]_allVars => [Next]_vars
  BY DEF GateNext, Handler, Ask, Acquire, Found, Answered, Upload, Write, BadForm,
         Land, HangUp, ServerStep, ServerDrop, Next, allVars

\* The gateway and the service together are still the service: requests of two
\* calls, hangups, crashes and file operations give it no step of their own, and
\* every theorem about the service holds behind the gateway.
THEOREM GateServes == GateSpec => Spec
<1>1. GateInit => Init
  BY DEF GateInit
<1>2. QED
  BY <1>1, GateNextIsNext, PTL DEF GateSpec, Spec

LEMMA ServiceHolds == GateSpec => []TypeInv
<1>1. Spec => []TypeInv
  BY InitType, NextType, PTL DEF Spec
<1>2. QED
  BY <1>1, GateServes, PTL

\* What the gateway's steps do: a request moves and the server stands still, a
\* call that was sent is served, or what the server does is of no call's making.
LEMMA GateSteps ==
    ASSUME [GateNext]_allVars
    PROVE  \/ UNCHANGED vars
           \/ UNCHANGED gateVars /\ \E c \in Call : Sent(c) /\ (Serve(c) \/ DbError(c))
           \/ UNCHANGED gateVars /\ \E c \in Call : Drop(c)
           \/ UNCHANGED gateVars /\ Outside
  BY DEF GateNext, Handler, Ask, Acquire, Found, Answered, Upload, Write, BadForm,
         Land, HangUp, ServerStep, ServerDrop, allVars

----------------------------------------------------------------------------
(* What a request stores, it stores after its file *)

Stages == {"form", "write", "ask", "queued", "calling", "hungup", "served",
           "refused", "left"}
Contents == {"none", "empty", "writing", "cut", "whole"}

GateOK ==
    /\ gate \in [Req -> Stages]
    /\ leg \in [Req -> {"find", "main"}]
    /\ files \in [Path -> Contents]

\* Whether request r is to store a post.
Stores(r) == Op(r) \in {"create", "update"}

\* A post that is to be stored names the image its request brings; the call
\* that looks one up stores nothing.
NamesOwn ==
    \A r \in Req : /\ job[Find(r)].op = "get"
                   /\ Stores(r) => job[Main(r)].post.img = r

\* A request that has passed its form has its file, and calls only then.
Uploaded ==
    \A r \in Req :
        /\ Stores(r) /\ leg[r] = "main"
        /\ gate[r] \notin {"form", "refused", "left"}
        => files[UploadPath(r)] # "none"

ImageInv == GateOK /\ NamesOwn /\ Uploaded /\ PostsHaveTheirImage

LEMMA CallShape ==
    /\ \A r \in Req : Main(r) \in Call /\ Find(r) \in Call /\ UploadPath(r) \in Path
    /\ \A c \in Call : c[1] \in Req /\ (c = Main(c[1]) \/ c = Find(c[1]))
  BY PostGateAssumption DEF Main, Find, UploadPath, Path

LEMMA InitImages == GateInit => ImageInv
<1> SUFFICES ASSUME GateInit PROVE ImageInv
  OBVIOUS
<1>1. GateOK
  BY DEF GateInit, GateOK, Stages, Contents
<1>2. NamesOwn
  <2>1. PICK ask \in [Req -> Asked] :
           /\ \A r \in Req : ask[r] \in MayAsk(r)
           /\ job = [c \in Call |-> IF c[2] = "main" THEN ask[c[1]]
                                    ELSE FindFor(ask[c[1]])]
    BY DEF GateInit
  <2>2. \A r \in Req : job[Main(r)] = ask[r] /\ job[Find(r)] = FindFor(ask[r])
    BY <2>1, CallShape DEF Main, Find
  <2>3. \A r \in Req : job[Find(r)].op = "get"
    <3>1. ASSUME NEW j PROVE FindFor(j).op = "get"
      BY DEF FindFor
    <3>2. QED
      BY <2>2, <3>1
  <2>4. \A r \in Req : Stores(r) => job[Main(r)].post.img = r
    BY <2>1, <2>2 DEF Stores, Op, MayAsk
  <2>5. QED
    BY <2>3, <2>4 DEF NamesOwn
<1>3. Uploaded
  BY DEF GateInit, Uploaded, Stores
<1>4. PostsHaveTheirImage
  <2> SUFFICES ASSUME NEW i \in Present
               PROVE  files[<<"posts/day", Row(i).img>>] # "none"
    BY DEF PostsHaveTheirImage
  <2>1. Row(i) \in Post
    BY InitType, RowType DEF GateInit, TypeInv, Present
  <2>2. <<"posts/day", Row(i).img>> \in Path
    BY <2>1 DEF Post, Path
  <2>3. QED
    BY <2>2 DEF GateInit
<1>5. QED
  BY <1>1, <1>2, <1>3, <1>4 DEF ImageInv

----------------------------------------------------------------------------
(* No file of the directory of uploads ever goes *)

\* What delete_image removes, it removes in another directory.
ImagesStay ==
    \A n \in Image :
        files[<<"posts/day", n>>] # "none" => files'[<<"posts/day", n>>] # "none"

LEMMA FilesStay == GateOK /\ [GateNext]_allVars => ImagesStay
<1> SUFFICES ASSUME GateOK, [GateNext]_allVars PROVE ImagesStay
  OBVIOUS
<1>a. \A n \in Image : <<"posts/day", n>> \in Path
  BY DEF Path
<1>1. ASSUME NEW f, NEW v, files' = [files EXCEPT ![f] = v],
             v # "none" \/ f[1] = "posts"
      PROVE  ImagesStay
  BY <1>a, <1>1 DEF GateOK, ImagesStay
<1>2. ASSUME NEW r \in Req, Found(r) PROVE ImagesStay
  BY <1>1, <1>2 DEF Found, DeletePath, ImagesStay
<1>3. ASSUME NEW r \in Req, Upload(r) \/ Write(r) \/ Land(r) PROVE ImagesStay
  BY <1>1, <1>3 DEF Upload, Write, Land, ImagesStay
<1>4. CASE UNCHANGED files
  BY <1>4 DEF ImagesStay
<1>5. QED
  BY <1>2, <1>3, <1>4
     DEF GateNext, Handler, Ask, Acquire, Answered, BadForm, HangUp, ServerStep,
         ServerDrop, gateVars, allVars

----------------------------------------------------------------------------
(* Every step keeps the files and the rows together *)

LEMMA NextGate ==
    ImageInv /\ TypeInv /\ [GateNext]_allVars => (GateOK /\ NamesOwn /\ Uploaded)'
<1> SUFFICES ASSUME ImageInv, TypeInv, [GateNext]_allVars
             PROVE  (GateOK /\ NamesOwn /\ Uploaded)'
  OBVIOUS
<1> USE DEF ImageInv
<1>a. UNCHANGED job
  BY JobStays, GateNextIsNext
<1>b. NamesOwn'
  BY <1>a DEF NamesOwn, Stores, Op, Main, Find
<1>c. ImagesStay
  BY FilesStay
<1>d. \A r \in Req : Stores(r)' = Stores(r)
  BY <1>a DEF Stores, Op, Main
<1>e. \A r \in Req : files[UploadPath(r)] # "none" => files'[UploadPath(r)] # "none"
  BY <1>c, PostGateAssumption DEF ImagesStay, UploadPath
<1>1. ASSUME NEW r \in Req, Ask(r) \/ Acquire(r) \/ Answered(r) \/ BadForm(r) \/ HangUp(r)
      PROVE  (GateOK /\ Uploaded)'
  <2>1. GateOK'
    BY <1>1 DEF Ask, Acquire, Answered, BadForm, HangUp, Move, GateOK, Stages
  <2>2. Uploaded'
    <3> SUFFICES ASSUME NEW s \in Req, Stores(s), leg[s] = "main",
                        gate'[s] \notin {"form", "refused", "left"}
                 PROVE  files[UploadPath(s)] # "none"
      BY <1>1, <1>d DEF Ask, Acquire, Answered, BadForm, HangUp, Uploaded
    <3>1. gate[s] \notin {"form", "refused", "left"}
      <4>1. CASE s = r
        <5>1. \/ gate[r] \in {"ask", "queued", "calling"}
              \/ Move(r, "refused") \/ Move(r, "left")
          BY <1>1 DEF Ask, Acquire, Answered, BadForm, HangUp, Ended
        <5>2. QED
          BY <4>1, <5>1 DEF Move, GateOK
      <4>2. CASE s # r
        BY <1>1, <4>2 DEF Ask, Acquire, Answered, BadForm, HangUp, Move, GateOK
      <4>3. QED
        BY <4>1, <4>2
    <3>2. QED
      BY <3>1 DEF Uploaded
  <2>3. QED
    BY <2>1, <2>2
<1>2. ASSUME NEW r \in Req, Found(r) PROVE (GateOK /\ Uploaded)'
  <2>1. GateOK'
    BY <1>2 DEF Found, Move, GateOK, Stages, Contents
  <2>2. Uploaded'
    <3> SUFFICES ASSUME NEW s \in Req, Stores(s), leg'[s] = "main",
                        gate'[s] \notin {"form", "refused", "left"}
                 PROVE  files'[UploadPath(s)] # "none"
      BY <1>d DEF Uploaded
    <3>1. s # r
      BY <1>2 DEF Found, Move, GateOK
    <3>2. leg[s] = "main" /\ gate[s] = gate'[s]
      BY <1>2, <3>1 DEF Found, Move, GateOK
    <3>3. QED
      BY <1>e, <3>2 DEF Uploaded
  <2>3. QED
    BY <2>1, <2>2
<1>3. ASSUME NEW r \in Req, Upload(r) \/ Write(r) \/ Land(r) PROVE (GateOK /\ Uploaded)'
  <2>1. UploadPath(r) \in Path
    BY CallShape
  <2>2. GateOK'
    BY <1>3 DEF Upload, Write, Land, Move, GateOK, Stages, Contents
  <2>3. Uploaded'
    <3> SUFFICES ASSUME NEW s \in Req, Stores(s), leg'[s] = "main",
                        gate'[s] \notin {"form", "refused", "left"}
                 PROVE  files'[UploadPath(s)] # "none"
      BY <1>d DEF Uploaded
    <3>1. CASE s # r
      BY <1>3, <1>e, <3>1 DEF Upload, Write, Land, Move, GateOK, Uploaded
    <3>2. CASE s = r
      BY <1>3, <2>1, <3>2 DEF Upload, Write, Land, Move, GateOK, Uploaded
    <3>3. QED
      BY <3>1, <3>2
  <2>4. QED
    BY <2>2, <2>3
<1>4. ASSUME UNCHANGED gateVars PROVE (GateOK /\ Uploaded)'
  BY <1>4, <1>d DEF gateVars, GateOK, Uploaded
<1>5. (GateOK /\ Uploaded)'
  BY <1>1, <1>2, <1>3, <1>4 DEF GateNext, Handler, ServerStep, ServerDrop, allVars
<1>6. QED
  BY <1>b, <1>5

\* The rows only get values from calls that store one.
LEMMA RowComes ==
    ASSUME TypeInv, NEW c \in Call, Serve(c) \/ DbError(c) \/ Drop(c),
           NEW i \in Id, Row(i)' # Row(i), Row(i)' # Absent
    PROVE  job[c].op \in {"create", "update"} /\ Row(i)' = job[c].post
<1>1. job[c] \in Job
  BY DEF TypeInv, TypeOK
<1>2. ~UNCHANGED log
  BY DEF Row, Version
<1>3. ASSUME NEW j \in Id, NEW v \in Value, Commit(c, j, v) PROVE Row(i)' = v
  BY <1>3, CommitLog
<1>4. CASE CreateInsert(c)
  <2>1. job[c].op = "create" /\ job[c].post \in Value
    BY <1>1, <1>4, JobType DEF CreateInsert, At, Value
  <2>2. QED
    BY <1>2, <1>3, <1>4, <2>1 DEF CreateInsert
<1>5. CASE UpdateWrite(c)
  <2>1. job[c].op = "update" /\ job[c].id \in Id /\ job[c].post \in Value
    BY <1>1, <1>5, JobType DEF UpdateWrite, At, Value
  <2>2. QED
    BY <1>2, <1>3, <1>5, <2>1 DEF UpdateWrite
<1>6. ~DeleteWrite(c)
  <2> SUFFICES ASSUME DeleteWrite(c) PROVE FALSE
    OBVIOUS
  <2>1. job[c].id \in Id /\ Absent \in Value
    BY <1>1, JobType DEF DeleteWrite, At, Value
  <2>2. QED
    BY <1>2, <1>3, <2>1 DEF DeleteWrite
<1>7. QED
  BY <1>2, <1>4, <1>5, <1>6
     DEF Serve, Get, List, Delete, GetLookup, GetSelect, GetFill, ListLookup, ListPage,
         ListCount, ListFill, RelationSelect, DeleteEvict, Reply, DbError, Drop, tables

\* No step but the one that serves a call that was sent gives a row a value.
LEMMA RowSource ==
    ASSUME TypeInv, [GateNext]_allVars,
           NEW i \in Id, Row(i)' # Row(i), Row(i)' # Absent
    PROVE  \E c \in Call :
              /\ Sent(c) /\ UNCHANGED gateVars
              /\ job[c].op \in {"create", "update"} /\ Row(i)' = job[c].post
<1>1. ~UNCHANGED log
  BY DEF Row, Version
<1>2. ~Outside
  <2>1. ASSUME NEW r \in Ref, RefGone(r) PROVE FALSE
    BY <2>1, RefGoneLog
  <2>2. QED
    BY <1>1, <2>1 DEF Outside, Expire, ExpireList, tables
<1>3. PICK c \in Call : UNCHANGED gateVars /\ Sent(c) /\ (Serve(c) \/ DbError(c))
  BY <1>1, <1>2, GateSteps DEF vars, tables, Drop
<1>4. QED
  BY <1>3, RowComes

LEMMA NextImages ==
    ImageInv /\ TypeInv /\ TypeInv' /\ [GateNext]_allVars => ImageInv'
<1> SUFFICES ASSUME ImageInv, TypeInv, TypeInv', [GateNext]_allVars PROVE ImageInv'
  OBVIOUS
<1>1. (GateOK /\ NamesOwn /\ Uploaded)'
  BY NextGate
<1>2. PostsHaveTheirImage'
  <2> SUFFICES ASSUME NEW i \in Id, Row(i)' # Absent
               PROVE  files'[<<"posts/day", Row(i)'.img>>] # "none"
    BY DEF PostsHaveTheirImage, Present
  <2>1. CASE Row(i)' = Row(i)
    <3>1. Row(i).img \in Image
      BY <2>1, RowType DEF TypeInv, Present, Post
    <3>2. files[<<"posts/day", Row(i).img>>] # "none"
      BY <2>1 DEF ImageInv, PostsHaveTheirImage, Present
    <3>3. QED
      BY <2>1, <3>1, <3>2, FilesStay DEF ImageInv, ImagesStay
  <2>2. CASE Row(i)' # Row(i)
    <3>1. PICK c \in Call :
             /\ Sent(c) /\ UNCHANGED gateVars
             /\ job[c].op \in {"create", "update"} /\ Row(i)' = job[c].post
      BY <2>2, RowSource
    <3>2. PICK r \in Req : c = Main(r) /\ leg[r] = "main" /\ Stores(r)
      <4>1. c[1] \in Req /\ c = Now(c[1])
        BY <3>1, CallShape DEF Sent
      <4>2. leg[c[1]] # "find"
        BY <3>1, <4>1 DEF ImageInv, NamesOwn, Now, Find
      <4>3. leg[c[1]] = "main"
        BY <4>1, <4>2 DEF ImageInv, GateOK
      <4>4. QED
        BY <3>1, <4>1, <4>3 DEF Now, Main, Stores, Op
    <3>3. gate[r] \in {"calling", "hungup", "served"}
      BY <3>1, <3>2 DEF Sent, Main
    <3>4. files[UploadPath(r)] # "none" /\ Row(i)'.img = r
      BY <3>1, <3>2, <3>3 DEF ImageInv, Uploaded, NamesOwn
    <3>5. QED
      BY <3>1, <3>4 DEF UploadPath, gateVars
  <2>3. QED
    BY <2>1, <2>2
<1>3. QED
  BY <1>1, <1>2 DEF ImageInv

\* Every stored post has its image, whatever fails between the file and the row,
\* however many creates, updates and deletions of a post are under way, and
\* whichever of them hang up, are dropped or never answered.
THEOREM PostsKeepImages == GateSpec => []PostsHaveTheirImage
<1>1. GateSpec => [](ImageInv /\ TypeInv)
  BY ServiceHolds, InitImages, NextImages, PTL DEF GateSpec
<1>2. QED
  BY <1>1, PTL DEF ImageInv

=============================================================================
