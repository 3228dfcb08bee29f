---------------------------- MODULE PostGateway ----------------------------
(***************************************************************************)
(* The REST gateway in front of the post service, and the images it keeps. *)
(*                                                                         *)
(* As for categories, one gRPC client behind a tokio mutex serves every    *)
(* request, first come, first served.  A create or an update comes as a    *)
(* form with a file: the handler stores the file and then calls the server *)
(* with its name.  An update makes two calls: it looks its post up first,  *)
(* and removes the old image before it has even read the form.             *)
(*                                                                         *)
(* Files and rows share no transaction.  upload_image stores under         *)
(* posts/<date>/, delete_image looks directly in posts/, and so never      *)
(* finds what was uploaded.                                                *)
(***************************************************************************)
EXTENDS PostService

CONSTANTS
    Req,       \* the HTTP requests; a request's uuid is the name of its image
    Asked,     \* what a request may ask: a part of Job
    Big,       \* the requests whose file one write does not take whole
    GateFault  \* a subset of {"hangup", "crash", "disk", "form"}

ASSUME PostGateAssumption ==
    /\ Req \subseteq Image /\ Big \subseteq Req
    /\ Asked \subseteq Job
    /\ Call = Req \X {"find", "main"}
    /\ GateFault \subseteq {"hangup", "crash", "disk", "form"}

VARIABLES
    gate,   \* gate[r]: where request r's handler stands
    leg,    \* leg[r]: the call that request r makes, or makes next
    queue,  \* the requests that wait for the client, in the order they came
    files   \* files[f]: what the file with path f holds

gateVars == <<gate, leg, queue, files>>
allVars == <<vars, gateVars>>

\* A path: its directory and its name.
Path == {"posts", "posts/day"} \X Image

UploadPath(r) == <<"posts/day", r>>
DeletePathOfUpload(name) == <<"posts/day", name>>  \* broken: the right one
DeletePath(name) == <<"posts", name>>

Main(r) == <<r, "main">>
Find(r) == <<r, "find">>
Now(r) == <<r, leg[r]>>

Op(r) == job[Main(r)].op

\* A request that brings a file names it in its call.
MayAsk(r) == {j \in Asked : j.op \in {"create", "update"} => j.post.img = r}

\* The call that looks up the post of an update.  (Others do not send it.)
FindFor(j) ==
    [op |-> "get", id |-> IF j.op = "update" THEN j.id ELSE CHOOSE i \in Id : TRUE]

\* The posts there at the start have their images.
GateInit ==
    /\ \E ask \in {f \in [Req -> Asked] : \A r \in Req : f[r] \in MayAsk(r)} :
          job = [c \in Call |-> IF c[2] = "main" THEN ask[c[1]] ELSE FindFor(ask[c[1]])]
    /\ Init
    /\ \A i \in Present : Row(i).img \notin Req
    /\ \A i, j \in Present : Row(i).img = Row(j).img => i = j
    /\ files = [f \in Path |-> IF f[1] = "posts/day" /\ \E i \in Present : Row(i).img = f[2]
                               THEN "whole" ELSE "none"]
    /\ gate = [r \in Req |-> IF Op(r) = "create" THEN "form" ELSE "ask"]
    /\ leg = [r \in Req |-> IF Op(r) = "update" THEN "find" ELSE "main"]
    /\ queue = <<>>

HoldersThroughout ==  \* broken: an update keeps the guard over both its calls
    {r \in Req : \/ gate[r] = "calling"
                 \/ Op(r) = "update" /\ leg[r] = "main" /\ gate[r] \in {"form", "write", "ask", "queued"}}
\* The request that has the client.
Holders == {r \in Req : gate[r] = "calling"}

----------------------------------------------------------------------------

Move(r, stage) == gate' = [gate EXCEPT ![r] = stage]

\* The handler asks for the client.
Ask(r) ==
    /\ gate[r] = "ask"
    /\ Move(r, "queued")
    /\ queue' = Append(queue, r)
    /\ UNCHANGED <<vars, leg, files>>

\* The first in line gets the free client and sends its call.
Acquire(r) ==
    /\ gate[r] = "queued" /\ Holders = {}
    /\ queue # <<>> /\ Head(queue) = r
    /\ queue' = Tail(queue)
    /\ Move(r, "calling")
    /\ UNCHANGED <<vars, leg, files>>

\* The call has been answered, or the server is gone.
Ended(r) == gate[r] = "calling" /\ (pc[Now(r)] = "done" \/ ~live[Now(r)])

Succeeded(r) == pc[Now(r)] = "done" /\ outcome[Now(r)] = "ok"

\* The first call of an update: every error is 404.  The client is free again,
\* the old image is removed and what comes of it ignored.
Found(r) ==
    /\ leg[r] = "find" /\ Ended(r)
    /\ IF Succeeded(r)
       THEN /\ Move(r, "form")
            /\ leg' = [leg EXCEPT ![r] = "main"]
            /\ files' = [files EXCEPT ![DeletePath(row[Now(r)].val.img)] = "none"]
       ELSE Move(r, "served") /\ UNCHANGED <<leg, files>>
    /\ UNCHANGED <<vars, queue>>

\* The last call of a request: its answer goes out and the client is free.
Answered(r) ==
    /\ leg[r] = "main" /\ Ended(r)
    /\ Move(r, "served")
    /\ UNCHANGED <<vars, leg, queue, files>>

\* The form has no file; or it is not what the handler expects, and an unwrap
\* ends the handler, and the connection, without an answer.
BadForm(r) ==
    /\ "form" \in GateFault /\ gate[r] = "form"
    /\ Move(r, "refused") \/ Move(r, "left")
    /\ UNCHANGED <<vars, leg, queue, files>>

\* upload_image: the file is there, and empty; or could not be made.
Upload(r) ==
    /\ gate[r] = "form"
    /\ \/ /\ files' = [files EXCEPT ![UploadPath(r)] = "empty"]
          /\ Move(r, "write")
       \/ "disk" \in GateFault /\ Move(r, "refused") /\ UNCHANGED files
    /\ UNCHANGED <<vars, leg, queue>>

\* write takes what fits its buffer, returns how much that was, which nobody
\* looks at, and leaves it to a thread of its own to store.
Write(r) ==
    /\ gate[r] = "write"
    /\ files' = [files EXCEPT ![UploadPath(r)] = "writing"]
    /\ Move(r, "ask")
    /\ UNCHANGED <<vars, leg, queue>>

\* That thread is done.  What did not fit is missing, and no one hears of it.
Land(r) ==
    /\ files[UploadPath(r)] = "writing"
    /\ files' = [files EXCEPT ![UploadPath(r)] = IF r \in Big THEN "cut" ELSE "whole"]
    /\ UNCHANGED <<vars, gate, leg, queue>>

\* The HTTP client hangs up: the handler goes, with its place in the line or
\* the client.
HangUp(r) ==
    /\ "hangup" \in GateFault
    /\ \/ gate[r] \in {"queued", "form", "write"} /\ Move(r, "left")
       \/ gate[r] = "calling" /\ Move(r, "hungup")
    /\ queue' = SelectSeq(queue, LAMBDA s : s # r)
    /\ UNCHANGED <<vars, leg, files>>

\* The server works on the calls it was sent, hung up or not; a statement it
\* had sent may still run after the gateway has been told of its crash.
Sent(c) == c = Now(c[1]) /\ gate[c[1]] \in {"calling", "hungup", "served"}

ServerStep(c) ==
    /\ Sent(c)
    /\ Serve(c) \/ DbError(c)
    /\ UNCHANGED gateVars

\* The server drops the call: it learnt of the hangup, or it crashed.
ServerDrop(c) ==
    /\ c = Now(c[1])
    /\ \/ gate[c[1]] = "hungup"
       \/ gate[c[1]] = "calling" /\ "crash" \in GateFault
    /\ Drop(c)
    /\ UNCHANGED gateVars

Handler(r) ==
    \/ Ask(r) \/ Acquire(r) \/ Found(r) \/ Answered(r) \/ Upload(r) \/ Write(r)

GateNext ==
    \/ \E r \in Req : Handler(r) \/ BadForm(r) \/ Land(r) \/ HangUp(r)
    \/ \E c \in Call : ServerStep(c) \/ ServerDrop(c)
    \/ Outside /\ UNCHANGED gateVars

GateSpec == GateInit /\ [][GateNext]_allVars

\* As for categories: what can go on does, and Redis drops what has expired.
FairGateSpec ==
    /\ GateSpec
    /\ \A r \in Req : WF_allVars(Handler(r))
    /\ \A c \in Call : WF_allVars(Sent(c) /\ live[c] /\ Serve(c) /\ UNCHANGED gateVars)
    /\ \A i \in Id : WF_allVars(Expire(i) /\ UNCHANGED gateVars)

----------------------------------------------------------------------------
(* Properties *)

\* Every stored post has its image, whatever fails between the file and the
\* row.  An update takes the old image away before the new row is known to be
\* stored; that this never leaves a post without its image is only because
\* delete_image looks in another directory than upload_image.
PostsHaveTheirImage ==
    \A i \in Present : files[<<"posts/day", Row(i).img>>] # "none"

\* Every request that waits for the client gets it and gives it back, or hangs
\* up: an update frees the client between its two calls and cannot wait for
\* itself.
EveryRequestIsServed ==
    \A r \in Req : gate[r] = "queued" ~> gate[r] \notin {"queued", "calling"}

\* The gateway takes files of up to 250 MiB: what is uploaded, as
\* the answer says, should be stored whole.
UploadedImageIsWhole ==
    \A r \in Req : files[UploadPath(r)] # "cut"

=============================================================================
