--------------------------- MODULE CommentGateway ---------------------------
(***************************************************************************)
(* The REST gateway in front of the comment service.                       *)
(*                                                                         *)
(* Every route is behind the middleware that looks for a token; create and *)
(* update then read a body.  After that all of them do one thing: take the *)
(* one gRPC client of comments out of its mutex, call, and keep the client *)
(* until the end of the match, over the wait for the metrics.              *)
(*                                                                         *)
(* The service alone lets a read store a comment that was changed under    *)
(* it.  What the gateway adds is that its own calls do not overlap; what   *)
(* it cannot prevent is a hangup, which frees the client before the server *)
(* is done, and the posts' own service, which takes comments away.         *)
(***************************************************************************)
EXTENDS CommentService

CONSTANT GateFault  \* a subset of {"hangup", "crash"}

ASSUME GateAssumption == GateFault \subseteq {"hangup", "crash"}

VARIABLES
    gate,   \* gate[c]: where the HTTP request of call c stands
    queue,  \* the requests that wait for the client, in the order they came
    http    \* http[c]: the HTTP status answered, 0 before that

gateVars == <<gate, queue, http>>
allVars == <<vars, gateVars>>

GateInit ==
    /\ Init
    /\ gate = [c \in Call |-> "new"]
    /\ queue = <<>>
    /\ http = [c \in Call |-> 0]

Holders == {c \in Call : gate[c] \in {"calling", "closing"}}

\* The text "NOT_FOUND" that get and update look for is not what tonic calls the
\* code, and the service never answers with that code; so no 404.
HttpStatus(op, code) ==
    IF code # "ok" THEN 500 ELSE IF op = "create" THEN 201 ELSE 200

Move(c, stage) == gate' = [gate EXCEPT ![c] = stage]

----------------------------------------------------------------------------
(* The way of a request *)

\* No good token, or a body that is not what it should be.
Refuse(c) ==
    /\ gate[c] = "new"
    /\ \E status \in {401} \cup (IF job[c].op \in {"create", "update"} THEN {400} ELSE {}) :
          http' = [http EXCEPT ![c] = status]
    /\ Move(c, "served")
    /\ UNCHANGED <<vars, queue>>

Ask(c) ==
    /\ gate[c] = "new"
    /\ Move(c, "queued")
    /\ queue' = Append(queue, c)
    /\ UNCHANGED <<vars, http>>

AcquireAtOnce(c) ==  \* broken: the guard is not held over the call
    /\ gate[c] = "queued" /\ Head(queue) = c
    /\ queue' = Tail(queue)
    /\ Move(c, "calling")
    /\ UNCHANGED <<vars, http>>
\* The first in line gets the free client and sends its call.
Acquire(c) ==
    /\ gate[c] = "queued" /\ Head(queue) = c
    /\ Holders = {}
    /\ queue' = Tail(queue)
    /\ Move(c, "calling")
    /\ UNCHANGED <<vars, http>>

\* The server's answer is there, or the server is gone.
Answered(c) ==
    /\ gate[c] = "calling"
    /\ pc[c] = "done" \/ ~live[c]
    /\ http' = [http EXCEPT ![c] =
                  HttpStatus(job[c].op, IF pc[c] = "done" THEN outcome[c] ELSE "unavailable")]
    /\ Move(c, "closing")
    /\ UNCHANGED <<vars, queue>>

ReleaseOnSuccess(c) ==  \* broken: an error leaves the client taken
    /\ gate[c] = "closing" /\ http[c] # 500
    /\ Move(c, "served")
    /\ UNCHANGED <<vars, queue, http>>
\* The metrics are recorded, the match ends, the HTTP answer goes out.
Release(c) ==
    /\ gate[c] = "closing"
    /\ Move(c, "served")
    /\ UNCHANGED <<vars, queue, http>>

\* The HTTP client hangs up: its place in the line, or the guard, goes with it.
HangUp(c) ==
    /\ "hangup" \in GateFault
    /\ \/ gate[c] = "queued" /\ Move(c, "left")
       \/ gate[c] \in {"calling", "closing"} /\ Move(c, "hungup")
    /\ queue' = SelectSeq(queue, LAMBDA d : d # c)
    /\ UNCHANGED <<vars, http>>

\* The calls the server was sent.  It works on them hung up or not, and when it
\* crashed a statement it had sent may still run.
Sent(c) == gate[c] \in {"calling", "hungup", "closing"} \/ (gate[c] = "served" /\ http[c] \in {200, 201, 500})

ServerStep(c) ==
    /\ Sent(c)
    /\ Serve(c) \/ DbError(c)
    /\ UNCHANGED gateVars

\* The server drops the call: it learnt of the hangup, or it crashed.
ServerDrop(c) ==
    /\ gate[c] = "hungup" \/ (gate[c] = "calling" /\ "crash" \in GateFault)
    /\ Drop(c)
    /\ UNCHANGED gateVars

\* What happens to the stores without a call of comments.
Elsewhere ==
    /\ (\E p \in Post : PostGone(p)) \/ (\E i \in Id : Expire(i)) \/ ExpireAll
    /\ UNCHANGED gateVars

GateNext ==
    \/ \E c \in Call :
          \/ Refuse(c) \/ Ask(c) \/ Acquire(c) \/ Answered(c) \/ Release(c)
          \/ HangUp(c) \/ ServerStep(c) \/ ServerDrop(c)
    \/ Elsewhere

GateSpec == GateInit /\ [][GateNext]_allVars

\* Tokio wakes who is first in line and runs every future that can go on; the
\* server answers what it was sent.  Redis drops what has expired.
GateStep(c) ==
    \/ Acquire(c) \/ Answered(c) \/ Release(c)
    \/ Sent(c) /\ live[c] /\ Serve(c) /\ UNCHANGED gateVars

FairGateSpec ==
    /\ GateSpec
    /\ \A c \in Call : WF_allVars(GateStep(c))
    /\ \A i \in Id : WF_allVars(Expire(i) /\ UNCHANGED gateVars)
    /\ WF_allVars(ExpireAll /\ UNCHANGED gateVars)

----------------------------------------------------------------------------
(* Properties *)

Overlapped == \E c \in Call : gate[c] = "hungup"

\* Behind one gateway no entry that a get can find is older than a write that
\* was acknowledged, with no exception for a read the write overtook: the mutex
\* lets nothing overtake, and what an update caches nobody can read.  It holds
\* until a request was hung up on, and for the writes that Redis took.
NoOlderThanAcked ==
    \A c \in Call :
        /\ job[c].op \in {"update", "delete"} /\ pc[c] = "done" /\ outcome[c] = "ok"
        /\ ~lost[c] /\ ~Overlapped
        => LET i == job[c].id IN Readable(i) => cache[i].ver >= wrote[c]

\* An update is answered with what it wrote and not with what another wrote in
\* between, until a request was hung up on or the server went away with a call:
\* only then may another statement run between its UPDATE and its SELECT.
UpdateAnswersItself ==
    \A c \in Call :
        /\ job[c].op = "update" /\ http[c] = 200
        /\ ~Overlapped /\ \A d \in Call : live[d]
        => row[c].ver = wrote[c] /\ row[c].val.text = job[c].text

\* Every request that waits for the client is served, or hangs up.
EveryRequestIsServed ==
    \A c \in Call : gate[c] = "queued" ~> gate[c] \in {"served", "left", "hungup"}

\* A cached comment, or the cached list, that has fallen behind: by a cascade,
\* by a lost result or, the list, by any write at all.
Stale(i) == cache[i] # NoEntry /\ cache[i].ver < Version(i)
ListStale == all # NoEntry /\ all.items # {<<i, Version(i), Row(i)>> : i \in Present}

\* Nothing the program does removes these entries; their time to live does.
StaleHeals ==
    /\ \A i \in Id : Stale(i) ~> ~Stale(i)
    /\ ListStale ~> ~ListStale

=============================================================================
