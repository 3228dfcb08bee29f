-------------------------- MODULE CategoryGateway --------------------------
(***************************************************************************)
(* The REST gateway in front of the category service.                      *)
(*                                                                         *)
(* The gateway has one gRPC client for categories, behind a tokio mutex.   *)
(* Each method is a `match self.client.lock().await.rpc(..).await`: the    *)
(* guard is a temporary of the match, so it is held from before the call   *)
(* until the last line of the arm, the wait for the metrics included.  One *)
(* gateway thus has one category call in flight, however many HTTP         *)
(* requests there are; the mutex hands itself on first come, first served. *)
(*                                                                         *)
(* An HTTP client that hangs up makes the gateway drop the request and the *)
(* guard with it.  The server learns of it later: until then the call it   *)
(* was serving and the next one overlap.                                   *)
(***************************************************************************)
EXTENDS CategoryService

CONSTANT GateFault  \* a subset of {"hangup", "crash"}

ASSUME GateAssumption == GateFault \subseteq {"hangup", "crash"}

VARIABLES
    gate,   \* gate[c]: where the HTTP request of call c stands
    queue,  \* the requests that wait for the client, in the order they came
    http    \* http[c]: the HTTP status answered, 0 before that

gateVars == <<gate, queue, http>>
allVars == <<vars, gateVars>>

GateInit ==
    /\ Init
    /\ gate = [c \in Call |-> "new"]
    /\ queue = <<>>
    /\ http = [c \in Call |-> 0]

\* The call that has the client.
Holders == {c \in Call : gate[c] \in {"calling", "closing"}}

\* tonic's text for a status code, which the gateway puts in "status".
CodeText(code) ==
    CASE code = "not_found" -> "Some requested entity was not found"
      [] code = "internal"  -> "Internal error"
      [] code = "unavailable" -> "The service is currently unavailable"

\* The handlers of get and update look for NOT_FOUND; the others do not.
HttpStatus(op, code) ==
    IF code = "ok" THEN (IF op = "create" THEN 201 ELSE 200)
    ELSE IF op \in {"get", "update"} /\ CodeText(code) = "NOT_FOUND" THEN 404
    ELSE 500

----------------------------------------------------------------------------

Move(c, stage) == gate' = [gate EXCEPT ![c] = stage]

\* The handler asks for the client.
Ask(c) ==
    /\ gate[c] = "new"
    /\ Move(c, "queued")
    /\ queue' = Append(queue, c)
    /\ UNCHANGED <<vars, http>>

\* The first in line gets the free client and sends its call.
AcquireAtOnce(c) ==  \* broken: the guard is not held over the call
    /\ gate[c] = "queued"
    /\ queue # <<>> /\ Head(queue) = c
    /\ queue' = Tail(queue)
    /\ Move(c, "calling")
    /\ UNCHANGED <<vars, http>>
Acquire(c) ==
    /\ gate[c] = "queued"
    /\ Holders = {}
    /\ queue # <<>> /\ Head(queue) = c
    /\ queue' = Tail(queue)
    /\ Move(c, "calling")
    /\ UNCHANGED <<vars, http>>

\* The server's answer is there, or the server is gone; the client stays taken
\* while the metrics are waited for.
Answered(c) ==
    /\ gate[c] = "calling"
    /\ \/ /\ pc[c] = "done"
          /\ http' = [http EXCEPT ![c] = HttpStatus(job[c].op, outcome[c])]
       \/ /\ ~live[c]
          /\ http' = [http EXCEPT ![c] = HttpStatus(job[c].op, "unavailable")]
    /\ Move(c, "closing")
    /\ UNCHANGED <<vars, queue>>

\* The match ends: the guard goes, the HTTP answer goes out.
ReleaseOnSuccess(c) ==  \* broken: an error leaves the client taken
    /\ gate[c] = "closing" /\ http[c] \in {200, 201}
    /\ Move(c, "served")
    /\ UNCHANGED <<vars, queue, http>>
Release(c) ==
    /\ gate[c] = "closing"
    /\ Move(c, "served")
    /\ UNCHANGED <<vars, queue, http>>

\* The HTTP client hangs up: its place in the line, or the guard, goes with it.
HangUp(c) ==
    /\ "hangup" \in GateFault
    /\ \/ gate[c] = "queued" /\ Move(c, "left")
       \/ gate[c] \in {"calling", "closing"} /\ Move(c, "hungup")
    /\ queue' = SelectSeq(queue, LAMBDA d : d # c)
    /\ UNCHANGED <<vars, http>>

\* The server works on the calls it was sent, hung up or not.  When it crashed,
\* a statement it had sent may still run after the gateway has its answer.
Sent(c) == gate[c] \in {"calling", "hungup", "closing", "served"}

ServerStep(c) ==
    /\ Sent(c)
    /\ Serve(c) \/ DbError(c)
    /\ UNCHANGED gateVars

\* The server drops the call: it learnt of the hangup, or it crashed.
ServerDrop(c) ==
    /\ \/ gate[c] = "hungup"
       \/ gate[c] = "calling" /\ "crash" \in GateFault
    /\ Drop(c)
    /\ UNCHANGED gateVars

Expiry ==
    /\ (\E i \in Id : ExpireRow(i)) \/ (\E k \in Keys : ExpireList(k))
    /\ UNCHANGED gateVars

GateNext ==
    \/ \E c \in Call :
          \/ Ask(c) \/ Acquire(c) \/ Answered(c) \/ Release(c) \/ HangUp(c)
          \/ ServerStep(c) \/ ServerDrop(c)
    \/ Expiry

GateSpec == GateInit /\ [][GateNext]_allVars

\* Tokio wakes who is first in line and runs every future that can go on; the
\* server answers what it was sent.  Redis drops what has expired.
GateStep(c) ==
    \/ Acquire(c) \/ Answered(c) \/ Release(c)
    \/ Sent(c) /\ live[c] /\ Serve(c) /\ UNCHANGED gateVars

FairGateSpec ==
    /\ GateSpec
    /\ \A c \in Call : WF_allVars(GateStep(c))
    /\ \A i \in Id : WF_allVars(ExpireRow(i) /\ UNCHANGED gateVars)
    /\ \A k \in Keys : WF_allVars(ExpireList(k) /\ UNCHANGED gateVars)

----------------------------------------------------------------------------
(* Properties *)

Overlapped == \E c \in Call : gate[c] = "hungup"

\* Call c changed its row and it did not end well: it failed after its
\* statement, was dropped with the server, or Redis did not take it.
Botched(c) == wrote[c] > 0 /\ (outcome[c] # "ok" \/ lost[c] \/ ~live[c])

Smooth == ~Overlapped /\ \A c \in Call : ~Botched(c)

\* Behind one gateway the cache of categories is never behind the table while
\* the client is free, as long as every write ended well and no one hung up:
\* the mutex rules out every race of a reader with a writer, and a read that
\* fails or that Redis refuses does no harm.
CacheIsCurrent ==
    Holders = {} /\ Smooth =>
        \A i \in Id : cache[i] # NoEntry => cache[i].ver = Version(i)

\* What ends the calm of CategoryTable: a request that was hung up on, or a
\* write that is in the table and, as its caller or the cache knows, is not.
Harmed(c) ==
    /\ wrote[c] > 0
    /\ ~live[c] \/ lost[c] \/ (pc[c] \in {"reply", "done"} /\ outcome[c] # "ok")

\* What the caller of c has been told: the server's answer, or, when the server
\* went away with the call, the failure of it.
Told(c) ==
    IF gate[c] # "served" THEN [status |-> "none", name |-> Absent]
    ELSE IF pc[c] # "done" \/ outcome[c] = "internal"
         THEN [status |-> "failed", name |-> Absent]
    ELSE IF outcome[c] = "not_found" THEN [status |-> "missing", name |-> Absent]
    ELSE [status |-> "ok", name |-> row[c].name]

Table == INSTANCE CategoryTable WITH
    ask   <- job,
    table <- [i \in Id |-> Row(i)],
    past  <- [i \in Id |-> {log[i][n] : n \in 1..Version(i)}],
    did   <- {c \in Call : wrote[c] > 0},
    told  <- [c \in Call |-> Told(c)],
    calm  <- ~Overlapped /\ \A c \in Call : ~Harmed(c)

\* To its callers the gateway, the service and the cache together are the table
\* of CategoryTable: behind the mutex a call of several statements and cache
\* commands looks like one step, a read gives the row as it stands and not a
\* cached version of it, and a call that failed did nothing, until the first
\* hangup, crash or lost result breaks the calm.
ImplementsTable == Table!Spec

\* Every request that waits for the client is served, or hangs up: a failed
\* call, like a good one, hands the client on.
EveryRequestIsServed ==
    \A c \in Call : gate[c] = "queued" ~> gate[c] \in {"served", "left", "hungup"}

\* The route of a single category documents 404 for one that is not there.
MissingCategoryIs404 ==
    \A c \in Call :
        gate[c] = "served" /\ job[c].op = "get" /\ outcome[c] = "not_found" =>
            http[c] = 404

=============================================================================
