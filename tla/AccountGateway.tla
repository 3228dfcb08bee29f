--------------------------- MODULE AccountGateway ---------------------------
(***************************************************************************)
(* The REST gateway in front of the auth and the user service: sessions,   *)
(* the middleware that checks them, and the two gRPC clients.              *)
(*                                                                         *)
(* A login answers with a token that names an account and a second.  Every *)
(* route but register and login is behind the middleware, which looks at   *)
(* the token before anything else of the request: then the body is read,   *)
(* then the client waited for.                                             *)
(*                                                                         *)
(* Register and login share a client, and the user routes another, each    *)
(* behind a mutex of its own.  The auth client is let go when its answer   *)
(* is there; the user client, as in CategoryGateway, only at the end of    *)
(* the match, after the wait for the metrics.                              *)
(***************************************************************************)
EXTENDS AccountService

CONSTANTS
    GateFault,  \* a subset of {"hangup", "crash"}
    Life,       \* the time a token is good for (60 minutes)
    Leeway,     \* what the JWT library grants beyond it (60 seconds)
    MaxTime,    \* bound: the clock stops there
    NoToken,    \* a cookie or a header that is not sent
    BadToken    \* one that no login made

Token == [id : Id, exp : Nat]

\* Whoever may ask for one user's page may ask for any.
ASSUME GateAssumption ==
    /\ \A j \in Job : j.op = "find" => \A u \in Id : [j EXCEPT !.id = u] \in Job
    /\ GateFault \subseteq {"hangup", "crash"}
    /\ Life \in Nat /\ Leeway \in Nat /\ MaxTime \in Nat
    /\ NoToken \notin Token /\ BadToken \notin Token

VARIABLES
    now,      \* the clock of the machines, in units of Life
    token,    \* token[c]: the token login c made
    me,       \* the calls that came by the route /api/users/me
    admitted, \* admitted[c]: whom the middleware let c in as, and when
    gate,     \* gate[c]: where the HTTP request of call c stands
    queue,    \* queue[k]: the requests that wait for client k, in their order
    http      \* http[c]: the HTTP status answered, 0 before that

sessionVars == <<now, token, me, admitted>>
gateVars == <<gate, queue, http>>
allVars == <<vars, sessionVars, gateVars>>

Open == {"register", "login"}
WithBody == {"register", "login", "create", "update"}

Client(c) == IF job[c].op \in Open THEN "auth" ELSE "user"

NotYet == [id |-> 0, at |-> 0]

GateInit ==
    /\ Init
    /\ now = 0
    /\ token = [c \in Call |-> NoToken]
    /\ me \in SUBSET {c \in Call : job[c].op = "find"}
    /\ admitted = [c \in Call |-> NotYet]
    /\ gate = [c \in Call |-> "new"]
    /\ queue = [k \in {"auth", "user"} |-> <<>>]
    /\ http = [c \in Call |-> 0]

\* The call that has client k.
Holders(k) ==
    {c \in Call : Client(c) = k /\ gate[c] \in (IF k = "auth" THEN {"calling"}
                                               ELSE {"calling", "closing"})}

HttpStatus(op, code) ==
    IF code = "ok" THEN (IF op = "create" THEN 201 ELSE 200)
    ELSE IF op = "login" THEN 401 ELSE 500

----------------------------------------------------------------------------
(* The middleware *)

ValidToLibrary(t) ==  \* broken: the library's check, with its leeway, alone
    t \in Token /\ t.exp + Leeway >= now
\* verify_token: what the library lets pass must still be good by the clock.
Valid(t) == t \in Token /\ t.exp + Leeway >= now /\ t.exp >= now

\* The tokens that logins have answered with.
InHand == {token[l] : l \in {c \in Call : gate[c] = "served" /\ http[c] = 200}} \ {NoToken}

\* A cookie that is there is the token, good or bad; else the Bearer header.
Presented(cookie, bearer) == IF cookie # NoToken THEN cookie ELSE bearer

\* Where a request goes that may go on.
Proceed(c) ==
    IF job[c].op \in WithBody
    THEN gate' = [gate EXCEPT ![c] = "body"] /\ UNCHANGED queue
    ELSE /\ gate' = [gate EXCEPT ![c] = "queued"]
         /\ queue' = [queue EXCEPT ![Client(c)] = Append(@, c)]

\* The user a call that was let in as u asks for.
AskForPath(c, u) == UNCHANGED job  \* broken: "me" shows the user it is told to
AskFor(c, u) == job' = [job EXCEPT ![c] = IF c \in me THEN [@ EXCEPT !.id = u] ELSE @]

\* A request comes in, with any tokens its sender may have.
Arrive(c) ==
    /\ gate[c] = "new"
    /\ \/ /\ job[c].op \in Open
          /\ Proceed(c)
          /\ UNCHANGED <<job, admitted, http>>
       \/ /\ job[c].op \notin Open
          /\ \E cookie, bearer \in InHand \cup {NoToken, BadToken} :
                LET t == Presented(cookie, bearer) IN
                IF Valid(t)
                THEN /\ admitted' = [admitted EXCEPT ![c] = [id |-> t.id, at |-> now]]
                     /\ AskFor(c, t.id)
                     /\ Proceed(c)
                     /\ UNCHANGED http
                ELSE /\ http' = [http EXCEPT ![c] = 401]
                     /\ gate' = [gate EXCEPT ![c] = "served"]
                     /\ UNCHANGED <<job, admitted, queue>>
    /\ UNCHANGED <<stores, pc, live, held, page, outcome, now, token, me>>

----------------------------------------------------------------------------
(* The handlers and the clients *)

Move(c, stage) == gate' = [gate EXCEPT ![c] = stage]

\* The body is there and the handler asks for its client; or it is not what it
\* should be.
ReadBody(c) ==
    /\ gate[c] = "body"
    /\ \/ /\ Move(c, "queued")
          /\ queue' = [queue EXCEPT ![Client(c)] = Append(@, c)]
          /\ UNCHANGED http
       \/ /\ Move(c, "served")
          /\ http' = [http EXCEPT ![c] = 400]
          /\ UNCHANGED queue
    /\ UNCHANGED <<vars, sessionVars>>

\* The first in line gets the free client and sends its call.
Acquire(c) ==
    /\ gate[c] = "queued"
    /\ Holders(Client(c)) = {}
    /\ Head(queue[Client(c)]) = c
    /\ queue' = [queue EXCEPT ![Client(c)] = Tail(@)]
    /\ Move(c, "calling")
    /\ UNCHANGED <<vars, sessionVars, http>>

\* The server's answer is there, or the server is gone.
Answered(c) ==
    /\ gate[c] = "calling"
    /\ \/ /\ pc[c] = "done"
          /\ http' = [http EXCEPT ![c] = HttpStatus(job[c].op, outcome[c])]
       \/ /\ ~live[c]
          /\ http' = [http EXCEPT ![c] = HttpStatus(job[c].op, "unavailable")]
    /\ Move(c, "closing")
    /\ UNCHANGED <<vars, sessionVars, queue>>

ReleaseOnSuccess(c) ==  \* broken: an error leaves the client taken
    /\ gate[c] = "closing" /\ http[c] \in {200, 201}
    /\ Move(c, "served")
    /\ UNCHANGED <<vars, sessionVars, queue, http>>
\* The metrics are recorded, the match ends, the HTTP answer goes out.
Release(c) ==
    /\ gate[c] = "closing"
    /\ Move(c, "served")
    /\ UNCHANGED <<vars, sessionVars, queue, http>>

\* The HTTP client hangs up: its place in the line, or the guard, goes with it.
HangUp(c) ==
    /\ "hangup" \in GateFault
    /\ \/ gate[c] \in {"body", "queued"} /\ Move(c, "left")
       \/ gate[c] \in {"calling", "closing"} /\ Move(c, "hungup")
    /\ queue' = [k \in DOMAIN queue |-> SelectSeq(queue[k], LAMBDA d : d # c)]
    /\ UNCHANGED <<vars, sessionVars, http>>

----------------------------------------------------------------------------
(* The server *)

\* A call the server has; it may have been dropped, with the server or because
\* its caller hung up, while a statement it had sent still runs.
AtServer(c) ==
    /\ gate[c] \in {"calling", "hungup", "closing", "served"}
    /\ http[c] \in {400, 401} => pc[c] # "start"  \* not refused by the gateway

\* generate_token runs with the check of the password.
Issue(c) ==
    token' = IF At(c, {"login"}, "check") /\ outcome'[c] = "ok"
             THEN [token EXCEPT ![c] = [id |-> held[c].id, exp |-> now + Life]]
             ELSE token

ServerStep(c) ==
    /\ AtServer(c)
    /\ Serve(c) \/ DbError(c)
    /\ Issue(c)
    /\ UNCHANGED <<now, me, admitted, gateVars>>

ServerDrop(c) ==
    /\ \/ gate[c] = "hungup"
       \/ gate[c] = "calling" /\ "crash" \in GateFault
    /\ Drop(c)
    /\ UNCHANGED <<sessionVars, gateVars>>

Expiry ==
    /\ (\E k \in Key : Expire(k)) \/ (\E k \in ListKey : ExpireList(k))
    /\ UNCHANGED <<sessionVars, gateVars>>

Tick ==
    /\ now < MaxTime
    /\ now' = now + 1
    /\ UNCHANGED <<vars, token, me, admitted, gateVars>>

GateNext ==
    \/ \E c \in Call :
          \/ Arrive(c) \/ ReadBody(c) \/ Acquire(c) \/ Answered(c) \/ Release(c)
          \/ HangUp(c) \/ ServerStep(c) \/ ServerDrop(c)
    \/ Expiry
    \/ Tick

GateSpec == GateInit /\ [][GateNext]_allVars

\* Tokio wakes who is first in line and runs every future that can go on; the
\* server answers what it was sent.  Redis drops what has expired.
GateStep(c) ==
    \/ Acquire(c) \/ Answered(c) \/ Release(c)
    \/ live[c] /\ ServerStep(c)

Fairness ==
    /\ \A c \in Call : WF_allVars(GateStep(c))
    /\ \A u \in Id : WF_allVars(Expire(UserKey(u)) /\ UNCHANGED <<sessionVars, gateVars>>)

FairGateSpec == GateSpec /\ Fairness

----------------------------------------------------------------------------
(* Properties *)

\* Call l is a login that was answered with a token for account u.
LoggedIn(l, u) ==
    /\ job[l].op = "login" /\ gate[l] = "served" /\ http[l] = 200
    /\ token[l] # NoToken /\ token[l].id = u

\* Nothing but register and login reaches the server for someone who did not
\* log in: the call was let in as the account of a login that had been answered,
\* and no later than the last second its token was good for, whatever leeway
\* the library gives.
OnlyLoggedInReachServer ==
    \A c \in Call : job[c].op \notin Open /\ pc[c] # "start" =>
        \E l \in Call : /\ LoggedIn(l, admitted[c].id)
                        /\ admitted[c].at <= token[l].exp

\* Who asks for "me" is shown the account whose e-mail and password a login was
\* given, however accounts are made, changed, deleted and cached meanwhile.
MeIsWhoLoggedIn ==
    \A c \in me : outcome[c] = "ok" =>
        \E l \in Call :
            LET u == held[l].id
            IN  /\ LoggedIn(l, u) /\ held[c].id = u
                /\ log[u][held[l].ver].email = job[l].email
                /\ Verifies(job[l].pw, log[u][held[l].ver].secret)

\* Every request that waits for a client is served, or hangs up: a failed call,
\* like a good one, hands the client on, the auth client before the metrics and
\* the user client after them.
EveryRequestIsServed ==
    \A c \in Call : gate[c] = "queued" ~> gate[c] \in {"served", "left", "hungup"}

=============================================================================
