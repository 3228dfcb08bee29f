--------------------------- MODULE AccountService ---------------------------
(***************************************************************************)
(* Accounts: the auth and user services of the gRPC server over the        *)
(* "users" table and the Redis keys the two of them write.                 *)
(*                                                                         *)
(* As in CategoryService, an action is what happens between two awaits, or *)
(* one SQL statement; bcrypt, the token and Redis do not await.            *)
(*                                                                         *)
(* The services use five families of Redis keys and three of them do not   *)
(* meet: "auth:login:<email>" is read but what a login writes is the key   *)
(* "<email>"; "user:email=<email>" is written and removed but never read.  *)
(***************************************************************************)
EXTENDS Integers, Sequences, FiniteSets, Paging

CONSTANTS
    Call,      \* the gRPC calls that ever arrive; each is handled once
    Job,       \* what a call may ask: a subset of AnyJob
    MaxId,     \* bound: the ids SERIAL issues
    Name, Email, Password,
    Search,    \* what a list may search for
    Like,      \* Like[s]: the e-mails that match LIKE 's%'
    Blank,     \* the empty string
    Omitted,   \* a field the HTTP request leaves out
    Absent,    \* the value of a row that is not (or no longer) there
    NoEntry,   \* a key that Redis does not hold
    Fault      \* the faults that may happen

Id == 1..MaxId

\* What the password column holds: the bcrypt hash of a password, or, when the
\* account was made by POST /api/users/create, the password itself.
Secret == [pw : Password, hashed : BOOLEAN]

Query == [page : Int32, size : Int32, search : Search]

Account == [name : Name \cup {Blank}, email : Email \cup {Blank}, secret : Secret]

AnyJob ==
         [op : {"register", "create"}, name : Name, email : Email, pw : Password]
    \cup [op : {"login"}, email : Email, pw : Password]
    \cup [op : {"find"}, id : Id]
    \cup [op : {"update"}, id : Id, name : Name \cup {Omitted}, email : Email \cup {Omitted}]
    \cup [op : {"delete"}, email : Email]
    \cup [op : {"list"}, query : Query]

\* The Redis keys of a single account or login, by family.
LoginKeyRead(e)  == <<"auth:login:", e>>
LoginKeyAsRead(e) == LoginKeyRead(e)  \* broken: the login's key is the one read
LoginKey(e)      == <<"", e>>
UserKey(u)       == <<"user:id=", u>>
UserEmailKey(e)  == <<"user:email=", e>>

Key == {LoginKeyRead(e) : e \in Email} \cup {LoginKey(e) : e \in Email}
       \cup {UserKey(u) : u \in Id}
       \cup {UserEmailKey(e) : e \in Email \cup {Blank}}

\* A page or a size that is not positive becomes 1; the key of a list,
\* "users:page=..:size=..:search=..", is made of the values put right.
Normal(q) ==
    [page   |-> IF q.page > 0 THEN q.page ELSE 1,
     size   |-> IF q.size > 0 THEN q.size ELSE 1,
     search |-> q.search]

ListKey == {Normal(j.query) : j \in {k \in Job : k.op = "list"}}

ASSUME AccountAssumption ==
    /\ MaxId \in Nat
    /\ Like \in [Search -> SUBSET (Email \cup {Blank})]
    /\ Job \subseteq AnyJob
    /\ Absent \notin Account
    /\ Blank \notin Email /\ Omitted \notin Name \cup Email
    /\ NoEntry \notin [id : Id, ver : Nat, ttl : BOOLEAN]
    /\ Fault \subseteq {"db", "redis", "expire", "drop"}

VARIABLES
    log,      \* log[u]: the values row u of "users" has had, oldest first
    nextId,   \* the id the SERIAL column issues next
    redis,    \* redis[k]: the entry of key k, or NoEntry
    lists,    \* lists[k]: the list stored under key k, or NoEntry
    job,      \* job[c]: what call c asks
    pc,       \* pc[c]: the await call c stands at
    live,     \* live[c]: the future of call c has not been dropped
    held,     \* held[c]: the account, and the version of it, c read or made
    page,     \* page[c]: the list call c holds
    outcome   \* outcome[c]: the gRPC status of call c's answer

stores == <<log, nextId, redis, lists>>
vars == <<stores, job, pc, live, held, page, outcome>>

----------------------------------------------------------------------------
(* The table *)

Version(u) == Len(log[u])

Row(u) == IF log[u] = <<>> THEN Absent ELSE log[u][Version(u)]

Present == {u \in Id : Row(u) # Absent}

WithEmail(e) == {u \in Present : Row(u).email = e}

\* users.email is UNIQUE: what a statement leaves must keep it so.
MayTakeUnchecked(u, e) == TRUE  \* broken: no such constraint
MayTake(u, e) == WithEmail(e) \subseteq {u}

Matching(q) == {u \in Present : Row(u).email \in Like[q.search]}

\* ORDER BY id, LIMIT and OFFSET.
PageOf(q) ==
    LET rank(u) == Cardinality({v \in Matching(q) : v < u})
    IN  {<<u, Version(u)>> : u \in {v \in Matching(q) : OnPage(q, rank(v))}}

Nobody == [id |-> 0, ver |-> 0]
NoPage == [items |-> {}, total |-> 0]

Init ==
    /\ log \in [Id -> {<<>>} \cup {<<a>> : a \in {b \in Account : b.name # Blank /\ b.email # Blank}}]
    /\ \A u, v \in Id : u # v /\ log[u] # <<>> /\ log[v] # <<>> =>
          log[u][1].email # log[v][1].email
    /\ nextId \in 1..MaxId + 1
    /\ \A u \in Id : u >= nextId => log[u] = <<>>
    /\ redis = [k \in Key |-> NoEntry]
    /\ lists = [k \in ListKey |-> NoEntry]
    /\ job \in [Call -> Job]
    /\ pc = [c \in Call |-> "start"]
    /\ live = [c \in Call |-> TRUE]
    /\ held = [c \in Call |-> Nobody]
    /\ page = [c \in Call |-> NoPage]
    /\ outcome = [c \in Call |-> "none"]

----------------------------------------------------------------------------
(* What steps are made of *)

At(c, ops, label) == job[c].op \in ops /\ pc[c] = label

Goto(c, label) ==
    /\ pc' = [pc EXCEPT ![c] = label]
    /\ UNCHANGED outcome

Finish(c, status) ==
    /\ pc' = [pc EXCEPT ![c] = "reply"]
    /\ outcome' = [outcome EXCEPT ![c] = status]

Hold(c, u, ver) == held' = [held EXCEPT ![c] = [id |-> u, ver |-> ver]]

SetForGood(k, u, ver) ==  \* broken: SET, and no EXPIRE
    redis' = [redis EXCEPT ![k] = [id |-> u, ver |-> ver, ttl |-> FALSE]]
\* set_to_cache and delete_from_cache, as in CategoryService.
Set(k, u, ver) ==
    \/ redis' = [redis EXCEPT ![k] = [id |-> u, ver |-> ver, ttl |-> TRUE]]
    \/ /\ "expire" \in Fault
       /\ redis' = [redis EXCEPT ![k] = [id |-> u, ver |-> ver, ttl |-> FALSE]]
    \/ "redis" \in Fault /\ UNCHANGED redis

Del(k) ==
    \/ redis' = [redis EXCEPT ![k] = NoEntry]
    \/ "redis" \in Fault /\ UNCHANGED redis

----------------------------------------------------------------------------
(* register_user, create_user *)

\* find_by_email_exists.  (register_user first asks Redis for a key that only
\* a registration that succeeded would write, and none does: see below.)
SignupCheck(c) ==
    /\ At(c, {"register", "create"}, "start") /\ live[c]
    /\ IF WithEmail(job[c].email) # {} THEN Finish(c, "internal") ELSE Goto(c, "insert")
    /\ UNCHANGED <<stores, job, live, held, page>>

\* The INSERT.  SERIAL issues an id even if UNIQUE then refuses the row.  It has
\* no RETURNING, so fetch_one finds no row, stored or not: an error either way.
\* With no id left in the sequence the statement fails.
Signed(c) == [name |-> job[c].name, email |-> job[c].email,
              secret |-> [pw |-> job[c].pw, hashed |-> job[c].op = "register"]]

SignupInsertReusingId(c) ==  \* broken: the id is one that is free
    /\ At(c, {"register", "create"}, "insert")
    /\ MayTake(0, job[c].email)
    /\ \E u \in Id \ Present : log' = [log EXCEPT ![u] = Append(@, Signed(c))]
    /\ Finish(c, "internal")
    /\ UNCHANGED <<nextId, redis, lists, job, live, held, page>>
SignupInsert(c) ==
    /\ At(c, {"register", "create"}, "insert")
    /\ nextId' = IF nextId \in Id THEN nextId + 1 ELSE nextId
    /\ IF nextId \in Id /\ MayTake(nextId, job[c].email)
       THEN /\ log' = [log EXCEPT ![nextId] = Append(@, Signed(c))]
            /\ Hold(c, nextId, 1)
       ELSE UNCHANGED <<log, held>>
    /\ Finish(c, "internal")
    /\ UNCHANGED <<redis, lists, job, live, page>>

----------------------------------------------------------------------------
(* login_user *)

\* A cached token would be the answer, whatever the password.
LoginLookup(c) ==
    /\ At(c, {"login"}, "start") /\ live[c]
    /\ LET e == redis[LoginKeyRead(job[c].email)] IN
       IF e # NoEntry
       THEN Hold(c, e.id, e.ver) /\ Finish(c, "ok")
       ELSE Goto(c, "select") /\ UNCHANGED held
    /\ UNCHANGED <<stores, job, live, page>>

LoginSelect(c) ==
    /\ At(c, {"login"}, "select") /\ live[c]
    /\ IF WithEmail(job[c].email) = {}
       THEN Finish(c, "unauthenticated") /\ UNCHANGED held
       ELSE /\ \E u \in WithEmail(job[c].email) : Hold(c, u, Version(u))
            /\ Goto(c, "check")
    /\ UNCHANGED <<stores, job, live, page>>

\* bcrypt's verify fails on a column that holds no hash.
Verifies(pw, secret) == secret.hashed /\ secret.pw = pw

\* The password, the token for the account's id, and the token to Redis.
LoginCheck(c) ==
    /\ At(c, {"login"}, "check") /\ live[c]
    /\ IF Verifies(job[c].pw, log[held[c].id][held[c].ver].secret)
       THEN Set(LoginKey(job[c].email), held[c].id, held[c].ver) /\ Finish(c, "ok")
       ELSE UNCHANGED redis /\ Finish(c, "unauthenticated")
    /\ UNCHANGED <<log, nextId, lists, job, live, held, page>>

----------------------------------------------------------------------------
(* find_by_id, the service behind "me" and behind a user's page *)

FindLookup(c) ==
    /\ At(c, {"find"}, "start") /\ live[c]
    /\ LET e == redis[UserKey(job[c].id)] IN
        \/ e # NoEntry /\ Hold(c, e.id, e.ver) /\ Finish(c, "ok")
        \/ /\ e = NoEntry \/ "redis" \in Fault
           /\ Goto(c, "select") /\ UNCHANGED held
    /\ UNCHANGED <<stores, job, live, page>>

FindSelectAnyway(c) ==  \* broken: a row that is not there is held like one
    /\ At(c, {"find"}, "select") /\ live[c]
    /\ Hold(c, job[c].id, Version(job[c].id)) /\ Goto(c, "fill")
    /\ UNCHANGED <<stores, job, live, page>>
FindSelect(c) ==
    /\ At(c, {"find"}, "select") /\ live[c]
    /\ IF Row(job[c].id) # Absent
       THEN Hold(c, job[c].id, Version(job[c].id)) /\ Goto(c, "fill")
       ELSE Finish(c, "internal") /\ UNCHANGED held
    /\ UNCHANGED <<stores, job, live, page>>

FindFill(c) ==
    /\ At(c, {"find"}, "fill") /\ live[c]
    /\ Set(UserKey(job[c].id), held[c].id, held[c].ver)
    /\ Finish(c, "ok")
    /\ UNCHANGED <<log, nextId, lists, job, live, held, page>>

----------------------------------------------------------------------------
(* get_users *)

\* As in CategoryService: an offset below 0 makes the query builder panic.
ListLookup(c) ==
    /\ At(c, {"list"}, "start") /\ live[c]
    /\ LET e == lists[Normal(job[c].query)] IN
        \/ /\ e # NoEntry
           /\ page' = [page EXCEPT ![c] = e.page]
           /\ Finish(c, "ok") /\ UNCHANGED live
        \/ /\ e = NoEntry \/ "redis" \in Fault
           /\ IF Panics(Normal(job[c].query))
              THEN live' = [live EXCEPT ![c] = FALSE] /\ UNCHANGED <<pc, outcome>>
              ELSE Goto(c, "page") /\ UNCHANGED live
           /\ UNCHANGED page
    /\ UNCHANGED <<stores, job, held>>

\* find_all is two statements: a page, and the count of all matches.
ListPage(c) ==
    /\ At(c, {"list"}, "page") /\ live[c]
    /\ page' = [page EXCEPT ![c].items = PageOf(Normal(job[c].query))]
    /\ Goto(c, "count")
    /\ UNCHANGED <<stores, job, live, held>>

ListCount(c) ==
    /\ At(c, {"list"}, "count") /\ live[c]
    /\ page' = [page EXCEPT ![c].total = Cardinality(Matching(Normal(job[c].query)))]
    /\ Goto(c, "fill")
    /\ UNCHANGED <<stores, job, live, held>>

\* No write ever removes a list.
ListFill(c) ==
    /\ At(c, {"list"}, "fill") /\ live[c]
    /\ LET stored(ttl) == [lists EXCEPT ![Normal(job[c].query)] =
                               [page |-> page[c], ttl |-> ttl]]
       IN  \/ lists' = stored(TRUE)
           \/ "expire" \in Fault /\ lists' = stored(FALSE)
           \/ "redis" \in Fault /\ UNCHANGED lists
    /\ Finish(c, "ok")
    /\ UNCHANGED <<log, nextId, redis, job, live, held, page>>

----------------------------------------------------------------------------
(* update_user, delete_user *)

SentAsIs(field) == field  \* broken: a field left out is written as none
\* What a field of the HTTP request becomes: the gateway starts from an empty
\* message, and the server sets every field of it.
Sent(field) == IF field = Omitted THEN Blank ELSE field

\* One UPDATE .. RETURNING.  The password is in the request, not in the UPDATE.
\* With "db" the row is written and the answer lost.
UpdateWrite(c) ==
    /\ At(c, {"update"}, "start")
    /\ LET u     == job[c].id
           email == Sent(job[c].email)
       IN  IF Row(u) # Absent /\ MayTake(u, email)
           THEN /\ log' = [log EXCEPT ![u] = Append(@,
                      [Row(u) EXCEPT !.name = Sent(job[c].name), !.email = email])]
                /\ \/ Hold(c, u, Version(u) + 1) /\ Goto(c, "store")
                   \/ "db" \in Fault /\ Finish(c, "internal") /\ UNCHANGED held
           ELSE Finish(c, "internal") /\ UNCHANGED <<log, held>>
    /\ UNCHANGED <<nextId, redis, lists, job, live, page>>

\* Cached by the new e-mail; the entry under the id stays what it was.
UpdateStore(c) ==
    /\ At(c, {"update"}, "store") /\ live[c]
    /\ Set(UserEmailKey(Sent(job[c].email)), held[c].id, held[c].ver)
    /\ Finish(c, "ok")
    /\ UNCHANGED <<log, nextId, lists, job, live, held, page>>

\* DELETE .. WHERE email; rows_affected is not looked at.
DeleteWrite(c) ==
    /\ At(c, {"delete"}, "start")
    /\ log' = [u \in Id |-> IF u \in WithEmail(job[c].email)
                            THEN Append(log[u], Absent) ELSE log[u]]
    /\ \/ Goto(c, "evict")
       \/ "db" \in Fault /\ Finish(c, "internal")
    /\ UNCHANGED <<nextId, redis, lists, job, live, held, page>>

DeleteEvict(c) ==
    /\ At(c, {"delete"}, "evict") /\ live[c]
    /\ Del(UserEmailKey(job[c].email))
    /\ Finish(c, "ok")
    /\ UNCHANGED <<log, nextId, lists, job, live, held, page>>

----------------------------------------------------------------------------
(* Every operation *)

Reply(c) ==
    /\ pc[c] = "reply" /\ live[c]
    /\ pc' = [pc EXCEPT ![c] = "done"]
    /\ UNCHANGED <<stores, job, live, held, page, outcome>>

\* A statement fails and changes nothing.
DbError(c) ==
    /\ "db" \in Fault /\ live[c]
    /\ \/ pc[c] \in {"select", "insert", "page", "count"}
       \/ At(c, {"register", "create", "update", "delete"}, "start")
    /\ Finish(c, IF job[c].op = "login" THEN "unauthenticated" ELSE "internal")
    /\ UNCHANGED <<stores, job, live, held, page>>

Drop(c) ==
    /\ "drop" \in Fault /\ live[c] /\ pc[c] # "done"
    /\ live' = [live EXCEPT ![c] = FALSE]
    /\ UNCHANGED <<stores, job, pc, held, page, outcome>>

Expire(k) ==
    /\ redis[k] # NoEntry /\ redis[k].ttl
    /\ redis' = [redis EXCEPT ![k] = NoEntry]
    /\ UNCHANGED <<log, nextId, lists, job, pc, live, held, page, outcome>>

ExpireList(k) ==
    /\ lists[k] # NoEntry /\ lists[k].ttl
    /\ lists' = [lists EXCEPT ![k] = NoEntry]
    /\ UNCHANGED <<log, nextId, redis, job, pc, live, held, page, outcome>>

Signup(c) == SignupCheck(c) \/ SignupInsert(c)
Login(c)  == LoginLookup(c) \/ LoginSelect(c) \/ LoginCheck(c)
Find(c)   == FindLookup(c) \/ FindSelect(c) \/ FindFill(c)
List(c)   == ListLookup(c) \/ ListPage(c) \/ ListCount(c) \/ ListFill(c)
Update(c) == UpdateWrite(c) \/ UpdateStore(c)
Delete(c) == DeleteWrite(c) \/ DeleteEvict(c)

Serve(c) ==
    \/ Signup(c) \/ Login(c) \/ Find(c) \/ List(c) \/ Update(c) \/ Delete(c)
    \/ Reply(c)

Next ==
    \/ \E c \in Call : Serve(c) \/ DbError(c) \/ Drop(c)
    \/ \E k \in Key : Expire(k)
    \/ \E k \in ListKey : ExpireList(k)

Spec == Init /\ [][Next]_vars

----------------------------------------------------------------------------
(* Properties *)

Labels == {"start", "insert", "select", "check", "fill", "page", "count",
           "store", "evict", "reply", "done"}

Page == [items : SUBSET (Id \X Nat), total : Nat]

TypeOK ==
    /\ log \in [Id -> Seq(Account \cup {Absent})]
    /\ nextId \in 1..MaxId + 1
    /\ redis \in [Key -> [id : Id, ver : Nat, ttl : BOOLEAN] \cup {NoEntry}]
    /\ lists \in [ListKey -> [page : Page, ttl : BOOLEAN] \cup {NoEntry}]
    /\ job \in [Call -> Job]
    /\ pc \in [Call -> Labels]
    /\ live \in [Call -> BOOLEAN]
    /\ held \in [Call -> [id : Id \cup {0}, ver : Nat]]
    /\ page \in [Call -> Page]
    /\ outcome \in [Call -> {"none", "ok", "internal", "unauthenticated"}]

\* However many sign-ups and updates race between the check for the e-mail and
\* the statement that takes it, no two accounts share an e-mail: who logs in by
\* e-mail can mean only one account.
OneAccountPerEmail ==
    \A u, v \in Present : Row(u).email = Row(v).email => u = v

\* Whoever is logged in gave the password of the account the token names, and
\* that account had the e-mail given: no token is handed to a caller because
\* someone else logged in a minute before.
LoginChecksPassword ==
    \A c \in Call : job[c].op = "login" /\ outcome[c] = "ok" =>
        LET u == held[c].id
        IN  /\ u \in Id /\ held[c].ver \in 1..Version(u)
            /\ log[u][held[c].ver] # Absent
            /\ log[u][held[c].ver].email = job[c].email
            /\ Verifies(job[c].pw, log[u][held[c].ver].secret)

\* A token names an account by id for an hour.  An id once given up never comes
\* back, so the token of an account that was deleted never opens another.
IdNamesOneAccount ==
    \A u \in Id : \A n \in 1..Version(u) - 1 : log[u][n] # Absent

WasStored(u, n) == n \in 1..Version(u) /\ log[u][n] # Absent

\* However reads, writes and expiries interleave, a user's page shows that very
\* user, cached or not, as the account was at some time, and a list shows
\* accounts that were: no call mixes two accounts up, and none shows, or puts in
\* the cache, one that was already gone when it was read.
UsersShownWereStored ==
    /\ \A u \in Id : redis[UserKey(u)] # NoEntry =>
          redis[UserKey(u)].id = u /\ WasStored(u, redis[UserKey(u)].ver)
    /\ \A c \in Call : job[c].op = "find" /\ outcome[c] = "ok" =>
          held[c].id = job[c].id /\ WasStored(held[c].id, held[c].ver)
    /\ \A k \in ListKey : lists[k] # NoEntry =>
          \A e \in lists[k].page.items : WasStored(e[1], e[2])
    /\ \A c \in Call : \A e \in page[c].items : WasStored(e[1], e[2])

\* No write touches "user:id=": a cached user falls behind its row and only its
\* time to live brings it back.  It does (unless SET lands without EXPIRE).
StaleUser(u) ==
    redis[UserKey(u)] # NoEntry /\ redis[UserKey(u)].ver < Version(u)
StaleUserHeals == \A u \in Id : StaleUser(u) ~> ~StaleUser(u)

=============================================================================
