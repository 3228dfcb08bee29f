--------------------------- MODULE CommentService ---------------------------
(***************************************************************************)
(* The comment service of the gRPC server, with the "comments" table, what *)
(* it needs of "posts", and the Redis keys "comment:id=i" and "comments".  *)
(*                                                                         *)
(* An action is what happens between two awaits, or one SQL statement, as  *)
(* in CategoryService.  This service differs from that one in four ways:   *)
(*   - get_comment and update_comment wait for the metrics lock between    *)
(*     their statement and their SET (the others wait after it);           *)
(*   - a comment that is not there is answered, and cached, as a stub;     *)
(*   - update_comment caches the bare comment, which get_comment, looking  *)
(*     for a whole response, cannot parse: the entry reads as a miss;      *)
(*   - a comment goes with its post, and nothing tells the cache.          *)
(***************************************************************************)
EXTENDS Integers, Sequences, FiniteSets

CONSTANTS
    Call,     \* the gRPC calls that ever arrive; each is handled once
    Job,      \* what a call may ask: a subset of AnyJob
    Id,       \* the ids SERIAL can issue to a comment
    Post,     \* the posts there can be
    Text,     \* what a comment can say (with the name of who says it)
    Absent,   \* the value of a row that is not (or no longer) there
    Stub,     \* the response made of no comment: id 0 and empty strings
    NoEntry,  \* a key that Redis does not hold
    Fault     \* the faults that may happen

Comment == [post : Post, text : Text]

AnyJob ==
         [op : {"all"}]
    \cup [op : {"get", "delete"}, id : Id]
    \cup [op : {"create"}, post : Post, text : Text]
    \cup [op : {"update"}, id : Id, text : Text]

ASSUME CommentAssumption ==
    /\ Id \subseteq Nat /\ IsFiniteSet(Id)
    /\ Absent \notin Comment /\ Stub \notin Comment
    /\ Job \subseteq AnyJob
    /\ Fault \subseteq {"db", "redis", "expire", "drop"}

VARIABLES
    log,      \* log[i]: the values row i of the table has had, oldest first
    posts,    \* the posts that are there
    cache,    \* cache[i]: the Redis entry "comment:id=i", or NoEntry
    all,      \* the Redis entry "comments", or NoEntry
    job,      \* job[c]: what call c asks
    pc,       \* pc[c]: the await call c stands at
    live,     \* live[c]: the future of call c has not been dropped
    row,      \* row[c]: the comment or stub call c holds, with its version
    list,     \* list[c]: the list call c holds
    wrote,    \* wrote[c]: the version of the row call c's write made, or 0
    lost,     \* lost[c]: Redis did not take call c's update of the cache
    before,   \* before[c]: the calls that had been answered when c began
    outcome   \* outcome[c]: the gRPC status of call c's answer

tables == <<log, posts>>
locals == <<row, list, wrote, lost, before>>
vars == <<tables, cache, all, job, pc, live, locals, outcome>>

----------------------------------------------------------------------------
(* The tables *)

Version(i) == Len(log[i])

Row(i) == IF log[i] = <<>> THEN Absent ELSE log[i][Version(i)]

Present == {i \in Id : Row(i) # Absent}

Affects(i) == Row(i) # Absent

\* An id above every id issued: ids grow, and a refused INSERT uses its id up.
MayIssue(i) == \A j \in Id : j >= i => log[j] = <<>>

ResponseOfRow(v) == v  \* broken: no stub
\* CommentResponse::from(Option<Comment>).
Response(v) == IF v = Absent THEN Stub ELSE v

NoRow == [val |-> Absent, ver |-> 0, at |-> 0]

Init ==
    /\ posts \in SUBSET Post
    /\ log \in [Id -> {<<>>} \cup {<<v>> : v \in {w \in Comment : w.post \in posts}}]
    /\ \A i, j \in Id : j < i /\ log[i] # <<>> => log[j] # <<>>
    /\ cache = [i \in Id |-> NoEntry]
    /\ all = NoEntry
    /\ job \in [Call -> Job]
    /\ pc = [c \in Call |-> "start"]
    /\ live = [c \in Call |-> TRUE]
    /\ row = [c \in Call |-> NoRow]
    /\ list = [c \in Call |-> {}]
    /\ wrote = [c \in Call |-> 0]
    /\ lost = [c \in Call |-> FALSE]
    /\ before = [c \in Call |-> {}]
    /\ outcome = [c \in Call |-> "none"]

----------------------------------------------------------------------------
(* What steps are made of *)

At(c, op, label) == job[c].op = op /\ pc[c] = label

Goto(c, label) ==
    /\ pc' = [pc EXCEPT ![c] = label]
    /\ UNCHANGED outcome

\* The answer is settled; it goes out once the metrics lock is free.
Finish(c, status) ==
    /\ pc' = [pc EXCEPT ![c] = "reply"]
    /\ outcome' = [outcome EXCEPT ![c] = status]

\* The answer goes out in this step.
Return(c) ==
    /\ pc' = [pc EXCEPT ![c] = "done"]
    /\ outcome' = [outcome EXCEPT ![c] = "ok"]

Began(c) == before' = [before EXCEPT ![c] = {d \in Call : pc[d] = "done"}]

Commit(c, i, value) ==
    /\ log' = [log EXCEPT ![i] = Append(@, value)]
    /\ wrote' = [wrote EXCEPT ![c] = Version(i) + 1]

Hold(c, i) ==
    row' = [row EXCEPT ![c] = [val |-> Response(Row(i)), ver |-> Version(i),
                               at |-> Version(i)]]

\* set_to_cache: a whole response, or a bare comment.
Set(c, i, whole) ==
    LET entry(ttl) == [val |-> row[c].val, ver |-> row[c].ver, at |-> Version(i),
                       whole |-> whole, ttl |-> ttl]
    IN  \/ cache' = [cache EXCEPT ![i] = entry(TRUE)] /\ UNCHANGED lost
        \/ /\ "expire" \in Fault
           /\ cache' = [cache EXCEPT ![i] = entry(FALSE)] /\ UNCHANGED lost
        \/ /\ "redis" \in Fault
           /\ lost' = [lost EXCEPT ![c] = TRUE] /\ UNCHANGED cache

DelSkipped(c, i) == UNCHANGED <<cache, lost>>  \* broken: no DEL
Del(c, i) ==
    \/ cache' = [cache EXCEPT ![i] = NoEntry] /\ UNCHANGED lost
    \/ /\ "redis" \in Fault
       /\ lost' = [lost EXCEPT ![c] = TRUE] /\ UNCHANGED cache

\* get_from_cache finds what parses as a response.
Readable(i) == cache[i] # NoEntry /\ cache[i].whole

----------------------------------------------------------------------------
(* get_comment *)

GetLookup(c) ==
    /\ At(c, "get", "start") /\ live[c]
    /\ Began(c)
    /\ LET i == job[c].id IN
        \/ /\ Readable(i)
           /\ row' = [row EXCEPT ![c] = [val |-> cache[i].val, ver |-> cache[i].ver,
                                         at |-> cache[i].at]]
           /\ Finish(c, "ok")
        \/ /\ ~Readable(i) \/ "redis" \in Fault
           /\ Goto(c, "select") /\ UNCHANGED row
    /\ UNCHANGED <<tables, cache, all, job, live, list, wrote, lost>>

GetSelectCached(c) ==  \* broken: looks past the shape of the entry
    /\ At(c, "get", "select") /\ live[c]
    /\ IF cache[job[c].id] # NoEntry
       THEN row' = [row EXCEPT ![c] = [val |-> Stub, ver |-> cache[job[c].id].ver,
                                       at |-> cache[job[c].id].at]]
       ELSE Hold(c, job[c].id)
    /\ Goto(c, "fill")
    /\ UNCHANGED <<tables, cache, all, job, live, list, wrote, lost, before>>
\* The SELECT: a row, or none.
GetSelect(c) ==
    /\ At(c, "get", "select") /\ live[c]
    /\ Hold(c, job[c].id) /\ Goto(c, "fill")
    /\ UNCHANGED <<tables, cache, all, job, live, list, wrote, lost, before>>

\* The metrics lock was had: only now the SET, and the answer.
GetFill(c) ==
    /\ At(c, "get", "fill") /\ live[c]
    /\ Set(c, job[c].id, TRUE)
    /\ Return(c)
    /\ UNCHANGED <<tables, all, job, live, row, list, wrote, before>>

----------------------------------------------------------------------------
(* get_comments *)

AllLookup(c) ==
    /\ At(c, "all", "start") /\ live[c]
    /\ Began(c)
    /\ \/ all # NoEntry /\ list' = [list EXCEPT ![c] = all.items] /\ Finish(c, "ok")
       \/ /\ all = NoEntry \/ "redis" \in Fault
          /\ Goto(c, "select") /\ UNCHANGED list
    /\ UNCHANGED <<tables, cache, all, job, live, row, wrote, lost>>

\* Items carry the version they had, for the properties.
AllSelect(c) ==
    /\ At(c, "all", "select") /\ live[c]
    /\ list' = [list EXCEPT ![c] = {<<i, Version(i), Row(i)>> : i \in Present}]
    /\ Goto(c, "fill")
    /\ UNCHANGED <<tables, cache, all, job, live, row, wrote, lost, before>>

AllFillForGood(c) ==  \* broken: the list has no time to live
    /\ At(c, "all", "fill") /\ live[c]
    /\ all' = [items |-> list[c], ttl |-> FALSE]
    /\ Finish(c, "ok")
    /\ UNCHANGED <<tables, cache, job, live, locals>>
\* No write ever removes the list.
AllFill(c) ==
    /\ At(c, "all", "fill") /\ live[c]
    /\ \/ all' = [items |-> list[c], ttl |-> TRUE]
       \/ "expire" \in Fault /\ all' = [items |-> list[c], ttl |-> FALSE]
       \/ "redis" \in Fault /\ UNCHANGED all
    /\ Finish(c, "ok")
    /\ UNCHANGED <<tables, cache, job, live, locals>>

----------------------------------------------------------------------------
(* create_comment, update_comment, delete_comment *)

CreateUnchecked(c) ==  \* broken: no foreign key
    /\ At(c, "create", "start")
    /\ \E i \in Id : MayIssue(i) /\ Commit(c, i, [post |-> job[c].post, text |-> job[c].text])
    /\ Finish(c, "internal")
    /\ UNCHANGED <<posts, cache, all, job, live, row, list, lost, before>>
\* INSERT without RETURNING: an error, stored or (its post gone, or no id left
\* in the sequence) refused.
CreateInsert(c) ==
    /\ At(c, "create", "start")
    /\ IF job[c].post \in posts /\ \E i \in Id : MayIssue(i)
       THEN \E i \in Id : /\ MayIssue(i)
                          /\ Commit(c, i, [post |-> job[c].post, text |-> job[c].text])
       ELSE UNCHANGED <<log, wrote>>
    /\ Finish(c, "internal")
    /\ UNCHANGED <<posts, cache, all, job, live, row, list, lost, before>>

\* UPDATE .. WHERE id: what the request calls the post's id is the comment's.
UpdateWrite(c) ==
    /\ At(c, "update", "start")
    /\ IF Affects(job[c].id)
       THEN /\ Commit(c, job[c].id, [Row(job[c].id) EXCEPT !.text = job[c].text])
            /\ \/ Goto(c, "reread")
               \/ "db" \in Fault /\ Finish(c, "internal")
       ELSE Finish(c, "internal") /\ UNCHANGED <<log, wrote>>
    /\ UNCHANGED <<posts, cache, all, job, live, row, list, lost, before>>

UpdateReread(c) ==
    /\ At(c, "update", "reread") /\ live[c]
    /\ IF Row(job[c].id) # Absent
       THEN Hold(c, job[c].id) /\ Goto(c, "store")
       ELSE Finish(c, "internal") /\ UNCHANGED row
    /\ UNCHANGED <<tables, cache, all, job, live, list, wrote, lost, before>>

UpdateStoreWhole(c) ==  \* broken: caches a response that reads as one
    /\ At(c, "update", "store") /\ live[c]
    /\ Set(c, job[c].id, TRUE)
    /\ Return(c)
    /\ UNCHANGED <<tables, all, job, live, row, list, wrote, before>>
\* As in get_comment the metrics lock comes first; the bare comment is cached.
UpdateStore(c) ==
    /\ At(c, "update", "store") /\ live[c]
    /\ Set(c, job[c].id, FALSE)
    /\ Return(c)
    /\ UNCHANGED <<tables, all, job, live, row, list, wrote, before>>

DeleteWrite(c) ==
    /\ At(c, "delete", "start")
    /\ IF Affects(job[c].id)
       THEN /\ Commit(c, job[c].id, Absent)
            /\ \/ Goto(c, "evict")
               \/ "db" \in Fault /\ Finish(c, "internal")
       ELSE Finish(c, "internal") /\ UNCHANGED <<log, wrote>>
    /\ UNCHANGED <<posts, cache, all, job, live, row, list, lost, before>>

DeleteEvict(c) ==
    /\ At(c, "delete", "evict") /\ live[c]
    /\ Del(c, job[c].id)
    /\ Finish(c, "ok")
    /\ UNCHANGED <<tables, all, job, live, row, list, wrote, before>>

----------------------------------------------------------------------------
(* Every operation, and what surrounds them *)

Reply(c) ==
    /\ pc[c] = "reply" /\ live[c]
    /\ pc' = [pc EXCEPT ![c] = "done"]
    /\ UNCHANGED <<tables, cache, all, job, live, locals, outcome>>

DbError(c) ==
    /\ "db" \in Fault /\ live[c]
    /\ \/ pc[c] \in {"select", "reread"}
       \/ pc[c] = "start" /\ job[c].op \in {"create", "update", "delete"}
    /\ Finish(c, "internal")
    /\ UNCHANGED <<tables, cache, all, job, live, locals>>

Drop(c) ==
    /\ "drop" \in Fault /\ live[c] /\ pc[c] # "done"
    /\ live' = [live EXCEPT ![c] = FALSE]
    /\ UNCHANGED <<tables, cache, all, job, pc, locals, outcome>>

\* A post is deleted, by its own service or with its category or user: the
\* foreign key takes its comments in the same transaction.
PostGone(p) ==
    /\ p \in posts
    /\ posts' = posts \ {p}
    /\ log' = [i \in Id |-> IF Row(i) # Absent /\ Row(i).post = p
                            THEN Append(log[i], Absent) ELSE log[i]]
    /\ UNCHANGED <<cache, all, job, pc, live, locals, outcome>>

Expire(i) ==
    /\ cache[i] # NoEntry /\ cache[i].ttl
    /\ cache' = [cache EXCEPT ![i] = NoEntry]
    /\ UNCHANGED <<tables, all, job, pc, live, locals, outcome>>

ExpireAll ==
    /\ all # NoEntry /\ all.ttl
    /\ all' = NoEntry
    /\ UNCHANGED <<tables, cache, job, pc, live, locals, outcome>>

Get(c)    == GetLookup(c) \/ GetSelect(c) \/ GetFill(c)
All(c)    == AllLookup(c) \/ AllSelect(c) \/ AllFill(c)
Update(c) == UpdateWrite(c) \/ UpdateReread(c) \/ UpdateStore(c)
Delete(c) == DeleteWrite(c) \/ DeleteEvict(c)

Serve(c) ==
    Get(c) \/ All(c) \/ CreateInsert(c) \/ Update(c) \/ Delete(c) \/ Reply(c)

Next ==
    \/ \E c \in Call : Serve(c) \/ DbError(c) \/ Drop(c)
    \/ \E p \in Post : PostGone(p)
    \/ \E i \in Id : Expire(i)
    \/ ExpireAll

Spec == Init /\ [][Next]_vars

----------------------------------------------------------------------------
(* Properties *)

Labels == {"start", "select", "fill", "reread", "store", "evict", "reply", "done"}

Item == Id \X Nat \X Comment
Entry == [val : Comment \cup {Stub}, ver : Nat, at : Nat, whole : BOOLEAN, ttl : BOOLEAN]

\* Every store, and everything a call holds, has the shape the service's types
\* give it.
TypeOK ==
    /\ log \in [Id -> Seq(Comment \cup {Absent})]
    /\ posts \subseteq Post
    /\ cache \in [Id -> Entry \cup {NoEntry}]
    /\ all \in [items : SUBSET Item, ttl : BOOLEAN] \cup {NoEntry}
    /\ job \in [Call -> Job]
    /\ pc \in [Call -> Labels]
    /\ live \in [Call -> BOOLEAN]
    /\ row \in [Call -> [val : Comment \cup {Stub, Absent}, ver : Nat, at : Nat]]
    /\ list \in [Call -> SUBSET Item]
    /\ wrote \in [Call -> Nat]
    /\ lost \in [Call -> BOOLEAN]
    /\ before \in [Call -> SUBSET Call]
    /\ outcome \in [Call -> {"none", "ok", "internal"}]

\* What row i held at version n; there was none before its first version.
ValueAt(i, n) == IF n = 0 THEN Absent ELSE log[i][n]

\* The items of every list, held or cached.
Listed == (UNION {list[c] : c \in Call}) \cup (IF all = NoEntry THEN {} ELSE all.items)

\* Whatever is cached or held for a comment is what its row held at a time it
\* really passed through: a stub stands only for a time when it was missing.
AnswersWereStored ==
    /\ \A i \in Id : cache[i] # NoEntry =>
          /\ cache[i].ver \in 0..Version(i)
          /\ cache[i].val = Response(ValueAt(i, cache[i].ver))
    /\ \A c \in Call : row[c] # NoRow =>
          LET i == job[c].id
          IN  row[c].ver \in 0..Version(i) /\ row[c].val = Response(ValueAt(i, row[c].ver))
    /\ \A e \in Listed : e[2] \in 1..Version(e[1]) /\ e[3] = log[e[1]][e[2]]

\* No comment outlives its post, whatever create was under way when it went.
NoCommentWithoutPost == \A i \in Present : Row(i).post \in posts

\* Who asks for a comment after an update or a delete of it was acknowledged
\* gets that version or a later one.  Two things excuse the service: Redis
\* refused the write, or the version it answers was overtaken between the
\* SELECT and the SET of the read that cached it.
AckedWritesAreRead ==
    \A c, d \in Call :
        /\ job[c].op = "get" /\ outcome[c] = "ok" /\ d \in before[c]
        /\ job[d].op \in {"update", "delete"} /\ job[d].id = job[c].id
        /\ outcome[d] = "ok" /\ ~lost[d]
        => row[c].ver >= wrote[d] \/ row[c].ver < row[c].at

\* An update that is overtaken by a delete, or by another update, while it
\* waits for the metrics lock cannot bring the old comment back: only a read
\* leaves an entry that is behind when it is stored and still answers.
UpdatesReviveNothing ==
    [][\A c \in Call : job[c].op = "update" /\ pc[c] = "store" /\ pc'[c] = "done" =>
         LET i == job[c].id
         IN  ~(cache'[i] # cache[i] /\ Readable(i)' /\ cache'[i].ver < Version(i))]_vars

=============================================================================
