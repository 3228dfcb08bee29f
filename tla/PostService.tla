---------------------------- MODULE PostService ----------------------------
(***************************************************************************)
(* The post service of the gRPC server, with the "posts" table, what it    *)
(* needs of "categories" and "users", and the Redis keys "post:id=i" and   *)
(* "posts:page=..:size=..:search=..".                                      *)
(*                                                                         *)
(* An action is what happens between two awaits, or one SQL statement, as  *)
(* in CategoryService.  Of the operations of this service only get, list   *)
(* and delete can succeed:                                                 *)
(*   - INSERT and UPDATE have no RETURNING and are run by fetch_one, so a  *)
(*     write that is stored reports an error, and update_post never comes  *)
(*     to its SET: the entry it should replace stays until it expires;     *)
(*   - the rows of the relation are read by names the query does not give  *)
(*     its columns, and a post without comments has no such row;           *)
(*   - the migrations make no column "img": on the tables they make, every *)
(*     statement but DELETE and the relation fails.                        *)
(***************************************************************************)
EXTENDS Integers, Sequences, FiniteSets, Paging

CONSTANTS
    Call,     \* the gRPC calls that ever arrive; each is handled once
    Job,      \* what a call may ask: a subset of AnyJob
    Id,       \* the ids SERIAL can issue to a post
    Category, \* the categories there can be
    User,     \* the users there can be
    Title,    \* what a post can say
    Image,    \* the names of image files
    Search,   \* what a list may search for
    Like,     \* Like[s]: the titles that match LIKE '%s%'
    Absent,   \* the value of a row that is not (or no longer) there
    NoEntry,  \* a key that Redis does not hold
    Fault     \* the faults that may happen

Post == [category : Category, user : User, title : Title, img : Image]

Ref == Category \cup User

Query == [page : Int32, size : Int32, search : Search]

AnyJob ==
         [op : {"get", "relation", "delete"}, id : Id]
    \cup [op : {"list"}, query : Query]
    \cup [op : {"create"}, post : Post]
    \cup [op : {"update"}, id : Id, post : Post]

ASSUME PostAssumption ==
    /\ Id \subseteq Nat /\ IsFiniteSet(Id)
    /\ Absent \notin Post
    /\ Category \cap User = {}
    /\ Job \subseteq AnyJob
    /\ Like \in [Search -> SUBSET Title]
    /\ Fault \subseteq {"db", "redis", "expire", "drop"}

VARIABLES
    imgColumn, \* the table has the column "img"
    log,      \* log[i]: the values row i of the table has had, oldest first
    refs,     \* the categories and users that are there
    cache,    \* cache[i]: the Redis entry "post:id=i", or NoEntry
    lists,    \* lists[k]: the Redis entry of a list request, or NoEntry
    job,      \* job[c]: what call c asks
    pc,       \* pc[c]: the await call c stands at
    live,     \* live[c]: the future of call c has not been dropped
    row,      \* row[c]: the post call c holds, with its version
    page,     \* page[c]: the list call c holds
    wrote,    \* wrote[c]: the version of the row call c's write made, or 0
    lost,     \* lost[c]: Redis did not take call c's DEL
    outcome   \* outcome[c]: the gRPC status of call c's answer

tables == <<imgColumn, log, refs>>
locals == <<row, page, wrote, lost>>
vars == <<tables, cache, lists, job, pc, live, locals, outcome>>

----------------------------------------------------------------------------
(* The tables *)

Version(i) == Len(log[i])

Row(i) == IF log[i] = <<>> THEN Absent ELSE log[i][Version(i)]

Present == {i \in Id : Row(i) # Absent}

\* The next id to get a row.  (An id that a refused INSERT used up never has one.)
IsNextId(i) == log[i] = <<>> /\ \A j \in Id : j < i => log[j] # <<>>

\* Both foreign keys have what they point to.
Refers(post) == {post.category, post.user}

MayRefer(post) == Refers(post) \subseteq refs

\* A page or a size that is not positive becomes 1.
Normal(q) ==
    [page   |-> IF q.page > 0 THEN q.page ELSE 1,
     size   |-> IF q.size > 0 THEN q.size ELSE 1,
     search |-> q.search]

Keys == {Normal(j.query) : j \in {k \in Job : k.op = "list"}}

Matching(q) == {i \in Present : Row(i).title \in Like[q.search]}

\* LIMIT and OFFSET without ORDER BY: how many rows is settled, which is not.
Pages(q) ==
    {items \in SUBSET Matching(q) :
        Cardinality(items) = RowsOnPage(q, Cardinality(Matching(q)))}

----------------------------------------------------------------------------
(* Initial states: what an earlier run left in the tables and in Redis.     *)

NoRow  == [val |-> Absent, ver |-> 0]
NoPage == [items |-> {}, total |-> 0]

Init ==
    /\ imgColumn \in BOOLEAN
    /\ refs = Ref
    /\ log \in [Id -> {<<>>} \cup {<<p>> : p \in Post}]
    /\ ~imgColumn => \A i \in Id : log[i] = <<>>
    /\ \A i, j \in Id : j < i /\ log[i] # <<>> => log[j] # <<>>
    /\ cache = [i \in Id |-> NoEntry]
    /\ lists = [k \in Keys |-> NoEntry]
    /\ job \in [Call -> Job]
    /\ pc = [c \in Call |-> "start"]
    /\ live = [c \in Call |-> TRUE]
    /\ row = [c \in Call |-> NoRow]
    /\ page = [c \in Call |-> NoPage]
    /\ wrote = [c \in Call |-> 0]
    /\ lost = [c \in Call |-> FALSE]
    /\ outcome = [c \in Call |-> "none"]

----------------------------------------------------------------------------
(* What steps are made of *)

At(c, op, label) == job[c].op = op /\ pc[c] = label

Goto(c, label) ==
    /\ pc' = [pc EXCEPT ![c] = label]
    /\ UNCHANGED outcome

\* The answer is settled; it goes out once the metrics lock is free.
Finish(c, status) ==
    /\ pc' = [pc EXCEPT ![c] = "reply"]
    /\ outcome' = [outcome EXCEPT ![c] = status]

Commit(c, i, value) ==
    /\ log' = [log EXCEPT ![i] = Append(@, value)]
    /\ wrote' = [wrote EXCEPT ![c] = Version(i) + 1]

SetForGood(c, i) ==  \* broken: SET, and no EXPIRE
    cache' = [cache EXCEPT ![i] = [val |-> row[c].val, ver |-> row[c].ver,
                                   at |-> Version(i), ttl |-> FALSE]]
\* set_to_cache
Set(c, i) ==
    LET entry(ttl) == [val |-> row[c].val, ver |-> row[c].ver, at |-> Version(i),
                       ttl |-> ttl]
    IN  \/ cache' = [cache EXCEPT ![i] = entry(TRUE)]
        \/ "expire" \in Fault /\ cache' = [cache EXCEPT ![i] = entry(FALSE)]
        \/ "redis" \in Fault /\ UNCHANGED cache

DelSkipped(c, i) == UNCHANGED <<cache, lost>>  \* broken: no DEL
Del(c, i) ==
    \/ cache' = [cache EXCEPT ![i] = NoEntry] /\ UNCHANGED lost
    \/ /\ "redis" \in Fault
       /\ lost' = [lost EXCEPT ![c] = TRUE] /\ UNCHANGED cache

----------------------------------------------------------------------------
(* get_post *)

GetLookup(c) ==
    /\ At(c, "get", "start") /\ live[c]
    /\ LET e == cache[job[c].id] IN
        \/ /\ e # NoEntry
           /\ row' = [row EXCEPT ![c] = [val |-> e.val, ver |-> e.ver]]
           /\ Finish(c, "ok")
        \/ /\ e = NoEntry \/ "redis" \in Fault
           /\ Goto(c, "select") /\ UNCHANGED row
    /\ UNCHANGED <<tables, cache, lists, job, live, page, wrote, lost>>

GetSelectAny(c) ==  \* broken: a row that is not there is held like one
    /\ At(c, "get", "select") /\ live[c]
    /\ row' = [row EXCEPT ![c] = [val |-> Row(job[c].id), ver |-> Version(job[c].id)]]
    /\ Goto(c, "fill")
    /\ UNCHANGED <<tables, cache, lists, job, live, page, wrote, lost>>
\* No row is an error like any other: the server answers both "internal".
GetSelect(c) ==
    /\ At(c, "get", "select") /\ live[c]
    /\ LET i == job[c].id IN
        IF imgColumn /\ i \in Present
        THEN /\ row' = [row EXCEPT ![c] = [val |-> Row(i), ver |-> Version(i)]]
             /\ Goto(c, "fill")
        ELSE Finish(c, "internal") /\ UNCHANGED row
    /\ UNCHANGED <<tables, cache, lists, job, live, page, wrote, lost>>

GetFill(c) ==
    /\ At(c, "get", "fill") /\ live[c]
    /\ Set(c, job[c].id)
    /\ Finish(c, "ok")
    /\ UNCHANGED <<tables, lists, job, live, locals>>

----------------------------------------------------------------------------
(* get_all_posts, get_post_relation *)

\* As in CategoryService, an offset below 0 ends the call.
ListLookup(c) ==
    /\ At(c, "list", "start") /\ live[c]
    /\ LET e == lists[Normal(job[c].query)] IN
        \/ /\ e # NoEntry
           /\ page' = [page EXCEPT ![c] = e.page]
           /\ Finish(c, "ok") /\ UNCHANGED live
        \/ /\ e = NoEntry \/ "redis" \in Fault
           /\ IF Panics(Normal(job[c].query))
              THEN live' = [live EXCEPT ![c] = FALSE] /\ UNCHANGED <<pc, outcome>>
              ELSE Goto(c, "page") /\ UNCHANGED live
           /\ UNCHANGED page
    /\ UNCHANGED <<tables, cache, lists, job, row, wrote, lost>>

\* get_all_posts is two statements: a page, and the count of all matches.
ListPage(c) ==
    /\ At(c, "list", "page") /\ live[c]
    /\ IF imgColumn
       THEN /\ \E items \in Pages(Normal(job[c].query)) :
                   page' = [page EXCEPT ![c].items = {<<i, Row(i)>> : i \in items}]
            /\ Goto(c, "count")
       ELSE Finish(c, "internal") /\ UNCHANGED page
    /\ UNCHANGED <<tables, cache, lists, job, live, row, wrote, lost>>

ListCount(c) ==
    /\ At(c, "list", "count") /\ live[c]
    /\ page' = [page EXCEPT ![c].total = Cardinality(Matching(Normal(job[c].query)))]
    /\ Goto(c, "fill")
    /\ UNCHANGED <<tables, cache, lists, job, live, row, wrote, lost>>

\* No write ever removes a list.
ListFill(c) ==
    /\ At(c, "list", "fill") /\ live[c]
    /\ LET entry(ttl) == [lists EXCEPT ![Normal(job[c].query)] = [page |-> page[c], ttl |-> ttl]]
       IN  \/ lists' = entry(TRUE)
           \/ "expire" \in Fault /\ lists' = entry(FALSE)
           \/ "redis" \in Fault /\ UNCHANGED lists
    /\ Finish(c, "ok")
    /\ UNCHANGED <<tables, cache, job, live, locals>>

\* The key of a relation is looked up and never written.  The join finds no
\* row, or one that cannot be read.
RelationSelect(c) ==
    /\ At(c, "relation", "start") /\ live[c]
    /\ Finish(c, "internal")
    /\ UNCHANGED <<tables, cache, lists, job, live, locals>>

----------------------------------------------------------------------------
(* create_post, update_post, delete_post *)

CreateUnchecked(c) ==  \* broken: no foreign keys
    /\ At(c, "create", "start")
    /\ IF imgColumn
       THEN \E i \in Id : IsNextId(i) /\ Commit(c, i, job[c].post)
       ELSE UNCHANGED <<log, wrote>>
    /\ Finish(c, "internal")
    /\ UNCHANGED <<imgColumn, refs, cache, lists, job, live, row, page, lost>>
\* INSERT without RETURNING: an error, stored or refused.
CreateInsert(c) ==
    /\ At(c, "create", "start")
    /\ IF imgColumn /\ MayRefer(job[c].post)
       THEN \E i \in Id : IsNextId(i) /\ Commit(c, i, job[c].post)
       ELSE UNCHANGED <<log, wrote>>
    /\ Finish(c, "internal")
    /\ UNCHANGED <<imgColumn, refs, cache, lists, job, live, row, page, lost>>

\* UPDATE without RETURNING: the same, and so never a SET.
UpdateWrite(c) ==
    /\ At(c, "update", "start")
    /\ IF imgColumn /\ job[c].id \in Present /\ MayRefer(job[c].post)
       THEN Commit(c, job[c].id, job[c].post)
       ELSE UNCHANGED <<log, wrote>>
    /\ Finish(c, "internal")
    /\ UNCHANGED <<imgColumn, refs, cache, lists, job, live, row, page, lost>>

DeleteWrite(c) ==
    /\ At(c, "delete", "start")
    /\ IF job[c].id \in Present
       THEN /\ Commit(c, job[c].id, Absent)
            /\ \/ Goto(c, "evict")
               \/ "db" \in Fault /\ Finish(c, "internal")
       ELSE Finish(c, "internal") /\ UNCHANGED <<log, wrote>>
    /\ UNCHANGED <<imgColumn, refs, cache, lists, job, live, row, page, lost>>

DeleteEvict(c) ==
    /\ At(c, "delete", "evict") /\ live[c]
    /\ Del(c, job[c].id)
    /\ Finish(c, "ok")
    /\ UNCHANGED <<tables, lists, job, live, row, page, wrote>>

----------------------------------------------------------------------------
(* Every operation, and what surrounds them *)

Reply(c) ==
    /\ pc[c] = "reply" /\ live[c]
    /\ pc' = [pc EXCEPT ![c] = "done"]
    /\ UNCHANGED <<tables, cache, lists, job, live, locals, outcome>>

DbError(c) ==
    /\ "db" \in Fault /\ live[c]
    /\ \/ pc[c] \in {"select", "page", "count"}
       \/ pc[c] = "start" /\ job[c].op \in {"create", "update", "delete"}
    /\ Finish(c, "internal")
    /\ UNCHANGED <<tables, cache, lists, job, live, locals>>

Drop(c) ==
    /\ "drop" \in Fault /\ live[c] /\ pc[c] # "done"
    /\ live' = [live EXCEPT ![c] = FALSE]
    /\ UNCHANGED <<tables, cache, lists, job, pc, locals, outcome>>

\* A category or a user is deleted by its own service: the foreign key takes
\* its posts in the same transaction, and no entry of the cache goes with them.
RefGone(r) ==
    /\ r \in refs
    /\ refs' = refs \ {r}
    /\ log' = [i \in Id |-> IF i \in Present /\ r \in Refers(Row(i))
                            THEN Append(log[i], Absent) ELSE log[i]]
    /\ UNCHANGED <<imgColumn, cache, lists, job, pc, live, locals, outcome>>

Expire(i) ==
    /\ cache[i] # NoEntry /\ cache[i].ttl
    /\ cache' = [cache EXCEPT ![i] = NoEntry]
    /\ UNCHANGED <<tables, lists, job, pc, live, locals, outcome>>

ExpireList(k) ==
    /\ lists[k] # NoEntry /\ lists[k].ttl
    /\ lists' = [lists EXCEPT ![k] = NoEntry]
    /\ UNCHANGED <<tables, cache, job, pc, live, locals, outcome>>

Get(c)    == GetLookup(c) \/ GetSelect(c) \/ GetFill(c)
List(c)   == ListLookup(c) \/ ListPage(c) \/ ListCount(c) \/ ListFill(c)
Delete(c) == DeleteWrite(c) \/ DeleteEvict(c)

Serve(c) ==
    \/ Get(c) \/ List(c) \/ RelationSelect(c)
    \/ CreateInsert(c) \/ UpdateWrite(c) \/ Delete(c) \/ Reply(c)

\* What happens without any call.
Outside ==
    \/ \E r \in Ref : RefGone(r)
    \/ \E i \in Id : Expire(i)
    \/ \E k \in Keys : ExpireList(k)

Next == Outside \/ \E c \in Call : Serve(c) \/ DbError(c) \/ Drop(c)

Spec == Init /\ [][Next]_vars

FairSpec ==
    /\ Spec
    /\ \A c \in Call : WF_vars(live[c] /\ Serve(c))
    /\ \A i \in Id : WF_vars(Expire(i))
    /\ \A k \in Keys : WF_vars(ExpireList(k))

----------------------------------------------------------------------------
(* Properties *)

Labels == {"start", "select", "fill", "page", "count", "evict", "reply", "done"}

Page == [items : SUBSET (Id \X Post), total : Nat]
Entry == [val : Post, ver : Nat, at : Nat, ttl : BOOLEAN]

\* Every store, and everything a call holds, has the shape the service's types
\* give it.
TypeOK ==
    /\ imgColumn \in BOOLEAN
    /\ log \in [Id -> Seq(Post \cup {Absent})]
    /\ refs \subseteq Ref
    /\ cache \in [Id -> Entry \cup {NoEntry}]
    /\ lists \in [Keys -> [page : Page, ttl : BOOLEAN] \cup {NoEntry}]
    /\ job \in [Call -> Job]
    /\ pc \in [Call -> Labels]
    /\ live \in [Call -> BOOLEAN]
    /\ row \in [Call -> [val : Post \cup {Absent}, ver : Nat]]
    /\ page \in [Call -> Page]
    /\ wrote \in [Call -> Nat]
    /\ lost \in [Call -> BOOLEAN]
    /\ outcome \in [Call -> {"none", "ok", "internal"}]

\* No post outlives its category or its user, whatever create or update was
\* under way when it went.
NoPostWithoutRefs == \A i \in Present : MayRefer(Row(i))

\* Nothing cached before an acknowledged deletion outlives it, unless Redis
\* refused the DEL: the entry is gone, or a read that the deletion overtook
\* between its SELECT and its SET put it there since.  (A cascade is
\* acknowledged to no one.)
AckedDeleteReachesCache ==
    \A c \in Call :
        job[c].op = "delete" /\ outcome[c] = "ok" /\ ~lost[c] =>
            LET e == cache[job[c].id]
            IN  e = NoEntry \/ e.at >= wrote[c]

\* A cached post that has fallen behind, by an update that never reaches the
\* cache, by a cascade or by a lost DEL, does not stay behind; nor does a page
\* with a post that was changed or is gone, which no write removes.
Stale(i) == cache[i] # NoEntry /\ cache[i].ver < Version(i)
PageStale(k) ==
    lists[k] # NoEntry /\ \E item \in lists[k].page.items : Row(item[1]) # item[2]
StaleHeals ==
    /\ \A i \in Id : Stale(i) ~> ~Stale(i)
    /\ \A k \in Keys : PageStale(k) ~> ~PageStale(k)

=============================================================================
