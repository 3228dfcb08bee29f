-------------------------- MODULE CategoryService --------------------------
(***************************************************************************)
(* The category service of the gRPC server, with the two stores it keeps   *)
(* in step: the "categories" table of Postgres and the Redis cache.        *)
(*                                                                         *)
(* Every gRPC call runs as a future of its own.  A future gives way at     *)
(* each await, so one action below is what happens between two awaits, or  *)
(* one SQL statement run by Postgres.  The Redis calls do not await: they  *)
(* are part of the step that makes them.                                   *)
(*                                                                         *)
(* The table is kept with the history of each row: log[i] holds the        *)
(* successive values of row i.  The code reads only the last one (Row);    *)
(* the earlier ones, like the components "ver" and "at" of what is read    *)
(* and cached, let the properties say which version a value belongs to.    *)
(***************************************************************************)
EXTENDS Integers, Sequences, FiniteSets, Paging

CONSTANTS
    Call,     \* the gRPC calls that ever arrive; each is handled once
    Job,      \* what a call may ask: a subset of AnyJob
    Id,       \* the ids SERIAL can issue to a category
    Name,     \* the names a category can have
    Search,   \* the search terms of a list request
    NoSearch, \* the empty search term
    Like,     \* Like[s]: the names that match LIKE 's%'
    Absent,   \* the value of a row that is not (or no longer) there
    NoEntry,  \* a key that Redis does not hold
    Fault     \* the faults that may happen

AllFaults == {"db", "redis", "expire", "drop"}

Query == [page : Int32, size : Int32, search : Search]

AnyJob ==
         [op : {"get", "delete"}, id : Id]
    \cup [op : {"update"}, id : Id, name : Name]
    \cup [op : {"create"}, name : Name]
    \cup [op : {"list"}, query : Query]

ASSUME CategoryAssumption ==
    /\ Id \subseteq Nat
    /\ IsFiniteSet(Id)
    /\ Absent \notin Name
    /\ NoSearch \in Search
    /\ Like \in [Search -> SUBSET Name]
    /\ Job \subseteq AnyJob
    /\ Fault \subseteq AllFaults

\* The column is SERIAL: its ids are positive and i32.
ASSUME SerialAssumption == Id \subseteq 1..MaxInt

VARIABLES
    log,      \* log[i]: the values row i of the table has had, oldest first
    cache,    \* cache[i]: the Redis entry "category:id=i", or NoEntry
    lists,    \* lists[k]: the Redis entry "categories:page=..", or NoEntry
    job,      \* job[c]: what call c asks
    pc,       \* pc[c]: the await call c stands at
    live,     \* live[c]: the future of call c has not been dropped
    row,      \* row[c]: the row call c holds, with its version
    page,     \* page[c]: the list call c holds
    wrote,    \* wrote[c]: the version of the row call c's write made, or 0
    lost,     \* lost[c]: Redis did not take call c's update of the cache
    outcome   \* outcome[c]: the gRPC status of call c's answer

stores == <<log, cache, lists>>
vars == <<log, cache, lists, job, pc, live, row, page, wrote, lost, outcome>>

----------------------------------------------------------------------------
(* The table *)

Version(i) == Len(log[i])

Row(i) == IF log[i] = <<>> THEN Absent ELSE log[i][Version(i)]

Present == {i \in Id : Row(i) # Absent}

\* rows_affected() of an UPDATE or DELETE .. WHERE id: the row is there.
AffectsUnchecked(i) == TRUE  \* broken: rows_affected() is not looked at
Affects(i) == Row(i) # Absent

\* The id the SERIAL column issues next: ids grow and are never issued again.
IsNextId(i) == log[i] = <<>> /\ \A j \in Id : j < i => log[j] # <<>>

\* A page or a size that is not positive is put right.
Normal(q) ==
    [page   |-> IF q.page > 0 THEN q.page ELSE 1,
     size   |-> IF q.size > 0 THEN q.size ELSE 10,
     search |-> q.search]

\* The cache key of a list is made of the values put right.
ListKeyWithoutSearch(q) == [Normal(q) EXCEPT !.search = NoSearch]  \* broken
ListKey(q) == Normal(q)

\* The rows a search finds, and the page of them that ORDER BY id, LIMIT and
\* OFFSET select.
Matching(search) ==
    {i \in Present : search = NoSearch \/ Row(i) \in Like[search]}

\* The COUNT beside it has the search, and no limit.
TotalWithoutSearch(q) == Cardinality(Present)  \* broken: counts every row
TotalOf(q) == Cardinality(Matching(q.search))

PageOf(q) ==
    LET found   == Matching(q.search)
        rank(i) == Cardinality({j \in found : j < i})
    IN  {<<i, Row(i)>> : i \in {j \in found : OnPage(q, rank(j))}}

----------------------------------------------------------------------------
(* Initial states: the rows an earlier run left, some of them still cached, *)
(* no call started.                                                         *)

NoRow  == [name |-> Absent, ver |-> 0]
NoPage == [items |-> {}, total |-> 0, itemsAt |-> {}, totalAt |-> {}]

\* The entry of a row that has not changed since it was cached.
Fresh(i) == [name |-> Row(i), ver |-> Version(i), at |-> Version(i), ttl |-> TRUE]

Keys == {ListKey(j.query) : j \in {k \in Job : k.op = "list"}}

Init ==
    /\ log \in [Id -> {<<>>} \cup {<<n>> : n \in Name}]
    /\ \A i, j \in Id : j < i /\ log[i] # <<>> => log[j] # <<>>
    /\ \E kept \in SUBSET Present :
          cache = [i \in Id |-> IF i \in kept THEN Fresh(i) ELSE NoEntry]
    /\ lists = [k \in Keys |-> NoEntry]
    /\ job \in [Call -> Job]
    /\ pc = [c \in Call |-> "start"]
    /\ live = [c \in Call |-> TRUE]
    /\ row = [c \in Call |-> NoRow]
    /\ page = [c \in Call |-> NoPage]
    /\ wrote = [c \in Call |-> 0]
    /\ lost = [c \in Call |-> FALSE]
    /\ outcome = [c \in Call |-> "none"]

----------------------------------------------------------------------------
(* What steps are made of *)

At(c, op, label) == job[c].op = op /\ pc[c] = label

Goto(c, label) ==
    /\ pc' = [pc EXCEPT ![c] = label]
    /\ UNCHANGED outcome

Finish(c, status) ==
    /\ pc' = [pc EXCEPT ![c] = "reply"]
    /\ outcome' = [outcome EXCEPT ![c] = status]

\* A statement of call c gives row i its next value.
Commit(c, i, value) ==
    /\ log' = [log EXCEPT ![i] = Append(@, value)]
    /\ wrote' = [wrote EXCEPT ![c] = Version(i) + 1]

\* The calls whose write is in the table: which snapshot a statement reads.
Committed == {c \in Call : wrote[c] > 0}

\* Call c takes row i from the table.
HoldCached(c, i) ==  \* broken: goes by way of the cache
    row' = [row EXCEPT ![c] =
        IF cache[i] # NoEntry
        THEN [name |-> cache[i].name, ver |-> cache[i].ver]
        ELSE [name |-> Row(i), ver |-> Version(i)]]
Hold(c, i) == row' = [row EXCEPT ![c] = [name |-> Row(i), ver |-> Version(i)]]

CacheSetForGood(c, i) ==  \* broken: SET, and no EXPIRE
    /\ cache' = [cache EXCEPT ![i] = [name |-> row[c].name, ver |-> row[c].ver,
                                      at |-> Version(i), ttl |-> FALSE]]
    /\ UNCHANGED lost
\* set_to_cache: SET and then EXPIRE.  No connection: nothing is stored.  The
\* two commands are no transaction: SET can land without EXPIRE.
CacheSet(c, i) ==
    LET entry(ttl) == [name |-> row[c].name, ver |-> row[c].ver,
                       at |-> Version(i), ttl |-> ttl]
    IN  \/ cache' = [cache EXCEPT ![i] = entry(TRUE)] /\ UNCHANGED lost
        \/ /\ "expire" \in Fault
           /\ cache' = [cache EXCEPT ![i] = entry(FALSE)]
           /\ UNCHANGED lost
        \/ /\ "redis" \in Fault
           /\ lost' = [lost EXCEPT ![c] = TRUE]
           /\ UNCHANGED cache

CacheDelSkipped(c, i) == UNCHANGED <<cache, lost>>  \* broken: no DEL
\* delete_from_cache: a failure is only logged.
CacheDel(c, i) ==
    \/ cache' = [cache EXCEPT ![i] = NoEntry] /\ UNCHANGED lost
    \/ /\ "redis" \in Fault
       /\ lost' = [lost EXCEPT ![c] = TRUE]
       /\ UNCHANGED cache

----------------------------------------------------------------------------
(* get_category *)

\* The cached row is the answer; with no entry, or no Redis, ask the table.
GetLookup(c) ==
    /\ At(c, "get", "start") /\ live[c]
    /\ LET e == cache[job[c].id] IN
        \/ /\ e # NoEntry
           /\ row' = [row EXCEPT ![c] = [name |-> e.name, ver |-> e.ver]]
           /\ Finish(c, "ok")
        \/ /\ e = NoEntry \/ "redis" \in Fault
           /\ Goto(c, "select")
           /\ UNCHANGED row
    /\ UNCHANGED <<stores, job, live, page, wrote, lost>>

GetSelectAnyway(c) ==  \* broken: a missing row is cached and answered
    /\ At(c, "get", "select") /\ live[c]
    /\ Hold(c, job[c].id) /\ Goto(c, "fill")
    /\ UNCHANGED <<stores, job, live, page, wrote, lost>>
\* The SELECT of find_by_id.
GetSelect(c) ==
    /\ At(c, "get", "select") /\ live[c]
    /\ IF Row(job[c].id) # Absent
       THEN Hold(c, job[c].id) /\ Goto(c, "fill")
       ELSE Finish(c, "not_found") /\ UNCHANGED row
    /\ UNCHANGED <<stores, job, live, page, wrote, lost>>

\* The SELECT has come back with a row: cache it.
GetFill(c) ==
    /\ At(c, "get", "fill") /\ live[c]
    /\ CacheSet(c, job[c].id)
    /\ Finish(c, "ok")
    /\ UNCHANGED <<log, lists, job, live, row, page, wrote>>

----------------------------------------------------------------------------
(* get_categories *)

\* A list that is not cached is asked for, unless its offset makes the handler
\* panic: then the call is gone, as when it is dropped.
ListLookup(c) ==
    /\ At(c, "list", "start") /\ live[c]
    /\ LET e == lists[ListKey(job[c].query)] IN
        \/ /\ e # NoEntry
           /\ page' = [page EXCEPT ![c] = e.page]
           /\ Finish(c, "ok")
           /\ UNCHANGED live
        \/ /\ e = NoEntry \/ "redis" \in Fault
           /\ IF Panics(Normal(job[c].query))
              THEN live' = [live EXCEPT ![c] = FALSE] /\ UNCHANGED <<pc, outcome>>
              ELSE Goto(c, "page") /\ UNCHANGED live
           /\ UNCHANGED page
    /\ UNCHANGED <<stores, job, row, wrote, lost>>

\* find_all is two statements: the page, and then the count of all matches.
ListPage(c) ==
    /\ At(c, "list", "page") /\ live[c]
    /\ page' = [page EXCEPT ![c] = [@ EXCEPT !.items = PageOf(Normal(job[c].query)),
                                            !.itemsAt = Committed]]
    /\ Goto(c, "count")
    /\ UNCHANGED <<stores, job, live, row, wrote, lost>>

ListCount(c) ==
    /\ At(c, "list", "count") /\ live[c]
    /\ page' = [page EXCEPT ![c] = [@ EXCEPT !.total = TotalOf(Normal(job[c].query)),
                                            !.totalAt = Committed]]
    /\ Goto(c, "fill")
    /\ UNCHANGED <<stores, job, live, row, wrote, lost>>

\* The list is cached for five minutes, and no write ever removes it.
ListFill(c) ==
    /\ At(c, "list", "fill") /\ live[c]
    /\ LET k == ListKey(job[c].query)
           entry(ttl) == [page |-> page[c], ttl |-> ttl]
       IN  \/ lists' = [lists EXCEPT ![k] = entry(TRUE)]
           \/ "expire" \in Fault /\ lists' = [lists EXCEPT ![k] = entry(FALSE)]
           \/ "redis" \in Fault /\ UNCHANGED lists
    /\ Finish(c, "ok")
    /\ UNCHANGED <<log, cache, job, live, row, page, wrote, lost>>

----------------------------------------------------------------------------
(* create_category *)

\* INSERT without RETURNING, run by fetch_one: the row is stored, no row comes
\* back, and the service reports the RowNotFound it got.  With no id left in the
\* sequence the statement fails and stores nothing.
CreateInsert(c) ==
    /\ At(c, "create", "start")
    /\ \/ \E i \in Id : IsNextId(i) /\ Commit(c, i, job[c].name)
       \/ (\A i \in Id : ~IsNextId(i)) /\ UNCHANGED <<log, wrote>>
    /\ Finish(c, "internal")
    /\ UNCHANGED <<cache, lists, job, live, row, page, lost>>

----------------------------------------------------------------------------
(* update_category *)

\* UPDATE .. WHERE id.  With "db" the statement may run and its result be lost.
UpdateWrite(c) ==
    /\ At(c, "update", "start")
    /\ IF Affects(job[c].id)
       THEN /\ Commit(c, job[c].id, job[c].name)
            /\ \/ Goto(c, "reread")
               \/ "db" \in Fault /\ Finish(c, "internal")
       ELSE Finish(c, "internal") /\ UNCHANGED <<log, wrote>>
    /\ UNCHANGED <<cache, lists, job, live, row, page, lost>>

UpdateEcho(c) ==  \* broken: answers with the name asked for
    /\ At(c, "update", "reread") /\ live[c]
    /\ row' = [row EXCEPT ![c] = [name |-> job[c].name,
                                  ver |-> Version(job[c].id)]]
    /\ Goto(c, "store")
    /\ UNCHANGED <<stores, job, live, page, wrote, lost>>
\* The row is read back by a statement of its own; it may be gone by then.
UpdateReread(c) ==
    /\ At(c, "update", "reread") /\ live[c]
    /\ IF Row(job[c].id) # Absent
       THEN Hold(c, job[c].id) /\ Goto(c, "store")
       ELSE Finish(c, "internal") /\ UNCHANGED row
    /\ UNCHANGED <<stores, job, live, page, wrote, lost>>

\* The row read back replaces the cached one.
UpdateStore(c) ==
    /\ At(c, "update", "store") /\ live[c]
    /\ CacheSet(c, job[c].id)
    /\ Finish(c, "ok")
    /\ UNCHANGED <<log, lists, job, live, row, page, wrote>>

----------------------------------------------------------------------------
(* delete_category *)

DeleteWrite(c) ==
    /\ At(c, "delete", "start")
    /\ IF Affects(job[c].id)
       THEN /\ Commit(c, job[c].id, Absent)
            /\ \/ Goto(c, "evict")
               \/ "db" \in Fault /\ Finish(c, "internal")
       ELSE Finish(c, "internal") /\ UNCHANGED <<log, wrote>>
    /\ UNCHANGED <<cache, lists, job, live, row, page, lost>>

DeleteEvict(c) ==
    /\ At(c, "delete", "evict") /\ live[c]
    /\ CacheDel(c, job[c].id)
    /\ Finish(c, "ok")
    /\ UNCHANGED <<log, lists, job, live, row, page, wrote>>

----------------------------------------------------------------------------
(* Every operation *)

\* complete_tracing has the metrics lock; the answer goes out.
Reply(c) ==
    /\ pc[c] = "reply" /\ live[c]
    /\ pc' = [pc EXCEPT ![c] = "done"]
    /\ UNCHANGED <<stores, job, live, row, page, wrote, lost, outcome>>

\* A statement fails and changes nothing (no connection, pool timeout).
DbError(c) ==
    /\ "db" \in Fault /\ live[c]
    /\ \/ pc[c] \in {"select", "page", "count", "reread"}
       \/ pc[c] = "start" /\ job[c].op \in {"create", "update", "delete"}
    /\ Finish(c, "internal")
    /\ UNCHANGED <<stores, job, live, row, page, wrote, lost>>

\* The future is dropped at the await it stands at: its caller went away, or
\* the server stopped (a crash drops every future in flight; both stores stay).
\* A write already sent to Postgres ("start") may still run.
Drop(c) ==
    /\ "drop" \in Fault /\ live[c] /\ pc[c] # "done"
    /\ live' = [live EXCEPT ![c] = FALSE]
    /\ UNCHANGED <<stores, job, pc, row, page, wrote, lost, outcome>>

\* Redis drops an entry whose time to live is over.
ExpireRow(i) ==
    /\ cache[i] # NoEntry /\ cache[i].ttl
    /\ cache' = [cache EXCEPT ![i] = NoEntry]
    /\ UNCHANGED <<log, lists, job, pc, live, row, page, wrote, lost, outcome>>

ExpireList(k) ==
    /\ lists[k] # NoEntry /\ lists[k].ttl
    /\ lists' = [lists EXCEPT ![k] = NoEntry]
    /\ UNCHANGED <<log, cache, job, pc, live, row, page, wrote, lost, outcome>>

----------------------------------------------------------------------------

Get(c)    == GetLookup(c) \/ GetSelect(c) \/ GetFill(c)
List(c)   == ListLookup(c) \/ ListPage(c) \/ ListCount(c) \/ ListFill(c)
Update(c) == UpdateWrite(c) \/ UpdateReread(c) \/ UpdateStore(c)
Delete(c) == DeleteWrite(c) \/ DeleteEvict(c)

\* A step of the handler of call c, or of Postgres for it.
Serve(c) ==
    \/ Get(c) \/ List(c) \/ CreateInsert(c) \/ Update(c) \/ Delete(c)
    \/ Reply(c)

Next ==
    \/ \E c \in Call : Serve(c) \/ DbError(c) \/ Drop(c)
    \/ \E i \in Id : ExpireRow(i)
    \/ \E k \in Keys : ExpireList(k)

Spec == Init /\ [][Next]_vars


----------------------------------------------------------------------------
(* Properties *)

Labels == {"start", "select", "fill", "page", "count", "reread", "store",
           "evict", "reply", "done"}

Items == Id \X Name

Page == [items : SUBSET Items, total : Nat,
         itemsAt : SUBSET Call, totalAt : SUBSET Call]

Entry == [name : Name, ver : Nat, at : Nat, ttl : BOOLEAN]
ListEntry == [page : Page, ttl : BOOLEAN]

\* Every store, and everything a call holds, has the shape the service's types
\* give it: in particular no name that is not a name is cached or listed.
TypeOK ==
    /\ log \in [Id -> Seq(Name \cup {Absent})]
    /\ cache \in [Id -> Entry \cup {NoEntry}]
    /\ lists \in [Keys -> ListEntry \cup {NoEntry}]
    /\ job \in [Call -> Job]
    /\ pc \in [Call -> Labels]
    /\ live \in [Call -> BOOLEAN]
    /\ row \in [Call -> [name : Name \cup {Absent}, ver : Nat]]
    /\ page \in [Call -> Page]
    /\ wrote \in [Call -> Nat]
    /\ lost \in [Call -> BOOLEAN]
    /\ outcome \in [Call -> {"none", "ok", "not_found", "internal"}]

\* The value v was in row i at some time.
WasStored(i, v) == \E n \in 1..Version(i) : log[i][n] = v

\* However calls, faults and expiries interleave, what the service holds,
\* caches or answers for a category is a name that very row had at the version
\* it is labelled with, and what it lists are rows the table once had: no call
\* mixes two rows, or the cache of one with the value of another.
AnswersWereStored ==
    /\ \A i \in Id : cache[i] # NoEntry =>
          cache[i].ver \in 1..Version(i) /\ log[i][cache[i].ver] = cache[i].name
    /\ \A c \in Call : row[c] # NoRow =>
          LET i == job[c].id
          IN  row[c].ver \in 1..Version(i) /\ log[i][row[c].ver] = row[c].name
    /\ \A k \in Keys : lists[k] # NoEntry =>
          \A e \in lists[k].page.items : WasStored(e[1], e[2])
    /\ \A c \in Call : \A e \in page[c].items : WasStored(e[1], e[2])

\* A row that was deleted is never there again, whatever updates were on their
\* way to it: update_category never brings a category back.
DeletedStaysDeleted ==
    \A i \in Id : \A n \in 1..Version(i) - 1 : log[i][n] # Absent

\* Of all the calls that delete one category at most one is told it did.
AtMostOneDeleteSucceeds ==
    \A c, d \in Call :
        /\ job[c].op = "delete" /\ outcome[c] = "ok"
        /\ job[d].op = "delete" /\ outcome[d] = "ok"
        /\ job[c].id = job[d].id
        => c = d

\* An update that answers "ok" answers with the row as it stood after its own
\* write: never with an older name, from the cache or from before the UPDATE.
UpdateAnswerIsFresh ==
    \A c \in Call : job[c].op = "update" /\ outcome[c] = "ok" =>
        wrote[c] > 0 /\ row[c].ver >= wrote[c]

\* Nothing cached before an acknowledged update or delete outlives it, unless
\* Redis refused: the entry is gone, or was stored after that write.
AckedWriteReachesCache ==
    \A c \in Call :
        job[c].op \in {"update", "delete"} /\ outcome[c] = "ok" /\ ~lost[c] =>
            LET e == cache[job[c].id]
            IN  e = NoEntry \/ e.at >= wrote[c]

\* A list, whether read or cached under a key, answers the request it is given
\* to: it has no more rows than asked for and only rows the search finds.
ListAnswersItsQuery ==
    \A c \in Call : job[c].op = "list" /\ outcome[c] = "ok" =>
        LET q == Normal(job[c].query)
        IN  /\ Cardinality(page[c].items) <= q.size
            /\ \A e \in page[c].items :
                  q.search = NoSearch \/ e[2] \in Like[q.search]

\* The two statements of a list agree when no write came between them: the
\* page has as many rows as the total leaves for it, down to the last page that
\* the total announces and beyond it, as long as its offset is an i32.  (When a
\* write did come between, a page can list rows the total does not count; and a
\* page so far out that the offset wraps may show the rows of another.)
ListTotalFitsPage ==
    \A c \in Call : job[c].op = "list" /\ outcome[c] = "ok" =>
        LET q    == Normal(job[c].query)
            left == page[c].total - (q.page - 1) * q.size
            n    == Cardinality(page[c].items)
        IN  page[c].itemsAt = page[c].totalAt
            /\ (InRange(q) \/ q.page <= TotalPages(page[c].total, q.size)) =>
                n = IF left < 0 THEN 0 ELSE IF left < q.size THEN left ELSE q.size

\* A cached category or page that has fallen behind the table does not stay
\* behind: its time to live ends.  For a page, which no write removes, nothing
\* else ends it.  (Either may stay when SET lands without EXPIRE.)
Stale(i) == cache[i] # NoEntry /\ cache[i].ver < Version(i)
PageStale(k) ==
    /\ lists[k] # NoEntry
    /\ lists[k].page.items # PageOf(k) \/ lists[k].page.total # TotalOf(k)
StaleHeals ==
    /\ \A i \in Id : Stale(i) ~> ~Stale(i)
    /\ \A k \in Keys : PageStale(k) ~> ~PageStale(k)

\* The route documents one answer to a create: 200, with the category made.
CreateAnswersCreated ==
    \A c \in Call : job[c].op = "create" /\ wrote[c] > 0 /\ pc[c] = "done" =>
        outcome[c] = "ok"

====
