------------------------------- MODULE Paging -------------------------------
(***************************************************************************)
(* The arithmetic of the paged lists (categories, posts, users): an i32    *)
(* page and an i32 page size become the OFFSET and LIMIT of a statement    *)
(* and the number of pages there are.                                      *)
(***************************************************************************)
EXTENDS Integers

CONSTANT MaxInt  \* the largest i32; small in an instance

ASSUME PagingAssumption == MaxInt \in Nat \ {0}

Int32 == -(MaxInt + 1)..MaxInt

\* What the release build's i32 makes of a number out of range.
Wrapped(n) == ((n + MaxInt + 1) % (2 * (MaxInt + 1))) - (MaxInt + 1)

OffsetFromOne(page, size) == Wrapped(page * size)  \* broken: pages from 0
Offset(page, size) == Wrapped((page - 1) * size)

\* An offset below 0 becomes, as u64, one that has no i64: the query builder
\* panics on it, and with it the call.
Panics(q) == Offset(q.page, q.size) < 0

\* The rows of an ordered answer, numbered from 0, that a page shows.
OnPage(q, rank) == LET from == Offset(q.page, q.size)
                   IN  from <= rank /\ rank < from + q.size

\* How many of n rows there are on a page.
RowsOnPage(q, n) ==
    LET left == n - Offset(q.page, q.size)
    IN  IF left < 0 THEN 0 ELSE IF left < q.size THEN left ELSE q.size

\* (total as f64 / size as f64).ceil() as i32
TotalPages(total, size) == (total + size - 1) \div size

\* Whether the page can be asked for without an overflow.
InRange(q) == (q.page - 1) * q.size <= MaxInt

=============================================================================
