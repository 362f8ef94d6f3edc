--------------------------- MODULE ListTransactions ---------------------------
(***************************************************************************)
(* GET /transactions: a client walks the pages of the list                 *)
(* (application/use-cases/list-transactions.ts, the queries list and count  *)
(* of the PostgreSQL repository) while other requests commit transactions.  *)
(*                                                                         *)
(* A page is an OFFSET into ORDER BY created_at DESC, id DESC.  created_at  *)
(* is read from a replica's clock before the transaction commits, so a new  *)
(* row may appear anywhere in that order; a row is never changed or deleted. *)
(* Each request runs its two queries at once on two connections, and each   *)
(* query sees the rows committed when it runs.                              *)
(***************************************************************************)
EXTENDS Integers, FiniteSets

CONSTANTS
  Transactions,  \* the ids that may be committed, as integers: ids are ordered
  Times,         \* the values of created_at
  Limits,        \* the page sizes a client may ask for
  MaxPage        \* paginationSchema: the largest page

ASSUME ListAssumption ==
  /\ IsFiniteSet(Transactions) /\ Transactions \subseteq Int
  /\ Times \subseteq Nat
  /\ Limits \subseteq Nat \ {0}
  /\ MaxPage \in Nat \ {0}

VARIABLES
  createdAt,  \* the table: created_at of every committed transaction
  walk,       \* the client
  request     \* its request in execution

vars == <<createdAt, walk, request>>

NotCommitted == -1

Committed == {t \in Transactions : createdAt[t] # NotCommitted}

-------------------------------------------------------------------------------
(* The queries                                                              *)

\* t comes before u in ORDER BY created_at DESC, id DESC.
Before(t, u) ==
  \/ createdAt[t] > createdAt[u]
  \/ createdAt[t] = createdAt[u] /\ t > u

\* How many committed rows come before t.
Position(t) == Cardinality({u \in Committed : Before(u, t)})

\* Mutant: LIMIT one short.
ListOneShort(offset, limit) ==
  {t \in Committed : Position(t) \in offset..(offset + limit - 2)}

\* list(offset, limit)
List(offset, limit) ==
  {t \in Committed : Position(t) \in offset..(offset + limit - 1)}

\* Mutant: pages counted from zero.
OffsetFromZero(page, limit) == page * limit

Offset(page, limit) == (page - 1) * limit

\* Mutant: the last, incomplete page is forgotten.
FullPages(total, limit) == total \div limit

\* Math.ceil(total / limit)
TotalPages(total, limit) == (total + limit - 1) \div limit

-------------------------------------------------------------------------------
NoResult == -1

\* data and total: the results of the two queries, once they have run; known: the
\* rows committed when the request began.
NoRequest == [active |-> FALSE, listed |-> FALSE, data |-> {}, total |-> NoResult,
              known |-> {}]

\* seen: what the pages have shown; owed: the rows committed when the walk began;
\* late: the rows committed while its last request was in flight.  A client stops
\* after a page with fewer rows than it asked for, or after the last of totalPages.
Walk(stop, limit) ==
  [state |-> "walking", stop |-> stop, page |-> 1, limit |-> limit, seen |-> {},
   owed |-> Committed, late |-> 0]

WalkStates == {"idle", "walking", "done", "refused"}

Stops == {"short_page", "total_pages"}

Init ==
  /\ createdAt = [t \in Transactions |-> NotCommitted]
  /\ walk = [Walk("short_page", 1) EXCEPT !.state = "idle"]
  /\ request = NoRequest

\* POST /transactions commits a row, whose created_at was read before.
Commit(t) ==
  /\ createdAt[t] = NotCommitted
  /\ \E at \in Times : createdAt' = [createdAt EXCEPT ![t] = at]
  /\ UNCHANGED <<walk, request>>

\* External: the client begins a walk.
StartWalk ==
  /\ ~request.active
  /\ walk.state # "walking"
  /\ \E stop \in Stops, limit \in Limits : walk' = Walk(stop, limit)
  /\ UNCHANGED <<createdAt, request>>

\* The route parses the page and calls execute(page, limit), which starts both
\* queries.
Execute ==
  /\ walk.state = "walking"
  /\ ~request.active
  /\ walk.page <= MaxPage
  /\ request' = [NoRequest EXCEPT !.active = TRUE, !.known = Committed]
  /\ UNCHANGED <<createdAt, walk>>

\* paginationSchema refuses the page: 400.
PageRefused ==
  /\ walk.state = "walking"
  /\ walk.page > MaxPage
  /\ walk' = [walk EXCEPT !.state = "refused"]
  /\ UNCHANGED <<createdAt, request>>

ListRuns ==
  /\ request.active
  /\ ~request.listed
  /\ request' = [request EXCEPT !.listed = TRUE,
                   !.data = List(Offset(walk.page, walk.limit), walk.limit)]
  /\ UNCHANGED <<createdAt, walk>>

\* Mutant: COUNT over the rows of the page.
CountPage ==
  /\ request.active
  /\ request.total = NoResult
  /\ request' = [request EXCEPT !.total =
                   Cardinality(List(Offset(walk.page, walk.limit), walk.limit))]
  /\ UNCHANGED <<createdAt, walk>>

\* count()
CountRuns ==
  /\ request.active
  /\ request.total = NoResult
  /\ request' = [request EXCEPT !.total = Cardinality(Committed)]
  /\ UNCHANGED <<createdAt, walk>>

\* Either query rejects, and Promise.all with it: 500, and the client asks for the
\* page again.
QueryFails ==
  /\ request.active
  /\ request' = NoRequest
  /\ UNCHANGED <<createdAt, walk>>

\* The last page, as the client's rule has it.
IsLast ==
  IF walk.stop = "short_page"
    THEN Cardinality(request.data) < walk.limit
    ELSE walk.page >= TotalPages(request.total, walk.limit)

\* Both queries have run: the response reaches the client.
Respond ==
  /\ request.active
  /\ request.listed
  /\ request.total # NoResult
  /\ walk' = [walk EXCEPT !.seen = @ \cup request.data,
                          !.late = Cardinality(Committed \ request.known),
                          !.page = IF IsLast THEN @ ELSE @ + 1,
                          !.state = IF IsLast THEN "done" ELSE @]
  /\ request' = NoRequest
  /\ UNCHANGED createdAt

Next ==
  \/ \E t \in Transactions : Commit(t)
  \/ StartWalk
  \/ Execute
  \/ PageRefused
  \/ ListRuns
  \/ CountRuns
  \/ QueryFails
  \/ Respond

Spec == Init /\ [][Next]_vars

-------------------------------------------------------------------------------
(* Properties                                                               *)

TypeOK ==
  /\ createdAt \in [Transactions -> Times \cup {NotCommitted}]
  /\ walk \in [state : WalkStates, stop : Stops, page : Nat \ {0}, limit : Nat \ {0},
               seen : SUBSET Transactions, owed : SUBSET Transactions, late : Nat]
  /\ request \in [active : BOOLEAN, listed : BOOLEAN, data : SUBSET Transactions,
                  total : Nat \cup {NoResult}, known : SUBSET Transactions]

\* The rows of the pages already read.
Read == (walk.page - 1) * walk.limit

\* Insertions only push rows towards later pages: a row that was committed when the
\* walk began and has not been shown lies after every page already read, and after
\* the page just listed unless it is in it.
NothingSlipsBack ==
  walk.state = "walking" =>
    \A t \in walk.owed \ walk.seen :
      /\ Position(t) >= Read
      /\ request.listed => t \in request.data \/ Position(t) >= Read + walk.limit

\* The results of a request lie between its beginning and now, and a request belongs
\* to a walk, at a page that was accepted.
ResultsAreOfThisRequest ==
  /\ walk.owed \subseteq Committed
  /\ request.active \/ request = NoRequest
  /\ request.active => /\ walk.state = "walking"
                       /\ walk.page <= MaxPage
                       /\ request.known \subseteq Committed
  /\ request.data \subseteq Committed
  /\ request.total # NoResult
       => request.total \in Cardinality(request.known)..Cardinality(Committed)

\* The inductive invariant of the walk: list() may repeat a row on a later page, it
\* never moves one to a page that has already been read.
ListInvariant == TypeOK /\ ResultsAreOfThisRequest /\ NothingSlipsBack

\* Rows committed while the request was in flight.
Growth == Cardinality(Committed \ request.known)

\* data and total come from two queries: they describe the same table up to the rows
\* that were committed while the request was in flight.
TotalMatchesPage ==
  (request.listed /\ request.total # NoResult) =>
    LET shown == Read + Cardinality(request.data)
    IN  /\ request.data # {} => request.total >= shown - Growth
        /\ Cardinality(request.data) < walk.limit => request.total <= shown + Growth

\* A client that reads until a page is not full has seen every transaction committed
\* before it began.  One that trusts totalPages may miss some, because count() may
\* have run before list(): at most as many as were committed during its last request.
WalkMissesNothing ==
  walk.state = "done" =>
    CASE walk.stop = "short_page"  -> walk.owed \subseteq walk.seen
      [] walk.stop = "total_pages" -> Cardinality(walk.owed \ walk.seen) <= walk.late
===============================================================================
