------------------------- MODULE ListTransactionsProofs -------------------------
(***************************************************************************)
(* The walk through the pages of GET /transactions for any number of rows,   *)
(* timestamps, page sizes and concurrent commits: what a page shows of an     *)
(* ordered table, and what insertions do to the pages that are still to come. *)
(***************************************************************************)
EXTENDS ListTransactions, FiniteSetTheorems, WellFoundedInduction, TLAPS

TableTypeOK == createdAt \in [Transactions -> Times \cup {NotCommitted}]

\* The rows that come before t.
Predecessors(t) == {u \in Committed : Before(u, t)}

--------------------------------------------------------------------------------
(* ORDER BY created_at DESC, id DESC                                          *)

\* Ids and times of committed rows are integers.
LEMMA RowsAreOrdered ==
  ASSUME TableTypeOK, NEW t \in Committed
  PROVE  t \in Int /\ createdAt[t] \in Int
  <1>1. t \in Transactions /\ createdAt[t] \in Times
    BY DEF TableTypeOK, Committed
  <1>2. Transactions \subseteq Int /\ Times \subseteq Int
    BY ListAssumption
  <1> QED
    BY <1>1, <1>2, Zenon

\* The order is strict and total.
LEMMA BeforeIsStrictTotal ==
  ASSUME TableTypeOK, NEW t \in Committed, NEW u \in Committed, NEW v \in Committed
  PROVE  /\ ~Before(t, t)
         /\ Before(t, u) => ~Before(u, t)
         /\ t # u => Before(t, u) \/ Before(u, t)
         /\ Before(t, u) /\ Before(u, v) => Before(t, v)
  <1>1. /\ t \in Int /\ createdAt[t] \in Int
        /\ u \in Int /\ createdAt[u] \in Int
        /\ v \in Int /\ createdAt[v] \in Int
    BY RowsAreOrdered
  <1> QED
    BY <1>1 DEF Before

\* Sets of rows are finite.
LEMMA RowsAreFinite ==
  ASSUME NEW S, S \subseteq Transactions
  PROVE  IsFiniteSet(S) /\ Cardinality(S) \in Nat
  BY ListAssumption, FS_Subset, FS_CardinalityType

\* A part of a set of rows has fewer elements.
LEMMA SmallerSet ==
  ASSUME NEW S, NEW T, S \subseteq Transactions, T \subseteq S
  PROVE  /\ Cardinality(T) <= Cardinality(S)
         /\ T # S => Cardinality(T) < Cardinality(S)
  <1>1. IsFiniteSet(S) /\ Cardinality(S) \in Nat /\ Cardinality(T) \in Nat
    BY RowsAreFinite
  <1>2. Cardinality(T) <= Cardinality(S) /\ (Cardinality(S) = Cardinality(T) => S = T)
    BY <1>1, FS_Subset
  <1> QED
    BY <1>1, <1>2

\* Disjoint sets of rows add up.
LEMMA DisjointSets ==
  ASSUME NEW S, NEW T, S \subseteq Transactions, T \subseteq Transactions, S \cap T = {}
  PROVE  Cardinality(S \cup T) = Cardinality(S) + Cardinality(T)
  <1>1. /\ IsFiniteSet(S) /\ Cardinality(S) \in Nat
        /\ IsFiniteSet(T) /\ Cardinality(T) \in Nat
    BY RowsAreFinite
  <1>2. Cardinality(S \cup T) = Cardinality(S) + Cardinality(T) - Cardinality(S \cap T)
    BY <1>1, FS_Union
  <1>3. Cardinality(S \cap T) = 0
    BY FS_EmptySet
  <1> QED
    BY <1>1, <1>2, <1>3

\* The table holds only ids that may be committed.
LEMMA CommittedRows == Committed \subseteq Transactions
  BY DEF Committed

\* A position is a natural number.
LEMMA PositionIsNat == \A t : Position(t) \in Nat /\ Position(t) = Cardinality(Predecessors(t))
  <1> TAKE t
  <1>1. Predecessors(t) \subseteq Transactions
    BY DEF Predecessors, Committed
  <1> QED
    BY <1>1, RowsAreFinite DEF Position, Predecessors

\* Earlier rows have smaller positions, and fewer predecessors.
LEMMA PositionsFollowOrder ==
  ASSUME TableTypeOK, NEW t \in Committed, NEW u \in Committed, Before(u, t)
  PROVE  /\ Predecessors(u) \subseteq Predecessors(t)
         /\ Predecessors(u) # Predecessors(t)
         /\ Position(u) < Position(t)
  <1>1. Predecessors(u) \subseteq Predecessors(t)
    BY BeforeIsStrictTotal DEF Predecessors
  <1>2. u \in Predecessors(t) /\ u \notin Predecessors(u)
    BY BeforeIsStrictTotal DEF Predecessors
  <1>3. Predecessors(t) \subseteq Transactions
    BY DEF Predecessors, Committed
  <1> QED
    BY <1>1, <1>2, <1>3, SmallerSet, PositionIsNat

\* So positions order the rows.
LEMMA OrderFollowsPositions ==
  ASSUME TableTypeOK, NEW t \in Committed, NEW u \in Committed
  PROVE  /\ Position(u) < Position(t) => Before(u, t)
         /\ Position(u) = Position(t) => u = t
  <1>1. Before(t, u) => Position(t) < Position(u)
    BY PositionsFollowOrder
  <1>2. Before(u, t) => Position(u) < Position(t)
    BY PositionsFollowOrder
  <1>3. u = t \/ Before(u, t) \/ Before(t, u)
    BY BeforeIsStrictTotal
  <1> QED
    BY <1>1, <1>2, <1>3, PositionIsNat

\* A set of rows has a first one.
LEMMA FirstRow ==
  ASSUME TableTypeOK, NEW M, M \subseteq Committed, M # {}
  PROVE  \E t \in M : \A u \in M : ~Before(u, t)
  <1> DEFINE T == {Predecessors(t) : t \in M}
             R == StrictSubsetOrdering(Transactions)
             S == FiniteSubsetsOf(Transactions)
  <1>1. T \subseteq S /\ T # {}
    <2>1. ASSUME NEW t \in M PROVE Predecessors(t) \in S
      <3>1. Predecessors(t) \subseteq Transactions
        BY DEF Predecessors, Committed
      <3> QED
        BY <3>1, RowsAreFinite DEF FiniteSubsetsOf
    <2> QED
      BY <2>1
  <1>2. IsWellFoundedOn(R, S)
    BY FS_StrictSubsetOrderingWellFounded
  <1> HIDE DEF T, R, S
  <1>3. PICK x \in T : \A y \in T : ~(<<y, x>> \in R)
    BY <1>1, <1>2, WFMin
  <1>4. PICK t \in M : x = Predecessors(t)
    BY <1>3 DEF T
  <1>5. ASSUME NEW u \in M, Before(u, t) PROVE FALSE
    <2>1. Predecessors(u) \subseteq Predecessors(t) /\ Predecessors(u) # Predecessors(t)
      BY <1>5, PositionsFollowOrder
    <2>2. Predecessors(u) \subseteq Transactions /\ Predecessors(t) \subseteq Transactions
      BY DEF Predecessors, Committed
    <2>3. <<Predecessors(u), Predecessors(t)>> \in R
      BY <2>1, <2>2 DEF R, StrictSubsetOrdering
    <2>4. Predecessors(u) \in T
      BY DEF T
    <2> QED
      BY <1>3, <1>4, <2>3, <2>4
  <1> QED
    BY <1>5

\* Rows that all lie at position o or later leave room for o rows before them.
LEMMA RoomBefore ==
  ASSUME TableTypeOK, NEW M, M \subseteq Committed, M # {}, NEW o \in Nat,
         \A t \in M : Position(t) >= o
  PROVE  o + Cardinality(M) <= Cardinality(Committed)
  <1>1. PICK t \in M : \A u \in M : ~Before(u, t)
    BY FirstRow
  <1>2. Predecessors(t) \cap M = {}
    BY <1>1 DEF Predecessors
  <1>3. Predecessors(t) \subseteq Committed
    BY DEF Predecessors
  <1>4. Cardinality(Predecessors(t) \cup M) = Position(t) + Cardinality(M)
    BY <1>2, <1>3, CommittedRows, DisjointSets, PositionIsNat
  <1>5. Cardinality(Predecessors(t) \cup M) <= Cardinality(Committed)
    BY <1>3, CommittedRows, SmallerSet
  <1>6. /\ Position(t) \in Nat /\ Cardinality(M) \in Nat /\ Cardinality(Committed) \in Nat
        /\ Position(t) >= o
    BY CommittedRows, RowsAreFinite, PositionIsNat
  <1> QED
    BY <1>4, <1>5, <1>6

\* At most o rows lie before position o.
LEMMA RowsBefore ==
  ASSUME TableTypeOK, NEW o \in Nat
  PROVE  Cardinality({t \in Committed : Position(t) < o}) <= o
  <1> DEFINE P == {t \in Committed : Position(t) < o}
             f == [t \in P |-> Position(t)]
  <1>1. IsFiniteSet(P) /\ Cardinality(P) \in Nat
    BY CommittedRows, RowsAreFinite
  <1>2. IsFiniteSet(0..(o - 1)) /\ Cardinality(0..(o - 1)) = o
    BY FS_Interval
  <1>3. f \in [P -> 0..(o - 1)]
    BY PositionIsNat
  <1>4. ASSUME Cardinality(P) > o PROVE FALSE
    <2> DEFINE T == 0..(o - 1)
    <2>1. IsFiniteSet(T) /\ Cardinality(T) < Cardinality(P) /\ f \in [P -> T]
      BY <1>1, <1>2, <1>3, <1>4
    <2> HIDE DEF P, f, T
    <2>2. PICK x \in P, y \in P : x # y /\ f[x] = f[y]
      BY <1>1, <2>1, FS_PigeonHole
    <2>3. x \in Committed /\ y \in Committed /\ Position(x) = Position(y)
      BY <2>2 DEF P, f
    <2> QED
      BY <2>2, <2>3, OrderFollowsPositions
  <1> QED
    BY <1>1, <1>4

--------------------------------------------------------------------------------
(* list(offset, limit) and count()                                            *)

\* A page that shows something ends inside the table, and a page that is not full
\* is the last one.
LEMMA PageFacts ==
  ASSUME TableTypeOK, NEW o \in Nat, NEW l \in Nat \ {0}
  PROVE  /\ List(o, l) \subseteq Committed
         /\ List(o, l) # {} => o + Cardinality(List(o, l)) <= Cardinality(Committed)
         /\ Cardinality(List(o, l)) < l =>
              /\ Cardinality(Committed) <= o + Cardinality(List(o, l))
              /\ \A t \in Committed : Position(t) < o + l
  <1> DEFINE D == List(o, l)
             P == {t \in Committed : Position(t) < o}
             R == {t \in Committed : Position(t) >= o + l}
  <1>1. D \subseteq Committed /\ P \subseteq Committed /\ R \subseteq Committed
    BY DEF List
  <1>2. /\ \A t \in Committed : t \in D <=> (Position(t) >= o /\ Position(t) < o + l)
        /\ \A t \in Committed : Position(t) \in Nat
    BY PositionIsNat DEF List
  <1>3. D # {} => o + Cardinality(D) <= Cardinality(Committed)
    BY <1>1, <1>2, RoomBefore
  <1>4. Cardinality(P) <= o
    BY RowsBefore
  <1>5. /\ Cardinality(D) \in Nat /\ Cardinality(P) \in Nat /\ Cardinality(Committed) \in Nat
        /\ Cardinality(P \cup D) = Cardinality(P) + Cardinality(D)
    <2>1. P \cap D = {}
      BY <1>1, <1>2
    <2>2. P \subseteq Transactions /\ D \subseteq Transactions
      BY <1>1, CommittedRows
    <2> HIDE DEF P, D
    <2> QED
      BY <2>1, <2>2, CommittedRows, RowsAreFinite, DisjointSets
  <1>6. ASSUME R # {} PROVE Cardinality(D) >= l
    <2>1. PICK t \in R : \A u \in R : ~Before(u, t)
      BY <1>1, <1>6, FirstRow
    <2>2. t \in Committed /\ Position(t) >= o + l /\ Position(t) \in Nat
      BY PositionIsNat
    <2>3. ASSUME NEW u \in Committed PROVE u \in Predecessors(t) <=> u \in P \cup D
      <3>1. Position(u) \in Nat
        BY <1>2
      <3>2. CASE u \in R
        <4>1. u \notin P \cup D
          BY <1>2, <3>1, <3>2
        <4>2. u \notin Predecessors(t)
          BY <2>1, <3>2 DEF Predecessors
        <4> QED
          BY <4>1, <4>2
      <3>3. CASE u \notin R
        <4>1. u \in P \cup D /\ Position(u) < Position(t)
          BY <1>2, <2>2, <3>1, <3>3
        <4>2. Before(u, t)
          BY <2>2, <4>1, OrderFollowsPositions
        <4> QED
          BY <4>1, <4>2 DEF Predecessors
      <3> QED
        BY <3>2, <3>3
    <2>4. Predecessors(t) = P \cup D
      BY <1>1, <2>3 DEF Predecessors
    <2>5. Position(t) = Cardinality(P) + Cardinality(D)
      BY <1>5, <2>4, PositionIsNat
    <2> QED
      BY <1>4, <1>5, <2>2, <2>5
  <1>7. ASSUME R = {} PROVE P \cup D = Committed
    BY <1>1, <1>2, <1>7
  <1>8. ASSUME Cardinality(D) < l
        PROVE  /\ Cardinality(Committed) <= o + Cardinality(D)
               /\ \A t \in Committed : Position(t) < o + l
    <2>1. R = {}
      BY <1>5, <1>6, <1>8
    <2>2. Cardinality(Committed) = Cardinality(P) + Cardinality(D)
      BY <1>5, <1>7, <2>1
    <2>3. \A t \in Committed : Position(t) < o + l
      BY <1>2, <2>1
    <2> QED
      BY <1>4, <1>5, <2>2, <2>3
  <1> QED
    BY <1>1, <1>3, <1>8

\* The rows committed since a request began.
LEMMA GrowthIsDifference ==
  ASSUME NEW K, K \subseteq Committed
  PROVE  /\ Cardinality(Committed \ K) = Cardinality(Committed) - Cardinality(K)
         /\ Cardinality(K) \in Nat /\ Cardinality(Committed) \in Nat
         /\ Cardinality(Committed \ K) \in Nat
         /\ Cardinality(K) <= Cardinality(Committed)
  <1> DEFINE G == Committed \ K
  <1>1. /\ K \subseteq Transactions /\ G \subseteq Transactions
        /\ K \cap G = {} /\ K \cup G = Committed
    BY CommittedRows
  <1> HIDE DEF G
  <1>2. /\ Cardinality(K) \in Nat /\ Cardinality(G) \in Nat
        /\ Cardinality(K \cup G) = Cardinality(K) + Cardinality(G)
    BY <1>1, RowsAreFinite, DisjointSets
  <1>3. Cardinality(Committed) = Cardinality(K) + Cardinality(G)
    BY <1>1, <1>2
  <1>4. /\ Cardinality(G) = Cardinality(Committed) - Cardinality(K)
        /\ Cardinality(Committed) \in Nat
        /\ Cardinality(K) <= Cardinality(Committed)
    BY <1>2, <1>3
  <1> QED
    BY <1>2, <1>4 DEF G

\* A committed row keeps its time and is never overtaken backwards: an insertion can
\* only push it to a later position.
LEMMA CommitPushesBack ==
  ASSUME TableTypeOK, NEW t \in Transactions, Commit(t)
  PROVE  /\ TableTypeOK'
         /\ Committed \subseteq Committed'
         /\ Cardinality(Committed) <= Cardinality(Committed')
         /\ \A u \in Committed : Position(u) <= Position(u)' /\ Position(u)' \in Nat
  <1>1. PICK at \in Times : createdAt' = [createdAt EXCEPT ![t] = at]
    BY DEF Commit
  <1>2. TableTypeOK'
    BY <1>1 DEF TableTypeOK
  <1>3. \A u \in Committed : u # t /\ createdAt'[u] = createdAt[u]
    BY <1>1 DEF Committed, Commit, TableTypeOK
  <1>4. Committed \subseteq Committed' /\ Committed' \subseteq Transactions
    BY <1>3 DEF Committed
  <1>5. Cardinality(Committed) <= Cardinality(Committed')
    BY <1>4, SmallerSet
  <1>6. ASSUME NEW u \in Committed PROVE Position(u) <= Position(u)' /\ Position(u)' \in Nat
    <2> DEFINE S == {v \in Committed : Before(v, u)}
               T == {v \in Committed' : Before(v, u)'}
    <2>1. S \subseteq T /\ T \subseteq Transactions
      BY <1>3, <1>4 DEF Before
    <2>2. Position(u) = Cardinality(S) /\ Position(u)' = Cardinality(T)
      BY DEF Position
    <2> HIDE DEF S, T
    <2> QED
      BY <2>1, <2>2, SmallerSet, RowsAreFinite
  <1> QED
    BY <1>2, <1>4, <1>5, <1>6

--------------------------------------------------------------------------------
(* The walk                                                                   *)

\* What list() saw: a page that shows something lies inside the table, and a page
\* that is not full reaches the end of what the request knew, so that it shows all
\* that the walk still owes.
PageIsOfTable ==
  request.listed =>
    /\ request.data # {} => Read + Cardinality(request.data) <= Cardinality(Committed)
    /\ Cardinality(request.data) < walk.limit =>
         /\ Cardinality(request.known) <= Read + Cardinality(request.data)
         /\ walk.owed \ walk.seen \subseteq request.data

\* The inductive invariant of the walk.
WalkInvariant == ListInvariant /\ PageIsOfTable /\ WalkMissesNothing

\* Where the next page begins.
LEMMA ReadFacts ==
  ASSUME TypeOK
  PROVE  /\ Read \in Nat /\ walk.limit \in Nat \ {0} /\ walk.page \in Nat \ {0}
         /\ Offset(walk.page, walk.limit) = Read
         /\ walk.page * walk.limit = Read + walk.limit
  <1> DEFINE p == walk.page
             l == walk.limit
  <1>1. p \in Nat \ {0} /\ l \in Nat \ {0}
    BY DEF TypeOK
  <1> HIDE DEF p, l
  <1>2. (p - 1) * l \in Nat /\ p * l = (p - 1) * l + l
    BY <1>1
  <1> QED
    BY <1>1, <1>2 DEF Read, Offset, p, l

\* The walk as it begins is well typed.
LEMMA WalkTyped ==
  ASSUME NEW stop \in Stops, NEW limit \in Nat \ {0}
  PROVE  /\ Walk(stop, limit) \in
              [state : WalkStates, stop : Stops, page : Nat \ {0}, limit : Nat \ {0},
               seen : SUBSET Transactions, owed : SUBSET Transactions, late : Nat]
         /\ Walk(stop, limit).state = "walking" /\ Walk(stop, limit).page = 1
         /\ Walk(stop, limit).owed = Committed /\ Walk(stop, limit).seen = {}
  BY CommittedRows DEF Walk, WalkStates, Stops

\* No request is well typed.
LEMMA NoRequestTyped ==
  /\ NoRequest \in [active : BOOLEAN, listed : BOOLEAN, data : SUBSET Transactions,
                    total : Nat \cup {NoResult}, known : SUBSET Transactions]
  /\ NoRequest.active = FALSE /\ NoRequest.listed = FALSE /\ NoRequest.data = {}
  /\ NoRequest.total = NoResult /\ NoRequest.known = {}
  BY DEF NoRequest

\* The table is empty and the client idle.
LEMMA InitEstablishesWalk == Init => WalkInvariant
  <1> SUFFICES ASSUME Init PROVE WalkInvariant
    OBVIOUS
  <1>1. createdAt \in [Transactions -> Times \cup {NotCommitted}] /\ Committed = {}
    BY DEF Init, Committed
  <1> DEFINE w == Walk("short_page", 1)
  <1>2. /\ w \in [state : WalkStates, stop : Stops, page : Nat \ {0}, limit : Nat \ {0},
                  seen : SUBSET Transactions, owed : SUBSET Transactions, late : Nat]
        /\ w.owed = {}
    BY <1>1, WalkTyped DEF Stops
  <1>3. walk = [w EXCEPT !.state = "idle"]
    BY DEF Init
  <1> HIDE DEF w
  <1>4. /\ walk \in [state : WalkStates, stop : Stops, page : Nat \ {0}, limit : Nat \ {0},
                     seen : SUBSET Transactions, owed : SUBSET Transactions, late : Nat]
        /\ walk.state = "idle" /\ walk.owed = {}
    BY <1>2, <1>3 DEF WalkStates
  <1>5. request = NoRequest
    BY DEF Init
  <1>6. TypeOK
    BY <1>1, <1>4, <1>5, NoRequestTyped DEF TypeOK
  <1>7. ResultsAreOfThisRequest
    BY <1>4, <1>5, NoRequestTyped DEF ResultsAreOfThisRequest
  <1>8. NothingSlipsBack /\ WalkMissesNothing /\ PageIsOfTable
    BY <1>4, <1>5, NoRequestTyped DEF NothingSlipsBack, WalkMissesNothing, PageIsOfTable
  <1> QED
    BY <1>6, <1>7, <1>8 DEF WalkInvariant, ListInvariant

\* Somebody else's transaction is committed.
LEMMA CommitKeepsWalk ==
  ASSUME WalkInvariant, NEW t \in Transactions, Commit(t)
  PROVE  WalkInvariant'
  <1>1. TypeOK /\ ResultsAreOfThisRequest /\ NothingSlipsBack /\ TableTypeOK
    BY DEF WalkInvariant, ListInvariant, TypeOK, TableTypeOK
  <1>2. walk' = walk /\ request' = request
    BY DEF Commit
  <1>3. /\ TableTypeOK' /\ Committed \subseteq Committed'
        /\ Cardinality(Committed) <= Cardinality(Committed')
        /\ \A u \in Committed : Position(u) <= Position(u)' /\ Position(u)' \in Nat
    BY <1>1, CommitPushesBack
  <1>4. Cardinality(Committed) \in Nat /\ Cardinality(Committed') \in Nat
    <2>1. Committed \subseteq Transactions /\ Committed' \subseteq Transactions
      BY DEF Committed
    <2> QED
      BY <2>1, RowsAreFinite
  <1>5. TypeOK'
    BY <1>1, <1>2, <1>3 DEF TypeOK, TableTypeOK
  <1>6. ResultsAreOfThisRequest'
    <2>1. request.total # NoResult =>
            request.total \in Cardinality(request.known)..Cardinality(Committed')
      <3>1. request.total # NoResult => request.total \in Nat
        BY <1>1 DEF TypeOK
      <3>2. Cardinality(request.known) \in Nat
        BY <1>1, RowsAreFinite DEF TypeOK
      <3> QED
        BY <1>1, <1>3, <1>4, <3>1, <3>2 DEF ResultsAreOfThisRequest
    <2> QED
      BY <1>1, <1>2, <1>3, <2>1 DEF ResultsAreOfThisRequest, NoRequest
  <1>7. NothingSlipsBack'
    <2> SUFFICES ASSUME walk.state = "walking", NEW u \in walk.owed \ walk.seen
                 PROVE  /\ Position(u)' >= Read
                        /\ request.listed => u \in request.data
                                               \/ Position(u)' >= Read + walk.limit
      BY <1>2 DEF NothingSlipsBack, Read
    <2>1. /\ Position(u) \in Nat /\ Position(u)' \in Nat /\ Position(u) <= Position(u)'
      BY <1>1, <1>3, PositionIsNat DEF ResultsAreOfThisRequest
    <2>2. /\ Position(u) >= Read
          /\ request.listed => u \in request.data \/ Position(u) >= Read + walk.limit
      BY <1>1 DEF NothingSlipsBack
    <2>3. Read \in Nat /\ walk.limit \in Nat
      BY <1>1, ReadFacts
    <2> QED
      BY <2>1, <2>2, <2>3
  <1>8. PageIsOfTable'
    <2>1. Cardinality(request.data) \in Nat /\ Read \in Nat
      BY <1>1, RowsAreFinite, ReadFacts DEF TypeOK
    <2> QED
      BY <1>2, <1>3, <1>4, <2>1 DEF WalkInvariant, PageIsOfTable, Read
  <1>9. WalkMissesNothing'
    BY <1>2 DEF WalkInvariant, WalkMissesNothing
  <1> QED
    BY <1>5, <1>6, <1>7, <1>8, <1>9 DEF WalkInvariant, ListInvariant

\* The queries only read the table.
LEMMA TableKept ==
  ASSUME createdAt' = createdAt
  PROVE  Committed' = Committed /\ \A u : Position(u)' = Position(u)
  BY DEF Committed, Position, Before

\* The client begins.
LEMMA StartWalkKeepsWalk ==
  ASSUME WalkInvariant, StartWalk
  PROVE  WalkInvariant'
  <1>1. PICK stop \in Stops, limit \in Limits : walk' = Walk(stop, limit)
    BY DEF StartWalk
  <1>2. /\ createdAt' = createdAt /\ request' = request /\ request = NoRequest
        /\ TypeOK /\ ResultsAreOfThisRequest
    BY DEF StartWalk, WalkInvariant, ListInvariant, ResultsAreOfThisRequest
  <1>3. Committed' = Committed /\ \A u : Position(u)' = Position(u)
    BY <1>2, TableKept
  <1>4. limit \in Nat \ {0}
    BY ListAssumption
  <1>5. /\ walk' \in [state : WalkStates, stop : Stops, page : Nat \ {0}, limit : Nat \ {0},
                      seen : SUBSET Transactions, owed : SUBSET Transactions, late : Nat]
        /\ walk'.state = "walking" /\ walk'.page = 1 /\ walk'.owed = Committed
    BY <1>1, <1>4, WalkTyped
  <1>6. TypeOK'
    BY <1>2, <1>5 DEF TypeOK
  <1>7. /\ request'.active = FALSE /\ request'.listed = FALSE /\ request'.data = {}
        /\ request'.total = NoResult /\ request' = NoRequest
    BY <1>2, NoRequestTyped
  <1>8. ResultsAreOfThisRequest'
    BY <1>3, <1>5, <1>7 DEF ResultsAreOfThisRequest, NoRequest
  <1>9. NothingSlipsBack'
    <2>1. Read' = 0
      <3>1. walk'.limit \in Nat
        BY <1>5
      <3> QED
        BY <1>5, <3>1 DEF Read
    <2>2. \A u : Position(u)' \in Nat
      BY <1>3, PositionIsNat
    <2> QED
      BY <1>7, <2>1, <2>2 DEF NothingSlipsBack
  <1>10. PageIsOfTable' /\ WalkMissesNothing'
    BY <1>5, <1>7 DEF PageIsOfTable, WalkMissesNothing
  <1> QED
    BY <1>6, <1>8, <1>9, <1>10 DEF WalkInvariant, ListInvariant

\* A request begins.
LEMMA ExecuteKeepsWalk ==
  ASSUME WalkInvariant, Execute
  PROVE  WalkInvariant'
  <1>1. /\ createdAt' = createdAt /\ walk' = walk /\ walk.state = "walking"
        /\ walk.page <= MaxPage /\ TypeOK /\ ResultsAreOfThisRequest /\ NothingSlipsBack
    BY DEF Execute, WalkInvariant, ListInvariant
  <1>2. Committed' = Committed /\ \A u : Position(u)' = Position(u)
    BY <1>1, TableKept
  <1>3. /\ request' \in [active : BOOLEAN, listed : BOOLEAN, data : SUBSET Transactions,
                         total : Nat \cup {NoResult}, known : SUBSET Transactions]
        /\ request'.active = TRUE /\ request'.listed = FALSE /\ request'.data = {}
        /\ request'.total = NoResult /\ request'.known = Committed
    BY CommittedRows DEF Execute, NoRequest
  <1>4. TypeOK'
    BY <1>1, <1>3 DEF TypeOK
  <1>5. ResultsAreOfThisRequest'
    BY <1>1, <1>2, <1>3 DEF ResultsAreOfThisRequest
  <1>6. NothingSlipsBack' /\ PageIsOfTable'
    BY <1>1, <1>2, <1>3 DEF NothingSlipsBack, PageIsOfTable, Read
  <1>7. WalkMissesNothing'
    BY <1>1 DEF WalkMissesNothing
  <1> QED
    BY <1>4, <1>5, <1>6, <1>7 DEF WalkInvariant, ListInvariant

\* A page beyond the largest is refused before any query.
LEMMA PageRefusedKeepsWalk ==
  ASSUME WalkInvariant, PageRefused
  PROVE  WalkInvariant'
  <1>1. /\ createdAt' = createdAt /\ request' = request /\ walk.page > MaxPage
        /\ TypeOK /\ ResultsAreOfThisRequest
    BY DEF PageRefused, WalkInvariant, ListInvariant
  <1>2. Committed' = Committed
    BY <1>1, TableKept
  <1>3. walk.page \in Nat /\ MaxPage \in Nat
    BY <1>1, ListAssumption DEF TypeOK
  <1>4. request = NoRequest
    BY <1>1, <1>3 DEF ResultsAreOfThisRequest
  <1>5. /\ request'.active = FALSE /\ request'.listed = FALSE /\ request'.data = {}
        /\ request'.total = NoResult /\ request' = NoRequest
    BY <1>1, <1>4, NoRequestTyped
  <1>6. /\ walk' \in [state : WalkStates, stop : Stops, page : Nat \ {0}, limit : Nat \ {0},
                      seen : SUBSET Transactions, owed : SUBSET Transactions, late : Nat]
        /\ walk'.state = "refused" /\ walk'.owed = walk.owed
    BY <1>1 DEF PageRefused, TypeOK, WalkStates
  <1>7. TypeOK'
    BY <1>1, <1>6 DEF TypeOK
  <1>8. ResultsAreOfThisRequest'
    BY <1>1, <1>2, <1>5, <1>6 DEF ResultsAreOfThisRequest, NoRequest
  <1>9. NothingSlipsBack' /\ PageIsOfTable' /\ WalkMissesNothing'
    BY <1>5, <1>6 DEF NothingSlipsBack, PageIsOfTable, WalkMissesNothing
  <1> QED
    BY <1>7, <1>8, <1>9 DEF WalkInvariant, ListInvariant

\* list() runs.
LEMMA ListRunsKeepsWalk ==
  ASSUME WalkInvariant, ListRuns
  PROVE  WalkInvariant'
  <1> DEFINE D == List(Offset(walk.page, walk.limit), walk.limit)
  <1>1. /\ createdAt' = createdAt /\ walk' = walk /\ request.active
        /\ TypeOK /\ ResultsAreOfThisRequest /\ NothingSlipsBack /\ TableTypeOK
        /\ request' = [request EXCEPT !.listed = TRUE, !.data = D]
    BY DEF ListRuns, WalkInvariant, ListInvariant, TypeOK, TableTypeOK
  <1>2. Committed' = Committed /\ \A u : Position(u)' = Position(u)
    BY <1>1, TableKept
  <1>3. /\ Read \in Nat /\ walk.limit \in Nat \ {0}
        /\ D = List(Read, walk.limit)
    BY <1>1, ReadFacts
  <1>4. /\ D \subseteq Committed
        /\ D # {} => Read + Cardinality(D) <= Cardinality(Committed)
        /\ Cardinality(D) < walk.limit =>
             /\ Cardinality(Committed) <= Read + Cardinality(D)
             /\ \A t \in Committed : Position(t) < Read + walk.limit
    BY <1>1, <1>3, PageFacts
  <1>5. \A t \in Committed : Position(t) >= Read => t \in D \/ Position(t) >= Read + walk.limit
    BY <1>3, PositionIsNat DEF List
  <1>6. D \subseteq Transactions
    BY <1>4, CommittedRows
  <1> HIDE DEF D
  <1>7. /\ request' \in [active : BOOLEAN, listed : BOOLEAN, data : SUBSET Transactions,
                         total : Nat \cup {NoResult}, known : SUBSET Transactions]
        /\ request'.active = request.active /\ request'.listed = TRUE /\ request'.data = D
        /\ request'.total = request.total /\ request'.known = request.known
    BY <1>1, <1>6 DEF TypeOK
  <1>8. TypeOK'
    BY <1>1, <1>7 DEF TypeOK
  <1>9. ResultsAreOfThisRequest'
    BY <1>1, <1>2, <1>4, <1>7 DEF ResultsAreOfThisRequest
  <1>10. ASSUME NEW t \in walk.owed \ walk.seen
         PROVE  Position(t) >= Read /\ (t \in D \/ Position(t) >= Read + walk.limit)
    BY <1>1, <1>5 DEF ResultsAreOfThisRequest, NothingSlipsBack
  <1>11. NothingSlipsBack'
    BY <1>1, <1>2, <1>7, <1>10 DEF NothingSlipsBack, Read
  <1>12. PageIsOfTable'
    <2>1. /\ Cardinality(request.known) <= Cardinality(Committed)
          /\ Cardinality(request.known) \in Nat /\ Cardinality(Committed) \in Nat
          /\ Cardinality(D) \in Nat
      BY <1>1, <1>6, GrowthIsDifference, RowsAreFinite DEF ResultsAreOfThisRequest
    <2>2. ASSUME Cardinality(D) < walk.limit, NEW t \in walk.owed \ walk.seen PROVE t \in D
      <3>1. t \in Committed /\ Position(t) \in Nat
        BY <1>1, PositionIsNat DEF ResultsAreOfThisRequest
      <3>2. Position(t) < Read + walk.limit
        BY <1>4, <2>2, <3>1
      <3> QED
        BY <1>3, <1>10, <3>1, <3>2
    <2>3. Cardinality(D) < walk.limit =>
            Cardinality(request.known) <= Read + Cardinality(D)
      BY <1>3, <1>4, <2>1
    <2>4. Read' = Read
      BY <1>1 DEF Read
    <2> QED
      BY <1>1, <1>2, <1>4, <1>7, <2>2, <2>3, <2>4 DEF PageIsOfTable
  <1>13. WalkMissesNothing'
    BY <1>1 DEF WalkInvariant, WalkMissesNothing
  <1> QED
    BY <1>8, <1>9, <1>11, <1>12, <1>13 DEF WalkInvariant, ListInvariant

\* count() runs.
LEMMA CountRunsKeepsWalk ==
  ASSUME WalkInvariant, CountRuns
  PROVE  WalkInvariant'
  <1> DEFINE n == Cardinality(Committed)
  <1>1. /\ createdAt' = createdAt /\ walk' = walk /\ request.active
        /\ TypeOK /\ ResultsAreOfThisRequest /\ NothingSlipsBack
        /\ request' = [request EXCEPT !.total = n]
    BY DEF CountRuns, WalkInvariant, ListInvariant
  <1>2. Committed' = Committed /\ \A u : Position(u)' = Position(u)
    BY <1>1, TableKept
  <1>3. n \in Nat /\ Cardinality(request.known) <= n /\ Cardinality(request.known) \in Nat
    BY <1>1, GrowthIsDifference DEF ResultsAreOfThisRequest
  <1>4. Cardinality(Committed') = n
    BY <1>2
  <1> HIDE DEF n
  <1>5. /\ request' \in [active : BOOLEAN, listed : BOOLEAN, data : SUBSET Transactions,
                         total : Nat \cup {NoResult}, known : SUBSET Transactions]
        /\ request'.active = request.active /\ request'.listed = request.listed
        /\ request'.data = request.data /\ request'.total = n
        /\ request'.known = request.known
    BY <1>1, <1>3 DEF TypeOK
  <1>6. TypeOK'
    BY <1>1, <1>5 DEF TypeOK
  <1>7. ResultsAreOfThisRequest'
    BY <1>1, <1>2, <1>3, <1>4, <1>5 DEF ResultsAreOfThisRequest
  <1>8. NothingSlipsBack' /\ PageIsOfTable' /\ WalkMissesNothing'
    BY <1>1, <1>2, <1>5
       DEF WalkInvariant, NothingSlipsBack, PageIsOfTable, WalkMissesNothing, Read
  <1> QED
    BY <1>6, <1>7, <1>8 DEF WalkInvariant, ListInvariant

\* A query rejects.
LEMMA QueryFailsKeepsWalk ==
  ASSUME WalkInvariant, QueryFails
  PROVE  WalkInvariant'
  <1>1. /\ createdAt' = createdAt /\ walk' = walk /\ request' = NoRequest
        /\ TypeOK /\ ResultsAreOfThisRequest /\ NothingSlipsBack
    BY DEF QueryFails, WalkInvariant, ListInvariant
  <1>2. Committed' = Committed /\ \A u : Position(u)' = Position(u)
    BY <1>1, TableKept
  <1>3. TypeOK'
    BY <1>1, NoRequestTyped DEF TypeOK
  <1>4. ResultsAreOfThisRequest'
    BY <1>1, <1>2, NoRequestTyped DEF ResultsAreOfThisRequest, NoRequest
  <1>5. NothingSlipsBack' /\ PageIsOfTable' /\ WalkMissesNothing'
    BY <1>1, <1>2, NoRequestTyped
       DEF WalkInvariant, NothingSlipsBack, PageIsOfTable, WalkMissesNothing, Read
  <1> QED
    BY <1>3, <1>4, <1>5 DEF WalkInvariant, ListInvariant

\* Math.ceil(total / limit) pages hold total rows.
LEMMA PagesHoldTotal ==
  ASSUME NEW total \in Nat, NEW limit \in Nat \ {0}, NEW page \in Nat,
         page >= TotalPages(total, limit)
  PROVE  page * limit >= total
  <1>1. PICK q \in Nat : q = (total + limit - 1) \div limit
    OBVIOUS
  <1>2. total + limit - 1 < (q + 1) * limit /\ (q + 1) * limit = q * limit + limit
    BY <1>1
  <1>3. PICK d \in Nat : page = q + d
    <2>1. page >= q
      BY <1>1 DEF TotalPages
    <2>2. page - q \in Nat /\ page = q + (page - q)
      BY <2>1
    <2> QED
      BY <2>2
  <1>4. page * limit = q * limit + d * limit /\ d * limit \in Nat /\ q * limit \in Nat
    BY <1>3
  <1> QED
    BY <1>2, <1>4

\* What a client misses that stops at totalPages: no more rows than were committed
\* while its last request was in flight.
LEMMA LastPageMissesFew ==
  ASSUME TypeOK, TableTypeOK, ResultsAreOfThisRequest, request.active,
         request.total # NoResult, walk.page >= TotalPages(request.total, walk.limit),
         NEW M, M \subseteq Committed,
         \A t \in M : Position(t) >= Read + walk.limit
  PROVE  Cardinality(M) <= Cardinality(Committed \ request.known)
  <1>1. /\ Read \in Nat /\ walk.limit \in Nat \ {0} /\ walk.page \in Nat
        /\ walk.page * walk.limit = Read + walk.limit
    BY ReadFacts
  <1>2. /\ request.total \in Nat
        /\ request.total >= Cardinality(request.known)
        /\ Cardinality(request.known) \in Nat /\ Cardinality(Committed) \in Nat
        /\ Cardinality(Committed \ request.known) =
             Cardinality(Committed) - Cardinality(request.known)
        /\ Cardinality(Committed \ request.known) \in Nat
    <2>1. request.known \subseteq Committed
      BY DEF ResultsAreOfThisRequest
    <2>2. request.total \in Nat
      BY DEF TypeOK
    <2>3. Cardinality(request.known) \in Nat /\ Cardinality(Committed) \in Nat
      BY <2>1, GrowthIsDifference
    <2>4. request.total >= Cardinality(request.known)
      BY <2>2, <2>3 DEF ResultsAreOfThisRequest
    <2> QED
      BY <2>1, <2>2, <2>4, GrowthIsDifference
  <1>3. Read + walk.limit >= request.total
    BY <1>1, <1>2, PagesHoldTotal
  <1>4. CASE M = {}
    BY <1>2, <1>4, FS_EmptySet
  <1>5. CASE M # {}
    <2> DEFINE o == Read + walk.limit
    <2>1. o \in Nat
      BY <1>1
    <2>2. o + Cardinality(M) <= Cardinality(Committed)
      BY <1>5, <2>1, RoomBefore
    <2>3. Cardinality(M) \in Nat
      BY CommittedRows, RowsAreFinite
    <2> HIDE DEF o
    <2>4. o >= request.total
      BY <1>3 DEF o
    <2> QED
      BY <1>2, <2>1, <2>2, <2>3, <2>4
  <1> QED
    BY <1>4, <1>5

\* The response reaches the client.
LEMMA RespondKeepsWalk ==
  ASSUME WalkInvariant, Respond
  PROVE  WalkInvariant'
  <1> DEFINE seen == walk.seen \cup request.data
             late == Cardinality(Committed \ request.known)
             page == IF IsLast THEN walk.page ELSE walk.page + 1
             state == IF IsLast THEN "done" ELSE walk.state
  <1>1. /\ createdAt' = createdAt /\ request' = NoRequest /\ request.active
        /\ request.listed /\ request.total # NoResult
        /\ TypeOK /\ TableTypeOK /\ ResultsAreOfThisRequest /\ NothingSlipsBack
        /\ PageIsOfTable /\ walk.state = "walking"
        /\ walk' = [walk EXCEPT !.seen = seen, !.late = late, !.page = page, !.state = state]
    BY DEF Respond, WalkInvariant, ListInvariant, TypeOK, TableTypeOK, ResultsAreOfThisRequest
  <1>2. Committed' = Committed /\ \A u : Position(u)' = Position(u)
    BY <1>1, TableKept
  <1>3. /\ Read \in Nat /\ walk.limit \in Nat \ {0} /\ walk.page \in Nat \ {0}
        /\ walk.page * walk.limit = Read + walk.limit
    BY <1>1, ReadFacts
  <1>4. /\ seen \in SUBSET Transactions /\ late \in Nat
        /\ page \in Nat \ {0} /\ state \in WalkStates
    <2>1. late \in Nat
      BY <1>1, GrowthIsDifference DEF ResultsAreOfThisRequest
    <2> QED
      BY <1>1, <1>3, <2>1 DEF TypeOK, WalkStates
  <1>5. ASSUME NEW t \in walk.owed \ seen
        PROVE  t \in Committed /\ t \notin request.data /\ Position(t) >= Read + walk.limit
    BY <1>1 DEF NothingSlipsBack, ResultsAreOfThisRequest
  <1>6. /\ IsLast => page = walk.page /\ state = "done"
        /\ ~IsLast => page = walk.page + 1 /\ state = "walking"
    BY <1>1
  <1>7. seen = walk.seen \cup request.data /\ late = Cardinality(Committed \ request.known)
    OBVIOUS
  <1> HIDE DEF seen, late, page, state
  <1>8. /\ walk' \in [state : WalkStates, stop : Stops, page : Nat \ {0}, limit : Nat \ {0},
                      seen : SUBSET Transactions, owed : SUBSET Transactions, late : Nat]
        /\ walk'.seen = seen /\ walk'.late = late /\ walk'.page = page
        /\ walk'.state = state /\ walk'.stop = walk.stop /\ walk'.limit = walk.limit
        /\ walk'.owed = walk.owed
    BY <1>1, <1>4 DEF TypeOK
  <1>9. TypeOK'
    BY <1>1, <1>8, NoRequestTyped DEF TypeOK
  <1>10. ResultsAreOfThisRequest'
    BY <1>1, <1>2, <1>8, NoRequestTyped DEF ResultsAreOfThisRequest, NoRequest
  <1>11. PageIsOfTable'
    BY <1>1, NoRequestTyped DEF PageIsOfTable
  <1>12. NothingSlipsBack'
    <2> SUFFICES ASSUME walk'.state = "walking", NEW t \in walk.owed \ seen
                 PROVE  Position(t) >= Read'
      BY <1>1, <1>2, <1>8, NoRequestTyped DEF NothingSlipsBack
    <2>1. page = walk.page + 1
      BY <1>6, <1>8
    <2>2. Read' = walk.page * walk.limit
      BY <1>3, <1>8, <2>1 DEF Read
    <2> QED
      BY <1>3, <1>5, <2>2
  <1>13. WalkMissesNothing'
    <2>1. CASE ~IsLast
      BY <1>6, <1>8, <2>1 DEF WalkMissesNothing
    <2>2. CASE IsLast /\ walk.stop = "short_page"
      <3>1. Cardinality(request.data) < walk.limit
        BY <2>2 DEF IsLast
      <3>2. walk.owed \subseteq seen
        BY <1>1, <1>7, <3>1 DEF PageIsOfTable
      <3> QED
        BY <1>8, <2>2, <3>2 DEF WalkMissesNothing
    <2>3. CASE IsLast /\ walk.stop = "total_pages"
      <3>1. walk.page >= TotalPages(request.total, walk.limit)
        BY <2>3 DEF IsLast
      <3> DEFINE M == walk.owed \ seen
      <3>2. M \subseteq Committed /\ \A t \in M : Position(t) >= Read + walk.limit
        BY <1>5
      <3> HIDE DEF M
      <3>3. Cardinality(M) <= late
        BY <1>1, <1>7, <3>1, <3>2, LastPageMissesFew
      <3>4. Cardinality(walk'.owed \ walk'.seen) <= walk'.late
        BY <1>8, <3>3 DEF M
      <3> QED
        BY <1>8, <2>3, <3>4 DEF WalkMissesNothing
    <2>4. walk.stop \in {"short_page", "total_pages"}
      BY <1>1 DEF TypeOK, Stops
    <2> QED
      BY <2>1, <2>2, <2>3, <2>4
  <1> QED
    BY <1>9, <1>10, <1>11, <1>12, <1>13 DEF WalkInvariant, ListInvariant

--------------------------------------------------------------------------------
(* The theorems                                                               *)

\* Every step keeps the invariant of the walk.
LEMMA NextKeepsWalk ==
  ASSUME WalkInvariant, [Next]_vars
  PROVE  WalkInvariant'
  <1>1. CASE UNCHANGED vars
    <2>1. Committed' = Committed /\ \A u : Position(u)' = Position(u)
      BY <1>1, TableKept DEF vars
    <2>2. Read' = Read /\ createdAt' = createdAt /\ walk' = walk /\ request' = request
      BY <1>1 DEF vars, Read
    <2>3. ListInvariant'
      BY <2>1, <2>2, Zenon
         DEF WalkInvariant, ListInvariant, TypeOK, ResultsAreOfThisRequest, NothingSlipsBack
    <2>4. PageIsOfTable' /\ WalkMissesNothing'
      BY <2>1, <2>2 DEF WalkInvariant, PageIsOfTable, WalkMissesNothing
    <2> QED
      BY <2>3, <2>4 DEF WalkInvariant
  <1> QED
    BY <1>1, CommitKeepsWalk, StartWalkKeepsWalk, ExecuteKeepsWalk, PageRefusedKeepsWalk,
       ListRunsKeepsWalk, CountRunsKeepsWalk, QueryFailsKeepsWalk, RespondKeepsWalk
       DEF Next

\* The invariant of the walk holds in every reachable state.
LEMMA WalkIsKept == Spec => []WalkInvariant
  <1>1. WalkInvariant /\ [Next]_vars => WalkInvariant'
    BY NextKeepsWalk
  <1> QED
    BY <1>1, InitEstablishesWalk, PTL DEF Spec

\* Commits that happen between the pages never move a row back to a page that has
\* already been read, wherever its created_at puts them in the order.
THEOREM RowsNeverSlipBack == Spec => []ListInvariant
  <1>1. WalkInvariant => ListInvariant
    BY DEF WalkInvariant
  <1> QED
    BY <1>1, WalkIsKept, PTL

\* A client that reads until a short page sees every row committed before it began;
\* one that trusts totalPages misses at most what was committed during its last
\* request.
THEOREM WalkIsComplete == Spec => []WalkMissesNothing
  <1>1. WalkInvariant => WalkMissesNothing
    BY DEF WalkInvariant
  <1> QED
    BY <1>1, WalkIsKept, PTL

\* The page and the total of one response, read by two queries, differ by no more
\* than the rows committed while the request was in flight.
THEOREM PageAndTotalAgree == Spec => []TotalMatchesPage
  <1>1. WalkInvariant => TotalMatchesPage
    <2> SUFFICES ASSUME WalkInvariant, request.listed, request.total # NoResult
                 PROVE  LET shown == Read + Cardinality(request.data)
                        IN  /\ request.data # {} => request.total >= shown - Growth
                            /\ Cardinality(request.data) < walk.limit =>
                                 request.total <= shown + Growth
      BY DEF TotalMatchesPage
    <2>1. /\ TypeOK /\ ResultsAreOfThisRequest /\ PageIsOfTable /\ request.active
      BY NoRequestTyped DEF WalkInvariant, ListInvariant, ResultsAreOfThisRequest
    <2>2. /\ Growth = Cardinality(Committed) - Cardinality(request.known)
          /\ Cardinality(request.known) \in Nat /\ Cardinality(Committed) \in Nat
          /\ Growth \in Nat
      BY <2>1, GrowthIsDifference DEF ResultsAreOfThisRequest, Growth
    <2>3. /\ request.total \in Nat
          /\ request.total >= Cardinality(request.known)
          /\ request.total <= Cardinality(Committed)
      <3>1. request.total \in Nat
        BY <2>1 DEF TypeOK
      <3> QED
        BY <2>1, <2>2, <3>1 DEF ResultsAreOfThisRequest
    <2>4. Cardinality(request.data) \in Nat /\ Read \in Nat /\ walk.limit \in Nat
      BY <2>1, RowsAreFinite, ReadFacts DEF TypeOK
    <2>5. /\ request.data # {} => Read + Cardinality(request.data) <= Cardinality(Committed)
          /\ Cardinality(request.data) < walk.limit =>
               Cardinality(request.known) <= Read + Cardinality(request.data)
      BY <2>1 DEF PageIsOfTable
    <2> QED
      BY <2>2, <2>3, <2>4, <2>5
  <1> QED
    BY <1>1, WalkIsKept, PTL
================================================================================
