------------------------- MODULE GetTransactionProofs -------------------------
(***************************************************************************)
(* The cached read of a transaction is a read of PostgreSQL: for any number  *)
(* of readers, ids and outstanding commands, whatever Redis loses, delays,   *)
(* reorders or holds.                                                        *)
(***************************************************************************)
EXTENDS GetTransaction, TLAPS

\* The placeholder of an idle slot has the type of a read.
LEMMA NoReadTyped == NoRead \in Read /\ NoRead.answer = "none" /\ NoRead.phase = "idle"
  <1>1. (CHOOSE i \in Ids : TRUE) \in Ids
    BY CacheAssumption
  <1> QED
    BY <1>1 DEF NoRead, Read, Phases

\* Reader r has come to the phase, the others are where they were, and an answer
\* goes with every answered read.
Moved(r, phase) ==
  /\ reads' \in [Readers -> Read]
  /\ \A q \in Readers : reads'[q].answer = "none" <=> reads'[q].phase # "answered"
  /\ reads'[r].phase = phase /\ reads'[r].id = reads[r].id
  /\ \A q \in Readers : q # r => reads'[q] = reads[q]

\* A read that goes on has no answer yet.
LEMMA ReadGoesOn ==
  ASSUME TypeOK, NEW r \in Readers, NEW phase \in {"finding", "removing", "setting"},
         GoOn(r, phase, "none")
  PROVE  Moved(r, phase)
  <1>1. reads[r] \in Read
    BY DEF TypeOK
  <1>2. [phase |-> phase, id |-> reads[r].id, answer |-> "none"] \in Read
    BY <1>1 DEF Read, Phases
  <1> QED
    BY <1>2 DEF GoOn, TypeOK, Moved

\* A read that ends has one.
LEMMA ReadEnds ==
  ASSUME TypeOK, NEW r \in Readers, NEW answer \in Ids \cup {"not_found", "database_error"},
         GoOn(r, "answered", answer)
  PROVE  Moved(r, "answered")
  <1>1. reads[r] \in Read /\ answer # "none"
    BY CacheAssumption DEF TypeOK
  <1>2. [phase |-> "answered", id |-> reads[r].id, answer |-> answer] \in Read
    BY <1>1 DEF Read, Phases
  <1> QED
    BY <1>1, <1>2 DEF GoOn, TypeOK, Moved

\* Issue adds one well-typed command.
LEMMA IssueTyped ==
  ASSUME TypeOK, NEW r \in Readers, NEW op \in {"GET", "SET", "DEL"}, NEW id \in Ids,
         Issue(r, op, id)
  PROVE  /\ link' \in Links
         /\ commands' \subseteq Command
         /\ \A c \in commands' : c \in commands \/ (c.op = op /\ c.id = id)
  BY DEF Issue, TypeOK, Links, Command

\* Redis executes a command without getting ahead of the store: a SET that arrives,
\* however late, carries a committed transaction.
LEMMA ExecutedKeepsCache ==
  ASSUME CacheInvariant, NEW c \in commands, Executed(c)
  PROVE  /\ transactions' = transactions /\ link' = link
         /\ commands' \subseteq commands
         /\ cache' \in [Ids -> Entries]
         /\ \A id \in Ids : cache'[id] \in Ids => cache'[id] \in transactions
  <1>1. c \in Command
    BY DEF CacheInvariant, TypeOK
  <1>2. CASE c.op = "SET"
    <2>1. cache' = [cache EXCEPT ![c.id] = c.id]
      BY <1>2 DEF Executed
    <2>2. c.id \in Ids /\ c.id \in transactions
      BY <1>1, <1>2 DEF CacheInvariant, CacheIsBehindStore, Command
    <2> QED
      BY <2>1, <2>2
      DEF Executed, CacheInvariant, TypeOK, CacheIsBehindStore, Entries
  <1>3. CASE c.op = "DEL"
    <2>1. cache' = [cache EXCEPT ![c.id] = NoEntry]
      BY <1>3 DEF Executed
    <2>2. c.id \in Ids /\ NoEntry \notin Ids
      BY <1>1, CacheAssumption DEF Command
    <2> QED
      BY <2>1, <2>2
      DEF Executed, CacheInvariant, TypeOK, CacheIsBehindStore, Entries
  <1>4. CASE c.op = "GET"
    BY <1>4 DEF Executed, CacheInvariant, TypeOK, CacheIsBehindStore
  <1> QED
    BY <1>1, <1>2, <1>3, <1>4 DEF Command

\* Nothing is committed, cached or on its way at the start.
LEMMA InitEstablishesCache == Init => CacheInvariant
  BY NoReadTyped, CacheAssumption
  DEF Init, CacheInvariant, CacheIsBehindStore, TypeOK, Entries, Links

\* A hit answers with the transaction that was asked for, and it is committed.
LEMMA HitIsCommitted ==
  ASSUME CacheInvariant, NEW r \in Readers, NEW c \in commands, Awaits(r, c),
         Parsed(cache[c.id], reads[r].id) = "hit"
  PROVE  cache[c.id] = reads[r].id /\ reads[r].id \in transactions
  <1>1. c.id = reads[r].id /\ reads[r].id \in Ids
    BY DEF Awaits, CacheInvariant, TypeOK, Read
  <1>2. cache[c.id] = reads[r].id
    BY DEF Parsed
  <1> QED
    BY <1>1, <1>2 DEF CacheInvariant, CacheIsBehindStore

\* Every step of a read, and everything that happens around it, keeps the cache
\* behind the store.
LEMMA NextKeepsCache == CacheInvariant /\ [Next]_vars => CacheInvariant'
  <1> SUFFICES ASSUME CacheInvariant, [Next]_vars PROVE CacheInvariant'
    OBVIOUS
  <1>0. TypeOK
    BY DEF CacheInvariant
  <1>1. ASSUME NEW r \in Readers, NEW id \in Ids, Execute(r, id) PROVE CacheInvariant'
    <2>1. [phase |-> "getting", id |-> id, answer |-> "none"] \in Read
      BY DEF Read, Phases
    <2>2. /\ link' \in Links /\ commands' \subseteq Command
          /\ \A c \in commands' : c \in commands \/ (c.op = "GET" /\ c.id = id)
      BY <1>0, <1>1, IssueTyped DEF Execute
    <2> QED
      BY <1>1, <2>1, <2>2 DEF Execute, CacheInvariant, TypeOK, CacheIsBehindStore, Moved
  <1>2. ASSUME NEW r \in Readers, NEW c \in commands, GetReplies(r, c)
        PROVE  CacheInvariant'
    <2>1. CASE Parsed(cache[c.id], reads[r].id) # "invalid" /\ Executed(c)
      <3>1. \/ /\ Parsed(cache[c.id], reads[r].id) = "hit"
               /\ GoOn(r, "answered", cache[c.id])
            \/ GoOn(r, "finding", "none")
        BY <1>2, <2>1 DEF GetReplies
      <3>2. CASE /\ Parsed(cache[c.id], reads[r].id) = "hit"
                 /\ GoOn(r, "answered", cache[c.id])
        <4>1. cache[c.id] \in Ids /\ cache[c.id] # "none"
          BY <1>2, <3>2, HitIsCommitted, CacheAssumption
          DEF GetReplies, CacheInvariant, TypeOK
        <4>2. Moved(r, "answered")
          BY <1>0, <3>2, <4>1, ReadGoesOn, ReadEnds
        <4> QED
          BY <2>1, <4>2, ExecutedKeepsCache DEF CacheInvariant, TypeOK, CacheIsBehindStore, Moved
      <3>3. CASE GoOn(r, "finding", "none")
        <4>1. Moved(r, "finding")
          BY <1>0, <3>3, ReadGoesOn, ReadEnds
        <4> QED
          BY <2>1, <4>1, ExecutedKeepsCache DEF CacheInvariant, TypeOK, CacheIsBehindStore, Moved
      <3> QED
        BY <3>1, <3>2, <3>3
    <2>2. CASE /\ commands' = (commands \ {c}) \cup
                     {[reader |-> r, op |-> "DEL", id |-> c.id, stage |-> "sent"]}
               /\ GoOn(r, "removing", "none")
               /\ UNCHANGED <<transactions, cache, link>>
      <3>1. Moved(r, "removing")
        BY <1>0, <2>2, ReadGoesOn, ReadEnds
      <3>2. [reader |-> r, op |-> "DEL", id |-> c.id, stage |-> "sent"] \in Command
        BY <1>0 DEF TypeOK, Command
      <3> QED
        BY <2>2, <3>1, <3>2 DEF CacheInvariant, TypeOK, CacheIsBehindStore, Moved
    <2> QED
      BY <1>2, <2>1, <2>2 DEF GetReplies
  <1>3. ASSUME NEW r \in Readers, NEW c \in commands, RemoveReplies(r, c)
        PROVE  CacheInvariant'
    <2>1. Moved(r, "finding")
      BY <1>0, <1>3, ReadGoesOn DEF RemoveReplies
    <2> QED
      BY <1>3, <2>1, ExecutedKeepsCache
      DEF RemoveReplies, CacheInvariant, TypeOK, CacheIsBehindStore, Moved
  <1>4. ASSUME NEW r \in Readers, NEW c \in commands, SetReplies(r, c)
        PROVE  CacheInvariant'
    <2>1. reads[r].id \in Ids /\ reads[r].id # "none"
      BY <1>0, CacheAssumption DEF TypeOK, Read
    <2>2. Moved(r, "answered")
      BY <1>0, <1>4, <2>1, ReadEnds DEF SetReplies
    <2> QED
      BY <1>4, <2>2, ExecutedKeepsCache
      DEF SetReplies, CacheInvariant, TypeOK, CacheIsBehindStore, Moved
  <1>5. ASSUME NEW r \in Readers, RedisFails(r) PROVE CacheInvariant'
    <2>1. reads[r].id \in Ids /\ reads[r].id # "none"
      BY <1>0, CacheAssumption DEF TypeOK, Read
    <2>2. Moved(r, "finding") \/ Moved(r, "answered")
      <3>1. CASE GoOn(r, "finding", "none")
        BY <1>0, <3>1, ReadGoesOn, ReadEnds
      <3>2. CASE GoOn(r, "answered", reads[r].id)
        BY <1>0, <2>1, <3>2, ReadGoesOn, ReadEnds
      <3> QED
        BY <1>5, <3>1, <3>2 DEF RedisFails
    <2> QED
      BY <1>5, <2>2 DEF RedisFails, CacheInvariant, TypeOK, CacheIsBehindStore, Moved
  <1>6. ASSUME NEW r \in Readers, FindById(r) PROVE CacheInvariant'
    <2>1. reads[r].id \in Ids /\ reads[r].id # "none"
      BY <1>0, CacheAssumption DEF TypeOK, Read
    <2>2. CASE /\ reads[r].id \in transactions \cap Cacheable
               /\ GoOn(r, "setting", "none")
               /\ Issue(r, "SET", reads[r].id)
      <3>1. Moved(r, "setting")
        BY <1>0, <2>2, ReadGoesOn, ReadEnds
      <3>2. /\ link' \in Links /\ commands' \subseteq Command
            /\ \A c \in commands' : c \in commands \/ (c.op = "SET" /\ c.id = reads[r].id)
        BY <1>0, <2>1, <2>2, IssueTyped
      <3> QED
        BY <1>6, <2>2, <3>1, <3>2 DEF FindById, CacheInvariant, TypeOK, CacheIsBehindStore, Moved
    <2>3. CASE /\ \/ GoOn(r, "answered", reads[r].id)
                  \/ GoOn(r, "answered", "not_found")
               /\ UNCHANGED <<link, commands>>
      <3>1. Moved(r, "answered")
        BY <1>0, <2>1, <2>3, ReadGoesOn, ReadEnds
      <3> QED
        BY <1>6, <2>3, <3>1 DEF FindById, CacheInvariant, TypeOK, CacheIsBehindStore, Moved
    <2> QED
      BY <1>6, <2>2, <2>3 DEF FindById
  <1>7. ASSUME NEW r \in Readers, FindByIdFails(r) PROVE CacheInvariant'
    <2>1. Moved(r, "answered")
      BY <1>0, <1>7, ReadEnds DEF FindByIdFails
    <2> QED
      BY <1>7, <2>1 DEF FindByIdFails, CacheInvariant, TypeOK, CacheIsBehindStore, Moved
  <1>8. ASSUME NEW r \in Readers, Finish(r) PROVE CacheInvariant'
    BY <1>8, NoReadTyped DEF Finish, CacheInvariant, TypeOK, CacheIsBehindStore
  <1>9. ASSUME NEW c \in commands, ExecutedUnheard(c) PROVE CacheInvariant'
    BY <1>9, ExecutedKeepsCache
    DEF ExecutedUnheard, CacheInvariant, TypeOK, CacheIsBehindStore
  <1>10. ASSUME NEW id \in Ids, Commit(id) PROVE CacheInvariant'
    BY <1>10 DEF Commit, CacheInvariant, TypeOK, CacheIsBehindStore
  <1>11. ASSUME NEW id \in Ids, EntryChanges(id) PROVE CacheInvariant'
    <2>1. PICK entry \in {NoEntry, Garbage} \cup (transactions \ {id}) :
            cache' = [cache EXCEPT ![id] = entry]
      BY <1>11 DEF EntryChanges
    <2>2. entry \in Entries /\ (entry \in Ids => entry \in transactions)
      BY <1>0, CacheAssumption DEF TypeOK, Entries
    <2> QED
      BY <1>11, <2>1, <2>2 DEF EntryChanges, CacheInvariant, TypeOK, CacheIsBehindStore
  <1>12. ASSUME ConnectSucceeds PROVE CacheInvariant'
    <2>1. ASSUME NEW c \in commands
          PROVE  /\ [c EXCEPT !.stage = "sent"] \in Command
                 /\ [c EXCEPT !.stage = "sent"].op = c.op
                 /\ [c EXCEPT !.stage = "sent"].id = c.id
      BY <1>0 DEF TypeOK, Command
    <2>2. ASSUME NEW d \in commands'
          PROVE  d \in Command /\ (d.op = "SET" => d.id \in transactions \cap Cacheable)
      <3>1. PICK c \in commands : d = [c EXCEPT !.stage = "sent"]
        BY <1>12 DEF ConnectSucceeds
      <3> QED
        BY <2>1, <3>1 DEF CacheInvariant, CacheIsBehindStore
    <2> QED
      BY <1>12, <2>2 DEF ConnectSucceeds, CacheInvariant, TypeOK, CacheIsBehindStore, Links
  <1>13. ASSUME ConnectionLost PROVE CacheInvariant'
    BY <1>13 DEF ConnectionLost, CacheInvariant, TypeOK, CacheIsBehindStore, Links
  <1>14. CASE UNCHANGED vars
    BY <1>14 DEF vars, CacheInvariant, TypeOK, CacheIsBehindStore
  <1> QED
    BY <1>1, <1>2, <1>3, <1>4, <1>5, <1>6, <1>7, <1>8, <1>9, <1>10, <1>11, <1>12,
       <1>13, <1>14
    DEF Next

\* In every behaviour, with any number of readers and ids: every transaction in a
\* cache entry, and in a SET still on its way to Redis, is committed.
THEOREM CacheStaysBehindStore == Spec => []CacheInvariant
  <1> QED
    BY InitEstablishesCache, NextKeepsCache, PTL DEF Spec

-------------------------------------------------------------------------------
(* The refinement of TransactionReads.                                       *)

\* What TransactionReads sees of reader r: the awaits of execute are one phase.
Seen(r) ==
  IF reads[r].phase \in {"idle", "answered"}
    THEN reads[r]
    ELSE [phase |-> "reading", id |-> reads[r].id, answer |-> "none"]

\* TransactionReads sees nothing of the step.
Invisible == transactions' = transactions /\ \A q \in Readers : Seen(q)' = Seen(q)

\* The steps of execute that end no read are invisible.
LEMMA GoingOnIsInvisible ==
  ASSUME TypeOK, NEW r \in Readers, reads[r].phase \notin {"idle", "answered"},
         NEW phase \in {"finding", "removing", "setting"}, GoOn(r, phase, "none"),
         transactions' = transactions
  PROVE  Invisible
  <1>1. Moved(r, phase)
    BY ReadGoesOn
  <1> QED
    BY <1>1 DEF Moved, Seen, Invisible

\* A read may end with its own transaction if that is committed, with "not found" if
\* it is not, and with the failure of the database.
LEMMA EndIsAnAnswer ==
  ASSUME TypeOK, NEW r \in Readers, reads[r].phase \notin {"idle", "answered"},
         NEW answer,
         \/ reads[r].id \in transactions /\ answer = reads[r].id
         \/ reads[r].id \notin transactions /\ answer = "not_found"
         \/ answer = "database_error",
         GoOn(r, "answered", answer), transactions' = transactions
  PROVE  Reads!Answer(r)
  <1>1. reads[r] \in Read
    BY DEF TypeOK
  <1>2. reads' = [reads EXCEPT ![r] =
                    [phase |-> "answered", id |-> reads[r].id, answer |-> answer]]
    BY DEF GoOn
  <1>3. Seen(r) = [phase |-> "reading", id |-> reads[r].id, answer |-> "none"]
    BY DEF Seen
  <1>4. [q \in Readers |-> Seen(q)'] =
          [[q \in Readers |-> Seen(q)] EXCEPT ![r] =
             [phase |-> "answered", id |-> Seen(r).id, answer |-> answer]]
    BY <1>1, <1>2, <1>3 DEF Seen, TypeOK
  <1> QED
    BY <1>3, <1>4 DEF Reads!Answer, Seen

\* Every step is one of TransactionReads, or invisible to it.
LEMMA NextIsARead ==
  ASSUME CacheInvariant, [Next]_vars
  PROVE  Reads!Next \/ Invisible
  <1>0. TypeOK
    BY DEF CacheInvariant
  <1>1. ASSUME NEW r \in Readers, NEW id \in Ids, Execute(r, id) PROVE Reads!Start(r, id)
    <2>1. reads' = [reads EXCEPT ![r] = [phase |-> "getting", id |-> id, answer |-> "none"]]
          /\ reads[r].phase = "idle" /\ transactions' = transactions
      BY <1>1 DEF Execute
    <2>2. [q \in Readers |-> Seen(q)'] =
            [[q \in Readers |-> Seen(q)] EXCEPT ![r] =
               [phase |-> "reading", id |-> id, answer |-> "none"]]
      BY <1>0, <2>1 DEF Seen, TypeOK
    <2> QED
      BY <2>1, <2>2 DEF Reads!Start, Seen
  <1>2. ASSUME NEW r \in Readers, NEW c \in commands, GetReplies(r, c)
        PROVE  Reads!Answer(r) \/ Invisible
    <2>1. transactions' = transactions /\ reads[r].phase = "getting"
      BY <1>2 DEF GetReplies, Executed
    <2>2. CASE /\ Parsed(cache[c.id], reads[r].id) = "hit"
               /\ GoOn(r, "answered", cache[c.id])
      <3>1. cache[c.id] = reads[r].id /\ reads[r].id \in transactions
        BY <1>2, <2>2, HitIsCommitted DEF GetReplies
      <3> QED
        BY <1>0, <2>1, <2>2, <3>1, EndIsAnAnswer
    <2>3. CASE GoOn(r, "finding", "none") \/ GoOn(r, "removing", "none")
      BY <1>0, <2>1, <2>3, GoingOnIsInvisible
    <2> QED
      BY <1>2, <2>2, <2>3 DEF GetReplies
  <1>3. ASSUME NEW r \in Readers, NEW c \in commands, RemoveReplies(r, c)
        PROVE  Invisible
    BY <1>0, <1>3, GoingOnIsInvisible DEF RemoveReplies, Executed
  <1>4. ASSUME NEW r \in Readers, reads[r].phase = "setting",
               GoOn(r, "answered", reads[r].id), transactions' = transactions
        PROVE  Reads!Answer(r)
    BY <1>0, <1>4, EndIsAnAnswer DEF CacheInvariant, CacheIsBehindStore
  <1>5. ASSUME NEW r \in Readers, NEW c \in commands, SetReplies(r, c)
        PROVE  Reads!Answer(r)
    BY <1>4, <1>5 DEF SetReplies, Executed
  <1>6. ASSUME NEW r \in Readers, RedisFails(r)
        PROVE  Reads!Answer(r) \/ Invisible
    <2>1. CASE reads[r].phase \in {"getting", "removing"} /\ GoOn(r, "finding", "none")
      <3>1. transactions' = transactions /\ reads[r].phase \notin {"idle", "answered"}
        BY <1>6, <2>1 DEF RedisFails
      <3> QED
        BY <1>0, <2>1, <3>1, GoingOnIsInvisible
    <2>2. CASE reads[r].phase = "setting" /\ GoOn(r, "answered", reads[r].id)
      BY <1>4, <1>6, <2>2 DEF RedisFails
    <2> QED
      BY <1>6, <2>1, <2>2 DEF RedisFails
  <1>7. ASSUME NEW r \in Readers, FindById(r)
        PROVE  Reads!Answer(r) \/ Invisible
    <2>1. transactions' = transactions /\ reads[r].phase = "finding"
      BY <1>7 DEF FindById
    <2>2. CASE GoOn(r, "setting", "none")
      BY <1>0, <2>1, <2>2, GoingOnIsInvisible
    <2>3. CASE reads[r].id \in transactions /\ GoOn(r, "answered", reads[r].id)
      BY <1>0, <2>1, <2>3, EndIsAnAnswer
    <2>4. CASE reads[r].id \notin transactions /\ GoOn(r, "answered", "not_found")
      BY <1>0, <2>1, <2>4, EndIsAnAnswer
    <2> QED
      BY <1>7, <2>2, <2>3, <2>4 DEF FindById
  <1>8. ASSUME NEW r \in Readers, FindByIdFails(r) PROVE Reads!Answer(r)
    BY <1>0, <1>8, EndIsAnAnswer DEF FindByIdFails
  <1>9. ASSUME NEW r \in Readers, Finish(r) PROVE Reads!Finish(r)
    <2>1. [q \in Readers |-> Seen(q)'] =
            [[q \in Readers |-> Seen(q)] EXCEPT ![r] = NoRead]
      BY <1>0, <1>9, NoReadTyped DEF Finish, Seen, TypeOK
    <2> QED
      BY <1>9, <2>1 DEF Finish, Reads!Finish, Reads!NoRead, NoRead, Seen
  <1>10. ASSUME NEW id \in Ids, Commit(id) PROVE Reads!Commit(id)
    BY <1>10 DEF Commit, Reads!Commit
  <1>11. ASSUME \/ \E c \in commands : ExecutedUnheard(c)
                \/ \E id \in Ids : EntryChanges(id)
                \/ ConnectSucceeds
                \/ ConnectionLost
                \/ UNCHANGED vars
         PROVE  Invisible
    BY <1>11
    DEF ExecutedUnheard, Executed, EntryChanges, ConnectSucceeds, ConnectionLost, vars, Seen, Invisible
  <1> QED
    BY <1>1, <1>2, <1>3, <1>5, <1>6, <1>7, <1>8, <1>9, <1>10, <1>11 DEF Next, Reads!Next

\* The cached read implements the plain one: a read answers with its own
\* transaction or "not found" as PostgreSQL has it at one instant of the read, for
\* any number of readers and ids and whatever Redis does.
THEOREM CachedReadImplementsReads == Spec => ImplementsReads
  <1>1. Init => Reads!Init
    BY NoReadTyped DEF Init, Reads!Init, Reads!NoRead, NoRead
  <1>2. CacheInvariant /\ [Next]_vars
          => [Reads!Next]_<<transactions, [r \in Readers |-> Seen(r)]>>
    BY NextIsARead DEF Invisible
  <1> QED
    BY <1>1, <1>2, CacheStaysBehindStore, PTL DEF Spec, Reads!Spec, ImplementsReads, Seen
===============================================================================
