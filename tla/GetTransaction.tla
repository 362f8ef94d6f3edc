---------------------------- MODULE GetTransaction ----------------------------
(***************************************************************************)
(* GetTransaction.execute over RedisTransactionCache, RedisCommandExecutor  *)
(* and PostgresTransactionRepository.findById: the cache-aside read of an   *)
(* approved transaction.                                                    *)
(*                                                                         *)
(* Redis is slow and unreliable.  The deadline of a command frees the       *)
(* request but does not cancel the command: it may still be waiting for the *)
(* shared connection attempt, or be executed by Redis, long after the       *)
(* request has been answered.                                               *)
(***************************************************************************)
EXTENDS Naturals, FiniteSets

CONSTANTS
  Readers,    \* slots for requests to GET /transactions/:id
  Ids,        \* transaction ids
  Cacheable,  \* the ids whose transaction passes cachedTransactionSchema
  NoEntry,    \* Redis has no entry under the key
  Garbage,    \* an entry that is not a cached transaction
  MaxOutstanding  \* bound on the outstanding commands when a read starts

\* Redis has room for at least one key; the ways a read can fail are no ids.
ASSUME CacheAssumption ==
  /\ Ids # {} /\ Cacheable \subseteq Ids
  /\ {NoEntry, Garbage, "none", "not_found", "database_error"} \cap Ids = {}
  /\ NoEntry # Garbage
  /\ MaxOutstanding \in Nat

VARIABLES
  transactions,  \* the ids of the rows of the transactions table
  cache,         \* Redis: the entry under each transaction's cache key
  link,          \* the connection of the Redis client, and connectionAttempt
  commands,      \* commands handed to the executor and not yet executed
  reads          \* what each reader is doing

vars == <<transactions, cache, link, commands, reads>>

\* An entry is the id of the transaction whose JSON it holds.
Entries == Ids \cup {NoEntry, Garbage}

\* connecting: connectionAttempt is not null.
Links == {"down", "connecting", "connected"}

\* stage: awaiting the connection attempt, or sent to Redis.
Command ==
  [reader : Readers, op : {"GET", "SET", "DEL"}, id : Ids,
   stage : {"waiting", "sent"}]

\* The awaits of execute: transactionCache.get, its removeInvalidEntry, findById,
\* transactionCache.set.
Phases == {"idle", "getting", "removing", "finding", "setting", "answered"}

\* answer: the transaction returned, named by its id, or how execute failed.
Read ==
  [phase : Phases, id : Ids, answer : Ids \cup {"none", "not_found", "database_error"}]

NoRead == [phase |-> "idle", id |-> CHOOSE i \in Ids : TRUE, answer |-> "none"]

Init ==
  /\ transactions = {}
  /\ cache = [id \in Ids |-> NoEntry]
  /\ link = "down"
  /\ commands = {}
  /\ reads = [r \in Readers |-> NoRead]

-------------------------------------------------------------------------------
(* RedisCommandExecutor and Redis                                           *)

\* execute(): join or start the connection attempt, or send at once.
Issue(r, op, id) ==
  /\ link' = IF link = "down" THEN "connecting" ELSE link
  /\ commands' = commands \cup
       {[reader |-> r, op |-> op, id |-> id,
         stage |-> IF link = "connected" THEN "sent" ELSE "waiting"]}

\* connect() resolves: everyone who awaited the attempt sends, also on behalf of
\* requests that gave up in the meantime.
ConnectSucceeds ==
  /\ link = "connecting"
  /\ link' = "connected"
  /\ commands' = {[c EXCEPT !.stage = "sent"] : c \in commands}
  /\ UNCHANGED <<transactions, cache, reads>>

\* External: connect() rejects, or the connection breaks, and what was outstanding
\* on it is lost; connectionAttempt is null again.  The requests that awaited it
\* see the error in RedisFails.
ConnectionLost ==
  /\ link # "down"
  /\ link' = "down"
  /\ commands' = {}
  /\ UNCHANGED <<transactions, cache, reads>>

\* External: entries expire or Redis is emptied; a foreign writer leaves an entry
\* that does not belong under the key.
EntryChanges(id) ==
  /\ \E entry \in {NoEntry, Garbage} \cup (transactions \ {id}) :
       /\ cache[id] # entry
       /\ cache' = [cache EXCEPT ![id] = entry]
  /\ UNCHANGED <<transactions, link, commands, reads>>

\* External: what Redis does with a command it has received.
Executed(c) ==
  /\ c \in commands /\ c.stage = "sent"
  /\ commands' = commands \ {c}
  /\ cache' = CASE c.op = "SET" -> [cache EXCEPT ![c.id] = c.id]
                [] c.op = "DEL" -> [cache EXCEPT ![c.id] = NoEntry]
                [] c.op = "GET" -> cache
  /\ UNCHANGED <<transactions, link>>

\* The command whose reply the reader awaits.
Awaits(r, c) ==
  /\ c.reader = r /\ c.id = reads[r].id
  /\ c.op = CASE reads[r].phase = "getting"  -> "GET"
              [] reads[r].phase = "removing" -> "DEL"
              [] reads[r].phase = "setting"  -> "SET"
              [] OTHER -> "none"

\* A command is executed and its reply is lost or nobody awaits it any more.
ExecutedUnheard(c) == Executed(c) /\ UNCHANGED reads

-------------------------------------------------------------------------------
(* GetTransaction.execute                                                   *)

\* Mutant: the id inside the entry is not compared with the one asked for.
ParsedTrusting(entry, id) ==
  CASE entry = NoEntry -> "miss"
    [] entry \in Ids   -> "hit"
    [] entry = Garbage -> "invalid"

\* The reply to GET, parsed: JSON.parse, cachedTransactionSchema, the id check.
Parsed(entry, id) ==
  CASE entry = NoEntry            -> "miss"
    [] entry = id                 -> "hit"
    [] entry \notin {NoEntry, id} -> "invalid"

Execute(r, id) ==
  /\ reads[r].phase = "idle"
  /\ Cardinality(commands) < MaxOutstanding
  /\ reads' = [reads EXCEPT ![r] = [phase |-> "getting", id |-> id, answer |-> "none"]]
  /\ Issue(r, "GET", id)
  /\ UNCHANGED <<transactions, cache>>

\* The reader gets on to phase, or is done with answer.
GoOn(r, phase, answer) ==
  reads' = [reads EXCEPT ![r] = [phase |-> phase, id |-> @.id, answer |-> answer]]

\* transactionCache.get: a hit is the answer; an invalid entry is removed first,
\* then it is a miss.
GetReplies(r, c) ==
  /\ reads[r].phase = "getting" /\ Awaits(r, c)
  /\ LET parsed == Parsed(cache[c.id], reads[r].id)
     IN  \/ /\ parsed # "invalid"
            /\ Executed(c)
            /\ IF parsed = "hit" THEN GoOn(r, "answered", cache[c.id])
                                 ELSE GoOn(r, "finding", "none")
         \/ /\ parsed = "invalid"
            /\ c \in commands /\ c.stage = "sent"
            /\ commands' = (commands \ {c}) \cup
                 {[reader |-> r, op |-> "DEL", id |-> c.id, stage |-> "sent"]}
            /\ GoOn(r, "removing", "none")
            /\ UNCHANGED <<transactions, cache, link>>

\* removeInvalidEntry and then get() throw; execute falls back to PostgreSQL.
RemoveReplies(r, c) ==
  /\ reads[r].phase = "removing" /\ Awaits(r, c)
  /\ Executed(c)
  /\ GoOn(r, "finding", "none")

\* Mutant: the removal of an invalid entry has no deadline.
RedisFailsExceptRemoval(r) ==
  /\ \/ reads[r].phase = "getting" /\ GoOn(r, "finding", "none")
     \/ reads[r].phase = "setting" /\ GoOn(r, "answered", reads[r].id)
  /\ UNCHANGED <<transactions, cache, link, commands>>

\* A Redis command rejects or its deadline passes: the read goes on without it,
\* and the command stays where it is.
RedisFails(r) ==
  /\ \/ reads[r].phase \in {"getting", "removing"} /\ GoOn(r, "finding", "none")
     \/ reads[r].phase = "setting" /\ GoOn(r, "answered", reads[r].id)
  /\ UNCHANGED <<transactions, cache, link, commands>>

\* Mutant: the result of findById is cached before it is looked at.
FindByIdCachesFirst(r) ==
  /\ reads[r].phase = "finding"
  /\ Issue(r, "SET", reads[r].id)
  /\ IF reads[r].id \in transactions THEN GoOn(r, "setting", "none")
                                     ELSE GoOn(r, "answered", "not_found")
  /\ UNCHANGED <<transactions, cache>>

\* findById answers.  A transaction that was found is written to the cache unless
\* the schema refuses it, which throws before the command is issued.
FindById(r) ==
  /\ reads[r].phase = "finding"
  /\ \/ /\ reads[r].id \in transactions \cap Cacheable
        /\ GoOn(r, "setting", "none")
        /\ Issue(r, "SET", reads[r].id)
     \/ /\ reads[r].id \in transactions \ Cacheable
        /\ GoOn(r, "answered", reads[r].id)
        /\ UNCHANGED <<link, commands>>
     \/ /\ reads[r].id \notin transactions
        /\ GoOn(r, "answered", "not_found")
        /\ UNCHANGED <<link, commands>>
  /\ UNCHANGED <<transactions, cache>>

\* findById throws and so does execute.
FindByIdFails(r) ==
  /\ reads[r].phase = "finding"
  /\ GoOn(r, "answered", "database_error")
  /\ UNCHANGED <<transactions, cache, link, commands>>

SetReplies(r, c) ==
  /\ reads[r].phase = "setting" /\ Awaits(r, c)
  /\ Executed(c)
  /\ GoOn(r, "answered", reads[r].id)

\* The response is sent.
Finish(r) ==
  /\ reads[r].phase = "answered"
  /\ reads' = [reads EXCEPT ![r] = NoRead]
  /\ UNCHANGED <<transactions, cache, link, commands>>

\* completeIdempotencyOperation of some execution of CreateTransaction commits.
Commit(id) ==
  /\ id \notin transactions
  /\ transactions' = transactions \cup {id}
  /\ UNCHANGED <<cache, link, commands, reads>>

Next ==
  \/ \E r \in Readers :
       \/ \E id \in Ids : Execute(r, id)
       \/ \E c \in commands : GetReplies(r, c)
       \/ \E c \in commands : RemoveReplies(r, c)
       \/ \E c \in commands : SetReplies(r, c)
       \/ RedisFails(r)
       \/ FindById(r)
       \/ FindByIdFails(r)
       \/ Finish(r)
  \/ \E c \in commands : ExecutedUnheard(c)
  \/ \E id \in Ids : Commit(id) \/ EntryChanges(id)
  \/ ConnectSucceeds
  \/ ConnectionLost

Spec == Init /\ [][Next]_vars

\* A command's deadline passes if nothing else happens, and PostgreSQL answers or
\* fails.  Nothing is assumed of Redis.
FairSpec ==
  /\ Spec
  /\ \A r \in Readers :
       WF_vars(RedisFails(r)) /\ WF_vars(FindById(r) \/ FindByIdFails(r))

-------------------------------------------------------------------------------
(* Properties                                                               *)

TypeOK ==
  /\ transactions \subseteq Ids
  /\ cache \in [Ids -> Entries]
  /\ link \in Links
  /\ commands \subseteq Command
  /\ reads \in [Readers -> Read]
  /\ \A r \in Readers : reads[r].answer = "none" <=> reads[r].phase # "answered"

\* Nothing reaches the cache ahead of the database: every transaction in an entry,
\* and in a SET that is still on its way, however late, is committed; and the
\* application sends no SET for a transaction the schema refuses.
CacheIsBehindStore ==
  /\ \A id \in Ids : cache[id] \in Ids => cache[id] \in transactions
  /\ \A c \in commands : c.op = "SET" => c.id \in transactions \cap Cacheable
  /\ \A r \in Readers : reads[r].phase = "setting" => reads[r].id \in transactions

\* The two together: what an entry or a command says of the table, in states of the
\* right shape, is what every step of a read relies on.
CacheInvariant == TypeOK /\ CacheIsBehindStore

Reads ==
  INSTANCE TransactionReads WITH
    reads <- [r \in Readers |->
                IF reads[r].phase \in {"idle", "answered"}
                  THEN reads[r]
                  ELSE [phase |-> "reading", id |-> reads[r].id, answer |-> "none"]]

\* The cached read implements the plain one: whatever Redis loses, delays,
\* reorders or holds, a read answers with its own transaction or "not found" as
\* PostgreSQL has it at one instant of the read.  In particular a read that starts
\* after the commit never answers "not found", and a Redis failure is not visible.
ImplementsReads == Reads!Spec

\* Every read ends, even if Redis never answers.
ReadsEnd == \A r \in Readers : reads[r].phase = "getting" ~> reads[r].phase = "answered"
===============================================================================
