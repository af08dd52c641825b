---------------------------- MODULE DnsTransport ----------------------------
(***************************************************************************)
(* The UDP transport of one resolver (dns/transport.rs): queries take a    *)
(* slot and a 16-bit identifier, register under it, send a datagram and    *)
(* wait; one receiver task correlates what arrives; a guard takes the      *)
(* registration back when a query times out or is cancelled.  Datagrams    *)
(* are lost, repeated, delayed and reordered, and an identifier comes      *)
(* round again while answers to its last user are still under way.         *)
(***************************************************************************)
EXTENDS Integers, FiniteSets

CONSTANTS
    Queries,    \* bound: the queries of a run, each used once
    Questions,  \* name, type and class
    Width,      \* bound: number of identifiers, 2^16 in the code
    Slots       \* bound: queries between slot and end, 4096 in the code

Ids == 0..(Width - 1)
Free == "free"

ASSUME TransportAssumption == Width \in Nat \ {0} /\ Slots \in Nat /\ Free \notin Queries

NoQuestion == "no question"

VARIABLES
    nextId,     \* next_id
    pending,    \* id -> the waiting query, or Free
    query,      \* each query: its step, identifier, question and received answer
    cleanups,   \* identifiers that a spawned task is about to remove
    wire        \* answers that may arrive: identifier and question

netVars == <<nextId, pending, query, cleanups, wire>>

NoQuery == [pc |-> "off", id |-> 0, ask |-> NoQuestion, got |-> NoQuestion]

NetInit ==
    /\ nextId = 1 % Width
    /\ pending = [i \in Ids |-> Free]
    /\ query = [q \in Queries |-> NoQuery]
    /\ cleanups = {} /\ wire = {}

QueryAt(q, pcs) == query[q].pc \in pcs
Holding == {"pick", "register", "send", "wait"}

\* The slot semaphore.
Ask(q) ==
    /\ QueryAt(q, {"off"})
    /\ Cardinality({p \in Queries : QueryAt(p, Holding)}) < Slots
    /\ \E question \in Questions :
          query' = [query EXCEPT ![q] = [NoQuery EXCEPT !.pc = "pick", !.ask = question]]
    /\ UNCHANGED <<nextId, pending, cleanups, wire>>

\* fetch_add, then a look into the map; a taken identifier is skipped.
Pick(q) ==
    /\ QueryAt(q, {"pick"})
    /\ nextId' = (nextId + 1) % Width
    /\ query' = IF pending[nextId] = Free
                THEN [query EXCEPT ![q].pc = "register", ![q].id = nextId] ELSE query
    /\ UNCHANGED <<pending, cleanups, wire>>

\* The map is locked again: an identifier picked twice meanwhile is overwritten, and the
\* channel of its first owner closes.
Register(q) ==
    /\ QueryAt(q, {"register"})
    /\ pending' = [pending EXCEPT ![query[q].id] = q]
    /\ query' = [query EXCEPT ![q].pc = "send"]
    /\ UNCHANGED <<nextId, cleanups, wire>>

\* The datagram leaves; the server answers it, or does not.
SendQuery(q) ==
    /\ QueryAt(q, {"send"})
    /\ query' = [query EXCEPT ![q].pc = "wait"]
    /\ wire' \in {wire, wire \cup {[id |-> query[q].id, ask |-> query[q].ask]}}
    /\ UNCHANGED <<nextId, pending, cleanups>>

\* Mutant: the identifier alone decides.
CorrelatedById(r) == pending[r.id] # Free

\* The receiver task: identifier and question must both be those of the registration.
Correlated(r) == pending[r.id] # Free /\ query[pending[r.id]].ask = r.ask

\* An answer arrives; it may arrive again later, or an unrelated message with it.
Receive(r) ==
    /\ r \in wire
    /\ wire' \in {wire, wire \ {r}}
    /\ IF Correlated(r)
       THEN /\ pending' = [pending EXCEPT ![r.id] = Free]
            /\ query' = IF QueryAt(pending[r.id], {"send", "wait"})
                        THEN [query EXCEPT ![pending[r.id]].got = r.ask] ELSE query
       ELSE UNCHANGED <<pending, query>>
    /\ UNCHANGED <<nextId, cleanups>>

\* receiver.await: the guard is disarmed; the query ends with its answer, or with an error
\* if the message is not correlated after all.
AcceptAnswer(q) ==
    /\ QueryAt(q, {"wait"}) /\ query[q].got # NoQuestion
    /\ query' = [query EXCEPT ![q].pc = "done",
                              ![q].got = IF @ = query[q].ask THEN @ ELSE NoQuestion]
    /\ UNCHANGED <<nextId, pending, cleanups, wire>>

\* PendingQueryGuard::drop: at once if the map is not locked, by a spawned task otherwise.
Unregister(i) ==
    \/ pending' = [pending EXCEPT ![i] = Free] /\ UNCHANGED cleanups
    \/ cleanups' = cleanups \cup {i} /\ UNCHANGED pending

\* Timeout, send error, closed channel or cancellation.
Drop(q) ==
    /\ QueryAt(q, Holding)
    /\ IF QueryAt(q, {"send", "wait"}) THEN Unregister(query[q].id) ELSE UNCHANGED <<pending, cleanups>>
    /\ query' = [query EXCEPT ![q].pc = "done", ![q].got = NoQuestion]
    /\ UNCHANGED <<nextId, wire>>

\* The spawned task gets the lock; whoever holds the identifier by then loses it.
Cleanup(i) ==
    /\ i \in cleanups
    /\ cleanups' = cleanups \ {i}
    /\ pending' = [pending EXCEPT ![i] = Free]
    /\ UNCHANGED <<nextId, query, wire>>

NetNext ==
    \/ \E i \in cleanups : Cleanup(i)
    \/ \E r \in wire : Receive(r)
    \/ \E q \in Queries : Ask(q) \/ Pick(q) \/ Register(q) \/ SendQuery(q) \/ AcceptAnswer(q)
                          \/ Drop(q)

NetSpec == NetInit /\ [][NetNext]_netVars

-----------------------------------------------------------------------------
NetTypeOK ==
    /\ nextId \in Ids /\ pending \in [Ids -> Queries \cup {Free}]
    /\ query \in [Queries -> [pc : Holding \cup {"off", "done"}, id : Ids,
                              ask : Questions \cup {NoQuestion},
                              got : Questions \cup {NoQuestion}]]
    /\ cleanups \subseteq Ids /\ wire \subseteq [id : Ids, ask : Questions]

\* The channel of a query never gets the answer to another question, which would end it while
\* its own is under way: whatever arrives late, twice or out of order, and however its
\* identifier was used before.
AnswerMatches == \A q \in Queries : query[q].got \in {NoQuestion, query[q].ask}

\* Every registered identifier belongs to a query that still waits for it or is about to be
\* removed: cancelled queries do not use up the identifiers, which would end in the
\* endless search of Pick.
NoLeak ==
    \A i \in Ids : pending[i] # Free =>
        \/ i \in cleanups
        \/ QueryAt(pending[i], {"send", "wait"}) /\ query[pending[i]].id = i
\* Both: an identifier that comes round again disturbs neither the answers nor the map.
TransportSafe == AnswerMatches /\ NoLeak
=============================================================================
