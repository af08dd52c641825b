------------------------------ MODULE DnsProofs ------------------------------
(***************************************************************************)
(* Proofs about the DNS layer: the limits of the network governor, for     *)
(* every ceiling and every sequence of judgements; the UDP transport, for  *)
(* every number of queries, identifiers and slots; the cadence and the     *)
(* books of the requests, for every number of requests, reservations and   *)
(* rates; the verdict on a name and on a zone, for every number of         *)
(* resolvers and every order of their answers.                             *)
(***************************************************************************)
EXTENDS NetworkGovernor, DnsTransport, DnsCadence, DnsEngine, FiniteSetTheorems,
        SequenceTheorems, TLAPS

-----------------------------------------------------------------------------
(* The governor stays between its floors and its ceilings.  GovTypeOK and    *)
(* LimitsHold are inductive together: a rate that is an integer above the    *)
(* floor is needed to bound what a step makes of it, and the floor keeps     *)
(* zero, which means unlimited, from being reached.                          *)


\* What a backoff and a recovery compute is an integer, rounded either way.
LEMMA RoundedRates ==
    ASSUME NEW r \in Nat
    PROVE  Seventy(r) \subseteq Int /\ HundredTen(r) \subseteq Int
BY DEF Seventy, HundredTen

\* Half of a limit is no more than the limit.
LEMMA HalfBelow == ASSUME NEW c \in Nat PROVE c \div 2 \in Nat /\ c \div 2 <= c
OBVIOUS

\* The limits a governor starts with.
LEMMA StartsWithin ==
    ASSUME NEW m \in {"fixed", "adaptive"}, NEW r \in Nat, NEW c \in Nat \ {0}
    PROVE  /\ InitialRate(m, r) \in Nat /\ InitialConcurrency(m, c) \in Nat
           /\ InitialRate(m, r) = 0 <=> r = 0
           /\ Least(10, r) <= InitialRate(m, r) /\ InitialRate(m, r) <= r
           /\ Least(8, c) <= InitialConcurrency(m, c) /\ InitialConcurrency(m, c) <= c
BY DEF InitialRate, InitialConcurrency, Clamp, Least, Most

GovInv == GovTypeOK /\ LimitsHold

LEMMA GovInitInv == GovInit => GovInv
<1> SUFFICES ASSUME GovInit PROVE GovInv
    OBVIOUS
<1>1. max_rate \in Nat /\ max_concurrency \in Nat \ {0}
    BY GovernorAssumption DEF GovInit
<1>2. /\ rate = InitialRate(mode, max_rate) /\ concurrency = InitialConcurrency(mode, max_concurrency)
      /\ mode \in {"fixed", "adaptive"}
    BY DEF GovInit
<1>3. LimitsHold /\ rate \in Nat /\ concurrency \in Nat
    BY <1>1, <1>2, StartsWithin DEF LimitsHold
<1>4. elapsed \in BOOLEAN
    BY DEF GovInit
<1>5. max_rate \in MaxRates /\ max_concurrency \in MaxConcurrencies /\ judged = "none" /\ healthy = 0
    BY DEF GovInit
<1> QED BY <1>2, <1>3, <1>4, <1>5 DEF GovInv, GovTypeOK

\* A bad window lowers both limits, to their floors at most.
LEMMA BackOffKeeps ==
    ASSUME GovInv, BackOff
    PROVE  /\ rate' \in Nat /\ concurrency' \in Nat
           /\ rate' = 0 <=> max_rate = 0
           /\ Least(10, max_rate) <= rate' /\ rate' <= max_rate
           /\ Least(8, max_concurrency) <= concurrency' /\ concurrency' <= max_concurrency
<1>1. max_rate \in Nat /\ max_concurrency \in Nat \ {0} /\ rate \in Nat /\ concurrency \in Nat
    BY GovernorAssumption DEF GovInv, GovTypeOK
<1>2. PICK r \in Seventy(rate) : rate' = Reduced(r)
    BY DEF BackOff
<1>3. r \in Int
    BY <1>1, RoundedRates
<1>4. /\ rate' \in Nat /\ (rate' = 0 <=> max_rate = 0)
      /\ Least(10, max_rate) <= rate' /\ rate' <= max_rate
    BY <1>1, <1>2, <1>3 DEF GovInv, LimitsHold, Reduced, Clamp, Least, Most
<1>5. /\ concurrency' \in Nat
      /\ Least(8, max_concurrency) <= concurrency' /\ concurrency' <= max_concurrency
    BY <1>1, HalfBelow DEF GovInv, LimitsHold, BackOff, Clamp, Least, Most
<1> QED BY <1>4, <1>5

\* A healthy window raises both limits, to their ceilings at most.
LEMMA RecoverKeeps ==
    ASSUME GovInv, Recover
    PROVE  /\ rate' \in Nat /\ concurrency' \in Nat /\ healthy' \in 0..2
           /\ rate' = 0 <=> max_rate = 0
           /\ Least(10, max_rate) <= rate' /\ rate' <= max_rate
           /\ Least(8, max_concurrency) <= concurrency' /\ concurrency' <= max_concurrency
<1>1. /\ max_rate \in Nat /\ max_concurrency \in Nat \ {0} /\ rate \in Nat /\ concurrency \in Nat
      /\ healthy \in 0..2
    BY GovernorAssumption DEF GovInv, GovTypeOK
<1>2. CASE CountHealthy < 3
    BY <1>1, <1>2 DEF GovInv, LimitsHold, Recover, CountHealthy
<1>3. CASE ~(CountHealthy < 3)
    <2>1. PICK r \in HundredTen(rate) : rate' = Increased(r)
        BY <1>3 DEF Recover
    <2>2. r \in Int
        BY <1>1, <2>1, RoundedRates
    <2>3. /\ rate' \in Nat /\ (rate' = 0 <=> max_rate = 0)
          /\ Least(10, max_rate) <= rate' /\ rate' <= max_rate
        BY <1>1, <2>1, <2>2 DEF GovInv, LimitsHold, Increased, Least, Most
    <2>4. /\ concurrency' \in Nat /\ healthy' \in 0..2
          /\ Least(8, max_concurrency) <= concurrency' /\ concurrency' <= max_concurrency
        BY <1>1, <1>3 DEF GovInv, LimitsHold, Recover, Least
    <2> QED BY <2>3, <2>4
<1> QED BY <1>2, <1>3

LEMMA GovStep == GovInv /\ [GovNext]_govVars => GovInv'
<1> SUFFICES ASSUME GovInv, [GovNext]_govVars PROVE GovInv'
    OBVIOUS
<1>1. CASE Elapse
    BY <1>1 DEF Elapse, GovInv, GovTypeOK, LimitsHold
<1>2. CASE Observe
    <2>1. /\ mode' = mode /\ max_rate' = max_rate /\ max_concurrency' = max_concurrency
          /\ judged' \in {"bad", "neutral", "healthy"}
        BY <1>2 DEF Observe, EvaluateElapsedWindow
    <2>0. elapsed' \in BOOLEAN
        BY <1>2 DEF Observe, EvaluateElapsedWindow
    <2>2. CASE judged' = "bad" /\ BackOff
        <3>1. healthy' = 0
            BY <2>2 DEF BackOff
        <3>2. LimitsHold' /\ rate' \in Nat /\ concurrency' \in Nat
            BY <2>1, <2>2, BackOffKeeps DEF LimitsHold, Least
        <3> QED BY <2>1, <3>1, <3>2, <2>0 DEF GovInv, GovTypeOK
    <2>3. CASE judged' = "neutral" /\ healthy' = 0 /\ UNCHANGED <<rate, concurrency>>
        <3>1. LimitsHold' /\ rate' \in Nat /\ concurrency' \in Nat
            BY <2>1, <2>3 DEF GovInv, GovTypeOK, LimitsHold, Least
        <3> QED BY <2>0, <2>1, <2>3, <3>1 DEF GovInv, GovTypeOK
    <2>4. CASE judged' = "healthy" /\ Recover
        <3>1. LimitsHold' /\ rate' \in Nat /\ concurrency' \in Nat /\ healthy' \in 0..2
            BY <2>1, <2>4, RecoverKeeps DEF LimitsHold, Least
        <3> QED BY <2>0, <2>1, <3>1 DEF GovInv, GovTypeOK
    <2> QED BY <1>2, <2>2, <2>3, <2>4 DEF Observe, EvaluateElapsedWindow
<1>3. CASE UNCHANGED govVars
    BY <1>3 DEF govVars, GovInv, GovTypeOK, LimitsHold
<1> QED BY <1>1, <1>2, <1>3 DEF GovNext

\* The rate and the concurrency the governor hands out never leave the range between the floor
\* of evaluate_elapsed_window and the configured ceiling, and a limited rate never turns into
\* the zero that stands for unlimited, for every pair of ceilings.
THEOREM GovernorBounded == GovSpec => []LimitsHold
<1>1. GovInv => LimitsHold
    BY DEF GovInv
<1> QED BY <1>1, GovInitInv, GovStep, PTL DEF GovSpec

\* The count of healthy windows stays below three, so every third one acts.
THEOREM GovernorTyped == GovSpec => []GovTypeOK
<1>1. GovInv => GovTypeOK
    BY DEF GovInv
<1> QED BY <1>1, GovInitInv, GovStep, PTL DEF GovSpec

-----------------------------------------------------------------------------
(* The transport: what arrives late, twice or out of order.                *)

\* A registration is under the identifier of its query, which got past Register.
Own ==
    \A i \in Ids : pending[i] # Free =>
        query[pending[i]].id = i /\ query[pending[i]].pc \in {"send", "wait", "done"}

\* A query that has its answer is registered no more, and one that was not registered yet
\* has no answer.
Answered ==
    /\ \A i \in Ids : pending[i] # Free => query[pending[i]].got = NoQuestion
    /\ \A q \in Queries : query[q].pc \in {"off", "pick", "register"} => query[q].got = NoQuestion

Questioned == \A q \in Queries : query[q].pc # "off" => query[q].ask \in Questions

NetInv == NetTypeOK /\ Own /\ Answered /\ Questioned /\ AnswerMatches /\ NoLeak

LEMMA NetInitInv == NetInit => NetInv
<1> SUFFICES ASSUME NetInit PROVE NetInv OBVIOUS
<1>1. 0 \in Ids /\ nextId \in Ids BY TransportAssumption DEF Ids, NetInit
<1>2. NetTypeOK BY <1>1 DEF NetInit, NetTypeOK, NoQuery
<1>3. \A i \in Ids : pending[i] = Free BY DEF NetInit
<1>4. \A q \in Queries : query[q].got = NoQuestion BY DEF NetInit, NoQuery
<1>5. AnswerMatches BY <1>4 DEF AnswerMatches
<1>6. Questioned BY DEF NetInit, Questioned, NoQuery
<1> QED BY <1>2, <1>3, <1>4, <1>5, <1>6 DEF NetInv, Own, Answered, NoLeak

Query == [pc : Holding \cup {"off", "done"}, id : Ids,
          ask : Questions \cup {NoQuestion}, got : Questions \cup {NoQuestion}]

LEMMA QueryType ==
    ASSUME NetInv, NEW q \in Queries
    PROVE  /\ query \in [Queries -> Query] /\ query[q] \in Query
           /\ pending \in [Ids -> Queries \cup {Free}]
           /\ query[q].got \in {NoQuestion, query[q].ask}
  BY DEF NetInv, NetTypeOK, Query, AnswerMatches

\* What a query does before it is registered, where nothing is registered under it.
LEMMA UnregisteredKeeps ==
    ASSUME NetInv, NEW q \in Queries, query[q].pc \in {"off", "pick", "register"},
           NEW r \in Query, query' = [query EXCEPT ![q] = r], r.got = NoQuestion,
           r.ask \in Questions,
           nextId' \in Ids, UNCHANGED <<pending, cleanups, wire>>
    PROVE  NetInv'
<1>1. query \in [Queries -> Query] /\ pending \in [Ids -> Queries \cup {Free}] BY QueryType
<1>2. query'[q] = r /\ \A p \in Queries : p # q => query'[p] = query[p] BY <1>1
<1>3. \A i \in Ids : pending[i] # Free => pending[i] \in Queries /\ pending[i] # q
  BY <1>1 DEF NetInv, Own
<1>4. NetTypeOK' BY <1>1 DEF NetInv, NetTypeOK, Query
<1>5. Own' /\ Answered' BY <1>2, <1>3 DEF NetInv, Own, Answered
<1>6. AnswerMatches' BY <1>2 DEF NetInv, AnswerMatches
<1>7. NoLeak' BY <1>2, <1>3 DEF NetInv, NoLeak, QueryAt
<1>8. Questioned' BY <1>2 DEF NetInv, Questioned
<1> QED BY <1>4, <1>5, <1>6, <1>7, <1>8 DEF NetInv

LEMMA AskKeeps == ASSUME NetInv, NEW q \in Queries, Ask(q) PROVE NetInv'
<1>1. PICK question \in Questions : query' = [query EXCEPT ![q] = [NoQuery EXCEPT !.pc = "pick", !.ask = question]]
  BY DEF Ask
<1> DEFINE r == [NoQuery EXCEPT !.pc = "pick", !.ask = question]
<1>2. 0 \in Ids BY TransportAssumption DEF Ids
<1>3. r \in Query /\ r.got = NoQuestion /\ r.ask \in Questions BY <1>2 DEF Query, NoQuery, Holding
<1>4. query' = [query EXCEPT ![q] = r] BY <1>1
<1>5. query[q].pc = "off" /\ nextId' = nextId /\ UNCHANGED <<pending, cleanups, wire>>
  BY DEF Ask, QueryAt
<1>6. nextId' \in Ids BY <1>5 DEF NetInv, NetTypeOK
<1> HIDE DEF r
<1> QED BY <1>3, <1>4, <1>5, <1>6, UnregisteredKeeps

LEMMA PickKeeps == ASSUME NetInv, NEW q \in Queries, Pick(q) PROVE NetInv'
<1>1. query[q].pc = "pick" /\ UNCHANGED <<pending, cleanups, wire>> BY DEF Pick, QueryAt
<1>2. nextId \in Ids /\ query[q] \in Query /\ query \in [Queries -> Query]
  BY QueryType DEF NetInv, NetTypeOK
<1>3. nextId' \in Ids
  <2>1. nextId \in Nat /\ nextId' = (nextId + 1) % Width BY <1>2 DEF Ids, Pick
  <2> QED BY <2>1, TransportAssumption DEF Ids
<1>4. CASE query' = [query EXCEPT ![q].pc = "register", ![q].id = nextId]
  <2> DEFINE r == [query[q] EXCEPT !.pc = "register", !.id = nextId]
  <2>1. query' = [query EXCEPT ![q] = r] BY <1>2, <1>4
  <2>2. r \in Query /\ r.got = query[q].got /\ r.ask = query[q].ask BY <1>2 DEF Query, Holding
  <2> HIDE DEF r
  <2>3. query[q].got = NoQuestion /\ query[q].ask \in Questions BY <1>1 DEF NetInv, Answered, Questioned
  <2> QED BY <1>1, <1>3, <2>1, <2>2, <2>3, UnregisteredKeeps
<1>5. CASE query' = query
  BY <1>1, <1>2, <1>3, <1>5 DEF NetInv, NetTypeOK, Own, Answered, Questioned, AnswerMatches, NoLeak, QueryAt
<1> QED BY <1>4, <1>5 DEF Pick

LEMMA RegisterKeeps == ASSUME NetInv, NEW q \in Queries, Register(q) PROVE NetInv'
<1> DEFINE id == query[q].id
<1>1. /\ query[q].pc = "register" /\ UNCHANGED <<nextId, cleanups, wire>>
      /\ pending' = [pending EXCEPT ![id] = q] /\ query' = [query EXCEPT ![q].pc = "send"]
  BY DEF Register, QueryAt
<1>2. /\ query \in [Queries -> Query] /\ query[q] \in Query /\ pending \in [Ids -> Queries \cup {Free}]
      /\ id \in Ids /\ query[q].got = NoQuestion
  BY <1>1, QueryType DEF Query, NetInv, Answered
<1>3. /\ query'[q].pc = "send" /\ query'[q].id = id /\ query'[q].got = NoQuestion /\ query'[q] \in Query
      /\ query'[q].ask = query[q].ask
      /\ \A p \in Queries : p # q => query'[p] = query[p]
  BY <1>1, <1>2 DEF Query, Holding
<1>4. \A i \in Ids : pending[i] # Free => pending[i] \in Queries /\ pending[i] # q
  BY <1>1, <1>2 DEF NetInv, Own
<1>5. pending'[id] = q /\ \A i \in Ids : i # id => pending'[i] = pending[i] BY <1>1, <1>2
<1> HIDE DEF id
<1>6. pending' \in [Ids -> Queries \cup {Free}] /\ query' \in [Queries -> Query] BY <1>1, <1>2, <1>3
<1>7. NetTypeOK' BY <1>1, <1>6 DEF NetInv, NetTypeOK, Query
<1>8. Own' BY <1>3, <1>4, <1>5 DEF NetInv, Own
<1>9. Answered' BY <1>3, <1>4, <1>5 DEF NetInv, Answered
<1>10. AnswerMatches' BY <1>3 DEF NetInv, AnswerMatches
<1>11. NoLeak'
  <2> SUFFICES ASSUME NEW i \in Ids, pending'[i] # Free
               PROVE  i \in cleanups' \/ (query'[pending'[i]].pc \in {"send", "wait"} /\ query'[pending'[i]].id = i)
    BY DEF NoLeak, QueryAt
  <2>1. CASE i = id BY <1>3, <1>5, <2>1
  <2>2. CASE i # id BY <1>1, <1>3, <1>4, <1>5, <2>2 DEF NetInv, NoLeak, QueryAt
  <2> QED BY <2>1, <2>2
<1>12. Questioned' BY <1>1, <1>3 DEF NetInv, Questioned
<1> QED BY <1>7, <1>8, <1>9, <1>10, <1>11, <1>12 DEF NetInv

LEMMA SendQueryKeeps == ASSUME NetInv, NEW q \in Queries, SendQuery(q) PROVE NetInv'
<1>1. /\ query[q].pc = "send" /\ UNCHANGED <<nextId, pending, cleanups>>
      /\ query' = [query EXCEPT ![q].pc = "wait"]
      /\ wire' = wire \/ wire' = wire \cup {[id |-> query[q].id, ask |-> query[q].ask]}
  BY DEF SendQuery, QueryAt
<1>2. query \in [Queries -> Query] /\ query[q] \in Query BY QueryType
<1>3. /\ query'[q].pc = "wait" /\ query'[q].id = query[q].id /\ query'[q].got = query[q].got
      /\ query'[q].ask = query[q].ask /\ query' \in [Queries -> Query]
      /\ \A p \in Queries : p # q => query'[p] = query[p]
  BY <1>1, <1>2 DEF Query, Holding
<1>4. query[q].id \in Ids /\ query[q].ask \in Questions BY <1>1, <1>2 DEF Query, NetInv, Questioned
<1>5. wire' \subseteq [id : Ids, ask : Questions] BY <1>1, <1>4 DEF NetInv, NetTypeOK
<1>6. NetTypeOK' BY <1>1, <1>3, <1>5 DEF NetInv, NetTypeOK, Query
<1>7. Own' BY <1>1, <1>3, QueryType DEF NetInv, Own
<1>8. Answered' BY <1>1, <1>3, QueryType DEF NetInv, Answered
<1>9. AnswerMatches' BY <1>3 DEF NetInv, AnswerMatches
<1>10. NoLeak' BY <1>1, <1>3, QueryType DEF NetInv, NoLeak, QueryAt
<1>11. Questioned' BY <1>3, <1>4 DEF NetInv, Questioned
<1> QED BY <1>6, <1>7, <1>8, <1>9, <1>10, <1>11 DEF NetInv

\* The receiver gives an answer to the query that holds its identifier and asked its question.
LEMMA ReceiveKeeps == ASSUME NetInv, NEW r \in wire, Receive(r) PROVE NetInv'
<1>1. /\ wire' \subseteq wire /\ UNCHANGED <<nextId, cleanups>> /\ r.id \in Ids /\ r.ask \in Questions
      /\ wire \subseteq [id : Ids, ask : Questions]
  BY DEF Receive, NetInv, NetTypeOK
<1>2. query \in [Queries -> Query] /\ pending \in [Ids -> Queries \cup {Free}]
  BY DEF NetInv, NetTypeOK, Query
<1>3. CASE ~Correlated(r)
  <2>1. UNCHANGED <<pending, query>> BY <1>3 DEF Receive
  <2> QED BY <1>1, <2>1 DEF NetInv, NetTypeOK, Own, Answered, Questioned, AnswerMatches, NoLeak, QueryAt
<1>4. CASE Correlated(r)
  <2> DEFINE q == pending[r.id]
  <2>1. /\ q \in Queries /\ q # Free /\ query[q].ask = r.ask /\ query[q].id = r.id
        /\ query[q].pc \in {"send", "wait", "done"} /\ query[q] \in Query
    BY <1>1, <1>2, <1>4 DEF Correlated, NetInv, Own
  <2>2. /\ pending' = [pending EXCEPT ![r.id] = Free]
        /\ query' = IF QueryAt(q, {"send", "wait"}) THEN [query EXCEPT ![q].got = r.ask] ELSE query
    BY <1>4 DEF Receive
  <2>3. pending'[r.id] = Free /\ \A i \in Ids : i # r.id => pending'[i] = pending[i]
    BY <1>1, <1>2, <2>2
  <2>4. \A i \in Ids : i # r.id => pending[i] # q BY <1>1, <2>1 DEF NetInv, Own
  <2> HIDE DEF q
  <2>5. /\ query' \in [Queries -> Query] /\ query'[q].pc = query[q].pc /\ query'[q].id = query[q].id
        /\ query'[q].ask = query[q].ask /\ query'[q].got \in {query[q].got, r.ask}
        /\ \A p \in Queries : p # q => query'[p] = query[p]
    <3>1. CASE query' = [query EXCEPT ![q].got = r.ask] BY <1>1, <1>2, <2>1, <3>1 DEF Query
    <3>2. CASE query' = query BY <1>2, <3>2
    <3> QED BY <2>2, <3>1, <3>2
  <2>6. pending' \in [Ids -> Queries \cup {Free}] BY <1>2, <2>2
  <2>7. NetTypeOK' BY <1>1, <2>5, <2>6 DEF NetInv, NetTypeOK, Query
  <2>8. \A i \in Ids : pending'[i] # Free =>
           i # r.id /\ pending'[i] = pending[i] /\ pending[i] \in Queries /\ query'[pending[i]] = query[pending[i]]
    BY <1>2, <2>3, <2>4, <2>5
  <2>9. Own' BY <2>8 DEF NetInv, Own
  <2>10. Answered' BY <2>1, <2>5, <2>8 DEF NetInv, Answered
  <2>11. Questioned' BY <2>5 DEF NetInv, Questioned
  <2>12. AnswerMatches' BY <2>1, <2>5 DEF NetInv, AnswerMatches
  <2>13. NoLeak' BY <1>1, <2>8 DEF NetInv, NoLeak, QueryAt
  <2> QED BY <2>7, <2>9, <2>10, <2>11, <2>12, <2>13 DEF NetInv
<1> QED BY <1>3, <1>4

LEMMA AcceptAnswerKeeps == ASSUME NetInv, NEW q \in Queries, AcceptAnswer(q) PROVE NetInv'
<1>1. /\ query[q].pc = "wait" /\ query[q].got # NoQuestion /\ UNCHANGED <<nextId, pending, cleanups, wire>>
      /\ query' = [query EXCEPT ![q].pc = "done", ![q].got = IF @ = query[q].ask THEN @ ELSE NoQuestion]
  BY DEF AcceptAnswer, QueryAt
<1>2. /\ query \in [Queries -> Query] /\ query[q] \in Query /\ pending \in [Ids -> Queries \cup {Free}]
      /\ query[q].got \in {NoQuestion, query[q].ask}
  BY QueryType
<1>3. query' = [query EXCEPT ![q].pc = "done"] BY <1>1, <1>2 DEF Query
<1>4. /\ query' \in [Queries -> Query] /\ query'[q].pc = "done" /\ query'[q].id = query[q].id
      /\ query'[q].ask = query[q].ask /\ query'[q].got = query[q].got
      /\ \A p \in Queries : p # q => query'[p] = query[p]
  BY <1>2, <1>3 DEF Query
<1>5. \A i \in Ids : pending[i] # Free => pending[i] \in Queries /\ pending[i] # q
  BY <1>1, <1>2 DEF NetInv, Answered
<1>6. NetTypeOK' BY <1>1, <1>4 DEF NetInv, NetTypeOK, Query
<1>7. Own' /\ Answered' BY <1>1, <1>4, <1>5 DEF NetInv, Own, Answered
<1>8. Questioned' BY <1>1, <1>4 DEF NetInv, Questioned
<1>9. AnswerMatches' BY <1>4 DEF NetInv, AnswerMatches
<1>10. NoLeak' BY <1>1, <1>4, <1>5 DEF NetInv, NoLeak, QueryAt
<1> QED BY <1>6, <1>7, <1>8, <1>9, <1>10 DEF NetInv

\* A registration goes, whoever holds it by then.
LEMMA DropKeeps == ASSUME NetInv, NEW q \in Queries, Drop(q) PROVE NetInv'
<1>1. /\ query[q].pc \in Holding /\ UNCHANGED <<nextId, wire>>
      /\ query' = [query EXCEPT ![q].pc = "done", ![q].got = NoQuestion]
  BY DEF Drop, QueryAt
<1>2. /\ query \in [Queries -> Query] /\ query[q] \in Query /\ pending \in [Ids -> Queries \cup {Free}]
      /\ query[q].id \in Ids
  BY QueryType DEF Query
<1>3. /\ query' \in [Queries -> Query] /\ query'[q].pc = "done" /\ query'[q].id = query[q].id
      /\ query'[q].ask = query[q].ask /\ query'[q].got = NoQuestion
      /\ \A p \in Queries : p # q => query'[p] = query[p]
  BY <1>1, <1>2 DEF Query
<1>4. /\ pending' \in [Ids -> Queries \cup {Free}] /\ cleanups \subseteq cleanups' /\ cleanups' \subseteq Ids
      /\ \A i \in Ids : pending'[i] # Free => pending'[i] = pending[i]
      /\ pending'[query[q].id] = q /\ query[q].pc \in {"send", "wait"} => query[q].id \in cleanups'
  <2> DEFINE id == query[q].id
  <2>0. cleanups \subseteq Ids /\ q # Free BY TransportAssumption DEF NetInv, NetTypeOK
  <2>1. CASE pending' = [pending EXCEPT ![id] = Free] /\ UNCHANGED cleanups
    BY <1>2, <2>0, <2>1
  <2>2. CASE cleanups' = cleanups \cup {id} /\ UNCHANGED pending
    BY <1>2, <2>0, <2>2
  <2>3. CASE query[q].pc \notin {"send", "wait"} /\ UNCHANGED <<pending, cleanups>>
    BY <1>2, <2>0, <2>3
  <2> QED BY <2>1, <2>2, <2>3 DEF Drop, Unregister, QueryAt
<1>5. \A i \in Ids : pending'[i] = q => i \in cleanups'
  <2> SUFFICES ASSUME NEW i \in Ids, pending'[i] = q PROVE i \in cleanups' OBVIOUS
  <2>1. pending[i] = q /\ q # Free BY <1>4, TransportAssumption
  <2>2. query[q].id = i /\ query[q].pc \in {"send", "wait"} BY <1>1, <2>1 DEF NetInv, Own, Holding
  <2> QED BY <1>4, <2>1, <2>2
<1>6. NetTypeOK' BY <1>1, <1>3, <1>4 DEF NetInv, NetTypeOK, Query
<1>7. \A i \in Ids : pending'[i] # Free => pending'[i] = pending[i] /\ pending[i] \in Queries
  BY <1>2, <1>4
<1>8. Own'
  <2> SUFFICES ASSUME NEW i \in Ids, pending'[i] # Free
               PROVE  query'[pending'[i]].id = i /\ query'[pending'[i]].pc \in {"send", "wait", "done"}
    BY DEF Own
  <2> QED BY <1>3, <1>7 DEF NetInv, Own
<1>9. Answered' BY <1>3, <1>7 DEF NetInv, Answered
<1>10. Questioned' BY <1>1, <1>3 DEF NetInv, Questioned, Holding
<1>11. AnswerMatches' BY <1>3 DEF NetInv, AnswerMatches
<1>12. NoLeak'
  <2> SUFFICES ASSUME NEW i \in Ids, pending'[i] # Free, i \notin cleanups'
               PROVE  query'[pending'[i]].pc \in {"send", "wait"} /\ query'[pending'[i]].id = i
    BY DEF NoLeak, QueryAt
  <2>1. pending'[i] # q /\ pending'[i] = pending[i] /\ pending[i] \in Queries /\ i \notin cleanups
    BY <1>4, <1>5, <1>7
  <2> QED BY <1>3, <2>1 DEF NetInv, NoLeak, QueryAt
<1> QED BY <1>6, <1>8, <1>9, <1>10, <1>11, <1>12 DEF NetInv

LEMMA CleanupKeeps == ASSUME NetInv, NEW i \in cleanups, Cleanup(i) PROVE NetInv'
<1>1. /\ cleanups' = cleanups \ {i} /\ pending' = [pending EXCEPT ![i] = Free]
      /\ UNCHANGED <<nextId, query, wire>> /\ i \in Ids /\ pending \in [Ids -> Queries \cup {Free}]
  BY DEF Cleanup, NetInv, NetTypeOK
<1>2. pending'[i] = Free /\ \A j \in Ids : j # i => pending'[j] = pending[j] BY <1>1
<1>3. NetTypeOK' BY <1>1 DEF NetInv, NetTypeOK
<1>4. Own' /\ Answered' /\ Questioned' /\ AnswerMatches' BY <1>1, <1>2 DEF NetInv, Own, Answered, Questioned, AnswerMatches
<1>5. NoLeak'
  <2> SUFFICES ASSUME NEW j \in Ids, pending'[j] # Free, j \notin cleanups'
               PROVE  query'[pending'[j]].pc \in {"send", "wait"} /\ query'[pending'[j]].id = j
    BY DEF NoLeak, QueryAt
  <2>1. j # i /\ j \notin cleanups /\ pending'[j] = pending[j] BY <1>1, <1>2
  <2> QED BY <1>1, <2>1 DEF NetInv, NoLeak, QueryAt
<1> QED BY <1>3, <1>4, <1>5 DEF NetInv

LEMMA NetStep == NetInv /\ [NetNext]_netVars => NetInv'
<1> SUFFICES ASSUME NetInv, [NetNext]_netVars PROVE NetInv' OBVIOUS
<1>1. CASE UNCHANGED netVars
  BY <1>1 DEF netVars, NetInv, NetTypeOK, Own, Answered, Questioned, AnswerMatches, NoLeak, QueryAt
<1>2. ASSUME NEW i \in cleanups, Cleanup(i) PROVE NetInv' BY <1>2, CleanupKeeps
<1>3. ASSUME NEW r \in wire, Receive(r) PROVE NetInv' BY <1>3, ReceiveKeeps
<1>4. ASSUME NEW q \in Queries,
             Ask(q) \/ Pick(q) \/ Register(q) \/ SendQuery(q) \/ AcceptAnswer(q) \/ Drop(q)
      PROVE  NetInv'
  BY <1>4, AskKeeps, PickKeeps, RegisterKeeps, SendQueryKeeps, AcceptAnswerKeeps, DropKeeps
<1> QED BY <1>1, <1>2, <1>3, <1>4 DEF NetNext

\* The transport keeps its types, for every number of identifiers, slots and queries.
THEOREM DnsTransportTyped == NetSpec => []NetTypeOK
<1>1. NetInv => NetTypeOK BY DEF NetInv
<1> QED BY <1>1, NetInitInv, NetStep, PTL DEF NetSpec

\* However answers are lost, repeated, delayed and reordered, and however soon an identifier
\* comes round again: no query is given the answer to another question, and no registration
\* outlives its query without a task that removes it.
THEOREM DnsAnswersCorrelated == NetSpec => []TransportSafe
<1>1. NetInv => TransportSafe BY DEF NetInv, TransportSafe
<1> QED BY <1>1, NetInitInv, NetStep, PTL DEF NetSpec

-----------------------------------------------------------------------------
(* The cadence and the books of the requests.                              *)

CadRequest == [pc : {"off", "permit", "reserve", "sleep", "go", "unsent", "sent"},
               via : {"fast", "hickory"}, host : Hosts \cup {NoHost},
               node : Nodes \cup {NoNode}, deadline : Nat \cup {Never},
               gap : Spacings \cup {0}, slot : Nat]
NodeState == [requests : Nat, successes : Nat, failures : Nat, inflight : Nat]

\* What the counts are made of.
Reserving == {q \in Requests : rq[q].pc \in {"reserve", "sleep"}}
Sleepers(t) == {q \in Requests : rq[q].pc = "sleep" /\ rq[q].slot > t}
Orphaned(t) == {s \in orphans : s > t}
SentOf(n) == {q \in Requests : rq[q].node = n /\ rq[q].via = "fast" /\ rq[q].pc = "sent"}
OpenOf(n) == {q \in Requests : rq[q].node = n /\ rq[q].via = "fast" /\ rq[q].pc \in {"unsent", "sent"}}

\* A request that has begun has a host, and only the raw transport knows of a datagram.
Hosted ==
    \A q \in Requests :
        /\ rq[q].pc # "off" => rq[q].host \in Hosts
        /\ rq[q].pc = "sent" => rq[q].via = "fast"

\* Slots are given out in order and each once.
SlotsApart ==
    /\ IsFiniteSet(orphans)
    /\ \A q \in Requests : rq[q].pc = "reserve" => rq[q].gap \in Spacings \ {0}
    /\ \A q \in Requests : rq[q].pc = "sleep" => rq[q].slot < next_at /\ rq[q].slot \notin orphans
    /\ \A p, q \in Requests : rq[p].pc = "sleep" /\ rq[q].pc = "sleep" /\ rq[p].slot = rq[q].slot => p = q
    /\ \A s \in orphans : s < next_at

Within == Cardinality(Reserving) + Cardinality(orphans) <= Reservations

\* Seen from any moment to come, the next slot is one spacing away for each slot in between.
Ahead ==
    \A t \in Nat : t >= now =>
        next_at <= t + Widest * (1 + Cardinality(Sleepers(t)) + Cardinality(Orphaned(t)))

Booked(n) ==
    /\ state[n].requests + Cardinality(SentOf(n)) = packets[n]
    /\ state[n].inflight = Cardinality(OpenOf(n))
    /\ state[n].successes + state[n].failures <= state[n].requests

Cadence == SlotsApart /\ Within /\ Ahead
Books == (\A n \in Nodes : Booked(n)) /\ (\A h \in Hosts : attempted[h] <=> h \in poked)
CadInv == CadTypeOK /\ Hosted /\ Cadence /\ Books

-----------------------------------------------------------------------------

LEMMA WidestIs == Widest \in Spacings /\ Widest \in Nat /\ \A s \in Spacings : s <= Widest
<1>1. \E w \in Spacings : \A s \in Spacings : s <= w BY CadenceAssumption
<1> QED BY <1>1, CadenceAssumption DEF Widest

\* A set of requests that gains or loses one.
LEMMA SetMove ==
    ASSUME NEW S, NEW T, IsFiniteSet(S), NEW q, \A p : p # q => (p \in S <=> p \in T)
    PROVE  /\ IsFiniteSet(T) /\ Cardinality(S) \in Nat /\ Cardinality(T) \in Nat
           /\ q \in S /\ q \notin T => Cardinality(S) = Cardinality(T) + 1
           /\ q \notin S /\ q \in T => Cardinality(T) = Cardinality(S) + 1
           /\ (q \in S <=> q \in T) => Cardinality(T) = Cardinality(S)
<1>1. CASE q \in S /\ q \notin T
  <2>1. T = S \ {q} BY <1>1
  <2> QED BY <1>1, <2>1, FS_RemoveElement, FS_CardinalityType
<1>2. CASE q \notin S /\ q \in T
  <2>1. T = S \cup {q} BY <1>2
  <2> QED BY <1>2, <2>1, FS_AddElement, FS_CardinalityType
<1>3. CASE q \in S <=> q \in T
  <2>1. T = S BY <1>3
  <2> QED BY <1>3, <2>1, FS_CardinalityType
<1> QED BY <1>1, <1>2, <1>3

LEMMA RequestSets ==
    ASSUME NEW S \in SUBSET Requests
    PROVE  IsFiniteSet(S) /\ Cardinality(S) \in Nat
  BY CadenceAssumption, FS_Subset, FS_CardinalityType

LEMMA CadTypes ==
    ASSUME CadInv
    PROVE  /\ now \in Nat /\ now \in 0..MaxTime /\ spacing \in Spacings /\ spacing \in Nat /\ next_at \in Nat
           /\ orphans \subseteq Nat
           /\ rq \in [Requests -> CadRequest] /\ attempted \in [Hosts -> BOOLEAN] /\ poked \subseteq Hosts
           /\ state \in [Nodes -> NodeState] /\ packets \in [Nodes -> Nat] /\ started \in 0..MaxSends
           /\ MaxSends \in Nat
  BY CadenceAssumption DEF CadInv, CadTypeOK, CadRequest, NodeState

\* One request becomes another.
LEMMA Moved ==
    ASSUME CadInv, NEW q \in Requests, NEW r, rq' = [rq EXCEPT ![q] = r]
    PROVE  rq'[q] = r /\ rq[q] \in CadRequest /\ \A p \in Requests : p # q => rq'[p] = rq[p]
<1>1. rq \in [Requests -> CadRequest] BY DEF CadInv, CadTypeOK, CadRequest
<1> QED BY <1>1

\* The request is not in the cadence after the step, and its slot, if it had one, is past.
LEMMA CadenceQuiet ==
    ASSUME CadInv, NEW q \in Requests, NEW r, rq' = [rq EXCEPT ![q] = r],
           r.pc \notin {"reserve", "sleep"}, rq[q].pc = "sleep" => rq[q].slot <= now,
           UNCHANGED <<now, next_at, orphans>>
    PROVE  Cadence'
<1>1. /\ rq'[q] = r /\ rq[q] \in CadRequest /\ \A p \in Requests : p # q => rq'[p] = rq[p]
      /\ now \in Nat
  BY Moved, CadTypes
<1>2. SlotsApart' BY <1>1 DEF CadInv, Cadence, SlotsApart
<1>3. Within'
  <2>1. \A p : p # q => (p \in Reserving <=> p \in Reserving') BY <1>1 DEF Reserving
  <2>2. q \notin Reserving' BY <1>1 DEF Reserving
  <2>3. IsFiniteSet(Reserving) BY RequestSets DEF Reserving
  <2>4. /\ Cardinality(Reserving') <= Cardinality(Reserving)
        /\ Cardinality(Reserving') \in Nat /\ Cardinality(Reserving) \in Nat
    <3> DEFINE S == Reserving
               T == Reserving'
    <3>1. \A p : p # q => (p \in S <=> p \in T) BY <2>1
    <3>2. q \notin T BY <2>2
    <3>3. IsFiniteSet(S) BY <2>3
    <3> HIDE DEF S, T
    <3>4. Cardinality(T) <= Cardinality(S) /\ Cardinality(T) \in Nat /\ Cardinality(S) \in Nat
      <4>1. Cardinality(T) \in Nat /\ Cardinality(S) \in Nat BY <3>1, <3>3, SetMove
      <4>2. CASE q \in S
        <5>1. Cardinality(S) = Cardinality(T) + 1 BY <3>1, <3>2, <3>3, <4>2, SetMove
        <5> QED BY <4>1, <5>1
      <4>3. CASE q \notin S
        <5>1. Cardinality(S) = Cardinality(T) BY <3>1, <3>2, <3>3, <4>3, SetMove
        <5> QED BY <4>1, <5>1
      <4> QED BY <4>2, <4>3
    <3> QED BY <3>4 DEF S, T
  <2>5. Cardinality(orphans) \in Nat /\ Reservations \in Nat
    BY CadenceAssumption, FS_CardinalityType DEF CadInv, Cadence, SlotsApart
  <2> QED BY <2>4, <2>5 DEF CadInv, Cadence, Within
<1>4. Ahead'
  <2> SUFFICES ASSUME NEW t \in Nat, t >= now
               PROVE  next_at' <= t + Widest * (1 + Cardinality(Sleepers(t)') + Cardinality(Orphaned(t)'))
    BY DEF Ahead
  <2>1. Sleepers(t)' = Sleepers(t)
    <3>1. \A p \in Requests : p \in Sleepers(t) <=> p \in Sleepers(t)'
      <4> SUFFICES ASSUME NEW p \in Requests PROVE p \in Sleepers(t) <=> p \in Sleepers(t)' OBVIOUS
      <4>1. CASE p # q BY <1>1, <4>1 DEF Sleepers
      <4>2. CASE p = q
        <5>1. rq[q].slot \in Nat BY <1>1 DEF CadRequest
        <5> QED BY <1>1, <4>2, <5>1 DEF Sleepers
      <4> QED BY <4>1, <4>2
    <3> QED BY <3>1 DEF Sleepers
  <2>2. Orphaned(t)' = Orphaned(t) BY DEF Orphaned
  <2> QED BY <2>1, <2>2 DEF CadInv, Cadence, Ahead
<1> QED BY <1>2, <1>3, <1>4 DEF Cadence

\* The request is in no book, before and after.
LEMMA BooksQuiet ==
    ASSUME CadInv, NEW q \in Requests, NEW r, rq' = [rq EXCEPT ![q] = r],
           ~(rq[q].via = "fast" /\ rq[q].pc \in {"unsent", "sent"}),
           ~(r.via = "fast" /\ r.pc \in {"unsent", "sent"}),
           UNCHANGED <<state, packets, attempted, poked>>
    PROVE  Books'
<1>1. rq'[q] = r /\ \A p \in Requests : p # q => rq'[p] = rq[p] BY Moved
<1>2. ASSUME NEW n \in Nodes PROVE Booked(n)'
  <2>1. SentOf(n)' = SentOf(n) BY <1>1 DEF SentOf
  <2>2. OpenOf(n)' = OpenOf(n) BY <1>1 DEF OpenOf
  <2> QED BY <2>1, <2>2 DEF CadInv, Books, Booked
<1>3. \A h \in Hosts : attempted'[h] <=> h \in poked' BY DEF CadInv, Books
<1> QED BY <1>2, <1>3 DEF Books

\* Types and hosts when one request becomes another and the books' types are kept.
LEMMA TypesMove ==
    ASSUME CadInv, NEW q \in Requests, NEW r \in CadRequest, rq' = [rq EXCEPT ![q] = r],
           r.pc # "off" => r.host \in Hosts, r.pc = "sent" => r.via = "fast",
           now' = now, spacing' = spacing, next_at' \in Nat, orphans' \subseteq Nat,
           attempted' \in [Hosts -> BOOLEAN], poked' \subseteq Hosts,
           state' \in [Nodes -> NodeState], packets' \in [Nodes -> Nat], started' \in 0..MaxSends
    PROVE  CadTypeOK' /\ Hosted'
<1>1. rq \in [Requests -> CadRequest] BY DEF CadInv, CadTypeOK, CadRequest
<1>2. rq' \in [Requests -> CadRequest] BY <1>1
<1>3. CadTypeOK' BY <1>2 DEF CadInv, CadTypeOK, CadRequest, NodeState
<1>4. Hosted' BY <1>1 DEF CadInv, Hosted
<1> QED BY <1>3, <1>4

\* Both are kept when only the steps before a datagram change.
LEMMA QuietMove ==
    ASSUME CadInv, NEW q \in Requests, NEW r \in CadRequest, rq' = [rq EXCEPT ![q] = r],
           r.pc # "off" => r.host \in Hosts, r.pc = "sent" => r.via = "fast",
           r.pc \notin {"reserve", "sleep"}, rq[q].pc = "sleep" => rq[q].slot <= now,
           ~(rq[q].via = "fast" /\ rq[q].pc \in {"unsent", "sent"}),
           ~(r.via = "fast" /\ r.pc \in {"unsent", "sent"}),
           UNCHANGED <<now, spacing, next_at, orphans, state, packets, attempted, poked>>,
           started' \in 0..MaxSends
    PROVE  CadInv'
<1>1. Cadence' BY CadenceQuiet
<1>2. Books' BY BooksQuiet
<1>3. CadTypeOK' /\ Hosted' BY CadTypes, TypesMove
<1> QED BY <1>1, <1>2, <1>3 DEF CadInv

-----------------------------------------------------------------------------
(* The cadence, step by step.                                              *)

LEMMA NoneIn == NoRequest \in CadRequest
  BY DEF NoRequest, CadRequest

\* A request that leaves before its datagram, and not from a slot to come.
LEMMA LeaveQuiet ==
    ASSUME CadInv, NEW q \in Requests, Leave(q), rq[q].pc = "sleep" => rq[q].slot <= now,
           ~(rq[q].via = "fast" /\ rq[q].pc \in {"unsent", "sent"}),
           UNCHANGED <<now, spacing, next_at, orphans, state, packets, attempted, poked, started>>
    PROVE  CadInv'
<1>1. NoRequest.pc = "off" BY DEF NoRequest
<1>2. NoRequest \in CadRequest BY NoneIn
<1>3. rq' = [rq EXCEPT ![q] = NoRequest] BY DEF Leave
<1>4. started' \in 0..MaxSends BY CadTypes
<1> QED BY <1>1, <1>2, <1>3, <1>4, QuietMove

LEMMA BeginKeeps ==
    ASSUME CadInv, NEW q \in Requests, Begin(q)
    PROVE  CadInv'
<1>1. PICK h \in Hosts, n \in Nodes \cup {NoNode}, via \in {"fast", "hickory"},
           d \in {now + x : x \in Delays} \cup {Never} :
           rq' = [rq EXCEPT ![q] = [NoRequest EXCEPT
                        !.pc = IF spacing = 0 THEN "go" ELSE "permit",
                        !.via = via, !.host = h, !.node = n, !.deadline = d]]
  BY DEF Begin
<1> DEFINE r == [NoRequest EXCEPT
                        !.pc = IF spacing = 0 THEN "go" ELSE "permit",
                        !.via = via, !.host = h, !.node = n, !.deadline = d]
<1>2. d \in Nat \cup {Never} BY CadTypes, CadenceAssumption
<1>3. r.pc \in {"go", "permit"} /\ r.host = h BY DEF NoRequest
<1>4. r \in CadRequest BY <1>2, NoneIn DEF CadRequest
<1>5. started' \in 0..MaxSends BY CadTypes DEF Begin
<1>6. rq[q].pc = "off" BY DEF Begin, In
<1>7. rq' = [rq EXCEPT ![q] = r] BY <1>1
<1>8. UNCHANGED <<now, spacing, next_at, orphans, state, packets, attempted, poked>> BY DEF Begin
<1> HIDE DEF r
<1> QED BY <1>3, <1>4, <1>5, <1>6, <1>7, <1>8, QuietMove

\* The request goes on; only its step, its gap or its slot changes.
LEMMA Onward ==
    ASSUME CadInv, NEW q \in Requests, NEW r, rq[q].pc # "off",
           \E pc \in {"reserve", "sleep", "go", "unsent", "sent"}, gap \in Spacings \cup {0}, slot \in Nat :
               r = [rq[q] EXCEPT !.pc = pc, !.gap = gap, !.slot = slot]
    PROVE  r \in CadRequest /\ r.host \in Hosts
<1>1. rq[q] \in CadRequest /\ rq[q].host \in Hosts BY CadTypes DEF CadInv, Hosted
<1>2. PICK pc \in {"reserve", "sleep", "go", "unsent", "sent"}, gap \in Spacings \cup {0}, slot \in Nat :
               r = [rq[q] EXCEPT !.pc = pc, !.gap = gap, !.slot = slot]
  OBVIOUS
<1>3. r \in CadRequest BY <1>1, <1>2 DEF CadRequest
<1>4. r.host = rq[q].host BY <1>1, <1>2 DEF CadRequest
<1> QED BY <1>1, <1>3, <1>4

LEMMA PermitKeeps ==
    ASSUME CadInv, NEW q \in Requests, Permit(q)
    PROVE  CadInv'
<1>0. rq[q].pc = "permit" /\ rq[q] \in CadRequest BY CadTypes DEF Permit, In
<1>0a. UNCHANGED <<now, spacing, next_at, orphans, attempted, state, packets, poked, started>> BY DEF Permit
<1>1. CASE Late(q)
  <2>1. Leave(q) BY <1>1 DEF Permit
  <2> QED BY <1>0, <1>0a, <2>1, LeaveQuiet
<1>2. CASE ~Late(q)
  <2> DEFINE r == [rq[q] EXCEPT !.pc = IF spacing = 0 THEN "go" ELSE "reserve", !.gap = spacing]
  <2>1. rq' = [rq EXCEPT ![q] = r] BY <1>2, CadTypes DEF Permit
  <2>2. r = [rq[q] EXCEPT !.pc = IF spacing = 0 THEN "go" ELSE "reserve", !.gap = spacing, !.slot = rq[q].slot]
    BY <1>0 DEF CadRequest
  <2>3. rq[q].slot \in Nat BY <1>0 DEF CadRequest
  <2>4. spacing \in Spacings \cup {0} BY CadTypes
  <2>5. r \in CadRequest /\ r.host \in Hosts BY <1>0, <2>2, <2>3, <2>4, Onward
  <2>6. r.pc = (IF spacing = 0 THEN "go" ELSE "reserve") /\ r.gap = spacing BY <1>0 DEF CadRequest
  <2>7. started' \in 0..MaxSends BY <1>0a, CadTypes
  <2> HIDE DEF r
  <2>8. CASE spacing = 0 BY <1>0, <1>0a, <2>1, <2>5, <2>6, <2>7, <2>8, QuietMove
  <2>9. CASE spacing # 0
    <3>1. r.pc = "reserve" /\ r.gap \in Spacings \ {0} BY <2>6, <2>9, CadTypes
    <3>2. Books' BY <1>0, <1>0a, <2>1, <3>1, BooksQuiet
    <3>3. CadTypeOK' /\ Hosted' BY <1>0a, <2>1, <2>5, <2>7, <3>1, CadTypes, TypesMove
    <3>4. rq'[q] = r /\ \A p \in Requests : p # q => rq'[p] = rq[p] BY <2>1, Moved
    <3>5. SlotsApart' BY <1>0, <1>0a, <3>1, <3>4 DEF CadInv, Cadence, SlotsApart
    <3>6. Within'
      <4>1. Taken = Cardinality(Reserving) + Cardinality(orphans) BY DEF Taken, Reserving, In
      <4> DEFINE S == Reserving
                 T == Reserving'
      <4>2. \A p : p # q => (p \in S <=> p \in T) BY <3>4 DEF Reserving
      <4>3. q \notin S /\ q \in T BY <1>0, <3>1, <3>4 DEF Reserving
      <4>4. IsFiniteSet(S) BY RequestSets DEF Reserving
      <4>5. Cardinality(T) = Cardinality(S) + 1 /\ Cardinality(S) \in Nat
        <5> HIDE DEF S, T
        <5> QED BY <4>2, <4>3, <4>4, SetMove
      <4>6. Cardinality(orphans) \in Nat /\ Reservations \in Nat
        BY CadenceAssumption, FS_CardinalityType DEF CadInv, Cadence, SlotsApart
      <4>7. Taken < Reservations BY DEF Permit
      <4> QED BY <1>0a, <4>1, <4>5, <4>6, <4>7 DEF Within
    <3>7. Ahead'
      <4>1. \A t : Sleepers(t)' = Sleepers(t) BY <1>0, <3>1, <3>4 DEF Sleepers
      <4>2. \A t : Orphaned(t)' = Orphaned(t) BY <1>0a DEF Orphaned
      <4> QED BY <1>0a, <4>1, <4>2 DEF CadInv, Cadence, Ahead
    <3> QED BY <3>2, <3>3, <3>5, <3>6, <3>7 DEF CadInv, Cadence
  <2> QED BY <2>8, <2>9
<1> QED BY <1>1, <1>2

LEMMA WakeKeeps ==
    ASSUME CadInv, NEW q \in Requests, Wake(q)
    PROVE  CadInv'
<1>0. rq[q].pc = "sleep" /\ rq[q].slot <= now /\ rq[q] \in CadRequest BY CadTypes DEF Wake, In
<1>0a. UNCHANGED <<now, spacing, next_at, orphans, attempted, state, packets, poked, started>> BY DEF Wake
<1> DEFINE r == [rq[q] EXCEPT !.pc = "go"]
<1>1. rq' = [rq EXCEPT ![q] = r] BY CadTypes DEF Wake, Move
<1>2. r = [rq[q] EXCEPT !.pc = "go", !.gap = rq[q].gap, !.slot = rq[q].slot] BY <1>0 DEF CadRequest
<1>3. rq[q].gap \in Spacings \cup {0} /\ rq[q].slot \in Nat BY <1>0 DEF CadRequest
<1>4. r \in CadRequest /\ r.host \in Hosts BY <1>0, <1>2, <1>3, Onward
<1>5. r.pc = "go" BY <1>0 DEF CadRequest
<1>6. started' \in 0..MaxSends BY <1>0a, CadTypes
<1> HIDE DEF r
<1> QED BY <1>0, <1>0a, <1>1, <1>4, <1>5, <1>6, QuietMove

LEMMA GiveUpKeeps ==
    ASSUME CadInv, NEW q \in Requests, GiveUp(q)
    PROVE  CadInv'
<1>1. rq[q].pc \in {"permit", "reserve"} BY DEF GiveUp, In
<1>2. /\ Leave(q)
      /\ UNCHANGED <<now, spacing, next_at, orphans, attempted, state, packets, poked, started>>
  BY DEF GiveUp
<1> QED BY <1>1, <1>2, LeaveQuiet

LEMMA OneMore ==
    ASSUME NEW w \in Nat, NEW k \in Nat
    PROVE  w * (k + 1) = w * k + w /\ w * k \in Nat /\ w * k + w >= w
  OBVIOUS

LEMMA NoFewer ==
    ASSUME NEW w \in Nat, NEW j \in Nat, NEW k \in Nat, j <= k
    PROVE  w * j <= w * k
<1>1. PICK d \in Nat : k = j + d
  <2>1. k - j \in Nat /\ k = j + (k - j) OBVIOUS
  <2> QED BY <2>1
<1>2. w * k = w * j + w * d BY <1>1
<1>3. w * j \in Nat /\ w * d \in Nat OBVIOUS
<1> QED BY <1>2, <1>3

\* How many slots lie beyond a moment.
LEMMA SlotCounts ==
    ASSUME CadInv, NEW t \in Nat
    PROVE  /\ IsFiniteSet(Sleepers(t)) /\ Cardinality(Sleepers(t)) \in Nat
           /\ IsFiniteSet(Orphaned(t)) /\ Cardinality(Orphaned(t)) \in Nat
<1>1. IsFiniteSet(Sleepers(t)) /\ Cardinality(Sleepers(t)) \in Nat BY RequestSets DEF Sleepers
<1>2. Orphaned(t) \subseteq orphans /\ IsFiniteSet(orphans) BY DEF Orphaned, CadInv, Cadence, SlotsApart
<1> QED BY <1>1, <1>2, FS_Subset, FS_CardinalityType

\* A slot is given out: the cadence moves one spacing on, and one more sleeps before it.
LEMMA ReserveKeeps ==
    ASSUME CadInv, NEW q \in Requests, Reserve(q)
    PROVE  CadInv'
<1> DEFINE slot == IF next_at > now THEN next_at ELSE now
<1>0. rq[q].pc = "reserve" /\ rq[q] \in CadRequest BY CadTypes DEF Reserve, In
<1>0a. UNCHANGED <<now, spacing, orphans, attempted, state, packets, poked, started>> BY DEF Reserve
<1>0b. /\ slot \in Nat /\ slot >= next_at /\ slot >= now /\ next_at \in Nat /\ now \in Nat
       /\ slot > now => slot = next_at
  BY CadTypes
<1>1. CASE rq[q].deadline # Never /\ slot >= rq[q].deadline
  <2>1. Leave(q) /\ UNCHANGED next_at BY <1>1 DEF Reserve
  <2> QED BY <1>0, <1>0a, <2>1, LeaveQuiet
<1>2. CASE ~(rq[q].deadline # Never /\ slot >= rq[q].deadline)
  <2> DEFINE r == [rq[q] EXCEPT !.pc = "sleep", !.slot = slot]
  <2>1. next_at' = slot + rq[q].gap BY <1>2 DEF Reserve
  <2>2. rq' = [rq EXCEPT ![q] = r] BY <1>2, CadTypes DEF Reserve
  <2>3. rq[q].gap \in Spacings \ {0} BY <1>0 DEF CadInv, Cadence, SlotsApart
  <2>4. rq[q].gap \in Nat /\ rq[q].gap > 0 /\ rq[q].gap <= Widest
    <3> DEFINE g == rq[q].gap
    <3>1. g \in Spacings /\ g # 0 BY <2>3
    <3>2. g \in Nat /\ g <= Widest
      <4> HIDE DEF g
      <4> QED BY <3>1, CadenceAssumption, WidestIs
    <3> HIDE DEF g
    <3>3. g > 0 BY <3>1, <3>2
    <3> QED BY <3>2, <3>3 DEF g
  <2>5. r = [rq[q] EXCEPT !.pc = "sleep", !.gap = rq[q].gap, !.slot = slot] BY <1>0 DEF CadRequest
  <2>6. r \in CadRequest /\ r.host \in Hosts
    <3> HIDE DEF slot, r
    <3> QED BY <1>0, <1>0b, <2>3, <2>5, Onward
  <2>7. r.pc = "sleep" /\ r.slot = slot BY <1>0 DEF CadRequest
  <2> HIDE DEF r, slot
  <2>8. Books' BY <1>0, <1>0a, <2>2, <2>7, BooksQuiet
  <2>9. CadTypeOK' /\ Hosted'
    <3>1. next_at' \in Nat BY <1>0b, <2>1, <2>4
    <3> QED BY <1>0a, <2>2, <2>6, <2>7, <3>1, CadTypes, TypesMove
  <2>10. rq'[q] = r /\ \A p \in Requests : p # q => rq'[p] = rq[p] BY <2>2, Moved
  <2>11. SlotsApart'
    <3>2. next_at <= slot /\ slot < next_at' /\ next_at' \in Nat BY <1>0b, <2>1, <2>4
    <3>3. \A p \in Requests : rq[p].pc = "sleep" => rq[p].slot \in Nat /\ rq[p].slot < next_at /\ rq[p].slot \notin orphans
      BY CadTypes DEF CadInv, Cadence, SlotsApart, CadRequest
    <3>4. \A s \in orphans : s \in Nat /\ s < next_at BY CadTypes DEF CadInv, Cadence, SlotsApart
    <3>5. \A p \in Requests : rq'[p].pc = "sleep" => rq'[p].slot < next_at' /\ rq'[p].slot \notin orphans'
      <4> SUFFICES ASSUME NEW p \in Requests, rq'[p].pc = "sleep"
                   PROVE  rq'[p].slot < next_at' /\ rq'[p].slot \notin orphans'
        OBVIOUS
      <4>1. CASE p = q
        <5>1. rq'[p].slot = slot BY <2>7, <2>10, <4>1
        <5>2. slot \notin orphans BY <1>0b, <3>2, <3>4
        <5> QED BY <1>0a, <3>2, <5>1, <5>2
      <4>2. CASE p # q BY <1>0a, <1>0b, <2>10, <3>2, <3>3, <4>2
      <4> QED BY <4>1, <4>2
    <3>6. \A p1, p2 \in Requests :
             rq'[p1].pc = "sleep" /\ rq'[p2].pc = "sleep" /\ rq'[p1].slot = rq'[p2].slot => p1 = p2
      <4>1. \A p \in Requests : p # q /\ rq'[p].pc = "sleep" => rq'[p].slot # slot
        BY <1>0b, <2>10, <3>2, <3>3
      <4> QED BY <2>7, <2>10, <4>1 DEF CadInv, Cadence, SlotsApart
    <3>7. \A s \in orphans' : s < next_at' BY <1>0a, <1>0b, <3>2, <3>4
    <3>8. \A p \in Requests : rq'[p].pc = "reserve" => rq'[p].gap \in Spacings \ {0}
      BY <2>7, <2>10 DEF CadInv, Cadence, SlotsApart
    <3>9. IsFiniteSet(orphans') BY <1>0a DEF CadInv, Cadence, SlotsApart
    <3> QED BY <3>5, <3>6, <3>7, <3>8, <3>9 DEF SlotsApart
  <2>12. Within'
    <3>1. Reserving' = Reserving BY <1>0, <2>7, <2>10 DEF Reserving
    <3> QED BY <1>0a, <3>1 DEF CadInv, Cadence, Within
  <2>13. Ahead'
    <3> SUFFICES ASSUME NEW t \in Nat, t >= now
                 PROVE  next_at' <= t + Widest * (1 + Cardinality(Sleepers(t)') + Cardinality(Orphaned(t)'))
      BY <1>0a DEF Ahead
    <3>1. Orphaned(t)' = Orphaned(t) BY <1>0a DEF Orphaned
    <3>2. next_at <= t + Widest * (1 + Cardinality(Sleepers(t)) + Cardinality(Orphaned(t)))
      BY DEF CadInv, Cadence, Ahead
    <3> DEFINE S == Sleepers(t)
               T == Sleepers(t)'
               k == Cardinality(S) + Cardinality(Orphaned(t))
    <3>3. \A p : p # q => (p \in S <=> p \in T) BY <2>10 DEF Sleepers
    <3>4. q \notin S BY <1>0 DEF Sleepers
    <3>5. q \in T <=> slot > t BY <2>7, <2>10 DEF Sleepers
    <3>6. IsFiniteSet(S) /\ Cardinality(S) \in Nat /\ Cardinality(Orphaned(t)) \in Nat BY SlotCounts
    <3>7. Widest \in Nat BY WidestIs
    <3>8. CASE slot > t
      <4>1. Cardinality(T) = Cardinality(S) + 1
        <5> HIDE DEF S, T
        <5> QED BY <3>3, <3>4, <3>5, <3>6, <3>8, SetMove
      <4>2. slot = next_at BY <1>0b, <3>8
      <4>3. Widest * (k + 1 + 1) = Widest * (k + 1) + Widest BY <3>6, <3>7, OneMore
      <4>4. 1 + Cardinality(T) + Cardinality(Orphaned(t)) = k + 1 + 1 BY <3>6, <4>1
      <4>5. next_at <= t + Widest * (k + 1)
        <5>1. 1 + Cardinality(S) + Cardinality(Orphaned(t)) = k + 1 BY <3>6
        <5> QED BY <3>2, <5>1
      <4>6. Widest * (k + 1) \in Nat BY <3>6, <3>7, OneMore
      <4>7. next_at' <= t + (Widest * (k + 1) + Widest) BY <1>0b, <2>1, <2>4, <3>7, <4>2, <4>5, <4>6
      <4> HIDE DEF k
      <4> QED BY <3>1, <4>3, <4>4, <4>7
    <3>9. CASE ~(slot > t)
      <4>1. Cardinality(T) = Cardinality(S)
        <5> HIDE DEF S, T
        <5> QED BY <3>3, <3>4, <3>5, <3>6, <3>9, SetMove
      <4>2. Widest * (k + 1) = Widest * k + Widest /\ Widest * k \in Nat BY <3>6, <3>7, OneMore
      <4>3. 1 + Cardinality(T) + Cardinality(Orphaned(t)) = k + 1 BY <3>6, <4>1
      <4>4. next_at' <= t + Widest BY <1>0b, <2>1, <2>4, <3>7, <3>9
      <4>5. next_at' <= t + Widest * (k + 1)
        <5> HIDE DEF k
        <5>1. next_at' \in Nat BY <1>0b, <2>1, <2>4
        <5> QED BY <3>7, <4>2, <4>4, <5>1
      <4> HIDE DEF k
      <4> QED BY <3>1, <4>3, <4>5
    <3> QED BY <3>8, <3>9
  <2> QED BY <2>8, <2>9, <2>11, <2>12, <2>13 DEF CadInv, Cadence
<1> QED BY <1>1, <1>2

LEMMA TickKeeps ==
    ASSUME CadInv, Tick
    PROVE  CadInv'
<1>1. UNCHANGED <<spacing, next_at, orphans, rq, attempted, state, packets, poked, started>> BY DEF Tick
<1>2. now' \in 0..MaxTime /\ now' \in Nat /\ now \in Nat /\ now' >= now BY CadTypes, CadenceAssumption DEF Tick
<1>3. CadTypeOK' BY <1>1, <1>2 DEF CadInv, CadTypeOK
<1>4. Hosted' BY <1>1 DEF CadInv, Hosted
<1>5. SlotsApart' BY <1>1 DEF CadInv, Cadence, SlotsApart
<1>6. Reserving' = Reserving BY <1>1 DEF Reserving
<1>7. Within' BY <1>1, <1>6 DEF CadInv, Cadence, Within
<1>8. \A t : Sleepers(t)' = Sleepers(t) /\ Orphaned(t)' = Orphaned(t) BY <1>1 DEF Sleepers, Orphaned
<1>9. Ahead'
  <2> SUFFICES ASSUME NEW t \in Nat, t >= now'
               PROVE  next_at' <= t + Widest * (1 + Cardinality(Sleepers(t)') + Cardinality(Orphaned(t)'))
    BY DEF Ahead
  <2>1. t >= now BY <1>2
  <2>2. next_at <= t + Widest * (1 + Cardinality(Sleepers(t)) + Cardinality(Orphaned(t)))
    BY <2>1 DEF CadInv, Cadence, Ahead
  <2> QED BY <1>1, <1>8, <2>2
<1>10. Books'
  <2>1. ASSUME NEW n \in Nodes PROVE Booked(n)'
    <3>1. SentOf(n)' = SentOf(n) /\ OpenOf(n)' = OpenOf(n) BY <1>1 DEF SentOf, OpenOf
    <3> QED BY <1>1, <3>1 DEF CadInv, Books, Booked
  <2> QED BY <1>1, <2>1 DEF CadInv, Books
<1> QED BY <1>3, <1>4, <1>5, <1>7, <1>9, <1>10 DEF CadInv, Cadence

LEMMA AdaptKeeps ==
    ASSUME CadInv, Adapt
    PROVE  CadInv'
<1>1. UNCHANGED <<now, next_at, orphans, rq, attempted, state, packets, poked, started>> BY DEF Adapt
<1>2. CadTypeOK' BY <1>1 DEF Adapt, CadInv, CadTypeOK
<1>3. Hosted' BY <1>1 DEF CadInv, Hosted
<1>4. Cadence' BY <1>1 DEF CadInv, Cadence, SlotsApart, Within, Ahead, Reserving, Sleepers, Orphaned
<1>5. Books' BY <1>1 DEF CadInv, Books, Booked, SentOf, OpenOf
<1> QED BY <1>2, <1>3, <1>4, <1>5 DEF CadInv

LEMMA FreeOrphanKeeps ==
    ASSUME CadInv, NEW s \in orphans, FreeOrphan(s)
    PROVE  CadInv'
<1>1. /\ UNCHANGED <<now, spacing, next_at, rq, attempted, state, packets, poked, started>>
      /\ orphans' = orphans \ {s} /\ s <= now
  BY DEF FreeOrphan
<1>2. CadTypeOK' BY <1>1 DEF CadInv, CadTypeOK
<1>3. Hosted' BY <1>1 DEF CadInv, Hosted
<1>4. IsFiniteSet(orphans') /\ Cardinality(orphans') <= Cardinality(orphans)
      /\ Cardinality(orphans) \in Nat /\ Cardinality(orphans') \in Nat
  <2>1. IsFiniteSet(orphans) BY DEF CadInv, Cadence, SlotsApart
  <2> QED BY <1>1, <2>1, FS_RemoveElement, FS_CardinalityType
<1>5. SlotsApart' BY <1>1, <1>4 DEF CadInv, Cadence, SlotsApart
<1>6. Within'
  <2>1. Reserving' = Reserving BY <1>1 DEF Reserving
  <2>2. Cardinality(Reserving) \in Nat BY RequestSets DEF Reserving
  <2>3. Reservations \in Nat BY CadenceAssumption
  <2> QED BY <1>4, <2>1, <2>2, <2>3 DEF CadInv, Cadence, Within
<1>7. Ahead'
  <2> SUFFICES ASSUME NEW t \in Nat, t >= now
               PROVE  next_at' <= t + Widest * (1 + Cardinality(Sleepers(t)') + Cardinality(Orphaned(t)'))
    BY <1>1 DEF Ahead
  <2>1. Sleepers(t)' = Sleepers(t) BY <1>1 DEF Sleepers
  <2>2. Orphaned(t)' = Orphaned(t)
    <3>1. s \in Nat /\ now \in Nat BY CadTypes
    <3>2. ~(s > t) BY <1>1, <3>1
    <3> QED BY <1>1, <3>2 DEF Orphaned
  <2> QED BY <1>1, <2>1, <2>2 DEF CadInv, Cadence, Ahead
<1>8. Books'
  <2>1. ASSUME NEW n \in Nodes PROVE Booked(n)'
    <3>1. SentOf(n)' = SentOf(n) /\ OpenOf(n)' = OpenOf(n) BY <1>1 DEF SentOf, OpenOf
    <3> QED BY <1>1, <3>1 DEF CadInv, Books, Booked
  <2> QED BY <1>1, <2>1 DEF CadInv, Books
<1> QED BY <1>2, <1>3, <1>5, <1>6, <1>7, <1>8 DEF CadInv, Cadence

\* A request dropped before its slot: the slot stays, without the request.
LEMMA OrphanKeeps ==
    ASSUME CadInv, NEW q \in Requests, rq[q].pc = "sleep", rq[q].slot > now,
           rq' = [rq EXCEPT ![q] = NoRequest], orphans' = orphans \cup {rq[q].slot},
           UNCHANGED <<now, spacing, next_at, state, packets, attempted, poked, started>>
    PROVE  CadInv'
<1>1. NoRequest.pc = "off" BY DEF NoRequest
<1>2. rq'[q] = NoRequest /\ rq[q] \in CadRequest /\ \A p \in Requests : p # q => rq'[p] = rq[p] BY Moved
<1> DEFINE slot == rq[q].slot
<1>3. slot \in Nat BY <1>2 DEF CadRequest
<1>4. slot < next_at /\ slot \notin orphans BY DEF CadInv, Cadence, SlotsApart
<1>5. IsFiniteSet(orphans) /\ Cardinality(orphans) \in Nat BY FS_CardinalityType DEF CadInv, Cadence, SlotsApart
<1>6. IsFiniteSet(orphans') /\ Cardinality(orphans') = Cardinality(orphans) + 1 BY <1>4, <1>5, FS_AddElement
<1>7. CadTypeOK' /\ Hosted'
  <2>1. orphans' \subseteq Nat BY <1>3, CadTypes
  <2>2. NoRequest \in CadRequest BY NoneIn
  <2> QED BY <1>1, <2>1, <2>2, CadTypes, TypesMove
<1>8. Books' BY <1>1, BooksQuiet
<1>9. SlotsApart'
  <2>1. \A p \in Requests : rq'[p].pc = "sleep" => p # q /\ rq[p].pc = "sleep" /\ rq'[p].slot = rq[p].slot BY <1>1, <1>2
  <2>2. \A p \in Requests : rq'[p].pc = "sleep" => rq'[p].slot < next_at' /\ rq'[p].slot \notin orphans'
    BY <2>1 DEF CadInv, Cadence, SlotsApart
  <2>3. \A p1, p2 \in Requests : rq'[p1].pc = "sleep" /\ rq'[p2].pc = "sleep" /\ rq'[p1].slot = rq'[p2].slot => p1 = p2
    BY <2>1 DEF CadInv, Cadence, SlotsApart
  <2>4. \A s \in orphans' : s < next_at' BY <1>4 DEF CadInv, Cadence, SlotsApart
  <2>5. \A p \in Requests : rq'[p].pc = "reserve" => rq'[p].gap \in Spacings \ {0}
    BY <1>1, <1>2 DEF CadInv, Cadence, SlotsApart
  <2> QED BY <1>6, <2>2, <2>3, <2>4, <2>5 DEF SlotsApart
<1>10. Within'
  <2> DEFINE S == Reserving
             T == Reserving'
  <2>1. \A p : p # q => (p \in S <=> p \in T) BY <1>2 DEF Reserving
  <2>2. q \in S /\ q \notin T BY <1>1, <1>2 DEF Reserving
  <2>3. IsFiniteSet(S) BY RequestSets DEF Reserving
  <2>4. Cardinality(S) = Cardinality(T) + 1 /\ Cardinality(T) \in Nat
    <3> HIDE DEF S, T
    <3> QED BY <2>1, <2>2, <2>3, SetMove
  <2>5. Reservations \in Nat BY CadenceAssumption
  <2> QED BY <1>5, <1>6, <2>4, <2>5 DEF CadInv, Cadence, Within
<1>11. Ahead'
  <2> SUFFICES ASSUME NEW t \in Nat, t >= now
               PROVE  next_at' <= t + Widest * (1 + Cardinality(Sleepers(t)') + Cardinality(Orphaned(t)'))
    BY DEF Ahead
  <2> DEFINE S == Sleepers(t)
             T == Sleepers(t)'
             A == Orphaned(t)
             B == Orphaned(t)'
  <2>1. \A p : p # q => (p \in S <=> p \in T) BY <1>2 DEF Sleepers
  <2>2. q \notin T /\ (q \in S <=> slot > t) BY <1>1, <1>2 DEF Sleepers
  <2>3. IsFiniteSet(S) /\ IsFiniteSet(A) BY SlotCounts
  <2>4. \A p : p # slot => (p \in A <=> p \in B) BY DEF Orphaned
  <2>5. slot \notin A /\ (slot \in B <=> slot > t) BY <1>4 DEF Orphaned
  <2>6. 1 + Cardinality(T) + Cardinality(B) = 1 + Cardinality(S) + Cardinality(A)
    <3> HIDE DEF S, T, A, B, slot
    <3>1. CASE slot > t
      <4>1. Cardinality(S) = Cardinality(T) + 1 /\ Cardinality(T) \in Nat BY <2>1, <2>2, <2>3, <3>1, SetMove
      <4>2. Cardinality(B) = Cardinality(A) + 1 /\ Cardinality(A) \in Nat BY <2>3, <2>4, <2>5, <3>1, SetMove
      <4> QED BY <4>1, <4>2
    <3>2. CASE ~(slot > t)
      <4>1. Cardinality(S) = Cardinality(T) BY <2>1, <2>2, <2>3, <3>2, SetMove
      <4>2. Cardinality(B) = Cardinality(A) BY <2>3, <2>4, <2>5, <3>2, SetMove
      <4> QED BY <4>1, <4>2
    <3> QED BY <3>1, <3>2
  <2>7. next_at <= t + Widest * (1 + Cardinality(S) + Cardinality(A)) BY DEF CadInv, Cadence, Ahead
  <2> HIDE DEF S, T, A, B
  <2>8. next_at' <= t + Widest * (1 + Cardinality(T) + Cardinality(B)) BY <2>6, <2>7
  <2> QED BY <2>8 DEF T, B
<1> QED BY <1>7, <1>8, <1>9, <1>10, <1>11 DEF CadInv, Cadence

-----------------------------------------------------------------------------
(* The books, step by step.                                                *)

IsSent(r, n) == r.node = n /\ r.via = "fast" /\ r.pc = "sent"
IsOpen(r, n) == r.node = n /\ r.via = "fast" /\ r.pc \in {"unsent", "sent"}

\* What one request's step does to the counts of one resolver.
LEMMA BookStep ==
    ASSUME CadInv, NEW q \in Requests, NEW r, rq' = [rq EXCEPT ![q] = r], NEW n \in Nodes
    PROVE  /\ Cardinality(SentOf(n)) \in Nat /\ Cardinality(SentOf(n)') \in Nat
           /\ Cardinality(OpenOf(n)) \in Nat /\ Cardinality(OpenOf(n)') \in Nat
           /\ IsSent(r, n) /\ ~IsSent(rq[q], n) => Cardinality(SentOf(n)') = Cardinality(SentOf(n)) + 1
           /\ ~IsSent(r, n) /\ IsSent(rq[q], n) => Cardinality(SentOf(n)) = Cardinality(SentOf(n)') + 1
           /\ (IsSent(r, n) <=> IsSent(rq[q], n)) => Cardinality(SentOf(n)') = Cardinality(SentOf(n))
           /\ IsOpen(r, n) /\ ~IsOpen(rq[q], n) => Cardinality(OpenOf(n)') = Cardinality(OpenOf(n)) + 1
           /\ ~IsOpen(r, n) /\ IsOpen(rq[q], n) => Cardinality(OpenOf(n)) = Cardinality(OpenOf(n)') + 1
           /\ (IsOpen(r, n) <=> IsOpen(rq[q], n)) => Cardinality(OpenOf(n)') = Cardinality(OpenOf(n))
<1>1. rq'[q] = r /\ \A p \in Requests : p # q => rq'[p] = rq[p] BY Moved
<1> DEFINE S == SentOf(n)
           T == SentOf(n)'
           A == OpenOf(n)
           B == OpenOf(n)'
<1>2. \A p : p # q => (p \in S <=> p \in T) BY <1>1 DEF SentOf
<1>3. \A p : p # q => (p \in A <=> p \in B) BY <1>1 DEF OpenOf
<1>4. (q \in T <=> IsSent(r, n)) /\ (q \in S <=> IsSent(rq[q], n)) BY <1>1 DEF SentOf, IsSent
<1>5. (q \in B <=> IsOpen(r, n)) /\ (q \in A <=> IsOpen(rq[q], n)) BY <1>1 DEF OpenOf, IsOpen
<1>6. IsFiniteSet(S) /\ IsFiniteSet(A) BY RequestSets DEF SentOf, OpenOf
<1> HIDE DEF S, T, A, B
<1>7. Cardinality(S) \in Nat /\ Cardinality(T) \in Nat BY <1>2, <1>6, SetMove
<1>8. Cardinality(A) \in Nat /\ Cardinality(B) \in Nat BY <1>3, <1>6, SetMove
<1>9. q \in T /\ q \notin S => Cardinality(T) = Cardinality(S) + 1 BY <1>2, <1>6, SetMove
<1>10. q \notin T /\ q \in S => Cardinality(S) = Cardinality(T) + 1 BY <1>2, <1>6, SetMove
<1>11. (q \in T <=> q \in S) => Cardinality(T) = Cardinality(S) BY <1>2, <1>6, SetMove
<1>12. q \in B /\ q \notin A => Cardinality(B) = Cardinality(A) + 1 BY <1>3, <1>6, SetMove
<1>13. q \notin B /\ q \in A => Cardinality(A) = Cardinality(B) + 1 BY <1>3, <1>6, SetMove
<1>14. (q \in B <=> q \in A) => Cardinality(B) = Cardinality(A) BY <1>3, <1>6, SetMove
<1> QED BY <1>4, <1>5, <1>7, <1>8, <1>9, <1>10, <1>11, <1>12, <1>13, <1>14 DEF S, T, A, B

\* A step that only concerns the books.
LEMMA BooksMove ==
    ASSUME CadInv, NEW q \in Requests, NEW r \in CadRequest, rq' = [rq EXCEPT ![q] = r],
           r.pc # "off" => r.host \in Hosts, r.pc = "sent" => r.via = "fast",
           r.pc \notin {"reserve", "sleep"}, rq[q].pc = "sleep" => rq[q].slot <= now,
           UNCHANGED <<now, spacing, next_at, orphans, started>>,
           state' \in [Nodes -> NodeState], packets' \in [Nodes -> Nat],
           \A n \in Nodes : Booked(n)',
           attempted' \in [Hosts -> BOOLEAN], poked' \subseteq Hosts,
           \A h \in Hosts : attempted'[h] <=> h \in poked'
    PROVE  CadInv'
<1>1. Cadence' BY CadenceQuiet
<1>2. Books' BY DEF Books
<1>3. CadTypeOK' /\ Hosted' BY CadTypes, TypesMove
<1> QED BY <1>1, <1>2, <1>3 DEF CadInv

\* The hosts' flags when they are left alone, and when a datagram for one leaves.
LEMMA FlagsKept ==
    ASSUME CadInv
    PROVE  /\ UNCHANGED <<attempted, poked>> =>
                 /\ attempted' \in [Hosts -> BOOLEAN] /\ poked' \subseteq Hosts
                 /\ \A h \in Hosts : attempted'[h] <=> h \in poked'
           /\ \A g \in Hosts :
                 attempted' = [attempted EXCEPT ![g] = TRUE] /\ poked' = poked \cup {g} =>
                 /\ attempted' \in [Hosts -> BOOLEAN] /\ poked' \subseteq Hosts
                 /\ \A h \in Hosts : attempted'[h] <=> h \in poked'
<1>1. attempted \in [Hosts -> BOOLEAN] /\ poked \subseteq Hosts BY CadTypes
<1>2. \A h \in Hosts : attempted[h] <=> h \in poked BY DEF CadInv, Books
<1>3. ASSUME UNCHANGED <<attempted, poked>>
      PROVE  /\ attempted' \in [Hosts -> BOOLEAN] /\ poked' \subseteq Hosts
             /\ \A h \in Hosts : attempted'[h] <=> h \in poked'
  BY <1>1, <1>2, <1>3
<1>4. ASSUME NEW g \in Hosts, attempted' = [attempted EXCEPT ![g] = TRUE], poked' = poked \cup {g}
      PROVE  /\ attempted' \in [Hosts -> BOOLEAN] /\ poked' \subseteq Hosts
             /\ \A h \in Hosts : attempted'[h] <=> h \in poked'
  <2>1. attempted' \in [Hosts -> BOOLEAN] /\ poked' \subseteq Hosts BY <1>1, <1>4
  <2>2. ASSUME NEW h \in Hosts PROVE attempted'[h] <=> h \in poked'
    <3>1. CASE h = g BY <1>1, <1>4, <3>1
    <3>2. CASE h # g
      <4>1. attempted'[h] = attempted[h] BY <1>1, <1>4, <3>2
      <4> QED BY <1>2, <1>4, <3>2, <4>1
    <3> QED BY <3>1, <3>2
  <2> QED BY <2>1, <2>2
<1> QED BY <1>3, <1>4

\* The counts of one resolver before a step.
LEMMA BookNow ==
    ASSUME CadInv, NEW n \in Nodes
    PROVE  /\ state[n] \in NodeState /\ packets[n] \in Nat
           /\ state[n].requests \in Nat /\ state[n].successes \in Nat
           /\ state[n].failures \in Nat /\ state[n].inflight \in Nat
           /\ state[n].requests + Cardinality(SentOf(n)) = packets[n]
           /\ state[n].inflight = Cardinality(OpenOf(n))
           /\ state[n].successes + state[n].failures <= state[n].requests
<1>1. state[n] \in NodeState /\ packets[n] \in Nat BY CadTypes
<1>2. Booked(n) BY DEF CadInv, Books
<1> QED BY <1>1, <1>2 DEF NodeState, Booked

LEMMA EnterKeeps ==
    ASSUME CadInv, NEW q \in Requests, Enter(q)
    PROVE  CadInv'
<1>0. rq[q].pc = "go" /\ rq[q] \in CadRequest BY CadTypes DEF Enter, In
<1>0a. UNCHANGED <<now, spacing, next_at, orphans, attempted, packets, poked, started>> BY DEF Enter
<1>1. CASE Late(q)
  <2>1. Leave(q) /\ UNCHANGED state BY <1>1 DEF Enter
  <2> QED BY <1>0, <1>0a, <2>1, LeaveQuiet
<1>2. CASE ~Late(q)
  <2> DEFINE r == [rq[q] EXCEPT !.pc = "unsent"]
  <2>1. rq' = [rq EXCEPT ![q] = r] BY <1>2, CadTypes DEF Enter, Move
  <2>2. r = [rq[q] EXCEPT !.pc = "unsent", !.gap = rq[q].gap, !.slot = rq[q].slot] BY <1>0 DEF CadRequest
  <2>3. rq[q].gap \in Spacings \cup {0} /\ rq[q].slot \in Nat BY <1>0 DEF CadRequest
  <2>4. r \in CadRequest /\ r.host \in Hosts BY <1>0, <2>2, <2>3, Onward
  <2>5. r.pc = "unsent" /\ r.node = rq[q].node /\ r.via = rq[q].via BY <1>0 DEF CadRequest
  <2>6. state' = [n \in Nodes |-> IF n = rq[q].node
                                  THEN IF rq[q].via = "fast" THEN [state[n] EXCEPT !.inflight = @ + 1] ELSE state[n]
                                  ELSE state[n]]
    BY <1>2 DEF Enter, Count
  <2> HIDE DEF r
  <2>7. ASSUME NEW n \in Nodes PROVE state'[n] \in NodeState /\ Booked(n)'
    <3>1. CASE n = rq[q].node /\ rq[q].via = "fast"
      <4>1. state'[n] = [state[n] EXCEPT !.inflight = @ + 1] BY <2>6, <3>1
      <4>2. /\ state'[n] \in NodeState /\ state'[n].requests = state[n].requests
            /\ state'[n].successes = state[n].successes /\ state'[n].failures = state[n].failures
            /\ state'[n].inflight = state[n].inflight + 1
        BY <4>1, BookNow DEF NodeState
      <4>3. /\ Cardinality(SentOf(n)') = Cardinality(SentOf(n))
            /\ Cardinality(OpenOf(n)') = Cardinality(OpenOf(n)) + 1
        <5>1. ~IsSent(r, n) /\ ~IsSent(rq[q], n) /\ IsOpen(r, n) /\ ~IsOpen(rq[q], n)
          BY <1>0, <2>5, <3>1 DEF IsSent, IsOpen
        <5> QED BY <2>1, <5>1, BookStep
      <4> QED BY <1>0a, <4>2, <4>3, BookNow DEF Booked
    <3>2. CASE ~(n = rq[q].node /\ rq[q].via = "fast")
      <4>1. state'[n] = state[n] BY <2>6, <3>2
      <4>2. /\ Cardinality(SentOf(n)') = Cardinality(SentOf(n))
            /\ Cardinality(OpenOf(n)') = Cardinality(OpenOf(n))
        <5>1. ~IsSent(r, n) /\ ~IsSent(rq[q], n) /\ ~IsOpen(r, n) /\ ~IsOpen(rq[q], n)
          BY <1>0, <2>5, <3>2 DEF IsSent, IsOpen
        <5> QED BY <2>1, <5>1, BookStep
      <4> QED BY <1>0a, <4>1, <4>2, BookNow DEF Booked
    <3> QED BY <3>1, <3>2
  <2>8. state' \in [Nodes -> NodeState] BY <2>6, <2>7
  <2>9. packets' \in [Nodes -> Nat] BY <1>0a, CadTypes
  <2>10. /\ attempted' \in [Hosts -> BOOLEAN] /\ poked' \subseteq Hosts
         /\ \A h \in Hosts : attempted'[h] <=> h \in poked'
    BY <1>0a, FlagsKept
  <2> QED BY <1>0, <1>0a, <2>1, <2>4, <2>5, <2>7, <2>8, <2>9, <2>10, BooksMove
<1> QED BY <1>1, <1>2

\* The datagram leaves: the request is owed to its resolver, its host is marked.
LEMMA SendKeeps ==
    ASSUME CadInv, NEW q \in Requests, Send(q)
    PROVE  CadInv'
<1>0. rq[q].pc = "unsent" /\ rq[q].via = "fast" /\ rq[q] \in CadRequest BY CadTypes DEF Send, In
<1>0a. UNCHANGED <<now, spacing, next_at, orphans, state, started>> BY DEF Send
<1> DEFINE r == [rq[q] EXCEPT !.pc = "sent"]
<1>1. rq' = [rq EXCEPT ![q] = r] BY CadTypes DEF Send, Move
<1>2. r = [rq[q] EXCEPT !.pc = "sent", !.gap = rq[q].gap, !.slot = rq[q].slot] BY <1>0 DEF CadRequest
<1>3. rq[q].gap \in Spacings \cup {0} /\ rq[q].slot \in Nat BY <1>0 DEF CadRequest
<1>4. r \in CadRequest /\ r.host \in Hosts BY <1>0, <1>2, <1>3, Onward
<1>5. r.pc = "sent" /\ r.node = rq[q].node /\ r.via = "fast" BY <1>0 DEF CadRequest
<1> HIDE DEF r
<1>6. packets' = [n \in Nodes |-> packets[n] + IF n = rq[q].node THEN 1 ELSE 0] BY DEF Send
<1>7. ASSUME NEW n \in Nodes PROVE packets'[n] \in Nat /\ Booked(n)'
  <2>1. Cardinality(OpenOf(n)') = Cardinality(OpenOf(n))
    <3>1. IsOpen(r, n) <=> IsOpen(rq[q], n) BY <1>0, <1>5 DEF IsOpen
    <3> QED BY <1>1, <3>1, BookStep
  <2>2. Cardinality(SentOf(n)) \in Nat BY <1>1, BookStep
  <2>3. CASE n = rq[q].node
    <3>1. Cardinality(SentOf(n)') = Cardinality(SentOf(n)) + 1
      <4>1. IsSent(r, n) /\ ~IsSent(rq[q], n) BY <1>0, <1>5, <2>3 DEF IsSent
      <4> QED BY <1>1, <4>1, BookStep
    <3>2. packets'[n] = packets[n] + 1 BY <1>6, <2>3
    <3>3. state[n].requests \in Nat /\ packets[n] \in Nat /\ state[n].requests + Cardinality(SentOf(n)) = packets[n]
      BY BookNow
    <3>4. state[n].requests + Cardinality(SentOf(n)') = packets'[n] /\ packets'[n] \in Nat BY <2>2, <3>1, <3>2, <3>3
    <3> QED BY <1>0a, <2>1, <3>4, BookNow DEF Booked
  <2>4. CASE n # rq[q].node
    <3>1. Cardinality(SentOf(n)') = Cardinality(SentOf(n))
      <4>1. ~IsSent(r, n) /\ ~IsSent(rq[q], n) BY <1>0, <1>5, <2>4 DEF IsSent
      <4> QED BY <1>1, <4>1, BookStep
    <3>2. packets'[n] = packets[n] BY <1>6, <2>4, BookNow
    <3> QED BY <1>0a, <2>1, <3>1, <3>2, BookNow DEF Booked
  <2> QED BY <2>3, <2>4
<1>8. packets' \in [Nodes -> Nat] BY <1>6, <1>7
<1>9. state' \in [Nodes -> NodeState] BY <1>0a, CadTypes
<1>10. /\ attempted' \in [Hosts -> BOOLEAN] /\ poked' \subseteq Hosts
       /\ \A h \in Hosts : attempted'[h] <=> h \in poked'
  <2>1. attempted' = [attempted EXCEPT ![rq[q].host] = TRUE] /\ poked' = poked \cup {rq[q].host} BY DEF Send
  <2>2. rq[q].host \in Hosts BY <1>0 DEF CadInv, Hosted
  <2> QED BY <2>1, <2>2, FlagsKept
<1> QED BY <1>0, <1>0a, <1>1, <1>4, <1>5, <1>7, <1>8, <1>9, <1>10, BooksMove

\* The request ends before its datagram left: only the load drops.
LEMMA UnsentKeeps ==
    ASSUME CadInv, NEW q \in Requests, rq[q].pc = "unsent", rq[q].via = "fast", Leave(q),
           state' = [n \in Nodes |-> IF n = rq[q].node THEN Unenter(state[n]) ELSE state[n]],
           UNCHANGED <<now, spacing, next_at, orphans, attempted, packets, poked, started>>
    PROVE  CadInv'
<1>1. rq' = [rq EXCEPT ![q] = NoRequest] /\ NoRequest.pc = "off" /\ NoRequest \in CadRequest
  BY NoneIn DEF Leave, NoRequest
<1>2. ASSUME NEW n \in Nodes PROVE state'[n] \in NodeState /\ Booked(n)'
  <2>1. Cardinality(SentOf(n)') = Cardinality(SentOf(n))
    <3>1. ~IsSent(NoRequest, n) /\ ~IsSent(rq[q], n) BY <1>1 DEF IsSent
    <3> QED BY <1>1, <3>1, BookStep
  <2>2. Cardinality(OpenOf(n)') \in Nat BY <1>1, BookStep
  <2>3. CASE n = rq[q].node
    <3>1. Cardinality(OpenOf(n)) = Cardinality(OpenOf(n)') + 1
      <4>1. ~IsOpen(NoRequest, n) /\ IsOpen(rq[q], n) BY <1>1, <2>3 DEF IsOpen
      <4> QED BY <1>1, <4>1, BookStep
    <3>2. state'[n] = [state[n] EXCEPT !.inflight = @ - 1] BY <2>3 DEF Unenter
    <3>3. state[n].inflight - 1 = Cardinality(OpenOf(n)') /\ state[n].inflight - 1 \in Nat
      BY <2>2, <3>1, BookNow
    <3>4. /\ state'[n] \in NodeState /\ state'[n].requests = state[n].requests
          /\ state'[n].successes = state[n].successes /\ state'[n].failures = state[n].failures
          /\ state'[n].inflight = state[n].inflight - 1
      BY <3>2, <3>3, BookNow DEF NodeState
    <3> QED BY <2>1, <3>3, <3>4, BookNow DEF Booked
  <2>4. CASE n # rq[q].node
    <3>1. Cardinality(OpenOf(n)') = Cardinality(OpenOf(n))
      <4>1. ~IsOpen(NoRequest, n) /\ ~IsOpen(rq[q], n) BY <1>1, <2>4 DEF IsOpen
      <4> QED BY <1>1, <4>1, BookStep
    <3>2. state'[n] = state[n] BY <2>4
    <3> QED BY <2>1, <3>1, <3>2, BookNow DEF Booked
  <2> QED BY <2>3, <2>4
<1>3. state' \in [Nodes -> NodeState] BY <1>2
<1>4. packets' \in [Nodes -> Nat] BY CadTypes
<1>5. /\ attempted' \in [Hosts -> BOOLEAN] /\ poked' \subseteq Hosts
      /\ \A h \in Hosts : attempted'[h] <=> h \in poked'
  BY FlagsKept
<1> QED BY <1>1, <1>2, <1>3, <1>4, <1>5, BooksMove

LEMMA NodeIs ==
    ASSUME NEW a \in Nat, NEW b \in Nat, NEW c \in Nat, NEW d \in Nat
    PROVE  [requests |-> a, successes |-> b, failures |-> c, inflight |-> d] \in NodeState
  BY DEF NodeState

\* The request ends after its datagram: it is counted once, and the load drops.
LEMMA SentKeeps ==
    ASSUME CadInv, NEW q \in Requests, rq[q].pc = "sent", rq[q].via = "fast", Leave(q),
           NEW good \in Nat, NEW bad \in Nat, good + bad <= 1,
           state' = [n \in Nodes |->
                        IF n = rq[q].node
                        THEN [requests |-> state[n].requests + 1, successes |-> state[n].successes + good,
                              failures |-> state[n].failures + bad, inflight |-> state[n].inflight - 1]
                        ELSE state[n]],
           UNCHANGED <<now, spacing, next_at, orphans, attempted, packets, poked, started>>
    PROVE  CadInv'
<1>1. rq' = [rq EXCEPT ![q] = NoRequest] /\ NoRequest.pc = "off" /\ NoRequest \in CadRequest
  BY NoneIn DEF Leave, NoRequest
<1>2. ASSUME NEW n \in Nodes PROVE state'[n] \in NodeState /\ Booked(n)'
  <2>1. Cardinality(OpenOf(n)') \in Nat /\ Cardinality(SentOf(n)') \in Nat BY <1>1, BookStep
  <2>2. CASE n = rq[q].node
    <3>1. Cardinality(OpenOf(n)) = Cardinality(OpenOf(n)') + 1
      <4>1. ~IsOpen(NoRequest, n) /\ IsOpen(rq[q], n) BY <1>1, <2>2 DEF IsOpen
      <4> QED BY <1>1, <4>1, BookStep
    <3>2. Cardinality(SentOf(n)) = Cardinality(SentOf(n)') + 1
      <4>1. ~IsSent(NoRequest, n) /\ IsSent(rq[q], n) BY <1>1, <2>2 DEF IsSent
      <4> QED BY <1>1, <4>1, BookStep
    <3>3. state'[n] = [requests |-> state[n].requests + 1, successes |-> state[n].successes + good,
                       failures |-> state[n].failures + bad, inflight |-> state[n].inflight - 1]
      BY <2>2
    <3>4. state[n].inflight - 1 = Cardinality(OpenOf(n)') /\ state[n].inflight - 1 \in Nat
      BY <2>1, <3>1, BookNow
    <3>5. /\ state'[n].requests = state[n].requests + 1 /\ state'[n].successes = state[n].successes + good
          /\ state'[n].failures = state[n].failures + bad /\ state'[n].inflight = state[n].inflight - 1
      BY <3>3
    <3>6. state'[n] \in NodeState
      <4>1. /\ state[n].requests + 1 \in Nat /\ state[n].successes + good \in Nat
            /\ state[n].failures + bad \in Nat
        BY BookNow
      <4>2. state[n].inflight - 1 \in Nat BY <3>4
      <4>3. [requests |-> state[n].requests + 1, successes |-> state[n].successes + good,
             failures |-> state[n].failures + bad, inflight |-> state[n].inflight - 1] \in NodeState
        BY <4>1, <4>2, NodeIs
      <4> QED BY <3>3, <4>3
    <3>7. state'[n].requests + Cardinality(SentOf(n)') = packets'[n]
      <4>1. packets'[n] = packets[n] OBVIOUS
      <4>2. state[n].requests \in Nat /\ state[n].requests + Cardinality(SentOf(n)) = packets[n] BY BookNow
      <4> QED BY <2>1, <3>2, <3>5, <4>1, <4>2
    <3>8. state'[n].successes + state'[n].failures <= state'[n].requests
      <4>1. /\ state[n].requests \in Nat /\ state[n].successes \in Nat /\ state[n].failures \in Nat
            /\ state[n].successes + state[n].failures <= state[n].requests
        BY BookNow
      <4> QED BY <3>5, <4>1
    <3> QED BY <3>4, <3>5, <3>6, <3>7, <3>8 DEF Booked
  <2>3. CASE n # rq[q].node
    <3>1. Cardinality(OpenOf(n)') = Cardinality(OpenOf(n)) /\ Cardinality(SentOf(n)') = Cardinality(SentOf(n))
      <4>1. ~IsOpen(NoRequest, n) /\ ~IsOpen(rq[q], n) BY <1>1, <2>3 DEF IsOpen
      <4>2. ~IsSent(NoRequest, n) /\ ~IsSent(rq[q], n) BY <1>1, <2>3 DEF IsSent
      <4> QED BY <1>1, <4>1, <4>2, BookStep
    <3>2. state'[n] = state[n] BY <2>3
    <3> QED BY <3>1, <3>2, BookNow DEF Booked
  <2> QED BY <2>2, <2>3
<1>3. state' \in [Nodes -> NodeState] BY <1>2
<1>4. packets' \in [Nodes -> Nat] BY CadTypes
<1>5. /\ attempted' \in [Hosts -> BOOLEAN] /\ poked' \subseteq Hosts
      /\ \A h \in Hosts : attempted'[h] <=> h \in poked'
  BY FlagsKept
<1> QED BY <1>1, <1>2, <1>3, <1>4, <1>5, BooksMove

LEMMA FailUnsentKeeps ==
    ASSUME CadInv, NEW q \in Requests, FailUnsent(q)
    PROVE  CadInv'
<1>1. rq[q].pc = "unsent" /\ rq[q].via = "fast" /\ Leave(q) BY DEF FailUnsent, In
<1>2. state' = [n \in Nodes |-> IF n = rq[q].node THEN Unenter(state[n]) ELSE state[n]]
  BY DEF FailUnsent, Count
<1>3. UNCHANGED <<now, spacing, next_at, orphans, attempted, packets, poked, started>> BY DEF FailUnsent
<1> QED BY <1>1, <1>2, <1>3, UnsentKeeps

LEMMA RecordedIs ==
    ASSUME NEW s \in [requests : Int, successes : Int, failures : Int, inflight : Int]
    PROVE  /\ Recorded(s, TRUE) = [requests |-> s.requests + 1, successes |-> s.successes + 1,
                                   failures |-> s.failures, inflight |-> s.inflight]
           /\ Recorded(s, FALSE) = [requests |-> s.requests + 1, successes |-> s.successes,
                                    failures |-> s.failures + 1, inflight |-> s.inflight]
  BY DEF Recorded

\* What an answer, a timeout and a cancellation write to a resolver.
LEMMA Written ==
    ASSUME NEW s \in NodeState
    PROVE  /\ Recorded(Unenter(s), TRUE) = [requests |-> s.requests + 1, successes |-> s.successes + 1,
                                            failures |-> s.failures + 0, inflight |-> s.inflight - 1]
           /\ Recorded(Unenter(s), FALSE) = [requests |-> s.requests + 1, successes |-> s.successes + 0,
                                             failures |-> s.failures + 1, inflight |-> s.inflight - 1]
           /\ [Unenter(s) EXCEPT !.requests = @ + 1] =
                  [requests |-> s.requests + 1, successes |-> s.successes + 0,
                   failures |-> s.failures + 0, inflight |-> s.inflight - 1]
<1>1. Unenter(s) = [requests |-> s.requests, successes |-> s.successes,
                    failures |-> s.failures, inflight |-> s.inflight - 1]
  BY DEF Unenter, NodeState
<1>2. s.requests \in Nat /\ s.successes \in Nat /\ s.failures \in Nat /\ s.inflight \in Nat BY DEF NodeState
<1>3. s.successes + 0 = s.successes /\ s.failures + 0 = s.failures BY <1>2
<1>4. Unenter(s) \in [requests : Int, successes : Int, failures : Int, inflight : Int] BY <1>1, <1>2
<1>5. /\ Unenter(s).requests = s.requests /\ Unenter(s).successes = s.successes
      /\ Unenter(s).failures = s.failures /\ Unenter(s).inflight = s.inflight - 1
  BY <1>1
<1>6. [Unenter(s) EXCEPT !.requests = @ + 1] =
          [requests |-> s.requests + 1, successes |-> s.successes, failures |-> s.failures, inflight |-> s.inflight - 1]
  BY <1>1
<1> QED BY <1>3, <1>4, <1>5, <1>6, RecordedIs

LEMMA FinishKeeps ==
    ASSUME CadInv, NEW q \in Requests, Finish(q)
    PROVE  CadInv'
<1>1. rq[q].pc = "sent" /\ rq[q].via = "fast" /\ Leave(q) BY DEF Finish, In, CadInv, Hosted
<1>2. PICK operational \in BOOLEAN :
          state' = [n \in Nodes |-> IF n = rq[q].node THEN Recorded(Unenter(state[n]), operational) ELSE state[n]]
  BY DEF Finish, Count
<1>3. UNCHANGED <<now, spacing, next_at, orphans, attempted, packets, poked, started>> BY DEF Finish
<1>4. \A n \in Nodes : state[n] \in NodeState BY CadTypes
<1>5. CASE operational = TRUE
  <2>1. state' = [n \in Nodes |->
                     IF n = rq[q].node
                     THEN [requests |-> state[n].requests + 1, successes |-> state[n].successes + 1,
                           failures |-> state[n].failures + 0, inflight |-> state[n].inflight - 1]
                     ELSE state[n]]
    BY <1>2, <1>4, <1>5, Written
  <2>2. 1 \in Nat /\ 0 \in Nat /\ 1 + 0 <= 1 OBVIOUS
  <2> QED BY <1>1, <1>3, <2>1, <2>2, SentKeeps
<1>6. CASE operational = FALSE
  <2>1. state' = [n \in Nodes |->
                     IF n = rq[q].node
                     THEN [requests |-> state[n].requests + 1, successes |-> state[n].successes + 0,
                           failures |-> state[n].failures + 1, inflight |-> state[n].inflight - 1]
                     ELSE state[n]]
    BY <1>2, <1>4, <1>6, Written
  <2>2. 1 \in Nat /\ 0 \in Nat /\ 0 + 1 <= 1 OBVIOUS
  <2> QED BY <1>1, <1>3, <2>1, <2>2, SentKeeps
<1> QED BY <1>5, <1>6

\* The end of a lookup over Hickory is its datagram and its answer at once.
LEMMA FinishHickoryKeeps ==
    ASSUME CadInv, NEW q \in Requests, FinishHickory(q)
    PROVE  CadInv'
<1>0. rq[q].pc = "unsent" /\ rq[q].via = "hickory" /\ Leave(q) BY DEF FinishHickory, In
<1>0a. UNCHANGED <<now, spacing, next_at, orphans, started>> BY DEF FinishHickory
<1>1. rq' = [rq EXCEPT ![q] = NoRequest] /\ NoRequest.pc = "off" /\ NoRequest \in CadRequest
  BY <1>0, NoneIn DEF Leave, NoRequest
<1>2. PICK operational \in BOOLEAN :
          state' = [n \in Nodes |-> IF n = rq[q].node THEN Recorded(state[n], operational) ELSE state[n]]
  BY DEF FinishHickory, Count
<1>3. packets' = [packets EXCEPT ![rq[q].node] = @ + 1] BY DEF FinishHickory
<1>4. ASSUME NEW n \in Nodes PROVE packets'[n] \in Nat /\ state'[n] \in NodeState /\ Booked(n)'
  <2>1. Cardinality(OpenOf(n)') = Cardinality(OpenOf(n)) /\ Cardinality(SentOf(n)') = Cardinality(SentOf(n))
        /\ Cardinality(SentOf(n)) \in Nat
    <3>1. ~IsOpen(NoRequest, n) /\ ~IsOpen(rq[q], n) BY <1>0, <1>1 DEF IsOpen
    <3>2. ~IsSent(NoRequest, n) /\ ~IsSent(rq[q], n) BY <1>0, <1>1 DEF IsSent
    <3> QED BY <1>1, <3>1, <3>2, BookStep
  <2>2. CASE n = rq[q].node
    <3>1. packets'[n] = packets[n] + 1 BY <1>3, <2>2, CadTypes
    <3>2. state'[n] = Recorded(state[n], operational) BY <1>2, <2>2
    <3>3. /\ state'[n] \in NodeState /\ state'[n].requests = state[n].requests + 1
          /\ state'[n].inflight = state[n].inflight
          /\ state'[n].successes + state'[n].failures = state[n].successes + state[n].failures + 1
      <4>1. /\ state[n] \in NodeState /\ state[n] \in [requests : Int, successes : Int, failures : Int, inflight : Int]
            /\ state[n].requests \in Nat /\ state[n].successes \in Nat
            /\ state[n].failures \in Nat /\ state[n].inflight \in Nat
        BY BookNow DEF NodeState
      <4>2. CASE operational = TRUE
        <5>1. state'[n] = [requests |-> state[n].requests + 1, successes |-> state[n].successes + 1,
                           failures |-> state[n].failures, inflight |-> state[n].inflight]
          BY <3>2, <4>1, <4>2, RecordedIs
        <5>2. /\ state'[n].requests = state[n].requests + 1 /\ state'[n].successes = state[n].successes + 1
              /\ state'[n].failures = state[n].failures /\ state'[n].inflight = state[n].inflight
          BY <5>1
        <5>3. state[n].requests + 1 \in Nat /\ state[n].successes + 1 \in Nat BY <4>1
        <5>4. state'[n] \in NodeState BY <4>1, <5>1, <5>3, NodeIs
        <5> QED BY <4>1, <5>2, <5>4
      <4>3. CASE operational = FALSE
        <5>1. state'[n] = [requests |-> state[n].requests + 1, successes |-> state[n].successes,
                           failures |-> state[n].failures + 1, inflight |-> state[n].inflight]
          BY <3>2, <4>1, <4>3, RecordedIs
        <5>2. /\ state'[n].requests = state[n].requests + 1 /\ state'[n].successes = state[n].successes
              /\ state'[n].failures = state[n].failures + 1 /\ state'[n].inflight = state[n].inflight
          BY <5>1
        <5>3. state[n].requests + 1 \in Nat /\ state[n].failures + 1 \in Nat BY <4>1
        <5>4. state'[n] \in NodeState BY <4>1, <5>1, <5>3, NodeIs
        <5> QED BY <4>1, <5>2, <5>4
      <4> QED BY <4>2, <4>3
    <3>4. /\ state[n].requests \in Nat /\ packets[n] \in Nat /\ state[n].successes \in Nat /\ state[n].failures \in Nat
          /\ state[n].requests + Cardinality(SentOf(n)) = packets[n]
          /\ state[n].successes + state[n].failures <= state[n].requests
      BY BookNow
    <3>5. packets'[n] \in Nat /\ state'[n].requests + Cardinality(SentOf(n)') = packets'[n]
      BY <2>1, <3>1, <3>3, <3>4
    <3>6. state'[n].successes + state'[n].failures <= state'[n].requests BY <3>3, <3>4
    <3> QED BY <2>1, <3>3, <3>5, <3>6, BookNow DEF Booked
  <2>3. CASE n # rq[q].node
    <3>1. packets'[n] = packets[n] BY <1>3, <2>3, CadTypes
    <3>2. state'[n] = state[n] BY <1>2, <2>3
    <3> QED BY <2>1, <3>1, <3>2, BookNow DEF Booked
  <2> QED BY <2>2, <2>3
<1>5. state' \in [Nodes -> NodeState] BY <1>2, <1>4
<1>6. packets' \in [Nodes -> Nat]
  <2>1. packets \in [Nodes -> Nat] BY CadTypes
  <2>2. packets' = [n \in Nodes |-> packets'[n]] BY <1>3, <2>1
  <2> QED BY <1>4, <2>2
<1>7. /\ attempted' \in [Hosts -> BOOLEAN] /\ poked' \subseteq Hosts
      /\ \A h \in Hosts : attempted'[h] <=> h \in poked'
  <2>1. attempted' = [attempted EXCEPT ![rq[q].host] = TRUE] /\ poked' = poked \cup {rq[q].host} BY DEF FinishHickory
  <2>2. rq[q].host \in Hosts BY <1>0 DEF CadInv, Hosted
  <2> QED BY <2>1, <2>2, FlagsKept
<1> QED BY <1>0, <1>0a, <1>1, <1>4, <1>5, <1>6, <1>7, BooksMove

\* A cancelled request leaves its slot behind if it slept, its load if it had one, and is
\* counted if its datagram had left.
LEMMA CancelKeeps ==
    ASSUME CadInv, NEW q \in Requests, CancelRequest(q)
    PROVE  CadInv'
<1>1. Leave(q) /\ rq' = [rq EXCEPT ![q] = NoRequest] BY DEF CancelRequest, Leave
<1>2. UNCHANGED <<now, spacing, next_at, attempted, packets, poked, started>> /\ orphans' = orphans \cup Kept(q)
  BY DEF CancelRequest
<1>3. state' = [n \in Nodes |-> IF n = rq[q].node
                                THEN IF rq[q].via = "hickory" THEN state[n]
                                     ELSE IF rq[q].pc = "unsent" THEN Unenter(state[n])
                                     ELSE IF rq[q].pc = "sent" THEN [Unenter(state[n]) EXCEPT !.requests = @ + 1]
                                     ELSE state[n]
                                ELSE state[n]]
  BY DEF CancelRequest, Count, In
<1>4. state \in [Nodes -> NodeState] /\ rq[q] \in CadRequest BY CadTypes
<1>5. CASE rq[q].pc = "sleep" /\ rq[q].slot > now
  <2>1. state' = state BY <1>3, <1>4, <1>5
  <2>2. orphans' = orphans \cup {rq[q].slot} BY <1>2, <1>5 DEF Kept, In
  <2> QED BY <1>1, <1>2, <1>5, <2>1, <2>2, OrphanKeeps
<1>6. CASE ~(rq[q].pc = "sleep" /\ rq[q].slot > now)
  <2>1. orphans' = orphans BY <1>2, <1>6 DEF Kept, In
  <2>2. rq[q].pc = "sleep" => rq[q].slot <= now BY <1>4, <1>6, CadTypes DEF CadRequest
  <2>3. CASE rq[q].via = "hickory" \/ rq[q].pc \notin {"unsent", "sent"}
    <3>1. state' = state BY <1>3, <1>4, <2>3
    <3> QED BY <1>1, <1>2, <2>1, <2>2, <2>3, <3>1, LeaveQuiet
  <2>4. CASE rq[q].via = "fast" /\ rq[q].pc = "unsent"
    <3>1. state' = [n \in Nodes |-> IF n = rq[q].node THEN Unenter(state[n]) ELSE state[n]] BY <1>3, <2>4
    <3> QED BY <1>1, <1>2, <2>1, <2>4, <3>1, UnsentKeeps
  <2>5. CASE rq[q].via = "fast" /\ rq[q].pc = "sent"
    <3>1. state' = [n \in Nodes |->
                       IF n = rq[q].node
                       THEN [requests |-> state[n].requests + 1, successes |-> state[n].successes + 0,
                             failures |-> state[n].failures + 0, inflight |-> state[n].inflight - 1]
                       ELSE state[n]]
      BY <1>3, <1>4, <2>5, Written
    <3>2. 0 \in Nat /\ 0 + 0 <= 1 OBVIOUS
    <3> QED BY <1>1, <1>2, <2>1, <2>5, <3>1, <3>2, SentKeeps
  <2>6. rq[q].via \in {"fast", "hickory"} BY <1>4 DEF CadRequest
  <2> QED BY <2>3, <2>4, <2>5, <2>6
<1> QED BY <1>5, <1>6

-----------------------------------------------------------------------------

LEMMA CadStart == CadInit => CadInv
<1> SUFFICES ASSUME CadInit PROVE CadInv OBVIOUS
<1>1. \A q \in Requests : rq[q].pc = "off" BY DEF CadInit, NoRequest
<1>2. CadTypeOK
  <2>1. rq \in [Requests -> CadRequest] BY NoneIn DEF CadInit
  <2>2. state \in [Nodes -> NodeState] BY DEF CadInit, NoState, NodeState
  <2> QED BY <2>1, <2>2, CadenceAssumption DEF CadInit, CadTypeOK, CadRequest, NodeState
<1>3. Hosted BY <1>1 DEF Hosted
<1>4. IsFiniteSet(orphans) /\ Cardinality(orphans) = 0 BY FS_EmptySet DEF CadInit
<1>5. SlotsApart BY <1>1, <1>4 DEF CadInit, SlotsApart
<1>6. Within
  <2>1. Reserving = {} BY <1>1 DEF Reserving
  <2>2. Cardinality(Reserving) = 0 BY <2>1, FS_EmptySet
  <2> QED BY <1>4, <2>2, CadenceAssumption DEF Within
<1>7. Ahead
  <2> SUFFICES ASSUME NEW t \in Nat, t >= now
               PROVE  next_at <= t + Widest * (1 + Cardinality(Sleepers(t)) + Cardinality(Orphaned(t)))
    BY DEF Ahead
  <2>1. Sleepers(t) = {} /\ Orphaned(t) = {} BY <1>1 DEF CadInit, Sleepers, Orphaned
  <2>2. Cardinality(Sleepers(t)) = 0 /\ Cardinality(Orphaned(t)) = 0 BY <2>1, FS_EmptySet
  <2> QED BY <2>2, WidestIs DEF CadInit
<1>8. Books
  <2>1. ASSUME NEW n \in Nodes PROVE Booked(n)
    <3>1. SentOf(n) = {} /\ OpenOf(n) = {} BY <1>1 DEF SentOf, OpenOf
    <3>2. Cardinality(SentOf(n)) = 0 /\ Cardinality(OpenOf(n)) = 0 BY <3>1, FS_EmptySet
    <3>3. state[n].requests = 0 /\ state[n].successes = 0 /\ state[n].failures = 0 /\ state[n].inflight = 0
          /\ packets[n] = 0
      BY DEF CadInit, NoState
    <3> QED BY <3>2, <3>3 DEF Booked
  <2> QED BY <2>1 DEF CadInit, Books
<1> QED BY <1>2, <1>3, <1>5, <1>6, <1>7, <1>8 DEF CadInv, Cadence

LEMMA CadKept == CadInv /\ [CadNext]_cadVars => CadInv'
<1> SUFFICES ASSUME CadInv, [CadNext]_cadVars PROVE CadInv' OBVIOUS
<1>1. CASE UNCHANGED cadVars
  <2>1. CadTypeOK' BY <1>1 DEF cadVars, CadInv, CadTypeOK
  <2>2. Hosted' /\ SlotsApart' BY <1>1 DEF cadVars, CadInv, Hosted, Cadence, SlotsApart
  <2>3. Within' BY <1>1 DEF cadVars, CadInv, Cadence, Within, Reserving
  <2>4. Ahead' BY <1>1 DEF cadVars, CadInv, Cadence, Ahead, Sleepers, Orphaned
  <2>5. Books' BY <1>1 DEF cadVars, CadInv, Books, Booked, SentOf, OpenOf
  <2> QED BY <2>1, <2>2, <2>3, <2>4, <2>5 DEF CadInv, Cadence
<1>2. CASE Tick BY <1>2, TickKeeps
<1>3. CASE Adapt BY <1>3, AdaptKeeps
<1>4. CASE \E s \in orphans : FreeOrphan(s) BY <1>4, FreeOrphanKeeps
<1>5. ASSUME NEW q \in Requests,
             \/ Begin(q) \/ Permit(q) \/ Reserve(q) \/ Wake(q) \/ Enter(q) \/ Send(q)
             \/ FailUnsent(q) \/ Finish(q) \/ FinishHickory(q) \/ CancelRequest(q) \/ GiveUp(q)
      PROVE  CadInv'
  <2>1. CASE Begin(q) BY <2>1, BeginKeeps
  <2>2. CASE Permit(q) BY <2>2, PermitKeeps
  <2>3. CASE Reserve(q) BY <2>3, ReserveKeeps
  <2>4. CASE Wake(q) BY <2>4, WakeKeeps
  <2>5. CASE Enter(q) BY <2>5, EnterKeeps
  <2>6. CASE Send(q) BY <2>6, SendKeeps
  <2>7. CASE FailUnsent(q) BY <2>7, FailUnsentKeeps
  <2>8. CASE Finish(q) BY <2>8, FinishKeeps
  <2>9. CASE FinishHickory(q) BY <2>9, FinishHickoryKeeps
  <2>10. CASE CancelRequest(q) BY <2>10, CancelKeeps
  <2>11. CASE GiveUp(q) BY <2>11, GiveUpKeeps
  <2> QED BY <1>5, <2>1, <2>2, <2>3, <2>4, <2>5, <2>6, <2>7, <2>8, <2>9, <2>10, <2>11
<1> QED BY <1>1, <1>2, <1>3, <1>4, <1>5 DEF CadNext

LEMMA CadHolds == CadSpec => []CadInv
  BY CadStart, CadKept, PTL DEF CadSpec

\* The next slot is at most one spacing away for each permit, however the requests end.
LEMMA Horizon == CadInv => HorizonBounded
<1> SUFFICES ASSUME CadInv PROVE HorizonBounded OBVIOUS
<1>1. now \in Nat /\ next_at \in Nat /\ Reservations \in Nat /\ Widest \in Nat
  BY CadTypes, CadenceAssumption, WidestIs
<1>2. Cardinality(Reserving) \in Nat /\ IsFiniteSet(Reserving) BY RequestSets DEF Reserving
<1>3. IsFiniteSet(orphans) /\ Cardinality(orphans) \in Nat BY FS_CardinalityType DEF CadInv, Cadence, SlotsApart
<1>4. Taken <= Reservations BY DEF Taken, Reserving, In, CadInv, Cadence, Within
<1>5. Sleepers(now) \subseteq Reserving /\ Orphaned(now) \subseteq orphans BY DEF Sleepers, Reserving, Orphaned
<1>6. Cardinality(Sleepers(now)) <= Cardinality(Reserving) BY <1>2, <1>5, FS_Subset
<1>7. Cardinality(Orphaned(now)) <= Cardinality(orphans) BY <1>3, <1>5, FS_Subset
<1> DEFINE j == 1 + Cardinality(Sleepers(now)) + Cardinality(Orphaned(now))
<1>8. Cardinality(Sleepers(now)) \in Nat /\ Cardinality(Orphaned(now)) \in Nat BY <1>1, SlotCounts
<1>9. j \in Nat /\ Reservations + 1 \in Nat BY <1>1, <1>8
<1>10. j <= Reservations + 1 BY <1>1, <1>2, <1>3, <1>6, <1>7, <1>8 DEF CadInv, Cadence, Within
<1>11. next_at <= now + Widest * j BY <1>1 DEF CadInv, Cadence, Ahead
<1> HIDE DEF j
<1>12. Widest * j <= Widest * (Reservations + 1) BY <1>1, <1>9, <1>10, NoFewer
<1>13. Widest * j \in Nat /\ Widest * (Reservations + 1) \in Nat BY <1>1, <1>9
<1>14. next_at <= now + Widest * (Reservations + 1) BY <1>1, <1>11, <1>12, <1>13
<1>15. Widest * (Reservations + 1) = (Reservations + 1) * Widest BY <1>1
<1> QED BY <1>4, <1>14, <1>15 DEF HorizonBounded

LEMMA Counted == CadInv => SentCounted
<1> SUFFICES ASSUME CadInv PROVE SentCounted OBVIOUS
<1>1. ASSUME NEW n \in Nodes
      PROVE  /\ state[n].requests + Cardinality({q \in Requests : rq[q].node = n /\ rq[q].via = "fast" /\ In(q, {"sent"})})
                    = packets[n]
             /\ state[n].inflight =
                    Cardinality({q \in Requests : rq[q].node = n /\ rq[q].via = "fast" /\ In(q, {"unsent", "sent"})})
             /\ state[n].successes + state[n].failures <= state[n].requests
  <2>1. {q \in Requests : rq[q].node = n /\ rq[q].via = "fast" /\ In(q, {"sent"})} = SentOf(n) BY DEF SentOf, In
  <2>2. {q \in Requests : rq[q].node = n /\ rq[q].via = "fast" /\ In(q, {"unsent", "sent"})} = OpenOf(n)
    BY DEF OpenOf, In
  <2> QED BY <2>1, <2>2 DEF CadInv, Books, Booked
<1>2. \A h \in Hosts : attempted[h] <=> h \in poked BY DEF CadInv, Books
<1> QED BY <1>1, <1>2 DEF SentCounted

\* However requests end, cancelled while they wait, while they sleep, before or after their
\* datagram, the cadence is at most one spacing per permit ahead of the clock, and the
\* metrics of the resolvers and the attempts of the names agree with the datagrams that left.
THEOREM DnsNothingLeftBehind == CadSpec => []CadenceSafe
<1>1. CadInv => CadenceSafe BY Horizon, Counted DEF CadenceSafe
<1> QED BY <1>1, CadHolds, PTL

\* The types of the cadence and the books, for any requests, hosts, resolvers and spacings.
THEOREM DnsCadenceTyped == CadSpec => []CadTypeOK
<1>1. CadInv => CadTypeOK BY DEF CadInv
<1> QED BY <1>1, CadHolds, PTL

-----------------------------------------------------------------------------
(* The verdict on a name.  That a lying resolver decides nothing alone is    *)
(* not inductive: it rests on what an honest resolver may have answered      *)
(* (Honest), on the verdicts counted so far in a zone (Tallied), and on      *)
(* which stage a policy can be in (InStage).                                 *)

\* At most one resolver lies, and it is outvoted.
OneLiar == Outvoted /\ Cardinality(liars) <= 1

\* Consensus is a stage of its policies, and of no other.
InStage == stage # "done" => (stage = "consensus" <=> FirstStage(policy) = "consensus")

\* What the resolvers that do not lie answered is true.
Honest ==
    \A r \in resolvers \ liars, f \in Families :
        /\ answers[r][f] = "negative" => truth = "absent"
        /\ answers[r][f] = "positive" => truth # "absent"

\* The verdicts of a zone that were counted.
Tallied ==
    OneLiar =>
        /\ tally.negative > 0 => truth = "absent"
        /\ tally.positive > 0 /\ policy = "probe consensus" => truth # "absent"

\* An open tally has room for another sample.
Open ==
    tally.zone = Pending =>
        tally.total < 5 /\ tally.positive <= tally.total /\ tally.negative <= tally.total

EngInv ==
    EngTypeOK /\ InStage /\ Honest /\ Tallied /\ Open /\ LiarsTolerated /\ ProbesSound

\* The configured resolvers are finitely many, and so are those of them that lie.
LEMMA FiniteResolvers ==
    ASSUME EngTypeOK
    PROVE  IsFiniteSet(resolvers) /\ IsFiniteSet(liars)
           /\ Cardinality(resolvers) \in Nat /\ Cardinality(liars) \in Nat
<1>1. PICK n \in ResolverCounts : resolvers = 1..n
    BY DEF EngTypeOK
<1>2. IsFiniteSet(resolvers)
    BY <1>1, EngineAssumption, FS_Interval
<1>3. IsFiniteSet(liars)
    BY <1>2, FS_Subset DEF EngTypeOK
<1> QED BY <1>2, <1>3, FS_CardinalityType

\* Of two resolvers one does not lie.
LEMMA OneHonest ==
    ASSUME EngTypeOK, Cardinality(liars) <= 1, NEW a \in resolvers, NEW b \in resolvers, a # b
    PROVE  a \notin liars \/ b \notin liars
<1> SUFFICES ASSUME a \in liars, b \in liars PROVE FALSE
    OBVIOUS
<1>1. {a, b} \subseteq liars
    OBVIOUS
<1>2. IsFiniteSet({a}) /\ Cardinality({a}) = 1
    BY FS_Singleton
<1>3. IsFiniteSet({a, b}) /\ Cardinality({a, b}) = 2
    <2>1. Cardinality({a} \cup {b}) = Cardinality({a}) + 1
        BY <1>2, FS_AddElement
    <2>2. {a, b} = {a} \cup {b}
        OBVIOUS
    <2>3. IsFiniteSet({a} \cup {b})
        BY <1>2, FS_AddElement
    <2> QED BY <2>1, <2>2, <2>3, <1>2
<1>4. Cardinality({a, b}) <= Cardinality(liars)
    BY <1>1, FiniteResolvers, FS_Subset
<1> QED BY <1>3, <1>4, FiniteResolvers

\* More resolvers than lie include one that does not.
LEMMA MoreThanLie ==
    ASSUME EngTypeOK, NEW S \in SUBSET resolvers, Cardinality(S) > Cardinality(liars)
    PROVE  \E r \in S : r \notin liars
<1> SUFFICES ASSUME S \subseteq liars PROVE FALSE
    OBVIOUS
<1>1. Cardinality(S) <= Cardinality(liars)
    BY FiniteResolvers, FS_Subset
<1>2. IsFiniteSet(S)
    BY FiniteResolvers, FS_Subset
<1>3. Cardinality(S) \in Nat
    BY <1>2, FS_CardinalityType
<1> QED BY <1>1, <1>3, FiniteResolvers

\* A set of both positions has both.
LEMMA BothPositions ==
    ASSUME NEW S \in SUBSET (1..2), Cardinality(S) >= 2
    PROVE  1 \in S /\ 2 \in S
<1>1. S = {} \/ S = {1} \/ S = {2} \/ (1 \in S /\ 2 \in S)
    <2>1. 1..2 = {1, 2}
        OBVIOUS
    <2> QED BY <2>1, Zenon
<1>2. Cardinality({}) = 0 /\ Cardinality({1}) = 1 /\ Cardinality({2}) = 1
    BY FS_EmptySet, FS_Singleton
<1>3. ~(0 >= 2) /\ ~(1 >= 2)
    OBVIOUS
<1>4. S # {} /\ S # {1} /\ S # {2}
    BY <1>2, <1>3, Zenon
<1> QED BY <1>1, <1>4

\* Two resolvers or more are asked in pairs, but for consensus, which asks all of them.
LEMMA AskedInPairs ==
    ASSUME EngTypeOK, Cardinality(resolvers) >= 2, FirstStage(policy) # "consensus"
    PROVE  /\ Len(order) = 2 /\ DOMAIN order = 1..2
           /\ order[1] \in resolvers /\ order[2] \in resolvers /\ order[1] # order[2]
<1>1. order \in {s \in [1..2 -> resolvers] : s[1] # s[2]}
    BY FiniteResolvers DEF EngTypeOK, Orders
<1>2. order \in Seq(resolvers) /\ Len(order) = 2
    <2>1. order \in [1..2 -> resolvers]
        BY <1>1
    <2>2. order \in Seq(resolvers)
        BY <2>1, 2 \in Nat, SeqDef
    <2> QED BY <2>1, <2>2, LenProperties
<1> QED BY <1>1, <1>2

LEMMA MergeVerdict ==
    ASSUME NEW a, NEW b
    PROVE  /\ Merge(a, b) \in Verdicts
           /\ Merge(a, b) = "negative" => a = "negative" /\ b = "negative"
BY DEF Merge, Verdicts

LEMMA EitherVerdict ==
    ASSUME NEW a, NEW b
    PROVE  /\ EitherOrBoth(a, b) \in Verdicts \cup {Pending}
           /\ EitherOrBoth(a, b) = "negative" => a = "negative" /\ b = "negative"
           /\ EitherOrBoth(a, b) = "positive" => a = "positive" \/ b = "positive"
BY MergeVerdict DEF EitherOrBoth, Merge, Verdicts, Pending

\* What a stage concludes is a verdict, or nothing yet.
LEMMA OutcomeVerdict ==
    ASSUME EngTypeOK, stage # "done"
    PROVE  Outcome \in Verdicts \cup {Pending}
<1>1. Quorum \in Verdicts \cup {Pending}
    BY MergeVerdict DEF Quorum, Verdicts
<1>2. Consensus \in Verdicts \cup {Pending}
    BY DEF Consensus, Verdicts
<1>3. EitherOrBoth(InOrder("A"), InOrder("AAAA")) \in Verdicts \cup {Pending}
    BY EitherVerdict
<1> QED BY <1>1, <1>2, <1>3 DEF Outcome, EngTypeOK

\* Two negatives for one family are the answers of two resolvers.
LEMMA QuorumSound ==
    ASSUME EngInv, OneLiar, stage = "quorum", Outcome = "negative"
    PROVE  truth = "absent"
<1>1. EngTypeOK /\ Cardinality(resolvers) >= 2 /\ Cardinality(liars) <= 1
    BY DEF EngInv, OneLiar, Outvoted
<1>2. FirstStage(policy) # "consensus"
    BY DEF EngInv, InStage
<1>3. Len(order) = 2 /\ order[1] \in resolvers /\ order[2] \in resolvers /\ order[1] # order[2]
    BY <1>1, <1>2, AskedInPairs
<1>4. answers[order[1]]["A"] = "negative" /\ answers[order[2]]["A"] = "negative"
    BY <1>3, MergeVerdict DEF Outcome, Quorum, Pending
<1>5. order[1] \notin liars \/ order[2] \notin liars
    BY <1>1, <1>3, OneHonest
<1>6. "A" \in Families
    BY DEF Families
<1> QED BY <1>3, <1>4, <1>5, <1>6 DEF EngInv, Honest

LEMMA FamiliesSound ==
    ASSUME EngInv, OneLiar, stage = "families", Outcome = "negative"
    PROVE  truth = "absent"
<1>1. EngTypeOK /\ Cardinality(resolvers) >= 2 /\ Cardinality(liars) <= 1
    BY DEF EngInv, OneLiar, Outvoted
<1>2. FirstStage(policy) # "consensus"
    BY DEF EngInv, InStage
<1>3. /\ Len(order) = 2 /\ DOMAIN order = 1..2
      /\ order[1] \in resolvers /\ order[2] \in resolvers /\ order[1] # order[2]
    BY <1>1, <1>2, AskedInPairs
<1>4. InOrder("A") = "negative"
    BY EitherVerdict DEF Outcome
<1>5. Required_negatives = 2
    BY <1>3 DEF Required_negatives
<1> DEFINE outs == [i \in DOMAIN order |-> answers[order[i]]["A"]]
           neg == {i \in DOMAIN order : outs[i] = "negative"}
<1>6. Cardinality(neg) >= 2
    BY <1>4, <1>5 DEF InOrder, Pending
<1>7. neg \in SUBSET (1..2)
    BY <1>3
<1> HIDE DEF neg
<1>8. 1 \in neg /\ 2 \in neg
    BY <1>6, <1>7, BothPositions
<1>9. answers[order[1]]["A"] = "negative" /\ answers[order[2]]["A"] = "negative"
    BY <1>8 DEF neg
<1>10. order[1] \notin liars \/ order[2] \notin liars
    BY <1>1, <1>3, OneHonest
<1>11. "A" \in Families
    BY DEF Families
<1> QED BY <1>3, <1>9, <1>10, <1>11 DEF EngInv, Honest

\* A quorum of answers outvotes the liars: one of them is honest.
LEMMA ConsensusSound ==
    ASSUME EngInv, OneLiar, stage = "consensus"
    PROVE  /\ Outcome = "negative" => truth = "absent"
           /\ Outcome = "positive" => truth # "absent"
<1> DEFINE required == Positive_quorum(Cardinality(resolvers))
           of(r) == EitherOrBoth(answers[r]["A"], answers[r]["AAAA"])
           said(o) == {r \in resolvers : of(r) = o}
           with(o) == Cardinality(said(o))
<1>1. Outcome = IF with("positive") >= required THEN "positive"
                ELSE IF with(Pending) > 0 THEN Pending
                ELSE IF with("positive") = 0 /\ with("negative") >= required
                        /\ with("indeterminate") = 0
                     THEN "negative" ELSE "indeterminate"
    BY DEF Outcome, Consensus
<1>2. EngTypeOK /\ Cardinality(liars) \in Nat /\ Cardinality(resolvers) \in Nat
    BY FiniteResolvers DEF EngInv
<1>3. required \in Nat /\ Cardinality(liars) < required
    BY <1>2 DEF OneLiar, Outvoted, Positive_quorum
<1>4. ASSUME NEW o, with(o) >= required
      PROVE  \E r \in resolvers : r \notin liars /\ of(r) = o
    <2>1. said(o) \in SUBSET resolvers
        OBVIOUS
    <2>2. IsFiniteSet(said(o))
        BY <1>2, <2>1, FiniteResolvers, FS_Subset
    <2>3. with(o) \in Nat
        BY <2>2, FS_CardinalityType
    <2> HIDE DEF required, of
    <2>4. Cardinality(said(o)) > Cardinality(liars)
        BY <1>2, <1>3, <1>4, <2>3
    <2> HIDE DEF said
    <2>5. \E r \in said(o) : r \notin liars
        BY <1>2, <2>1, <2>4, MoreThanLie
    <2> QED BY <2>5 DEF said
<1>5. "A" \in Families /\ "AAAA" \in Families
    BY DEF Families
<1>6. ASSUME Outcome = "negative" PROVE truth = "absent"
    <2> HIDE DEF required, with, of
    <2>1. with("negative") >= required
        BY <1>1, <1>6 DEF Pending
    <2>2. PICK r \in resolvers : r \notin liars /\ of(r) = "negative"
        BY <2>1, <1>4
    <2>3. answers[r]["A"] = "negative"
        BY <2>2, EitherVerdict DEF of
    <2> QED BY <2>2, <2>3, <1>5 DEF EngInv, Honest
<1>7. ASSUME Outcome = "positive" PROVE truth # "absent"
    <2> HIDE DEF required, with, of
    <2>1. with("positive") >= required
        BY <1>1, <1>7 DEF Pending
    <2>2. PICK r \in resolvers : r \notin liars /\ of(r) = "positive"
        BY <2>1, <1>4
    <2>3. answers[r]["A"] = "positive" \/ answers[r]["AAAA"] = "positive"
        BY <2>2, EitherVerdict DEF of
    <2> QED BY <2>2, <2>3, <1>5 DEF EngInv, Honest
<1> QED BY <1>6, <1>7

LEMMA EngInitInv == EngInit => EngInv
<1> SUFFICES ASSUME EngInit PROVE EngInv
    OBVIOUS
<1>1. PICK n \in ResolverCounts : resolvers = 1..n
    BY DEF EngInit
<1>2. stage \in {"quorum", "families", "consensus"} /\ InStage
    BY DEF EngInit, FirstStage, Policies, InStage
<1>3. /\ answers = [r \in resolvers |-> [f \in Families |-> Pending]]
      /\ verdict = Pending /\ tally = NoTally
      /\ policy \in Policies /\ truth \in Truths /\ order \in Orders /\ liars \subseteq resolvers
    BY DEF EngInit, Unasked
<1>4. /\ tally \in [positive : 0..5, negative : 0..5, total : 0..5, common : BOOLEAN,
                  zone : {Pending, "wildcard", "normal", "indeterminate"}]
      /\ tally.zone = Pending /\ tally.total = 0 /\ tally.positive = 0 /\ tally.negative = 0
    BY <1>3 DEF NoTally
<1>5. answers \in [resolvers -> [Families -> Verdicts \cup {Pending}]]
    BY <1>3
<1>6. EngTypeOK
    BY <1>1, <1>2, <1>3, <1>4, <1>5 DEF EngTypeOK
<1>7. Honest
    BY <1>3 DEF Honest, Pending
<1>8. Tallied /\ Open
    BY <1>4 DEF Tallied, Open
<1>9. LiarsTolerated /\ ProbesSound
    BY <1>3, <1>4 DEF LiarsTolerated, ProbesSound, Pending
<1> QED BY <1>2, <1>6, <1>7, <1>8, <1>9 DEF EngInv

LEMMA AnswerKeeps ==
    ASSUME EngInv, NEW r \in resolvers, NEW f \in Families, Answer(r, f)
    PROVE  EngInv'
<1>1. PICK a \in Answers(r, f) : answers' = [answers EXCEPT ![r][f] = a]
    BY DEF Answer
<1>2. UNCHANGED <<resolvers, liars, truth, policy, stage, order, verdict, tally>>
    BY DEF Answer
<1>3. a \in Verdicts
    BY <1>1 DEF Answers, Verdicts
<1>4. answers \in [resolvers -> [Families -> Verdicts \cup {Pending}]]
    BY DEF EngInv, EngTypeOK
<1>5. answers' \in [resolvers -> [Families -> Verdicts \cup {Pending}]]
    BY <1>1, <1>3, <1>4
<1>6. EngTypeOK'
    BY <1>2, <1>5 DEF EngInv, EngTypeOK, Orders
<1>7. Honest'
    <2> SUFFICES ASSUME NEW q \in resolvers \ liars, NEW g \in Families
                 PROVE  /\ answers'[q][g] = "negative" => truth = "absent"
                        /\ answers'[q][g] = "positive" => truth # "absent"
        BY <1>2 DEF Honest
    <2>1. CASE q = r /\ g = f
        <3>1. answers'[q][g] = a
            BY <1>1, <1>4, <2>1
        <3>2. /\ a = "negative" => truth = "absent"
              /\ a = "positive" => truth # "absent"
            BY <1>1, <2>1 DEF Answers, Families
        <3> QED BY <3>1, <3>2
    <2>2. CASE ~(q = r /\ g = f)
        <3>1. answers'[q][g] = answers[q][g]
            BY <1>1, <1>4, <2>2
        <3> QED BY <3>1 DEF EngInv, Honest
    <2> QED BY <2>1, <2>2
<1>8. InStage' /\ Tallied' /\ Open' /\ LiarsTolerated' /\ ProbesSound'
    BY <1>2 DEF EngInv, InStage, Tallied, Open, LiarsTolerated, ProbesSound, OneLiar, Outvoted
<1> QED BY <1>6, <1>7, <1>8 DEF EngInv

\* Nobody has answered yet.
LEMMA UnaskedKeeps ==
    ASSUME EngInv, UNCHANGED <<resolvers, liars, truth>>, answers' = Unasked
    PROVE  answers' \in [resolvers -> [Families -> Verdicts \cup {Pending}]] /\ Honest'
BY DEF Unasked, Honest, Pending

LEMMA FallBackKeeps == ASSUME EngInv, FallBack PROVE EngInv'
<1>1. /\ UNCHANGED <<resolvers, liars, truth, policy, verdict, tally>>
      /\ stage = "quorum" /\ stage' = "families" /\ order' \in Orders /\ answers' = Unasked
    BY DEF FallBack
<1>2. answers' \in [resolvers -> [Families -> Verdicts \cup {Pending}]] /\ Honest'
    BY <1>1, UnaskedKeeps
<1>3. EngTypeOK'
    BY <1>1, <1>2 DEF EngInv, EngTypeOK, Orders
<1>4. InStage'
    BY <1>1 DEF EngInv, InStage
<1>5. Tallied' /\ Open' /\ LiarsTolerated' /\ ProbesSound'
    BY <1>1 DEF EngInv, Tallied, Open, LiarsTolerated, ProbesSound, OneLiar, Outvoted
<1> QED BY <1>2, <1>3, <1>4, <1>5 DEF EngInv

LEMMA ConcludeKeeps == ASSUME EngInv, Conclude PROVE EngInv'
<1>1. /\ UNCHANGED <<resolvers, liars, truth, policy, order, tally>>
      /\ stage # "done" /\ stage' = "done" /\ verdict' = Outcome /\ answers' = Unasked
    BY DEF Conclude
<1>2. answers' \in [resolvers -> [Families -> Verdicts \cup {Pending}]] /\ Honest'
    BY <1>1, UnaskedKeeps
<1>3. Outcome \in Verdicts \cup {Pending}
    BY <1>1, OutcomeVerdict DEF EngInv
<1>4. EngTypeOK'
    BY <1>1, <1>2, <1>3 DEF EngInv, EngTypeOK, Orders
<1>5. stage \in {"quorum", "families", "consensus"}
    BY <1>1 DEF EngInv, EngTypeOK
<1>6. ASSUME OneLiar
      PROVE  /\ Outcome = "negative" => truth = "absent"
             /\ Outcome = "positive" /\ FirstStage(policy) = "consensus" => truth # "absent"
    <2>1. FirstStage(policy) = "consensus" => stage = "consensus"
        BY <1>1 DEF EngInv, InStage
    <2> QED BY <1>5, <1>6, <2>1, QuorumSound, FamiliesSound, ConsensusSound
<1>7. LiarsTolerated'
    BY <1>1, <1>6 DEF LiarsTolerated, OneLiar, Outvoted
<1>8. InStage' /\ Tallied' /\ Open' /\ ProbesSound'
    BY <1>1 DEF EngInv, InStage, Tallied, Open, ProbesSound, OneLiar, Outvoted
<1> QED BY <1>2, <1>4, <1>7, <1>8 DEF EngInv

\* What a zone is classified as.
LEMMA ClassifySound ==
    ASSUME NEW t, t.positive \in Nat, t.negative \in Nat, NEW total \in Nat
    PROVE  /\ Classify(t, total) \in {"wildcard", "normal", "indeterminate"}
           /\ Classify(t, total) = "normal" => t.negative > 0
           /\ Classify(t, total) = "wildcard" => t.positive > 0
BY DEF Classify

\* A tally whose counts are replaced.
LEMMA TallyStep ==
    ASSUME NEW T, NEW Z, NEW y \in [positive : T, negative : T, total : T, common : BOOLEAN, zone : Z],
           NEW p \in T, NEW n \in T, NEW o \in T, NEW c \in BOOLEAN
    PROVE  [y EXCEPT !.total = o, !.common = c, !.positive = p, !.negative = n]
              \in [positive : T, negative : T, total : T, common : BOOLEAN, zone : Z]
OBVIOUS

LEMMA SampleKeeps == ASSUME EngInv, Sample PROVE EngInv'
<1> DEFINE step(common) ==
              [tally EXCEPT !.total = @ + 1, !.common = common,
                            !.positive = @ + IF verdict = "positive" THEN 1 ELSE 0,
                            !.negative = @ + IF verdict = "negative" THEN 1 ELSE 0]
           zoneOf(t) == IF t.total \in {3, 5} THEN Classify(t, t.total) ELSE Pending
           overAt(t) == t.total = 5 \/ zoneOf(t) \in {"wildcard", "normal"}
<1>1. PICK common \in {tally.common} \cup
              (IF verdict = "positive" /\ tally.positive > 0 THEN {FALSE} ELSE {}) :
          /\ tally' = [step(common) EXCEPT
                          !.zone = IF overAt(step(common)) THEN zoneOf(step(common)) ELSE Pending]
          /\ IF overAt(step(common)) THEN UNCHANGED <<stage, order, verdict>>
             ELSE stage' = FirstStage(policy) /\ order' \in Orders /\ verdict' = Pending
    BY DEF Sample
<1>2. /\ UNCHANGED <<resolvers, liars, truth, policy, answers>>
      /\ Probing /\ stage = "done" /\ tally.zone = Pending
    BY DEF Sample
<1>3. tally \in [positive : 0..5, negative : 0..5, total : 0..5, common : BOOLEAN,
                  zone : {Pending, "wildcard", "normal", "indeterminate"}]
    BY DEF EngInv, EngTypeOK
<1>4. tally.total < 5 /\ tally.positive <= tally.total /\ tally.negative <= tally.total
    BY <1>2 DEF EngInv, Open
<1> DEFINE t == step(common)
           zone == IF overAt(t) THEN zoneOf(t) ELSE Pending
<1>5. common \in BOOLEAN
    BY <1>1, <1>3
<1>6. /\ t.total = tally.total + 1 /\ t.common = common
      /\ t.positive = tally.positive + (IF verdict = "positive" THEN 1 ELSE 0)
      /\ t.negative = tally.negative + (IF verdict = "negative" THEN 1 ELSE 0)
    BY <1>3
<1>7. t \in [positive : 0..5, negative : 0..5, total : 0..5, common : BOOLEAN,
              zone : {Pending, "wildcard", "normal", "indeterminate"}]
    <2>1. /\ tally.total + 1 \in 0..5
          /\ tally.positive + (IF verdict = "positive" THEN 1 ELSE 0) \in 0..5
          /\ tally.negative + (IF verdict = "negative" THEN 1 ELSE 0) \in 0..5
        BY <1>3, <1>4
    <2> QED BY <1>3, <1>5, <2>1, TallyStep
<1>8. tally' = [t EXCEPT !.zone = zone]
    BY <1>1
<1>9. /\ Classify(t, t.total) \in {"wildcard", "normal", "indeterminate"}
      /\ Classify(t, t.total) = "normal" => t.negative > 0
      /\ Classify(t, t.total) = "wildcard" => t.positive > 0
    <2> HIDE DEF t
    <2> QED BY <1>7, ClassifySound
<1> HIDE DEF step
<1>10. /\ zone \in {Pending, "wildcard", "normal", "indeterminate"}
       /\ zone = "normal" => t.negative > 0
       /\ zone = "wildcard" => t.positive > 0
       /\ zone = Pending => t.total # 5
    BY <1>9 DEF Pending
<1> HIDE DEF zone, t
<1>11. /\ tally'.positive = t.positive /\ tally'.negative = t.negative
       /\ tally'.total = t.total /\ tally'.zone = zone
       /\ tally' \in [positive : 0..5, negative : 0..5, total : 0..5, common : BOOLEAN,
                  zone : {Pending, "wildcard", "normal", "indeterminate"}]
    BY <1>7, <1>8, <1>10
<1>12. Open'
    BY <1>3, <1>4, <1>6, <1>10, <1>11 DEF Open
<1>13. /\ stage' \in {"quorum", "families", "consensus", "done"} /\ order' \in Orders
       /\ verdict' \in Verdicts \cup {Pending}
    BY <1>1, <1>2 DEF EngInv, EngTypeOK, FirstStage, Policies
<1>14. EngTypeOK'
    BY <1>2, <1>11, <1>13 DEF EngInv, EngTypeOK, Orders
<1>15. InStage'
    BY <1>1, <1>2 DEF EngInv, EngTypeOK, InStage, FirstStage, Policies
<1>16. Honest'
    BY <1>2 DEF EngInv, Honest
<1>17. FirstStage("probe consensus") = "consensus"
    BY DEF FirstStage
<1>18. ASSUME OneLiar
       PROVE  /\ t.negative > 0 => truth = "absent"
              /\ t.positive > 0 /\ policy = "probe consensus" => truth # "absent"
    <2>1. /\ tally.negative > 0 => truth = "absent"
          /\ tally.positive > 0 /\ policy = "probe consensus" => truth # "absent"
        BY <1>18 DEF EngInv, Tallied
    <2>2. /\ verdict = "negative" => truth = "absent"
          /\ verdict = "positive" /\ policy = "probe consensus" => truth # "absent"
        BY <1>17, <1>18 DEF EngInv, LiarsTolerated, OneLiar
    <2>3. ASSUME t.negative > 0 PROVE truth = "absent"
        <3>1. tally.negative > 0 \/ verdict = "negative"
            BY <1>3, <1>6, <2>3
        <3> QED BY <2>1, <2>2, <3>1
    <2>4. ASSUME t.positive > 0, policy = "probe consensus" PROVE truth # "absent"
        <3>1. tally.positive > 0 \/ verdict = "positive"
            <4>1. t.positive > 0
                BY <2>4
            <4> QED BY <1>3, <1>6, <4>1
        <3> QED BY <2>1, <2>2, <2>4, <3>1
    <2> QED BY <2>3, <2>4
<1>19. Tallied'
    BY <1>2, <1>11, <1>18 DEF Tallied, OneLiar, Outvoted
<1>20. ProbesSound'
    BY <1>2, <1>10, <1>11, <1>18 DEF ProbesSound, OneLiar, Outvoted
<1>21. verdict' = verdict \/ verdict' = Pending
    BY <1>1
<1>22. LiarsTolerated'
    BY <1>2, <1>21 DEF EngInv, LiarsTolerated, Outvoted, Pending
<1> QED BY <1>12, <1>14, <1>15, <1>16, <1>19, <1>20, <1>22 DEF EngInv

LEMMA EngStepInv == EngInv /\ [EngNext]_engVars => EngInv'
<1> SUFFICES ASSUME EngInv, [EngNext]_engVars PROVE EngInv'
    OBVIOUS
<1>1. CASE EngNext
    BY <1>1, AnswerKeeps, FallBackKeeps, ConcludeKeeps, SampleKeeps DEF EngNext
<1>2. CASE UNCHANGED engVars
    <2>1. UNCHANGED <<resolvers, liars, truth, policy, stage, order, answers, verdict, tally>>
        BY <1>2 DEF engVars
    <2>2. EngTypeOK' /\ InStage' /\ Honest'
        BY <2>1 DEF EngInv, EngTypeOK, Orders, InStage, Honest
    <2>3. Tallied' /\ Open' /\ LiarsTolerated' /\ ProbesSound'
        BY <2>1 DEF EngInv, Tallied, Open, LiarsTolerated, ProbesSound, OneLiar, Outvoted
    <2> QED BY <2>2, <2>3 DEF EngInv
<1> QED BY <1>1, <1>2

\* At any number of resolvers and liars, a lookup is in a stage its policy has, and asks the
\* resolvers in an order of its own (dns/engine.rs, dns/policy.rs).
THEOREM EngineTyped == EngSpec => []EngTypeOK
<1>1. EngInv => EngTypeOK
    BY DEF EngInv
<1> QED BY <1>1, EngInitInv, EngStepInv, PTL DEF EngSpec

\* One lying resolver costs no live name and opens no wildcard zone, however many resolvers
\* there are, in whatever order the answers of both families come, where the lookup stops
\* early and where it falls back to the second stage; under consensus it makes no absent name
\* a finding and no ordinary zone a wildcard (resolve_host_classified_with_policy,
\* collect_consensus_results, wildcard_probe_with_policy).
THEOREM EngineSound == EngSpec => []VerdictsSound
<1>1. EngInv => VerdictsSound
    BY DEF EngInv, VerdictsSound
<1> QED BY <1>1, EngInitInv, EngStepInv, PTL DEF EngSpec
=============================================================================
