----------------------------- MODULE DnsCadence -----------------------------
(***************************************************************************)
(* How one DNS request gets onto the network and is accounted for          *)
(* (dns/engine.rs, dns/transport.rs): the reservation permit, the slot of  *)
(* the shared cadence, the sleep until the slot, the datagram, the answer; *)
(* and what is undone, kept or counted when the request is dropped at any  *)
(* of these points.  The rate is whatever NetworkGovernor makes it.        *)
(*                                                                         *)
(* A request goes over the raw transport ("fast") or, where that failed,   *)
(* through Hickory, which reports only the end of a lookup.  Time is in    *)
(* ticks; a spacing of 0 is an unlimited rate.                             *)
(***************************************************************************)
EXTENDS Integers, FiniteSets

CONSTANTS
    Requests,      \* futures that may be alive at once
    Hosts,         \* names with a host_attempted flag
    Nodes,         \* resolvers with metrics
    Reservations,  \* MAX_CADENCE_RESERVATIONS
    Spacings,      \* 1 / rate, for every rate the governor may set
    Delays,        \* bound: how far ahead deadlines are set
    MaxTime,       \* bound: ticks
    MaxSends       \* bound: requests started, all together

ASSUME CadenceAssumption ==
    /\ IsFiniteSet(Requests) /\ Reservations \in Nat \ {0} /\ Delays \subseteq Nat
    /\ Spacings \subseteq Nat /\ \E widest \in Spacings : \A s \in Spacings : s <= widest
    /\ MaxTime \in Nat /\ MaxSends \in Nat

Never == -1
NoNode == "no_node"
NoHost == "no_host"

VARIABLES
    now,
    spacing,    \* of the current rate
    next_at,    \* next_query_at
    orphans,    \* slots whose permit outlives its request
    rq,         \* each request
    attempted,  \* host_attempted
    state,      \* ResolverState and inflight of each node
    packets,    \* history: datagrams the kernel took, by node, with the ended Hickory lookups
    poked,      \* history: hosts with one of those
    started     \* requests started

cadVars == <<now, spacing, next_at, orphans, rq, attempted, state, packets, poked, started>>

NoRequest == [pc |-> "off", via |-> "fast", host |-> NoHost, node |-> NoNode, deadline |-> Never,
              gap |-> 0, slot |-> 0]
NoState == [requests |-> 0, successes |-> 0, failures |-> 0, inflight |-> 0]

CadInit ==
    /\ now = 0 /\ spacing \in Spacings /\ next_at = 0 /\ orphans = {}
    /\ rq = [q \in Requests |-> NoRequest]
    /\ attempted = [h \in Hosts |-> FALSE]
    /\ state = [n \in Nodes |-> NoState]
    /\ packets = [n \in Nodes |-> 0] /\ poked = {} /\ started = 0

In(q, pcs) == rq[q].pc \in pcs
Move(q, pc) == rq' = [rq EXCEPT ![q].pc = pc]
Leave(q) == rq' = [rq EXCEPT ![q] = NoRequest]
Late(q) == rq[q].deadline # Never /\ rq[q].deadline <= now

\* Permits of cadence_reservations that are taken.
Taken == Cardinality({q \in Requests : In(q, {"reserve", "sleep"})}) + Cardinality(orphans)

\* A change of one node's counters, for a request that has a node.
Count(q, Change(_)) ==
    state' = [n \in Nodes |-> IF n = rq[q].node THEN Change(state[n]) ELSE state[n]]

-----------------------------------------------------------------------------
(* The cadence: wait_for_rate_slot and wait_for_rate_slot_before.          *)

\* An unlimited rate goes straight through, a deadline that has passed does not start.  The
\* authoritative lookups have no node; Hickory has a node and no deadline.
Begin(q) ==
    /\ In(q, {"off"}) /\ started < MaxSends /\ started' = started + 1
    /\ \E h \in Hosts, n \in Nodes \cup {NoNode}, via \in {"fast", "hickory"},
          d \in {now + x : x \in Delays} \cup {Never} :
          /\ via = "hickory" => n # NoNode /\ d = Never
          /\ d # now
          /\ rq' = [rq EXCEPT ![q] = [NoRequest EXCEPT
                        !.pc = IF spacing = 0 THEN "go" ELSE "permit",
                        !.via = via, !.host = h, !.node = n, !.deadline = d]]
    /\ UNCHANGED <<now, spacing, next_at, orphans, attempted, state, packets, poked>>

\* The semaphore lets the request in; the rate is read again only now.
Permit(q) ==
    /\ In(q, {"permit"}) /\ Taken < Reservations
    /\ IF Late(q) THEN Leave(q)
       ELSE rq' = [rq EXCEPT ![q].pc = IF spacing = 0 THEN "go" ELSE "reserve",
                             ![q].gap = spacing]
    /\ UNCHANGED <<now, spacing, next_at, orphans, attempted, state, packets, poked, started>>

\* Under the mutex of next_query_at: a slot past the deadline is not reserved, and the
\* permit goes back.
Reserve(q) ==
    /\ In(q, {"reserve"})
    /\ LET slot == IF next_at > now THEN next_at ELSE now
       IN IF rq[q].deadline # Never /\ slot >= rq[q].deadline
          THEN Leave(q) /\ UNCHANGED next_at
          ELSE /\ next_at' = slot + rq[q].gap
               /\ rq' = [rq EXCEPT ![q].pc = "sleep", ![q].slot = slot]
    /\ UNCHANGED <<now, spacing, orphans, attempted, state, packets, poked, started>>

\* The slot has come; the permit is dropped with the reservation.
Wake(q) ==
    /\ In(q, {"sleep"}) /\ rq[q].slot <= now
    /\ Move(q, "go")
    /\ UNCHANGED <<now, spacing, next_at, orphans, attempted, state, packets, poked, started>>

\* A detached task has slept until the slot of a dropped request.
FreeOrphan(s) ==
    /\ s \in orphans /\ s <= now
    /\ orphans' = orphans \ {s}
    /\ UNCHANGED <<now, spacing, next_at, rq, attempted, state, packets, poked, started>>

-----------------------------------------------------------------------------
(* The request: observed_fast_query_until, DnsSendSignal, the guards.      *)

\* The request enters a resolver; one whose deadline has passed is not sent.
Enter(q) ==
    /\ In(q, {"go"})
    /\ IF Late(q) THEN Leave(q) /\ UNCHANGED state
       ELSE /\ Move(q, "unsent")
            /\ Count(q, LAMBDA s : IF rq[q].via = "fast" THEN [s EXCEPT !.inflight = @ + 1] ELSE s)
    /\ UNCHANGED <<now, spacing, next_at, orphans, attempted, packets, poked, started>>

\* The kernel takes the datagram: mark_sent.
Send(q) ==
    /\ In(q, {"unsent"}) /\ rq[q].via = "fast"
    /\ Move(q, "sent")
    /\ attempted' = [attempted EXCEPT ![rq[q].host] = TRUE]
    /\ packets' = [n \in Nodes |-> packets[n] + IF n = rq[q].node THEN 1 ELSE 0]
    /\ poked' = poked \cup {rq[q].host}
    /\ UNCHANGED <<now, spacing, next_at, orphans, state, started>>

\* Mutant: the load is given back twice.
UnenterTwice(s) == [s EXCEPT !.inflight = @ - 2]

Unenter(s) == [s EXCEPT !.inflight = @ - 1]

\* An error before the datagram (no transport slot in time, no socket): nothing to count.
FailUnsent(q) ==
    /\ In(q, {"unsent"}) /\ rq[q].via = "fast"
    /\ Leave(q) /\ Count(q, Unenter)
    /\ UNCHANGED <<now, spacing, next_at, orphans, attempted, packets, poked, started>>

Recorded(s, operational) ==
    IF operational THEN [s EXCEPT !.requests = @ + 1, !.successes = @ + 1]
    ELSE [s EXCEPT !.requests = @ + 1, !.failures = @ + 1]

\* ResolverAttemptGuard::finish: an answer, or the timeout of the request.
Finish(q) ==
    /\ In(q, {"sent"})
    /\ \E operational \in BOOLEAN : Count(q, LAMBDA s : Recorded(Unenter(s), operational))
    /\ Leave(q)
    /\ UNCHANGED <<now, spacing, next_at, orphans, attempted, packets, poked, started>>

\* A Hickory lookup ends; only then is it known to have used the network.
FinishHickory(q) ==
    /\ In(q, {"unsent"}) /\ rq[q].via = "hickory"
    /\ \E operational \in BOOLEAN : Count(q, LAMBDA s : Recorded(s, operational))
    /\ attempted' = [attempted EXCEPT ![rq[q].host] = TRUE]
    /\ packets' = [packets EXCEPT ![rq[q].node] = @ + 1]
    /\ poked' = poked \cup {rq[q].host}
    /\ Leave(q)
    /\ UNCHANGED <<now, spacing, next_at, orphans, started>>

\* Mutant: the permit of a cancelled sleeper is free at once.
KeptNone(q) == {}

\* CadenceReservation::drop: the permit stays taken until the slot.
Kept(q) == IF In(q, {"sleep"}) /\ rq[q].slot > now THEN {rq[q].slot} ELSE {}

\* The future is dropped, by a deadline of its phase, by Ctrl+C or by a sibling's positive
\* answer.  After the datagram the request counts, as neither success nor failure.
CancelRequest(q) ==
    /\ ~In(q, {"off"})
    /\ orphans' = orphans \cup Kept(q)
    /\ Count(q, LAMBDA s :
           IF rq[q].via = "hickory" THEN s
           ELSE IF In(q, {"unsent"}) THEN Unenter(s)
           ELSE IF In(q, {"sent"}) THEN [Unenter(s) EXCEPT !.requests = @ + 1]
           ELSE s)
    /\ Leave(q)
    /\ UNCHANGED <<now, spacing, next_at, attempted, packets, poked, started>>

\* timeout_at in wait_for_rate_slot_before.
GiveUp(q) ==
    /\ In(q, {"permit", "reserve"}) /\ Late(q)
    /\ Leave(q)
    /\ UNCHANGED <<now, spacing, next_at, orphans, attempted, state, packets, poked, started>>

Tick ==
    /\ now < MaxTime /\ now' = now + 1
    /\ UNCHANGED <<spacing, next_at, orphans, rq, attempted, state, packets, poked, started>>

\* The governor moves the rate, never between limited and unlimited (LimitsHold).
Adapt ==
    /\ spacing' \in Spacings /\ (spacing' = 0 <=> spacing = 0)
    /\ UNCHANGED <<now, next_at, orphans, rq, attempted, state, packets, poked, started>>

CadNext ==
    \/ Tick \/ Adapt
    \/ \E s \in orphans : FreeOrphan(s)
    \/ \E q \in Requests :
          \/ Begin(q) \/ Permit(q) \/ Reserve(q) \/ Wake(q) \/ Enter(q) \/ Send(q)
          \/ FailUnsent(q) \/ Finish(q) \/ FinishHickory(q) \/ CancelRequest(q) \/ GiveUp(q)

CadSpec == CadInit /\ [][CadNext]_cadVars

-----------------------------------------------------------------------------
CadTypeOK ==
    /\ now \in 0..MaxTime /\ spacing \in Spacings /\ next_at \in Nat /\ orphans \subseteq Nat
    /\ rq \in [Requests -> [pc : {"off", "permit", "reserve", "sleep", "go", "unsent", "sent"},
                            via : {"fast", "hickory"}, host : Hosts \cup {NoHost},
                            node : Nodes \cup {NoNode}, deadline : Nat \cup {Never},
                            gap : Spacings \cup {0}, slot : Nat]]
    /\ attempted \in [Hosts -> BOOLEAN] /\ poked \subseteq Hosts
    /\ state \in [Nodes -> [requests : Nat, successes : Nat, failures : Nat, inflight : Nat]]
    /\ packets \in [Nodes -> Nat] /\ started \in 0..MaxSends

Widest == CHOOSE w \in Spacings : \A s \in Spacings : s <= w

\* Requests that are cancelled over and over while they sleep cannot push the cadence into
\* the future: the next slot is never further away than the reservations allow.
HorizonBounded ==
    /\ Taken <= Reservations
    /\ next_at <= now + (Reservations + 1) * Widest

\* However a request ends, the metrics of its resolver count it exactly if its datagram
\* left, its load drops again, and its host is marked attempted exactly if some datagram
\* for it left: an admitted request that never left must not cost the name an attempt.
SentCounted ==
    /\ \A n \in Nodes :
          LET of(pcs) == {q \in Requests : rq[q].node = n /\ rq[q].via = "fast" /\ In(q, pcs)}
          IN /\ state[n].requests + Cardinality(of({"sent"})) = packets[n]
             /\ state[n].inflight = Cardinality(of({"unsent", "sent"}))
             /\ state[n].successes + state[n].failures <= state[n].requests
    /\ \A h \in Hosts : attempted[h] <=> h \in poked
\* Both: a request that is dropped at any point leaves nothing behind, neither in the cadence
\* nor in the books.
CadenceSafe == HorizonBounded /\ SentCounted
=============================================================================
