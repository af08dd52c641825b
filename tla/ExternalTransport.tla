-------------------------- MODULE ExternalTransport --------------------------
(***************************************************************************)
(* How the connectors send HTTP requests (passive/transport.rs): a request *)
(* passes the limiter of its source, then that of its host, is sent, and   *)
(* is sent again after some failures.  The limiters are shared by all      *)
(* connectors of the process; a connector may be dropped at any wait.      *)
(*                                                                         *)
(* Time is in ticks.  Jitter and doubling of the backoff are abstracted to *)
(* one delay; request and response contents are left out.                  *)
(***************************************************************************)
EXTENDS Integers, Sequences

CONSTANTS
    Calls,      \* bound: requests of the process
    RatedSources,  \* sources with a rate limit
    Servers,    \* hosts with a minimum gap
    Gap,        \* Gap[l]: least time between two requests through limiter l
    Attempts,   \* of the source policy
    Backoff,    \* backoff_delay
    RetryAfters,\* bound: delays a server may ask for
    MaxInline,  \* MAX_INLINE_RETRY_AFTER
    MaxClock    \* bound: ticks

Limiters == RatedSources \cup Servers

ASSUME ExternalAssumption ==
    /\ Gap \in [Limiters -> Nat \ {0}]
    /\ {Attempts, Backoff, MaxInline, MaxClock} \subseteq Nat /\ Attempts > 0
    /\ RetryAfters \subseteq Nat

NoTime == -1
Nobody == "nobody"

VARIABLES
    clock,
    last,    \* last_request of each limiter
    holder,  \* who has locked it
    call,    \* each request
    passed   \* history: when requests passed each limiter

extVars == <<clock, last, holder, call, passed>>

\* replay: GET, or a POST declared idempotent.  whole: the body is read before the answer is
\* returned.  not_before: what a server asked for; sent: requests on the wire.
NoCall == [pc |-> "off", provider |-> Nobody, server |-> Nobody, replay |-> FALSE, whole |-> FALSE,
           attempt |-> 0, since |-> 0, due |-> 0, not_before |-> 0, sent |-> 0, hasty |-> FALSE]

ExtInit ==
    /\ clock = 0
    /\ last = [l \in Limiters |-> NoTime] /\ holder = [l \in Limiters |-> Nobody]
    /\ call = [c \in Calls |-> NoCall] /\ passed = [l \in Limiters |-> <<>>]

Where(c, pcs) == call[c].pc \in pcs
To(c, r) == call' = [call EXCEPT ![c] = r]

\* The limiter a request stands at.
Gate(c) == IF Where(c, {"provider", "provider_sleep"}) THEN call[c].provider ELSE call[c].server

StartCall(c) ==
    /\ Where(c, {"off"})
    /\ \E p \in RatedSources, s \in Servers, replay \in BOOLEAN, whole \in BOOLEAN :
        To(c, [NoCall EXCEPT !.pc = "provider", !.provider = p, !.server = s,
                             !.replay = replay, !.whole = whole])
    /\ UNCHANGED <<clock, last, holder, passed>>

\* The mutex of the limiter, held over the sleep.
Lock(c) ==
    /\ Where(c, {"provider", "server"}) /\ holder[Gate(c)] = Nobody
    /\ holder' = [holder EXCEPT ![Gate(c)] = c]
    /\ To(c, [call[c] EXCEPT !.pc = IF @ = "provider" THEN "provider_sleep" ELSE "server_sleep",
                             !.since = clock])
    /\ UNCHANGED <<clock, last, passed>>

\* Mutant: the time is taken before the sleep.
StampEarly(c) == call[c].since

Stamp(c) == clock

\* The gap has passed: the time is noted and the mutex released.
PassLimiter(c) ==
    /\ Where(c, {"provider_sleep", "server_sleep"})
    /\ last[Gate(c)] = NoTime \/ clock >= last[Gate(c)] + Gap[Gate(c)]
    /\ last' = [last EXCEPT ![Gate(c)] = Stamp(c)]
    /\ holder' = [holder EXCEPT ![Gate(c)] = Nobody]
    /\ passed' = [passed EXCEPT ![Gate(c)] = Append(@, clock)]
    /\ To(c, [call[c] EXCEPT !.pc = IF @ = "provider_sleep" THEN "server" ELSE "send",
                             !.since = 0])
    /\ UNCHANGED clock

\* A request that may not be replayed has one attempt.
AttemptsOf(r) == IF r.replay THEN Attempts ELSE 1
Again(r) == r.attempt + 1 < AttemptsOf(r)
Sleep(r, delay) == [r EXCEPT !.pc = "backoff", !.due = clock + delay]
Over(r) == [NoCall EXCEPT !.pc = "over", !.replay = r.replay, !.sent = r.sent, !.hasty = r.hasty]

\* The request goes out.
Dispatch(c) ==
    /\ Where(c, {"send"})
    /\ To(c, [call[c] EXCEPT !.pc = "answer", !.sent = @ + 1, !.not_before = 0,
                             !.hasty = @ \/ clock < call[c].not_before])
    /\ UNCHANGED <<clock, last, holder, passed>>

\* A retryable status, or a 403 with an exhausted quota: too long a delay is left to a later
\* refresh, a last attempt returns the answer or an error.
Overloaded(c) ==
    /\ Where(c, {"answer"})
    /\ \E delay \in RetryAfters \cup {NoTime} :
        LET r == [call[c] EXCEPT !.not_before = IF delay = NoTime THEN 0 ELSE clock + delay] IN
        To(c, IF delay > MaxInline \/ ~Again(r) THEN Over(r)
              ELSE Sleep(r, IF delay = NoTime THEN Backoff ELSE delay))
    /\ UNCHANGED <<clock, last, holder, passed>>

\* The connection fails, or the body of a successful answer breaks off.
BrokenOff(c) ==
    /\ Where(c, {"answer", "body"})
    /\ To(c, IF Again(call[c]) THEN Sleep(call[c], Backoff) ELSE Over(call[c]))
    /\ UNCHANGED <<clock, last, holder, passed>>

\* Any other answer, and errors that no retry can mend.
Answered(c) ==
    /\ Where(c, {"answer", "body"})
    /\ To(c, IF Where(c, {"answer"}) /\ call[c].whole THEN [call[c] EXCEPT !.pc = "body"]
             ELSE Over(call[c]))
    /\ UNCHANGED <<clock, last, holder, passed>>

\* The backoff is over: through both limiters again.
Retry(c) ==
    /\ Where(c, {"backoff"}) /\ clock >= call[c].due
    /\ To(c, [call[c] EXCEPT !.pc = "provider", !.due = 0, !.attempt = @ + 1])
    /\ UNCHANGED <<clock, last, holder, passed>>

\* The connector is dropped: its mutex is released, and nothing is noted.
DropCall(c) ==
    /\ ~Where(c, {"off", "over"})
    /\ holder' = [l \in Limiters |-> IF holder[l] = c THEN Nobody ELSE holder[l]]
    /\ To(c, Over(call[c]))
    /\ UNCHANGED <<clock, last, passed>>

ClockTick ==
    /\ clock < MaxClock /\ clock' = clock + 1
    /\ UNCHANGED <<last, holder, call, passed>>

ExtNext ==
    \/ ClockTick
    \/ \E c \in Calls :
        \/ StartCall(c) \/ Lock(c) \/ PassLimiter(c) \/ Dispatch(c) \/ Overloaded(c) \/ BrokenOff(c)
        \/ Answered(c) \/ Retry(c) \/ DropCall(c)

ExtSpec == ExtInit /\ [][ExtNext]_extVars

-----------------------------------------------------------------------------
ExtTypeOK ==
    /\ clock \in 0..MaxClock /\ last \in [Limiters -> Nat \cup {NoTime}]
    /\ holder \in [Limiters -> Calls \cup {Nobody}]
    /\ \A c \in Calls : call[c].attempt \in 0..(Attempts - 1) /\ call[c].sent \in 0..Attempts

\* Requests of any number of connectors, retried or dropped at any wait, pass a limiter at
\* least its gap apart; a server that asks for a pause gets it from the request it told; a
\* request that may not be replayed is never sent twice; a limiter is held only by a request
\* that is about to pass it, so that nobody waits behind one that is gone.
Polite ==
    /\ \A l \in Limiters : \A i \in 1..(Len(passed[l]) - 1) :
          passed[l][i + 1] - passed[l][i] >= Gap[l]
    /\ \A c \in Calls : ~call[c].hasty /\ (~call[c].replay => call[c].sent <= 1)
    /\ \A l \in Limiters : holder[l] # Nobody =>
          Where(holder[l], {"provider_sleep", "server_sleep"}) /\ Gate(holder[l]) = l
=============================================================================
