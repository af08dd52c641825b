----------------------------- MODULE ConnectorProofs -----------------------------
(***************************************************************************)
(* What the passive connectors promise, from the request to the phase:     *)
(* the transport spaces requests, honours pauses and never sends twice     *)
(* what may not be replayed; a connector keeps what it took, reports       *)
(* success only for a whole listing or stream and failure only for a       *)
(* failure; the phase keeps to its bounds and loses no durable name at its *)
(* end.  For every set of requests, sources, hosts and names, and every    *)
(* limit.                                                                  *)
(***************************************************************************)
EXTENDS ExternalTransport, Connectors, PassivePhase, FiniteSetTheorems, SequenceTheorems,
        TLAPS

-----------------------------------------------------------------------------
(* The inductive invariant.                                                *)

Pcs == {"off", "provider", "provider_sleep", "server", "server_sleep", "send", "answer", "body",
        "backoff", "over"}
CallType == [pc : Pcs, provider : RatedSources \cup {Nobody}, server : Servers \cup {Nobody},
             replay : BOOLEAN, whole : BOOLEAN, attempt : Nat, since : Nat, due : Nat,
             not_before : Nat, sent : Nat, hasty : BOOLEAN]

ExtTyped ==
    /\ clock \in Nat /\ clock <= MaxClock
    /\ last \in [Limiters -> Nat \cup {NoTime}]
    /\ holder \in [Limiters -> Calls \cup {Nobody}]
    /\ call \in [Calls -> CallType]
    /\ passed \in [Limiters -> Seq(Nat)]

\* Requests passed a limiter a gap apart, and its last_request is when the last one did.
Spaced(l) ==
    /\ \A i \in 1..(Len(passed[l]) - 1) : passed[l][i + 1] - passed[l][i] >= Gap[l]
    /\ last[l] = (IF Len(passed[l]) = 0 THEN NoTime ELSE passed[l][Len(passed[l])])

\* On its way a request knows its limiters.
Routed(r) == r.pc \notin {"off", "over"} => r.provider \in RatedSources /\ r.server \in Servers

\* An attempt more is on the wire only until the backoff ends; no more than the policy has.
CallTimed(r) ==
    /\ r.attempt < AttemptsOf(r)
    /\ r.pc = "backoff" => Again(r)
    /\ r.pc \in {"off", "provider", "provider_sleep", "server", "server_sleep", "send"} => r.sent <= r.attempt
    /\ r.pc \in {"answer", "body", "backoff"} => r.sent <= r.attempt + 1
    /\ r.pc = "over" => r.sent <= AttemptsOf(r)

\* The pause a server asked for is over when the request that was told stands before a
\* limiter again.
Patient(r) ==
    /\ r.hasty = FALSE
    /\ r.pc = "backoff" => r.not_before <= r.due
    /\ r.pc \in {"off", "provider", "provider_sleep", "server", "server_sleep", "send"} => r.not_before <= clock
    /\ r.pc \in {"answer", "body"} => r.not_before = 0

\* A limiter is held by a request that sleeps at it.
HeldAtGate(l) ==
    holder[l] # Nobody =>
        Where(holder[l], {"provider_sleep", "server_sleep"}) /\ Gate(holder[l]) = l

Proper(r) == Routed(r) /\ CallTimed(r) /\ Patient(r)

ExtInv ==
    /\ ExtTyped
    /\ \A l \in Limiters : Spaced(l) /\ HeldAtGate(l)
    /\ \A c \in Calls : Proper(call[c])

-----------------------------------------------------------------------------
(* Values.                                                                 *)

(* The bounds are numbers, and there is always one attempt.                *)
LEMMA BoundsTyped ==
    /\ Attempts \in Nat /\ Attempts >= 1 /\ Backoff \in Nat /\ MaxInline \in Nat /\ MaxClock \in Nat
    /\ RetryAfters \subseteq Nat
    /\ \A l \in Limiters : Gap[l] \in Nat /\ Gap[l] >= 1
    BY ExternalAssumption

(* A request has the attempts of the policy, or one.                       *)
LEMMA AttemptsTyped ==
    ASSUME NEW r \in CallType
    PROVE  /\ AttemptsOf(r) \in Nat /\ 1 <= AttemptsOf(r) /\ AttemptsOf(r) <= Attempts
           /\ ~r.replay => AttemptsOf(r) = 1
    BY BoundsTyped DEF AttemptsOf, CallType

(* The fields of a request have their types.                               *)
LEMMA CallFields ==
    ASSUME NEW r \in CallType
    PROVE  /\ r.pc \in Pcs /\ r.provider \in RatedSources \cup {Nobody} /\ r.server \in Servers \cup {Nobody}
           /\ r.replay \in BOOLEAN /\ r.whole \in BOOLEAN /\ r.attempt \in Nat /\ r.since \in Nat
           /\ r.due \in Nat /\ r.not_before \in Nat /\ r.sent \in Nat /\ r.hasty \in BOOLEAN
    BY DEF CallType

(* A request that has not started is in order.                             *)
LEMMA NoCallProper ==
    ASSUME ExtTyped
    PROVE  NoCall \in CallType /\ Proper(NoCall)
<1>1. NoCall \in CallType
    BY DEF NoCall, CallType, Pcs
<1>2. /\ NoCall.pc = "off" /\ NoCall.attempt = 0 /\ NoCall.sent = 0 /\ NoCall.not_before = 0
      /\ NoCall.hasty = FALSE
    BY DEF NoCall
<1>3. AttemptsOf(NoCall) \in Nat /\ 1 <= AttemptsOf(NoCall) /\ 0 <= clock
    BY <1>1, AttemptsTyped DEF ExtTyped
<1> QED BY <1>1, <1>2, <1>3 DEF Proper, Routed, CallTimed, Patient

(* A request takes a new record; the others keep theirs.                   *)
LEMMA CallMoves ==
    ASSUME ExtTyped, NEW c \in Calls, NEW r \in CallType, To(c, r)
    PROVE  /\ call' \in [Calls -> CallType] /\ call'[c] = r
           /\ \A d \in Calls : d # c => call'[d] = call[d]
    BY DEF ExtTyped, To

(* A request is over: what it sent stays counted.                          *)
LEMMA OverProper ==
    ASSUME ExtTyped, NEW r \in CallType, CallTimed(r), r.hasty = FALSE
    PROVE  Over(r) \in CallType /\ Over(r).pc = "over" /\ Proper(Over(r))
<1>1. NoCall \in CallType
    BY NoCallProper
<1>2. /\ Over(r) \in CallType /\ Over(r).pc = "over" /\ Over(r).replay = r.replay
      /\ Over(r).sent = r.sent /\ Over(r).hasty = r.hasty /\ Over(r).attempt = NoCall.attempt
    BY <1>1 DEF Over, CallType, Pcs
<1>3. Over(r).attempt = 0
    BY <1>2 DEF NoCall
<1>4. AttemptsOf(Over(r)) = AttemptsOf(r)
    BY <1>2 DEF AttemptsOf
<1>5. AttemptsOf(r) \in Nat /\ 1 <= AttemptsOf(r) /\ r.sent \in Nat /\ r.attempt \in Nat /\ r.pc \in Pcs
    BY AttemptsTyped, CallFields
<1>6. r.sent <= AttemptsOf(r)
    BY <1>5 DEF CallTimed, Pcs
<1> QED BY <1>2, <1>3, <1>4, <1>5, <1>6 DEF Proper, Routed, CallTimed, Patient

-----------------------------------------------------------------------------
(* Steps.                                                                  *)

Asleep == {"provider_sleep", "server_sleep"}

\* The limiter a request with this record stands at.
GateOf(r) == IF r.pc \in {"provider", "provider_sleep"} THEN r.provider ELSE r.server

(* A request on its way stands at a limiter.                               *)
LEMMA GateKnown ==
    ASSUME ExtInv, NEW c \in Calls
    PROVE  /\ call[c] \in CallType /\ Proper(call[c]) /\ Gate(c) = GateOf(call[c])
           /\ ~Where(c, {"off", "over"}) => Gate(c) \in Limiters
<1>1. call[c] \in CallType /\ Proper(call[c])
    BY DEF ExtInv, ExtTyped
<1>2. Gate(c) = GateOf(call[c])
    BY DEF Gate, GateOf, Where
<1>3. ~Where(c, {"off", "over"}) => Gate(c) \in Limiters
    BY <1>1 DEF Gate, Where, Proper, Routed, Limiters
<1> QED BY <1>1, <1>2, <1>3

(* A request that takes a proper record keeps the invariant, when every    *)
(* limiter it then holds is the one it sleeps at.                          *)
LEMMA StepKeeps ==
    ASSUME ExtInv, NEW c \in Calls, NEW r \in CallType, Proper(r), To(c, r),
           clock' = clock, last' \in [Limiters -> Nat \cup {NoTime}], passed' \in [Limiters -> Seq(Nat)],
           holder' \in [Limiters -> Calls \cup {Nobody}],
           \A l \in Limiters : Spaced(l)',
           \A l \in Limiters : holder'[l] \in {holder[l], Nobody, c},
           \A l \in Limiters : holder'[l] = c /\ c # Nobody => r.pc \in Asleep /\ GateOf(r) = l
    PROVE  ExtInv'
<1>1. /\ call' \in [Calls -> CallType] /\ call'[c] = r
      /\ \A d \in Calls : d # c => call'[d] = call[d]
    BY CallMoves DEF ExtInv
<1>2. ExtTyped'
    BY <1>1 DEF ExtInv, ExtTyped
<1>3. \A d \in Calls : Proper(call[d])'
  <2>1. SUFFICES ASSUME NEW d \in Calls PROVE Proper(call[d])'
      OBVIOUS
  <2>2. Proper(call'[d])
      BY <1>1 DEF ExtInv
  <2> QED BY <2>2, Zenon DEF Proper, Routed, CallTimed, Patient, AttemptsOf, Again
<1>4. \A l \in Limiters : HeldAtGate(l)'
  <2>1. SUFFICES ASSUME NEW l \in Limiters, holder'[l] # Nobody
                 PROVE  Where(holder[l], Asleep)' /\ Gate(holder[l])' = l
      BY Zenon DEF HeldAtGate, Asleep
  <2>2. CASE holder'[l] = c
      BY <1>1, <2>1, <2>2 DEF Where, Gate, GateOf
  <2>3. CASE holder'[l] # c
    <3> DEFINE d == holder[l]
    <3>1. holder'[l] = d /\ d # Nobody /\ d \in Calls /\ d # c
        BY <2>1, <2>3 DEF ExtInv, ExtTyped
    <3>2. call'[d] = call[d] /\ Where(d, Asleep) /\ Gate(d) = l
        BY <1>1, <3>1 DEF ExtInv, HeldAtGate, Asleep
    <3> QED BY <3>1, <3>2 DEF Where, Gate
  <2> QED BY <2>2, <2>3
<1> QED BY <1>2, <1>3, <1>4 DEF ExtInv

(* Most steps touch neither the limiters nor who holds them, and are not   *)
(* made asleep.                                                            *)
LEMMA PlainStepKeeps ==
    ASSUME ExtInv, NEW c \in Calls, ~Where(c, Asleep), NEW r \in CallType, Proper(r), To(c, r),
           UNCHANGED <<clock, last, holder, passed>>
    PROVE  ExtInv'
<1>1. \A l \in Limiters : Spaced(l)'
    BY Zenon DEF ExtInv, Spaced
<1>2. \A l \in Limiters : holder'[l] = c /\ c # Nobody => FALSE
    BY DEF ExtInv, HeldAtGate, Asleep
<1>3. \A l \in Limiters : holder'[l] = holder[l]
    OBVIOUS
<1> QED BY <1>1, <1>2, <1>3, StepKeeps DEF ExtInv, ExtTyped

(* A connector starts a request.                                           *)
LEMMA StartCallKeeps ==
    ASSUME ExtInv, NEW c \in Calls, StartCall(c)
    PROVE  ExtInv'
<1>1. PICK p \in RatedSources, s \in Servers, replay \in BOOLEAN, whole \in BOOLEAN :
          To(c, [NoCall EXCEPT !.pc = "provider", !.provider = p, !.server = s,
                               !.replay = replay, !.whole = whole])
    BY Zenon DEF StartCall
<1> DEFINE r == [NoCall EXCEPT !.pc = "provider", !.provider = p, !.server = s,
                               !.replay = replay, !.whole = whole]
<1>2. NoCall \in CallType
    BY NoCallProper DEF ExtInv
<1>3. /\ r \in CallType /\ r.pc = "provider" /\ r.provider = p /\ r.server = s
      /\ r.attempt = NoCall.attempt /\ r.sent = NoCall.sent /\ r.not_before = NoCall.not_before
      /\ r.hasty = NoCall.hasty
    BY <1>2 DEF CallType, Pcs
<1>4. NoCall.attempt = 0 /\ NoCall.sent = 0 /\ NoCall.not_before = 0 /\ NoCall.hasty = FALSE
    BY DEF NoCall
<1>5. AttemptsOf(r) \in Nat /\ 1 <= AttemptsOf(r) /\ 0 <= clock
    BY <1>3, AttemptsTyped DEF ExtInv, ExtTyped
<1>6. Proper(r)
    BY <1>3, <1>4, <1>5 DEF Proper, Routed, CallTimed, Patient
<1>7. ~Where(c, Asleep) /\ UNCHANGED <<clock, last, holder, passed>>
    BY DEF StartCall, Where, Asleep
<1> QED BY <1>1, <1>3, <1>6, <1>7, PlainStepKeeps

(* It locks the limiter it stands at.                                      *)
LEMMA LockKeeps ==
    ASSUME ExtInv, NEW c \in Calls, Lock(c)
    PROVE  ExtInv'
<1> DEFINE q == call[c]
           pc == IF q.pc = "provider" THEN "provider_sleep" ELSE "server_sleep"
           r == [q EXCEPT !.pc = pc, !.since = clock]
<1>1. q \in CallType /\ Proper(q) /\ Gate(c) = GateOf(q) /\ Gate(c) \in Limiters
      /\ q.pc \in {"provider", "server"} /\ clock \in Nat
    BY GateKnown DEF Lock, Where, ExtInv, ExtTyped
<1>2. /\ r \in CallType /\ r.pc = pc /\ r.provider = q.provider /\ r.server = q.server
      /\ r.replay = q.replay /\ r.attempt = q.attempt /\ r.sent = q.sent /\ r.not_before = q.not_before
      /\ r.hasty = q.hasty
    BY <1>1 DEF CallType, Pcs
<1>3. Proper(r)
    BY <1>1, <1>2 DEF Proper, Routed, CallTimed, Patient, AttemptsOf
<1>4. To(c, r)
    BY Zenon DEF Lock
<1>5. /\ holder \in [Limiters -> Calls \cup {Nobody}] /\ holder' = [holder EXCEPT ![Gate(c)] = c]
      /\ UNCHANGED <<clock, last, passed>>
    BY DEF Lock, ExtInv, ExtTyped
<1>6. holder' \in [Limiters -> Calls \cup {Nobody}] /\ \A l \in Limiters : holder'[l] \in {holder[l], Nobody, c}
    BY <1>5
<1>7. \A l \in Limiters : l # Gate(c) => ~(holder'[l] = c /\ c # Nobody)
    BY <1>1, <1>5 DEF ExtInv, HeldAtGate, Where
<1>8. r.pc \in Asleep /\ GateOf(r) = Gate(c)
    BY <1>1, <1>2 DEF GateOf, Asleep
<1>9. \A l \in Limiters : Spaced(l)'
    BY <1>5, Zenon DEF ExtInv, Spaced
<1> HIDE DEF r
<1> QED BY <1>2, <1>3, <1>4, <1>5, <1>6, <1>7, <1>8, <1>9, StepKeeps DEF ExtInv, ExtTyped

(* It passes the limiter: the gap since the last request is over, and the  *)
(* time is noted.                                                          *)
LEMMA PassLimiterKeeps ==
    ASSUME ExtInv, NEW c \in Calls, PassLimiter(c)
    PROVE  ExtInv'
<1> DEFINE q == call[c]
           g == Gate(c)
           pc == IF q.pc = "provider_sleep" THEN "server" ELSE "send"
           r == [q EXCEPT !.pc = pc, !.since = 0]
<1>1. q \in CallType /\ Proper(q) /\ g = GateOf(q) /\ g \in Limiters
      /\ q.pc \in Asleep
    BY GateKnown DEF PassLimiter, Where, Asleep
<1>2. /\ r \in CallType /\ r.pc = pc /\ r.provider = q.provider /\ r.server = q.server
      /\ r.replay = q.replay /\ r.attempt = q.attempt /\ r.sent = q.sent /\ r.not_before = q.not_before
      /\ r.hasty = q.hasty
    BY <1>1 DEF CallType, Pcs
<1>3. Proper(r)
    BY <1>1, <1>2 DEF Proper, Routed, CallTimed, Patient, AttemptsOf, Asleep
<1>4. To(c, r)
    BY Zenon DEF PassLimiter
<1>5. /\ holder \in [Limiters -> Calls \cup {Nobody}] /\ last \in [Limiters -> Nat \cup {NoTime}]
      /\ passed \in [Limiters -> Seq(Nat)] /\ clock \in Nat
      /\ holder' = [holder EXCEPT ![g] = Nobody] /\ last' = [last EXCEPT ![g] = clock]
      /\ passed' = [passed EXCEPT ![g] = Append(passed[g], clock)] /\ clock' = clock
      /\ last[g] = NoTime \/ clock >= last[g] + Gap[g]
    BY DEF PassLimiter, Stamp, ExtInv, ExtTyped
<1>6. /\ holder' \in [Limiters -> Calls \cup {Nobody}] /\ last' \in [Limiters -> Nat \cup {NoTime}]
      /\ passed' \in [Limiters -> Seq(Nat)]
      /\ \A l \in Limiters : holder'[l] \in {holder[l], Nobody, c}
    BY <1>1, <1>5
<1>7. \A l \in Limiters : ~(holder'[l] = c /\ c # Nobody)
    BY <1>1, <1>5 DEF ExtInv, HeldAtGate
<1>8. ASSUME NEW l \in Limiters PROVE Spaced(l)'
  <2>1. Spaced(l)
      BY DEF ExtInv
  <2>2. CASE l # g
    <3>1. passed'[l] = passed[l] /\ last'[l] = last[l]
        BY <1>5, <2>2
    <3> QED BY <2>1, <3>1 DEF Spaced
  <2>3. CASE l = g
    <3> DEFINE s == passed[l]
    <3>1. s \in Seq(Nat) /\ passed'[l] = Append(s, clock) /\ last'[l] = clock
        BY <1>5, <2>3
    <3>2. /\ Len(Append(s, clock)) = Len(s) + 1 /\ Len(s) \in Nat
          /\ \A i \in 1..Len(s) : Append(s, clock)[i] = s[i]
          /\ Append(s, clock)[Len(s) + 1] = clock
        BY <1>5, <3>1
    <3>3. Gap[l] \in Nat /\ clock \in Nat /\ \A i \in 1..Len(s) : s[i] \in Nat
        BY <1>5, <3>1, BoundsTyped
    <3>4. Len(s) > 0 => s[Len(s)] \in Nat /\ clock >= s[Len(s)] + Gap[l]
        BY <1>5, <2>1, <2>3, <3>2, <3>3 DEF Spaced, NoTime
    <3>5. ASSUME NEW i \in 1..Len(s) PROVE Append(s, clock)[i + 1] - Append(s, clock)[i] >= Gap[l]
      <4>1. CASE i = Len(s)
          BY <3>2, <3>3, <3>4, <4>1
      <4>2. CASE i # Len(s)
        <5>1. i \in 1..(Len(s) - 1) /\ i + 1 \in 1..Len(s)
            BY <3>2, <4>2
        <5>2. s[i + 1] - s[i] >= Gap[l]
            BY <2>1, <5>1 DEF Spaced
        <5> QED BY <3>2, <5>1, <5>2
      <4> QED BY <4>1, <4>2
    <3>6. Len(passed'[l]) = Len(s) + 1
        BY <3>1, <3>2
    <3>7. \A i \in 1..(Len(passed'[l]) - 1) : passed'[l][i + 1] - passed'[l][i] >= Gap[l]
      <4>1. Len(passed'[l]) - 1 = Len(s)
          BY <1>5, <3>6
      <4> QED BY <3>1, <3>5, <4>1
    <3>8. last'[l] = (IF Len(passed'[l]) = 0 THEN NoTime ELSE passed'[l][Len(passed'[l])])
      <4>1. Len(passed'[l]) # 0 /\ passed'[l][Len(passed'[l])] = clock
          BY <1>5, <3>1, <3>2, <3>6
      <4> QED BY <3>1, <4>1
    <3> QED BY <3>7, <3>8 DEF Spaced
  <2> QED BY <2>2, <2>3
<1> HIDE DEF r
<1> QED BY <1>2, <1>3, <1>4, <1>5, <1>6, <1>7, <1>8, StepKeeps DEF ExtInv

(* It goes out: the pause it was told is over.                             *)
LEMMA DispatchKeeps ==
    ASSUME ExtInv, NEW c \in Calls, Dispatch(c)
    PROVE  ExtInv'
<1> DEFINE q == call[c]
           r == [q EXCEPT !.pc = "answer", !.sent = q.sent + 1, !.not_before = 0,
                          !.hasty = q.hasty \/ clock < q.not_before]
<1>1. q \in CallType /\ Proper(q) /\ q.pc = "send" /\ clock \in Nat
    BY GateKnown DEF Dispatch, Where, ExtInv, ExtTyped
<1>2. q.sent \in Nat /\ q.not_before \in Nat /\ q.attempt \in Nat /\ q.pc \in Pcs
    BY <1>1, CallFields
<1>3. q.hasty = FALSE /\ ~(clock < q.not_before) /\ q.sent <= q.attempt
    BY <1>1, <1>2 DEF Proper, Patient, CallTimed
<1>4. (q.hasty \/ clock < q.not_before) = FALSE
    BY <1>3, Zenon
<1>5. r = [q EXCEPT !.pc = "answer", !.sent = q.sent + 1, !.not_before = 0, !.hasty = FALSE]
    BY <1>4, Zenon
<1>6. /\ r \in CallType /\ r.pc = "answer" /\ r.provider = q.provider /\ r.server = q.server
      /\ r.replay = q.replay /\ r.attempt = q.attempt /\ r.sent = q.sent + 1 /\ r.not_before = 0
      /\ r.hasty = FALSE
  <2>1. q.sent + 1 \in Nat /\ "answer" \in Pcs
      BY <1>2 DEF Pcs
  <2> HIDE DEF r
  <2> QED BY <1>1, <1>5, <2>1 DEF CallType
<1>7. Proper(r)
  <2>1. Routed(r)
      BY <1>1, <1>6 DEF Proper, Routed
  <2>2. CallTimed(r)
    <3>1. AttemptsOf(r) = AttemptsOf(q)
        BY <1>6, Zenon DEF AttemptsOf
    <3>2. r.attempt < AttemptsOf(r)
        BY <1>1, <1>6, <3>1 DEF Proper, CallTimed
    <3>3. r.sent <= r.attempt + 1
        BY <1>2, <1>3, <1>6
    <3> HIDE DEF r
    <3> QED BY <1>6, <3>2, <3>3 DEF CallTimed
  <2>3. Patient(r)
    <3> HIDE DEF r
    <3> QED BY <1>6 DEF Patient
  <2> QED BY <2>1, <2>2, <2>3 DEF Proper
<1>8. To(c, r) /\ UNCHANGED <<clock, last, holder, passed>> /\ ~Where(c, Asleep)
    BY Zenon DEF Dispatch, Where, Asleep
<1> HIDE DEF r
<1> QED BY <1>6, <1>7, <1>8, PlainStepKeeps

(* A request that may be sent again sleeps at least as long as it was told.*)
LEMMA SleepKeeps ==
    ASSUME ExtInv, NEW c \in Calls, Where(c, {"answer", "body"}), NEW delay \in Nat,
           NEW z \in Nat, z = 0 \/ z <= clock + delay, Again(call[c]),
           To(c, [call[c] EXCEPT !.not_before = z, !.pc = "backoff", !.due = clock + delay]),
           UNCHANGED <<clock, last, holder, passed>>
    PROVE  ExtInv'
<1> DEFINE q == call[c]
           r == [q EXCEPT !.not_before = z, !.pc = "backoff", !.due = clock + delay]
<1>1. /\ q \in CallType /\ Proper(q) /\ q.pc \in {"answer", "body"} /\ clock \in Nat
      /\ clock + delay \in Nat /\ 0 <= clock + delay
    BY GateKnown DEF Where, ExtInv, ExtTyped
<1>2. /\ r \in CallType /\ r.pc = "backoff" /\ r.provider = q.provider /\ r.server = q.server
      /\ r.replay = q.replay /\ r.attempt = q.attempt /\ r.sent = q.sent /\ r.not_before = z
      /\ r.due = clock + delay /\ r.hasty = q.hasty
    BY <1>1 DEF CallType, Pcs
<1>3. AttemptsOf(r) = AttemptsOf(q) /\ Again(r)
    BY <1>2, Zenon DEF AttemptsOf, Again
<1>4. CallTimed(r)
  <2> HIDE DEF r
  <2> QED BY <1>1, <1>2, <1>3 DEF Proper, CallTimed
<1>5. Routed(r) /\ Patient(r)
    BY <1>1, <1>2 DEF Proper, Routed, Patient
<1>6. Proper(r)
    BY <1>4, <1>5 DEF Proper
<1>7. ~Where(c, Asleep)
    BY DEF Where, Asleep
<1> HIDE DEF r
<1> QED BY <1>2, <1>6, <1>7, PlainStepKeeps DEF r

(* A request that is over.                                                 *)
LEMMA OverKeeps ==
    ASSUME ExtInv, NEW c \in Calls, ~Where(c, Asleep), To(c, Over(call[c])),
           UNCHANGED <<clock, last, holder, passed>>
    PROVE  ExtInv'
<1>1. call[c] \in CallType /\ Proper(call[c]) /\ ExtTyped
    BY GateKnown DEF ExtInv
<1>2. Over(call[c]) \in CallType /\ Proper(Over(call[c]))
    BY <1>1, OverProper DEF Proper, Patient
<1> QED BY <1>2, PlainStepKeeps

(* A retryable answer.                                                     *)
LEMMA OverloadedKeeps ==
    ASSUME ExtInv, NEW c \in Calls, Overloaded(c)
    PROVE  ExtInv'
<1> DEFINE q == call[c]
<1>1. /\ q \in CallType /\ q.pc = "answer" /\ clock \in Nat
      /\ UNCHANGED <<clock, last, holder, passed>>
    BY GateKnown DEF Overloaded, Where, ExtInv, ExtTyped
<1>2. PICK delay \in RetryAfters \cup {NoTime} :
          LET r == [q EXCEPT !.not_before = IF delay = NoTime THEN 0 ELSE clock + delay]
          IN To(c, IF delay > MaxInline \/ ~Again(r) THEN Over(r)
                   ELSE Sleep(r, IF delay = NoTime THEN Backoff ELSE delay))
    BY Zenon DEF Overloaded
<1> DEFINE z == IF delay = NoTime THEN 0 ELSE clock + delay
           d == IF delay = NoTime THEN Backoff ELSE delay
           r == [q EXCEPT !.not_before = z]
<1>3. d \in Nat /\ z \in Nat /\ (z = 0 \/ z <= clock + d)
  <2>1. delay = NoTime \/ delay \in Nat
      BY BoundsTyped
  <2> QED BY <1>1, <2>1, BoundsTyped
<1>4. r.replay = q.replay /\ r.sent = q.sent /\ r.hasty = q.hasty /\ r.attempt = q.attempt
    BY <1>1 DEF CallType
<1>5. Over(r) = Over(q) /\ (Again(r) <=> Again(q))
    BY <1>4, Zenon DEF Over, Again, AttemptsOf
<1>6. CASE delay > MaxInline \/ ~Again(r)
  <2>1. To(c, Over(q))
      BY <1>2, <1>5, <1>6, Zenon
  <2>2. ~Where(c, Asleep)
      BY <1>1 DEF Where, Asleep
  <2> QED BY <1>1, <2>1, <2>2, OverKeeps
<1>7. CASE ~(delay > MaxInline \/ ~Again(r))
  <2>1. To(c, Sleep(r, d))
      BY <1>2, <1>7, Zenon
  <2>2. Sleep(r, d) = [q EXCEPT !.not_before = z, !.pc = "backoff", !.due = clock + d]
      BY Zenon DEF Sleep
  <2>3. Again(q) /\ Where(c, {"answer", "body"})
      BY <1>1, <1>5, <1>7 DEF Where
  <2>4. To(c, [q EXCEPT !.not_before = z, !.pc = "backoff", !.due = clock + d])
      BY <2>1, <2>2, Zenon
  <2> HIDE DEF z, d
  <2> QED BY <1>1, <1>3, <2>3, <2>4, SleepKeeps
<1> QED BY <1>6, <1>7

(* A connection, or a body, that breaks off.                               *)
LEMMA BrokenOffKeeps ==
    ASSUME ExtInv, NEW c \in Calls, BrokenOff(c)
    PROVE  ExtInv'
<1> DEFINE q == call[c]
<1>1. /\ q \in CallType /\ Proper(q) /\ Where(c, {"answer", "body"}) /\ clock \in Nat
      /\ UNCHANGED <<clock, last, holder, passed>>
    BY GateKnown DEF BrokenOff, ExtInv, ExtTyped
<1>2. CASE ~Again(q)
  <2>1. To(c, Over(q)) /\ ~Where(c, Asleep)
      BY <1>1, <1>2 DEF BrokenOff, Where, Asleep
  <2> QED BY <1>1, <2>1, OverKeeps
<1>3. CASE Again(q)
  <2>1. q.not_before = 0
      BY <1>1 DEF Proper, Patient, Where
  <2>2. q = [q EXCEPT !.not_before = 0]
      BY <1>1, <2>1 DEF CallType
  <2>3. To(c, [q EXCEPT !.pc = "backoff", !.due = clock + Backoff])
      BY <1>3 DEF BrokenOff, Sleep
  <2>4. [q EXCEPT !.pc = "backoff", !.due = clock + Backoff] =
            [q EXCEPT !.not_before = 0, !.pc = "backoff", !.due = clock + Backoff]
      BY <2>2, Zenon
  <2>5. To(c, [q EXCEPT !.not_before = 0, !.pc = "backoff", !.due = clock + Backoff])
      BY <2>3, <2>4, Zenon
  <2>6. Backoff \in Nat /\ 0 \in Nat
      BY BoundsTyped
  <2> QED BY <1>1, <1>3, <2>5, <2>6, SleepKeeps
<1> QED BY <1>2, <1>3

(* An answer, whose body may still have to be read.                        *)
LEMMA AnsweredKeeps ==
    ASSUME ExtInv, NEW c \in Calls, Answered(c)
    PROVE  ExtInv'
<1> DEFINE q == call[c]
           r == [q EXCEPT !.pc = "body"]
<1>1. /\ q \in CallType /\ Proper(q) /\ q.pc \in {"answer", "body"} /\ ~Where(c, Asleep)
      /\ UNCHANGED <<clock, last, holder, passed>>
    BY GateKnown DEF Answered, Where, Asleep
<1>2. To(c, Over(q)) \/ To(c, r)
    BY Zenon DEF Answered
<1>3. CASE To(c, Over(q))
    BY <1>1, <1>3, OverKeeps
<1>4. CASE To(c, r)
  <2>1. /\ r \in CallType /\ r.pc = "body" /\ r.provider = q.provider /\ r.server = q.server
        /\ r.replay = q.replay /\ r.attempt = q.attempt /\ r.sent = q.sent /\ r.not_before = q.not_before
        /\ r.hasty = q.hasty
      BY <1>1 DEF CallType, Pcs
  <2>2. Proper(r)
      BY <1>1, <2>1 DEF Proper, Routed, CallTimed, Patient, AttemptsOf
  <2> QED BY <1>1, <1>4, <2>1, <2>2, PlainStepKeeps
<1> QED BY <1>2, <1>3, <1>4

(* The backoff is over: one attempt more.                                  *)
LEMMA RetryKeeps ==
    ASSUME ExtInv, NEW c \in Calls, Retry(c)
    PROVE  ExtInv'
<1> DEFINE q == call[c]
           r == [q EXCEPT !.pc = "provider", !.due = 0, !.attempt = q.attempt + 1]
<1>1. /\ q \in CallType /\ Proper(q) /\ q.pc = "backoff" /\ ~Where(c, Asleep) /\ clock \in Nat
      /\ clock >= q.due /\ To(c, r) /\ UNCHANGED <<clock, last, holder, passed>>
    BY GateKnown DEF Retry, Where, Asleep, ExtInv, ExtTyped
<1>2. q.attempt \in Nat /\ q.attempt + 1 \in Nat /\ q.sent \in Nat /\ q.not_before \in Nat /\ q.due \in Nat
    BY <1>1, CallFields
<1>3. /\ r \in CallType /\ r.pc = "provider" /\ r.provider = q.provider /\ r.server = q.server
      /\ r.replay = q.replay /\ r.attempt = q.attempt + 1 /\ r.sent = q.sent /\ r.not_before = q.not_before
      /\ r.hasty = q.hasty
    BY <1>1, <1>2 DEF CallType, Pcs
<1>4. AttemptsOf(r) = AttemptsOf(q) /\ q.attempt + 1 < AttemptsOf(q)
    BY <1>1, <1>3 DEF AttemptsOf, Proper, CallTimed, Again
<1>5. q.not_before <= clock /\ q.sent <= q.attempt + 1 /\ q.hasty = FALSE
    BY <1>1, <1>2 DEF Proper, Patient, CallTimed
<1>6. Proper(r)
  <2>1. Routed(r)
      BY <1>1, <1>3 DEF Proper, Routed
  <2>2. CallTimed(r)
    <3> HIDE DEF r
    <3> QED BY <1>3, <1>4, <1>5 DEF CallTimed
  <2>3. Patient(r)
    <3> HIDE DEF r
    <3> QED BY <1>3, <1>5 DEF Patient
  <2> QED BY <2>1, <2>2, <2>3 DEF Proper
<1> HIDE DEF r
<1> QED BY <1>1, <1>3, <1>6, PlainStepKeeps

(* A dropped connector leaves its limiter free.                            *)
LEMMA DropCallKeeps ==
    ASSUME ExtInv, NEW c \in Calls, DropCall(c)
    PROVE  ExtInv'
<1>1. call[c] \in CallType /\ Proper(call[c]) /\ ExtTyped
    BY GateKnown DEF ExtInv
<1>2. Over(call[c]) \in CallType /\ Proper(Over(call[c]))
    BY <1>1, OverProper DEF Proper, Patient
<1>3. /\ holder' = [l \in Limiters |-> IF holder[l] = c THEN Nobody ELSE holder[l]]
      /\ To(c, Over(call[c])) /\ UNCHANGED <<clock, last, passed>>
    BY DEF DropCall
<1>4. /\ holder' \in [Limiters -> Calls \cup {Nobody}]
      /\ \A l \in Limiters : holder'[l] \in {holder[l], Nobody} /\ ~(holder'[l] = c /\ c # Nobody)
    BY <1>1, <1>3 DEF ExtTyped
<1>5. \A l \in Limiters : Spaced(l)'
    BY <1>3, Zenon DEF ExtInv, Spaced
<1> QED BY <1>1, <1>2, <1>3, <1>4, <1>5, StepKeeps DEF ExtTyped

(* Time passes.                                                            *)
LEMMA ClockTickKeeps ==
    ASSUME ExtInv, ClockTick
    PROVE  ExtInv'
<1>1. /\ clock' = clock + 1 /\ clock < MaxClock /\ UNCHANGED <<last, holder, call, passed>>
      /\ clock \in Nat /\ call \in [Calls -> CallType]
    BY DEF ClockTick, ExtInv, ExtTyped
<1>2. ExtTyped'
    BY <1>1, BoundsTyped DEF ExtInv, ExtTyped
<1>3. \A l \in Limiters : Spaced(l)' /\ HeldAtGate(l)'
    BY <1>1, Zenon DEF ExtInv, Spaced, HeldAtGate, Where, Gate
<1>4. \A c \in Calls : Proper(call[c])'
  <2>1. SUFFICES ASSUME NEW c \in Calls PROVE Proper(call[c])'
      OBVIOUS
  <2>2. call[c] \in CallType /\ Proper(call[c]) /\ call'[c] = call[c] /\ call[c].not_before \in Nat
      BY <1>1, CallFields DEF ExtInv
  <2>3. Patient(call[c])'
      BY <1>1, <2>2 DEF Proper, Patient
  <2>4. Routed(call[c])' /\ CallTimed(call[c])'
      BY <2>2, Zenon DEF Proper, Routed, CallTimed, AttemptsOf, Again
  <2> QED BY <2>3, <2>4 DEF Proper
<1> QED BY <1>2, <1>3, <1>4 DEF ExtInv

(* The first state has the invariant.                                      *)
LEMMA InitProper == ExtInit => ExtInv
<1> SUFFICES ASSUME ExtInit PROVE ExtInv
    OBVIOUS
<1>1. /\ clock = 0 /\ last = [l \in Limiters |-> NoTime] /\ holder = [l \in Limiters |-> Nobody]
      /\ call = [c \in Calls |-> NoCall] /\ passed = [l \in Limiters |-> <<>>]
    BY DEF ExtInit
<1>2. NoCall \in CallType
    BY DEF NoCall, CallType, Pcs
<1>3. ExtTyped
    BY <1>1, <1>2, BoundsTyped DEF ExtTyped
<1>4. \A c \in Calls : Proper(call[c])
    BY <1>1, <1>3, NoCallProper
<1>5. \A l \in Limiters : passed[l] = <<>> /\ last[l] = NoTime /\ holder[l] = Nobody
    BY <1>1
<1>6. \A l \in Limiters : Spaced(l) /\ HeldAtGate(l)
    BY <1>5 DEF Spaced, HeldAtGate
<1> QED BY <1>3, <1>4, <1>6 DEF ExtInv

(* ExtInv is an invariant.                                                 *)
THEOREM TransportInvariant == ExtSpec => []ExtInv
<1>1. ExtInv /\ [ExtNext]_extVars => ExtInv'
  <2>1. SUFFICES ASSUME ExtInv, [ExtNext]_extVars PROVE ExtInv'
      OBVIOUS
  <2>2. CASE UNCHANGED extVars
    <3>1. clock' = clock /\ last' = last /\ holder' = holder /\ call' = call /\ passed' = passed
        BY <2>2 DEF extVars
    <3>2. ExtTyped'
        BY <2>1, <3>1 DEF ExtInv, ExtTyped
    <3>3. \A l \in Limiters : Spaced(l)' /\ HeldAtGate(l)'
        BY <2>1, <3>1, Zenon DEF ExtInv, Spaced, HeldAtGate, Where, Gate
    <3>4. \A c \in Calls : Proper(call[c])'
        BY <2>1, <3>1, Zenon DEF ExtInv, Proper, Routed, CallTimed, Patient, AttemptsOf, Again
    <3> QED BY <3>2, <3>3, <3>4 DEF ExtInv
  <2>3. CASE ClockTick
      BY <2>1, <2>3, ClockTickKeeps
  <2>4. ASSUME NEW c \in Calls,
               \/ StartCall(c) \/ Lock(c) \/ PassLimiter(c) \/ Dispatch(c) \/ Overloaded(c) \/ BrokenOff(c)
               \/ Answered(c) \/ Retry(c) \/ DropCall(c)
        PROVE  ExtInv'
      BY <2>1, <2>4, StartCallKeeps, LockKeeps, PassLimiterKeeps, DispatchKeeps, OverloadedKeeps,
         BrokenOffKeeps, AnsweredKeeps, RetryKeeps, DropCallKeeps, Zenon
  <2> QED BY <2>1, <2>2, <2>3, <2>4, Zenon DEF ExtNext
<1> QED BY <1>1, InitProper, PTL DEF ExtSpec

(* Requests of any number of connectors, retried or dropped at any wait,   *)
(* pass a limiter at least its gap apart; a server that asks for a pause   *)
(* gets it from the request it told; what may not be replayed is never     *)
(* sent twice; and a limiter is held only by a request that sleeps at it   *)
(* (transport.rs).                                                         *)
THEOREM TransportPolite == ExtSpec => []Polite
<1>1. ExtInv => Polite
  <2>1. SUFFICES ASSUME ExtInv PROVE Polite
      OBVIOUS
  <2>2. \A l \in Limiters : \A i \in 1..(Len(passed[l]) - 1) : passed[l][i + 1] - passed[l][i] >= Gap[l]
      BY <2>1 DEF ExtInv, Spaced
  <2>3. ASSUME NEW c \in Calls PROVE ~call[c].hasty /\ (~call[c].replay => call[c].sent <= 1)
    <3>1. call[c] \in CallType /\ Proper(call[c])
        BY <2>1 DEF ExtInv, ExtTyped
    <3>2. call[c].hasty = FALSE
        BY <3>1 DEF Proper, Patient
    <3>3. ~call[c].replay => call[c].sent <= 1
      <4>1. /\ call[c].sent \in Nat /\ call[c].attempt \in Nat /\ call[c].pc \in Pcs
            /\ call[c].replay \in BOOLEAN /\ AttemptsOf(call[c]) \in Nat
          BY <3>1, CallFields, AttemptsTyped
      <4>2. ~call[c].replay => AttemptsOf(call[c]) = 1
          BY Zenon DEF AttemptsOf
      <4>3. CallTimed(call[c])
          BY <3>1 DEF Proper
      <4>4. call[c].sent <= AttemptsOf(call[c])
          BY <4>1, <4>3 DEF CallTimed, Pcs
      <4> QED BY <4>1, <4>2, <4>4
    <3> QED BY <3>2, <3>3, Zenon
  <2>4. \A l \in Limiters : holder[l] # Nobody =>
            Where(holder[l], {"provider_sleep", "server_sleep"}) /\ Gate(holder[l]) = l
      BY <2>1 DEF ExtInv, HeldAtGate
  <2> QED BY <2>2, <2>3, <2>4, Zenon DEF Polite
<1> QED BY <1>1, TransportInvariant, PTL

(* The transport keeps the types of its limiters and the attempts of its   *)
(* policy.                                                                 *)
THEOREM TransportTyped == ExtSpec => []ExtTypeOK
<1>1. ExtInv => ExtTypeOK
  <2>1. SUFFICES ASSUME ExtInv PROVE ExtTypeOK
      OBVIOUS
  <2>2. /\ clock \in 0..MaxClock /\ last \in [Limiters -> Nat \cup {NoTime}]
        /\ holder \in [Limiters -> Calls \cup {Nobody}]
      BY <2>1, BoundsTyped DEF ExtInv, ExtTyped
  <2>3. ASSUME NEW c \in Calls PROVE call[c].attempt \in 0..(Attempts - 1) /\ call[c].sent \in 0..Attempts
    <3>1. call[c] \in CallType /\ CallTimed(call[c])
        BY <2>1 DEF ExtInv, ExtTyped, Proper
    <3>2. /\ call[c].sent \in Nat /\ call[c].attempt \in Nat /\ call[c].pc \in Pcs
          /\ AttemptsOf(call[c]) \in Nat /\ AttemptsOf(call[c]) <= Attempts /\ Attempts \in Nat
        BY <3>1, CallFields, AttemptsTyped, BoundsTyped
    <3>3. call[c].sent <= AttemptsOf(call[c]) /\ call[c].attempt < AttemptsOf(call[c])
        BY <3>1, <3>2 DEF CallTimed, Pcs
    <3> QED BY <3>2, <3>3
  <2> QED BY <2>2, <2>3 DEF ExtTypeOK
<1> QED BY <1>1, TransportInvariant, PTL

-----------------------------------------------------------------------------
(* The listings.  The connectors differ, and the proof needs to know how     *)
(* they cannot: which combinations of continuation, end and failure none of  *)
(* them has (Formed).                                                        *)

Positive == Nat \ {0}
ConnectorRecords ==
    [more : {"none", "flag", "flagcursor", "flagcount", "cursor", "count", "pages", "first", "full",
             "rows"},
     pages : Positive, lanes : Positive, any : BOOLEAN, spare : BOOLEAN,
     fallback : {"no", "any", "denied", "first"}, echo : BOOLEAN, check : BOOLEAN,
     repeat : {"no", "page", "both", "all", "visited", "last"}, hollow : {"go", "error", "end"},
     over : BOOLEAN, stable : BOOLEAN, short : BOOLEAN, late : BOOLEAN, extra : BOOLEAN]

\* No connector remembers pages instead of cursors, loses the end of a counted listing, or
\* sees an end late that a cursor does not announce.
Formed(c) ==
    /\ c \in ConnectorRecords
    /\ c.repeat = "page" => c.more \notin {"cursor", "flagcursor"}
    /\ c.repeat = "last" => c.more \in {"cursor", "flagcursor", "rows"}
    /\ c.more = "rows" => ~c.short /\ c.hollow # "error" /\ (c.spare => c.fallback = "no")
    /\ c.fallback = "denied" => c.lanes = 2 /\ c.more = "cursor" /\ ~c.short
    /\ c.more = "none" => ~c.short
    /\ c.hollow = "end" => c.more = "pages"
    /\ c.late => c.more = "cursor" /\ c.pages = PagedLimit /\ c.fallback = "no"

\* What all connectors have that add nothing.
Plain(c) ==
    /\ c.fallback = "no" /\ c.repeat = "no" /\ c.hollow = "go" /\ ~c.short /\ ~c.late /\ ~c.spare

LEMMA ConnectorsFormed ==
    ASSUME NEW c \in Sources
    PROVE  Formed(c)
<1>s. /\ PagedLimit \in Positive /\ Abreast \in Positive /\ 1 + Abreast \in Positive
      /\ {1, 2, 4} \subseteq Positive
    BY PagedAssumption DEF Positive
<1> USE DEF ConnectorRecords, Formed
<1>0. Single = [more |-> "none", pages |-> 1, lanes |-> 1, any |-> FALSE, spare |-> FALSE,
           fallback |-> "no", echo |-> FALSE, check |-> FALSE, repeat |-> "no", hollow |-> "go",
           over |-> FALSE, stable |-> FALSE, short |-> FALSE, late |-> FALSE, extra |-> FALSE]
    BY DEF Single
<1>1. Formed(Single) /\ Plain(Single) /\ Single.more = "none" /\ Single.pages = 1
    BY <1>0, <1>s DEF Plain
<1>2. Formed(Paged) /\ Plain(Paged) /\ Paged.pages = PagedLimit
    BY <1>1, <1>s DEF Paged, Plain
<1>3. Formed(Counted) /\ Plain(Counted) /\ Counted.more = "count" /\ Counted.pages = 1
    BY <1>1, <1>s DEF Counted, Plain
<1> USE DEF Plain
<1>5. Formed(Driftnet)
    BY <1>1, <1>s DEF Driftnet
<1>6. Formed(PugRecon)
    BY <1>1, <1>s DEF PugRecon
<1>7. Formed(CrtSh)
    BY <1>1, <1>s DEF CrtSh
<1>8. Formed(Brave)
    BY <1>2, <1>s DEF Brave
<1>9. Formed(CensysPlatform)
    BY <1>2, <1>s DEF CensysPlatform
<1>10. Formed(Github)
    BY <1>2, <1>s DEF Github
<1>11. Formed(Gitlab)
    BY <1>2, <1>s DEF Gitlab
<1>12. Formed(Intelx)
    BY <1>2, <1>s DEF Intelx
<1>13. Formed(Merklemap)
    BY <1>2, <1>s DEF Merklemap
<1>14. Formed(Otx)
    BY <1>2, <1>s DEF Otx
<1>15. Formed(Postman)
    BY <1>2, <1>s DEF Postman
<1>16. Formed(Shodan)
    BY <1>2, <1>s DEF Shodan
<1>17. Formed(DnsDb)
    BY <1>2, <1>s DEF DnsDb
<1>18. Formed(DnsDumpster)
    BY <1>2, <1>s DEF DnsDumpster
<1>19. Formed(Onyphe)
    BY <1>2, <1>s DEF Onyphe
<1>20. Formed(Quake)
    BY <1>2, <1>s DEF Quake
<1>21. Formed(RedHunt)
    BY <1>2, <1>s DEF RedHunt
<1>22. Formed(RseCloud)
    BY <1>2, <1>s DEF RseCloud
<1>23. Formed(Windvane)
    BY <1>2, <1>s DEF Windvane
<1>24. Formed(ZoomEye)
    BY <1>2, <1>s DEF ZoomEye
<1>25. Formed(Thc)
    BY <1>2, <1>s DEF Thc
<1>26. Formed(RapidDns)
    BY <1>2, <1>s DEF RapidDns
<1>27. Formed(SiteDossier)
    BY <1>2, <1>s DEF SiteDossier
<1>28. Formed(CertSpotter)
    BY <1>2, <1>s DEF CertSpotter
<1>29. Formed(Urlscan)
    BY <1>2, <1>s DEF Urlscan
<1>30. Formed(VirusTotal)
    BY <1>2, <1>s DEF VirusTotal
<1>31. Formed(WhoisXml)
    BY <1>2, <1>s DEF WhoisXml
<1>32. Formed(SecurityTrails)
    BY <1>2, <1>s DEF SecurityTrails
<1>33. Formed(Wayback)
    BY <1>2, <1>s DEF Wayback
<1>34. Formed(CommonCrawl)
    BY <1>2, <1>s DEF CommonCrawl
<1>35. Formed(FullHunt)
    BY <1>3, <1>s DEF FullHunt
<1> HIDE DEF ConnectorRecords, Formed, Plain
<1>4. c \in {Single, Counted,
           Brave, CensysPlatform, FullHunt, Driftnet, Github, Gitlab, Intelx, Merklemap, Otx,
           Postman, Shodan, PugRecon, DnsDb, DnsDumpster, Onyphe, Quake, RedHunt, RseCloud,
           Windvane, ZoomEye, Thc, RapidDns, SiteDossier, CertSpotter, Urlscan, VirusTotal,
           WhoisXml, SecurityTrails, CrtSh, Wayback, CommonCrawl}
    BY DEF Sources,
       Bevigil, BuiltWith, Leakix, CertificateDetails, SubdomainCenter, BufferOver, C99, Chinaz,
       DigitalYama, DnsRepo, DomainsProject, Anubis, ShodanCt, HudsonRock, ThreatCrowd, Reconeer,
       ReconCloud, Riddler, ThreatMiner, AnubisDb, SubdomainApp, HackerTarget, Chaos, Fofa,
       ThreatBook
<1> QED BY <1>1, <1>3, <1>4,
       <1>5, <1>6, <1>7, <1>8, <1>9, <1>10, <1>11, <1>12, <1>13, <1>14, <1>15, <1>16, <1>17,
       <1>18, <1>19, <1>20, <1>21, <1>22, <1>23, <1>24, <1>25, <1>26, <1>27, <1>28, <1>29, <1>30,
       <1>31, <1>32, <1>33, <1>34, <1>35

\* What a lane is, for every connector and provider.
LaneRecords ==
    [st : {"open", "done", "failed", "denied", "gone"}, n : Nat, at : Nat, seen : SUBSET Nat,
     ids : SUBSET Nat, rows : Nat, tot : Int, flaw : BOOLEAN, solo : BOOLEAN]

PagedTyped ==
    /\ conn \in Sources /\ manner \in {"honest", "lossy", "wild"} /\ listing \in [Lanes -> Nat]
    /\ laneOf \in [Lanes -> LaneRecords]
    /\ kept \subseteq Lanes \X Nat /\ accepted \subseteq Lanes \X Nat
    /\ failed \in BOOLEAN /\ again \in BOOLEAN /\ stuck \in BOOLEAN
    /\ out \in {"run", "ok", "error", "cut"}

\* A connector that asks one page only is given a listing of one.
Listed ==
    /\ conn.more = "none" => \A e \in Lanes : listing[e] <= 1
    /\ conn.fallback = "denied" => listing[2] <= 1

Got(e) == {i \in 1..listing[e] : <<e, i>> \in kept}

\* A lane counts its pages and rows, remembers the continuation it follows, and has failed
\* when a download was lost.
LaneBooks(e) ==
    LET l == laneOf[e] IN
    /\ l.n <= conn.pages /\ l.rows <= l.n
    /\ l.st = "open" => l.n < conn.pages
    /\ l.flaw => failed
    /\ l.n = 0 => l.tot = -1
    /\ Cursored /\ l.st = "open" /\ l.n > 0 => l.at \in l.seen
    /\ l.st = "gone" => conn.more = "rows" /\ conn.spare
    /\ l.solo => conn.fallback = "denied" /\ e > 1

\* What a provider sends that keeps to its listing, even if pages come empty.
Heard(e) ==
    LET l == laneOf[e] IN
    manner # "wild" =>
        /\ \A i \in Nat : <<e, i>> \in kept => i <= listing[e] /\ i >= 1 /\ i <= l.n
        /\ l.rows = Cardinality(Got(e))
        /\ l.n > 0 => l.tot = listing[e]
        /\ l.st = "open" => l.at = l.n + 1

\* No hole was passed over.
Steady(e) ==
    LET l == laneOf[e] IN
    (manner = "honest" \/ (manner = "lossy" /\ conn.hollow = "error")) /\ l.st = "open" =>
        l.rows = l.n /\ \A i \in 1..l.n : <<e, i>> \in kept

\* The listing has more pages than the connector reads, or can be sure of.
Limited(e) == listing[e] > conn.pages \/ (EndUnseen /\ listing[e] >= conn.pages)

\* A provider that keeps to its protocol repeats nothing, and only the limit of pages ends
\* its lane with a failure.
Faithful(e) ==
    LET l == laneOf[e] IN
    manner = "honest" =>
        /\ \A i \in l.ids : i <= l.n
        /\ \A i \in l.seen : i <= l.n + 1
        /\ l.st = "open" /\ conn.late /\ l.n > 0 => l.n < listing[e]
        /\ l.st \in Bad /\ ~failed => Limited(e)

\* What is left of a lane that ended well.
WholeLane(e) ==
    laneOf[e].st = "done" =>
        /\ manner = "honest" => Missing(e, listing[e]) = {}
        /\ manner = "lossy" /\ conn.hollow = "error" => Missing(e, listing[e] - 1) = {}
        /\ manner = "lossy" /\ (conn.short \/ conn.more \in {"count", "full"})
            => Missing(e, listing[e]) = {}

LaneKept(e) == LaneBooks(e) /\ Heard(e) /\ Steady(e) /\ Faithful(e) /\ WholeLane(e)

PagedInv ==
    /\ PagedTyped /\ Listed /\ \A e \in Lanes : LaneKept(e)
    /\ PagesKept /\ NoRefetch /\ NoFalseAlarm

\* An answer, whatever the provider sends.
AnswerRecords ==
    [page : Nat, id : Nat, recs : 0..1, more : BOOLEAN, next : Nat, total : Nat, full : BOOLEAN,
     gone : BOOLEAN, flaw : BOOLEAN]

\* What an answer tells when it keeps to the listing.
Told(e, r) ==
    LET p == laneOf[e].at IN
    /\ r.page = laneOf[e].n + 1 /\ r.id = p
    /\ r.recs = 1 => p <= listing[e]
    /\ manner = "honest" /\ r.recs = 0 => p > listing[e]
    /\ r.more <=> p < listing[e]
    /\ r.next # 0 => r.next = p + 1 /\ (p < listing[e] \/ (conn.more = "rows" /\ p <= listing[e]))
    /\ Cursored /\ (p < listing[e] \/ (conn.more = "rows" /\ p <= listing[e])) => r.next = p + 1
    /\ r.total = listing[e]
    /\ r.full => p < listing[e] \/ (conn.more = "full" /\ p <= listing[e])
    /\ r.gone => conn.more = "rows" /\ conn.spare /\ p > listing[e]

LEMMA LaneTypes ==
    ASSUME PagedTyped, NEW e \in Lanes
    PROVE  /\ Formed(conn) /\ conn.pages \in Nat \ {0} /\ conn.lanes \in Nat \ {0}
           /\ e \in Nat /\ listing[e] \in Nat /\ laneOf[e] \in LaneRecords
BY ConnectorsFormed DEF PagedTyped, Lanes, Formed, ConnectorRecords, Positive

LEMMA HonestTold ==
    ASSUME PagedTyped, NEW e \in Lanes, NEW r \in HonestAnswers(e)
    PROVE  /\ r \in AnswerRecords /\ Told(e, r)
           /\ r.recs = (IF laneOf[e].at <= listing[e] THEN 1 ELSE 0)
<1> DEFINE p == laneOf[e].at
           L == listing[e]
           x == IF Cursored /\ (p < L \/ (conn.more = "rows" /\ p <= L)) THEN p + 1 ELSE 0
<1>1. PICK f \in {Truth(e).full, conn.more = "full" /\ p = L},
           g \in {FALSE, conn.more = "rows" /\ conn.spare /\ p > L},
           w \in {FALSE, conn.extra} :
        r = [Truth(e) EXCEPT !.full = f, !.gone = g, !.flaw = w]
    BY DEF HonestAnswers
<1>2. p \in Nat /\ L \in Nat /\ laneOf[e].n \in Nat /\ conn.extra \in BOOLEAN
      /\ conn.spare \in BOOLEAN
    BY LaneTypes DEF LaneRecords, Formed, ConnectorRecords
<1>3. Truth(e) = [page |-> laneOf[e].n + 1, id |-> p, recs |-> IF p <= L THEN 1 ELSE 0,
                  more |-> p < L, next |-> x, total |-> L, full |-> p < L, gone |-> FALSE,
                  flaw |-> FALSE]
    BY DEF Truth
<1>4. x \in Nat /\ (p < L) \in BOOLEAN
    BY <1>2
<1>5. (x # 0 => x = p + 1 /\ (p < L \/ (conn.more = "rows" /\ p <= L)))
      /\ (Cursored /\ (p < L \/ (conn.more = "rows" /\ p <= L)) => x = p + 1)
    BY <1>2
<1> HIDE DEF p, L, x
<1>6. Truth(e) \in AnswerRecords
    BY <1>2, <1>3, <1>4 DEF AnswerRecords
<1>7. /\ Truth(e).page = laneOf[e].n + 1 /\ Truth(e).id = p
      /\ Truth(e).recs = (IF p <= L THEN 1 ELSE 0)
      /\ Truth(e).more = (p < L) /\ Truth(e).next = x /\ Truth(e).total = L
      /\ Truth(e).full = (p < L)
    BY <1>3
<1>8. f \in BOOLEAN /\ (f => p < L \/ (conn.more = "full" /\ p <= L))
    <2>1. (p < L) \in BOOLEAN /\ (conn.more = "full" /\ p = L) \in BOOLEAN /\ (p = L => p <= L)
        BY <1>2
    <2>2. f \in {p < L, conn.more = "full" /\ p = L}
        BY <1>1, <1>7
    <2>3. CASE f = (p < L)
        BY <2>1, <2>3
    <2>4. CASE f = (conn.more = "full" /\ p = L)
        BY <2>1, <2>4
    <2> QED BY <2>2, <2>3, <2>4
<1>9. g \in BOOLEAN /\ w \in BOOLEAN /\ (g => conn.more = "rows" /\ conn.spare /\ p > L)
    BY <1>1, <1>2
<1>10. /\ r \in AnswerRecords
       /\ r.page = Truth(e).page /\ r.id = Truth(e).id /\ r.recs = Truth(e).recs
       /\ r.more = Truth(e).more /\ r.next = Truth(e).next /\ r.total = Truth(e).total
       /\ r.full = f /\ r.gone = g
    BY <1>1, <1>6, <1>8, <1>9 DEF AnswerRecords
<1> QED
    <2>1. r.recs = (IF p <= L THEN 1 ELSE 0) /\ (r.recs = 0 => p > L) /\ (r.recs = 1 => p <= L)
        BY <1>2, <1>7, <1>10
    <2>2. Told(e, r)
        BY <1>5, <1>7, <1>8, <1>9, <1>10, <2>1 DEF Told, p, L
    <2> QED BY <1>10, <2>1, <2>2 DEF p, L

\* An answer whose page came empty is one.
LEMMA EmptiedAnswer ==
    ASSUME NEW h \in AnswerRecords, NEW k \in 0..1, NEW f \in BOOLEAN
    PROVE  [h EXCEPT !.recs = k, !.full = f] \in AnswerRecords
BY DEF AnswerRecords

LEMMA AnswersTold ==
    ASSUME PagedTyped, NEW e \in Lanes, NEW r \in PageAnswers(e)
    PROVE  r \in AnswerRecords /\ (manner # "wild" => Told(e, r))
<1>1. CASE manner = "honest"
    BY <1>1, HonestTold DEF PageAnswers
<1>2. CASE manner = "lossy"
    <2>1. r \in HonestAnswers(e)
          \/ \E h \in HonestAnswers(e) : r = [h EXCEPT !.recs = 0, !.full = FALSE]
        BY <1>2 DEF PageAnswers, LossyAnswers
    <2>2. CASE r \in HonestAnswers(e)
        BY <2>2, HonestTold
    <2>3. ASSUME NEW h \in HonestAnswers(e), r = [h EXCEPT !.recs = 0, !.full = FALSE]
          PROVE  r \in AnswerRecords /\ Told(e, r)
        <3>1. h \in AnswerRecords /\ Told(e, h)
            BY HonestTold
        <3>2. r \in AnswerRecords
            <4>1. 0 \in 0..1 /\ FALSE \in BOOLEAN
                OBVIOUS
            <4> QED BY <2>3, <3>1, <4>1, EmptiedAnswer
        <3>3. /\ r.page = h.page /\ r.id = h.id /\ r.recs = 0 /\ r.more = h.more /\ r.next = h.next
              /\ r.total = h.total /\ r.full = FALSE /\ r.gone = h.gone
            BY <2>3, <3>1 DEF AnswerRecords
        <3> QED BY <1>2, <3>1, <3>2, <3>3 DEF Told
    <2> QED BY <2>1, <2>2, <2>3
<1>3. CASE manner = "wild" /\ e = conn.lanes
    <2>1. r \in WildAnswers(e)
        BY <1>3 DEF PageAnswers
    <2>2. laneOf[e].n \in Nat /\ PagedLimit \in Nat /\ conn.echo \in BOOLEAN
        BY LaneTypes, PagedAssumption DEF LaneRecords, Formed, ConnectorRecords
    <2> DEFINE P == {laneOf[e].n + 1, IF conn.echo THEN laneOf[e].n + 2 ELSE laneOf[e].n + 1}
               I == 1..(IF conn.repeat \in {"page", "both"} THEN 2 ELSE 1)
               X == IF Cursored THEN 0..PagedLimit ELSE {0}
               T == IF Numbered THEN 0..(PagedLimit + 1) ELSE {0}
    <2>3. P \subseteq Nat /\ I \subseteq Nat /\ X \subseteq Nat /\ T \subseteq Nat
        BY <2>2
    <2>4. r \in [page : P, id : I, recs : 0..1, more : {FALSE, Flagged}, next : X, total : T,
                 full : {FALSE, conn.more = "full"}, gone : {FALSE}, flaw : {FALSE}]
        BY <2>1 DEF WildAnswers
    <2>5. {FALSE, Flagged} \subseteq BOOLEAN /\ {FALSE, conn.more = "full"} \subseteq BOOLEAN
          /\ {FALSE} \subseteq BOOLEAN
        BY DEF Flagged
    <2> HIDE DEF P, I, X, T
    <2>6. r \in AnswerRecords
        BY <2>3, <2>4, <2>5 DEF AnswerRecords
    <2> QED BY <1>3, <2>6
<1>4. CASE manner = "wild" /\ e # conn.lanes
    BY <1>4, HonestTold DEF PageAnswers
<1> QED BY <1>1, <1>2, <1>3, <1>4 DEF PagedTyped

\* The answer that announces more, one way of paging at a time.
LEMMA MoreCases ==
    ASSUME Formed(conn), NEW l \in LaneRecords, NEW r \in AnswerRecords,
           l.solo => conn.fallback = "denied"
    PROVE  /\ conn.more = "none" \/ l.solo => ~More(l, r)
           /\ conn.more \in {"flag", "flagcursor"} => (More(l, r) <=> r.more)
           /\ conn.more = "cursor" /\ ~l.solo => (More(l, r) <=> r.next # 0)
           /\ conn.more = "count" => (More(l, r) <=> l.rows + r.recs < r.total)
           /\ conn.more = "flagcount" => (More(l, r) <=> r.more /\ l.rows + r.recs < r.total)
           /\ conn.more = "pages" => (More(l, r) <=> l.n + 1 < r.total)
           /\ conn.more = "first" =>
                (More(l, r) <=> l.n + 1 < (IF l.n = 0 THEN r.total ELSE l.tot))
           /\ conn.more = "full" => (More(l, r) <=> l.rows + r.recs < r.total \/ r.full)
           /\ conn.more = "rows" => (More(l, r) <=> r.recs # 0)
<1>1. l.solo => conn.more = "cursor"
    BY DEF Formed
<1>2. r.more \in BOOLEAN /\ r.full \in BOOLEAN
    BY DEF AnswerRecords
<1>3. CASE l.solo
    BY <1>1, <1>3 DEF More
<1>4. CASE ~l.solo
    BY <1>2, <1>4 DEF More
<1> QED BY <1>3, <1>4

\* How a lane ends.
LEMMA LaneEnds ==
    ASSUME NEW l \in LaneRecords, NEW k \in {"open", "done", "failed", "denied", "gone"}, NEW m,
           m = [l EXCEPT !.st = k]
    PROVE  /\ m \in LaneRecords /\ m.st = k /\ m.at = l.at /\ m.seen = l.seen /\ m.n = l.n
           /\ m.rows = l.rows /\ m.flaw = l.flaw /\ m.tot = l.tot /\ m.ids = l.ids
           /\ m.solo = l.solo
BY DEF LaneRecords

\* What a page adds to the books of its lane.
LEMMA TallyStep ==
    ASSUME NEW l \in LaneRecords, NEW r \in AnswerRecords, NEW m, m = Tallied(l, r)
    PROVE  /\ m \in LaneRecords
           /\ m.n = l.n + 1 /\ m.rows = l.rows + r.recs /\ m.flaw = (l.flaw \/ r.flaw)
           /\ m.tot = (IF l.n = 0 \/ conn.more # "first" THEN r.total ELSE l.tot)
           /\ m.ids = (IF r.recs = 0 THEN l.ids ELSE l.ids \cup {r.id})
           /\ m.st = l.st /\ m.at = l.at /\ m.seen = l.seen /\ m.solo = l.solo
<1> DEFINE a == l.n + 1
           b == l.rows + r.recs
           f == l.flaw \/ r.flaw
           t == IF l.n = 0 \/ conn.more # "first" THEN r.total ELSE l.tot
           i == IF r.recs = 0 THEN l.ids ELSE l.ids \cup {r.id}
<1>1. m = [l EXCEPT !.n = a, !.rows = b, !.flaw = f, !.tot = t, !.ids = i]
    BY DEF Tallied
<1>2. l.n \in Nat /\ l.rows \in Nat /\ l.tot \in Int /\ l.ids \in SUBSET Nat
    BY DEF LaneRecords
<1>3. r.recs \in 0..1 /\ r.total \in Nat /\ r.id \in Nat
    BY DEF AnswerRecords
<1>4. a \in Nat /\ b \in Nat /\ f \in BOOLEAN /\ t \in Int /\ i \in SUBSET Nat
    BY <1>2, <1>3
<1> HIDE DEF a, b, f, t, i
<1>5. /\ m \in LaneRecords /\ m.n = a /\ m.rows = b /\ m.flaw = f /\ m.tot = t /\ m.ids = i
      /\ m.st = l.st /\ m.at = l.at /\ m.seen = l.seen /\ m.solo = l.solo
    BY <1>1, <1>4 DEF LaneRecords
<1> QED BY <1>5 DEF a, b, f, t, i

\* What becomes of a lane that was answered: it fails, ends, or follows the continuation.
LEMMA JudgedStep ==
    ASSUME NEW l \in LaneRecords, NEW r \in AnswerRecords, NEW m, m = Judged(l, r)
    PROVE  /\ m \in LaneRecords
           /\ m.n = l.n + 1 /\ m.rows = l.rows + r.recs /\ m.flaw = (l.flaw \/ r.flaw)
           /\ m.tot = (IF l.n = 0 \/ conn.more # "first" THEN r.total ELSE l.tot)
           /\ m.ids = (IF r.recs = 0 THEN l.ids ELSE l.ids \cup {r.id})
           /\ m.solo = l.solo
           /\ \/ /\ m.st = "failed" /\ Inconsistent(l, r)
                 /\ m.at = l.at /\ m.seen = l.seen
              \/ /\ ~Inconsistent(l, r) /\ Ends(l, r)
                 /\ m.st = (IF m.flaw \/ (conn.short /\ m.tot > m.rows) THEN "failed" ELSE "done")
                 /\ m.at = l.at /\ m.seen = l.seen
              \/ /\ m.st = "failed" /\ ~Inconsistent(l, r) /\ ~Ends(l, r) /\ AtPageLimit(l)
                 /\ m.at = l.at /\ m.seen = l.seen
              \/ /\ m.st = l.st /\ ~Inconsistent(l, r) /\ ~Ends(l, r) /\ ~AtPageLimit(l)
                 /\ m.at = (IF Cursored THEN r.next ELSE m.n + 1)
                 /\ m.seen = l.seen \cup {r.next}
<1> DEFINE y == Tallied(l, r)
           w == IF y.flaw \/ (conn.short /\ y.tot > y.rows) THEN "failed" ELSE "done"
           x == IF Cursored THEN r.next ELSE y.n + 1
           s == y.seen \cup {r.next}
<1>1. /\ y \in LaneRecords
      /\ y.n = l.n + 1 /\ y.rows = l.rows + r.recs /\ y.flaw = (l.flaw \/ r.flaw)
      /\ y.tot = (IF l.n = 0 \/ conn.more # "first" THEN r.total ELSE l.tot)
      /\ y.ids = (IF r.recs = 0 THEN l.ids ELSE l.ids \cup {r.id})
      /\ y.st = l.st /\ y.at = l.at /\ y.seen = l.seen /\ y.solo = l.solo
    BY TallyStep
<1>2. m = (IF Inconsistent(l, r) THEN [y EXCEPT !.st = "failed"]
           ELSE IF Ends(l, r) THEN [y EXCEPT !.st = w]
           ELSE IF AtPageLimit(l) THEN [y EXCEPT !.st = "failed"]
           ELSE [y EXCEPT !.at = x, !.seen = s])
    BY DEF Judged
<1>3. l.n \in Nat /\ l.seen \in SUBSET Nat /\ r.next \in Nat
    BY DEF LaneRecords, AnswerRecords
<1>4. x \in Nat /\ s \in SUBSET Nat /\ s = l.seen \cup {r.next} /\ w \in {"failed", "done"}
    BY <1>1, <1>3
<1>5. w = (IF y.flaw \/ (conn.short /\ y.tot > y.rows) THEN "failed" ELSE "done")
      /\ x = (IF Cursored THEN r.next ELSE y.n + 1)
    OBVIOUS
<1> HIDE DEF y, w, x, s
<1>6. CASE Inconsistent(l, r)
    <2>1. m = [y EXCEPT !.st = "failed"]
        BY <1>2, <1>6
    <2>2. /\ m \in LaneRecords /\ m.st = "failed" /\ m.at = y.at /\ m.seen = y.seen /\ m.n = y.n
          /\ m.rows = y.rows /\ m.flaw = y.flaw /\ m.tot = y.tot /\ m.ids = y.ids
          /\ m.solo = y.solo
        BY <1>1, <2>1, LaneEnds
    <2> QED BY <1>1, <1>6, <2>2
<1>7. CASE ~Inconsistent(l, r) /\ Ends(l, r)
    <2>1. m = [y EXCEPT !.st = w]
        BY <1>2, <1>7
    <2>2. /\ m \in LaneRecords /\ m.st = w /\ m.at = y.at /\ m.seen = y.seen /\ m.n = y.n
          /\ m.rows = y.rows /\ m.flaw = y.flaw /\ m.tot = y.tot /\ m.ids = y.ids
          /\ m.solo = y.solo
        BY <1>1, <1>4, <2>1, LaneEnds
    <2> QED BY <1>1, <1>5, <1>7, <2>2
<1>8. CASE ~Inconsistent(l, r) /\ ~Ends(l, r) /\ AtPageLimit(l)
    <2>1. m = [y EXCEPT !.st = "failed"]
        BY <1>2, <1>8
    <2>2. /\ m \in LaneRecords /\ m.st = "failed" /\ m.at = y.at /\ m.seen = y.seen /\ m.n = y.n
          /\ m.rows = y.rows /\ m.flaw = y.flaw /\ m.tot = y.tot /\ m.ids = y.ids
          /\ m.solo = y.solo
        BY <1>1, <2>1, LaneEnds
    <2> QED BY <1>1, <1>8, <2>2
<1>9. CASE ~Inconsistent(l, r) /\ ~Ends(l, r) /\ ~AtPageLimit(l)
    <2>1. m = [y EXCEPT !.at = x, !.seen = s]
        BY <1>2, <1>9
    <2>2. /\ m \in LaneRecords /\ m.at = x /\ m.seen = s /\ m.st = y.st /\ m.n = y.n
          /\ m.rows = y.rows /\ m.flaw = y.flaw /\ m.tot = y.tot /\ m.ids = y.ids
          /\ m.solo = y.solo
        BY <1>1, <1>4, <2>1 DEF LaneRecords
    <2> QED BY <1>1, <1>4, <1>5, <1>9, <2>2
<1> QED BY <1>6, <1>7, <1>8, <1>9

\* Where an open lane stands with a provider that keeps to its listing.
LEMMA LaneOpen ==
    ASSUME PagedInv, NEW e \in Lanes, laneOf[e].st = "open", manner # "wild"
    PROVE  /\ laneOf[e].at = laneOf[e].n + 1 /\ laneOf[e].rows <= laneOf[e].n
           /\ laneOf[e].n < conn.pages
           /\ laneOf[e].n > 0 => laneOf[e].tot = listing[e]
           /\ laneOf[e].n = 0 => laneOf[e].tot = -1
           /\ (manner = "honest" \/ (manner = "lossy" /\ conn.hollow = "error")) =>
                laneOf[e].rows = laneOf[e].n /\ (laneOf[e].n > 0 => laneOf[e].n <= listing[e])
           /\ conn.more = "none" \/ laneOf[e].solo => listing[e] <= 1
           /\ laneOf[e].solo => conn.fallback = "denied"
<1> DEFINE l == laneOf[e]
<1>1. LaneBooks(e) /\ Heard(e) /\ Steady(e) /\ Listed /\ PagedTyped
    BY DEF PagedInv, LaneKept
<1>2. /\ Formed(conn) /\ listing[e] \in Nat /\ l \in LaneRecords /\ e \in Nat
      /\ conn.lanes \in Nat
    BY <1>1, LaneTypes
<1>3. l.n \in Nat /\ l.rows \in Nat
    BY <1>2 DEF LaneRecords
<1>4. /\ l.rows <= l.n /\ l.n < conn.pages /\ (l.n = 0 => l.tot = -1)
      /\ (l.solo => conn.fallback = "denied" /\ e > 1)
    BY <1>1 DEF LaneBooks
<1>5. /\ (\A i \in Nat : <<e, i>> \in kept => i <= listing[e] /\ i >= 1 /\ i <= l.n)
      /\ (l.n > 0 => l.tot = listing[e]) /\ l.at = l.n + 1
    BY <1>1 DEF Heard
<1>6. (manner = "honest" \/ (manner = "lossy" /\ conn.hollow = "error")) =>
          l.rows = l.n /\ (l.n > 0 => l.n <= listing[e])
    <2> SUFFICES ASSUME manner = "honest" \/ (manner = "lossy" /\ conn.hollow = "error")
                 PROVE  l.rows = l.n /\ (l.n > 0 => l.n <= listing[e])
        OBVIOUS
    <2>1. l.rows = l.n /\ \A i \in 1..l.n : <<e, i>> \in kept
        BY <1>1 DEF Steady
    <2>2. l.n > 0 => l.n \in 1..l.n
        BY <1>3
    <2> QED BY <1>3, <1>5, <2>1, <2>2
<1>7. conn.more = "none" \/ l.solo => listing[e] <= 1
    <2>1. CASE conn.more = "none"
        BY <1>1, <2>1 DEF Listed
    <2>2. CASE l.solo
        <3>1. conn.fallback = "denied" /\ e > 1 /\ conn.lanes = 2
            BY <1>2, <1>4, <2>2 DEF Formed
        <3>2. e = 2
            BY <1>2, <3>1 DEF Lanes
        <3> QED BY <1>1, <3>1, <3>2 DEF Listed
    <2> QED BY <2>1, <2>2
<1> QED BY <1>4, <1>5, <1>6, <1>7

\* A connector is told of another page when there is one, and only then, with what its way of
\* paging can tell.
LEMMA MoreTold ==
    ASSUME PagedInv, NEW e \in Lanes, laneOf[e].st = "open", manner # "wild",
           NEW r \in AnswerRecords, Told(e, r)
    PROVE  /\ manner = "honest" /\ More(laneOf[e], r) =>
                \/ laneOf[e].at < listing[e]
                \/ conn.more \in {"full", "rows"} /\ laneOf[e].at <= listing[e]
           /\ ~More(laneOf[e], r) =>
                listing[e] <= laneOf[e].at \/ (conn.more = "rows" /\ manner = "lossy")
           /\ conn.more \in {"count", "full"} /\ ~More(laneOf[e], r) =>
                laneOf[e].rows + r.recs >= listing[e]
<1> DEFINE l == laneOf[e]
           p == l.at
           L == listing[e]
<1>1. PagedTyped
    BY DEF PagedInv
<1>2. Formed(conn) /\ L \in Nat /\ l \in LaneRecords
    BY <1>1, LaneTypes
<1>3. l.n \in Nat /\ l.rows \in Nat /\ p \in Nat /\ r.recs \in 0..1 /\ r.total \in Nat
      /\ l.solo \in BOOLEAN /\ r.more \in BOOLEAN /\ r.full \in BOOLEAN
    BY <1>2 DEF LaneRecords, AnswerRecords
<1>4. /\ p = l.n + 1 /\ l.rows <= l.n /\ (l.n > 0 => l.tot = L)
      /\ (manner = "honest" => l.rows = l.n /\ (l.n > 0 => l.n <= L))
      /\ (conn.more = "none" \/ l.solo => L <= 1) /\ (l.solo => conn.fallback = "denied")
    BY LaneOpen
<1>5. /\ (r.recs = 1 => p <= L) /\ (manner = "honest" /\ r.recs = 0 => p > L)
      /\ (r.more <=> p < L) /\ r.total = L
      /\ (r.next # 0 => p < L \/ (conn.more = "rows" /\ p <= L))
      /\ (Cursored /\ p < L => r.next = p + 1)
      /\ (r.full => p < L \/ (conn.more = "full" /\ p <= L))
    BY DEF Told
<1>6. conn.more \in {"none", "flag", "flagcursor", "flagcount", "cursor", "count", "pages",
                     "first", "full", "rows"}
    BY <1>2 DEF Formed, ConnectorRecords
<1>7. conn.more = "cursor" => Cursored
    BY DEF Cursored
<1> DEFINE M == More(l, r)
<1>8. /\ conn.more = "none" \/ l.solo => ~M
      /\ conn.more \in {"flag", "flagcursor"} => (M <=> r.more)
      /\ conn.more = "cursor" /\ ~l.solo => (M <=> r.next # 0)
      /\ conn.more = "count" => (M <=> l.rows + r.recs < r.total)
      /\ conn.more = "flagcount" => (M <=> r.more /\ l.rows + r.recs < r.total)
      /\ conn.more = "pages" => (M <=> l.n + 1 < r.total)
      /\ conn.more = "first" => (M <=> l.n + 1 < (IF l.n = 0 THEN r.total ELSE l.tot))
      /\ conn.more = "full" => (M <=> l.rows + r.recs < r.total \/ r.full)
      /\ conn.more = "rows" => (M <=> r.recs # 0)
    BY <1>2, <1>4, MoreCases
<1> HIDE DEF M, l, p, L
<1>9. l.solo => conn.more = "cursor"
    BY <1>2, <1>4 DEF Formed
<1>10. manner = "honest" /\ M => p < L \/ (conn.more \in {"full", "rows"} /\ p <= L)
    <2> SUFFICES ASSUME manner = "honest", M
                 PROVE  p < L \/ (conn.more \in {"full", "rows"} /\ p <= L)
        OBVIOUS
    <2>1. CASE conn.more \in {"none", "flag", "flagcursor", "cursor"}
        BY <1>2, <1>3, <1>5, <1>8, <2>1
    <2>2. CASE conn.more \in {"count", "flagcount", "full"}
        BY <1>2, <1>3, <1>4, <1>5, <1>8, <2>2
    <2>3. CASE conn.more \in {"pages", "first", "rows"}
        BY <1>2, <1>3, <1>4, <1>5, <1>8, <2>3
    <2> QED BY <1>6, <2>1, <2>2, <2>3
<1>11. ~M => L <= p \/ (conn.more = "rows" /\ manner = "lossy")
    <2> SUFFICES ASSUME ~M PROVE L <= p \/ (conn.more = "rows" /\ manner = "lossy")
        OBVIOUS
    <2>0. L \in Nat /\ p \in Nat
        BY <1>2, <1>3 DEF L
    <2>1. CASE conn.more \in {"none", "flag", "flagcursor", "cursor"}
        BY <1>3, <1>4, <1>5, <1>7, <1>8, <2>0, <2>1
    <2>2. CASE conn.more \in {"count", "flagcount", "full"}
        BY <1>3, <1>4, <1>5, <1>8, <2>0, <2>2
    <2>3. CASE conn.more \in {"pages", "first"}
        BY <1>3, <1>4, <1>5, <1>8, <2>0, <2>3
    <2>4. CASE conn.more = "rows"
        <3>1. manner \in {"honest", "lossy"}
            BY <1>1 DEF PagedTyped
        <3> QED BY <1>3, <1>4, <1>5, <1>8, <2>0, <2>4, <3>1
    <2> QED BY <1>6, <2>1, <2>2, <2>3, <2>4
<1>12. conn.more \in {"count", "full"} /\ ~M => l.rows + r.recs >= L
    BY <1>2, <1>3, <1>5, <1>8 DEF L
<1> QED BY <1>10, <1>11, <1>12 DEF M, l, p, L

\* A provider that keeps to its protocol is found inconsistent only when its first page
\* announces more pages than the connector reads.
LEMMA InconsistentTold ==
    ASSUME PagedInv, NEW e \in Lanes, laneOf[e].st = "open", manner = "honest",
           NEW r \in AnswerRecords, Told(e, r), Inconsistent(laneOf[e], r)
    PROVE  Limited(e)
<1> DEFINE l == laneOf[e]
           p == l.at
           L == listing[e]
<1>1. PagedTyped /\ Faithful(e)
    BY DEF PagedInv, LaneKept
<1>2. Formed(conn) /\ L \in Nat /\ l \in LaneRecords
    BY <1>1, LaneTypes
<1>3. l.n \in Nat /\ p \in Nat /\ r.recs \in 0..1 /\ l.seen \in SUBSET Nat
    BY <1>2 DEF LaneRecords, AnswerRecords
<1>4. /\ p = l.n + 1 /\ l.rows = l.n /\ (l.n > 0 => l.tot = L /\ l.n <= L)
      /\ (l.n = 0 => l.tot = -1)
    BY LaneOpen
<1>5. /\ (r.recs = 1 => p <= L) /\ (r.recs = 0 => p > L) /\ r.total = L
      /\ (Cursored /\ (p < L \/ (conn.more = "rows" /\ p <= L)) => r.next = p + 1)
    BY DEF Told
<1>6. More(l, r) => p < L \/ (conn.more \in {"full", "rows"} /\ p <= L)
    BY MoreTold
<1>7. \A i \in l.seen : i <= l.n + 1
    BY <1>1 DEF Faithful
<1>8. conn.repeat = "last" => conn.more \in {"cursor", "flagcursor", "rows"}
    BY <1>2 DEF Formed
<1>9. \/ l.rows + r.recs > r.total
      \/ l.tot >= 0 /\ r.total # l.tot
      \/ r.recs = 0 /\ More(l, r)
      \/ conn.more = "first" /\ l.n = 0 /\ r.total > conn.pages
      \/ Cursored /\ More(l, r) /\ (r.next = 0 \/ CursorRepeated(l, r))
    BY DEF Inconsistent
<1>10. ASSUME Cursored, More(l, r) PROVE r.next # 0 /\ ~CursorRepeated(l, r)
    <2>1. r.next = p + 1
        BY <1>3, <1>5, <1>6, <1>8, <1>10 DEF Cursored
    <2>2. r.next \notin l.seen /\ r.next # 1 /\ r.next # p /\ r.next # 0
        BY <1>3, <1>4, <1>7, <2>1
    <2> QED BY <2>2 DEF CursorRepeated
<1>11. r.total > conn.pages => Limited(e)
    BY <1>5 DEF Limited
<1> HIDE DEF l, p, L
<1>12. ~(l.rows + r.recs > r.total) /\ ~(l.tot >= 0 /\ r.total # l.tot)
       /\ ~(r.recs = 0 /\ More(l, r))
    <2>1. L \in Nat
        BY <1>2
    <2> QED BY <1>3, <1>4, <1>5, <1>6, <2>1
<1> QED BY <1>9, <1>10, <1>11, <1>12

\* The steps of Accept that change the lane, in one place.
Taken(e, r) ==
    /\ Ready(e) /\ r \in PageAnswers(e) /\ ~r.gone /\ ~Refused(laneOf[e], r)
    /\ Commit(e, r) /\ Settle(e, Judged(laneOf[e], r)) /\ failed' = (failed \/ r.flaw)

\* What it leaves of the lane.
AfterPage(e, r) ==
    LET l == laneOf[e]
        m == laneOf'[e] IN
    /\ l.st = "open" /\ l \in LaneRecords /\ m \in LaneRecords
    /\ m.n = l.n + 1 /\ m.rows = l.rows + r.recs /\ m.flaw = (l.flaw \/ r.flaw)
    /\ m.tot = (IF l.n = 0 \/ conn.more # "first" THEN r.total ELSE l.tot)
    /\ m.ids = (IF r.recs = 0 THEN l.ids ELSE l.ids \cup {r.id})
    /\ m.solo = l.solo
    /\ \/ /\ m.st = "failed" /\ Inconsistent(l, r) /\ m.seen = l.seen
       \/ /\ ~Inconsistent(l, r) /\ Ends(l, r) /\ m.seen = l.seen
          /\ m.st = (IF m.flaw \/ (conn.short /\ m.tot > m.rows) THEN "failed" ELSE "done")
       \/ /\ m.st = "failed" /\ ~Inconsistent(l, r) /\ ~Ends(l, r) /\ AtPageLimit(l)
          /\ m.seen = l.seen
       \/ /\ m.st = "open" /\ ~Inconsistent(l, r) /\ More(l, r) /\ l.n + 1 < conn.pages
          /\ m.at = (IF Cursored THEN r.next ELSE l.n + 2)
          /\ m.seen = l.seen \cup {r.next}

LEMMA TakenStep ==
    ASSUME PagedInv, NEW e \in Lanes, NEW r, Taken(e, r)
    PROVE  /\ r \in AnswerRecords /\ (manner # "wild" => Told(e, r)) /\ AfterPage(e, r)
           /\ laneOf' \in [Lanes -> LaneRecords]
           /\ UNCHANGED <<conn, manner, listing>> /\ failed' = (failed \/ r.flaw)
           /\ \A d \in Lanes : d # e => laneOf'[d] = laneOf[d]
           /\ r.recs = 0 => kept' = kept
           /\ r.recs = 1 => kept' = kept \cup {<<e, r.id>>}
<1> DEFINE l == laneOf[e]
           m == Judged(l, r)
<1>1. PagedTyped
    BY DEF PagedInv
<1>2. /\ l.st = "open" /\ r \in PageAnswers(e) /\ laneOf' = [laneOf EXCEPT ![e] = m]
      /\ UNCHANGED <<conn, manner, listing>> /\ failed' = (failed \/ r.flaw)
      /\ kept' = (IF r.recs = 0 THEN kept ELSE kept \cup {<<e, r.id>>})
    BY DEF Taken, Ready, Settle, Commit
<1>3. r \in AnswerRecords /\ (manner # "wild" => Told(e, r))
    BY <1>1, <1>2, AnswersTold
<1>4. l \in LaneRecords /\ conn.pages \in Nat
    BY <1>1, LaneTypes
<1>5. laneOf \in [Lanes -> LaneRecords]
    BY <1>1 DEF PagedTyped
<1>6. l.n \in Nat
    BY <1>4 DEF LaneRecords
<1>7. /\ m \in LaneRecords
      /\ m.n = l.n + 1 /\ m.rows = l.rows + r.recs /\ m.flaw = (l.flaw \/ r.flaw)
      /\ m.tot = (IF l.n = 0 \/ conn.more # "first" THEN r.total ELSE l.tot)
      /\ m.ids = (IF r.recs = 0 THEN l.ids ELSE l.ids \cup {r.id})
      /\ m.solo = l.solo
      /\ \/ /\ m.st = "failed" /\ Inconsistent(l, r)
            /\ m.at = l.at /\ m.seen = l.seen
         \/ /\ ~Inconsistent(l, r) /\ Ends(l, r)
            /\ m.st = (IF m.flaw \/ (conn.short /\ m.tot > m.rows) THEN "failed" ELSE "done")
            /\ m.at = l.at /\ m.seen = l.seen
         \/ /\ m.st = "failed" /\ ~Inconsistent(l, r) /\ ~Ends(l, r) /\ AtPageLimit(l)
            /\ m.at = l.at /\ m.seen = l.seen
         \/ /\ m.st = l.st /\ ~Inconsistent(l, r) /\ ~Ends(l, r) /\ ~AtPageLimit(l)
            /\ m.at = (IF Cursored THEN r.next ELSE m.n + 1)
            /\ m.seen = l.seen \cup {r.next}
    BY <1>3, <1>4, JudgedStep
<1> HIDE DEF m, l
<1>8. laneOf'[e] = m /\ laneOf' \in [Lanes -> LaneRecords]
      /\ \A d \in Lanes : d # e => laneOf'[d] = laneOf[d]
    BY <1>2, <1>5, <1>7
<1>9. ~Ends(l, r) /\ ~AtPageLimit(l) => More(l, r) /\ l.n + 1 < conn.pages
    BY <1>4, <1>6 DEF Ends, AtPageLimit
<1>10. l.n + 1 + 1 = l.n + 2
    BY <1>6
<1>11. AfterPage(e, r)
    BY <1>2, <1>4, <1>7, <1>8, <1>9, <1>10 DEF AfterPage, l
<1> QED BY <1>2, <1>3, <1>8, <1>11

\* A lane that did not move keeps what it has.
LEMMA OtherLane ==
    ASSUME NEW d \in Lanes, laneOf'[d] = laneOf[d], UNCHANGED <<conn, manner, listing>>,
           failed => failed', \A i \in Nat : <<d, i>> \in kept' <=> <<d, i>> \in kept,
           listing[d] \in Nat, LaneKept(d)
    PROVE  LaneKept(d)'
<1>1. Got(d)' = Got(d)
    BY DEF Got
<1>2. LaneBooks(d)'
    BY DEF LaneKept, LaneBooks, Cursored
<1>3. Heard(d)'
    <2>1. Cardinality(Got(d)') = Cardinality(Got(d))
        BY <1>1
    <2> QED BY <2>1 DEF LaneKept, Heard
<1>4. \A i \in 1..listing[d] : i \in Nat
    OBVIOUS
<1>5. Missing(d, listing[d])' = Missing(d, listing[d])
      /\ Missing(d, listing[d] - 1)' = Missing(d, listing[d] - 1)
    BY DEF Missing
<1>6. WholeLane(d)'
    BY <1>5 DEF LaneKept, WholeLane
<1>7. Steady(d)'
    <2>1. \A i \in 1..laneOf[d].n : i \in Nat
        OBVIOUS
    <2> QED BY <2>1 DEF LaneKept, Steady
<1>8. Faithful(d)'
    BY DEF LaneKept, Faithful, Limited, EndUnseen
<1> QED BY <1>2, <1>3, <1>6, <1>7, <1>8 DEF LaneKept

LEMMA TakenBooks ==
    ASSUME PagedInv, NEW e \in Lanes, NEW r, Taken(e, r)
    PROVE  LaneBooks(e)'
<1> DEFINE l == laneOf[e]
           m == laneOf'[e]
<1>1. PagedTyped /\ LaneBooks(e)
    BY DEF PagedInv, LaneKept
<1>2. r \in AnswerRecords /\ AfterPage(e, r) /\ conn' = conn /\ failed' = (failed \/ r.flaw)
    BY TakenStep
<1>3. conn.pages \in Nat /\ l \in LaneRecords
    BY <1>1, LaneTypes
<1>4. l.n \in Nat /\ l.rows \in Nat /\ r.recs \in 0..1 /\ r.flaw \in BOOLEAN /\ l.flaw \in BOOLEAN
      /\ failed \in BOOLEAN /\ l.solo \in BOOLEAN
    BY <1>1, <1>2, <1>3 DEF LaneRecords, AnswerRecords, PagedTyped
<1>5. /\ l.rows <= l.n /\ l.n < conn.pages /\ (l.flaw => failed)
      /\ (l.solo => conn.fallback = "denied" /\ e > 1)
    BY <1>1, <1>2 DEF LaneBooks, AfterPage
<1>6. m.n = l.n + 1 /\ m.rows = l.rows + r.recs /\ m.flaw = (l.flaw \/ r.flaw) /\ m.solo = l.solo
    BY <1>2 DEF AfterPage
<1>7. /\ m.st \in {"open", "failed", "done"}
      /\ m.st = "open" => /\ l.n + 1 < conn.pages
                          /\ (Cursored => m.at = r.next) /\ r.next \in m.seen
    BY <1>2 DEF AfterPage
<1> HIDE DEF l, m
<1>8. m.n <= conn.pages /\ m.rows <= m.n /\ (m.st = "open" => m.n < conn.pages) /\ m.n # 0
    BY <1>3, <1>4, <1>5, <1>6, <1>7
<1>9. m.flaw => failed'
    BY <1>2, <1>4, <1>5, <1>6
<1>10. Cursored' = Cursored
    BY <1>2 DEF Cursored
<1> QED BY <1>2, <1>5, <1>6, <1>7, <1>8, <1>9, <1>10 DEF LaneBooks, m

\* The pages that are kept are those of the listing that came with rows.
LEMMA TakenHeard ==
    ASSUME PagedInv, NEW e \in Lanes, NEW r, Taken(e, r)
    PROVE  Heard(e)'
<1> DEFINE l == laneOf[e]
           m == laneOf'[e]
           p == l.at
           L == listing[e]
<1>1. PagedTyped /\ LaneBooks(e) /\ Heard(e)
    BY DEF PagedInv, LaneKept
<1>2. /\ r \in AnswerRecords /\ (manner # "wild" => Told(e, r)) /\ AfterPage(e, r)
      /\ UNCHANGED <<conn, manner, listing>>
      /\ (r.recs = 0 => kept' = kept) /\ (r.recs = 1 => kept' = kept \cup {<<e, r.id>>})
    BY TakenStep
<1> SUFFICES ASSUME manner # "wild" PROVE Heard(e)'
    BY <1>2 DEF Heard
<1>3. Formed(conn) /\ L \in Nat /\ l \in LaneRecords
    BY <1>1, LaneTypes
<1>4. l.n \in Nat /\ l.rows \in Nat /\ p \in Nat /\ r.recs \in 0..1
    BY <1>2, <1>3 DEF LaneRecords, AnswerRecords
<1>5. l.st = "open" /\ m.n = l.n + 1 /\ m.rows = l.rows + r.recs
      /\ m.tot = (IF l.n = 0 \/ conn.more # "first" THEN r.total ELSE l.tot)
    BY <1>2 DEF AfterPage
<1>6. p = l.n + 1 /\ (l.n > 0 => l.tot = L) /\ l.rows = Cardinality(Got(e))
      /\ (\A i \in Nat : <<e, i>> \in kept => i <= L /\ i >= 1 /\ i <= l.n)
    BY <1>1, <1>5 DEF Heard
<1>7. /\ r.id = p /\ (r.recs = 1 => p <= L) /\ r.total = L
      /\ (r.next # 0 => r.next = p + 1)
    BY <1>2 DEF Told
<1>8. m.st = "open" => m.at = m.n + 1
    <2> SUFFICES ASSUME m.st = "open" PROVE m.at = m.n + 1
        OBVIOUS
    <2>1. ~Inconsistent(l, r) /\ More(l, r) /\ m.at = (IF Cursored THEN r.next ELSE l.n + 2)
        BY <1>2 DEF AfterPage
    <2>2. Cursored => r.next # 0
        BY <2>1 DEF Inconsistent
    <2> HIDE DEF l, m, p
    <2> QED BY <1>4, <1>5, <1>6, <1>7, <2>1, <2>2
<1>9. m.tot = L
    BY <1>4, <1>5, <1>6, <1>7
<1> HIDE DEF l, m, p
<1>10. \A i \in Nat : <<e, i>> \in kept' => i <= L /\ i >= 1 /\ i <= m.n
    <2> SUFFICES ASSUME NEW i \in Nat, <<e, i>> \in kept' PROVE i <= L /\ i >= 1 /\ i <= m.n
        OBVIOUS
    <2>1. <<e, i>> \in kept \/ (r.recs = 1 /\ i = p)
        BY <1>2, <1>4, <1>7
    <2> QED BY <1>3, <1>4, <1>5, <1>6, <1>7, <2>1
<1>11. m.rows = Cardinality(Got(e)')
    <2>1. Got(e)' = {i \in 1..L : <<e, i>> \in kept'}
        BY <1>2 DEF Got
    <2>2. CASE r.recs = 0
        <3>1. Got(e)' = Got(e)
            BY <1>2, <2>1, <2>2 DEF Got
        <3>2. Cardinality(Got(e)') = Cardinality(Got(e))
            BY <3>1
        <3> QED BY <1>4, <1>5, <1>6, <2>2, <3>2
    <2>3. CASE r.recs = 1
        <3>1. Got(e)' = Got(e) \cup {p} /\ p \notin Got(e)
            <4>1. p \in 1..L /\ <<e, p>> \notin kept
                BY <1>3, <1>4, <1>6, <1>7, <2>3
            <4> QED BY <1>2, <1>7, <2>1, <2>3, <4>1 DEF Got
        <3>2. IsFiniteSet(Got(e))
            <4>1. IsFiniteSet(1..L)
                BY <1>3, FS_Interval
            <4> QED BY <4>1, FS_Subset DEF Got
        <3>3. Cardinality(Got(e) \cup {p}) = Cardinality(Got(e)) + 1
            BY <3>1, <3>2, FS_AddElement
        <3>4. Cardinality(Got(e)') = Cardinality(Got(e) \cup {p})
            BY <3>1
        <3> QED BY <1>5, <1>6, <2>3, <3>3, <3>4
    <2> QED BY <1>4, <2>2, <2>3
<1> QED BY <1>2, <1>8, <1>9, <1>10, <1>11 DEF Heard, m

\* A lane goes on past a page only if the page was there.
LEMMA TakenSteady ==
    ASSUME PagedInv, NEW e \in Lanes, NEW r, Taken(e, r)
    PROVE  Steady(e)'
<1> DEFINE l == laneOf[e]
           m == laneOf'[e]
           p == l.at
           L == listing[e]
<1>1. PagedTyped /\ Steady(e)
    BY DEF PagedInv, LaneKept
<1>2. /\ r \in AnswerRecords /\ (manner # "wild" => Told(e, r)) /\ AfterPage(e, r)
      /\ UNCHANGED <<conn, manner, listing>>
      /\ (r.recs = 1 => kept' = kept \cup {<<e, r.id>>})
    BY TakenStep
<1> SUFFICES ASSUME manner = "honest" \/ (manner = "lossy" /\ conn.hollow = "error"),
                    m.st = "open"
             PROVE  m.rows = m.n /\ \A i \in 1..m.n : <<e, i>> \in kept'
    BY <1>2 DEF Steady
<1>3. L \in Nat /\ l \in LaneRecords
    BY <1>1, LaneTypes
<1>4. l.n \in Nat /\ l.rows \in Nat /\ p \in Nat /\ r.recs \in 0..1
    BY <1>2, <1>3 DEF LaneRecords, AnswerRecords
<1>5. /\ l.st = "open" /\ m.n = l.n + 1 /\ m.rows = l.rows + r.recs
      /\ ~Inconsistent(l, r) /\ More(l, r)
    BY <1>2 DEF AfterPage
<1>6. p = l.n + 1 /\ l.rows = l.n
    BY <1>5, LaneOpen
<1>7. \A i \in 1..l.n : <<e, i>> \in kept
    BY <1>1, <1>5 DEF Steady
<1>8. Told(e, r) /\ r.id = p
    BY <1>2 DEF Told
<1>9. r.recs = 1
    <2>1. CASE manner = "honest"
        <3>1. p <= L
            BY <1>2, <1>3, <1>4, <1>5, <1>8, <2>1, MoreTold
        <3>2. r.recs = 0 => p > L
            BY <1>8, <2>1 DEF Told
        <3> HIDE DEF p, L
        <3> QED BY <1>3, <1>4, <3>1, <3>2 DEF L
    <2>2. CASE manner = "lossy" /\ conn.hollow = "error"
        <3>1. r.recs # 0
            BY <1>5, <2>2 DEF Inconsistent
        <3> QED BY <1>4, <3>1
    <2> QED BY <2>1, <2>2
<1> HIDE DEF l, m, p
<1>10. \A i \in 1..m.n : i \in 1..l.n \/ i = p
    BY <1>4, <1>5, <1>6
<1> QED BY <1>2, <1>4, <1>5, <1>6, <1>7, <1>8, <1>9, <1>10

\* Only the limit of pages fails a lane of a provider that keeps to its protocol.
LEMMA TakenFaithful ==
    ASSUME PagedInv, NEW e \in Lanes, NEW r, Taken(e, r)
    PROVE  Faithful(e)'
<1> DEFINE l == laneOf[e]
           m == laneOf'[e]
           p == l.at
           L == listing[e]
<1>1. PagedTyped /\ LaneBooks(e) /\ Faithful(e)
    BY DEF PagedInv, LaneKept
<1>2. /\ r \in AnswerRecords /\ (manner # "wild" => Told(e, r)) /\ AfterPage(e, r)
      /\ UNCHANGED <<conn, manner, listing>> /\ failed' = (failed \/ r.flaw)
    BY TakenStep
<1> SUFFICES ASSUME manner = "honest"
             PROVE  /\ \A i \in m.ids : i <= m.n
                    /\ \A i \in m.seen : i <= m.n + 1
                    /\ m.st = "open" /\ conn.late /\ m.n > 0 => m.n < L
                    /\ m.st \in Bad /\ ~failed' => Limited(e)
    BY <1>2 DEF Faithful, Limited, EndUnseen
<1>3. Formed(conn) /\ L \in Nat /\ l \in LaneRecords /\ conn.pages \in Nat
    BY <1>1, LaneTypes
<1>4. /\ l.n \in Nat /\ l.rows \in Nat /\ p \in Nat /\ r.recs \in 0..1 /\ l.ids \in SUBSET Nat
      /\ l.seen \in SUBSET Nat /\ r.flaw \in BOOLEAN /\ l.flaw \in BOOLEAN /\ failed \in BOOLEAN
      /\ conn.late \in BOOLEAN /\ conn.short \in BOOLEAN
    BY <1>1, <1>2, <1>3 DEF LaneRecords, AnswerRecords, PagedTyped, Formed, ConnectorRecords
<1>5. /\ l.st = "open" /\ m.n = l.n + 1 /\ m.rows = l.rows + r.recs
      /\ m.flaw = (l.flaw \/ r.flaw)
      /\ m.tot = (IF l.n = 0 \/ conn.more # "first" THEN r.total ELSE l.tot)
      /\ m.ids = (IF r.recs = 0 THEN l.ids ELSE l.ids \cup {r.id})
    BY <1>2 DEF AfterPage
<1>6. /\ p = l.n + 1 /\ l.rows = l.n /\ (l.n > 0 => l.n <= L /\ l.tot = L)
    BY <1>5, LaneOpen
<1>7. /\ Told(e, r) /\ r.id = p /\ (r.recs = 1 => p <= L) /\ (r.recs = 0 => p > L)
      /\ r.total = L /\ (r.next # 0 => r.next = p + 1)
    BY <1>2 DEF Told
<1>8. /\ (More(l, r) => p < L \/ (conn.more \in {"full", "rows"} /\ p <= L))
      /\ (~More(l, r) => L <= p)
    BY <1>2, <1>5, <1>7, MoreTold
<1>9. /\ (\A i \in l.ids : i <= l.n) /\ (\A i \in l.seen : i <= l.n + 1)
      /\ (conn.late /\ l.n > 0 => l.n < L)
    BY <1>1, <1>5 DEF Faithful
<1>10. conn.late => conn.more = "cursor" /\ conn.pages \in Nat /\ conn.pages > 1
    BY <1>3, PagedAssumption DEF Formed
<1>11. conn.hollow = "end" => conn.more = "pages"
    BY <1>3 DEF Formed
<1>12. l.flaw => failed
    BY <1>1 DEF LaneBooks
<1>13. Inconsistent(l, r) => Limited(e)
    BY <1>2, <1>5, <1>7, InconsistentTold
<1>14. Ends(l, r) => L <= p
    BY <1>3, <1>4, <1>7, <1>8, <1>11 DEF Ends
<1>15. ~Ends(l, r) /\ AtPageLimit(l) => Limited(e)
    <2> SUFFICES ASSUME ~Ends(l, r), AtPageLimit(l) PROVE Limited(e)
        OBVIOUS
    <2>1. p >= conn.pages
        BY <1>3, <1>4, <1>6 DEF AtPageLimit
    <2>2. More(l, r) \/ conn.late
        BY DEF Ends
    <2>3. CASE conn.late
        <3>1. l.n > 0
            BY <1>3, <1>4, <1>6, <1>10, <2>1, <2>3
        <3>2. L >= conn.pages
            BY <1>3, <1>4, <1>6, <1>9, <2>1, <2>3, <3>1
        <3> QED BY <2>3, <3>2 DEF Limited, EndUnseen
    <2>4. CASE More(l, r)
        <3>1. CASE p < L
            <4>1. L > conn.pages
                BY <1>3, <1>4, <2>1, <3>1
            <4> QED BY <4>1 DEF Limited
        <3>2. CASE conn.more \in {"full", "rows"} /\ p <= L
            <4>1. L >= conn.pages
                BY <1>3, <1>4, <2>1, <3>2
            <4> QED BY <3>2, <4>1 DEF Limited, EndUnseen
        <3> QED BY <1>8, <2>4, <3>1, <3>2
    <2> QED BY <2>2, <2>3, <2>4
<1>16. /\ \/ m.st = "failed" /\ Inconsistent(l, r) /\ m.seen = l.seen
          \/ /\ Ends(l, r) /\ m.seen = l.seen
             /\ m.st = (IF m.flaw \/ (conn.short /\ m.tot > m.rows) THEN "failed" ELSE "done")
          \/ m.st = "failed" /\ ~Ends(l, r) /\ AtPageLimit(l) /\ m.seen = l.seen
          \/ m.st = "open" /\ More(l, r) /\ m.seen = l.seen \cup {r.next}
    BY <1>2 DEF AfterPage
<1> HIDE DEF l, m, p, L
<1>17. \A i \in m.ids : i <= m.n
    BY <1>4, <1>5, <1>6, <1>7, <1>9
<1>18. \A i \in m.seen : i <= m.n + 1
    <2>1. r.next = 0 \/ r.next = p + 1
        BY <1>7
    <2>2. \A i \in m.seen : i \in l.seen \/ i = r.next
        BY <1>16
    <2> QED BY <1>4, <1>5, <1>6, <1>9, <2>1, <2>2
<1>19. m.st = "open" /\ conn.late => m.n < L
    <2> SUFFICES ASSUME m.st = "open", conn.late PROVE m.n < L
        OBVIOUS
    <2>1. More(l, r)
        BY <1>16
    <2> QED BY <1>5, <1>6, <1>8, <1>10, <2>1
<1>20. m.st \in Bad /\ ~failed' => Limited(e)
    <2> SUFFICES ASSUME m.st \in Bad, ~failed' PROVE Limited(e)
        OBVIOUS
    <2>1. CASE Inconsistent(l, r)
        BY <1>13, <2>1
    <2>2. CASE ~Ends(l, r) /\ AtPageLimit(l)
        BY <1>15, <2>2
    <2>3. CASE Ends(l, r) /\ m.st = (IF m.flaw \/ (conn.short /\ m.tot > m.rows) THEN "failed" ELSE "done")
        <3>1. ~m.flaw
            BY <1>2, <1>4, <1>5, <1>12
        <3>2. m.tot > m.rows
            BY <2>3, <3>1 DEF Bad
        <3>3. m.tot = L /\ L <= p /\ L \in Nat
            BY <1>3, <1>4, <1>5, <1>6, <1>7, <1>14, <2>3 DEF L
        <3> QED BY <1>4, <1>5, <1>6, <1>7, <3>2, <3>3
    <2> QED BY <1>16, <2>1, <2>2, <2>3 DEF Bad
<1> QED BY <1>17, <1>18, <1>19, <1>20

\* A lane ends well only past the last page; where pages come empty, an end that is counted
\* or checked leaves no hole that it should have seen.
LEMMA TakenWhole ==
    ASSUME PagedInv, NEW e \in Lanes, NEW r, Taken(e, r)
    PROVE  WholeLane(e)'
<1> DEFINE l == laneOf[e]
           m == laneOf'[e]
           p == l.at
           L == listing[e]
<1>1. PagedTyped /\ Heard(e) /\ Steady(e)
    BY DEF PagedInv, LaneKept
<1>2. /\ r \in AnswerRecords /\ (manner # "wild" => Told(e, r)) /\ AfterPage(e, r)
      /\ UNCHANGED <<conn, manner, listing>>
      /\ (r.recs = 0 => kept' = kept) /\ (r.recs = 1 => kept' = kept \cup {<<e, r.id>>})
    BY TakenStep
<1> DEFINE Checked == manner = "lossy" /\ conn.hollow = "error"
           Summed == manner = "lossy" /\ (conn.short \/ conn.more \in {"count", "full"})
<1> SUFFICES ASSUME m.st = "done", manner # "wild"
             PROVE  /\ manner = "honest" => \A i \in 1..L : <<e, i>> \in kept'
                    /\ Checked => \A i \in 1..(L - 1) : <<e, i>> \in kept'
                    /\ Summed => \A i \in 1..L : <<e, i>> \in kept'
    BY <1>2 DEF WholeLane, Missing
<1>3. Formed(conn) /\ L \in Nat /\ l \in LaneRecords
    BY <1>1, LaneTypes
<1>4. /\ l.n \in Nat /\ l.rows \in Nat /\ p \in Nat /\ r.recs \in 0..1 /\ r.flaw \in BOOLEAN
      /\ l.flaw \in BOOLEAN /\ conn.short \in BOOLEAN
    BY <1>2, <1>3 DEF LaneRecords, AnswerRecords, Formed, ConnectorRecords
<1>5. /\ l.st = "open" /\ m.n = l.n + 1 /\ m.rows = l.rows + r.recs /\ Ends(l, r)
      /\ m.tot = (IF l.n = 0 \/ conn.more # "first" THEN r.total ELSE l.tot)
      /\ ~(conn.short /\ m.tot > m.rows)
    BY <1>2 DEF AfterPage
<1>6. /\ p = l.n + 1 /\ (l.n > 0 => l.tot = L)
    BY <1>5, LaneOpen
<1>7. /\ Told(e, r) /\ r.id = p /\ (r.recs = 1 => p <= L) /\ r.total = L
      /\ (manner = "honest" /\ r.recs = 0 => p > L)
    BY <1>2 DEF Told
<1>8. /\ (~More(l, r) => L <= p \/ (conn.more = "rows" /\ manner = "lossy"))
      /\ (conn.more \in {"count", "full"} /\ ~More(l, r) => l.rows + r.recs >= L)
    BY <1>2, <1>5, <1>7, MoreTold
<1>9. /\ (conn.hollow = "end" => conn.more = "pages") /\ (conn.more = "rows" => conn.hollow # "error")
    BY <1>3 DEF Formed
<1>10. ~More(l, r) \/ (conn.hollow = "end" /\ r.recs = 0)
    BY <1>5 DEF Ends
<1>11. manner = "honest" \/ Checked => \A i \in 1..l.n : <<e, i>> \in kept
    BY <1>1, <1>5 DEF Steady
<1> DEFINE M == More(l, r)
<1> HIDE DEF l, m, p, L, M
<1>12. L \in Nat
    BY <1>3 DEF L
<1>13. ASSUME manner = "honest", NEW i \in 1..L PROVE <<e, i>> \in kept'
    <2>1. L <= p
        BY <1>4, <1>7, <1>8, <1>9, <1>10, <1>12, <1>13 DEF M
    <2>2. CASE i \in 1..l.n
        BY <1>2, <1>4, <1>11, <1>13, <2>2
    <2>3. CASE i \notin 1..l.n
        <3>1. i = p /\ p <= L
            BY <1>4, <1>6, <1>12, <2>1, <2>3
        <3>2. r.recs = 1
            BY <1>4, <1>7, <1>12, <1>13, <3>1
        <3> QED BY <1>2, <1>7, <3>1, <3>2
    <2> QED BY <2>2, <2>3
<1>14. ASSUME Checked, NEW i \in 1..(L - 1) PROVE <<e, i>> \in kept'
    <2>1. L <= p
        BY <1>8, <1>9, <1>10, <1>14 DEF M
    <2>2. i \in 1..l.n
        BY <1>4, <1>6, <1>12, <2>1
    <2> QED BY <1>2, <1>4, <1>11, <1>14, <2>2
<1>15. ASSUME Summed, NEW i \in 1..L PROVE <<e, i>> \in kept'
    <2>1. m.rows >= L
        <3>1. CASE conn.short
            BY <1>4, <1>5, <1>6, <1>7, <1>12, <3>1
        <3>2. CASE conn.more \in {"count", "full"}
            BY <1>5, <1>8, <1>9, <1>10, <3>2 DEF M
        <3> QED BY <1>15, <3>1, <3>2
    <2>2. Heard(e)'
        BY TakenHeard
    <2>3. Got(e)' = {j \in 1..L : <<e, j>> \in kept'} /\ m.rows = Cardinality(Got(e)')
        BY <1>2, <2>2 DEF Heard, Got, m, L
    <2>4. IsFiniteSet(1..L) /\ Cardinality(1..L) = L
        BY <1>12, FS_Interval
    <2> DEFINE G == Got(e)'
    <2>5. G \subseteq 1..L /\ m.rows = Cardinality(G)
        BY <2>3
    <2> HIDE DEF G
    <2>6. Cardinality(G) \in Nat /\ Cardinality(G) <= L /\ (Cardinality(G) = L => G = 1..L)
        BY <2>4, <2>5, FS_Subset, FS_CardinalityType
    <2>7. G = 1..L
        BY <1>12, <2>1, <2>5, <2>6
    <2>8. i \in Got(e)'
        BY <2>7 DEF G
    <2> QED BY <2>3, <2>8
<1> QED BY <1>13, <1>14, <1>15

\* A failure that is reported is that of a lane, or no index knew the domain.
LEMMA OutcomeEarned ==
    ASSUME UNCHANGED <<conn, manner, listing>>, \A e \in Lanes : LaneKept(e)', Formed(conn),
           conn.lanes \in Nat \ {0}, out' = LaneOutcome(laneOf')
    PROVE  NoFalseAlarm' /\ out' \in {"run", "ok", "error"}
<1> DEFINE N == Needed(laneOf')
           ends == {laneOf'[e].st : e \in N}
<1>1. out' = (IF ends \cap Bad # {} /\ (~conn.spare \/ "open" \notin ends) THEN "error"
              ELSE IF "open" \in ends THEN "run"
              ELSE IF ends = {"gone"} THEN "error" ELSE "ok")
    BY DEF LaneOutcome
<1>2. N \subseteq Lanes
    <2>1. 1 \in Lanes
        BY DEF Lanes
    <2> QED BY <2>1 DEF Needed
<1>3. NoFalseAlarm'
    <2> SUFFICES ASSUME out' = "error", manner = "honest", ~failed'
                 PROVE  (\E e \in Lanes : Limited(e)) \/ \A e \in Lanes : laneOf'[e].st = "gone"
        BY DEF NoFalseAlarm, Limited, EndUnseen, Lanes
    <2>1. CASE ends \cap Bad # {}
        <3>1. PICK e \in N : laneOf'[e].st \in Bad
            BY <2>1
        <3>2. e \in Lanes /\ Faithful(e)'
            BY <1>2, <3>1 DEF LaneKept
        <3>3. Limited(e)'
            BY <3>1, <3>2 DEF Faithful
        <3>4. Limited(e)
            BY <3>3 DEF Limited, EndUnseen
        <3> QED BY <3>2, <3>4
    <2>2. CASE ends = {"gone"}
        <3>1. PICK e \in N : laneOf'[e].st = "gone"
            BY <2>2
        <3>2. conn.more = "rows" /\ conn.spare
            BY <1>2, <3>1 DEF LaneKept, LaneBooks
        <3>3. N = Lanes
            BY <3>2 DEF Formed, Needed
        <3>4. \A d \in Lanes : laneOf'[d].st \in ends
            BY <3>3
        <3> QED BY <2>2, <3>4
    <2> HIDE DEF N, ends
    <2> QED BY <1>1, <2>1, <2>2
<1> QED BY <1>1, <1>3

\* A step of one lane keeps the invariant when it keeps what is said of that lane.
LEMMA SettleKeeps ==
    ASSUME PagedInv, NEW e \in Lanes, NEW m \in LaneRecords, Settle(e, m), LaneKept(e)',
           failed => failed', failed' \in BOOLEAN, again' \in BOOLEAN, stuck' \in BOOLEAN,
           kept' \subseteq Lanes \X Nat, accepted' \subseteq Lanes \X Nat,
           \A d \in Lanes : d # e => \A i \in Nat : <<d, i>> \in kept' <=> <<d, i>> \in kept,
           PagesKept', NoRefetch'
    PROVE  PagedInv'
<1>1. PagedTyped /\ Listed /\ \A d \in Lanes : LaneKept(d)
    BY DEF PagedInv
<1>2. /\ laneOf' = [laneOf EXCEPT ![e] = m] /\ out' = LaneOutcome(laneOf')
      /\ UNCHANGED <<conn, manner, listing>>
    BY DEF Settle
<1>3. laneOf' \in [Lanes -> LaneRecords] /\ \A d \in Lanes : d # e => laneOf'[d] = laneOf[d]
    BY <1>1, <1>2 DEF PagedTyped
<1>4. \A d \in Lanes : LaneKept(d)'
    <2> SUFFICES ASSUME NEW d \in Lanes, d # e PROVE LaneKept(d)'
        OBVIOUS
    <2>1. listing[d] \in Nat /\ LaneKept(d)
        BY <1>1 DEF PagedTyped
    <2> QED BY <1>2, <1>3, <2>1, OtherLane
<1>5. Formed(conn) /\ conn.lanes \in Nat \ {0}
    BY <1>1, LaneTypes
<1>6. NoFalseAlarm' /\ out' \in {"run", "ok", "error"}
    BY <1>2, <1>4, <1>5, OutcomeEarned
<1>7. Lanes' = Lanes
    BY <1>2 DEF Lanes
<1>8. PagedTyped'
    BY <1>1, <1>2, <1>3, <1>6, <1>7 DEF PagedTyped
<1>9. Listed'
    BY <1>1, <1>2, <1>7 DEF Listed
<1> QED BY <1>4, <1>6, <1>7, <1>8, <1>9 DEF PagedInv

LEMMA AcceptKeeps ==
    ASSUME PagedInv, NEW e \in Lanes, Accept(e)
    PROVE  PagedInv'
<1> DEFINE l == laneOf[e]
<1>1. PICK r \in PageAnswers(e) :
        /\ ~r.gone /\ ~Refused(l, r) /\ Commit(e, r) /\ Settle(e, Judged(l, r))
        /\ accepted' = IF r.recs = 0 \/ Inconsistent(l, r) THEN accepted
                       ELSE accepted \cup {<<e, r.id>>}
        /\ failed' = (failed \/ r.flaw)
        /\ again' = (again \/ (Cursored /\ Judged(l, r).st = "open" /\ r.next \in l.seen))
        /\ stuck' = (stuck \/ (Cursored /\ Judged(l, r).st = "open" /\ l.n > 0 /\ r.next = l.at))
    BY DEF Accept
<1>2. Taken(e, r)
    BY <1>1 DEF Taken, Accept
<1>3. PagedTyped /\ LaneBooks(e) /\ PagesKept /\ NoRefetch
    BY DEF PagedInv, LaneKept
<1>4. /\ r \in AnswerRecords /\ AfterPage(e, r)
      /\ (r.recs = 0 => kept' = kept) /\ (r.recs = 1 => kept' = kept \cup {<<e, r.id>>})
      /\ conn' = conn
    BY <1>2, TakenStep
<1>5. LaneKept(e)'
    BY <1>2, TakenBooks, TakenHeard, TakenSteady, TakenFaithful, TakenWhole DEF LaneKept
<1>6. Formed(conn) /\ l \in LaneRecords
    BY <1>3, LaneTypes
<1>7. r.recs \in 0..1 /\ r.id \in Nat /\ r.flaw \in BOOLEAN /\ r.next \in Nat /\ l.n \in Nat
    BY <1>4, <1>6 DEF AnswerRecords, LaneRecords
<1>8. /\ failed \in BOOLEAN /\ again \in BOOLEAN /\ stuck \in BOOLEAN
      /\ kept \subseteq Lanes \X Nat /\ accepted \subseteq Lanes \X Nat
    BY <1>3 DEF PagedTyped
<1> DEFINE m == Judged(l, r)
<1>9. m \in LaneRecords /\ laneOf' = [laneOf EXCEPT ![e] = m] /\ m = laneOf'[e]
    <2>1. m \in LaneRecords
        BY <1>4, <1>6, JudgedStep
    <2>2. laneOf' = [laneOf EXCEPT ![e] = m]
        BY <1>1 DEF Settle
    <2> HIDE DEF m
    <2> QED BY <1>3, <2>1, <2>2 DEF PagedTyped
<1>10. m.st = "open" => ~Inconsistent(l, r) /\ More(l, r)
    <2> HIDE DEF m
    <2> QED BY <1>4, <1>9 DEF AfterPage
<1> HIDE DEF m
<1>11. (failed => failed') /\ failed' \in BOOLEAN /\ again' \in BOOLEAN /\ stuck' \in BOOLEAN
    BY <1>1, <1>7, <1>8
<1>12. kept' \subseteq Lanes \X Nat /\ accepted' \subseteq Lanes \X Nat /\ PagesKept'
       /\ \A d \in Lanes : d # e => \A i \in Nat : <<d, i>> \in kept' <=> <<d, i>> \in kept
    <2>1. CASE r.recs = 0
        BY <1>1, <1>3, <1>4, <1>8, <2>1 DEF PagesKept
    <2>2. CASE r.recs = 1
        <3>1. kept' = kept \cup {<<e, r.id>>} /\ accepted' \subseteq accepted \cup {<<e, r.id>>}
            BY <1>1, <1>4, <2>2
        <3>2. <<e, r.id>> \in Lanes \X Nat
            BY <1>7
        <3> QED BY <1>3, <1>8, <3>1, <3>2 DEF PagesKept
    <2> QED BY <1>7, <2>1, <2>2
<1>13. Cursored /\ m.st = "open" => ~CursorRepeated(l, r)
    BY <1>10 DEF Inconsistent
<1>14. conn.repeat \in {"all", "both", "visited"} /\ Cursored /\ m.st = "open" => r.next \notin l.seen
    BY <1>13 DEF CursorRepeated
<1>15. Cursored /\ l.n > 0 => l.at \in l.seen
    <2>1. l.st = "open"
        BY <1>4 DEF AfterPage
    <2> QED BY <1>3, <2>1 DEF LaneBooks
<1>16. conn.repeat # "no" /\ Cursored /\ m.st = "open" /\ l.n > 0 => r.next # l.at
    <2> SUFFICES ASSUME conn.repeat # "no", Cursored, m.st = "open", l.n > 0 PROVE r.next # l.at
        OBVIOUS
    <2>1. CASE conn.repeat \in {"all", "both", "visited"}
        BY <1>14, <1>15, <2>1
    <2>2. CASE conn.repeat = "last"
        BY <1>13, <2>2 DEF CursorRepeated
    <2>3. CASE conn.repeat = "page"
        BY <1>6, <2>3 DEF Formed, Cursored
    <2> QED BY <1>6, <2>1, <2>2, <2>3 DEF Formed, ConnectorRecords
<1>17. NoRefetch'
    <2>1. Cursored' = Cursored
        BY <1>4 DEF Cursored
    <2>2. conn.repeat \in {"all", "both", "visited"} => ~again'
        BY <1>1, <1>3, <1>14 DEF NoRefetch, m
    <2>3. conn.repeat # "no" /\ Cursored => ~stuck'
        BY <1>1, <1>3, <1>16 DEF NoRefetch, m
    <2> QED BY <1>4, <2>1, <2>2, <2>3 DEF NoRefetch
<1>18. Settle(e, m)
    BY <1>1 DEF m
<1> QED BY <1>5, <1>9, <1>11, <1>12, <1>17, <1>18, SettleKeeps

\* A lane that ends without a page keeps what it has.
LEMMA ClosedLane ==
    ASSUME PagedInv, NEW e \in Lanes, Ready(e), NEW k \in {"failed", "denied", "gone", "done"},
           Settle(e, [laneOf[e] EXCEPT !.st = k]), kept' = kept, failed => failed',
           k = "gone" => conn.more = "rows" /\ conn.spare,
           k \in Bad /\ manner = "honest" /\ ~failed' => Limited(e),
           k = "done" => conn.more = "rows" /\ (manner = "honest" => listing[e] <= laneOf[e].n)
    PROVE  LaneKept(e)' /\ [laneOf[e] EXCEPT !.st = k] \in LaneRecords
<1> DEFINE l == laneOf[e]
           m == [l EXCEPT !.st = k]
           L == listing[e]
<1>1. PagedTyped /\ LaneKept(e) /\ l.st = "open"
    BY DEF PagedInv, Ready
<1>2. Formed(conn) /\ L \in Nat /\ l \in LaneRecords /\ laneOf \in [Lanes -> LaneRecords]
    BY <1>1, LaneTypes DEF PagedTyped
<1>3. /\ m \in LaneRecords /\ m.st = k /\ m.at = l.at /\ m.seen = l.seen /\ m.n = l.n
      /\ m.rows = l.rows /\ m.flaw = l.flaw /\ m.tot = l.tot /\ m.ids = l.ids
      /\ m.solo = l.solo
    BY <1>2, LaneEnds
<1>4. UNCHANGED <<conn, manner, listing>> /\ laneOf' = [laneOf EXCEPT ![e] = m]
    BY DEF Settle
<1> HIDE DEF m
<1>5. laneOf'[e] = m
    BY <1>2, <1>3, <1>4
<1>6. k # "open"
    OBVIOUS
<1>7. LaneBooks(e)'
    BY <1>1, <1>3, <1>4, <1>5, <1>6 DEF LaneKept, LaneBooks
<1>8. Heard(e)'
    <2>1. Got(e)' = Got(e)
        BY <1>4 DEF Got
    <2>2. Cardinality(Got(e)') = Cardinality(Got(e))
        BY <2>1
    <2> QED BY <1>1, <1>3, <1>4, <1>5, <1>6, <2>2 DEF LaneKept, Heard
<1>9. Steady(e)'
    BY <1>3, <1>5, <1>6 DEF Steady
<1>10. Faithful(e)'
    BY <1>1, <1>3, <1>4, <1>5, <1>6 DEF LaneKept, Faithful, Limited, EndUnseen
<1>11. WholeLane(e)'
    <2> SUFFICES ASSUME k = "done"
                 PROVE  /\ manner = "honest" => \A i \in 1..L : <<e, i>> \in kept
                        /\ ~(manner = "lossy" /\ conn.hollow = "error")
                        /\ ~(conn.short \/ conn.more \in {"count", "full"})
        BY <1>3, <1>4, <1>5 DEF WholeLane, Missing
    <2>1. conn.more = "rows" /\ conn.hollow # "error" /\ ~conn.short
        BY <1>2 DEF Formed
    <2>2. manner = "honest" => \A i \in 1..l.n : <<e, i>> \in kept
        BY <1>1 DEF LaneKept, Steady
    <2>3. l.n \in Nat /\ (manner = "honest" => L <= l.n)
        BY <1>2 DEF LaneRecords
    <2> HIDE DEF L, l
    <2>4. manner = "honest" => \A i \in 1..L : i \in 1..l.n
        BY <1>2, <2>3 DEF L
    <2> QED BY <2>1, <2>2, <2>4
<1> QED BY <1>3, <1>7, <1>8, <1>9, <1>10, <1>11 DEF LaneKept, m

\* What a lane that ends without a page leaves alone.
LEMMA ClosedKeeps ==
    ASSUME PagedInv, NEW e \in Lanes, NEW m \in LaneRecords, Settle(e, m), LaneKept(e)',
           UNCHANGED <<kept, accepted, again, stuck>>, failed => failed', failed' \in BOOLEAN
    PROVE  PagedInv'
<1>1. PagedTyped /\ PagesKept /\ NoRefetch
    BY DEF PagedInv
<1>2. conn' = conn
    BY DEF Settle
<1>3. PagesKept' /\ NoRefetch'
    BY <1>1, <1>2 DEF PagesKept, NoRefetch, Cursored
<1>4. /\ kept' \subseteq Lanes \X Nat /\ accepted' \subseteq Lanes \X Nat
      /\ again' \in BOOLEAN /\ stuck' \in BOOLEAN
      /\ \A d \in Lanes : d # e => \A i \in Nat : <<d, i>> \in kept' <=> <<d, i>> \in kept
    BY <1>1 DEF PagedTyped
<1> QED BY <1>3, <1>4, SettleKeeps

LEMMA RefuseKeeps ==
    ASSUME PagedInv, NEW e \in Lanes, Refuse(e)
    PROVE  PagedInv'
<1> DEFINE l == laneOf[e]
<1>1. PICK r \in PageAnswers(e) :
        ~r.gone /\ Refused(l, r) /\ Settle(e, [l EXCEPT !.st = "failed"])
    BY DEF Refuse
<1>2. Ready(e) /\ UNCHANGED <<kept, accepted, failed, again, stuck>> /\ l.st = "open"
    BY DEF Refuse, Ready
<1>3. PagedTyped /\ Faithful(e)
    BY DEF PagedInv, LaneKept
<1>4. r \in AnswerRecords /\ (manner # "wild" => Told(e, r))
    BY <1>3, AnswersTold
<1>5. manner = "honest" => Limited(e)
    <2> SUFFICES ASSUME manner = "honest" PROVE Limited(e)
        OBVIOUS
    <2>1. l.at = l.n + 1
        BY <1>2, LaneOpen
    <2>2. l \in LaneRecords
        BY <1>3, LaneTypes
    <2>3. l.n \in Nat /\ l.ids \in SUBSET Nat
        BY <2>2 DEF LaneRecords
    <2>4. r.page = l.n + 1 /\ r.id = l.n + 1
        BY <1>4, <2>1 DEF Told
    <2>5. \A i \in l.ids : i <= l.n
        BY <1>3 DEF Faithful
    <2>6. ~Foreign(l, r)
        BY <2>3, <2>4, <2>5 DEF Foreign
    <2>7. Inconsistent(l, r)
        BY <1>1, <2>6 DEF Refused
    <2> QED BY <1>2, <1>4, <2>7, InconsistentTold
<1>6. failed \in BOOLEAN /\ failed' = failed
    BY <1>2, <1>3 DEF PagedTyped
<1>7. LaneKept(e)' /\ [l EXCEPT !.st = "failed"] \in LaneRecords
    BY <1>1, <1>2, <1>5, ClosedLane DEF Bad
<1> QED BY <1>1, <1>2, <1>6, <1>7, ClosedKeeps

LEMMA GoneKeeps ==
    ASSUME PagedInv, NEW e \in Lanes, Gone(e)
    PROVE  PagedInv'
<1> DEFINE l == laneOf[e]
           k == IF l.n = 0 THEN "gone" ELSE "done"
<1>1. PICK r \in PageAnswers(e) : r.gone
    BY DEF Gone
<1>2. /\ Ready(e) /\ UNCHANGED <<kept, accepted, failed, again, stuck>> /\ l.st = "open"
      /\ Settle(e, [l EXCEPT !.st = k])
    BY DEF Gone, Ready
<1>3. PagedTyped
    BY DEF PagedInv
<1>4. l \in LaneRecords /\ listing[e] \in Nat
    BY <1>3, LaneTypes
<1>5. conn.more = "rows" /\ conn.spare /\ (manner # "wild" => l.at > listing[e])
    <2>1. CASE manner # "wild" \/ e # conn.lanes
        <3>1. \/ r \in HonestAnswers(e)
              \/ manner = "lossy"
            BY <1>3, <2>1 DEF PageAnswers, PagedTyped
        <3>2. Told(e, r)
            BY <1>3, <3>1, <2>1, AnswersTold, HonestTold
        <3> QED BY <1>1, <3>2 DEF Told
    <2>2. CASE manner = "wild" /\ e = conn.lanes
        <3>1. r \in WildAnswers(e)
            BY <2>2 DEF PageAnswers
        <3>2. r.gone = FALSE
            BY <3>1 DEF WildAnswers
        <3> QED BY <1>1, <3>2
    <2> QED BY <2>1, <2>2
<1>6. manner = "honest" => listing[e] <= l.n
    <2>1. manner = "honest" => l.at = l.n + 1
        BY <1>2, LaneOpen
    <2>2. l.n \in Nat
        BY <1>4 DEF LaneRecords
    <2> QED BY <1>4, <1>5, <2>1, <2>2
<1>7. failed \in BOOLEAN /\ failed' = failed
    BY <1>2, <1>3 DEF PagedTyped
<1>8. k \in {"gone", "done"} /\ k \notin Bad
    BY DEF Bad
<1> HIDE DEF k
<1>9. LaneKept(e)' /\ [l EXCEPT !.st = k] \in LaneRecords
    BY <1>2, <1>5, <1>6, <1>8, ClosedLane
<1> QED BY <1>2, <1>7, <1>9, ClosedKeeps

LEMMA FailKeeps ==
    ASSUME PagedInv, NEW e \in Lanes, Fail(e)
    PROVE  PagedInv'
<1> DEFINE l == laneOf[e]
<1>1. PICK k \in Bad : Settle(e, [l EXCEPT !.st = k])
    BY DEF Fail
<1>2. Ready(e) /\ UNCHANGED <<kept, accepted, again, stuck>> /\ failed' = TRUE
    BY DEF Fail
<1>3. LaneKept(e)' /\ [l EXCEPT !.st = k] \in LaneRecords
    BY <1>1, <1>2, ClosedLane DEF Bad
<1> QED BY <1>1, <1>2, <1>3, ClosedKeeps

\* Nothing that is said of a lane depends on how the connector ended.
LEMMA StillKeeps ==
    ASSUME PagedInv, UNCHANGED <<conn, manner, listing, laneOf, kept, accepted, failed, again, stuck>>,
           out' = out \/ out' = "cut"
    PROVE  PagedInv'
<1>1. Lanes' = Lanes
    BY DEF Lanes
<1>2. PagedTyped' /\ Listed'
    BY <1>1 DEF PagedInv, PagedTyped, Listed
<1>3. ASSUME NEW d \in Lanes PROVE LaneKept(d)'
    <2>1. LaneKept(d) /\ listing[d] \in Nat
        BY DEF PagedInv, PagedTyped
    <2> QED BY <2>1, OtherLane
<1>4. PagesKept' /\ NoRefetch' /\ NoFalseAlarm'
    BY <1>1 DEF PagedInv, PagesKept, NoRefetch, NoFalseAlarm, Cursored, EndUnseen
<1> QED BY <1>1, <1>2, <1>3, <1>4 DEF PagedInv

LEMMA PagedInitInv == PagedInit => PagedInv
<1> SUFFICES ASSUME PagedInit PROVE PagedInv
    OBVIOUS
<1>1. /\ conn \in Sources /\ manner \in {"honest", "lossy", "wild"}
      /\ listing \in [Lanes -> 0..(IF conn.more = "none" THEN 1 ELSE MaxListing)]
      /\ (conn.fallback = "denied" => listing[2] <= 1)
      /\ laneOf = [e \in Lanes |-> Fresh(e)]
      /\ kept = {} /\ accepted = {} /\ failed = FALSE /\ again = FALSE /\ stuck = FALSE
      /\ out = "run"
    BY DEF PagedInit
<1>2. Formed(conn) /\ conn.pages \in Nat \ {0}
    BY <1>1, ConnectorsFormed DEF Formed, ConnectorRecords, Positive
<1>3. listing \in [Lanes -> Nat] /\ (conn.more = "none" => \A e \in Lanes : listing[e] <= 1)
    BY <1>1, PagedAssumption
<1>4. \A e \in Lanes : Fresh(e) \in LaneRecords
    <2>1. -1 \in Int /\ {} \in SUBSET Nat
        OBVIOUS
    <2> QED BY <2>1 DEF Fresh, LaneRecords, Lanes
<1>5. laneOf \in [Lanes -> LaneRecords]
    BY <1>1, <1>4
<1>6. PagedTyped /\ Listed
    BY <1>1, <1>3, <1>5 DEF PagedTyped, Listed
<1>7. ASSUME NEW e \in Lanes PROVE LaneKept(e)
    <2> DEFINE l == laneOf[e]
    <2>1. l.st = "open" /\ l.n = 0 /\ l.at = 1 /\ l.seen = {} /\ l.ids = {} /\ l.rows = 0
          /\ l.tot = -1 /\ l.flaw = FALSE /\ l.solo = (conn.fallback = "denied" /\ e > 1)
        BY <1>1 DEF Fresh
    <2> HIDE DEF l
    <2>2. LaneBooks(e)
        <3>1. l.n <= conn.pages /\ l.rows <= l.n /\ l.n < conn.pages
            BY <1>2, <2>1
        <3>2. ~l.flaw /\ l.st # "gone" /\ (l.solo => conn.fallback = "denied" /\ e > 1)
            BY <2>1
        <3>3. ~(l.n > 0)
            BY <2>1
        <3> QED BY <2>1, <3>1, <3>2, <3>3 DEF LaneBooks, l
    <2>3. Heard(e)
        <3>1. Got(e) = {}
            BY <1>1 DEF Got
        <3>2. Cardinality(Got(e)) = 0
            BY <3>1, FS_EmptySet
        <3> QED BY <1>1, <2>1, <3>2 DEF Heard, l
    <2>4. Steady(e)
        BY <2>1 DEF Steady, l
    <2>5. Faithful(e)
        BY <2>1 DEF Faithful, Bad, l
    <2>6. WholeLane(e)
        BY <2>1 DEF WholeLane, l
    <2> QED BY <2>2, <2>3, <2>4, <2>5, <2>6 DEF LaneKept
<1>8. PagesKept /\ NoRefetch /\ NoFalseAlarm
    BY <1>1 DEF PagesKept, NoRefetch, NoFalseAlarm
<1> QED BY <1>6, <1>7, <1>8 DEF PagedInv

LEMMA PagedStepInv == PagedInv /\ [PagedNext]_pagedVars => PagedInv'
<1> SUFFICES ASSUME PagedInv, [PagedNext]_pagedVars PROVE PagedInv'
    OBVIOUS
<1>1. CASE Cut
    BY <1>1, StillKeeps DEF Cut
<1>2. ASSUME NEW e \in Lanes, Refuse(e) PROVE PagedInv'
    BY <1>2, RefuseKeeps
<1>3. ASSUME NEW e \in Lanes, Gone(e) PROVE PagedInv'
    BY <1>3, GoneKeeps
<1>4. ASSUME NEW e \in Lanes, Accept(e) PROVE PagedInv'
    BY <1>4, AcceptKeeps
<1>5. ASSUME NEW e \in Lanes, Fail(e) PROVE PagedInv'
    BY <1>5, FailKeeps
<1>6. CASE UNCHANGED pagedVars
    BY <1>6, StillKeeps DEF pagedVars
<1> QED BY <1>1, <1>2, <1>3, <1>4, <1>5, <1>6 DEF PagedNext

\* What a run of a connector promises, from the invariant of its lanes.
LEMMA PagedPromises ==
    ASSUME PagedInv
    PROVE  PagedTypeOK /\ WholeWhenOk /\ NoFalseAlarm /\ NoRefetch /\ PagesKept
<1>1. PagedTyped /\ \A e \in Lanes : LaneKept(e)
    BY DEF PagedInv
<1>2. ASSUME NEW e \in Lanes
      PROVE  /\ laneOf[e].st \in {"open", "done", "failed", "denied", "gone"}
             /\ laneOf[e].n \in 0..conn.pages /\ laneOf[e].rows \in 0..laneOf[e].n
    <2>1. laneOf[e] \in LaneRecords /\ conn.pages \in Nat
        BY <1>1, LaneTypes
    <2>2. laneOf[e].n <= conn.pages /\ laneOf[e].rows <= laneOf[e].n
        BY <1>1 DEF LaneKept, LaneBooks
    <2>3. laneOf[e].n \in Nat /\ laneOf[e].rows \in Nat
          /\ laneOf[e].st \in {"open", "done", "failed", "denied", "gone"}
        BY <2>1 DEF LaneRecords
    <2> QED BY <2>1, <2>2, <2>3
<1>3. PagedTypeOK
    BY <1>1, <1>2 DEF PagedTypeOK, PagedTyped
<1>4. conn.lanes \in Nat \ {0}
    BY <1>1, ConnectorsFormed DEF PagedTyped, Formed, ConnectorRecords, Positive
<1>5. Needed(laneOf) \subseteq Lanes
    <2>1. 1 \in Lanes
        BY <1>4 DEF Lanes
    <2> QED BY <2>1 DEF Needed
<1>6. WholeWhenOk
    BY <1>1, <1>5 DEF WholeWhenOk, LaneKept, WholeLane
<1> QED BY <1>3, <1>6 DEF PagedInv

\* Every variable of a connector that reads pages keeps its type.
THEOREM PagesTyped == PagedSpec => []PagedTypeOK
<1> QED BY PagedInitInv, PagedStepInv, PagedPromises, PTL DEF PagedSpec

\* What a connector that reads pages took is kept; it reports success only for a whole
\* listing, failure only for a failure, and follows no continuation twice.
THEOREM PagesSound == PagedSpec => [](WholeWhenOk /\ NoFalseAlarm /\ NoRefetch /\ PagesKept)
<1> QED BY PagedInitInv, PagedStepInv, PagedPromises, PTL DEF PagedSpec

-----------------------------------------------------------------------------
(* The streams.  What was understood is with the writer or in the batch, and *)
(* the batch is short of full between two steps; a connector that hands over *)
(* after every chunk waits with an empty batch.  Every record up to the last *)
(* decoded one was usable, and none is decoded before its end has arrived.   *)

StreamEnds == {"ok", "error", "broken", "cut"}

\* A connector reads one of the answers it can get.
Reading ==
    /\ source \in StreamKinds /\ turn \in 1..source.turns /\ answer \in AnswersOf(source)
    /\ step \in {"chunk", "decode"} \cup StreamEnds

\* What was received and decoded.
Progress ==
    /\ got \in 0..(2 * Size) /\ decoded \in 0..Complete /\ counted \in 0..decoded
    /\ source.form = "rows" => got % 2 = 0
    /\ step = "chunk" => decoded = Complete

\* Nothing understood is anywhere else, and the batch is short.
Batched ==
    /\ understood = waiting \cup handed
    /\ IsFiniteSet(waiting) /\ Cardinality(waiting) < BatchSize
    /\ step = "chunk" /\ source.checkpoint = "chunk" => waiting = {}

\* The decoded records were usable, and an array counts them all against its limit.
Usable ==
    step \in {"chunk", "decode"} =>
        /\ \A i \in 1..decoded : answer.records[i] \in {"good", "blank"}
        /\ \A i \in 1..decoded : answer.records[i] = "good" => <<turn, i>> \in understood
        /\ source.form = "array" => counted = decoded /\ counted <= Limit

StreamInv == Reading /\ Progress /\ Batched /\ Usable /\ StreamKept

\* How the connectors differ, as far as the proof needs it.
LEMMA KindsFormed ==
    ASSUME NEW s \in StreamKinds
    PROVE  /\ s.form \in {"lines", "array", "rows"} /\ s.checkpoint \in {"timer", "chunk", "never"}
           /\ s.turns \in Nat \ {0}
           /\ s.form = "array" => s.cap
           /\ s.form # "lines" <=> s.checkpoint = "never"
           /\ s.turns > 1 => s.form = "lines"
<1> DEFINE K == [form : {"lines", "array", "rows"}, checkpoint : {"timer", "chunk", "never"},
                 cap : BOOLEAN, turns : {1, 2}]
<1>1. Lines \in K /\ Lines.form = "lines" /\ Lines.checkpoint = "timer" /\ Lines.turns = 1
      /\ Lines.cap
    BY DEF Lines
<1>2. EachLine \in K /\ EachLine.form = "lines" /\ EachLine.checkpoint = "chunk"
      /\ EachLine.turns = 1
    BY <1>1 DEF EachLine
<1>3. SubMd \in K /\ SubMd.form = "lines" /\ SubMd.checkpoint = "timer" /\ SubMd.turns = 1
    BY <1>1 DEF SubMd
<1>4. Netlas \in K /\ Netlas.form = "array" /\ Netlas.checkpoint = "never" /\ Netlas.turns = 1
      /\ Netlas.cap
    BY <1>1 DEF Netlas
<1>5. CrtShPostgres \in K /\ CrtShPostgres.form = "rows" /\ CrtShPostgres.checkpoint = "never"
      /\ CrtShPostgres.turns = 1
    BY <1>1 DEF CrtShPostgres
<1>6. Circl \in K /\ Circl.form = "lines" /\ Circl.checkpoint = "chunk" /\ Circl.turns = 1
    BY <1>2 DEF Circl
<1>7. Robtex \in K /\ Robtex.form = "lines" /\ Robtex.checkpoint = "chunk" /\ Robtex.turns = 2
    BY <1>2 DEF Robtex
<1>8. s \in {Lines, SubMd, Circl, EachLine, Robtex, Netlas, CrtShPostgres}
    BY DEF StreamKinds, ShrewdEye, Profundis
<1> HIDE DEF K
<1> QED BY <1>1, <1>2, <1>3, <1>4, <1>5, <1>6, <1>7, <1>8

\* Halves of records.
LEMMA Halves ==
    ASSUME NEW a \in Nat, NEW b \in Nat, NEW z \in Nat, a < b, a < 2 * z
    PROVE  a \div 2 <= b \div 2 /\ a \div 2 <= z - 1 /\ b \div 2 \in Nat
OBVIOUS

LEMMA NothingReceived == ASSUME NEW z \in Nat PROVE 0 \in 0..(2 * z) /\ ~(0 = 2 * z /\ z > 0)
OBVIOUS

LEMMA AnswerFormed ==
    ASSUME NEW s, NEW a \in AnswersOf(s)
    PROVE  /\ Len(a.records) \in Nat /\ DOMAIN a.records = 1..Len(a.records)
           /\ \A i \in 1..Len(a.records) : a.records[i] \in Classes
           /\ a.count \in Nat /\ a.closed \in BOOLEAN
           /\ s.form = "rows" => a.closed
<1>1. a \in [records : UNION {[1..n -> Classes] : n \in 0..MaxRecords}, closed : BOOLEAN,
             count : 0..(IF s.form = "array" THEN MaxRecords + 1 ELSE 0)]
    BY DEF AnswersOf
<1>2. PICK n \in 0..MaxRecords : a.records \in [1..n -> Classes]
    BY <1>1
<1>3. MaxRecords \in Nat
    BY StreamAssumption
<1>4. a.records \in Seq(Classes) /\ Len(a.records) = n
    BY <1>2, <1>3, SeqDef, LenProperties
<1>5. a.count \in Nat
    BY <1>1, <1>3
<1>6. s.form = "rows" => a.closed
    BY DEF AnswersOf
<1> QED BY <1>1, <1>2, <1>3, <1>4, <1>5, <1>6

\* A record is complete with its second half; the last line may never be.
LEMMA CompleteBounds ==
    ASSUME Reading, got \in 0..(2 * Size)
    PROVE  /\ Size \in Nat /\ Complete \in 0..Size
           /\ ~(source.form = "lines" /\ ~answer.closed /\ got = 2 * Size /\ Size > 0)
                => Complete = got \div 2
           /\ source.form = "lines" /\ ~answer.closed /\ got = 2 * Size /\ Size > 0
                => Complete = Size - 1
           /\ got = 2 * Size => Complete >= Size - 1
           /\ got = 0 => Complete = 0
<1>1. Size \in Nat
    BY AnswerFormed DEF Reading, Size
<1> HIDE DEF Size
<1> QED BY <1>1 DEF Complete

LEMMA StreamTyped == ASSUME StreamInv PROVE StreamTypeOK
<1>1. Reading /\ Progress /\ Batched /\ Size \in Nat /\ Complete \in 0..Size
    BY CompleteBounds DEF StreamInv, Progress
<1>2. decoded \in 0..Size /\ counted \in 0..decoded
    BY <1>1 DEF Progress
<1> QED BY <1>1, <1>2 DEF StreamTypeOK, Reading, Progress, Batched, StreamEnds

\* What is lost is less than a batch.
LEMMA LessThanABatch ==
    ASSUME NEW u, NEW b, NEW h, u = b \cup h, IsFiniteSet(b), Cardinality(b) < BatchSize
    PROVE  Cardinality(u \ h) < BatchSize /\ (b = {} => u \ h = {})
<1>1. u \ h \subseteq b
    OBVIOUS
<1>2. IsFiniteSet(u \ h) /\ Cardinality(u \ h) <= Cardinality(b)
    BY <1>1, FS_Subset
<1>3. Cardinality(u \ h) \in Nat /\ Cardinality(b) \in Nat /\ BatchSize \in Nat
    BY <1>2, FS_CardinalityType, StreamAssumption
<1> QED BY <1>1, <1>2, <1>3

LEMMA NoBatch == IsFiniteSet({}) /\ Cardinality({}) < BatchSize
BY FS_EmptySet, StreamAssumption

\* A connector that has not ended well keeps what StreamKept asks of it.
LEMMA KeptUnlessOk ==
    ASSUME Batched', step' # "ok",
           \/ waiting' = {}
           \/ step' \in {"chunk", "decode"}
           \/ source'.checkpoint # "chunk" /\ step' # "broken"
           \/ source'.checkpoint = "never"
    PROVE  StreamKept'
<1>1. Cardinality(Lost') < BatchSize /\ (waiting' = {} => Lost' = {})
    BY LessThanABatch DEF Batched, Lost
<1> QED BY <1>1 DEF StreamKept

\* commit_result_page of a short batch, or of what is left of it.
LEMMA HandOverBatch ==
    ASSUME NEW b, NEW really \in BOOLEAN, HandOver(b, really)
    PROVE  /\ waiting' \cup handed' = b \cup handed
           /\ really => waiting' = {}
           /\ ~really => waiting' = b
BY DEF HandOver

LEMMA HandOverShort ==
    ASSUME NEW b, NEW really \in BOOLEAN, HandOver(b, really), IsFiniteSet(b),
           really \/ Cardinality(b) < BatchSize
    PROVE  IsFiniteSet(waiting') /\ Cardinality(waiting') < BatchSize
BY HandOverBatch, NoBatch

LEMMA StreamInitInv == StreamInit => StreamInv
<1> SUFFICES ASSUME StreamInit PROVE StreamInv
    OBVIOUS
<1>1. Reading
    BY KindsFormed DEF StreamInit, Reading
<1>2. got = 0 /\ decoded = 0 /\ counted = 0 /\ waiting = {} /\ handed = {} /\ understood = {}
      /\ step = "chunk"
    BY DEF StreamInit
<1>3. Size \in Nat /\ Complete = 0
    <2>1. Size \in Nat
        BY <1>1, AnswerFormed DEF Reading, Size
    <2>2. got \in 0..(2 * Size)
        BY <1>2, <2>1
    <2> QED BY <1>1, <1>2, <2>1, <2>2, CompleteBounds
<1>4. Progress
    BY <1>2, <1>3 DEF Progress
<1>5. Batched
    BY <1>2, NoBatch DEF Batched
<1>6. Limit \in Nat
    BY <1>1, StreamAssumption, AnswerFormed DEF Limit, Reading
<1>7. Usable
    BY <1>2, <1>6 DEF Usable
<1>8. StreamKept
    BY <1>2, NoBatch DEF StreamKept, Lost
<1> QED BY <1>1, <1>4, <1>5, <1>7, <1>8 DEF StreamInv

LEMMA DeclineKeeps == ASSUME StreamInv, Decline PROVE StreamInv'
<1>1. /\ UNCHANGED <<source, turn, answer, got, decoded, counted, waiting, handed, understood>>
      /\ step = "chunk" /\ step' = "error"
    BY DEF Decline
<1>2. Reading' /\ Progress' /\ Batched' /\ Usable'
    BY <1>1 DEF StreamInv, Reading, Progress, Batched, Usable, StreamEnds, Size, Complete
<1>3. source.checkpoint = "chunk" => waiting' = {}
    BY <1>1 DEF StreamInv, Batched
<1>4. StreamKept'
    BY <1>1, <1>2, <1>3, KeptUnlessOk
<1> QED BY <1>2, <1>4 DEF StreamInv

LEMMA DroppedKeeps == ASSUME StreamInv, Dropped PROVE StreamInv'
<1>1. /\ UNCHANGED <<source, turn, answer, got, decoded, counted, waiting, handed, understood>>
      /\ step = "chunk" /\ step' = "cut"
    BY DEF Dropped
<1>2. Reading' /\ Progress' /\ Batched' /\ Usable'
    BY <1>1 DEF StreamInv, Reading, Progress, Batched, Usable, StreamEnds, Size, Complete
<1>3. source.checkpoint = "chunk" => waiting' = {}
    BY <1>1 DEF StreamInv, Batched
<1>4. StreamKept'
    BY <1>1, <1>2, <1>3, KeptUnlessOk
<1> QED BY <1>2, <1>4 DEF StreamInv

\* An error of a stream: all but Netlas and PostgreSQL hand over what they have.
LEMMA FailureKeeps ==
    ASSUME StreamInv, NEW how \in {"error", "broken"}, StreamFails(waiting, how),
           UNCHANGED <<source, turn, answer, understood>>, Progress'
    PROVE  StreamInv'
<1>1. /\ HandOver(waiting, source.checkpoint # "never") /\ step' = how
      /\ UNCHANGED <<source, turn, answer, understood>>
    BY DEF StreamFails
<1>2. Reading' /\ Usable'
    BY <1>1 DEF StreamInv, Reading, Usable, StreamEnds
<1>3. Batched'
    BY <1>1, HandOverBatch, HandOverShort DEF StreamInv, Batched
<1>4. waiting' = {} \/ source'.checkpoint = "never"
    BY <1>1, HandOverBatch
<1>5. StreamKept'
    BY <1>1, <1>3, <1>4, KeptUnlessOk
<1> QED BY <1>2, <1>3, <1>5 DEF StreamInv

LEMMA BreakKeeps == ASSUME StreamInv, BreakStream PROVE StreamInv'
<1>1. /\ UNCHANGED <<source, turn, answer, got, decoded, counted, understood>>
      /\ step = "chunk" /\ StreamFails(waiting, "broken") /\ step' = "broken"
    BY DEF BreakStream, StreamFails
<1>2. Progress'
    BY <1>1 DEF StreamInv, Progress, Size, Complete
<1> QED BY <1>1, <1>2, FailureKeeps

LEMMA ChunkKeeps == ASSUME StreamInv, Chunk PROVE StreamInv'
<1>1. PICK more \in IF source.form = "rows" THEN {2} ELSE 1..(2 * Size - got) :
        /\ got' = got + more
        /\ IF got + more > ByteCap /\ source.form # "rows"
           THEN StreamFails(waiting, "error")
           ELSE step' = "decode" /\ UNCHANGED <<waiting, handed>>
    BY DEF Chunk
<1>2. /\ UNCHANGED <<source, turn, answer, decoded, counted, understood>>
      /\ step = "chunk" /\ got < 2 * Size
    BY DEF Chunk
<1>3. Reading /\ got \in 0..(2 * Size) /\ Size \in Nat /\ Complete \in 0..Size
    BY CompleteBounds DEF StreamInv, Progress
<1>4. decoded = Complete /\ counted \in 0..decoded /\ (source.form = "rows" => got % 2 = 0)
    BY <1>2 DEF StreamInv, Progress
<1>5. got' \in 0..(2 * Size) /\ got < got' /\ (source.form = "rows" => got' % 2 = 0)
    <2> HIDE DEF Size
    <2> QED BY <1>1, <1>2, <1>3, <1>4
<1>6. Size' = Size
    BY <1>2 DEF Size
<1>7. Complete = got \div 2
    BY <1>2, <1>3, CompleteBounds
<1>8. Complete' = (IF source.form = "lines" /\ ~answer.closed /\ got' = 2 * Size /\ Size > 0
                   THEN Size - 1 ELSE got' \div 2)
    BY <1>2, <1>6 DEF Complete
<1>9. decoded' \in 0..Complete'
    <2>1. got \in Nat /\ got' \in Nat /\ got' > got /\ got < 2 * Size /\ Size \in Nat
        <3> HIDE DEF Size
        <3> QED BY <1>2, <1>3, <1>5
    <2>2. got \div 2 <= got' \div 2 /\ got \div 2 <= Size - 1 /\ got' \div 2 \in Nat
        BY <2>1, Halves
    <2>3. got \div 2 <= Complete' /\ Complete' \in Int
        <3>1. Complete' = Size - 1 \/ Complete' = got' \div 2
            BY <1>8
        <3>2. Size - 1 \in Int
            BY <2>1
        <3> QED BY <2>2, <3>1, <3>2
    <2> QED BY <1>2, <1>3, <1>4, <1>7, <2>3
<1>10. step' \in {"decode", "error"}
    BY <1>1 DEF StreamFails
<1>11. Progress'
    BY <1>2, <1>4, <1>5, <1>6, <1>9, <1>10 DEF Progress
<1>12. CASE StreamFails(waiting, "error")
    BY <1>2, <1>11, <1>12, FailureKeeps
<1>13. CASE step' = "decode" /\ UNCHANGED <<waiting, handed>>
    <2>1. Reading' /\ Usable' /\ Batched'
        BY <1>2, <1>13 DEF StreamInv, Reading, Usable, Batched, Limit
    <2>2. StreamKept'
        BY <1>13, <2>1, KeptUnlessOk
    <2> QED BY <1>11, <2>1, <2>2 DEF StreamInv
<1> QED BY <1>1, <1>12, <1>13

LEMMA CheckpointKeeps == ASSUME StreamInv, Checkpoint PROVE StreamInv'
<1>1. /\ UNCHANGED <<source, turn, answer, got, decoded, counted, understood>>
      /\ step = "decode" /\ decoded = Complete
      /\ IF Overlong THEN StreamFails(waiting, "error")
         ELSE /\ step' = "chunk"
              /\ \/ source.checkpoint # "never" /\ HandOver(waiting, TRUE)
                 \/ source.checkpoint # "chunk" /\ HandOver(waiting, FALSE)
    BY DEF Checkpoint
<1>2. Progress'
    BY <1>1 DEF StreamInv, Progress, Size, Complete
<1>3. CASE StreamFails(waiting, "error")
    BY <1>1, <1>2, <1>3, FailureKeeps
<1>4. CASE /\ step' = "chunk"
           /\ \/ source.checkpoint # "never" /\ HandOver(waiting, TRUE)
              \/ source.checkpoint # "chunk" /\ HandOver(waiting, FALSE)
    <2>1. Reading' /\ Usable'
        BY <1>1, <1>4 DEF StreamInv, Reading, Usable, Limit
    <2>2. Batched'
        BY <1>1, <1>4, HandOverBatch, HandOverShort DEF StreamInv, Batched
    <2>3. StreamKept'
        BY <1>4, <2>2, KeptUnlessOk
    <2> QED BY <1>2, <2>1, <2>2, <2>3 DEF StreamInv
<1> QED BY <1>1, <1>3, <1>4

LEMMA DecodeKeeps == ASSUME StreamInv, Decode PROVE StreamInv'
<1> DEFINE i == decoded + 1
<1>1. /\ UNCHANGED <<source, turn, answer, got>>
      /\ step = "decode" /\ decoded < Complete /\ decoded' = i
      /\ IF answer.records[i] = "blank" /\ source.form = "lines"
         THEN UNCHANGED <<counted, waiting, handed, understood, step>>
         ELSE IF Unusable(i)
         THEN StreamFails(waiting, "error") /\ UNCHANGED <<counted, understood>>
         ELSE /\ counted' = counted + 1
              /\ IF answer.records[i] = "good" THEN Understand(i)
                 ELSE UNCHANGED <<waiting, handed, understood>>
              /\ UNCHANGED step
    BY DEF Decode
<1>2. /\ Reading /\ got \in 0..(2 * Size) /\ Size \in Nat /\ Complete \in 0..Size
      /\ decoded \in 0..Complete /\ counted \in 0..decoded
      /\ (source.form = "rows" => got % 2 = 0)
    BY CompleteBounds DEF StreamInv, Progress
<1>3. i \in 1..Size /\ i \in 0..Complete
    BY <1>1, <1>2
<1>4. answer.records[i] \in Classes
    BY <1>2, <1>3, AnswerFormed DEF Reading, Size
<1>5. Size' = Size /\ Complete' = Complete
    BY <1>1 DEF Size, Complete
<1>6. counted' \in {counted, counted + 1} /\ step' # "chunk"
    BY <1>1 DEF StreamFails
<1>7. Progress'
    BY <1>1, <1>2, <1>3, <1>5, <1>6 DEF Progress
<1>8. CASE StreamFails(waiting, "error") /\ UNCHANGED understood
    BY <1>1, <1>7, <1>8, FailureKeeps
<1>u. /\ \A j \in 1..decoded : answer.records[j] \in {"good", "blank"}
      /\ \A j \in 1..decoded : answer.records[j] = "good" => <<turn, j>> \in understood
      /\ source.form = "array" => counted = decoded /\ counted <= Limit
    BY <1>1 DEF StreamInv, Usable
<1>l. Limit' = Limit /\ Limit \in Nat
    BY <1>1, <1>2, StreamAssumption, AnswerFormed DEF Limit, Reading
<1>m. \A j \in 1..i : j \in 1..decoded \/ j = i
    BY <1>2
<1>9. CASE answer.records[i] = "blank" /\ source.form = "lines"
           /\ UNCHANGED <<counted, waiting, handed, understood, step>>
    <2>1. Reading' /\ Batched'
        BY <1>1, <1>9 DEF StreamInv, Reading, Batched
    <2>2. Usable'
        BY <1>1, <1>9, <1>u, <1>m DEF Usable
    <2>3. StreamKept'
        BY <1>1, <1>9, <2>1, KeptUnlessOk
    <2> QED BY <1>7, <2>1, <2>2, <2>3 DEF StreamInv
<1>10. CASE /\ ~Unusable(i) /\ counted' = counted + 1 /\ UNCHANGED step
            /\ IF answer.records[i] = "good" THEN Understand(i)
               ELSE UNCHANGED <<waiting, handed, understood>>
    <2>1. answer.records[i] \in {"good", "blank"} /\ ~TooMany
        BY <1>4, <1>10 DEF Unusable, Classes
    <2>2. Reading'
        BY <1>1, <1>10 DEF Reading, StreamInv
    <2>3. /\ Batched' /\ understood \subseteq understood'
          /\ answer.records[i] = "good" => <<turn, i>> \in understood'
        <3>1. CASE answer.records[i] = "good"
            <4> DEFINE batch == waiting \cup {<<turn, i>>}
                       really == Cardinality(batch) >= BatchSize
            <4>0. HandOver(batch, really) /\ understood' = understood \cup {<<turn, i>>}
                BY <1>10, <3>1 DEF Understand
            <4>2. IsFiniteSet(batch)
                BY FS_AddElement DEF StreamInv, Batched
            <4>3. Cardinality(batch) \in Nat /\ BatchSize \in Nat
                BY <4>2, FS_CardinalityType, StreamAssumption
            <4>r. really \in BOOLEAN /\ (really \/ Cardinality(batch) < BatchSize)
                BY <4>3
            <4>1. understood' = understood \cup {<<turn, i>>}
                BY <4>0
            <4> HIDE DEF really, batch
            <4>4. IsFiniteSet(waiting') /\ Cardinality(waiting') < BatchSize
                BY <4>0, <4>2, <4>r, HandOverShort
            <4>5. waiting' \cup handed' = batch \cup handed
                BY <4>0, <4>r, HandOverBatch
            <4>6. understood' = waiting' \cup handed'
                BY <4>1, <4>5 DEF StreamInv, Batched, batch
            <4> QED BY <1>1, <1>10, <4>1, <4>4, <4>6 DEF Batched
        <3>2. CASE answer.records[i] # "good"
            BY <1>1, <1>10, <3>2 DEF StreamInv, Batched
        <3> QED BY <3>1, <3>2
    <2>4. source.form = "array" => counted < Limit
        <3>1. source.form = "array" => source.cap
            BY <1>2, KindsFormed DEF Reading
        <3> QED BY <1>2, <1>l, <2>1, <3>1 DEF TooMany
    <2>5. Usable'
        <3>1. \A j \in 1..decoded' : answer'.records[j] \in {"good", "blank"}
            BY <1>1, <1>u, <1>m, <2>1
        <3>2. \A j \in 1..decoded' : answer'.records[j] = "good" => <<turn', j>> \in understood'
            BY <1>1, <1>u, <1>m, <2>3
        <3>3. source'.form = "array" => counted' = decoded' /\ counted' <= Limit'
            BY <1>1, <1>2, <1>10, <1>u, <1>l, <2>4
        <3> QED BY <3>1, <3>2, <3>3 DEF Usable
    <2>6. StreamKept'
        BY <1>1, <1>10, <2>3, KeptUnlessOk
    <2> QED BY <1>7, <2>2, <2>3, <2>5, <2>6 DEF StreamInv
<1> QED BY <1>1, <1>8, <1>9, <1>10

\* The connector returns with nothing left in its batch, or asks for its next answer.
LEMMA ReturnKeeps ==
    ASSUME StreamInv, NEW fine \in BOOLEAN, ReturnStream(fine), step = "chunk", source' = source,
           understood' = waiting' \cup handed', IsFiniteSet(waiting'),
           Cardinality(waiting') < BatchSize,
           waiting' = {} \/ (~fine /\ source.checkpoint # "chunk"),
           fine => /\ \A j \in Good : <<turn, j>> \in handed'
                   /\ \A j \in DOMAIN answer.records : answer.records[j] \in {"good", "blank"}
                   /\ source.form = "array" => answer.closed /\ answer.count = Size
    PROVE  StreamInv'
<1>1. Reading /\ got \in 0..(2 * Size) /\ Size \in Nat
    BY CompleteBounds DEF StreamInv, Progress
<1>2. CASE ~fine /\ step' = "error" /\ UNCHANGED <<turn, answer, got, decoded, counted>>
    <2>1. Reading' /\ Progress' /\ Usable' /\ Batched'
        BY <1>2 DEF StreamInv, Reading, Progress, Usable, Batched, StreamEnds, Size, Complete
    <2>2. StreamKept'
        BY <1>2, <2>1, KeptUnlessOk
    <2> QED BY <2>1, <2>2 DEF StreamInv
<1>3. CASE /\ fine /\ step' \in {"ok"} \cup (IF turn > 1 THEN {"error"} ELSE {})
           /\ UNCHANGED <<turn, answer, got, decoded, counted>>
    <2>0. step' \in {"ok", "error"}
        BY <1>3
    <2>1. Reading' /\ Progress' /\ Usable' /\ Batched'
        BY <1>3, <2>0 DEF StreamInv, Reading, Progress, Usable, Batched, StreamEnds, Size, Complete
    <2>2. CASE step' = "error"
        BY <1>3, <2>1, <2>2, KeptUnlessOk DEF StreamInv
    <2>3. CASE step' = "ok"
        <3>1. Cardinality(Lost') < BatchSize /\ Lost' = {}
            BY <1>3, LessThanABatch DEF Lost
        <3>2. Good' = Good /\ Size' = Size
            BY <1>3 DEF Good, Size
        <3>3. StreamKept'
            BY <1>3, <2>3, <3>1, <3>2 DEF StreamKept
        <3> QED BY <2>1, <3>3 DEF StreamInv
    <2> QED BY <2>0, <2>2, <2>3
<1>4. CASE /\ fine /\ turn < source.turns /\ turn' = turn + 1
           /\ answer' \in AnswersOf(source)
           /\ got' = 0 /\ decoded' = 0 /\ counted' = 0 /\ step' = "chunk"
    <2>1. source.turns \in Nat /\ source.form = "lines" /\ turn \in Nat
        BY <1>1, <1>4, KindsFormed DEF Reading
    <2>2. Reading'
        BY <1>1, <1>4, <2>1 DEF Reading
    <2>3. Size' \in Nat
        BY <1>4, AnswerFormed DEF Size
    <2>4. Complete' = 0
        <3>1. got' = 0 /\ ~(got' = 2 * Size' /\ Size' > 0)
            BY <1>4, <2>3, NothingReceived
        <3>2. 0 \div 2 = 0
            OBVIOUS
        <3> QED BY <3>1, <3>2, Zenon DEF Complete
    <2>5. Progress'
        <3>1. source'.form # "rows" /\ got' = 0 /\ decoded' = 0 /\ counted' = 0
            BY <1>4, <2>1
        <3>2. 0 \in 0..(2 * Size')
            BY <2>3, NothingReceived
        <3>3. 0 \in 0..0
            OBVIOUS
        <3> QED BY <2>4, <3>1, <3>2, <3>3 DEF Progress
    <2>6. Usable'
        BY <1>4, <2>1 DEF Usable
    <2>7. Batched'
        BY <1>4 DEF Batched
    <2>8. StreamKept'
        BY <1>4, <2>7, KeptUnlessOk
    <2> QED BY <2>2, <2>5, <2>6, <2>7, <2>8 DEF StreamInv
<1> QED BY <1>2, <1>3, <1>4 DEF ReturnStream

LEMMA EndOfAnswerKeeps == ASSUME StreamInv, EndOfAnswer PROVE StreamInv'
<1>1. step = "chunk" /\ got = 2 * Size /\ source' = source
    BY DEF EndOfAnswer
<1>2. /\ Reading /\ Size \in Nat /\ Complete \in 0..Size /\ Complete >= Size - 1
      /\ decoded = Complete /\ counted \in 0..decoded
    <2>1. got \in 0..(2 * Size) /\ Reading
        BY DEF StreamInv, Progress
    <2> QED BY <1>1, <2>1, CompleteBounds DEF StreamInv, Progress
<1>3. DOMAIN answer.records = 1..Size /\ \A j \in 1..Size : answer.records[j] \in Classes
    BY <1>2, AnswerFormed DEF Reading, Size
<1>4. /\ \A j \in 1..decoded : answer.records[j] \in {"good", "blank"}
      /\ \A j \in 1..decoded : answer.records[j] = "good" => <<turn, j>> \in understood
      /\ source.form = "array" => counted = decoded /\ counted <= Limit
    BY <1>1 DEF StreamInv, Usable
<1>5. understood = waiting \cup handed /\ IsFiniteSet(waiting) /\ Cardinality(waiting) < BatchSize
      /\ (source.checkpoint = "chunk" => waiting = {})
    BY <1>1 DEF StreamInv, Batched
<1>6. Carried => decoded = Size - 1 /\ Size > 0 /\ source.form = "lines"
    <2>1. Carried => decoded = Size - 1 /\ Size > 0
        BY <1>2 DEF Carried
    <2>2. ~(source.form = "lines" /\ ~answer.closed /\ got = 2 * Size /\ Size > 0)
            => Complete = got \div 2
        BY <1>1, <1>2, CompleteBounds DEF StreamInv, Progress
    <2>3. (2 * Size) \div 2 = Size
        BY <1>2
    <2> QED BY <1>1, <1>2, <2>1, <2>2, <2>3
<1>7. ~Carried => decoded = Size
    BY <1>2 DEF Carried
<1>8. CASE /\ ~Carried \/ answer.records[Size] = "blank"
           /\ HandOver(waiting, TRUE) /\ ReturnStream(~Short) /\ UNCHANGED understood
    <2>1. waiting' = {} /\ understood' = waiting' \cup handed' /\ handed' = understood
        BY <1>5, <1>8 DEF HandOver
    <2>2. \A j \in 1..Size : j \in 1..decoded \/ (j = Size /\ answer.records[Size] = "blank")
        BY <1>2, <1>6, <1>7, <1>8
    <2>3. \A j \in DOMAIN answer.records : answer.records[j] \in {"good", "blank"}
        BY <1>3, <1>4, <2>2
    <2>4. \A j \in Good : <<turn, j>> \in handed'
        BY <1>3, <1>4, <2>1, <2>2 DEF Good
    <2>5. ASSUME ~Short, source.form = "array" PROVE answer.closed /\ answer.count = Size
        <3>1. answer.closed /\ ~(decoded < Limit) /\ ~(answer.count > Limit)
            BY <2>5 DEF Short
        <3>2. answer.count \in Nat /\ DownloadLimit \in Nat
            BY <1>2, AnswerFormed, StreamAssumption DEF Reading
        <3>3. Limit = IF answer.count < DownloadLimit THEN answer.count ELSE DownloadLimit
            BY <2>5 DEF Limit
        <3>4. decoded = Size
            BY <1>6, <1>7, <2>5
        <3> QED BY <1>2, <1>4, <2>5, <3>1, <3>2, <3>3, <3>4
    <2>6. Short \in BOOLEAN
        BY DEF Short
    <2> HIDE DEF Short
    <2> QED BY <1>1, <1>8, <2>1, <2>3, <2>4, <2>5, <2>6, NoBatch, ReturnKeeps
<1>9. CASE /\ HandOver(waiting, source.checkpoint = "chunk" \/ TooMany)
           /\ ReturnStream(FALSE) /\ UNCHANGED understood
    <2> DEFINE really == source.checkpoint = "chunk" \/ TooMany
    <2>1. really \in BOOLEAN
        BY DEF TooMany
    <2> HIDE DEF really
    <2>2. HandOver(waiting, really)
        BY <1>9 DEF really
    <2>3. waiting' \cup handed' = waiting \cup handed /\ (really => waiting' = {})
        BY <2>1, <2>2, HandOverBatch
    <2>4. IsFiniteSet(waiting') /\ Cardinality(waiting') < BatchSize
        BY <1>5, <2>1, <2>2, HandOverShort
    <2>5. waiting' = {} \/ source.checkpoint # "chunk"
        BY <2>3 DEF really
    <2> QED BY <1>1, <1>5, <1>9, <2>3, <2>4, <2>5, ReturnKeeps
<1>10. CASE /\ Carried /\ answer.records[Size] # "blank" /\ ~Unusable(Size)
            /\ HandOver(waiting \cup {<<turn, Size>>}, TRUE)
            /\ understood' = understood \cup {<<turn, Size>>}
            /\ ReturnStream(TRUE)
    <2>1. waiting' = {} /\ understood' = waiting' \cup handed' /\ handed' = understood'
        BY <1>5, <1>10 DEF HandOver
    <2>2. answer.records[Size] = "good"
        BY <1>2, <1>3, <1>6, <1>10 DEF Unusable, Classes
    <2>3. \A j \in 1..Size : j \in 1..decoded \/ j = Size
        BY <1>2, <1>6, <1>10
    <2>4. \A j \in DOMAIN answer.records : answer.records[j] \in {"good", "blank"}
        BY <1>3, <1>4, <2>2, <2>3
    <2>5. \A j \in Good : <<turn, j>> \in handed'
        BY <1>3, <1>4, <1>10, <2>1, <2>3 DEF Good
    <2> QED BY <1>1, <1>6, <1>10, <2>1, <2>4, <2>5, NoBatch, ReturnKeeps
<1> QED BY <1>8, <1>9, <1>10 DEF EndOfAnswer

LEMMA StreamStepInv == StreamInv /\ [StreamNext]_streamVars => StreamInv'
<1> SUFFICES ASSUME StreamInv, [StreamNext]_streamVars PROVE StreamInv'
    OBVIOUS
<1>1. CASE StreamNext
    BY <1>1, DeclineKeeps, ChunkKeeps, DecodeKeeps, CheckpointKeeps, BreakKeeps, EndOfAnswerKeeps,
       DroppedKeeps DEF StreamNext
<1>2. CASE UNCHANGED streamVars
    <2>1. UNCHANGED <<source, turn, answer, got, decoded, counted, waiting, handed, understood, step>>
        BY <1>2 DEF streamVars
    <2>2. Reading' /\ Progress' /\ Batched'
        BY <2>1 DEF StreamInv, Reading, Progress, Batched, Size, Complete
    <2>3. Usable' /\ StreamKept'
        BY <2>1 DEF StreamInv, Usable, StreamKept, Lost, Good, Size, Limit
    <2> QED BY <2>2, <2>3 DEF StreamInv
<1> QED BY <1>1, <1>2

\* Whatever the answer and however it is cut into chunks, a connector that decodes as it
\* reads stays within what it received (collect_streamed_lines, for_each_stream_line).
THEOREM StreamsTyped == StreamSpec => []StreamTypeOK
<1>1. StreamInv => StreamTypeOK
    BY StreamTyped
<1> QED BY <1>1, StreamInitInv, StreamStepInv, PTL DEF StreamSpec

\* At most part of a batch is lost, nothing by a connector that hands over after each chunk,
\* and success means that the whole answer was understood and handed over.
THEOREM StreamsKept == StreamSpec => []StreamKept
<1>1. StreamInv => StreamKept
    BY DEF StreamInv
<1> QED BY <1>1, StreamInitInv, StreamStepInv, PTL DEF StreamSpec

\* Both kinds of connectors together.
THEOREM ConnectorsKept == ConnectorsSpec => []ConnectorsKeep
<1> QED BY PagesSound, StreamsKept, PTL DEF ConnectorsSpec, ConnectorsKeep

-----------------------------------------------------------------------------
(* Folding names into the union.                                           *)

(* A merge adds its source to names of the union and of the page only.     *)
LEMMA MergedTyped ==
    ASSUME NEW known \in [Found -> SUBSET Providers], NEW names, NEW s \in Providers,
           NEW o \in Merged(known, names, s)
    PROVE  o \in [Found -> SUBSET Providers]
<1>1. PICK added :
          o = [n \in Found |-> IF n \in (names \cap {m \in Found : known[m] # {}}) \cup added
                               THEN known[n] \cup {s} ELSE known[n]]
    BY Zenon DEF Merged
<1> QED BY <1>1

(* Two merges in a row, as the collection loop makes them.                 *)
LEMMA TakenTyped ==
    ASSUME PhTypeOK, NEW s \in Providers, NEW own, NEW read, TakeResult(s, read, own)
    PROVE  origins' \in [Found -> SUBSET Providers]
<1>1. origins \in [Found -> SUBSET Providers]
    BY DEF PhTypeOK
<1>2. PICK stale \in BoundedTo(IF read THEN memory[s] ELSE {}, WorkingSet) :
          \E first \in Merged(origins, own, s) : origins' \in Merged(first, stale, s)
    BY DEF TakeResult
<1>3. PICK first \in Merged(origins, own, s) : origins' \in Merged(first, stale, s)
    BY <1>2
<1>4. first \in [Found -> SUBSET Providers]
    BY <1>1, <1>3, MergedTyped
<1> QED BY <1>3, <1>4, MergedTyped

(* The limits are numbers; a connector may always hold something.          *)
LEMMA LimitsTyped == MaxPassive \in Nat /\ Connectors \in Nat /\ WorkingSet \in Nat
<1>1. MaxPassive \in Nat \ {0} /\ Connectors \in Nat \ {0} /\ Connectors <= 32
    BY PhaseAssumption
<1>2. (MaxPassive + Connectors - 1) \div Connectors \in Nat
    BY <1>1
<1> QED BY <1>1, <1>2 DEF WorkingSet

-----------------------------------------------------------------------------
(* Types and bounds.                                                       *)

Held == held \in [Providers -> SUBSET Found]

(* Fewer connectors run once one of them is done, and none starts.         *)
LEMMA FewerRun ==
    ASSUME PhTypeOK, {s \in Providers : job'[s] = "running"} \subseteq
                     {s \in Providers : job[s] = "running"}
    PROVE  Cardinality({s \in Providers : job'[s] = "running"}) <= Connectors
<1> DEFINE before == {s \in Providers : job[s] = "running"}
           after == {s \in Providers : job'[s] = "running"}
<1>1. IsFiniteSet(Providers)
    BY PhaseAssumption, FS_Interval DEF Providers
<1>2. IsFiniteSet(before) /\ IsFiniteSet(after)
    BY <1>1, FS_Subset
<1>3. Cardinality(after) <= Cardinality(before) /\ Cardinality(before) <= Connectors
    BY <1>2, FS_Subset DEF PhTypeOK
<1>4. Cardinality(after) \in Nat /\ Cardinality(before) \in Nat
    BY <1>2, FS_CardinalityType
<1> QED BY <1>3, <1>4, LimitsTyped

(* A connector that holds nothing is within its working set.               *)
LEMMA EmptyHeld ==
    /\ [s \in Providers |-> {}] \in [Providers -> SUBSET Found]
    /\ \A s \in Providers : Cardinality([t \in Providers |-> {}][s]) <= WorkingSet
<1>1. Cardinality({}) = 0 /\ 0 <= WorkingSet
    BY FS_EmptySet, LimitsTyped
<1> QED BY <1>1

(* Only a launch adds a running connector, under a permit.                 *)
LEMMA LaunchBounded ==
    ASSUME PhTypeOK, NEW s \in Providers, Launch(s)
    PROVE  Cardinality({t \in Providers : job'[t] = "running"}) <= Connectors
<1> DEFINE before == {t \in Providers : job[t] = "running"}
           after == {t \in Providers : job'[t] = "running"}
<1>1. IsFiniteSet(Providers)
    BY PhaseAssumption, FS_Interval DEF Providers
<1>2. IsFiniteSet(before) /\ IsFiniteSet(after) /\ IsFiniteSet(before \cup {s})
    BY <1>1, FS_Subset, FS_AddElement
<1>3. after \subseteq before \cup {s}
    BY DEF Launch, PhTypeOK
<1>4. Cardinality(after) <= Cardinality(before \cup {s})
    BY <1>2, <1>3, FS_Subset
<1>5. /\ Cardinality(after) \in Nat /\ Cardinality(before) \in Nat
      /\ Cardinality(before \cup {s}) \in Nat
    BY <1>2, FS_CardinalityType
<1>6. Cardinality(before \cup {s}) <= Cardinality(before) + 1
    BY <1>2, <1>5, FS_AddElement
<1>7. Cardinality(before) < Connectors
    BY DEF Launch
<1> QED BY <1>4, <1>5, <1>6, <1>7, LimitsTyped

(* A connector holds no more than its working set.                         *)
LEMMA RememberedBounded ==
    ASSUME PhTypeOK, Held, NEW s \in Providers, NEW n \in Found
    PROVE  Remembered(s, n) \in SUBSET Found /\ Cardinality(Remembered(s, n)) <= WorkingSet
<1>1. held[s] \in SUBSET Found /\ IsFiniteSet(held[s]) /\ Cardinality(held[s]) <= WorkingSet
    BY PhaseAssumption, FS_Subset DEF Held, PhTypeOK
<1>2. CASE Cardinality(held[s]) < WorkingSet
  <2>1. Remembered(s, n) = held[s] \cup {n}
    BY <1>2 DEF Remembered
  <2>2. Cardinality(held[s]) \in Nat /\ Cardinality(held[s] \cup {n}) \in Nat
    BY <1>1, FS_AddElement, FS_CardinalityType
  <2>3. Cardinality(held[s] \cup {n}) <= Cardinality(held[s]) + 1
    BY <1>1, <2>2, FS_AddElement
  <2> QED BY <1>1, <1>2, <2>1, <2>2, <2>3, LimitsTyped
<1>3. CASE ~(Cardinality(held[s]) < WorkingSet)
    BY <1>1, <1>3 DEF Remembered
<1> QED BY <1>2, <1>3

(* The scan takes from a zone only what it has room for.                   *)
LEMMA JoinBounded ==
    ASSUME PhTypeOK, Join
    PROVE  gathered' \subseteq Found /\ Cardinality(gathered') <= MaxPassive
<1> DEFINE fresh == Union \ gathered
           room == MaxPassive - Cardinality(gathered)
<1>1. PICK added \in BoundedTo(fresh, room) : gathered' = gathered \cup added
    BY DEF Join
<1>2. added \subseteq Union \ gathered /\ Union \subseteq Found /\ gathered \subseteq Found
    BY <1>1 DEF BoundedTo, Union, PhTypeOK
<1>3. /\ IsFiniteSet(added) /\ IsFiniteSet(gathered) /\ IsFiniteSet(fresh)
      /\ Cardinality(added) \in Nat /\ Cardinality(gathered) \in Nat /\ Cardinality(fresh) \in Nat
    BY <1>2, PhaseAssumption, FS_Subset, FS_CardinalityType
<1>4. Cardinality(added) <= room
  <2> HIDE DEF fresh, room
  <2>1. Cardinality(added) = IF Cardinality(fresh) < room THEN Cardinality(fresh) ELSE room
    BY <1>1 DEF BoundedTo
  <2>2. room \in Int
    BY <1>3, LimitsTyped DEF room
  <2> QED BY <1>3, <2>1, <2>2
<1>5. Cardinality(gathered \cup added) = Cardinality(gathered) + Cardinality(added)
  <2>1. gathered \cap added = {}
    BY <1>2
  <2> QED BY <1>3, <2>1, FS_Union, FS_EmptySet
<1> QED BY <1>1, <1>2, <1>3, <1>4, <1>5, LimitsTyped

(* The types and bounds hold in every state.                               *)
LEMMA StepTyped == PhTypeOK /\ Held /\ [PhNext]_phaseVars => PhTypeOK' /\ Held'
<1> SUFFICES ASSUME PhTypeOK, Held, [PhNext]_phaseVars PROVE PhTypeOK' /\ Held'
    OBVIOUS
<1> DEFINE Running == {t \in Providers : job[t] = "running"}
<1>1. CASE Preflight
  <2>1. job' \in [Providers -> {"queued", "memory", "taken"}]
    BY <1>1 DEF Preflight
  <2>2. Cardinality({t \in Providers : job'[t] = "running"}) <= Connectors
    BY <2>1, FewerRun
  <2> QED BY <1>1, <2>1, <2>2 DEF Preflight, PhTypeOK, Held, Jobs
<1>2. ASSUME NEW s \in Providers, Recall(s) PROVE PhTypeOK' /\ Held'
  <2>1. origins' \in [Found -> SUBSET Providers]
    BY <1>2, MergedTyped DEF Recall, PhTypeOK
  <2>2. job' = [job EXCEPT ![s] = "taken"]
    BY <1>2 DEF Recall
  <2>3. Cardinality({t \in Providers : job'[t] = "running"}) <= Connectors
    BY <2>2, FewerRun DEF PhTypeOK
  <2> QED BY <1>2, <2>1, <2>2, <2>3 DEF Recall, PhTypeOK, Held, Jobs
<1>3. ASSUME NEW s \in Providers, Launch(s) PROVE PhTypeOK' /\ Held'
  <2>1. Cardinality({t \in Providers : job'[t] = "running"}) <= Connectors
    BY <1>3, LaunchBounded
  <2>2. job' \in [Providers -> Jobs]
    BY <1>3 DEF Launch, LeftOut, PhTypeOK, Jobs, Results
  <2> QED BY <1>3, <2>1, <2>2 DEF Launch, PhTypeOK, Held
<1>4. ASSUME NEW s \in Providers, Sink(s) PROVE PhTypeOK' /\ Held'
  <2>1. PICK n \in Found \ memory[s] :
            /\ memory' = [memory EXCEPT ![s] = @ \cup {n}]
            /\ held' = [held EXCEPT ![s] = Remembered(s, n)]
    BY <1>4 DEF Sink
  <2>2. /\ held' \in [Providers -> SUBSET Found] /\ memory' \in [Providers -> SUBSET Found]
        /\ \A t \in Providers : Cardinality(held'[t]) <= WorkingSet
    BY <2>1, RememberedBounded DEF PhTypeOK, Held
  <2> QED BY <1>4, <2>2 DEF Sink, PhTypeOK, Held
<1>5. ASSUME NEW s \in Providers, Arrive(s) PROVE PhTypeOK' /\ Held'
  <2>1. PICK result \in {"ok", "partial", "deferral", "failure"} :
            job' = [job EXCEPT ![s] = result]
    BY <1>5 DEF Arrive
  <2>2. Cardinality({t \in Providers : job'[t] = "running"}) <= Connectors
    BY <2>1, FewerRun DEF PhTypeOK
  <2>3. job' \in [Providers -> Jobs]
    BY <2>1 DEF PhTypeOK, Jobs, Results
  <2> QED BY <1>5, <2>2, <2>3 DEF Arrive, PhTypeOK, Held
<1>6. ASSUME NEW s \in Providers, CollectNothing(s) \/ CollectAnswer(s) \/ CollectError(s)
      PROVE  PhTypeOK' /\ Held'
  <2>1. PICK read, own : TakeResult(s, read, own)
    BY <1>6 DEF CollectNothing, CollectAnswer, CollectError
  <2>2. origins' \in [Found -> SUBSET Providers]
    BY <2>1, TakenTyped
  <2>3. /\ job' = [job EXCEPT ![s] = "taken"] /\ held' = [held EXCEPT ![s] = {}]
        /\ UNCHANGED <<automatic, deadlined, area, asked, pstage, memory, gathered, unread,
                       culled>>
    BY <2>1 DEF TakeResult
  <2>4. Cardinality({t \in Providers : job'[t] = "running"}) <= Connectors
    BY <2>3, FewerRun DEF PhTypeOK
  <2>5. /\ held' \in [Providers -> SUBSET Found]
        /\ \A t \in Providers : Cardinality(held'[t]) <= WorkingSet
    BY <2>3, FS_EmptySet, LimitsTyped DEF Held, PhTypeOK
  <2>6. /\ streak' \in [Providers -> Nat] /\ pauses' \subseteq Providers
        /\ status' \in [Providers -> {"success", "degraded", "deferred", "failure"}]
    BY <1>6 DEF CollectNothing, CollectAnswer, CollectError, Record, StreakAfter, AnswerOutcome,
       ErrorOutcome, Paused, PhTypeOK
  <2>7. job' \in [Providers -> Jobs]
    BY <2>3 DEF PhTypeOK, Jobs
  <2> QED BY <2>2, <2>3, <2>4, <2>5, <2>6, <2>7 DEF PhTypeOK, Held
<1>7. CASE ExpirePhase
    BY <1>7, EmptyHeld DEF ExpirePhase, PhTypeOK, Held
<1>8. ASSUME NEW s \in Providers, Cancel(s) PROVE PhTypeOK' /\ Held'
  <2>1. origins' \in [Found -> SUBSET Providers]
    BY <1>8, MergedTyped DEF Cancel, PhTypeOK
  <2>2. job' = [job EXCEPT ![s] = "taken"]
    BY <1>8 DEF Cancel
  <2>3. Cardinality({t \in Providers : job'[t] = "running"}) <= Connectors
    BY <2>2, FewerRun DEF PhTypeOK
  <2>4. /\ streak' \in [Providers -> Nat]
        /\ status' \in [Providers -> {"success", "degraded", "deferred", "failure"}]
    BY <1>8 DEF Cancel, Record, StreakAfter, PhTypeOK
  <2> QED BY <1>8, <2>1, <2>2, <2>3, <2>4 DEF Cancel, PhTypeOK, Held, Jobs
<1>9. CASE Close
  <2>1. PICK ends \in BOOLEAN : \E o \in Refills(ends) : \E gone \in Excess(o) :
            /\ unread' = ends /\ culled' = gone
            /\ origins' = [n \in Found |-> IF n \in gone THEN {} ELSE o[n]]
    BY <1>9 DEF Close
  <2>2. PICK o \in Refills(ends) : \E gone \in Excess(o) :
            /\ unread' = ends /\ culled' = gone
            /\ origins' = [n \in Found |-> IF n \in gone THEN {} ELSE o[n]]
    BY <2>1
  <2>3. PICK gone \in Excess(o) :
            /\ unread' = ends /\ culled' = gone
            /\ origins' = [n \in Found |-> IF n \in gone THEN {} ELSE o[n]]
    BY <2>2
  <2>4. o \in [Found -> SUBSET Providers] /\ gone \subseteq Found
    BY DEF Refills, Excess
  <2> QED BY <1>9, <2>3, <2>4 DEF Close, PhTypeOK, Held
<1>10. CASE Join
  <2>1. gathered' \subseteq Found /\ Cardinality(gathered') <= MaxPassive
    BY <1>10, JoinBounded
  <2>2. \/ /\ area' \in Children /\ asked' \subseteq Children /\ pstage' = "preflight"
           /\ memory' = [s \in Providers |-> {}] /\ job' = [s \in Providers |-> "memory"]
           /\ origins' = NoOrigins /\ unread' = FALSE /\ culled' = {}
        \/ /\ pstage' = "over"
           /\ UNCHANGED <<area, asked, origins, unread, culled, memory, job>>
    BY <1>10 DEF Join, PhTypeOK
  <2>3. Cardinality({t \in Providers : job'[t] = "running"}) <= Connectors
    BY <2>2, FewerRun
  <2>4. UNCHANGED <<automatic, deadlined, streak, status, pauses, held>>
    BY <1>10 DEF Join
  <2> QED BY <2>1, <2>2, <2>3, <2>4 DEF PhTypeOK, Held, Zones, Jobs, NoOrigins
<1>11. CASE Forsake \/ Break
  <2>1. job' = [s \in Providers |-> "taken"] /\ origins' = NoOrigins
    BY <1>11 DEF Forsake, Break
  <2>2. Cardinality({t \in Providers : job'[t] = "running"}) <= Connectors
    BY <2>1, FewerRun
  <2>3. held' = held \/ held' = [s \in Providers |-> {}]
    BY <1>11 DEF Forsake, Break
  <2>4. /\ held' \in [Providers -> SUBSET Found]
        /\ \A t \in Providers : Cardinality(held'[t]) <= WorkingSet
    BY <2>3, EmptyHeld DEF Held, PhTypeOK
  <2> QED BY <1>11, <2>1, <2>2, <2>4 DEF Forsake, Break, PhTypeOK, Held, Jobs, NoOrigins
<1>12. CASE UNCHANGED phaseVars
    BY <1>12 DEF phaseVars, PhTypeOK, Held
<1> QED BY <1>1, <1>2, <1>3, <1>4, <1>5, <1>6, <1>7, <1>8, <1>9, <1>10, <1>11, <1>12 DEF PhNext

(* So do they at the start.                                                *)
LEMMA InitTyped == PhInit => PhTypeOK /\ Held
<1> SUFFICES ASSUME PhInit PROVE PhTypeOK /\ Held
    OBVIOUS
<1>1. /\ automatic \in BOOLEAN /\ deadlined \in BOOLEAN /\ streak \in [Providers -> Nat]
      /\ memory \in [Providers -> SUBSET Found]
  <2>1. PICK mode \in Modes : automatic = mode[1] /\ deadlined = mode[2]
    BY DEF PhInit
  <2>2. mode \in BOOLEAN \X BOOLEAN
    BY PhaseAssumption
  <2> QED BY <2>1, <2>2, PhaseAssumption DEF PhInit
<1>2. {s \in Providers : job[s] = "running"} = {}
    BY DEF PhInit
<1>3. /\ Cardinality({s \in Providers : job[s] = "running"}) <= Connectors
      /\ Cardinality(gathered) <= MaxPassive
    BY <1>2, FS_EmptySet, LimitsTyped DEF PhInit
<1>4. held \in [Providers -> SUBSET Found] /\ \A s \in Providers : Cardinality(held[s]) <= WorkingSet
    BY EmptyHeld DEF PhInit
<1> QED BY <1>1, <1>3, <1>4 DEF PhInit, PhTypeOK, Held, Zones, Jobs, NoOrigins

(* Whatever the connectors do, no more run than there are permits, none    *)
(* holds more than its working set, and a scan takes no more names than    *)
(* --max-passive.                                                          *)
THEOREM PhaseTyped == PhSpec => []PhTypeOK
<1>1. PhInit => PhTypeOK /\ Held
    BY InitTyped
<1>2. PhTypeOK /\ Held /\ [PhNext]_phaseVars => PhTypeOK' /\ Held'
    BY StepTyped
<1> QED BY <1>1, <1>2, PTL DEF PhSpec

-----------------------------------------------------------------------------
(* The end of a phase.                                                     *)

(* What the bulk cap takes was in the union it is taken from.              *)
LEMMA CulledWasThere ==
    ASSUME NEW o, NEW gone \in Excess(o)
    PROVE  \A n \in gone : n \in Found /\ o[n] # {}
BY DEF Excess

(* When a phase is done, every durable name of its zone is in its union,   *)
(* or was cut by one of the limits the phase reports.                      *)
THEOREM PhaseKeepsNames == PhSpec => []PhaseKept
<1>1. PhInit => PhaseKept
    BY DEF PhInit, PhaseKept
<1>2. PhTypeOK /\ PhaseKept /\ [PhNext]_phaseVars => PhaseKept'
  <2> SUFFICES ASSUME PhTypeOK, PhaseKept, [PhNext]_phaseVars PROVE PhaseKept'
    OBVIOUS
  <2>1. CASE Close
    <3>1. PICK ends \in BOOLEAN : \E o \in Refills(ends) : \E gone \in Excess(o) :
              /\ unread' = ends /\ culled' = gone
              /\ origins' = [n \in Found |-> IF n \in gone THEN {} ELSE o[n]]
      BY <2>1 DEF Close
    <3>2. PICK o \in Refills(ends) : \E gone \in Excess(o) :
              /\ unread' = ends /\ culled' = gone
              /\ origins' = [n \in Found |-> IF n \in gone THEN {} ELSE o[n]]
      BY <3>1
    <3>g. PICK gone \in Excess(o) :
              /\ unread' = ends /\ culled' = gone
              /\ origins' = [n \in Found |-> IF n \in gone THEN {} ELSE o[n]]
      BY <3>2
    <3> DEFINE all == {n \in Found : \E s \in Providers : n \in memory[s]}
               now == {n \in Found : o[n] # {}}
    <3>3. ~ends => all \subseteq now \/ Cardinality(now) = MaxPassive
      BY DEF Refills
    <3>4. (Union \cup culled)' = now
      BY <3>g, CulledWasThere DEF Union
    <3>5. memory' = memory /\ pstage' = "done"
      BY <2>1 DEF Close
    <3>6. ASSUME NEW s \in Providers, NEW n \in memory'[s]
          PROVE  \/ n \in (Union \cup culled)' \/ ends
                 \/ Cardinality((Union \cup culled)') = MaxPassive
      <4>1. n \in all
        BY <3>5 DEF PhTypeOK
      <4> QED BY <3>3, <3>4, <4>1
    <3> QED BY <3>g, <3>6 DEF PhaseKept
  <2>2. CASE UNCHANGED phaseVars
    BY <2>2 DEF phaseVars, PhaseKept, Union
  <2>3. CASE PhNext /\ ~Close
    <3>1. ASSUME Preflight \/ ExpirePhase \/ Join \/ Forsake \/ Break PROVE pstage' # "done"
      BY <3>1 DEF Preflight, ExpirePhase, Join, Forsake, Break
    <3>2. ASSUME NEW s \in Providers, Recall(s) \/ Launch(s) \/ Sink(s) \/ Arrive(s) \/ Cancel(s)
          PROVE  pstage' # "done"
      BY <3>2 DEF Recall, Launch, Sink, Arrive, Cancel
    <3>3. ASSUME NEW s \in Providers, CollectNothing(s) \/ CollectAnswer(s) \/ CollectError(s)
          PROVE  pstage' # "done"
      BY <3>3 DEF CollectNothing, CollectAnswer, CollectError, TakeResult
    <3>4. pstage' # "done"
      BY <2>3, <3>1, <3>2, <3>3 DEF PhNext
    <3> QED BY <3>4 DEF PhaseKept
  <2> QED BY <2>1, <2>2, <2>3
<1> QED BY <1>1, <1>2, PhaseTyped, PTL DEF PhSpec
=============================================================================
