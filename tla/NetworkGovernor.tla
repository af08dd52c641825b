--------------------------- MODULE NetworkGovernor ---------------------------
(***************************************************************************)
(* The shared rate and concurrency governor (network_governor.rs).  Every  *)
(* finished request is observed; once five seconds have passed, the next   *)
(* observation closes the window and judges it.  A bad window backs off, a *)
(* third healthy one in a row recovers.  A rate of zero means unlimited.   *)
(*                                                                         *)
(* The judgement of a window (failure rate, latency against its baseline)  *)
(* is a choice; what it does to the limits is not.  All steps run under    *)
(* the mutex of the window.  The extremes kept for reports are left out.   *)
(***************************************************************************)
EXTENDS Integers

CONSTANTS
    MaxRates,         \* --dns-rate-limit: the values to try, 0 is unlimited
    MaxConcurrencies  \* --dns-concurrency: the values to try

ASSUME GovernorAssumption == MaxRates \subseteq Nat /\ MaxConcurrencies \subseteq Nat \ {0}

VARIABLES
    mode,       \* NetworkControl
    max_rate, max_concurrency,
    rate, concurrency,
    healthy,    \* healthy_windows
    judged,     \* the judgement of the last window, "none" before
    elapsed     \* five seconds have passed since the window started

govVars == <<mode, max_rate, max_concurrency, rate, concurrency, healthy, judged, elapsed>>

Least(a, b) == IF a < b THEN a ELSE b
Most(a, b) == IF a > b THEN a ELSE b
Clamp(x, low, high) == Least(Most(x, low), high)

\* NetworkGovernor::new
InitialRate(m, top) == IF m = "fixed" \/ top = 0 THEN top ELSE Clamp(top, 1, 50)
InitialConcurrency(m, top) == IF m = "fixed" THEN top ELSE Clamp(top, 1, 32)

GovInit ==
    /\ mode \in {"fixed", "adaptive"}
    /\ max_rate \in MaxRates /\ max_concurrency \in MaxConcurrencies
    /\ rate = InitialRate(mode, max_rate)
    /\ concurrency = InitialConcurrency(mode, max_concurrency)
    /\ healthy = 0 /\ judged = "none" /\ elapsed = FALSE

-----------------------------------------------------------------------------
\* Products of floating-point numbers miss an exact integer by one either way.
Seventy(r) == {(7 * r) \div 10} \cup (IF (7 * r) % 10 = 0 THEN {(7 * r) \div 10 - 1} ELSE {})
HundredTen(r) == LET up == (11 * r + 9) \div 10
                 IN {up} \cup (IF (11 * r) % 10 = 0 THEN {up + 1} ELSE {})

\* Mutant: nothing holds the rate up.
ReducedBare(r) == IF rate = 0 THEN 0 ELSE r

\* Zero stays zero; anything else stays at or above the floor.
Reduced(r) == IF rate = 0 THEN 0 ELSE Least(Most(r, Clamp(max_rate, 1, 10)), max_rate)
Increased(r) == IF rate = 0 THEN 0 ELSE Least(Most(r, rate + 1), max_rate)

BackOff ==
    /\ \E r \in Seventy(rate) : rate' = Reduced(r)
    /\ concurrency' = Most(concurrency \div 2, Clamp(max_concurrency, 1, 8))
    /\ healthy' = 0

\* Mutant: the count of healthy windows does not survive the window.
CountHealthyLost == 1

CountHealthy == healthy + 1

Recover ==
    IF CountHealthy < 3
    THEN healthy' = CountHealthy /\ UNCHANGED <<rate, concurrency>>
    ELSE /\ \E r \in HundredTen(rate) : rate' = Increased(r)
         /\ concurrency' = Least(concurrency + 8, max_concurrency)
         /\ healthy' = 0

\* evaluate_elapsed_window: a window with requests is judged and a new one starts.
EvaluateElapsedWindow ==
    /\ elapsed' = FALSE
    /\ judged' \in {"bad", "neutral", "healthy"}
    /\ CASE judged' = "bad" -> BackOff
         [] judged' = "neutral" -> healthy' = 0 /\ UNCHANGED <<rate, concurrency>>
         [] judged' = "healthy" -> Recover

\* observe_delta, observe_aggregate.  Nothing is observed in fixed mode; inside the window
\* the request is only added to it.
Observe ==
    /\ mode = "adaptive" /\ elapsed
    /\ EvaluateElapsedWindow
    /\ UNCHANGED <<mode, max_rate, max_concurrency>>

\* Five seconds pass.
Elapse ==
    /\ ~elapsed /\ elapsed' = TRUE
    /\ UNCHANGED <<mode, max_rate, max_concurrency, rate, concurrency, healthy, judged>>

GovNext == Elapse \/ Observe

\* Time passes and, while a scan works, requests keep finishing.
GovFairness == WF_govVars(Elapse) /\ WF_govVars(Observe)

GovSpec == GovInit /\ [][GovNext]_govVars /\ GovFairness

-----------------------------------------------------------------------------
GovTypeOK ==
    /\ mode \in {"fixed", "adaptive"}
    /\ max_rate \in MaxRates /\ max_concurrency \in MaxConcurrencies
    /\ rate \in Nat /\ concurrency \in Nat
    /\ healthy \in 0..2 /\ elapsed \in BOOLEAN
    /\ judged \in {"none", "bad", "neutral", "healthy"}

\* Backoff never reaches zero, which would lift the limit altogether, and recovery never
\* passes the ceiling: whatever the windows were, the limits stay between the floor of
\* evaluate_elapsed_window and the configured ceilings.
LimitsHold ==
    /\ rate = 0 <=> max_rate = 0
    /\ Least(10, max_rate) <= rate /\ rate <= max_rate
    /\ Least(8, max_concurrency) <= concurrency /\ concurrency <= max_concurrency

\* Once the network stays healthy the governor gets back to both configured ceilings, from
\* any backoff: the recovery is not eaten by rounding at low rates.
Recovers ==
    <>[](mode = "adaptive" /\ judged = "healthy")
        => <>[](rate = max_rate /\ concurrency = max_concurrency)
=============================================================================
