------------------------------ MODULE LogIndex ------------------------------
(***************************************************************************)
(* What the index of the certificate transparency logs promises, without   *)
(* requests, pages, deadlines or processes.  Of each log a range of        *)
(* entries is covered: their names are in the index.  The stored cursor    *)
(* never points beyond it.                                                 *)
(***************************************************************************)
EXTENDS Integers

CONSTANTS
    Logs,
    MaxTree,   \* entries a log ever has
    NameAt     \* the name of each entry of each log

None == -1

VARIABLES
    one,      \* a single process uses the database
    cursor,   \* the stored next entry of each log, or None
    lo, hi,   \* the covered range lo..hi-1 of each log; hi is None before the first pass
    index     \* the names

avars == <<one, cursor, lo, hi, index>>

\* The names of the entries from..to-1 of a log.
Held(l, from, to) == {NameAt[l][i] : i \in from..(to - 1)}

AInit ==
    /\ one \in BOOLEAN
    /\ cursor = [l \in Logs |-> None]
    /\ lo = [l \in Logs |-> 0]
    /\ hi = [l \in Logs |-> None]
    /\ index = {}

\* Entries a..b-1 are added.  They continue the covered range, unless the log was never
\* covered or another process covered it at the same time.
Cover(l, a, b) ==
    /\ a <= b
    /\ cursor' \in {[cursor EXCEPT ![l] = b], [cursor EXCEPT ![l] = IF @ > b THEN @ ELSE b]}
    /\ a <= hi[l] \/ hi[l] = None \/ ~one
    /\ index' = index \cup Held(l, a, b)
    /\ lo' = IF a > hi[l] THEN [lo EXCEPT ![l] = a] ELSE lo
    /\ hi' = IF b > hi[l] THEN [hi EXCEPT ![l] = b] ELSE hi
    /\ UNCHANGED one

\* The log announced fewer entries than were covered: the cursor goes back.
Rewind(l, c) ==
    /\ c <= hi[l]
    /\ cursor' = [cursor EXCEPT ![l] = c]
    /\ UNCHANGED <<one, lo, hi, index>>

ANext == \E l \in Logs, a, b \in 0..MaxTree : Cover(l, a, b) \/ Rewind(l, a)

ASpec == AInit /\ [][ANext]_avars

\* Every entry of the covered range is in the index and the cursor is within the range.
Gapless ==
    \A l \in Logs :
        /\ \A i \in lo[l]..(hi[l] - 1) : NameAt[l][i] \in index
        /\ cursor[l] <= hi[l]
=============================================================================
