------------------------------- MODULE NamesProofs -------------------------------
(***************************************************************************)
(* What the sources of names promise, for every set of names and every     *)
(* limit: recursion over the labels of what was found, the transfer and    *)
(* the walk of a zone, and the feeds of words and of generated names.      *)
(* Their modules share no variable; the lemmas on numbers serve all three. *)
(***************************************************************************)
EXTENDS Recursion, Zones, Feeds, FiniteSetTheorems, SequenceTheorems, WellFoundedInduction, TLAPS


-----------------------------------------------------------------------------
(* Numbers and names.                                                      *)

\* A set of natural numbers has a least one.
LEMMA LeastOf ==
    ASSUME NEW S \in SUBSET Nat, S # {}
    PROVE  \E m \in S : \A k \in S : m <= k
<1>1. IsWellFoundedOn(OpToRel(<, Nat), Nat)  BY NatLessThanWellFounded
<1>2. PICK m \in S : \A k \in S : ~(<<k, m>> \in OpToRel(<, Nat))
  BY <1>1, WFMin, Zenon
<1>3. \A k \in S : ~(k < m)  BY <1>2 DEF OpToRel
<1> QED  BY <1>3

\* A bounded one has a greatest.
LEMMA GreatestOf ==
    ASSUME NEW n \in Nat, NEW S \in SUBSET (1..n), S # {}
    PROVE  \E m \in S : \A k \in S : k <= m
<1> DEFINE T == {j \in Nat : n - j \in S}
<1>1. T # {}
  <2>1. PICK k \in S : TRUE  OBVIOUS
  <2>2. n - k \in Nat /\ n - (n - k) = k  BY <2>1
  <2> QED  BY <2>2
<1>2. T \in SUBSET Nat  OBVIOUS
<1> HIDE DEF T
<1>3. PICK j \in T : \A k \in T : j <= k  BY <1>1, <1>2, LeastOf
<1>4. j \in Nat /\ n - j \in S  BY <1>3 DEF T
<1>5. ASSUME NEW k \in S PROVE k <= n - j
  <2>1. n - k \in Nat /\ n - (n - k) = k  OBVIOUS
  <2>2. n - k \in T  BY <2>1 DEF T
  <2>3. j <= n - k  BY <1>3, <2>2
  <2> QED  BY <1>4, <2>3
<1> QED  BY <1>4, <1>5

\* Names are sequences.
LEMMA NamesAreSeqs ==
    ASSUME NEW d \in Nat, NEW h \in NamesAt(d)
    PROVE  h \in Seq(1..Words) /\ Len(h) = d
<1>1. h \in [1..d -> 1..Words]  BY DEF NamesAt
<1>2. h \in Seq(1..Words)
  <2>1. [1..d -> 1..Words] \in {[1..n -> 1..Words] : n \in Nat}  OBVIOUS
  <2> QED  BY <1>1, <2>1, SeqDef
<1>3. Len(h) \in Nat /\ DOMAIN h = 1..Len(h)  BY <1>2, LenProperties
<1>4. 1..Len(h) = 1..d  BY <1>1, <1>3
<1> DEFINE l == Len(h)
<1>5. l \in Nat /\ 1..l = 1..d  BY <1>3, <1>4
<1> HIDE DEF l
<1>6. l = d
  <2>1. \A x \in Int : (1 <= x /\ x <= l) <=> (1 <= x /\ x <= d)
    <3> TAKE x \in Int
    <3>1. x \in 1..l <=> x \in 1..d  BY <1>5
    <3> QED  BY <1>5, <3>1
  <2> QED  BY <1>5, <2>1
<1> QED  BY <1>2, <1>6 DEF l

\* The names below a parent.
LEMMA NamesSplit ==
    ASSUME NEW d \in Nat \ {0}, NEW h \in NamesAt(d)
    PROVE  /\ Len(h) = d /\ WordOf(h) \in 1..Words /\ WordOf(h) = h[d]
           /\ ParentOf(h) \in NamesAt(d - 1)
           /\ \A i \in 1..(d - 1) : ParentOf(h)[i] = h[i]
<1>1. h \in Seq(1..Words) /\ Len(h) = d  BY NamesAreSeqs
<1>2. \A i \in 1..d : h[i] \in 1..Words  BY DEF NamesAt
<1>3. /\ SubSeq(h, 1, d - 1) \in Seq(1..Words) /\ Len(SubSeq(h, 1, d - 1)) = d - 1
      /\ \A i \in 1..(d - 1) : SubSeq(h, 1, d - 1)[i] = h[i]
  <2>1. \A i \in 1..(d - 1) : h[i] \in 1..Words  BY <1>2
  <2> DEFINE n == d - 1
  <2>2. n \in Int /\ 1 \in Int  OBVIOUS
  <2> HIDE DEF n
  <2>3. /\ SubSeq(h, 1, n) \in Seq(1..Words)
        /\ Len(SubSeq(h, 1, n)) = IF 1 <= n THEN n - 1 + 1 ELSE 0
        /\ \A i \in 1..(n - 1 + 1) : SubSeq(h, 1, n)[i] = h[1 + i - 1]
    BY <2>1, <2>2, SubSeqProperties DEF n
  <2> QED  BY <2>3 DEF n
<1>4. ParentOf(h) = SubSeq(h, 1, d - 1)  BY <1>1 DEF ParentOf
<1>5. ParentOf(h) \in NamesAt(d - 1)  BY <1>3, <1>4, LenProperties DEF NamesAt
<1> QED  BY <1>1, <1>2, <1>3, <1>4, <1>5 DEF WordOf

\* A parent and a word make a name.
LEMMA NamesJoin ==
    ASSUME NEW d \in Nat, NEW p \in NamesAt(d), NEW w \in 1..Words
    PROVE  /\ Append(p, w) \in NamesAt(d + 1)
           /\ ParentOf(Append(p, w)) = p /\ WordOf(Append(p, w)) = w
           /\ \A i \in 1..d : Append(p, w)[i] = p[i]
<1>1. p \in Seq(1..Words) /\ Len(p) = d  BY NamesAreSeqs
<1> DEFINE a == Append(p, w)
<1>2. /\ a \in Seq(1..Words) /\ Len(a) = d + 1
      /\ \A i \in 1..d : a[i] = p[i]
      /\ a[d + 1] = w
  BY <1>1, AppendProperties
<1> HIDE DEF a
<1>3. a \in NamesAt(d + 1)  BY <1>2, LenProperties DEF NamesAt
<1>4. ParentOf(a) = p
  <2>1. d + 1 \in Nat \ {0} /\ d + 1 - 1 = d  OBVIOUS
  <2>2. ParentOf(a) \in NamesAt(d) /\ \A i \in 1..d : ParentOf(a)[i] = a[i]
    BY <1>3, <2>1, NamesSplit
  <2> QED  BY <1>2, <2>2 DEF NamesAt
<1> QED  BY <1>2, <1>3, <1>4 DEF a, WordOf

\* A name is its parent and its word.
LEMMA NamesWhole ==
    ASSUME NEW d \in Nat \ {0}, NEW h \in NamesAt(d)
    PROVE  h = Append(ParentOf(h), WordOf(h))
<1> DEFINE a == Append(ParentOf(h), WordOf(h))
<1>1. /\ WordOf(h) \in 1..Words /\ WordOf(h) = h[d]
      /\ ParentOf(h) \in NamesAt(d - 1)
      /\ \A i \in 1..(d - 1) : ParentOf(h)[i] = h[i]
  BY NamesSplit
<1>2. d - 1 \in Nat /\ d - 1 + 1 = d  OBVIOUS
<1>3. /\ a \in NamesAt(d) /\ WordOf(a) = WordOf(h)
      /\ \A i \in 1..(d - 1) : a[i] = ParentOf(h)[i]
  BY <1>1, <1>2, NamesJoin
<1> HIDE DEF a
<1>4. a[d] = h[d]  BY <1>1, <1>3, NamesSplit
<1>5. \A i \in 1..d : a[i] = h[i]  BY <1>1, <1>3, <1>4
<1> QED  BY <1>3, <1>5 DEF a, NamesAt

\* The names of one depth are finite in number.
LEMMA NamesFinite ==
    ASSUME NEW d \in Nat
    PROVE  IsFiniteSet(NamesAt(d))
<1> DEFINE Bad == {n \in Nat : ~IsFiniteSet(NamesAt(n))}
<1> SUFFICES ASSUME Bad # {} PROVE FALSE
  OBVIOUS
<1>1. Bad \in SUBSET Nat  OBVIOUS
<1>2. PICK m \in Bad : \A k \in Bad : m <= k  BY <1>1, LeastOf
<1>3. m # 0
  <2>1. NamesAt(0) \subseteq {<<>>}  BY DEF NamesAt
  <2>2. IsFiniteSet({<<>>})  BY FS_Singleton
  <2> QED  BY <2>1, <2>2, FS_Subset
<1>4. m \in Nat \ {0} /\ m - 1 \in Nat /\ m - 1 + 1 = m  BY <1>3
<1>5. IsFiniteSet(NamesAt(m - 1))  BY <1>2, <1>4
<1> DEFINE Pairs == NamesAt(m - 1) \X (1..Words)
           f == [x \in Pairs |-> Append(x[1], x[2])]
<1>6. IsFiniteSet(Pairs)
  <2>1. IsFiniteSet(1..Words)  BY FS_Interval, RecursionAssumption
  <2> QED  BY <1>5, <2>1, FS_Product
<1>7. f \in Surjection(Pairs, NamesAt(m))
  <2>1. f \in [Pairs -> NamesAt(m)]  BY <1>4, NamesJoin
  <2>2. \A h \in NamesAt(m) : \E x \in Pairs : f[x] = h
    <3> TAKE h \in NamesAt(m)
    <3>1. <<ParentOf(h), WordOf(h)>> \in Pairs  BY <1>4, NamesSplit
    <3>2. f[<<ParentOf(h), WordOf(h)>>] = h  BY <1>4, <3>1, NamesWhole
    <3> QED  BY <3>1, <3>2
  <2> QED  BY <2>1, <2>2 DEF Surjection
<1> HIDE DEF Pairs, f
<1>8. IsFiniteSet(NamesAt(m))  BY <1>6, <1>7, FS_Surjection
<1> QED  BY <1>2, <1>8

-----------------------------------------------------------------------------
(* The invariant.                                                          *)

Outcomes == {"pending", "answer", "denied", "error", "silent", "unstarted"}
InDepth == {"refill", "claim", "resolve", "settle", "requeue"}
Working == {"resolve", "settle", "requeue"}
Waiting(h) == rows[h] \in {"queued", "processing"}

RecTypes ==
    /\ answers \subseteq NamesAt(1) \cup Candidates /\ ended \subseteq Candidates
    /\ cursor \in [Parents -> 0..(Words + 1)]
    /\ rows \in [Candidates -> {"none", "queued", "processing", "gone"}]
    /\ attempts \in [Candidates -> 0..Retries]
    /\ depth \in 2..(Depths + 1) /\ yield \in 0..2
    /\ run \in InDepth \cup {"depth", "over", "stopped", "partial", "completed"}
    /\ DOMAIN claimed \subseteq NamesAt(depth) \cap Candidates
    /\ claimed \in [DOMAIN claimed -> Outcomes]
    /\ run \notin Working => DOMAIN claimed = {}
    /\ run \in InDepth => depth <= Depths

\* What a batch and its rows have in common at each point of its work.
BatchBooks ==
    /\ run \in {"resolve", "settle"} => \A h \in DOMAIN claimed : rows[h] = "processing"
    /\ run = "requeue" => \A h \in DOMAIN claimed : claimed[h] = "unstarted" => rows[h] = "processing"
    /\ run \in {"settle", "requeue"} => \A h \in DOMAIN claimed : claimed[h] # "pending"
    /\ \A h \in DOMAIN claimed : /\ claimed[h] = "answer" => h \in answers
                                 /\ claimed[h] = "denied" => h \in ended

\* A waiting row has an attempt left, unless its last one is on its way to the books.
AttemptsLeft ==
    \A h \in Candidates :
        /\ rows[h] = "none" => attempts[h] = 0
        /\ Waiting(h) /\ attempts[h] >= Retries =>
            \/ run = "stopped"
            \/ run = "settle" /\ h \in DOMAIN claimed /\ claimed[h] \in {"answer", "denied", "error"}

\* A row that is gone has its end, and so has or waits whatever a cursor has passed.
GoneEnded == \A h \in Candidates : rows[h] = "gone" => h \in answers \cup ended
PassedKept ==
    \A h \in Candidates : WordOf(h) < cursor[ParentOf(h)] => Waiting(h) \/ h \in answers \cup ended
AllDone ==
    run = "completed" => \A h \in Candidates : cursor[ParentOf(h)] # 0 => h \in answers \cup ended

RecInv == RecTypes /\ BatchBooks /\ AttemptsLeft /\ GoneEnded /\ PassedKept /\ AllDone

-----------------------------------------------------------------------------
(* Depths, parents and pages.                                              *)

\* The level of a name, its parent's and its word.
LEMMA CandidateAt ==
    ASSUME NEW h \in Candidates
    PROVE  \E d \in 2..Depths : h \in NamesAt(d)
BY DEF Candidates

LEMMA LevelOf ==
    ASSUME NEW d \in 2..Depths, NEW h \in NamesAt(d)
    PROVE  /\ h \in Candidates /\ Len(h) = d
           /\ ParentOf(h) \in NamesAt(d - 1) /\ ParentOf(h) \in Parents
           /\ WordOf(h) \in 1..Words /\ WordOf(h) = h[d]
<1>1. d \in Nat \ {0} /\ Depths \in Nat  BY RecursionAssumption
<1>2. d - 1 \in 1..(Depths - 1)  BY <1>1
<1>3. h \in Candidates  BY DEF Candidates
<1>4. /\ Len(h) = d /\ WordOf(h) \in 1..Words /\ WordOf(h) = h[d]
      /\ ParentOf(h) \in NamesAt(d - 1)
  BY <1>1, NamesSplit
<1> QED  BY <1>2, <1>3, <1>4 DEF Parents

LEMMA CandidateParts ==
    ASSUME NEW h \in Candidates
    PROVE  ParentOf(h) \in Parents /\ WordOf(h) \in 1..Words
BY CandidateAt, LevelOf

\* What is below a parent of one level is of the next.
LEMMA BelowParent ==
    ASSUME NEW d \in 2..Depths, NEW h \in Candidates, ParentOf(h) \in NamesAt(d - 1)
    PROVE  h \in NamesAt(d)
<1>1. PICK e \in 2..Depths : h \in NamesAt(e)  BY CandidateAt
<1>2. ParentOf(h) \in NamesAt(e - 1)  BY <1>1, LevelOf
<1>3. d - 1 \in Nat /\ e - 1 \in Nat  OBVIOUS
<1>4. Len(ParentOf(h)) = d - 1  BY <1>3, NamesAreSeqs
<1>5. Len(ParentOf(h)) = e - 1  BY <1>2, <1>3, NamesAreSeqs
<1>6. d = e  BY <1>4, <1>5
<1> QED  BY <1>1, <1>6

\* The row of the names before one grows with the word.
LEMMA BeforeGrows ==
    ASSUME NEW d \in 2..Depths, NEW h \in NamesAt(d), NEW w \in 1..Words, WordOf(h) <= w,
           NEW g \in NamesAt(d), Before(g, h)
    PROVE  Before(g, Append(ParentOf(h), w))
<1> DEFINE p == ParentOf(h)
           a == Append(p, w)
<1>1. d \in Nat \ {0} /\ d - 1 \in Nat /\ d - 1 + 1 = d  OBVIOUS
<1>2. Len(g) = d  BY LevelOf
<1>3. /\ WordOf(h) = h[d] /\ p \in NamesAt(d - 1) /\ \A i \in 1..(d - 1) : p[i] = h[i]
  BY <1>1, NamesSplit
<1>4. /\ a \in NamesAt(d) /\ WordOf(a) = w /\ \A i \in 1..(d - 1) : a[i] = p[i]
  BY <1>1, <1>3, NamesJoin
<1>5. a[d] = w  BY <1>4, LevelOf
<1> HIDE DEF a, p
<1>6. \A i \in 1..(d - 1) : a[i] = h[i]  BY <1>3, <1>4
<1>7. h[d] <= a[d]  BY <1>3, <1>5
<1>8. PICK i \in 1..d : (\A j \in 1..(i - 1) : g[j] = h[j]) /\ g[i] < h[i]
  BY <1>2 DEF Before
<1>9. \A j \in 1..(i - 1) : g[j] = a[j]  BY <1>6, <1>8
<1>10. \A k \in 1..d : g[k] \in Nat /\ h[k] \in Nat /\ a[k] \in Nat  BY <1>4 DEF NamesAt
<1>11. g[i] < a[i]
  <2>1. CASE i = d  BY <1>7, <1>8, <1>10, <2>1
  <2>2. CASE i # d
    <3>1. i \in 1..(d - 1)  BY <2>2
    <3> QED  BY <3>1, <1>6, <1>8
  <2> QED  BY <2>1, <2>2
<1> QED  BY <1>2, <1>9, <1>11 DEF Before, a, p

\* The page of a refill.
PageOf(d, capacity) ==
    {h \in Left(d) : Cardinality({g \in Left(d) : Before(g, h)}) < capacity}

\* A page holds, with a name, every word left before it below its parent.
LEMMA PageFills ==
    ASSUME NEW d \in 2..Depths, NEW c \in Nat, NEW h \in Left(d), NEW w \in 1..Words,
           WordOf(h) <= w, Append(ParentOf(h), w) \in PageOf(d, c)
    PROVE  h \in PageOf(d, c)
<1> DEFINE a == Append(ParentOf(h), w)
           S == {g \in Left(d) : Before(g, h)}
           T == {g \in Left(d) : Before(g, a)}
<1>1. Left(d) \subseteq NamesAt(d)  BY DEF Left
<1>2. IsFiniteSet(T)
  <2>1. d \in Nat  OBVIOUS
  <2>2. IsFiniteSet(NamesAt(d))  BY <2>1, NamesFinite
  <2>3. T \subseteq NamesAt(d)  BY <1>1
  <2> QED  BY <2>2, <2>3, FS_Subset
<1>3. S \subseteq T  BY <1>1, BeforeGrows
<1>4. IsFiniteSet(S) /\ Cardinality(S) <= Cardinality(T)  BY <1>2, <1>3, FS_Subset
<1>5. Cardinality(S) \in Nat /\ Cardinality(T) \in Nat  BY <1>2, <1>4, FS_CardinalityType
<1>6. Cardinality(T) < c  BY DEF PageOf
<1> HIDE DEF S, T
<1>7. Cardinality(S) < c  BY <1>4, <1>5, <1>6
<1> QED  BY <1>7 DEF S, PageOf

\* The cursor of a parent after a page.
MovedCursor(page, p) ==
    IF \E h \in page : ParentOf(h) = p
    THEN 1 + CHOOSE w \in 1..Words :
                /\ Append(p, w) \in page
                /\ \A v \in 1..Words : Append(p, v) \in page => v <= w
    ELSE cursor[p]

\* It is past the last word of the page below that parent.
LEMMA CursorMoved ==
    ASSUME NEW d \in 2..Depths, NEW page \in SUBSET NamesAt(d), NEW p, \E h \in page : ParentOf(h) = p
    PROVE  \E w \in 1..Words : Append(p, w) \in page /\ MovedCursor(page, p) = 1 + w
<1> DEFINE Ws == {w \in 1..Words : Append(p, w) \in page}
<1>1. PICK h \in page : ParentOf(h) = p  OBVIOUS
<1>2. h = Append(p, WordOf(h)) /\ WordOf(h) \in 1..Words
  <2>1. d \in Nat \ {0}  OBVIOUS
  <2> QED  BY <1>1, <2>1, NamesWhole, LevelOf
<1>3. Ws # {}  BY <1>1, <1>2
<1>4. Ws \in SUBSET (1..Words) /\ Words \in Nat  BY RecursionAssumption
<1>5. PICK m \in Ws : \A k \in Ws : k <= m  BY <1>3, <1>4, GreatestOf
<1> DEFINE Q(w) == Append(p, w) \in page /\ \A v \in 1..Words : Append(p, v) \in page => v <= w
<1>6. m \in 1..Words /\ Q(m)  BY <1>5
<1> DEFINE W == CHOOSE w \in 1..Words : Q(w)
<1>7. W \in 1..Words /\ Q(W)
  <2> HIDE DEF Q
  <2> QED  BY <1>6
<1>8. MovedCursor(page, p) = 1 + W  BY DEF MovedCursor
<1> QED  BY <1>7, <1>8

-----------------------------------------------------------------------------
(* The steps of a depth.                                                   *)

LEMMA RecInitInv == RecInit => RecInv
<1> SUFFICES ASSUME RecInit PROVE RecInv
  OBVIOUS
<1> USE RecursionAssumption DEF RecInit
<1>1. RecTypes  BY DEF RecTypes, InDepth, Working, NoBatch
<1>2. BatchBooks  BY DEF BatchBooks, NoBatch
<1>3. AttemptsLeft  BY DEF AttemptsLeft, Waiting
<1>4. GoneEnded  BY DEF GoneEnded
<1>5. PassedKept  BY CandidateParts DEF PassedKept
<1>6. AllDone  BY DEF AllDone
<1> QED  BY <1>1, <1>2, <1>3, <1>4, <1>5, <1>6 DEF RecInv

LEMMA StartDepthInv == RecInv /\ StartDepth => RecInv'
<1> SUFFICES ASSUME RecInv, StartDepth PROVE RecInv'
  OBVIOUS
<1> USE RecursionAssumption
<1>1. PICK new \in SUBSET (answers \cap NamesAt(depth - 1)) :
        cursor' = [p \in Parents |-> IF p \in new /\ cursor[p] = 0 THEN 1 ELSE cursor[p]]
  BY DEF StartDepth
<1>2. run = "depth" /\ depth <= Depths /\ yield' = 0 /\ run' \in {"over", "refill"}
  BY DEF StartDepth
<1>3. UNCHANGED <<answers, rows, attempts, ended, depth, claimed>>  BY DEF StartDepth
<1>4. RecTypes  BY DEF RecInv
<1>5. DOMAIN claimed = {}  BY <1>2, <1>4 DEF RecTypes, Working
<1>6. RecTypes'  BY <1>1, <1>2, <1>3, <1>4, <1>5 DEF RecTypes, InDepth, Working
<1>7. BatchBooks'  BY <1>2, <1>3, <1>5 DEF BatchBooks
<1>8. AttemptsLeft'  BY <1>2, <1>3 DEF RecInv, AttemptsLeft, Waiting
<1>9. GoneEnded'  BY <1>3 DEF RecInv, GoneEnded
<1>10. PassedKept'
  <2> SUFFICES ASSUME NEW h \in Candidates, WordOf(h) < cursor'[ParentOf(h)]
               PROVE  Waiting(h)' \/ h \in answers' \cup ended'
    BY DEF PassedKept
  <2>1. ParentOf(h) \in Parents /\ WordOf(h) \in 1..Words  BY CandidateParts
  <2>2. cursor'[ParentOf(h)] \in {1, cursor[ParentOf(h)]}  BY <1>1, <2>1
  <2>3. cursor'[ParentOf(h)] # 1  BY <2>1
  <2>4. WordOf(h) < cursor[ParentOf(h)]  BY <2>2, <2>3
  <2> QED  BY <1>3, <2>4 DEF RecInv, PassedKept, Waiting
<1>11. AllDone'  BY <1>2 DEF AllDone
<1> QED  BY <1>6, <1>7, <1>8, <1>9, <1>10, <1>11 DEF RecInv

LEMMA RefillRecursiveInv == RecInv /\ RefillRecursive => RecInv'
<1> SUFFICES ASSUME RecInv, RefillRecursive PROVE RecInv'
  OBVIOUS
<1> USE RecursionAssumption
<1>1. RecTypes /\ run = "refill" /\ run' = "claim" /\ depth \in 2..Depths
  BY DEF RecInv, RecTypes, RefillRecursive, InDepth
<1>2. UNCHANGED <<answers, attempts, ended, depth, claimed, yield>>  BY DEF RefillRecursive
<1> DEFINE c == IF Cardinality(Alive(depth)) < WaveSize
                THEN WaveSize - Cardinality(Alive(depth)) ELSE 0
           page == PageOf(depth, c)
<1>3. c \in Nat
  <2>1. IsFiniteSet(NamesAt(depth))  BY <1>1, NamesFinite
  <2>2. IsFiniteSet(Alive(depth))  BY <2>1, FS_Subset DEF Alive
  <2>3. Cardinality(Alive(depth)) \in Nat  BY <2>2, FS_CardinalityType
  <2> QED  BY <2>3
<1>4. rows' = [h \in Candidates |-> IF h \in page /\ rows[h] = "none" THEN "queued" ELSE rows[h]]
  BY DEF RefillRecursive, PageOf
<1>5. cursor' = [p \in Parents |-> MovedCursor(page, p)]
  BY Zenon DEF RefillRecursive, PageOf, Advanced, MovedCursor
<1> HIDE DEF c
<1>6. page \subseteq NamesAt(depth) /\ page \subseteq Left(depth)  BY DEF PageOf, Left
<1> DEFINE pg == page
<1>7. \A p \in Parents : \/ cursor'[p] = cursor[p]
                         \/ \E w \in 1..Words : Append(p, w) \in page /\ cursor'[p] = 1 + w
  <2> SUFFICES ASSUME NEW p \in Parents
               PROVE  \/ cursor'[p] = cursor[p]
                      \/ \E w \in 1..Words : Append(p, w) \in page /\ cursor'[p] = 1 + w
    OBVIOUS
  <2>1. cursor'[p] = MovedCursor(page, p)  BY <1>5
  <2>2. CASE \E h \in page : ParentOf(h) = p
    <3> HIDE DEF page
    <3> QED  BY <1>1, <1>6, <2>1, <2>2, CursorMoved
  <2>3. CASE ~ \E h \in page : ParentOf(h) = p
    <3> HIDE DEF page
    <3> QED  BY <2>1, <2>3 DEF MovedCursor
  <2> QED  BY <2>2, <2>3
<1>8. \A h \in Candidates : WordOf(h) < cursor'[ParentOf(h)] =>
         WordOf(h) < cursor[ParentOf(h)] \/ h \in page
  <2> SUFFICES ASSUME NEW h \in Candidates, WordOf(h) < cursor'[ParentOf(h)],
                      ~(WordOf(h) < cursor[ParentOf(h)])
               PROVE  h \in page
    OBVIOUS
  <2> DEFINE p == ParentOf(h)
  <2>1. p \in Parents /\ WordOf(h) \in 1..Words  BY CandidateParts
  <2>2. PICK w \in 1..Words : Append(p, w) \in page /\ cursor'[p] = 1 + w
    BY <1>7, <2>1
  <2>3. WordOf(h) <= w  BY <2>1, <2>2
  <2>4. ParentOf(Append(p, w)) = p
    <3>1. PICK e \in 2..Depths : h \in NamesAt(e)  BY CandidateAt
    <3>2. e - 1 \in Nat /\ p \in NamesAt(e - 1)  BY <3>1, LevelOf
    <3> QED  BY <3>2, NamesJoin
  <2>5. p \in NamesAt(depth - 1) /\ cursor[p] # 0
    <3>1. Append(p, w) \in Left(depth)  BY <1>6, <2>2
    <3>2. Append(p, w) \in NamesAt(depth) /\ cursor[p] # 0  BY <2>4, <3>1 DEF Left
    <3> QED  BY <1>1, <2>4, <3>2, LevelOf
  <2>6. h \in NamesAt(depth)  BY <1>1, <2>5, BelowParent
  <2>7. cursor[p] \in Int  BY <1>1, <2>1 DEF RecTypes
  <2>8. h \in Left(depth)  BY <2>1, <2>5, <2>6, <2>7 DEF Left
  <2> QED  BY <1>1, <1>3, <2>2, <2>3, <2>8, PageFills
<1> HIDE DEF page
<1>9. RecTypes'
  <2>1. cursor' \in [Parents -> 0..(Words + 1)]
    <3>1. \A p \in Parents : cursor'[p] \in 0..(Words + 1)  BY <1>1, <1>7 DEF RecTypes
    <3> QED  BY <1>5, <3>1
  <2>2. rows' \in [Candidates -> {"none", "queued", "processing", "gone"}]
    BY <1>1, <1>4 DEF RecTypes
  <2> QED  BY <1>1, <1>2, <2>1, <2>2 DEF RecTypes, InDepth, Working
<1>10. BatchBooks'
  <2>1. DOMAIN claimed = {}  BY <1>1 DEF RecTypes, Working
  <2> QED  BY <1>1, <1>2, <2>1 DEF BatchBooks
<1>11. AttemptsLeft'
  <2> SUFFICES ASSUME NEW h \in Candidates
               PROVE  /\ rows'[h] = "none" => attempts[h] = 0
                      /\ Waiting(h)' => ~(attempts[h] >= Retries)
    BY <1>2 DEF AttemptsLeft
  <2>1. /\ rows[h] = "none" => attempts[h] = 0
        /\ Waiting(h) => ~(attempts[h] >= Retries)
    BY <1>1 DEF RecInv, AttemptsLeft
  <2>2. rows'[h] = rows[h] \/ (rows[h] = "none" /\ rows'[h] = "queued")  BY <1>4
  <2>3. ~(0 >= Retries)  OBVIOUS
  <2> QED  BY <2>1, <2>2, <2>3 DEF Waiting
<1>12. GoneEnded'  BY <1>2, <1>4 DEF RecInv, GoneEnded
<1>13. PassedKept'
  <2> SUFFICES ASSUME NEW h \in Candidates, WordOf(h) < cursor'[ParentOf(h)]
               PROVE  Waiting(h)' \/ h \in answers' \cup ended'
    BY DEF PassedKept
  <2>1. CASE WordOf(h) < cursor[ParentOf(h)]
    <3>1. Waiting(h) \/ h \in answers \cup ended  BY <2>1 DEF RecInv, PassedKept
    <3> QED  BY <1>2, <1>4, <3>1 DEF Waiting
  <2>2. CASE h \in page
    <3>1. rows[h] \in {"none", "queued", "processing", "gone"}  BY <1>1 DEF RecTypes
    <3>2. rows[h] = "gone" => h \in answers \cup ended  BY DEF RecInv, GoneEnded
    <3> QED  BY <1>2, <1>4, <2>2, <3>1, <3>2 DEF Waiting
  <2> QED  BY <1>8, <2>1, <2>2
<1>14. AllDone'  BY <1>1 DEF AllDone
<1> QED  BY <1>9, <1>10, <1>11, <1>12, <1>13, <1>14 DEF RecInv

\* A step that only moves the run between its points keeps the books of what it leaves alone.
LEMMA RunMoves ==
    ASSUME RecInv, run \in {"depth", "refill", "claim"}, DOMAIN claimed = {},
           run' \in {"depth", "refill", "over"}, UNCHANGED <<Durable, claimed, yield>>,
           depth' \in 2..(Depths + 1), run' = "refill" => depth' <= Depths
    PROVE  RecInv'
<1> USE RecursionAssumption DEF Durable
<1>1. RecTypes'  BY DEF RecInv, RecTypes, InDepth, Working
<1>2. BatchBooks'  BY DEF BatchBooks
<1>3. AttemptsLeft'  BY DEF RecInv, AttemptsLeft, Waiting
<1>4. GoneEnded'  BY DEF RecInv, GoneEnded
<1>5. PassedKept'  BY DEF RecInv, PassedKept, Waiting
<1>6. AllDone'  BY DEF AllDone
<1> QED  BY <1>1, <1>2, <1>3, <1>4, <1>5, <1>6 DEF RecInv

LEMMA LastDepthInv == RecInv /\ LastDepth => RecInv'
<1> SUFFICES ASSUME RecInv, LastDepth PROVE RecInv'
  OBVIOUS
<1>1. run = "depth" /\ run' = "over" /\ UNCHANGED <<Durable, depth, claimed, yield>>
  BY DEF LastDepth
<1>2. DOMAIN claimed = {} /\ depth \in 2..(Depths + 1)
  BY <1>1 DEF RecInv, RecTypes, Working
<1> QED  BY <1>1, <1>2, RunMoves

LEMMA OutOfTimeInv == RecInv /\ OutOfTime => RecInv'
<1> SUFFICES ASSUME RecInv, OutOfTime PROVE RecInv'
  OBVIOUS
<1>1. run \in {"refill", "claim"} /\ UNCHANGED <<Durable, claimed, yield>>
  BY DEF OutOfTime
<1>2. DOMAIN claimed = {} /\ depth \in 2..Depths
  BY <1>1, RecursionAssumption DEF RecInv, RecTypes, Working, InDepth
<1>3. run' \in {"over", "depth"} /\ depth' \in 2..(Depths + 1)
  BY <1>2, RecursionAssumption DEF OutOfTime
<1> QED  BY <1>1, <1>2, <1>3, RunMoves

LEMMA ClaimNothingInv == RecInv /\ ClaimNothing => RecInv'
<1> SUFFICES ASSUME RecInv, ClaimNothing PROVE RecInv'
  OBVIOUS
<1>1. run = "claim" /\ UNCHANGED <<Durable, claimed, yield>>
  BY DEF ClaimNothing
<1>2. DOMAIN claimed = {} /\ depth \in 2..Depths
  BY <1>1, RecursionAssumption DEF RecInv, RecTypes, Working, InDepth
<1>3. /\ run' \in {"over", "depth", "refill"} /\ depth' \in 2..(Depths + 1)
      /\ run' = "refill" => depth' <= Depths
  BY <1>2, RecursionAssumption DEF ClaimNothing
<1> QED  BY <1>1, <1>2, <1>3, RunMoves

LEMMA ClaimBatchInv == RecInv /\ ClaimBatch => RecInv'
<1> SUFFICES ASSUME RecInv, ClaimBatch PROVE RecInv'
  OBVIOUS
<1> USE RecursionAssumption
<1>1. RecTypes /\ run = "claim" /\ run' \in {"refill", "resolve"} /\ depth \in 2..Depths
  BY DEF RecInv, RecTypes, ClaimBatch, InDepth
<1>2. UNCHANGED <<answers, attempts, ended, cursor, depth, yield>>  BY DEF ClaimBatch
<1>3. /\ rows' = [h \in Candidates |-> IF h \notin Taken THEN rows[h]
                  ELSE IF h \in answers THEN "gone" ELSE "processing"]
      /\ claimed' = [h \in Taken \ answers |-> "pending"]
      /\ run' = "refill" => Taken \subseteq answers
  BY DEF ClaimBatch
<1>4. /\ Taken \subseteq NamesAt(depth) \cap Candidates
      /\ \A h \in Taken : rows[h] = "queued" /\ attempts[h] < Retries
  BY <1>1, LevelOf DEF Taken, RecClaimable
<1> HIDE DEF Taken
<1>5. RecTypes'
  <2>1. claimed' \in [DOMAIN claimed' -> Outcomes]  BY <1>3 DEF Outcomes
  <2>2. DOMAIN claimed' \subseteq NamesAt(depth) \cap Candidates  BY <1>3, <1>4
  <2>3. rows' \in [Candidates -> {"none", "queued", "processing", "gone"}]
    BY <1>1, <1>3 DEF RecTypes
  <2>4. run' \notin Working => DOMAIN claimed' = {}  BY <1>1, <1>3 DEF Working
  <2> QED  BY <1>1, <1>2, <2>1, <2>2, <2>3, <2>4 DEF RecTypes, InDepth
<1>6. BatchBooks'
  <2>1. \A h \in DOMAIN claimed' : claimed'[h] = "pending" /\ rows'[h] = "processing"
    BY <1>3, <1>4
  <2> QED  BY <1>1, <2>1 DEF BatchBooks
<1>7. AttemptsLeft'
  <2> SUFFICES ASSUME NEW h \in Candidates
               PROVE  /\ rows'[h] = "none" => attempts[h] = 0
                      /\ Waiting(h)' => ~(attempts[h] >= Retries)
    BY <1>2 DEF AttemptsLeft
  <2>1. /\ rows[h] = "none" => attempts[h] = 0
        /\ Waiting(h) => ~(attempts[h] >= Retries)
    BY <1>1 DEF RecInv, AttemptsLeft
  <2>2. rows'[h] = rows[h] \/ (rows[h] = "queued" /\ rows'[h] \in {"gone", "processing"})
    BY <1>3, <1>4
  <2> QED  BY <2>1, <2>2 DEF Waiting
<1>8. GoneEnded'  BY <1>2, <1>3 DEF RecInv, GoneEnded
<1>9. PassedKept'
  <2> SUFFICES ASSUME NEW h \in Candidates, WordOf(h) < cursor[ParentOf(h)]
               PROVE  Waiting(h)' \/ h \in answers \cup ended
    BY <1>2 DEF PassedKept
  <2>1. Waiting(h) \/ h \in answers \cup ended  BY DEF RecInv, PassedKept
  <2> QED  BY <1>3, <2>1 DEF Waiting
<1>10. AllDone'  BY <1>1 DEF AllDone
<1> QED  BY <1>5, <1>6, <1>7, <1>8, <1>9, <1>10 DEF RecInv

LEMMA ResolveNameInv ==
    ASSUME RecInv, NEW n \in DOMAIN claimed, ResolveName(n)
    PROVE  RecInv'
<1> USE RecursionAssumption
<1>1. RecTypes /\ run = "resolve" /\ claimed[n] = "pending"
  BY DEF RecInv, ResolveName, Of
<1>2. UNCHANGED <<cursor, rows, attempts, run, depth, yield>>  BY DEF ResolveName
<1>3. PICK how \in {"answer", "denied", "error", "silent", "unstarted"} :
        /\ claimed' = [claimed EXCEPT ![n] = how]
        /\ answers' = answers \cup (IF how = "answer" THEN {n} ELSE {})
        /\ ended' = ended \cup (IF how = "denied" THEN {n} ELSE {})
  BY DEF ResolveName
<1>4. n \in Candidates /\ DOMAIN claimed' = DOMAIN claimed  BY <1>1, <1>3 DEF RecTypes
<1>5. RecTypes'
  <2>1. claimed' \in [DOMAIN claimed -> Outcomes]  BY <1>1, <1>3 DEF RecTypes, Outcomes
  <2> QED  BY <1>1, <1>2, <1>3, <1>4, <2>1 DEF RecTypes
<1>6. BatchBooks'
  <2>1. \A h \in DOMAIN claimed : claimed'[h] = IF h = n THEN how ELSE claimed[h]
    BY <1>1, <1>3 DEF RecTypes
  <2>2. \A h \in DOMAIN claimed : rows[h] = "processing"  BY <1>1 DEF RecInv, BatchBooks
  <2>3. \A h \in DOMAIN claimed : /\ claimed'[h] = "answer" => h \in answers'
                                  /\ claimed'[h] = "denied" => h \in ended'
    BY <1>3, <2>1 DEF RecInv, BatchBooks
  <2> QED  BY <1>1, <1>2, <1>4, <2>2, <2>3 DEF BatchBooks
<1>7. AttemptsLeft'
  <2>1. \A h \in Candidates : /\ rows[h] = "none" => attempts[h] = 0
                              /\ Waiting(h) => ~(attempts[h] >= Retries)
    BY <1>1 DEF RecInv, AttemptsLeft
  <2> QED  BY <1>2, <2>1 DEF AttemptsLeft, Waiting
<1>8. GoneEnded'  BY <1>2, <1>3 DEF RecInv, GoneEnded
<1>9. PassedKept'  BY <1>2, <1>3 DEF RecInv, PassedKept, Waiting
<1>10. AllDone'  BY <1>1, <1>2 DEF AllDone
<1> QED  BY <1>5, <1>6, <1>7, <1>8, <1>9, <1>10 DEF RecInv

LEMMA ChargeInv == RecInv /\ Charge => RecInv'
<1> SUFFICES ASSUME RecInv, Charge PROVE RecInv'
  OBVIOUS
<1> USE RecursionAssumption
<1>1. RecTypes /\ run = "resolve" /\ run' = "settle" /\ Of({"pending"}) = {}
  BY DEF RecInv, Charge
<1>2. UNCHANGED <<answers, cursor, rows, ended, depth, claimed, yield>>  BY DEF Charge
<1>3. attempts' = [h \in Candidates |-> attempts[h] +
        (IF h \in Of({"answer", "denied", "error"}) /\ rows[h] = "processing" THEN 1 ELSE 0)]
  BY DEF Charge
<1>4. \A h \in Candidates :
        /\ attempts[h] \in 0..Retries
        /\ rows[h] = "none" => attempts[h] = 0
        /\ Waiting(h) => attempts[h] < Retries
  BY <1>1 DEF RecInv, AttemptsLeft, RecTypes
<1>5. \A h \in Candidates :
        \/ attempts'[h] = attempts[h]
        \/ /\ attempts'[h] = attempts[h] + 1 /\ rows[h] = "processing"
           /\ h \in DOMAIN claimed /\ claimed[h] \in {"answer", "denied", "error"}
  BY <1>3, <1>4 DEF Of
<1>6. RecTypes'
  <2>1. attempts' \in [Candidates -> 0..Retries]
    <3>1. \A h \in Candidates : attempts'[h] \in 0..Retries  BY <1>4, <1>5 DEF Waiting
    <3> QED  BY <1>3, <3>1
  <2> QED  BY <1>1, <1>2, <2>1 DEF RecTypes, InDepth, Working
<1>7. BatchBooks'
  <2>1. \A h \in DOMAIN claimed : claimed[h] # "pending"  BY <1>1 DEF Of
  <2> QED  BY <1>1, <1>2, <2>1 DEF RecInv, BatchBooks
<1>8. AttemptsLeft'
  <2> SUFFICES ASSUME NEW h \in Candidates
               PROVE  /\ rows[h] = "none" => attempts'[h] = 0
                      /\ Waiting(h) /\ attempts'[h] >= Retries =>
                           h \in DOMAIN claimed /\ claimed[h] \in {"answer", "denied", "error"}
    BY <1>1, <1>2 DEF AttemptsLeft, Waiting
  <2> QED  BY <1>4, <1>5
<1>9. GoneEnded'  BY <1>2 DEF RecInv, GoneEnded
<1>10. PassedKept'  BY <1>2 DEF RecInv, PassedKept, Waiting
<1>11. AllDone'  BY <1>1 DEF AllDone
<1> QED  BY <1>6, <1>7, <1>8, <1>9, <1>10, <1>11 DEF RecInv

LEMMA RecSettleInv == RecInv /\ RecSettle => RecInv'
<1> SUFFICES ASSUME RecInv, RecSettle PROVE RecInv'
  OBVIOUS
<1> USE RecursionAssumption
<1>1. RecTypes /\ run = "settle" /\ run' = "requeue"  BY DEF RecInv, RecSettle
<1>2. UNCHANGED <<answers, cursor, depth, claimed, yield>>  BY DEF RecSettle
<1> DEFINE started == DOMAIN claimed \ Of({"unstarted"})
           gone == {h \in started : SettledRow(h)}
<1>3. /\ rows' = [h \in Candidates |-> IF h \in gone THEN "gone"
                                       ELSE IF h \in started THEN "queued" ELSE rows[h]]
      /\ attempts' = [h \in Candidates |-> IF h \in gone THEN 0 ELSE attempts[h]]
      /\ ended' = ended \cup {h \in gone : attempts[h] >= Retries}
  BY DEF RecSettle
<1>4. /\ \A h \in started : h \in Candidates /\ claimed[h] # "unstarted"
      /\ gone \subseteq started /\ started \subseteq DOMAIN claimed
      /\ \A h \in DOMAIN claimed : claimed[h] # "unstarted" => h \in started
  BY <1>1 DEF RecTypes, Of
<1>5. \A h \in DOMAIN claimed : /\ claimed[h] \in Outcomes /\ claimed[h] # "pending"
                                /\ claimed[h] = "answer" => h \in answers
                                /\ claimed[h] = "denied" => h \in ended
                                /\ rows[h] = "processing"
  BY <1>1 DEF RecInv, RecTypes, BatchBooks
<1>6. \A h \in Candidates : attempts[h] \in 0..Retries  BY <1>1 DEF RecTypes
<1>7. \A h \in started : h \in gone \/ (claimed[h] \in {"error", "silent"} /\ attempts[h] < Retries)
  BY DEF SettledRow
<1>8. \A h \in gone : h \in answers \cup ended'
  <2> SUFFICES ASSUME NEW h \in gone PROVE h \in answers \cup ended'
    OBVIOUS
  <2>1. h \in Candidates /\ h \in DOMAIN claimed /\ claimed[h] # "unstarted"  BY <1>4
  <2>2. ~(claimed[h] \in {"error", "silent"} /\ attempts[h] < Retries)  BY DEF SettledRow
  <2>3. claimed[h] \in {"answer", "denied"} \/ attempts[h] >= Retries
    BY <1>5, <1>6, <2>1, <2>2 DEF Outcomes
  <2> QED  BY <1>3, <1>5, <2>1, <2>3
<1> HIDE DEF started, gone
<1>9. RecTypes'
  <2>1. attempts' \in [Candidates -> 0..Retries]  BY <1>3, <1>6
  <2>2. rows' \in [Candidates -> {"none", "queued", "processing", "gone"}]
    BY <1>1, <1>3 DEF RecTypes
  <2>3. ended' \subseteq Candidates  BY <1>1, <1>3, <1>4 DEF RecTypes
  <2> QED  BY <1>1, <1>2, <2>1, <2>2, <2>3 DEF RecTypes, InDepth, Working
<1>10. BatchBooks'
  <2>1. \A h \in DOMAIN claimed : claimed[h] = "unstarted" => rows'[h] = "processing"
    BY <1>1, <1>3, <1>4, <1>5 DEF RecTypes
  <2>2. ended \subseteq ended'  BY <1>3
  <2> QED  BY <1>1, <1>2, <1>5, <2>1, <2>2 DEF BatchBooks
<1>11. AttemptsLeft'
  <2> SUFFICES ASSUME NEW h \in Candidates
               PROVE  /\ rows'[h] = "none" => attempts'[h] = 0
                      /\ Waiting(h)' => ~(attempts'[h] >= Retries)
    BY DEF AttemptsLeft
  <2>1. CASE h \in gone  BY <1>3, <2>1 DEF Waiting
  <2>2. CASE h \in started \ gone
    <3>1. rows'[h] = "queued" /\ attempts'[h] = attempts[h]  BY <1>3, <2>2
    <3>2. attempts[h] < Retries  BY <1>7, <2>2
    <3> QED  BY <1>6, <3>1, <3>2
  <2>3. CASE h \notin started
    <3>1. rows'[h] = rows[h] /\ attempts'[h] = attempts[h]  BY <1>3, <1>4, <2>3
    <3>2. rows[h] = "none" => attempts[h] = 0  BY DEF RecInv, AttemptsLeft
    <3>3. Waiting(h) /\ attempts[h] >= Retries =>
            h \in DOMAIN claimed /\ claimed[h] \in {"answer", "denied", "error"}
      BY <1>1 DEF RecInv, AttemptsLeft
    <3>4. ~(Waiting(h) /\ attempts[h] >= Retries)  BY <1>4, <2>3, <3>3
    <3> QED  BY <3>1, <3>2, <3>4 DEF Waiting
  <2> QED  BY <1>4, <2>1, <2>2, <2>3
<1>12. GoneEnded'
  <2> SUFFICES ASSUME NEW h \in Candidates, rows'[h] = "gone" PROVE h \in answers' \cup ended'
    BY DEF GoneEnded
  <2>1. h \in gone \/ rows[h] = "gone"  BY <1>3
  <2>2. rows[h] = "gone" => h \in answers \cup ended  BY DEF RecInv, GoneEnded
  <2> QED  BY <1>2, <1>3, <1>8, <2>1, <2>2
<1>13. PassedKept'
  <2> SUFFICES ASSUME NEW h \in Candidates, WordOf(h) < cursor[ParentOf(h)]
               PROVE  Waiting(h)' \/ h \in answers' \cup ended'
    BY <1>2 DEF PassedKept
  <2>1. Waiting(h) \/ h \in answers \cup ended  BY DEF RecInv, PassedKept
  <2>2. h \in gone => h \in answers' \cup ended'  BY <1>2, <1>8
  <2>3. h \notin gone => rows'[h] \in {"queued", rows[h]}  BY <1>3
  <2> QED  BY <1>2, <1>3, <2>1, <2>2, <2>3 DEF Waiting
<1>14. AllDone'  BY <1>1 DEF AllDone
<1> QED  BY <1>9, <1>10, <1>11, <1>12, <1>13, <1>14 DEF RecInv

LEMMA RequeueInv == RecInv /\ Requeue => RecInv'
<1> SUFFICES ASSUME RecInv, Requeue PROVE RecInv'
  OBVIOUS
<1> USE RecursionAssumption
<1>1. RecTypes /\ run = "requeue" /\ run' = "refill" /\ depth \in 2..Depths
  BY DEF RecInv, Requeue, RecTypes, InDepth
<1>2. UNCHANGED <<answers, cursor, attempts, ended, depth>> /\ claimed' = NoBatch
  BY DEF Requeue
<1>3. rows' = [h \in Candidates |-> IF h \in Of({"unstarted"}) THEN "queued" ELSE rows[h]]
  BY DEF Requeue
<1>4. yield' \in 0..2
  <2>1. IsFiniteSet(NamesAt(depth))  BY <1>1, NamesFinite
  <2>2. Of({"answer"}) \subseteq NamesAt(depth)  BY <1>1 DEF RecTypes, Of
  <2>3. Cardinality(Of({"answer"})) \in Nat  BY <2>1, <2>2, FS_Subset, FS_CardinalityType
  <2>4. yield \in 0..2  BY <1>1 DEF RecTypes
  <2>5. yield' = IF yield + Cardinality(Of({"answer"})) > 2 THEN 2
                 ELSE yield + Cardinality(Of({"answer"}))
    BY DEF Requeue
  <2> QED  BY <2>3, <2>4, <2>5
<1>5. DOMAIN claimed' = {} /\ claimed' \in [{} -> Outcomes]  BY <1>2 DEF NoBatch
<1>6. \A h \in Candidates : \/ rows'[h] = rows[h]
                            \/ rows'[h] = "queued" /\ rows[h] = "processing"
  BY <1>1, <1>3 DEF RecInv, BatchBooks, Of
<1>7. RecTypes'
  <2>1. rows' \in [Candidates -> {"none", "queued", "processing", "gone"}]
    BY <1>1, <1>3 DEF RecTypes
  <2> QED  BY <1>1, <1>2, <1>4, <1>5, <2>1 DEF RecTypes, InDepth, Working
<1>8. BatchBooks'  BY <1>5 DEF BatchBooks
<1>9. AttemptsLeft'
  <2>1. \A h \in Candidates : /\ rows[h] = "none" => attempts[h] = 0
                              /\ Waiting(h) => ~(attempts[h] >= Retries)
    BY <1>1 DEF RecInv, AttemptsLeft
  <2> QED  BY <1>2, <1>6, <2>1 DEF AttemptsLeft, Waiting
<1>10. GoneEnded'  BY <1>2, <1>6 DEF RecInv, GoneEnded
<1>11. PassedKept'  BY <1>2, <1>6 DEF RecInv, PassedKept, Waiting
<1>12. AllDone'  BY <1>1 DEF AllDone
<1> QED  BY <1>7, <1>8, <1>9, <1>10, <1>11, <1>12 DEF RecInv

LEMMA ResumeInv == RecInv /\ Resume => RecInv'
<1> SUFFICES ASSUME RecInv, Resume PROVE RecInv'
  OBVIOUS
<1> USE RecursionAssumption
<1>1. RecTypes /\ run \in {"stopped", "partial"} /\ run' = "depth"
  BY DEF RecInv, Resume
<1>2. UNCHANGED <<answers, cursor, attempts, depth, claimed, yield>>  BY DEF Resume
<1>3. /\ rows' = [h \in Candidates |-> Reclaim(h)]
      /\ ended' = ended \cup {h \in Candidates : attempts[h] >= Retries}
  BY DEF Resume
<1>4. DOMAIN claimed = {}  BY <1>1 DEF RecTypes, Working
<1>5. \A h \in Candidates :
        \/ rows'[h] = rows[h] /\ ~Waiting(h)
        \/ rows'[h] = "gone" /\ h \in ended'
        \/ rows'[h] = "queued" /\ Waiting(h) /\ ~(attempts[h] >= Retries)
  BY <1>3 DEF Reclaim, Waiting
<1>6. RecTypes'
  <2>1. rows' \in [Candidates -> {"none", "queued", "processing", "gone"}]
    BY <1>1, <1>3 DEF RecTypes, Reclaim
  <2> QED  BY <1>1, <1>2, <1>3, <1>4, <2>1 DEF RecTypes, InDepth, Working
<1>7. BatchBooks'  BY <1>2, <1>4 DEF BatchBooks
<1>8. AttemptsLeft'
  <2>1. \A h \in Candidates : rows[h] = "none" => attempts[h] = 0
    BY DEF RecInv, AttemptsLeft
  <2> QED  BY <1>2, <1>5, <2>1 DEF AttemptsLeft, Waiting
<1>9. GoneEnded'  BY <1>2, <1>3, <1>5 DEF RecInv, GoneEnded
<1>10. PassedKept'
  <2> SUFFICES ASSUME NEW h \in Candidates, WordOf(h) < cursor[ParentOf(h)]
               PROVE  Waiting(h)' \/ h \in answers' \cup ended'
    BY <1>2 DEF PassedKept
  <2>1. Waiting(h) \/ h \in answers \cup ended  BY DEF RecInv, PassedKept
  <2> QED  BY <1>2, <1>3, <1>5, <2>1 DEF Waiting
<1>11. AllDone'  BY <1>1 DEF AllDone
<1> QED  BY <1>6, <1>7, <1>8, <1>9, <1>10, <1>11 DEF RecInv

\* What is not stored of a run goes with it.
LEMMA EndsKeep ==
    ASSUME RecInv, ProcessEnds, UNCHANGED <<answers, cursor, rows, attempts, ended>>,
           run' \in {"stopped", "partial", "completed"}
    PROVE  RecTypes' /\ BatchBooks' /\ GoneEnded' /\ PassedKept'
<1> USE RecursionAssumption
<1>1. depth' = 2 /\ yield' = 0 /\ DOMAIN claimed' = {} /\ claimed' \in [{} -> Outcomes]
  BY DEF ProcessEnds, NoBatch
<1>2. RecTypes'  BY <1>1 DEF RecInv, RecTypes, InDepth, Working
<1>3. BatchBooks'  BY <1>1 DEF BatchBooks
<1>4. GoneEnded'  BY DEF RecInv, GoneEnded
<1>5. PassedKept'  BY DEF RecInv, PassedKept, Waiting
<1> QED  BY <1>2, <1>3, <1>4, <1>5

LEMMA RecFinalizeInv == RecInv /\ RecFinalize => RecInv'
<1> SUFFICES ASSUME RecInv, RecFinalize PROVE RecInv'
  OBVIOUS
<1> USE RecursionAssumption
<1>1. /\ RecTypes /\ run = "over" /\ run' \in {"partial", "completed"} /\ ProcessEnds
      /\ run' = "completed" => ~HasMore
      /\ UNCHANGED <<answers, cursor, rows, attempts, ended>>
  BY DEF RecInv, RecFinalize, Durable
<1>2. \A h \in Candidates : /\ rows[h] = "none" => attempts[h] = 0
                            /\ Waiting(h) => ~(attempts[h] >= Retries)
  BY <1>1 DEF RecInv, AttemptsLeft
<1>3. AttemptsLeft'  BY <1>1, <1>2 DEF AttemptsLeft, Waiting
<1>4. AllDone'
  <2> SUFFICES ASSUME run' = "completed", NEW h \in Candidates, cursor[ParentOf(h)] # 0
               PROVE  h \in answers \cup ended
    BY <1>1 DEF AllDone
  <2>1. PICK d \in 2..Depths : h \in NamesAt(d)  BY CandidateAt
  <2>2. ParentOf(h) \in NamesAt(d - 1) /\ ParentOf(h) \in Parents /\ WordOf(h) \in 1..Words
    BY <2>1, LevelOf
  <2>3. Alive(d) = {} /\ Unfinished(d) = {}  BY <1>1 DEF HasMore, DepthHasMore
  <2>4. cursor[ParentOf(h)] \in 0..(Words + 1)  BY <1>1, <2>2 DEF RecTypes
  <2>5. cursor[ParentOf(h)] \notin 1..Words  BY <2>2, <2>3 DEF Unfinished
  <2>6. WordOf(h) < cursor[ParentOf(h)]  BY <2>2, <2>4, <2>5
  <2>7. Waiting(h) \/ h \in answers \cup ended  BY <2>6 DEF RecInv, PassedKept
  <2>8. attempts[h] \in 0..Retries  BY <1>1 DEF RecTypes
  <2>9. Waiting(h) => attempts[h] < Retries  BY <1>2, <2>8
  <2>10. ~Waiting(h)  BY <2>1, <2>3, <2>9 DEF Alive, Waiting
  <2> QED  BY <2>7, <2>10
<1>5. RecTypes' /\ BatchBooks' /\ GoneEnded' /\ PassedKept'
  BY <1>1, EndsKeep
<1> QED  BY <1>3, <1>4, <1>5 DEF RecInv

LEMMA StopRunInv == RecInv /\ StopRun => RecInv'
<1> SUFFICES ASSUME RecInv, StopRun PROVE RecInv'
  OBVIOUS
<1>1. run' = "stopped" /\ ProcessEnds /\ UNCHANGED <<answers, cursor, rows, attempts, ended>>
  BY DEF StopRun
<1>2. RecTypes' /\ BatchBooks' /\ GoneEnded' /\ PassedKept'  BY <1>1, EndsKeep
<1>3. AttemptsLeft'  BY <1>1 DEF RecInv, AttemptsLeft, Waiting
<1>4. AllDone'  BY <1>1 DEF AllDone
<1> QED  BY <1>2, <1>3, <1>4 DEF RecInv

-----------------------------------------------------------------------------
(* The theorems.                                                           *)

LEMMA RecStutters == RecInv /\ UNCHANGED recVars => RecInv'
<1> SUFFICES ASSUME RecInv, UNCHANGED recVars PROVE RecInv'
  OBVIOUS
<1> USE DEF recVars
<1>1. RecTypes'  BY DEF RecInv, RecTypes, InDepth, Working
<1>2. BatchBooks'  BY DEF RecInv, BatchBooks
<1>3. AttemptsLeft'  BY DEF RecInv, AttemptsLeft, Waiting
<1>4. GoneEnded'  BY DEF RecInv, GoneEnded
<1>5. PassedKept'  BY DEF RecInv, PassedKept, Waiting
<1>6. AllDone'  BY DEF RecInv, AllDone
<1> QED  BY <1>1, <1>2, <1>3, <1>4, <1>5, <1>6 DEF RecInv

LEMMA RecStepInv == RecInv /\ [RecNext]_recVars => RecInv'
<1> SUFFICES ASSUME RecInv, [RecNext]_recVars PROVE RecInv'
  OBVIOUS
<1>1. ASSUME NEW h \in DOMAIN claimed, ResolveName(h) PROVE RecInv'
  BY <1>1, ResolveNameInv
<1> QED
  BY <1>1, StartDepthInv, LastDepthInv, RefillRecursiveInv, OutOfTimeInv, ClaimBatchInv,
     ClaimNothingInv, ChargeInv, RecSettleInv, RequeueInv, ResumeInv, RecFinalizeInv, StopRunInv,
     RecStutters
     DEF RecNext, RecWork

LEMMA RecInvAlways == RecSpec => []RecInv
<1>1. RecInit => RecInv  BY RecInitInv
<1>2. RecInv /\ [RecNext]_recVars => RecInv'  BY RecStepInv
<1> QED  BY <1>1, <1>2, PTL DEF RecSpec

\* The rows, cursors and attempts of a recursion, and the batch of its run, keep their types.
THEOREM RecursionTyped == RecSpec => []RecTypeOK
<1>1. RecInv => RecTypeOK  BY DEF RecInv, RecTypes, RecTypeOK
<1> QED  BY <1>1, RecInvAlways, PTL

\* A name that a cursor has passed waits in the queue or has its end, and a scan is completed
\* only when every word below every parent has: for every number of words, depths, names in a
\* batch, parents and attempts, and however often the run is stopped.
THEOREM RecursionKeeps == RecSpec => []RecursionWhole
<1>1. RecInv => RecursionWhole
  BY DEF RecInv, PassedKept, AllDone, Waiting, RecursionWhole
<1> QED  BY <1>1, RecInvAlways, PTL

-----------------------------------------------------------------------------
(* The walk of a zone.                                                     *)

\* What covers a name, and what follows it.
LEMMA OwnerCovers ==
    ASSUME zone \subseteq 1..MaxZone, NEW n \in 0..MaxZone
    PROVE  /\ OwnerOf(n) \in 0..n
           /\ OwnerOf(n) # 0 => OwnerOf(n) \in zone
           /\ \A k \in zone : k <= n => k <= OwnerOf(n)
<1> DEFINE upTo == {k \in zone : k <= n}
<1>1. CASE upTo = {}
  <2>1. OwnerOf(n) = 0  BY <1>1 DEF OwnerOf
  <2> QED  BY <1>1, <2>1, ZoneAssumption
<1>2. CASE upTo # {}
  <2>1. upTo \in SUBSET (1..MaxZone) /\ MaxZone \in Nat  BY ZoneAssumption
  <2>2. \E m \in upTo : \A k \in upTo : k <= m
    <3> HIDE DEF upTo
    <3> QED  BY <1>2, <2>1, GreatestOf
  <2>3. OwnerOf(n) = CHOOSE k \in upTo : \A j \in upTo : j <= k  BY <1>2 DEF OwnerOf
  <2>4. OwnerOf(n) \in upTo /\ \A j \in upTo : j <= OwnerOf(n)
    <3> HIDE DEF upTo
    <3> QED  BY <2>2, <2>3
  <2> QED  BY <2>1, <2>4
<1> QED  BY <1>1, <1>2

LEMMA NextFollows ==
    ASSUME zone \subseteq 1..MaxZone, NEW n \in 0..MaxZone
    PROVE  /\ NextOf(n) \in 0..MaxZone
           /\ NextOf(n) = 0 => \A k \in zone : k <= n
           /\ NextOf(n) # 0 => NextOf(n) > n /\ \A k \in zone : k > n => k >= NextOf(n)
<1> DEFINE after == {k \in zone : k > n}
<1>1. CASE after = {}
  <2>1. NextOf(n) = 0  BY <1>1 DEF NextOf
  <2> QED  BY <1>1, <2>1, ZoneAssumption
<1>2. CASE after # {}
  <2>0. after \subseteq 1..MaxZone  OBVIOUS
  <2>1. after \in SUBSET Nat
    <3>1. \A k \in 1..MaxZone : k \in Nat  BY ZoneAssumption
    <3> HIDE DEF after
    <3> QED  BY <2>0, <3>1
  <2>2. \E m \in after : \A k \in after : m <= k
    <3> HIDE DEF after
    <3> QED  BY <1>2, <2>1, LeastOf
  <2>3. NextOf(n) = CHOOSE k \in after : \A j \in after : k <= j  BY <1>2 DEF NextOf
  <2>4. NextOf(n) \in after /\ \A j \in after : NextOf(n) <= j
    <3> HIDE DEF after
    <3> QED  BY <2>2, <2>3
  <2> QED  BY <2>0, <2>4, ZoneAssumption
<1> QED  BY <1>1, <1>2

Attempts0 == [status : WalkResults, names : SUBSET (1..MaxZone), queries : Nat, error : BOOLEAN,
              seen : SUBSET (0..MaxZone), owed : SUBSET (1..MaxZone), looped : BOOLEAN]
Snapshots == [status : WalkResults \cup {"none"}, names : SUBSET (1..MaxZone),
              owed : SUBSET (1..MaxZone), looped : BOOLEAN]
Asking == {"probe", "step"}
\* A result that claims the whole zone has it, unless it ended at a name met twice.
Sound(a) == a.status = "walked" => a.looped \/ a.owed \subseteq a.names

ZoneTypes ==
    /\ zone \subseteq 1..MaxZone /\ probe \in 0..MaxZone /\ limit \in Nat
    /\ signing \in [1..Addresses -> {"nsec", "nsec3", "minimal", "plain"}]
    /\ row \in Snapshots
    /\ walk \in {"idle", "lookup", "next", "finish", "store"} \cup Asking
    /\ address \in 1..(Addresses + 1) /\ current \in 0..MaxZone
    /\ attempt \in Attempts0 /\ best \in Attempts0
    /\ attempt.queries <= limit + 2 /\ best.queries <= limit + 2
    /\ observed \subseteq 1..MaxZone
    /\ result.status \in WalkResults \cup {"none"}
    /\ walks \in 0..MaxWalks /\ changes \in 0..MaxEdits

\* How far a walk under way has come: what it owes is behind it or still ahead.
WalkUnderWay ==
    /\ walk \in Asking => address <= Addresses /\ attempt.status = "unsupported"
    /\ walk = "probe" => attempt.queries = 0
    /\ walk = "step" => /\ attempt.owed \subseteq zone
                        /\ \A n \in attempt.owed : n \in attempt.names \/ n > current
    /\ walk = "store" => best.status \in Reusable /\ best.names \subseteq row.names

ResultSound ==
    \/ result.status = "walked"
    \/ result.cached /\ result.status \notin {"nsec3-protected", "nsec-minimal-protected"}
    => result.looped \/ result.owed \subseteq result.names

ZoneInv ==
    /\ ZoneTypes /\ WalkUnderWay
    /\ Sound(attempt) /\ Sound(best) /\ Sound(row) /\ ResultSound

LEMMA ZoneInitInv == ZoneInit => ZoneInv
<1> SUFFICES ASSUME ZoneInit PROVE ZoneInv
  OBVIOUS
<1> USE ZoneAssumption DEF ZoneInit
<1>1. Blank \in Attempts0 /\ Blank.queries = 0 /\ Blank.status = "unsupported"
  BY DEF Blank, Attempts0, WalkResults
<1>2. row \in Snapshots /\ row.status # "walked"
  <2>1. NoRow \in Snapshots /\ NoRow.status # "walked"  BY DEF NoRow, Snapshots
  <2>2. Legacy \in Snapshots /\ Legacy.status # "walked"
    BY DEF Legacy, Snapshots, WalkResults
  <2> QED  BY <2>1, <2>2
<1>3. result.status = "none" /\ result.cached = FALSE  BY DEF NoResult
<1>4. ZoneTypes  BY <1>1, <1>2, <1>3 DEF ZoneTypes, Asking
<1>5. WalkUnderWay  BY DEF WalkUnderWay, Asking
<1>6. Sound(attempt) /\ Sound(best) /\ Sound(row)  BY <1>1, <1>2 DEF Sound
<1>7. ResultSound  BY <1>3 DEF ResultSound
<1> QED  BY <1>4, <1>5, <1>6, <1>7 DEF ZoneInv

\* A row that is usable answers for its zone.
LEMMA RowAnswers ==
    ASSUME ZoneInv, UsableRow(row), result' = FromRow
    PROVE  ResultSound' /\ result'.status \in WalkResults \cup {"none"}
<1>1. /\ result'.status = row.status /\ result'.owed = row.owed /\ result'.names = row.names
      /\ result'.looped = row.looped
  BY DEF FromRow
<1>2. row.status \in Reusable /\ Sound(row)  BY DEF ZoneInv, UsableRow
<1>3. row.status \in {"walked", "nsec3-protected", "nsec-minimal-protected"}
  BY <1>2 DEF Reusable
<1>4. ResultSound'  BY <1>1, <1>2, <1>3 DEF ResultSound, Sound
<1> QED  BY <1>1, <1>2, <1>4 DEF WalkResults

LEMMA StartWalkInv == ZoneInv /\ StartWalk => ZoneInv'
<1> SUFFICES ASSUME ZoneInv, StartWalk PROVE ZoneInv'
  OBVIOUS
<1> USE ZoneAssumption
<1>1. ZoneTypes /\ WalkUnderWay /\ Sound(attempt) /\ Sound(best) /\ Sound(row)  BY DEF ZoneInv
<1>2. /\ walk = "idle" /\ walks < MaxWalks /\ walks' = walks + 1
      /\ UNCHANGED <<zone, probe, signing, limit, row, stale, current, changes>>
  BY DEF StartWalk
<1>3. CASE UsableRow(row) /\ ~stale
  <2>1. result' = FromRow /\ UNCHANGED <<walk, address, attempt, best, observed>>
    BY <1>3 DEF StartWalk
  <2>2. ResultSound' /\ result'.status \in WalkResults \cup {"none"}  BY <1>3, <2>1, RowAnswers
  <2>3. ZoneTypes'  BY <1>1, <1>2, <2>1, <2>2 DEF ZoneTypes
  <2>4. WalkUnderWay'  BY <1>2, <2>1 DEF WalkUnderWay, Asking
  <2>5. Sound(attempt)' /\ Sound(best)' /\ Sound(row)'  BY <1>1, <1>2, <2>1 DEF Sound
  <2> QED  BY <2>2, <2>3, <2>4, <2>5 DEF ZoneInv
<1>4. CASE ~(UsableRow(row) /\ ~stale)
  <2>1. /\ walk' = "lookup" /\ address' = 1 /\ attempt' = Blank
        /\ best' = [Blank EXCEPT !.error = TRUE] /\ observed' = {} /\ result' = NoResult
    BY <1>4 DEF StartWalk
  <2>2. /\ attempt' \in Attempts0 /\ best' \in Attempts0 /\ result'.status = "none"
        /\ attempt'.queries = 0 /\ best'.queries = 0 /\ result'.cached = FALSE
        /\ attempt'.status = "unsupported" /\ best'.status = "unsupported"
    BY <2>1 DEF Blank, Attempts0, WalkResults, NoResult
  <2>3. ZoneTypes'
    <3>1. /\ address' \in 1..(Addresses + 1) /\ observed' \subseteq 1..MaxZone
          /\ attempt'.queries <= limit' + 2 /\ best'.queries <= limit' + 2
          /\ walks' \in 0..MaxWalks
      BY <1>1, <1>2, <2>1, <2>2 DEF ZoneTypes
    <3> QED  BY <1>1, <1>2, <2>1, <2>2, <3>1 DEF ZoneTypes
  <2>4. WalkUnderWay'  BY <2>1 DEF WalkUnderWay, Asking
  <2>5. Sound(attempt)' /\ Sound(best)' /\ Sound(row)'  BY <1>1, <1>2, <2>2 DEF Sound
  <2>6. ResultSound'  BY <2>2 DEF ResultSound
  <2> QED  BY <2>3, <2>4, <2>5, <2>6 DEF ZoneInv
<1> QED  BY <1>3, <1>4

\* A step between two queries keeps what the walk has.
LEMMA BetweenQueries ==
    ASSUME ZoneInv, UNCHANGED <<zone, probe, signing, limit, row, stale, result, walks, changes>>,
           UNCHANGED <<current, observed>>, walk' \in {"next", "finish", "probe"}, address' = address,
           attempt' \in {attempt, Blank}, walk' = "probe" => attempt' = Blank /\ address <= Addresses,
           best' \in Attempts0, best'.queries <= limit + 2, Sound(best)'
    PROVE  ZoneInv'
<1> USE ZoneAssumption
<1>1. ZoneTypes /\ Sound(attempt) /\ Sound(row) /\ ResultSound  BY DEF ZoneInv
<1>2. Blank \in Attempts0 /\ Blank.queries = 0 /\ Blank.status = "unsupported"
  BY DEF Blank, Attempts0, WalkResults
<1>3. ZoneTypes'  BY <1>1, <1>2 DEF ZoneTypes, Asking
<1>4. WalkUnderWay'  BY <1>2 DEF WalkUnderWay, Asking
<1>5. Sound(attempt)' /\ Sound(row)'  BY <1>1, <1>2 DEF Sound
<1>6. ResultSound'  BY <1>1 DEF ResultSound
<1> QED  BY <1>3, <1>4, <1>5, <1>6 DEF ZoneInv

LEMMA LookupInv == ZoneInv /\ Lookup => ZoneInv'
<1> SUFFICES ASSUME ZoneInv, Lookup PROVE ZoneInv'
  OBVIOUS
<1>1. walk' \in {"next", "finish"} /\ UNCHANGED <<address, current, attempt, best, observed>>
      /\ UNCHANGED <<zone, probe, signing, limit, row, stale, result, walks, changes>>
  BY DEF Lookup, Walked
<1>2. best' \in Attempts0 /\ best'.queries <= limit + 2 /\ Sound(best)'
  BY <1>1 DEF ZoneInv, ZoneTypes, Sound
<1> QED  BY <1>1, <1>2, BetweenQueries

LEMMA ConnectInv == ZoneInv /\ Connect => ZoneInv'
<1> SUFFICES ASSUME ZoneInv, Connect PROVE ZoneInv'
  OBVIOUS
<1>1. walk' = "probe" /\ attempt' = Blank /\ UNCHANGED <<address, current, best, observed>>
      /\ address <= Addresses
      /\ UNCHANGED <<zone, probe, signing, limit, row, stale, result, walks, changes>>
  BY DEF Connect, Walked
<1>2. best' \in Attempts0 /\ best'.queries <= limit + 2 /\ Sound(best)'
  BY <1>1 DEF ZoneInv, ZoneTypes, Sound
<1> QED  BY <1>1, <1>2, BetweenQueries

LEMMA OutOfServersInv == ZoneInv /\ OutOfServers => ZoneInv'
<1> SUFFICES ASSUME ZoneInv, OutOfServers PROVE ZoneInv'
  OBVIOUS
<1> DEFINE cutShort == [best EXCEPT !.error = TRUE,
                                    !.status = IF best.names # {} THEN "partial" ELSE @]
<1>1. walk' = "finish" /\ UNCHANGED <<address, current, attempt, observed>>
      /\ UNCHANGED <<zone, probe, signing, limit, row, stale, result, walks, changes>>
      /\ best' \in {best, cutShort}
  BY DEF OutOfServers, Walked
<1>2. best \in Attempts0 /\ best.queries <= limit + 2 /\ Sound(best)
  BY DEF ZoneInv, ZoneTypes
<1>3. /\ cutShort \in Attempts0 /\ cutShort.queries = best.queries
      /\ cutShort.names = best.names /\ cutShort.owed = best.owed
      /\ cutShort.looped = best.looped
      /\ cutShort.status \in {"partial", best.status}
  BY <1>2 DEF Attempts0, WalkResults
<1> HIDE DEF cutShort
<1>4. best' \in Attempts0 /\ best'.queries <= limit + 2 /\ Sound(best)'
  BY <1>1, <1>2, <1>3 DEF Sound
<1> QED  BY <1>1, <1>4, BetweenQueries

\* walk_one returned, for one address.
LEMMA WalkEndedInv ==
    ASSUME ZoneInv, walk \in Asking, NEW a \in Attempts0, a.queries <= limit + 2, Sound(a),
           WalkEnded(a), current' \in 0..MaxZone,
           UNCHANGED <<zone, probe, signing, limit, row, stale, result, walks, changes>>
    PROVE  ZoneInv'
<1> USE ZoneAssumption
<1>1. ZoneTypes /\ Sound(best) /\ Sound(row) /\ ResultSound /\ address <= Addresses
  BY DEF ZoneInv, WalkUnderWay
<1> DEFINE kept == [a EXCEPT !.seen = {}]
<1>2. /\ attempt' = Blank /\ best' \in {kept, best} /\ observed' = observed \cup a.names
      /\ address' = address + 1 /\ walk' \in {"finish", "next"}
  BY DEF WalkEnded
<1>3. a.names \subseteq 1..MaxZone  BY DEF Attempts0
<1>8. /\ kept \in Attempts0 /\ kept.queries = a.queries /\ kept.status = a.status
      /\ kept.names = a.names /\ kept.owed = a.owed /\ kept.looped = a.looped
  BY DEF Attempts0
<1>9. Blank \in Attempts0 /\ Blank.queries = 0 /\ Blank.status = "unsupported"
  BY DEF Blank, Attempts0, WalkResults
<1> HIDE DEF kept
<1>4. ZoneTypes'
  <2>1. address' \in 1..(Addresses + 1)  BY <1>1, <1>2 DEF ZoneTypes
  <2>2. best' \in Attempts0 /\ best'.queries <= limit + 2  BY <1>1, <1>2, <1>8 DEF ZoneTypes
  <2>3. observed' \subseteq 1..MaxZone  BY <1>1, <1>2, <1>3 DEF ZoneTypes
  <2>4. walk' \in {"idle", "lookup", "next", "finish", "store"} \cup Asking  BY <1>2
  <2>5. attempt' \in Attempts0 /\ attempt'.queries <= limit' + 2
    BY <1>1, <1>2, <1>9 DEF ZoneTypes
  <2>6. current' \in 0..MaxZone  OBVIOUS
  <2> HIDE <1>2
  <2> QED  BY <1>1, <2>1, <2>2, <2>3, <2>4, <2>5, <2>6 DEF ZoneTypes
<1>5. WalkUnderWay'  BY <1>2 DEF WalkUnderWay, Asking
<1>6. Sound(attempt)' /\ Sound(best)' /\ Sound(row)'  BY <1>1, <1>2, <1>8, <1>9 DEF Sound
<1>7. ResultSound'  BY <1>1 DEF ResultSound
<1> QED  BY <1>4, <1>5, <1>6, <1>7 DEF ZoneInv

\* An attempt under way ends with another status and no more names.
LEMMA AttemptEnds ==
    ASSUME ZoneInv, walk \in Asking, NEW status \in WalkResults \ {"walked"}, NEW n \in {0, 1},
           NEW e \in BOOLEAN, attempt.queries + n <= limit + 2
    PROVE  LET a == [attempt EXCEPT !.queries = @ + n, !.error = e, !.status = status]
           IN a \in Attempts0 /\ a.queries <= limit + 2 /\ Sound(a)
<1> DEFINE a == [attempt EXCEPT !.queries = @ + n, !.error = e, !.status = status]
<1>1. attempt \in Attempts0  BY DEF ZoneInv, ZoneTypes
<1>2. /\ a.status = status /\ a.queries = attempt.queries + n /\ attempt.queries \in Nat
      /\ a.queries \in Nat
  BY <1>1 DEF Attempts0
<1>3. a \in Attempts0  BY <1>1, <1>2 DEF Attempts0
<1>4. a.queries <= limit + 2 /\ Sound(a)  BY <1>2 DEF Sound
<1> QED  BY <1>3, <1>4

\* There is room for one query more.
LEMMA RoomToAsk ==
    ASSUME ZoneInv, walk \in Asking, walk = "step" => ~AtLimit(attempt)
    PROVE  attempt.queries + 1 <= limit + 2
<1>1. attempt.queries \in Nat /\ limit \in Nat  BY DEF ZoneInv, ZoneTypes, Attempts0
<1>2. CASE walk = "probe"
  <2>1. attempt.queries = 0  BY <1>2 DEF ZoneInv, WalkUnderWay
  <2> QED  BY <1>1, <2>1
<1>3. CASE walk = "step"
  <2>1. ~(attempt.queries >= limit + 2)  BY <1>3 DEF AtLimit
  <2> QED  BY <1>1, <2>1
<1> QED  BY <1>2, <1>3 DEF Asking

LEMMA FailsInv == ZoneInv /\ Fails => ZoneInv'
<1> SUFFICES ASSUME ZoneInv, Fails PROVE ZoneInv'
  OBVIOUS
<1>1. /\ walk \in Asking /\ (walk = "step" => ~AtLimit(attempt))
      /\ UNCHANGED <<zone, probe, signing, limit, row, stale, result, walks, changes, current>>
  BY DEF Fails, Asks, Walked, Asking
<1> DEFINE status == IF attempt.names # {} THEN "partial" ELSE attempt.status
           a(n) == [attempt EXCEPT !.queries = @ + n, !.error = TRUE, !.status = status]
<1>2. attempt \in Attempts0 /\ attempt.status = "unsupported" /\ current \in 0..MaxZone
  BY <1>1 DEF ZoneInv, ZoneTypes, WalkUnderWay
<1>3. PICK n \in {0, 1} : WalkEnded(a(n))
  BY DEF Fails
<1>4. status \in WalkResults \ {"walked"}  BY <1>2 DEF WalkResults
<1>5. attempt.queries \in Nat /\ attempt.queries + 1 <= limit + 2 /\ limit \in Nat
  BY <1>1, <1>2, RoomToAsk DEF Attempts0, ZoneInv, ZoneTypes
<1>6. attempt.queries + n <= limit + 2  BY <1>5
<1> HIDE DEF status
<1>7. a(n) \in Attempts0 /\ a(n).queries <= limit + 2 /\ Sound(a(n))
  BY <1>1, <1>4, <1>6, AttemptEnds
<1> HIDE DEF a
<1> QED  BY <1>1, <1>2, <1>3, <1>7, WalkEndedInv

\* The names a record gives, and what the walk then owes: nothing between the place it is at
\* and the name the record leads to.
LEMMA FollowInv ==
    ASSUME ZoneInv, walk \in Asking, NEW a \in Attempts0, a.queries + 1 <= limit + 2,
           a.status = "unsupported", a.owed \subseteq zone,
           NEW at \in 0..MaxZone, NEW first, first[1] \in 0..MaxZone, first[2] \in 0..MaxZone,
           first[2] = 0 => \A n \in a.owed : n <= at,
           first[2] # 0 => \A n \in a.owed : n > at => n >= first[2],
           \A n \in a.owed : n \in a.names \/ n > at \/ n = first[1],
           Follow(a, first),
           UNCHANGED <<zone, probe, signing, limit, row, stale, result, walks, changes>>
    PROVE  ZoneInv'
<1> USE ZoneAssumption
<1> DEFINE owner == first[1]
           next == first[2]
           told == [a EXCEPT !.queries = @ + 1, !.names = @ \cup ({owner, next} \ {0})]
<1>1. /\ ZoneTypes /\ Sound(best) /\ Sound(row) /\ ResultSound /\ address <= Addresses
      /\ zone \subseteq 1..MaxZone /\ current \in 0..MaxZone
  BY DEF ZoneInv, WalkUnderWay, ZoneTypes
<1>2. owner \in 0..MaxZone /\ next \in 0..MaxZone  OBVIOUS
<1>3. /\ told \in Attempts0 /\ told.queries <= limit + 2 /\ told.status = "unsupported"
      /\ told.owed = a.owed /\ told.names = a.names \cup ({owner, next} \ {0})
  <2> DEFINE more == {owner, next} \ {0}
  <2> HIDE DEF owner, next
  <2>1. more \subseteq 1..MaxZone  BY <1>2
  <2>2. a.queries \in Nat /\ a.queries + 1 \in Nat /\ a.names \subseteq 1..MaxZone
    BY DEF Attempts0
  <2> HIDE DEF more
  <2>3. a.names \cup more \in SUBSET (1..MaxZone)  BY <2>1, <2>2
  <2>4. [a EXCEPT !.queries = @ + 1, !.names = @ \cup more] \in Attempts0
    BY <2>2, <2>3 DEF Attempts0
  <2>5. told = [a EXCEPT !.queries = @ + 1, !.names = @ \cup more]  BY DEF more
  <2>6. /\ told.queries = a.queries + 1 /\ told.status = a.status /\ told.owed = a.owed
        /\ told.names = a.names \cup more
    BY <2>5 DEF Attempts0
  <2> QED  BY <2>4, <2>5, <2>6 DEF more
<1>4. a.owed \subseteq 1..MaxZone  BY <1>1
<1>5. CASE next = 0
  <2> DEFINE w == [told EXCEPT !.status = "walked"]
  <2>1. WalkEnded(w) /\ UNCHANGED current  BY <1>5 DEF Follow
  <2>2. /\ w \in Attempts0 /\ w.queries <= limit + 2 /\ w.owed = a.owed /\ w.names = told.names
    <3> HIDE DEF told
    <3>1. "walked" \in WalkResults  BY DEF WalkResults, Reusable
    <3> QED  BY <1>3, <3>1 DEF Attempts0
  <2>3. a.owed \subseteq told.names
    <3> SUFFICES ASSUME NEW n \in a.owed PROVE n \in told.names
      OBVIOUS
    <3>1. n \in zone /\ n \in 1..MaxZone  BY <1>4
    <3>2. ~(n > at)  BY <1>5, <3>1
    <3>3. n \in a.names \/ n = owner  BY <3>2
    <3> QED  BY <1>3, <3>1, <3>3
  <2>4. Sound(w)  BY <2>2, <2>3 DEF Sound
  <2> HIDE DEF w
  <2> QED  BY <1>1, <2>1, <2>2, <2>4, WalkEndedInv
<1>6. CASE next # 0
  <2>1. attempt' = told /\ current' = next /\ walk' = "step" /\ UNCHANGED <<address, best, observed>>
    BY <1>6 DEF Follow
  <2>3. \A n \in told.owed : n \in told.names \/ n > next
    <3> SUFFICES ASSUME NEW n \in a.owed, n \notin told.names PROVE n > next
      BY <1>3
    <3>1. n \in zone /\ n \in 1..MaxZone  BY <1>4
    <3>2. n \notin a.names /\ n # owner /\ n # next  BY <1>3, <3>1
    <3>3. n > at  BY <3>2
    <3>4. n >= next  BY <1>6, <3>3
    <3> HIDE DEF told, owner, next
    <3> QED  BY <1>2, <3>1, <3>2, <3>4
  <2> HIDE DEF told, owner, next
  <2>2. ZoneTypes'  BY <1>1, <1>2, <1>3, <2>1 DEF ZoneTypes, Asking
  <2>4. WalkUnderWay'  BY <1>1, <1>3, <2>1, <2>3 DEF WalkUnderWay, Asking
  <2>5. Sound(attempt)' /\ Sound(best)' /\ Sound(row)'  BY <1>1, <1>3, <2>1 DEF Sound
  <2>6. ResultSound'  BY <1>1 DEF ResultSound
  <2> QED  BY <2>2, <2>4, <2>5, <2>6 DEF ZoneInv
<1> QED  BY <1>5, <1>6

\* The record that covers a place passes over no name behind it.
LEMMA CoveringPasses ==
    ASSUME zone \subseteq 1..MaxZone, NEW k \in 0..MaxZone
    PROVE  LET first == Covering(k) IN
           /\ first[1] \in 0..MaxZone /\ first[2] \in 0..MaxZone
           /\ first[1] <= k /\ \A n \in zone : n <= k => n <= first[1]
           /\ first[2] = 0 => \A n \in zone : n <= k
           /\ first[2] # 0 => \A n \in zone : n > k => n >= first[2]
<1>1. OwnerOf(k) \in 0..k /\ \A n \in zone : n <= k => n <= OwnerOf(k)  BY OwnerCovers
<1>2. OwnerOf(k) \in 0..MaxZone /\ OwnerOf(k) <= k  BY <1>1, ZoneAssumption
<1>3. Covering(k)[1] = OwnerOf(k) /\ Covering(k)[2] = NextOf(k)  BY DEF Covering
<1> QED  BY <1>1, <1>2, <1>3, NextFollows

LEMMA ProbeInv == ZoneInv /\ Probe => ZoneInv'
<1> SUFFICES ASSUME ZoneInv, Probe PROVE ZoneInv'
  OBVIOUS
<1>1. /\ walk = "probe" /\ walk \in Asking
      /\ UNCHANGED <<zone, probe, signing, limit, row, stale, result, walks, changes>>
  BY DEF Probe, Walked, Asking
<1>2. /\ attempt \in Attempts0 /\ attempt.status = "unsupported" /\ current \in 0..MaxZone
      /\ zone \subseteq 1..MaxZone /\ probe \in 0..MaxZone
  BY <1>1 DEF ZoneInv, ZoneTypes, WalkUnderWay
<1>3. attempt.queries + 1 <= limit + 2  BY <1>1, RoomToAsk
<1> DEFINE kind == signing[address]
           asked == [attempt EXCEPT !.queries = @ + 1]
<1>4. CASE kind = "nsec"
  <2>1. PICK first \in {Covering(probe), Covering(0)} :
            Follow([attempt EXCEPT !.owed = {n \in zone : n >= first[1]}], first)
    BY <1>1, <1>4 DEF Probe
  <2>2. PICK k \in 0..MaxZone : first = Covering(k)
    BY <1>2, <2>1, ZoneAssumption
  <2> DEFINE start == first[1]
             owes == {n \in zone : n >= start}
             from == [attempt EXCEPT !.owed = owes]
  <2>3. owes \subseteq zone /\ owes \subseteq 1..MaxZone  BY <1>2
  <2>4. /\ from \in Attempts0 /\ from.queries = attempt.queries /\ from.owed = owes
        /\ from.status = attempt.status
    <3> HIDE DEF owes
    <3> QED  BY <1>2, <2>3 DEF Attempts0
  <2>5. /\ start \in 0..MaxZone /\ first[2] \in 0..MaxZone
        /\ start <= k /\ \A n \in zone : n <= k => n <= start
        /\ first[2] = 0 => \A n \in zone : n <= k
        /\ first[2] # 0 => \A n \in zone : n > k => n >= first[2]
    BY <1>2, <2>2, CoveringPasses
  <2>6. \A n \in owes : n \in 1..MaxZone /\ n \in zone /\ n >= start  BY <2>3
  <2>7. Follow(from, first)  BY <2>1
  <2> HIDE DEF start, owes
  <2>8. \A n \in owes : n > start \/ n = start  BY <2>5, <2>6
  <2>9. first[2] = 0 => \A n \in owes : n <= start  BY <2>5, <2>6
  <2>10. first[2] # 0 => \A n \in owes : n > start => n >= first[2]
    <3> SUFFICES ASSUME first[2] # 0, NEW n \in owes, n > start PROVE n >= first[2]
      OBVIOUS
    <3>1. n \in zone /\ n \in 1..MaxZone  BY <2>6
    <3>2. ~(n <= k)  BY <2>5, <3>1
    <3> QED  BY <2>5, <3>1, <3>2
  <2>11. start = first[1]  BY DEF start
  <2> HIDE DEF from
  <2> QED
    BY <1>1, <1>2, <1>3, <2>3, <2>4, <2>5, <2>7, <2>8, <2>9, <2>10, <2>11, FollowInv
<1>6. kind \in {"nsec", "nsec3", "minimal", "plain"}
  <2>1. address \in 1..Addresses  BY <1>1 DEF ZoneInv, ZoneTypes, WalkUnderWay
  <2> QED  BY <2>1 DEF ZoneInv, ZoneTypes
<1>5. CASE kind # "nsec"
  <2>1. UNCHANGED current
        /\ \E status \in {"nsec3-protected", "nsec-minimal-protected", "unsupported"} :
              WalkEnded([asked EXCEPT !.status = status])
    <3>1. asked = [asked EXCEPT !.status = "unsupported"]  BY <1>2 DEF Attempts0
    <3>2. \/ WalkEnded([asked EXCEPT !.status = "nsec3-protected"]) /\ UNCHANGED current
          \/ WalkEnded([asked EXCEPT !.status = "nsec-minimal-protected"]) /\ UNCHANGED current
          \/ WalkEnded(asked) /\ UNCHANGED current
      BY <1>6, <1>5 DEF Probe
    <3> QED  BY <3>1, <3>2
  <2>2. PICK status \in {"nsec3-protected", "nsec-minimal-protected", "unsupported"} :
            WalkEnded([asked EXCEPT !.status = status])
    BY <2>1
  <2> DEFINE a == [attempt EXCEPT !.queries = @ + 1, !.error = attempt.error, !.status = status]
  <2>3. [asked EXCEPT !.status = status] = a  BY <1>2 DEF Attempts0
  <2>4. status \in WalkResults \ {"walked"}  BY DEF WalkResults, Reusable
  <2>5. attempt.error \in BOOLEAN  BY <1>2 DEF Attempts0
  <2>6. a \in Attempts0 /\ a.queries <= limit + 2 /\ Sound(a)
    BY <1>1, <1>3, <2>4, <2>5, AttemptEnds
  <2>7. WalkEnded(a)  BY <2>2, <2>3
  <2> HIDE DEF a
  <2> QED  BY <1>1, <1>2, <2>1, <2>6, <2>7, WalkEndedInv
<1> QED  BY <1>4, <1>5

LEMMA StepInv == ZoneInv /\ Step => ZoneInv'
<1> SUFFICES ASSUME ZoneInv, Step PROVE ZoneInv'
  OBVIOUS
<1> DEFINE a == [attempt EXCEPT !.seen = @ \cup {current}]
<1>1. /\ walk = "step" /\ walk \in Asking /\ ~AtLimit(attempt)
      /\ UNCHANGED <<zone, probe, signing, limit, row, stale, result, walks, changes>>
  BY DEF Step, Asks, Walked, Asking
<1>2. PICK first \in FirstRecords(current) : Follow(a, first)  BY DEF Step
<1>3. /\ attempt \in Attempts0 /\ attempt.status = "unsupported" /\ current \in 0..MaxZone
      /\ zone \subseteq 1..MaxZone /\ attempt.owed \subseteq zone
      /\ \A n \in attempt.owed : n \in attempt.names \/ n > current
  BY <1>1 DEF ZoneInv, ZoneTypes, WalkUnderWay
<1>4. attempt.queries + 1 <= limit + 2  BY <1>1, RoomToAsk
<1>5. /\ a \in Attempts0 /\ a.queries = attempt.queries /\ a.status = attempt.status
      /\ a.owed = attempt.owed /\ a.names = attempt.names
  <2> DEFINE more == attempt.seen \cup {current}
  <2>1. more \subseteq 0..MaxZone  BY <1>3 DEF Attempts0
  <2>2. a = [attempt EXCEPT !.seen = more]  BY <1>3 DEF Attempts0
  <2> HIDE DEF more, a
  <2> QED  BY <1>3, <2>1, <2>2 DEF Attempts0
<1>6. /\ first[1] \in 0..MaxZone /\ first[2] \in 0..MaxZone
      /\ first[2] = 0 => \A n \in zone : n <= current
      /\ first[2] # 0 => \A n \in zone : n > current => n >= first[2]
  <2>1. CASE \E k \in 0..current : first = Covering(k)
    <3>1. PICK k \in 0..current : first = Covering(k)  BY <2>1
    <3>2. k \in 0..MaxZone /\ k <= current /\ k \in Nat /\ current \in Nat
      BY <1>3, ZoneAssumption
    <3>3. /\ first[1] \in 0..MaxZone /\ first[2] \in 0..MaxZone
          /\ first[2] = 0 => \A n \in zone : n <= k
          /\ first[2] # 0 => \A n \in zone : n > k => n >= first[2]
      BY <1>3, <3>1, <3>2, CoveringPasses
    <3>4. \A n \in zone : n \in Nat /\ (n <= k => n <= current) /\ (n > current => n > k)
      BY <1>3, <3>2, ZoneAssumption
    <3> QED  BY <3>3, <3>4
  <2>2. CASE first = <<current, current>> /\ current \in Delegated
    <3>1. current \in 1..MaxZone  BY <2>2, ZoneAssumption
    <3>2. first[1] = current /\ first[2] = current /\ current # 0
      BY <2>2, <3>1, ZoneAssumption
    <3>3. \A n \in zone : n > current => n >= current  BY <1>3, <3>1, ZoneAssumption
    <3> QED  BY <1>3, <3>2, <3>3
  <2>3. \/ \E k \in 0..current : first = Covering(k)
        \/ first = <<current, current>> /\ current \in Delegated
    <3>1. current \in 0..current  BY <1>3, ZoneAssumption
    <3>2. CASE current \in zone
      <4>1. first \in {Covering(current)} \cup {<<d, d>> : d \in {current} \cap Delegated}
        BY <1>2, <3>2 DEF FirstRecords
      <4>2. CASE first = Covering(current)  BY <3>1, <4>2
      <4>3. CASE first \in {<<d, d>> : d \in {current} \cap Delegated}
        <5>1. PICK d \in {current} \cap Delegated : first = <<d, d>>  BY <4>3
        <5> QED  BY <5>1
      <4> QED  BY <4>1, <4>2, <4>3
    <3>3. CASE current \notin zone
      BY <1>2, <3>3 DEF FirstRecords
    <3> QED  BY <3>2, <3>3
  <2> QED  BY <2>1, <2>2, <2>3
<1> HIDE DEF a
<1> QED  BY <1>1, <1>2, <1>3, <1>4, <1>5, <1>6, FollowInv

LEMMA StepSeenInv == ZoneInv /\ StepSeen => ZoneInv'
<1> SUFFICES ASSUME ZoneInv, StepSeen PROVE ZoneInv'
  OBVIOUS
<1> DEFINE a == [attempt EXCEPT !.status = "walked", !.looped = TRUE]
<1>1. /\ walk \in Asking /\ WalkEnded(a)
      /\ UNCHANGED <<zone, probe, signing, limit, row, stale, result, walks, changes, current>>
  BY DEF StepSeen, Walked, Asking
<1>2. attempt \in Attempts0 /\ attempt.queries <= limit + 2 /\ current \in 0..MaxZone
  BY DEF ZoneInv, ZoneTypes
<1>3. a \in Attempts0 /\ a.queries = attempt.queries /\ a.looped
  BY <1>2 DEF Attempts0, WalkResults, Reusable
<1>4. Sound(a)  BY <1>3 DEF Sound
<1> HIDE DEF a
<1> QED  BY <1>1, <1>2, <1>3, <1>4, WalkEndedInv

LEMMA StepLimitInv == ZoneInv /\ StepLimit => ZoneInv'
<1> SUFFICES ASSUME ZoneInv, StepLimit PROVE ZoneInv'
  OBVIOUS
<1> DEFINE a == [attempt EXCEPT !.queries = @ + 0, !.error = attempt.error, !.status = "partial"]
<1>1. /\ walk \in Asking /\ WalkEnded([attempt EXCEPT !.status = "partial"])
      /\ UNCHANGED <<zone, probe, signing, limit, row, stale, result, walks, changes, current>>
  BY DEF StepLimit, Walked, Asking
<1>2. /\ attempt \in Attempts0 /\ current \in 0..MaxZone /\ attempt.queries \in Nat
      /\ attempt.error \in BOOLEAN /\ attempt.queries + 0 <= limit + 2
  BY DEF ZoneInv, ZoneTypes, Attempts0
<1>3. [attempt EXCEPT !.status = "partial"] = a
  <2>1. attempt.queries + 0 = attempt.queries  BY <1>2
  <2>2. a = [attempt EXCEPT !.queries = attempt.queries, !.error = attempt.error,
                            !.status = "partial"]
    BY <1>2, <2>1 DEF Attempts0
  <2> HIDE DEF a
  <2> QED  BY <1>2, <2>2 DEF Attempts0
<1>4. "partial" \in WalkResults \ {"walked"}  BY DEF WalkResults
<1>5. a \in Attempts0 /\ a.queries <= limit + 2 /\ Sound(a)  BY <1>1, <1>2, <1>4, AttemptEnds
<1>6. WalkEnded(a)  BY <1>1, <1>3
<1> HIDE DEF a
<1> QED  BY <1>1, <1>2, <1>5, <1>6, WalkEndedInv

LEMMA StepUnusableInv == ZoneInv /\ StepUnusable => ZoneInv'
<1> SUFFICES ASSUME ZoneInv, StepUnusable PROVE ZoneInv'
  OBVIOUS
<1>1. /\ walk \in Asking /\ walk = "step" /\ ~AtLimit(attempt)
      /\ UNCHANGED <<zone, probe, signing, limit, row, stale, result, walks, changes, current>>
  BY DEF StepUnusable, Asks, Walked, Asking
<1>2. PICK status \in {"partial", "nsec3-protected"} :
        WalkEnded([attempt EXCEPT !.queries = @ + 1, !.status = status])
  BY DEF StepUnusable
<1>3. attempt \in Attempts0 /\ current \in 0..MaxZone /\ attempt.error \in BOOLEAN
  BY DEF ZoneInv, ZoneTypes, Attempts0
<1> DEFINE a == [attempt EXCEPT !.queries = @ + 1, !.error = attempt.error, !.status = status]
<1>4. [attempt EXCEPT !.queries = @ + 1, !.status = status] = a  BY <1>3 DEF Attempts0
<1>5. status \in WalkResults \ {"walked"}  BY DEF WalkResults, Reusable
<1>6. attempt.queries + 1 <= limit + 2  BY <1>1, RoomToAsk
<1>7. a \in Attempts0 /\ a.queries <= limit + 2 /\ Sound(a)
  BY <1>1, <1>3, <1>5, <1>6, AttemptEnds
<1>8. WalkEnded(a)  BY <1>2, <1>4
<1> HIDE DEF a
<1> QED  BY <1>1, <1>3, <1>7, <1>8, WalkEndedInv

LEMMA FinishWalkInv == ZoneInv /\ FinishWalk => ZoneInv'
<1> SUFFICES ASSUME ZoneInv, FinishWalk PROVE ZoneInv'
  OBVIOUS
<1> USE ZoneAssumption
<1>1. ZoneTypes /\ WalkUnderWay /\ Sound(attempt) /\ Sound(best) /\ Sound(row) /\ ResultSound
  BY DEF ZoneInv
<1>2. /\ walk = "finish"
      /\ UNCHANGED <<zone, probe, signing, limit, stale, address, current, attempt, best, observed,
                     walks, changes>>
  BY DEF FinishWalk
<1>3. /\ FoundName.status = best.status /\ FoundName.cached = FALSE /\ FoundName.owed = best.owed
      /\ FoundName.looped = best.looped
      /\ FoundName.names = best.names \cup observed
  BY DEF FoundName
<1>4. Sound(attempt)' /\ Sound(best)'  BY <1>1, <1>2 DEF Sound
<1>5. best.status \in WalkResults /\ best.names \subseteq 1..MaxZone /\ observed \subseteq 1..MaxZone
  BY <1>1 DEF ZoneTypes, Attempts0
<1>6. CASE FoundName.names = {} /\ best.status = "unsupported" /\ UsableRow(row)
  <2>1. result' = FromRow /\ walk' = "idle" /\ UNCHANGED row  BY <1>6 DEF FinishWalk
  <2>2. ResultSound' /\ result'.status \in WalkResults \cup {"none"}  BY <1>6, <2>1, RowAnswers
  <2>3. ZoneTypes'  BY <1>1, <1>2, <2>1, <2>2 DEF ZoneTypes
  <2>4. WalkUnderWay'  BY <2>1 DEF WalkUnderWay, Asking
  <2>5. Sound(row)'  BY <1>1, <2>1 DEF Sound
  <2> QED  BY <1>4, <2>2, <2>3, <2>4, <2>5 DEF ZoneInv
<1>7. CASE /\ ~(FoundName.names = {} /\ best.status = "unsupported" /\ UsableRow(row))
           /\ best.status \in Reusable
  <2>1. /\ row' = [row EXCEPT !.names = @ \cup FoundName.names]
        /\ walk' = "store" /\ UNCHANGED result
    BY <1>7 DEF FinishWalk
  <2> DEFINE more == row.names \cup FoundName.names
  <2>2. row \in Snapshots /\ more \in SUBSET (1..MaxZone)
    BY <1>1, <1>3, <1>5 DEF ZoneTypes, Snapshots
  <2>3. /\ row' \in Snapshots /\ row'.status = row.status /\ row'.owed = row.owed
        /\ row'.looped = row.looped /\ row'.names = row.names \cup FoundName.names
    <3>1. row' = [row EXCEPT !.names = more]  BY <2>1
    <3>2. row'.names = more  BY <2>2, <3>1 DEF Snapshots
    <3>3. /\ row' \in Snapshots /\ row'.status = row.status /\ row'.owed = row.owed
          /\ row'.looped = row.looped
      <4> HIDE DEF more
      <4> QED  BY <2>2, <3>1 DEF Snapshots
    <3> QED  BY <3>2, <3>3
  <2>4. ZoneTypes'  BY <1>1, <1>2, <2>1, <2>3 DEF ZoneTypes
  <2>5. best'.status \in Reusable /\ best'.names \subseteq row'.names
    BY <1>2, <1>3, <1>7, <2>3
  <2>6. WalkUnderWay'  BY <2>1, <2>5 DEF WalkUnderWay, Asking
  <2>7. Sound(row)'  BY <1>1, <2>3 DEF Sound
  <2>8. ResultSound'  BY <1>1, <2>1 DEF ResultSound
  <2> QED  BY <1>4, <2>4, <2>6, <2>7, <2>8 DEF ZoneInv
<1>8. CASE /\ ~(FoundName.names = {} /\ best.status = "unsupported" /\ UsableRow(row))
           /\ best.status \notin Reusable
  <2>1. result' = FoundName /\ walk' = "idle" /\ UNCHANGED row  BY <1>8 DEF FinishWalk
  <2>2. ZoneTypes'  BY <1>1, <1>2, <1>3, <1>5, <2>1 DEF ZoneTypes
  <2>3. WalkUnderWay'  BY <2>1 DEF WalkUnderWay, Asking
  <2>4. Sound(row)'  BY <1>1, <2>1 DEF Sound
  <2>5. ResultSound'  BY <1>3, <1>8, <2>1 DEF ResultSound, Reusable
  <2> QED  BY <1>4, <2>2, <2>3, <2>4, <2>5 DEF ZoneInv
<1> QED  BY <1>6, <1>7, <1>8

LEMMA StoreRowInv == ZoneInv /\ StoreRow => ZoneInv'
<1> SUFFICES ASSUME ZoneInv, StoreRow PROVE ZoneInv'
  OBVIOUS
<1>1. /\ ZoneTypes /\ Sound(attempt) /\ Sound(best)
      /\ best.status \in Reusable /\ best.names \subseteq row.names
  BY DEF ZoneInv, WalkUnderWay, StoreRow
<1>2. /\ walk' = "idle" /\ row' = [row EXCEPT !.status = best.status, !.owed = best.owed, !.looped = best.looped]
      /\ result' = [FoundName EXCEPT !.names = row.names]
      /\ UNCHANGED <<zone, probe, signing, limit, address, current, attempt, best, observed, walks,
                     changes>>
  BY DEF StoreRow
<1>3. row \in Snapshots /\ best \in Attempts0  BY <1>1 DEF ZoneTypes
<1>4. /\ row' \in Snapshots /\ row'.status = best.status /\ row'.owed = best.owed
      /\ row'.names = row.names /\ row'.looped = best.looped
  BY <1>2, <1>3 DEF Snapshots, Attempts0
<1>5. /\ result'.status = best.status /\ result'.owed = best.owed /\ result'.names = row.names
      /\ result'.cached = FALSE /\ result'.looped = best.looped
  BY <1>2 DEF FoundName
<1>6. best.status \in WalkResults  BY <1>3 DEF Attempts0
<1>7. ZoneTypes'  BY <1>1, <1>2, <1>4, <1>5, <1>6 DEF ZoneTypes
<1>8. WalkUnderWay'  BY <1>2 DEF WalkUnderWay, Asking
<1>9. Sound(attempt)' /\ Sound(best)' /\ Sound(row)'  BY <1>1, <1>2, <1>4 DEF Sound
<1>10. ResultSound'  BY <1>1, <1>5 DEF ResultSound, Sound
<1> QED  BY <1>7, <1>8, <1>9, <1>10 DEF ZoneInv

LEMMA StopInv == ZoneInv /\ Stop => ZoneInv'
<1> SUFFICES ASSUME ZoneInv, Stop PROVE ZoneInv'
  OBVIOUS
<1>1. /\ walk' = "idle" /\ attempt' = Blank /\ best' = Blank /\ observed' = {}
      /\ UNCHANGED <<zone, probe, signing, limit, row, stale, address, current, result, walks,
                     changes>>
  BY DEF Stop
<1>2. Blank \in Attempts0 /\ Blank.queries = 0 /\ Blank.status = "unsupported"
  BY DEF Blank, Attempts0, WalkResults
<1>3. ZoneTypes'  BY <1>1, <1>2 DEF ZoneInv, ZoneTypes
<1>4. WalkUnderWay'  BY <1>1 DEF WalkUnderWay, Asking
<1>5. Sound(attempt)' /\ Sound(best)' /\ Sound(row)'  BY <1>1, <1>2 DEF ZoneInv, Sound
<1>6. ResultSound'  BY <1>1 DEF ZoneInv, ResultSound
<1> QED  BY <1>3, <1>4, <1>5, <1>6 DEF ZoneInv

LEMMA ZoneChangeInv == ZoneInv /\ ZoneChange => ZoneInv'
<1> SUFFICES ASSUME ZoneInv, ZoneChange PROVE ZoneInv'
  OBVIOUS
<1> USE ZoneAssumption
<1>1. ZoneTypes /\ WalkUnderWay /\ Sound(attempt) /\ Sound(best) /\ Sound(row) /\ ResultSound
  BY DEF ZoneInv
<1>2. /\ changes < MaxEdits /\ changes' = changes + 1
      /\ UNCHANGED <<probe, signing, limit, row, stale, walk, address, current, best, observed,
                     result, walks>>
  BY DEF ZoneChange
<1>3. PICK n \in 1..MaxZone :
        \/ n \in zone /\ zone' = zone \ {n} /\ attempt' = [attempt EXCEPT !.owed = @ \ {n}]
        \/ n \notin zone /\ zone' = zone \cup {n} /\ UNCHANGED attempt
  BY DEF ZoneChange
<1>4. /\ attempt' \in Attempts0 /\ attempt'.queries = attempt.queries
      /\ attempt'.names = attempt.names /\ attempt'.status = attempt.status
      /\ attempt'.looped = attempt.looped
      /\ attempt'.owed \subseteq attempt.owed
      /\ attempt.owed \subseteq zone => attempt'.owed \subseteq zone'
  <2>1. attempt \in Attempts0  BY <1>1 DEF ZoneTypes
  <2>2. CASE attempt' = attempt /\ zone' = zone \cup {n}
    BY <2>1, <2>2
  <2>3. CASE attempt' = [attempt EXCEPT !.owed = @ \ {n}] /\ zone' = zone \ {n}
    <3> DEFINE less == attempt.owed \ {n}
    <3>1. attempt' = [attempt EXCEPT !.owed = less] /\ less \in SUBSET (1..MaxZone)
          /\ less \subseteq attempt.owed
      BY <2>1, <2>3 DEF Attempts0
    <3>2. attempt'.owed = less  BY <2>1, <3>1 DEF Attempts0
    <3>3. attempt' \in Attempts0 /\ attempt'.queries = attempt.queries
          /\ attempt'.names = attempt.names /\ attempt'.status = attempt.status
          /\ attempt'.looped = attempt.looped
      <4> HIDE DEF less
      <4> QED  BY <2>1, <3>1 DEF Attempts0
    <3> QED  BY <2>3, <3>1, <3>2, <3>3
  <2> QED  BY <1>3, <2>2, <2>3
<1>5. zone' \subseteq 1..MaxZone  BY <1>1, <1>3 DEF ZoneTypes
<1>6. ZoneTypes'  BY <1>1, <1>2, <1>4, <1>5 DEF ZoneTypes
<1>7. WalkUnderWay'  BY <1>1, <1>2, <1>4 DEF WalkUnderWay
<1>8. Sound(attempt)' /\ Sound(best)' /\ Sound(row)'  BY <1>1, <1>2, <1>4 DEF Sound
<1>9. ResultSound'  BY <1>1, <1>2 DEF ResultSound
<1> QED  BY <1>6, <1>7, <1>8, <1>9 DEF ZoneInv

\* Nothing the invariant speaks of has changed.
LEMMA ZoneRestsInv ==
    ASSUME ZoneInv, UNCHANGED <<zone, probe, signing, limit, row, walk, address, current, attempt,
                                best, observed, result, walks, changes>>
    PROVE  ZoneInv'
BY DEF ZoneInv, ZoneTypes, WalkUnderWay, Sound, ResultSound

LEMMA ZoneInvAlways == ZoneSpec => []ZoneInv
<1>1. ZoneInit => ZoneInv  BY ZoneInitInv
<1>2. ZoneInv /\ [ZoneNext]_zoneVars => ZoneInv'
  <2> SUFFICES ASSUME ZoneInv, [ZoneNext]_zoneVars PROVE ZoneInv'
    OBVIOUS
  <2>1. CASE GrowStale  BY <2>1, ZoneRestsInv DEF GrowStale
  <2>2. CASE UNCHANGED zoneVars  BY <2>2, ZoneRestsInv DEF zoneVars
  <2> QED
    BY <2>1, <2>2, StartWalkInv, LookupInv, ConnectInv, OutOfServersInv, FailsInv, ProbeInv,
       StepInv, StepSeenInv, StepLimitInv, StepUnusableInv, FinishWalkInv, StoreRowInv, StopInv,
       ZoneChangeInv
       DEF ZoneNext
<1> QED  BY <1>1, <1>2, PTL DEF ZoneSpec

\* The state of a walk, its cache and its results keep their types.
THEOREM ZoneTyped == ZoneSpec => []ZoneTypeOK
<1>1. ZoneInv => ZoneTypeOK
  <2> SUFFICES ASSUME ZoneInv PROVE ZoneTypeOK
    OBVIOUS
  <2>1. ZoneTypes  BY DEF ZoneInv
  <2>2. \A a \in {attempt, best} :
            /\ a.status \in WalkResults /\ a.queries \in 0..(limit + 2)
            /\ a.names \cup a.owed \subseteq 1..MaxZone
    BY <2>1 DEF ZoneTypes, Attempts0
  <2>3. \A r \in {row, result} : r.status \in WalkResults \cup {"none"}
    BY <2>1 DEF ZoneTypes, Snapshots
  <2> QED  BY <2>1, <2>2, <2>3 DEF ZoneTypes, ZoneTypeOK
<1> QED  BY <1>1, ZoneInvAlways, PTL

-----------------------------------------------------------------------------
(* The transfer of a zone.                                                 *)

Succeeded == {t \in Targets : transfer[t] = "Success"}

\* A transfer that ended is of a chosen server, within the budget; one success ends all others.
AxfrInv ==
    /\ AxfrTypeOK /\ recordLimit \in Nat
    /\ \A t \in Targets : transfer[t] # "left" => t \in chosen
    /\ \A t \in Targets : arrived[t] <= recordLimit
    /\ \A t \in Succeeded : arrived[t] = Whole /\ ~reloaded[t]
    /\ \A t \in Succeeded : \A u \in Targets :
            transfer[u] \in {"waiting", "open", "Success"} => u = t
    /\ Cardinality(Open) <= AtOnce

\* The servers whose connection is open are finite in number, and one more is one more.
LEMMA OpenCounts ==
    /\ IsFiniteSet(Open) /\ Cardinality(Open) \in Nat
    /\ \A S \in SUBSET Open : Cardinality(S) \in Nat /\ Cardinality(S) <= Cardinality(Open)
    /\ \A t \in Targets : Cardinality(Open \cup {t}) <= Cardinality(Open) + 1
<1>1. IsFiniteSet(Open)  BY TransferAssumption, FS_Subset DEF Open
<1>2. Cardinality(Open) \in Nat  BY <1>1, FS_CardinalityType
<1>3. ASSUME NEW S \in SUBSET Open
      PROVE  Cardinality(S) \in Nat /\ Cardinality(S) <= Cardinality(Open)
  BY <1>1, FS_Subset, FS_CardinalityType
<1>4. ASSUME NEW t \in Targets PROVE Cardinality(Open \cup {t}) <= Cardinality(Open) + 1
  <2>1. CASE t \in Open
    <3>1. Open \cup {t} = Open  BY <2>1
    <3>2. Cardinality(Open \cup {t}) = Cardinality(Open)  BY <3>1
    <3> DEFINE c == Cardinality(Open)
    <3>3. c \in Nat  BY <1>2
    <3> HIDE DEF c
    <3>4. c <= c + 1  BY <3>3
    <3> QED  BY <3>2, <3>4 DEF c
  <2>2. CASE t \notin Open
    <3>1. Cardinality(Open \cup {t}) = Cardinality(Open) + 1  BY <1>1, <2>2, FS_AddElement
    <3> QED  BY <1>2, <3>1
  <2> QED  BY <2>1, <2>2
<1> QED  BY <1>1, <1>2, <1>3, <1>4

LEMMA AxfrInitInv == AxfrInit => AxfrInv
<1> SUFFICES ASSUME AxfrInit PROVE AxfrInv
  OBVIOUS
<1> USE TransferAssumption DEF AxfrInit
<1>1. AxfrTypeOK /\ recordLimit \in Nat
  BY DEF AxfrTypeOK, Failures, Whole
<1>2. \A t \in Targets : transfer[t] \in {"waiting", "left"} /\ (transfer[t] # "left" => t \in chosen)
  OBVIOUS
<1>3. Open = {} /\ Succeeded = {}  BY <1>2 DEF Open, Succeeded
<1>4. Cardinality(Open) <= AtOnce  BY <1>3, FS_EmptySet
<1> QED  BY <1>1, <1>2, <1>3, <1>4 DEF AxfrInv

LEMMA ConnectsInv ==
    ASSUME AxfrInv, NEW t \in Targets, Connects(t)
    PROVE  AxfrInv'
<1> USE TransferAssumption
<1>1. /\ AxfrTypeOK /\ transfer[t] = "waiting" /\ Cardinality(Open) < AtOnce
      /\ UNCHANGED <<chosen, arrived, reloaded, recordLimit, sourced, axfr>>
  BY DEF AxfrInv, Connects
<1>2. PICK s \in {"open"} \cup (Failures \ {"Empty"}) : transfer' = [transfer EXCEPT ![t] = s]
  BY DEF Connects
<1>3. s \in Failures \cup {"open"} /\ s \notin {"waiting", "Success", "left"}  BY DEF Failures
<1>4. \A u \in Targets : transfer'[u] = IF u = t THEN s ELSE transfer[u]
  BY <1>1, <1>2 DEF AxfrTypeOK
<1>5. Succeeded = {}  BY <1>1 DEF AxfrInv, Succeeded
<1>6. Succeeded' = {}  BY <1>3, <1>4, <1>5 DEF Succeeded
<1>7. AxfrTypeOK'  BY <1>1, <1>2, <1>3 DEF AxfrTypeOK
<1>8. Cardinality(Open') <= AtOnce
  <2>1. Open' \subseteq Open \cup {t}  BY <1>4 DEF Open
  <2>2. IsFiniteSet(Open \cup {t}) /\ Cardinality(Open \cup {t}) <= Cardinality(Open) + 1
    BY OpenCounts, FS_AddElement
  <2>3. Cardinality(Open') <= Cardinality(Open \cup {t})  BY <2>1, <2>2, FS_Subset
  <2>4. IsFiniteSet(Open')  BY <2>1, <2>2, FS_Subset
  <2>5. {Cardinality(Open'), Cardinality(Open \cup {t}), Cardinality(Open)} \subseteq Nat
    BY <2>2, <2>4, OpenCounts, FS_CardinalityType
  <2> QED  BY <1>1, <2>2, <2>3, <2>5
<1>9. \A u \in Targets : transfer'[u] # "left" => u \in chosen'  BY <1>1, <1>4 DEF AxfrInv
<1> QED  BY <1>1, <1>6, <1>7, <1>8, <1>9 DEF AxfrInv

\* A transfer that is open only moves on or fails, and none is opened.
LEMMA OpenGoesOn ==
    ASSUME AxfrInv, NEW t \in Targets, transfer[t] = "open", NEW s \in Failures \cup {"open"},
           transfer' = [transfer EXCEPT ![t] = s], NEW n \in 0..Whole, n <= recordLimit,
           arrived' = [arrived EXCEPT ![t] = n], NEW again \in BOOLEAN,
           reloaded' = [reloaded EXCEPT ![t] = again],
           UNCHANGED <<chosen, recordLimit, sourced, axfr>>
    PROVE  AxfrInv'
<1> USE TransferAssumption
<1>1. AxfrTypeOK /\ recordLimit \in Nat  BY DEF AxfrInv
<1>2. s \notin {"waiting", "Success", "left"}  BY DEF Failures
<1>3. \A u \in Targets : /\ transfer'[u] = IF u = t THEN s ELSE transfer[u]
                         /\ arrived'[u] = IF u = t THEN n ELSE arrived[u]
  BY <1>1 DEF AxfrTypeOK
<1>4. Succeeded = {}  BY DEF AxfrInv, Succeeded
<1>5. Succeeded' = {}  BY <1>2, <1>3, <1>4 DEF Succeeded
<1>6. AxfrTypeOK'  BY <1>1, <1>2 DEF AxfrTypeOK, Whole
<1>7. Cardinality(Open') <= AtOnce
  <2>1. Open' \in SUBSET Open  BY <1>3 DEF Open
  <2>2. Cardinality(Open) <= AtOnce  BY DEF AxfrInv
  <2> QED  BY <2>1, <2>2, OpenCounts
<1>8. \A u \in Targets : transfer'[u] # "left" => u \in chosen'  BY <1>3 DEF AxfrInv
<1>9. \A u \in Targets : arrived'[u] <= recordLimit'  BY <1>3 DEF AxfrInv
<1> QED  BY <1>1, <1>5, <1>6, <1>7, <1>8, <1>9 DEF AxfrInv

LEMMA ReceivesInv ==
    ASSUME AxfrInv, NEW t \in Targets, Receives(t)
    PROVE  AxfrInv'
<1> USE TransferAssumption
<1>1. /\ AxfrTypeOK /\ transfer[t] = "open" /\ recordLimit \in Nat
      /\ arrived[t] \in 0..Whole /\ Whole \in Nat /\ reloaded[t] \in BOOLEAN
      /\ UNCHANGED <<chosen, recordLimit, sourced, axfr>>
  BY DEF AxfrInv, Receives, AxfrTypeOK, Whole
<1>2. PICK n \in 1..(Whole - arrived[t]), again \in {reloaded[t], TRUE} :
        /\ reloaded' = [reloaded EXCEPT ![t] = again]
        /\ IF arrived[t] + n > recordLimit
           THEN /\ arrived' = [arrived EXCEPT ![t] = recordLimit]
                /\ transfer' = [transfer EXCEPT ![t] = "ProtocolError"]
           ELSE arrived' = [arrived EXCEPT ![t] = @ + n] /\ UNCHANGED transfer
  BY DEF Receives
<1>3. again \in BOOLEAN /\ arrived[t] + n \in 0..Whole
  <2>1. again \in BOOLEAN  BY <1>1
  <2> DEFINE had == arrived[t]
             all == Whole
  <2>2. had \in 0..all /\ all \in Nat /\ n \in 1..(all - had)  BY <1>1
  <2> HIDE DEF had, all
  <2>3. had + n \in 0..all  BY <2>2
  <2> QED  BY <2>1, <2>3 DEF had, all
<1>4. CASE arrived[t] + n > recordLimit
  <2>1. recordLimit \in 0..Whole /\ recordLimit <= recordLimit  BY <1>1, <1>3, <1>4
  <2>2. "ProtocolError" \in Failures \cup {"open"}  BY DEF Failures
  <2> QED  BY <1>1, <1>2, <1>3, <1>4, <2>1, <2>2, OpenGoesOn
<1>5. CASE ~(arrived[t] + n > recordLimit)
  <2>1. transfer' = [transfer EXCEPT ![t] = "open"]  BY <1>1, <1>2, <1>5 DEF AxfrTypeOK
  <2>2. arrived' = [arrived EXCEPT ![t] = arrived[t] + n]  BY <1>2, <1>5
  <2>3. arrived[t] + n <= recordLimit  BY <1>1, <1>3, <1>5
  <2> QED  BY <1>1, <1>2, <1>3, <2>1, <2>2, <2>3, OpenGoesOn
<1> QED  BY <1>4, <1>5

LEMMA BreaksOffInv ==
    ASSUME AxfrInv, NEW t \in Targets, BreaksOff(t)
    PROVE  AxfrInv'
<1>1. /\ AxfrTypeOK /\ transfer[t] = "open"
      /\ UNCHANGED <<chosen, arrived, reloaded, recordLimit, sourced, axfr>>
  BY DEF AxfrInv, BreaksOff
<1>2. PICK s \in Failures \ {"Empty"} : transfer' = [transfer EXCEPT ![t] = s]
  BY DEF BreaksOff
<1>3. /\ arrived' = [arrived EXCEPT ![t] = arrived[t]] /\ arrived[t] \in 0..Whole
      /\ reloaded' = [reloaded EXCEPT ![t] = reloaded[t]] /\ reloaded[t] \in BOOLEAN
      /\ arrived[t] <= recordLimit
  BY <1>1 DEF AxfrTypeOK, AxfrInv
<1> QED  BY <1>1, <1>2, <1>3, OpenGoesOn

LEMMA StreamEndsInv ==
    ASSUME AxfrInv, NEW t \in Targets, StreamEnds(t)
    PROVE  AxfrInv'
<1> USE TransferAssumption
<1>1. /\ AxfrTypeOK /\ transfer[t] = "open" /\ recordLimit \in Nat
      /\ UNCHANGED <<chosen, arrived, reloaded, recordLimit, sourced, axfr>>
  BY DEF AxfrInv, StreamEnds
<1>2. ClassifyTransfer(t) \in {"Success", "Empty"}  BY DEF ClassifyTransfer
<1>3. Succeeded = {}  BY <1>1 DEF AxfrInv, Succeeded
<1>4. CASE ClassifyTransfer(t) = "Empty"
  <2>1. transfer' = [transfer EXCEPT ![t] = "Empty"]  BY <1>1, <1>4 DEF StreamEnds, AxfrTypeOK
  <2>2. /\ arrived' = [arrived EXCEPT ![t] = arrived[t]] /\ arrived[t] \in 0..Whole
        /\ reloaded' = [reloaded EXCEPT ![t] = reloaded[t]] /\ reloaded[t] \in BOOLEAN
        /\ arrived[t] <= recordLimit /\ "Empty" \in Failures \cup {"open"}
    BY <1>1 DEF AxfrTypeOK, AxfrInv, Failures
  <2> QED  BY <1>1, <2>1, <2>2, OpenGoesOn
<1>5. CASE ClassifyTransfer(t) = "Success"
  <2>1. arrived[t] = Whole /\ ~reloaded[t]  BY <1>5 DEF ClassifyTransfer
  <2>2. transfer' = [u \in Targets |-> IF u = t THEN "Success"
                        ELSE IF transfer[u] \in {"waiting", "open"} THEN "left" ELSE transfer[u]]
    BY <1>5 DEF StreamEnds
  <2>3. AxfrTypeOK'  BY <1>1, <2>2 DEF AxfrTypeOK
  <2>4. Succeeded' = {t}  BY <1>3, <2>2 DEF Succeeded
  <2>5. \A u \in Targets : transfer'[u] \in {"waiting", "open", "Success"} => u = t
    BY <1>3, <2>2 DEF Succeeded
  <2>6. Open' = {}  BY <2>2 DEF Open
  <2>7. Cardinality(Open') <= AtOnce  BY <2>6, FS_EmptySet
  <2>8. t \in chosen  BY <1>1 DEF AxfrInv
  <2>9. \A u \in Targets : transfer'[u] # "left" => u \in chosen'
    BY <1>1, <2>2, <2>8 DEF AxfrInv
  <2> QED  BY <1>1, <2>1, <2>3, <2>4, <2>5, <2>7, <2>9 DEF AxfrInv
<1> QED  BY <1>2, <1>4, <1>5

LEMMA CollectsInv == AxfrInv /\ Collects => AxfrInv'
<1> SUFFICES ASSUME AxfrInv, Collects PROVE AxfrInv'
  OBVIOUS
<1>1. /\ axfr' = "done" /\ sourced' = {t \in Targets : transfer[t] = "Success"}
      /\ UNCHANGED <<chosen, transfer, arrived, reloaded, recordLimit>>
  BY DEF Collects
<1>2. sourced' \subseteq chosen'  BY <1>1 DEF AxfrInv
<1>3. AxfrTypeOK'  BY <1>1, <1>2 DEF AxfrInv, AxfrTypeOK
<1> QED  BY <1>1, <1>3 DEF AxfrInv, Succeeded, Open

LEMMA AxfrInvAlways == AxfrSpec => []AxfrInv
<1>1. AxfrInit => AxfrInv  BY AxfrInitInv
<1>2. AxfrInv /\ [AxfrNext]_axfrVars => AxfrInv'
  <2> SUFFICES ASSUME AxfrInv, [AxfrNext]_axfrVars PROVE AxfrInv'
    OBVIOUS
  <2>1. ASSUME NEW t \in Targets, Connects(t) \/ Receives(t) \/ BreaksOff(t) \/ StreamEnds(t)
        PROVE  AxfrInv'
    BY <2>1, ConnectsInv, ReceivesInv, BreaksOffInv, StreamEndsInv
  <2>2. CASE UNCHANGED axfrVars
    BY <2>2 DEF axfrVars, AxfrInv, AxfrTypeOK, Succeeded, Open
  <2> QED  BY <2>1, <2>2, CollectsInv DEF AxfrNext
<1> QED  BY <1>1, <1>2, PTL DEF AxfrSpec

\* The transfers of a zone, their records and the sources they become keep their types.
THEOREM AxfrTyped == AxfrSpec => []AxfrTypeOK
<1>1. AxfrInv => AxfrTypeOK  BY DEF AxfrInv
<1> QED  BY <1>1, AxfrInvAlways, PTL

-----------------------------------------------------------------------------
\* A walk that came to the apex, a snapshot of one that is reused and a transfer whose names
\* become sources have every name the server owed: for every size of the zone, number of
\* servers, limit, change of the zone on the way, and whichever record an answer has first.
THEOREM ZonesSound == ZonesSpec => []ZoneSound
<1>1. ZoneInv => WalkSound
  <2> SUFFICES ASSUME ZoneInv PROVE WalkSound
    OBVIOUS
  <2>1. row.status = "walked" => row.looped \/ row.owed \subseteq row.names
    BY DEF ZoneInv, Sound
  <2> QED  BY <2>1 DEF ZoneInv, ResultSound, WalkSound
<1>2. AxfrInv => AxfrWhole
  <2> SUFFICES ASSUME AxfrInv PROVE AxfrWhole
    OBVIOUS
  <2>1. \A t \in Targets : transfer[t] = "Success" =>
            arrived[t] = Whole /\ ~reloaded[t] /\ Whole <= recordLimit
    BY DEF AxfrInv, Succeeded
  <2>2. Cardinality(Succeeded) <= 1
    <3>1. CASE Succeeded = {}
      <4>1. Cardinality(Succeeded) = 0  BY <3>1, FS_EmptySet
      <4> QED  BY <4>1
    <3>2. CASE Succeeded # {}
      <4>1. PICK t \in Succeeded : TRUE  BY <3>2
      <4>2. Succeeded = {t}  BY <4>1 DEF AxfrInv, Succeeded
      <4>3. Cardinality({t}) = 1  BY FS_Singleton
      <4>4. Cardinality(Succeeded) = 1  BY <4>2, <4>3
      <4> QED  BY <4>4
    <3> QED  BY <3>1, <3>2
  <2> QED  BY <2>1, <2>2 DEF AxfrInv, AxfrWhole, Succeeded
<1> QED  BY <1>1, <1>2, ZoneInvAlways, AxfrInvAlways, PTL DEF ZonesSpec, ZoneSound

-----------------------------------------------------------------------------
(* The feeds of candidates.                                                *)

Cursors == [line : Nat, within : 0..1, exhausted : BOOLEAN]
FillPages == [at : {"idle", "page", "window", "mark", "corpus"}, room : Nat, spare : Int,
              from : Cursors, pos : Cursors, lines : Nat, units : Nat, found : Seq(Nat),
              cut : SUBSET Nat]

Known == FeedRows \cup seeds
\* Lines that give a name, unless they were cut.
Named(l) == file[l].name # Junk

FeedTypes ==
    /\ file \in Seq(LineOf) /\ Len(file) <= MaxLines /\ maxWords \in Nat
    /\ IsFiniteSet(queue) /\ IsFiniteSet(taken) /\ queue \cap taken = {}
    /\ FeedRows \subseteq Wordlist \cup Generated \cup CorpusNames(Len(CorpusList))
    /\ words \in Cursors /\ words.line <= Len(file) /\ window \in BOOLEAN
    /\ corpus \in [passed : 0..Len(CorpusList), exhausted : BOOLEAN]
    /\ split \subseteq 1..Len(file)
    /\ filler \in [Refillers -> FillPages]

\* What lies before the cursors of the feeds is known; a line that a page ended within is one
\* of the cut ones.
FeedsPassed ==
    /\ \A l \in 1..words.line : Named(l) /\ l \notin split => file[l].name \in Known
    /\ words.within > 0 => words.line + 1 \in split
    /\ words.exhausted => words.line = Len(file)
    /\ CorpusNames(corpus.passed) \subseteq Known
    /\ corpus.exhausted => corpus.passed = Len(CorpusList)

\* A page has every name it passed, in their order, but of lines that were cut.
PageKept(f) ==
    /\ f.from.line <= f.pos.line /\ f.pos.line <= Len(file)
    /\ f.cut \subseteq 1..Len(file) /\ f.room > 0
    /\ \A k \in 1..Len(f.found) : /\ f.found[k] \in (f.from.line + 1)..f.pos.line
                                  /\ Named(f.found[k])
    /\ \A j, k \in 1..Len(f.found) : j < k => f.found[j] < f.found[k]
    /\ \A l \in (f.from.line + 1)..f.pos.line :
        \/ ~Named(l) \/ l \in f.cut \/ (l = f.from.line + 1 /\ f.from.within > 0)
        \/ \E k \in 1..Len(f.found) : f.found[k] = l
    /\ f.pos.within > 0 => \/ f.pos.line + 1 \in f.cut
                           \/ f.pos.line = f.from.line /\ f.from.within > 0

FeedInv ==
    /\ FeedTypes /\ FeedsPassed
    /\ \A p \in Refillers : filler[p].at = "page" => PageKept(filler[p])

\* The image of a stretch of numbers is finite.
LEMMA StretchImage ==
    ASSUME NEW n \in Nat, NEW T, NEW f, \A y \in T : \E k \in 1..n : y = f[k]
    PROVE  IsFiniteSet(T)
<1> DEFINE S == {k \in 1..n : f[k] \in T}
           g == [k \in S |-> f[k]]
<1>1. IsFiniteSet(1..n)  BY FS_Interval
<1>2. IsFiniteSet(S)  BY <1>1, FS_Subset
<1>3. g \in Surjection(S, T)
  <2>1. g \in [S -> T]  OBVIOUS
  <2>2. \A y \in T : \E k \in S : g[k] = y  OBVIOUS
  <2> QED  BY <2>1, <2>2 DEF Surjection
<1> HIDE DEF S, g
<1> QED  BY <1>2, <1>3, FS_Surjection

\* The corpus has a length; the names up to a place of it are finite in number.
LEMMA CorpusFinite ==
    /\ Len(CorpusList) \in Nat
    /\ \A i \in Nat : IsFiniteSet(CorpusNames(i))
    /\ \A i \in 0..Len(CorpusList) : CorpusNames(i) \subseteq CorpusNames(Len(CorpusList))
<1>1. Len(CorpusList) \in Nat
  <2>1. CorpusList \in Seq({CorpusList[k] : k \in DOMAIN CorpusList})  BY FeedAssumption
  <2> QED  BY <2>1, LenProperties
<1>2. ASSUME NEW i \in Nat PROVE IsFiniteSet(CorpusNames(i))
  BY StretchImage DEF CorpusNames
<1>3. ASSUME NEW i \in 0..Len(CorpusList)
      PROVE  CorpusNames(i) \subseteq CorpusNames(Len(CorpusList))
  BY <1>1 DEF CorpusNames
<1> QED  BY <1>1, <1>2, <1>3

\* What is known stays known while the rows only grow.
LEMMA PassedStays ==
    ASSUME FeedsPassed, Known \subseteq Known', split \subseteq split',
           UNCHANGED <<file, words, corpus>>
    PROVE  FeedsPassed'
<1>1. \A l \in 1..words.line : Named(l) /\ l \notin split' => file[l].name \in Known'
  BY DEF FeedsPassed
<1>2. CorpusNames(corpus.passed) \subseteq Known'  BY DEF FeedsPassed
<1> QED  BY <1>1, <1>2 DEF FeedsPassed, Named

\* A run moves on, and only its own page with it.
LEMMA FillerMoves ==
    ASSUME FeedInv, NEW p \in Refillers, NEW page \in FillPages, Goes(p, page), UNCHANGED file,
           page.at = "page" => PageKept(page)
    PROVE  /\ filler' \in [Refillers -> FillPages]
           /\ (\A q \in Refillers : filler[q].at = "page" => PageKept(filler[q]))'
<1>1. filler \in [Refillers -> FillPages]  BY DEF FeedInv, FeedTypes
<1>2. filler' = [filler EXCEPT ![p] = page]  BY DEF Goes
<1>3. \A q \in Refillers : filler'[q] = IF q = p THEN page ELSE filler[q]  BY <1>1, <1>2
<1>4. ASSUME NEW q \in Refillers, filler'[q].at = "page" PROVE PageKept(filler'[q])
  BY <1>3, <1>4 DEF FeedInv
<1>5. ASSUME NEW f, PageKept(f) PROVE PageKept(f)'
  BY <1>5 DEF PageKept, Named
<1> QED  BY <1>1, <1>2, <1>3, <1>4 DEF PageKept, Named

\* A run between two pages.
LEMMA PageFields ==
    NoPage \in FillPages /\ NoPage.at = "idle" /\ FeedStart \in Cursors
<1>1. FeedStart \in Cursors  BY DEF FeedStart, Cursors
<1>2. <<>> \in Seq(Nat) /\ {} \in SUBSET Nat  BY EmptySeq
<1>3. NoPage \in FillPages /\ NoPage.at = "idle"
  <2>1. 0 \in Nat /\ 0 \in Int /\ "idle" \in {"idle", "page", "window", "mark", "corpus"}
    OBVIOUS
  <2> QED  BY <1>1, <1>2, <2>1, Zenon DEF NoPage, FillPages
<1> QED  BY <1>1, <1>3

LEMMA FeedInitInv == FeedInit => FeedInv
<1> SUFFICES ASSUME FeedInit PROVE FeedInv
  OBVIOUS
<1> USE FeedAssumption DEF FeedInit
<1>1. PICK n \in 0..MaxLines : file \in [1..n -> LineOf]  OBVIOUS
<1>2. file \in Seq(LineOf) /\ Len(file) = n
  <2>1. n \in Nat  OBVIOUS
  <2>2. file \in Seq(LineOf)  BY <1>1, <2>1, SeqDef
  <2>3. Len(file) \in Nat /\ DOMAIN file = 1..Len(file)  BY <2>2, LenProperties
  <2>4. 1..Len(file) = 1..n  BY <1>1, <2>3
  <2> DEFINE l == Len(file)
  <2>5. l \in Nat /\ 1..l = 1..n  BY <2>3, <2>4
  <2> HIDE DEF l
  <2>6. l = n
    <3>1. l \in 1..l \/ l = 0  BY <2>5
    <3>2. n \in 1..n \/ n = 0  OBVIOUS
    <3>3. l <= n /\ n <= l  BY <2>1, <2>5, <3>1, <3>2
    <3> QED  BY <2>1, <2>5, <3>3
  <2> QED  BY <2>2, <2>6 DEF l
<1>3. NoPage \in FillPages /\ NoPage.at = "idle" /\ FeedStart \in Cursors
  BY PageFields
<1>4. FeedRows = {} /\ IsFiniteSet(queue) /\ IsFiniteSet(taken)  BY FS_EmptySet DEF FeedRows
<1>5. words.line = 0 /\ words.within = 0 /\ words.exhausted = FALSE  BY DEF FeedStart
<1>6. FeedTypes
  <2>1. words \in Cursors /\ words.line <= Len(file)  BY <1>2, <1>3, <1>5
  <2>2. corpus \in [passed : 0..Len(CorpusList), exhausted : BOOLEAN]  BY CorpusFinite
  <2>3. filler \in [Refillers -> FillPages]  BY <1>3
  <2>4. Len(file) <= MaxLines /\ maxWords \in Nat  BY <1>2
  <2>5. queue \cap taken = {} /\ window \in BOOLEAN /\ split \subseteq 1..Len(file)  OBVIOUS
  <2> QED  BY <1>2, <1>4, <2>1, <2>2, <2>3, <2>4, <2>5 DEF FeedTypes
<1>7. FeedsPassed  BY <1>5, CorpusFinite DEF FeedsPassed, CorpusNames
<1>8. \A p \in Refillers : filler[p].at # "page"  BY <1>3
<1> QED  BY <1>6, <1>7, <1>8 DEF FeedInv

LEMMA StartRefillInv ==
    ASSUME FeedInv, NEW p \in Refillers, StartRefill(p)
    PROVE  FeedInv'
<1> USE FeedAssumption
<1>1. FeedTypes /\ FeedsPassed  BY DEF FeedInv
<1>2. UNCHANGED <<file, maxWords, seeds, queue, taken, words, window, corpus, split>>
  BY DEF StartRefill
<1> DEFINE spare == maxWords - Cardinality(FeedRows)
           room == IF Target - Cardinality(queue) < spare THEN Target - Cardinality(queue) ELSE spare
           at == IF words.exhausted THEN "window" ELSE "page"
           page == [NoPage EXCEPT !.room = room, !.spare = spare, !.from = words, !.pos = words,
                                  !.at = at]
<1>3. /\ Cardinality(queue) < Target /\ Cardinality(FeedRows) < maxWords /\ Goes(p, page)
  BY DEF StartRefill
<1>4. room \in Nat \ {0} /\ spare \in Int
  <2>1. Cardinality(queue) \in Nat  BY <1>1, FS_CardinalityType DEF FeedTypes
  <2>2. IsFiniteSet(FeedRows)  BY <1>1, FS_Union DEF FeedTypes, FeedRows
  <2>3. Cardinality(FeedRows) \in Nat  BY <2>2, FS_CardinalityType
  <2>4. maxWords \in Nat /\ Target \in Nat  BY <1>1 DEF FeedTypes
  <2> QED  BY <1>3, <2>1, <2>3, <2>4
<1> HIDE DEF room, spare
<1>5. words \in Cursors /\ at \in {"window", "page"}  BY <1>1 DEF FeedTypes
<1>6. NoPage \in FillPages  BY PageFields
<1> HIDE DEF at
<1>7. page \in FillPages  BY <1>4, <1>5, <1>6 DEF FillPages
<1>8. /\ page.from = words /\ page.pos = words /\ page.room = room
      /\ page.found = NoPage.found /\ page.cut = NoPage.cut
  BY <1>6 DEF FillPages
<1>9. NoPage.found = <<>> /\ NoPage.cut = {}  BY DEF NoPage
<1> HIDE DEF page
<1>10. PageKept(page)
  <2>1. Len(page.found) = 0  BY <1>8, <1>9, EmptySeq
  <2>2. words.line \in Nat /\ words.line <= Len(file)  BY <1>1, <1>5 DEF FeedTypes, Cursors
  <2>3. (words.line + 1)..words.line = {}  BY <2>2
  <2> QED  BY <1>4, <1>8, <1>9, <2>1, <2>2, <2>3 DEF PageKept
<1>11. /\ filler' \in [Refillers -> FillPages]
       /\ (\A q \in Refillers : filler[q].at = "page" => PageKept(filler[q]))'
  BY <1>2, <1>3, <1>7, <1>10, FillerMoves
<1>12. FeedTypes'  BY <1>1, <1>2, <1>11 DEF FeedTypes, FeedRows
<1>13. FeedsPassed'
  <2>1. Known' = Known  BY <1>2 DEF Known, FeedRows
  <2> QED  BY <1>1, <1>2, <2>1, PassedStays
<1> QED  BY <1>11, <1>12, <1>13 DEF FeedInv

\* A line that is read whole.
LEMMA PageGrows ==
    ASSUME FeedTypes, NEW f \in FillPages, PageKept(f), f.pos.line < Len(file),
           NEW g \in FillPages, g.from = f.from, g.cut = f.cut, g.room = f.room,
           g.pos.line = f.pos.line + 1, g.pos.within = 0,
           g.found = IF f.pos.within = 0 /\ Named(f.pos.line + 1)
                     THEN Append(f.found, f.pos.line + 1) ELSE f.found
    PROVE  PageKept(g)
<1> DEFINE next == f.pos.line + 1
<1>1. /\ f.from.line \in Nat /\ f.pos.line \in Nat /\ f.pos.within \in 0..1
      /\ f.found \in Seq(Nat) /\ f.from.within \in 0..1
  BY DEF FillPages, Cursors
<1>2. Len(file) \in Nat  BY LenProperties DEF FeedTypes
<1>3. next \in Nat /\ g.pos.line = next /\ next <= Len(file) /\ next > f.pos.line
  BY <1>1, <1>2
<1>4. Len(f.found) \in Nat /\ \A k \in 1..Len(f.found) : f.found[k] \in Nat
  BY <1>1, LenProperties, ElementOfSeq
<1>5. /\ f.from.line <= f.pos.line
      /\ \A k \in 1..Len(f.found) : /\ f.found[k] \in (f.from.line + 1)..f.pos.line
                                    /\ Named(f.found[k])
      /\ \A j, k \in 1..Len(f.found) : j < k => f.found[j] < f.found[k]
      /\ \A l \in (f.from.line + 1)..f.pos.line :
            \/ ~Named(l) \/ l \in f.cut \/ (l = f.from.line + 1 /\ f.from.within > 0)
            \/ \E k \in 1..Len(f.found) : f.found[k] = l
      /\ f.cut \subseteq 1..Len(file) /\ f.room > 0
      /\ f.pos.within > 0 => \/ next \in f.cut
                             \/ f.pos.line = f.from.line /\ f.from.within > 0
  BY DEF PageKept
<1>6. next \in (f.from.line + 1)..next  BY <1>1, <1>3, <1>5
<1>7. \A l \in (f.from.line + 1)..next : l = next \/ l \in (f.from.line + 1)..f.pos.line
  BY <1>1
<1>8. CASE f.pos.within = 0 /\ Named(next)
  <2> DEFINE n == Len(f.found)
  <2>1. /\ g.found \in Seq(Nat) /\ Len(g.found) = n + 1
        /\ \A i \in 1..n : g.found[i] = f.found[i]
        /\ g.found[n + 1] = next
    <3>1. g.found = Append(f.found, next)  BY <1>8
    <3> HIDE DEF next
    <3> QED  BY <1>1, <1>3, <3>1, AppendProperties
  <2>2. \A k \in 1..(n + 1) : k \in 1..n \/ k = n + 1  BY <1>4
  <2>3. n \in Nat /\ n + 1 \in 1..(n + 1) /\ 1..n \subseteq 1..(n + 1)  BY <1>4
  <2>4. \A k \in 1..n : f.found[k] \in (f.from.line + 1)..next /\ f.found[k] < next
    <3> SUFFICES ASSUME NEW k \in 1..n
                 PROVE  f.found[k] \in (f.from.line + 1)..next /\ f.found[k] < next
      OBVIOUS
    <3> DEFINE x == f.found[k]
    <3>1. x \in (f.from.line + 1)..f.pos.line  BY <1>5
    <3> HIDE DEF x
    <3>2. x \in (f.from.line + 1)..next /\ x < next  BY <1>1, <1>3, <3>1
    <3> QED  BY <3>2 DEF x
  <2> HIDE DEF next, n
  <2>5. \A k \in 1..(n + 1) : g.found[k] \in (f.from.line + 1)..next /\ Named(g.found[k])
    BY <1>5, <1>6, <1>8, <2>1, <2>2, <2>4 DEF n
  <2>6. \A j, k \in 1..(n + 1) : j < k => g.found[j] < g.found[k]
    <3> SUFFICES ASSUME NEW j \in 1..(n + 1), NEW k \in 1..(n + 1), j < k
                 PROVE  g.found[j] < g.found[k]
      OBVIOUS
    <3>1. j \in 1..n  BY <2>3
    <3>2. CASE k \in 1..n  BY <1>5, <2>1, <3>1, <3>2 DEF n
    <3>3. CASE k = n + 1  BY <2>1, <2>4, <3>1, <3>3
    <3> QED  BY <2>2, <3>2, <3>3
  <2>7. \A l \in (f.from.line + 1)..next :
            \/ ~Named(l) \/ l \in f.cut \/ (l = f.from.line + 1 /\ f.from.within > 0)
            \/ \E k \in 1..(n + 1) : g.found[k] = l
    <3> SUFFICES ASSUME NEW l \in (f.from.line + 1)..next, Named(l), l \notin f.cut,
                        ~(l = f.from.line + 1 /\ f.from.within > 0)
                 PROVE  \E k \in 1..(n + 1) : g.found[k] = l
      OBVIOUS
    <3>1. CASE l = next  BY <2>1, <2>3, <3>1
    <3>2. CASE l \in (f.from.line + 1)..f.pos.line
      <4>1. PICK k \in 1..n : f.found[k] = l  BY <1>5, <3>2 DEF n
      <4>2. k \in 1..(n + 1) /\ g.found[k] = l  BY <2>1, <2>3, <4>1
      <4> QED  BY <4>2
    <3> QED  BY <1>7, <3>1, <3>2
  <2>8. g.from.line <= g.pos.line  BY <1>1, <1>3, <1>5
  <2>9. /\ g.pos.line <= Len(file) /\ g.cut \subseteq 1..Len(file) /\ g.room > 0
        /\ ~(g.pos.within > 0)
    BY <1>3, <1>5
  <2>10. /\ \A k \in 1..Len(g.found) : /\ g.found[k] \in (g.from.line + 1)..g.pos.line
                                       /\ Named(g.found[k])
         /\ \A j, k \in 1..Len(g.found) : j < k => g.found[j] < g.found[k]
    BY <1>3, <2>1, <2>5, <2>6
  <2>11. \A l \in (g.from.line + 1)..g.pos.line :
            \/ ~Named(l) \/ l \in g.cut \/ (l = g.from.line + 1 /\ g.from.within > 0)
            \/ \E k \in 1..Len(g.found) : g.found[k] = l
    BY <1>3, <2>1, <2>7
  <2> QED  BY <2>8, <2>9, <2>10, <2>11 DEF PageKept
<1>9. CASE ~(f.pos.within = 0 /\ Named(next))
  <2>1. g.found = f.found  BY <1>9
  <2>2. ~Named(next) \/ next \in f.cut \/ (next = f.from.line + 1 /\ f.from.within > 0)
    <3>1. CASE f.pos.within = 0  BY <1>9, <3>1
    <3>2. CASE f.pos.within # 0
      <4>1. f.pos.within > 0  BY <1>1, <3>2
      <4> QED  BY <1>5, <4>1
    <3> QED  BY <3>1, <3>2
  <2>3. ASSUME NEW k \in 1..Len(f.found) PROVE f.found[k] \in (f.from.line + 1)..next
    <3> DEFINE x == f.found[k]
    <3>1. x \in (f.from.line + 1)..f.pos.line  BY <1>5
    <3> HIDE DEF x
    <3>2. x \in (f.from.line + 1)..next  BY <1>1, <1>3, <3>1
    <3> QED  BY <3>2 DEF x
  <2>6. next \in Int /\ f.from.line + 1 \in Int  BY <1>1
  <2> HIDE DEF next
  <2>4. \A l \in (f.from.line + 1)..next :
            \/ ~Named(l) \/ l \in f.cut \/ (l = f.from.line + 1 /\ f.from.within > 0)
            \/ \E k \in 1..Len(f.found) : f.found[k] = l
    BY <1>5, <1>7, <2>2
  <2>5. g.from.line <= g.pos.line  BY <1>1, <1>3, <1>5
  <2>7. /\ g.pos.line <= Len(file) /\ g.cut \subseteq 1..Len(file) /\ g.room > 0
        /\ ~(g.pos.within > 0)
    BY <1>3, <1>5
  <2>8. \A k \in 1..Len(g.found) : /\ g.found[k] \in (g.from.line + 1)..g.pos.line
                                    /\ Named(g.found[k])
    BY <1>3, <1>5, <2>1, <2>3
  <2>9. \A j, k \in 1..Len(g.found) : j < k => g.found[j] < g.found[k]
    BY <1>5, <2>1
  <2>10. \A l \in (g.from.line + 1)..g.pos.line :
            \/ ~Named(l) \/ l \in g.cut \/ (l = g.from.line + 1 /\ g.from.within > 0)
            \/ \E k \in 1..Len(g.found) : g.found[k] = l
    BY <1>3, <2>1, <2>4
  <2> QED  BY <2>5, <2>7, <2>8, <2>9, <2>10 DEF PageKept
<1> QED  BY <1>8, <1>9

\* A line that the page ends within.
LEMMA PageCut ==
    ASSUME FeedTypes, NEW f \in FillPages, PageKept(f), f.pos.line < Len(file),
           NEW g \in FillPages, g.from = f.from, g.room = f.room, g.found = f.found,
           g.cut = f.cut \cup {f.pos.line + 1}, g.pos.line = f.pos.line
    PROVE  PageKept(g)
<1>1. f.pos.line \in Nat  BY DEF FillPages, Cursors
<1>2. Len(file) \in Nat  BY LenProperties DEF FeedTypes
<1>3. f.pos.line + 1 \in 1..Len(file)  BY <1>1, <1>2
<1> QED  BY <1>3 DEF PageKept

LEMMA ReadLineInv ==
    ASSUME FeedInv, NEW p \in Refillers, ReadLine(p)
    PROVE  FeedInv'
<1> USE FeedAssumption
<1>1. FeedTypes /\ FeedsPassed  BY DEF FeedInv
<1>2. UNCHANGED <<file, maxWords, seeds, queue, taken, words, window, corpus, split>>
  BY DEF ReadLine
<1> DEFINE f == filler[p]
           next == f.pos.line + 1
           left == file[next].units - f.pos.within
           room == PageUnits - f.units
           whole == left <= room
           moved == [f EXCEPT !.units = @ + (IF whole THEN left ELSE room)]
           fresh == f.pos.within = 0
           cutShort == [moved EXCEPT !.pos.within = @ + room, !.lines = @ + (IF fresh THEN 1 ELSE 0),
                                     !.cut = @ \cup {next}]
           through == [moved EXCEPT !.pos.line = next, !.pos.within = 0,
                                    !.lines = @ + (IF fresh THEN 1 ELSE 0),
                                    !.found = IF fresh /\ file[next].name # Junk
                                              THEN Append(@, next) ELSE @]
<1>3. /\ f.at = "page" /\ ~PageFull(f) /\ f.pos.line < Len(file)
      /\ Goes(p, IF ~whole THEN cutShort ELSE through)
  BY DEF ReadLine, FillerAt
<1>4. f \in FillPages /\ PageKept(f)
  <2>1. filler \in [Refillers -> FillPages]  BY <1>1 DEF FeedTypes
  <2>2. f \in FillPages  BY <2>1
  <2> QED  BY <1>3, <2>2 DEF FeedInv
<1> HIDE DEF f, cutShort, through, moved
<1>14. f.pos.line < Len(file) /\ ~PageFull(f)  BY <1>3
<1>5. /\ f.pos \in Cursors /\ f.pos.line \in Nat /\ f.pos.within \in 0..1 /\ f.units \in Nat
      /\ f.lines \in Nat /\ f.found \in Seq(Nat) /\ f.cut \in SUBSET Nat /\ next \in Nat
  <2>1. f.pos \in Cursors  BY <1>4 DEF FillPages
  <2>2. f.pos.line \in Nat /\ f.pos.within \in 0..1  BY <2>1 DEF Cursors
  <2>3. /\ f.units \in Nat /\ f.lines \in Nat /\ f.found \in Seq(Nat) /\ f.cut \in SUBSET Nat
    BY <1>4 DEF FillPages
  <2>4. next \in Nat  BY <2>2
  <2> QED  BY <2>1, <2>2, <2>3, <2>4
<1>6. file[next].units \in {1, 2} /\ Len(file) \in Nat
  <2>1. file \in Seq(LineOf) /\ Len(file) \in Nat  BY <1>1, LenProperties DEF FeedTypes
  <2>2. next \in 1..Len(file)  BY <1>5, <1>14, <2>1
  <2>3. file[next] \in LineOf
    <3> HIDE DEF next
    <3> QED  BY <2>1, <2>2, ElementOfSeq
  <2> QED  BY <2>1, <2>3 DEF LineOf
<1>7. room \in Nat \ {0} /\ PageUnits \in Nat
  <2>1. ~(f.units >= PageUnits)  BY <1>14 DEF PageFull
  <2>2. f.units \in Nat /\ PageUnits \in Nat  BY <1>5
  <2> QED  BY <2>1, <2>2
<1> DEFINE u == file[next].units
           w == f.pos.within
<1>15. u \in {1, 2} /\ w \in 0..1 /\ left = u - w  BY <1>5, <1>6
<1> HIDE DEF u, w, room, left
<1>8. left \in Nat  BY <1>15
<1> DEFINE used == f.units + (IF whole THEN left ELSE room)
           count == f.lines + (IF fresh THEN 1 ELSE 0)
<1>9. used \in Nat /\ count \in Nat
  <2>1. used \in Nat  BY <1>5, <1>7, <1>8
  <2>2. count \in Nat  BY <1>5
  <2> QED  BY <2>1, <2>2
<1> DEFINE page == IF ~whole THEN cutShort ELSE through
<1>10. page \in FillPages /\ PageKept(page)
  <2>1. moved = [f EXCEPT !.units = used]  BY <1>4 DEF FillPages, moved
  <2>2. CASE ~whole
    <3> DEFINE pos == [f.pos EXCEPT !.within = f.pos.within + room]
    <3>1. f.pos.within + room \in 0..1
      <4>1. ~(left <= room)  BY <2>2
      <4>2. w + room \in 0..1  BY <1>7, <1>15, <4>1
      <4> QED  BY <4>2 DEF w
    <3>2. pos \in Cursors /\ pos.line = f.pos.line  BY <1>5, <3>1 DEF Cursors
    <3>3. f.cut \cup {next} \in SUBSET Nat  BY <1>5
    <3> HIDE DEF next, whole, fresh, used, count
    <3>4. cutShort = [f EXCEPT !.units = used, !.pos = pos, !.lines = count, !.cut = @ \cup {next}]
      BY <1>4, <2>1 DEF FillPages, Cursors, count, cutShort
    <3> HIDE DEF pos
    <3>5. cutShort \in FillPages  BY <1>4, <1>9, <3>2, <3>3, <3>4 DEF FillPages
    <3>6. /\ cutShort.from = f.from /\ cutShort.room = f.room /\ cutShort.found = f.found
          /\ cutShort.cut = f.cut \cup {next} /\ cutShort.pos = pos
      BY <1>4, <3>4 DEF FillPages
    <3>7. PageKept(cutShort)  BY <1>1, <1>4, <1>14, <3>2, <3>5, <3>6, PageCut DEF next
    <3> QED  BY <2>2, <3>5, <3>7
  <2>3. CASE whole
    <3> DEFINE pos == [f.pos EXCEPT !.line = next, !.within = 0]
               found == IF fresh /\ file[next].name # Junk THEN Append(f.found, next) ELSE f.found
    <3>1. pos \in Cursors /\ pos.line = next /\ pos.within = 0
      <4>1. f.pos \in Cursors /\ next \in Nat /\ 0 \in 0..1  BY <1>5
      <4> HIDE DEF next
      <4>2. pos \in Cursors  BY <4>1 DEF Cursors
      <4>3. pos.line = next /\ pos.within = 0  BY <4>1 DEF Cursors
      <4> QED  BY <4>2, <4>3
    <3> HIDE DEF next, whole, fresh, used, count
    <3>2. found \in Seq(Nat)  BY <1>5, AppendProperties
    <3>3. through = [f EXCEPT !.units = used, !.pos = pos, !.lines = count, !.found = found]
      BY <1>4, <2>1 DEF FillPages, Cursors, count, through
    <3> HIDE DEF pos, found
    <3>4. through \in FillPages  BY <1>4, <1>9, <3>1, <3>2, <3>3 DEF FillPages
    <3>5. /\ through.from = f.from /\ through.room = f.room /\ through.found = found
          /\ through.cut = f.cut /\ through.pos = pos
      BY <1>4, <3>3 DEF FillPages
    <3>6. PageKept(through)
      BY <1>1, <1>4, <1>14, <3>1, <3>4, <3>5, PageGrows DEF next, found, fresh, Named
    <3> QED  BY <2>3, <3>4, <3>6
  <2> QED  BY <2>2, <2>3
<1>11. /\ filler' \in [Refillers -> FillPages]
       /\ (\A q \in Refillers : filler[q].at = "page" => PageKept(filler[q]))'
  <2>1. Goes(p, page)  BY <1>3
  <2> HIDE DEF page
  <2> QED  BY <1>2, <1>10, <2>1, FillerMoves
<1>12. FeedTypes'  BY <1>1, <1>2, <1>11 DEF FeedTypes, FeedRows
<1>13. FeedsPassed'
  <2>1. Known' = Known  BY <1>2 DEF Known, FeedRows
  <2> QED  BY <1>1, <1>2, <2>1, PassedStays
<1> QED  BY <1>11, <1>12, <1>13 DEF FeedInv

-----------------------------------------------------------------------------
(* The commit of a page.                                                   *)

\* The names of the first lines of a page.
LEMMA NamesOfPage ==
    ASSUME NEW f, NEW i \in Nat
    PROVE  /\ IsFiniteSet(New(NamesUpTo(f, i))) /\ Cardinality(New(NamesUpTo(f, i))) \in Nat
           /\ NamesUpTo(f, 0) = {}
           /\ i > 0 => New(NamesUpTo(f, i)) \subseteq
                            New(NamesUpTo(f, i - 1)) \cup {file[f.found[i]].name}
<1> DEFINE g == [k \in 1..i |-> file[f.found[k]].name]
<1>1. \A y \in NamesUpTo(f, i) : \E k \in 1..i : y = g[k]  BY DEF NamesUpTo
<1> HIDE DEF g
<1>2. IsFiniteSet(NamesUpTo(f, i))  BY <1>1, StretchImage
<1>3. IsFiniteSet(New(NamesUpTo(f, i)))  BY <1>2, FS_Subset DEF New
<1>4. NamesUpTo(f, 0) = {}  BY DEF NamesUpTo
<1>5. ASSUME i > 0, NEW y \in New(NamesUpTo(f, i))
      PROVE  y \in New(NamesUpTo(f, i - 1)) \/ y = file[f.found[i]].name
  <2>1. PICK k \in 1..i : y = file[f.found[k]].name  BY <1>5 DEF New, NamesUpTo
  <2>2. k = i \/ k \in 1..(i - 1)  BY <1>5
  <2>3. y \notin Known  BY <1>5 DEF New, Known
  <2> QED  BY <2>1, <2>2, <2>3 DEF New, NamesUpTo, Known
<1> QED  BY <1>3, <1>4, <1>5, FS_CardinalityType

\* Where a page is cut at its limit.
LEMMA FirstEnough ==
    ASSUME NEW f \in FillPages, Enough(f) # {}
    PROVE  \E i \in Enough(f) :
            /\ \A j \in Enough(f) : i <= j
            /\ CursorOf(f) = [f.pos EXCEPT !.line = f.found[i], !.within = 0]
            /\ Inserted(f) = New(NamesUpTo(f, i))
<1> DEFINE c == CHOOSE i \in Enough(f) : \A j \in Enough(f) : i <= j
<1>1. Enough(f) \in SUBSET Nat
  <2>1. Len(f.found) \in Nat  BY LenProperties DEF FillPages
  <2> QED  BY <2>1 DEF Enough
<1>2. \E m \in Enough(f) : \A k \in Enough(f) : m <= k  BY <1>1, LeastOf
<1>3. c \in Enough(f) /\ \A j \in Enough(f) : c <= j  BY <1>2
<1>4. CursorOf(f) = [f.pos EXCEPT !.line = f.found[c], !.within = 0]  BY DEF CursorOf
<1>5. Inserted(f) = New(NamesUpTo(f, c))  BY DEF Inserted
<1> QED  BY <1>3, <1>4, <1>5

\* What a page inserts fits into the room that was left, and is new.
LEMMA InsertedFits ==
    ASSUME FeedTypes, NEW f \in FillPages, PageKept(f)
    PROVE  /\ IsFiniteSet(Inserted(f)) /\ Cardinality(Inserted(f)) \in Nat
           /\ Cardinality(Inserted(f)) <= f.room
           /\ Inserted(f) \subseteq Wordlist /\ Inserted(f) \cap Known = {}
<1> DEFINE S(k) == New(NamesUpTo(f, k))
           n == Len(f.found)
<1>1. n \in Nat /\ f.room \in Nat /\ f.room > 0
  <2>1. f.found \in Seq(Nat) /\ f.room \in Nat  BY DEF FillPages
  <2> QED  BY <2>1, LenProperties DEF PageKept
<1>2. \A k \in Nat : /\ IsFiniteSet(S(k)) /\ Cardinality(S(k)) \in Nat
                     /\ k > 0 => S(k) \subseteq S(k - 1) \cup {file[f.found[k]].name}
  BY NamesOfPage
<1>3. Cardinality(S(0)) = 0
  <2>1. 0 \in Nat  OBVIOUS
  <2>2. S(0) = {}  BY <2>1, NamesOfPage DEF New
  <2> QED  BY <2>2, FS_EmptySet
<1>4. \A k \in 1..n : S(k) \subseteq Wordlist
  <2> SUFFICES ASSUME NEW k \in 1..n, NEW y \in S(k) PROVE y \in Wordlist
    OBVIOUS
  <2>1. PICK j \in 1..k : y = file[f.found[j]].name  BY DEF New, NamesUpTo
  <2>2. j \in 1..n  BY <1>1
  <2>3. Named(f.found[j]) /\ f.found[j] \in (f.from.line + 1)..f.pos.line /\ f.pos.line <= Len(file)
    BY <2>2 DEF PageKept
  <2>4. f.from.line \in Nat /\ f.pos.line \in Nat  BY DEF FillPages, Cursors
  <2>5. file \in Seq(LineOf) /\ Len(file) \in Nat  BY LenProperties DEF FeedTypes
  <2> DEFINE l == f.found[j]
  <2>6. l \in 1..Len(file)
    <3>1. l \in (f.from.line + 1)..f.pos.line  BY <2>3
    <3> HIDE DEF l
    <3> QED  BY <2>3, <2>4, <2>5, <3>1
  <2>7. file[l] \in LineOf
    <3> HIDE DEF l
    <3> QED  BY <2>5, <2>6, ElementOfSeq
  <2> QED  BY <2>1, <2>3, <2>7 DEF LineOf, Named
<1>5. \A k \in Nat : S(k) \cap Known = {}  BY DEF New, Known
<1>6. S(0) \subseteq Wordlist  BY NamesOfPage DEF New
<1> HIDE DEF S, n
<1>7. CASE Enough(f) = {}
  <2>1. Inserted(f) = S(n)  BY <1>7 DEF Inserted, S, n
  <2>2. Cardinality(S(n)) <= f.room
    <3>1. CASE n = 0  BY <1>1, <1>3, <3>1
    <3>2. CASE n # 0
      <4>1. n \in 1..n  BY <1>1, <3>2
      <4>2. ~(Cardinality(S(n)) >= f.room)  BY <1>7, <4>1 DEF Enough, n, S
      <4> QED  BY <1>1, <1>2, <4>2
    <3> QED  BY <3>1, <3>2
  <2>3. S(n) \subseteq Wordlist
    <3>1. n = 0 \/ n \in 1..n  BY <1>1
    <3> QED  BY <1>4, <1>6, <3>1
  <2> QED  BY <1>1, <1>2, <1>5, <2>1, <2>2, <2>3
<1>8. CASE Enough(f) # {}
  <2>1. PICK i \in Enough(f) : (\A j \in Enough(f) : i <= j) /\ Inserted(f) = S(i)
    BY <1>8, FirstEnough DEF S
  <2>2. i \in 1..n  BY DEF Enough, n
  <2>3. i \in Nat /\ i > 0 /\ i - 1 \in Nat  BY <1>1, <2>2
  <2>4. Cardinality(S(i - 1)) < f.room
    <3>1. CASE i - 1 = 0  BY <1>1, <1>3, <3>1
    <3>2. CASE i - 1 # 0
      <4>1. i - 1 \in 1..n  BY <1>1, <2>2, <2>3, <3>2
      <4>2. i - 1 \notin Enough(f)  BY <2>1, <2>3
      <4>3. ~(Cardinality(S(i - 1)) >= f.room)  BY <4>1, <4>2 DEF Enough, n, S
      <4> QED  BY <1>1, <1>2, <2>3, <4>3
    <3> QED  BY <3>1, <3>2
  <2> DEFINE T == S(i - 1) \cup {file[f.found[i]].name}
  <2>5. S(i) \subseteq T  BY <1>2, <2>3
  <2>6. IsFiniteSet(T) /\ Cardinality(T) <= Cardinality(S(i - 1)) + 1
    <3> DEFINE P == S(i - 1)
               x == file[f.found[i]].name
               c == Cardinality(P)
    <3>1. IsFiniteSet(P) /\ c \in Nat  BY <1>2, <2>3
    <3> HIDE DEF P, x
    <3>2. IsFiniteSet(P \cup {x}) /\ Cardinality(P \cup {x}) = IF x \in P THEN c ELSE c + 1
      BY <3>1, FS_AddElement
    <3> HIDE DEF c
    <3>3. Cardinality(P \cup {x}) <= c + 1  BY <3>1, <3>2
    <3> QED  BY <3>2, <3>3 DEF P, x, c
  <2> HIDE DEF T
  <2>7. Cardinality(S(i)) <= Cardinality(T)  BY <2>5, <2>6, FS_Subset
  <2>8. {Cardinality(S(i)), Cardinality(T), Cardinality(S(i - 1))} \subseteq Nat
    BY <1>2, <2>3, <2>6, FS_CardinalityType
  <2>9. Cardinality(S(i)) <= f.room  BY <1>1, <2>4, <2>6, <2>7, <2>8
  <2> QED  BY <1>2, <1>4, <1>5, <2>1, <2>2, <2>3, <2>9
<1> QED  BY <1>7, <1>8

\* Up to its cursor a page inserts every name it passed.
LEMMA PageCovers ==
    ASSUME FeedTypes, NEW f \in FillPages, PageKept(f)
    PROVE  /\ CursorOf(f) \in Cursors /\ CursorOf(f).line <= Len(file)
           /\ CursorOf(f).within > 0 =>
                \/ CursorOf(f).line + 1 \in f.cut
                \/ CursorOf(f).line = f.from.line /\ f.from.within > 0
           /\ \A l \in (f.from.line + 1)..CursorOf(f).line :
                \/ ~Named(l) \/ l \in f.cut \/ (l = f.from.line + 1 /\ f.from.within > 0)
                \/ file[l].name \in Known \cup Inserted(f)
<1> DEFINE n == Len(f.found)
<1>1. /\ f.pos \in Cursors /\ f.from \in Cursors /\ f.found \in Seq(Nat) /\ n \in Nat
      /\ f.from.line \in Nat /\ f.pos.line \in Nat
  BY LenProperties DEF FillPages, Cursors
<1>2. \A l \in (f.from.line + 1)..f.pos.line :
        \/ ~Named(l) \/ l \in f.cut \/ (l = f.from.line + 1 /\ f.from.within > 0)
        \/ \E k \in 1..n : f.found[k] = l
  BY DEF PageKept
<1>3. Len(file) \in Nat /\ f.pos.line <= Len(file)  BY LenProperties DEF FeedTypes, PageKept
<1>4. \A i \in Nat, k \in Nat : k \in 1..i =>
          file[f.found[k]].name \in Known \cup New(NamesUpTo(f, i))
  BY DEF New, Known, NamesUpTo
<1>5. CASE Enough(f) = {}
  <2>1. CursorOf(f) = f.pos /\ Inserted(f) = New(NamesUpTo(f, n))
    BY <1>5 DEF CursorOf, Inserted
  <2>2. \A k \in 1..n : file[f.found[k]].name \in Known \cup Inserted(f)
    BY <1>1, <1>4, <2>1
  <2> QED  BY <1>1, <1>2, <1>3, <2>1, <2>2 DEF PageKept
<1>6. CASE Enough(f) # {}
  <2>1. PICK i \in Enough(f) : /\ CursorOf(f) = [f.pos EXCEPT !.line = f.found[i], !.within = 0]
                               /\ Inserted(f) = New(NamesUpTo(f, i))
    BY <1>6, FirstEnough
  <2>2. i \in 1..n /\ i \in Nat  BY <1>1 DEF Enough
  <2> DEFINE m == f.found[i]
  <2>3. m \in Nat /\ m \in (f.from.line + 1)..f.pos.line  BY <1>1, <2>2, ElementOfSeq DEF PageKept
  <2>4. \A k \in 1..n : i < k => m < f.found[k]  BY <2>2 DEF PageKept
  <2>5. \A k \in 1..n : f.found[k] \in Nat  BY <1>1, ElementOfSeq
  <2>6. CursorOf(f) = [f.pos EXCEPT !.line = m, !.within = 0]  BY <2>1
  <2> HIDE DEF m
  <2>7. CursorOf(f) \in Cursors /\ CursorOf(f).line = m /\ CursorOf(f).within = 0
    <3>1. 0 \in 0..1  OBVIOUS
    <3> QED  BY <1>1, <2>3, <2>6, <3>1 DEF Cursors
  <2>8. m <= Len(file)  BY <1>1, <1>3, <2>3
  <2>9. ASSUME NEW l \in (f.from.line + 1)..m, Named(l), l \notin f.cut,
               ~(l = f.from.line + 1 /\ f.from.within > 0)
        PROVE  file[l].name \in Known \cup Inserted(f)
    <3>1. l \in (f.from.line + 1)..f.pos.line  BY <1>1, <2>3
    <3>2. PICK k \in 1..n : f.found[k] = l  BY <1>2, <2>9, <3>1
    <3>3. ~(i < k)
      <4>1. ~(m < l)  BY <1>1, <2>3
      <4> QED  BY <2>4, <3>2, <4>1
    <3>4. k \in 1..i /\ k \in Nat  BY <1>1, <2>2, <3>3
    <3> QED  BY <1>4, <2>1, <2>2, <3>2, <3>4
  <2> QED  BY <2>7, <2>8, <2>9
<1> QED  BY <1>5, <1>6

LEMMA CommitWordPageInv ==
    ASSUME FeedInv, NEW p \in Refillers, CommitWordPage(p)
    PROVE  FeedInv'
<1> USE FeedAssumption
<1> DEFINE f == filler[p]
           cur == CursorOf(f)
           ends == [cur EXCEPT !.exhausted = cur.line = Len(file)]
<1>1. FeedTypes /\ FeedsPassed  BY DEF FeedInv
<1>2. f.at = "page" /\ UNCHANGED <<file, maxWords, seeds, taken, window, corpus>>
  BY DEF CommitWordPage, FillerAt
<1>3. f \in FillPages /\ PageKept(f)
  <2>1. filler \in [Refillers -> FillPages]  BY <1>1 DEF FeedTypes
  <2>2. f \in FillPages  BY <2>1
  <2> QED  BY <1>2, <2>2 DEF FeedInv
<1>4. f.room \in Nat /\ f.spare \in Int /\ f.from \in Cursors /\ f.cut \in SUBSET Nat
  BY <1>3 DEF FillPages
<1>5. CASE words # f.from
  <2> DEFINE at == IF words.exhausted THEN "window" ELSE "idle"
             page == [NoPage EXCEPT !.at = at, !.room = f.room, !.spare = f.spare]
  <2>1. UNCHANGED <<queue, words, split>> /\ Goes(p, page)  BY <1>5 DEF CommitWordPage
  <2>2. at \in {"window", "idle"}  OBVIOUS
  <2> HIDE DEF f, at
  <2>3. page \in FillPages /\ page.at = at
    <3>1. at \in {"idle", "page", "window", "mark", "corpus"}  BY <2>2
    <3>3. NoPage \in FillPages  BY PageFields
    <3> QED  BY <1>4, <3>1, <3>3 DEF FillPages
  <2> HIDE DEF page
  <2>4. page.at # "page"  BY <2>2, <2>3
  <2>5. /\ filler' \in [Refillers -> FillPages]
        /\ (\A q \in Refillers : filler[q].at = "page" => PageKept(filler[q]))'
    BY <1>2, <2>1, <2>3, <2>4, FillerMoves
  <2>6. FeedTypes'  BY <1>1, <1>2, <2>1, <2>5 DEF FeedTypes, FeedRows
  <2>7. FeedsPassed'
    <3>1. Known' = Known  BY <1>2, <2>1 DEF Known, FeedRows
    <3> QED  BY <1>1, <1>2, <2>1, <3>1, PassedStays
  <2> QED  BY <2>5, <2>6, <2>7 DEF FeedInv
<1>6. CASE words = f.from
  <2> DEFINE ins == Inserted(f)
             at == IF ends.exhausted THEN "window" ELSE "idle"
             page == [NoPage EXCEPT !.at = at, !.room = f.room - Cardinality(ins),
                                    !.spare = f.spare - Cardinality(ins)]
  <2>1. /\ queue' = queue \cup ins /\ words' = ends
        /\ split' = split \cup {l \in f.cut : l <= ends.line + 1} /\ Goes(p, page)
    BY <1>6 DEF CommitWordPage
  <2>2. /\ IsFiniteSet(ins) /\ Cardinality(ins) \in Nat /\ Cardinality(ins) <= f.room
        /\ ins \subseteq Wordlist /\ ins \cap Known = {}
    <3> HIDE DEF f
    <3> QED  BY <1>1, <1>3, InsertedFits
  <2>3. /\ cur \in Cursors /\ cur.line <= Len(file)
        /\ cur.within > 0 => cur.line + 1 \in f.cut \/ (cur.line = f.from.line /\ f.from.within > 0)
        /\ \A l \in (f.from.line + 1)..cur.line :
              \/ ~Named(l) \/ l \in f.cut \/ (l = f.from.line + 1 /\ f.from.within > 0)
              \/ file[l].name \in Known \cup ins
    <3> HIDE DEF f
    <3> QED  BY <1>1, <1>3, PageCovers
  <2> HIDE DEF f, ins, cur
  <2>4. /\ ends \in Cursors /\ ends.line = cur.line /\ ends.within = cur.within
        /\ ends.exhausted => ends.line = Len(file)
    BY <2>3 DEF Cursors
  <2>5. at \in {"window", "idle"}  OBVIOUS
  <2> HIDE DEF ends, at
  <2>6. page \in FillPages /\ page.at # "page"
    <3>1. f.room - Cardinality(ins) \in Nat /\ f.spare - Cardinality(ins) \in Int
      BY <1>4, <2>2
    <3>3. at \in {"idle", "page", "window", "mark", "corpus"}  BY <2>5
    <3>5. NoPage \in FillPages  BY PageFields
    <3>2. page \in FillPages /\ page.at = at  BY <3>1, <3>3, <3>5 DEF FillPages
    <3> QED  BY <2>5, <3>2
  <2> HIDE DEF page
  <2>7. /\ filler' \in [Refillers -> FillPages]
        /\ (\A q \in Refillers : filler[q].at = "page" => PageKept(filler[q]))'
    BY <1>2, <2>1, <2>6, FillerMoves
  <2>8. Known' = Known \cup ins  BY <1>2, <2>1 DEF Known, FeedRows
  <2>9. FeedTypes'
    <3>1. IsFiniteSet(queue')  BY <1>1, <2>1, <2>2, FS_Union DEF FeedTypes
    <3>2. queue' \cap taken' = {}  BY <1>1, <1>2, <2>1, <2>2 DEF FeedTypes, Known, FeedRows
    <3>3. FeedRows' \subseteq Wordlist \cup Generated \cup CorpusNames(Len(CorpusList))
      BY <1>1, <1>2, <2>1, <2>2 DEF FeedTypes, FeedRows
    <3>4. split' \subseteq 1..Len(file)  BY <1>1, <1>3, <2>1 DEF FeedTypes, PageKept
    <3>5. words' \in Cursors /\ words'.line <= Len(file)  BY <2>1, <2>3, <2>4
    <3> QED  BY <1>1, <1>2, <2>7, <3>1, <3>2, <3>3, <3>4, <3>5 DEF FeedTypes
  <2>10. FeedsPassed'
    <3>1. words.line \in Nat /\ cur.line \in Nat /\ words.within \in 0..1
      BY <1>1, <2>3 DEF FeedTypes, Cursors
    <3>2. /\ \A l \in 1..words.line : Named(l) /\ l \notin split => file[l].name \in Known
          /\ words.within > 0 => words.line + 1 \in split
          /\ CorpusNames(corpus.passed) \subseteq Known
          /\ corpus.exhausted => corpus.passed = Len(CorpusList)
      BY <1>1 DEF FeedsPassed
    <3>3. ASSUME NEW l \in 1..cur.line, Named(l), l \notin split' PROVE file[l].name \in Known'
      <4>1. l \notin split  BY <2>1, <3>3
      <4>2. CASE l \in 1..words.line  BY <2>8, <3>2, <3>3, <4>1, <4>2
      <4>3. CASE l \in (words.line + 1)..cur.line
        <5>1. l \notin f.cut
          <6>1. l <= ends.line + 1  BY <2>4, <3>1
          <6> QED  BY <2>1, <3>3, <6>1
        <5>2. ~(l = f.from.line + 1 /\ f.from.within > 0)  BY <1>6, <3>2, <4>1
        <5> QED  BY <1>6, <2>3, <2>8, <3>3, <4>3, <5>1, <5>2
      <4> QED  BY <3>1, <4>2, <4>3
    <3>4. cur.within > 0 => cur.line + 1 \in split'
      <4>1. ASSUME cur.line + 1 \in f.cut PROVE cur.line + 1 \in split'
        <5>1. cur.line + 1 <= ends.line + 1  BY <2>4, <3>1
        <5> QED  BY <2>1, <4>1, <5>1
      <4>2. ASSUME cur.line = f.from.line, f.from.within > 0 PROVE cur.line + 1 \in split'
        BY <1>6, <2>1, <3>2, <4>2
      <4> QED  BY <2>3, <4>1, <4>2
    <3>5. CorpusNames(corpus.passed) \subseteq Known'  BY <2>8, <3>2
    <3>6. words'.line = cur.line /\ words'.within = cur.within
          /\ (words'.exhausted => words'.line = Len(file))
      BY <2>1, <2>4
    <3> QED  BY <1>2, <3>2, <3>3, <3>4, <3>5, <3>6 DEF FeedsPassed, Named
  <2> QED  BY <2>7, <2>9, <2>10 DEF FeedInv
<1> QED  BY <1>5, <1>6

-----------------------------------------------------------------------------
(* The other feeds.                                                        *)

\* A step that adds new rows of known origin to the queue keeps the invariant.
LEMMA RowsJoin ==
    ASSUME FeedInv, NEW p \in Refillers, NEW page \in FillPages, Goes(p, page), page.at # "page",
           NEW more, IsFiniteSet(more), more \cap FeedRows = {},
           more \subseteq Wordlist \cup Generated \cup CorpusNames(Len(CorpusList)),
           queue' = queue \cup more, window' \in BOOLEAN,
           UNCHANGED <<file, maxWords, seeds, taken, words, split>>,
           corpus' \in [passed : 0..Len(CorpusList), exhausted : BOOLEAN],
           CorpusNames(corpus'.passed) \subseteq Known \cup more,
           corpus'.exhausted => corpus'.passed = Len(CorpusList)
    PROVE  FeedInv'
<1>1. FeedTypes /\ FeedsPassed  BY DEF FeedInv
<1>2. /\ filler' \in [Refillers -> FillPages]
      /\ (\A q \in Refillers : filler[q].at = "page" => PageKept(filler[q]))'
  BY FillerMoves
<1>3. FeedTypes'
  <2>1. IsFiniteSet(queue')  BY <1>1, FS_Union DEF FeedTypes
  <2>2. queue' \cap taken' = {}  BY <1>1 DEF FeedTypes, FeedRows
  <2>3. FeedRows' \subseteq Wordlist \cup Generated \cup CorpusNames(Len(CorpusList))
    BY <1>1 DEF FeedTypes, FeedRows
  <2> QED  BY <1>1, <1>2, <2>1, <2>2, <2>3 DEF FeedTypes
<1>4. Known' = Known \cup more  BY DEF Known, FeedRows
<1>5. FeedsPassed'
  <2>1. \A l \in 1..words.line : Named(l) /\ l \notin split => file[l].name \in Known'
    BY <1>1, <1>4 DEF FeedsPassed
  <2>2. CorpusNames(corpus'.passed) \subseteq Known'  BY <1>4
  <2> QED  BY <1>1, <2>1, <2>2 DEF FeedsPassed, Named
<1> QED  BY <1>2, <1>3, <1>5 DEF FeedInv

\* No row more, and the feeds where they are.
LEMMA OnlyMoves ==
    ASSUME FeedInv, NEW p \in Refillers, NEW page \in FillPages, Goes(p, page), page.at # "page",
           window' \in BOOLEAN,
           UNCHANGED <<file, maxWords, seeds, queue, taken, words, split, corpus>>
    PROVE  FeedInv'
<1>1. queue' = queue \cup {} /\ {} \cap FeedRows = {}  OBVIOUS
<1>2. IsFiniteSet({})  BY FS_EmptySet
<1>3. /\ corpus \in [passed : 0..Len(CorpusList), exhausted : BOOLEAN]
      /\ CorpusNames(corpus.passed) \subseteq Known \cup {}
      /\ corpus.exhausted => corpus.passed = Len(CorpusList)
  BY DEF FeedInv, FeedTypes, FeedsPassed
<1> QED  BY <1>1, <1>2, <1>3, RowsJoin

LEMMA MaterializeInv ==
    ASSUME FeedInv, NEW p \in Refillers, Materialize(p)
    PROVE  FeedInv'
<1> DEFINE f == filler[p]
<1>1. /\ FeedTypes /\ f.at = "window"
      /\ UNCHANGED <<file, maxWords, seeds, taken, words, window, corpus, split>>
  BY DEF FeedInv, Materialize, FillerAt
<1>2. f \in FillPages /\ f.room \in Nat  BY <1>1 DEF FeedTypes, FillPages
<1>3. window' \in BOOLEAN  BY <1>1 DEF FeedTypes
<1>4. CASE ~generate
  <2>1. Goes(p, NoPage) /\ UNCHANGED queue  BY <1>4 DEF Materialize
  <2>2. NoPage \in FillPages /\ NoPage.at # "page"  BY PageFields
  <2> QED  BY <1>1, <1>3, <2>1, <2>2, OnlyMoves
<1>5. CASE generate /\ (window \/ f.room = 0)
  <2> DEFINE page == [f EXCEPT !.at = "corpus"]
  <2>1. Goes(p, page) /\ UNCHANGED queue  BY <1>5 DEF Materialize
  <2> HIDE DEF f
  <2>2. page \in FillPages /\ page.at # "page"  BY <1>2 DEF FillPages
  <2> HIDE DEF page
  <2> QED  BY <1>1, <1>3, <2>1, <2>2, OnlyMoves
<1>6. CASE generate /\ ~(window \/ f.room = 0)
  <2>1. PICK few \in SUBSET New(Generated) :
            /\ queue' = queue \cup few
            /\ Goes(p, [f EXCEPT !.at = "mark",
                    !.room = IF @ > Cardinality(few) THEN @ - Cardinality(few) ELSE 0])
    BY <1>6 DEF Materialize
  <2>2. IsFiniteSet(few) /\ few \subseteq Generated /\ few \cap FeedRows = {}
    BY FeedAssumption, FS_Subset DEF New
  <2>3. Cardinality(few) \in Nat  BY <2>2, FS_CardinalityType
  <2> DEFINE left == IF f.room > Cardinality(few) THEN f.room - Cardinality(few) ELSE 0
             page == [f EXCEPT !.at = "mark", !.room = left]
  <2>4. left \in Nat  BY <1>2, <2>3
  <2>5. Goes(p, page)  BY <1>2, <2>1 DEF FillPages
  <2> HIDE DEF f, left
  <2>6. page \in FillPages /\ page.at # "page"  BY <1>2, <2>4 DEF FillPages
  <2> HIDE DEF page
  <2>7. /\ corpus' \in [passed : 0..Len(CorpusList), exhausted : BOOLEAN]
        /\ CorpusNames(corpus'.passed) \subseteq Known \cup few
        /\ corpus'.exhausted => corpus'.passed = Len(CorpusList)
    BY <1>1 DEF FeedInv, FeedTypes, FeedsPassed
  <2> QED  BY <1>1, <1>3, <2>1, <2>2, <2>5, <2>6, <2>7, RowsJoin
<1> QED  BY <1>4, <1>5, <1>6

LEMMA MarkWindowInv ==
    ASSUME FeedInv, NEW p \in Refillers, MarkWindow(p)
    PROVE  FeedInv'
<1> DEFINE f == filler[p]
           page == [f EXCEPT !.at = "corpus"]
<1>1. /\ FeedTypes /\ window' = TRUE /\ Goes(p, page)
      /\ UNCHANGED <<file, maxWords, seeds, queue, taken, words, corpus, split>>
  BY DEF FeedInv, MarkWindow
<1>2. f \in FillPages  BY <1>1 DEF FeedTypes
<1> HIDE DEF f
<1>3. page \in FillPages /\ page.at # "page"  BY <1>2 DEF FillPages
<1> HIDE DEF page
<1> QED  BY <1>1, <1>3, OnlyMoves

LEMMA FeedCorpusInv ==
    ASSUME FeedInv, NEW p \in Refillers, FeedCorpus(p)
    PROVE  FeedInv'
<1> USE FeedAssumption
<1> DEFINE room == filler[p].room
<1>1. /\ FeedTypes /\ FeedsPassed /\ Goes(p, NoPage)
      /\ UNCHANGED <<file, maxWords, seeds, taken, words, window, split>>
  BY DEF FeedInv, FeedCorpus
<1>2. NoPage \in FillPages /\ NoPage.at # "page"  BY PageFields
<1>3. room \in Nat /\ window' \in BOOLEAN  BY <1>1 DEF FeedTypes, FillPages
<1>4. CASE room = 0 \/ corpus.exhausted
  <2>1. UNCHANGED <<queue, corpus>>  BY <1>4 DEF FeedCorpus
  <2> QED  BY <1>1, <1>2, <1>3, <2>1, OnlyMoves
<1>5. CASE ~(room = 0 \/ corpus.exhausted)
  <2>1. PICK end \in corpus.passed..Len(CorpusList) :
            /\ end <= corpus.passed + Examined
            /\ \/ end = Len(CorpusList) \/ end = corpus.passed + Examined
               \/ Cardinality(Added(end)) = room
            /\ queue' = queue \cup Added(end)
            /\ corpus' = [passed |-> end,
                          exhausted |-> end < corpus.passed + Examined
                                        /\ Cardinality(Added(end)) < room]
    BY <1>5 DEF FeedCorpus
  <2>2. corpus.passed \in 0..Len(CorpusList) /\ Len(CorpusList) \in Nat /\ Examined \in Nat
    BY <1>1, CorpusFinite DEF FeedTypes
  <2>3. end \in 0..Len(CorpusList) /\ end \in Nat  BY <2>1, <2>2
  <2>4. /\ IsFiniteSet(Added(end)) /\ Added(end) \subseteq CorpusNames(Len(CorpusList))
        /\ Added(end) \cap FeedRows = {}
    <3>1. IsFiniteSet(CorpusNames(end)) /\ CorpusNames(end) \subseteq CorpusNames(Len(CorpusList))
      BY <2>3, CorpusFinite
    <3> QED  BY <3>1, FS_Subset DEF Added, New
  <2>5. Cardinality(Added(end)) \in Nat  BY <2>4, FS_CardinalityType
  <2>6. CorpusNames(end) \subseteq Known \cup Added(end)
    BY <1>1 DEF FeedsPassed, Added, New, Known
  <2>7. /\ corpus' \in [passed : 0..Len(CorpusList), exhausted : BOOLEAN]
        /\ corpus'.passed = end
        /\ corpus'.exhausted => end < corpus.passed + Examined /\ Cardinality(Added(end)) < room
    BY <2>1, <2>3
  <2>8. corpus'.exhausted => end = Len(CorpusList)
    BY <1>3, <2>1, <2>2, <2>3, <2>5, <2>7
  <2> QED  BY <1>1, <1>2, <1>3, <2>1, <2>4, <2>6, <2>7, <2>8, RowsJoin
<1> QED  BY <1>4, <1>5

LEMMA QuitInv ==
    ASSUME FeedInv, NEW p \in Refillers, Quit(p)
    PROVE  FeedInv'
<1>1. /\ FeedTypes /\ Goes(p, NoPage)
      /\ UNCHANGED <<file, maxWords, seeds, queue, taken, words, window, corpus, split>>
  BY DEF FeedInv, Quit
<1>2. NoPage \in FillPages /\ NoPage.at # "page"  BY PageFields
<1>3. window' \in BOOLEAN  BY <1>1 DEF FeedTypes
<1> QED  BY <1>1, <1>2, <1>3, OnlyMoves

LEMMA TakeRowInv == FeedInv /\ TakeRow => FeedInv'
<1> SUFFICES ASSUME FeedInv, TakeRow PROVE FeedInv'
  OBVIOUS
<1>1. /\ FeedTypes /\ FeedsPassed /\ taken' = FeedRows /\ queue' = {}
      /\ UNCHANGED <<file, maxWords, seeds, words, window, corpus, filler, split>>
  BY DEF FeedInv, TakeRow
<1>2. FeedRows' = FeedRows /\ Known' = Known  BY <1>1 DEF FeedRows, Known
<1>3. IsFiniteSet(queue') /\ IsFiniteSet(taken')
  BY <1>1, FS_EmptySet, FS_Union DEF FeedTypes, FeedRows
<1>4. FeedTypes'  BY <1>1, <1>2, <1>3 DEF FeedTypes
<1>5. FeedsPassed'  BY <1>1, <1>2, PassedStays
<1>6. (\A q \in Refillers : filler[q].at = "page" => PageKept(filler[q]))'
  BY <1>1 DEF FeedInv, PageKept, Named
<1> QED  BY <1>4, <1>5, <1>6 DEF FeedInv

-----------------------------------------------------------------------------
LEMMA FeedInvAlways == FeedSpec => []FeedInv
<1>1. FeedInit => FeedInv  BY FeedInitInv
<1>2. FeedInv /\ [FeedNext]_feedVars => FeedInv'
  <2> SUFFICES ASSUME FeedInv, [FeedNext]_feedVars PROVE FeedInv'
    OBVIOUS
  <2>1. ASSUME NEW p \in Refillers,
               \/ StartRefill(p) \/ ReadLine(p) \/ CommitWordPage(p) \/ Materialize(p)
               \/ MarkWindow(p) \/ FeedCorpus(p) \/ Quit(p)
        PROVE  FeedInv'
    BY <2>1, StartRefillInv, ReadLineInv, CommitWordPageInv, MaterializeInv, MarkWindowInv,
       FeedCorpusInv, QuitInv
  <2>2. CASE UNCHANGED feedVars
    <3>1. FeedTypes' /\ FeedsPassed'
      BY <2>2 DEF feedVars, FeedInv, FeedTypes, FeedsPassed, FeedRows, Known, Named
    <3>2. (\A q \in Refillers : filler[q].at = "page" => PageKept(filler[q]))'
      BY <2>2 DEF feedVars, FeedInv, PageKept, Named
    <3> QED  BY <3>1, <3>2 DEF FeedInv
  <2> QED  BY <2>1, <2>2, TakeRowInv DEF FeedNext
<1> QED  BY <1>1, <1>2, PTL DEF FeedSpec

\* The queue, the cursors of the feeds and the pages of the refills keep their types.
THEOREM FeedsTyped == FeedSpec => []FeedTypeOK
<1>1. FeedInv => FeedTypeOK
  <2> SUFFICES ASSUME FeedInv PROVE FeedTypeOK
    OBVIOUS
  <2>1. FeedTypes  BY DEF FeedInv
  <2>2. words.line \in 0..Len(file) /\ words.within \in 0..1
    <3>1. file \in Seq(LineOf)  BY <2>1 DEF FeedTypes
    <3>2. Len(file) \in Nat  BY <3>1, LenProperties
    <3> QED  BY <2>1, <3>2 DEF FeedTypes, Cursors
  <2>3. split \subseteq 1..MaxLines
    <3>1. file \in Seq(LineOf)  BY <2>1 DEF FeedTypes
    <3>2. Len(file) \in Nat  BY <3>1, LenProperties
    <3> QED  BY <2>1, <3>2, FeedAssumption DEF FeedTypes
  <2>4. \A p \in Refillers : /\ filler[p].at \in {"idle", "page", "window", "mark", "corpus"}
                             /\ filler[p].room >= 0
    BY <2>1 DEF FeedTypes, FillPages
  <2> QED  BY <2>1, <2>2, <2>3, <2>4 DEF FeedTypes, FeedTypeOK
<1> QED  BY <1>1, FeedInvAlways, PTL

\* The cursors of the wordlist and the corpus pass no name over, whoever reads, however two
\* refills interleave and wherever a page is cut: for every wordlist, corpus, page, limit and
\* number of runs.
THEOREM FeedsKeep == FeedSpec => []FeedWhole
<1>1. FeedInv => FeedWhole
  BY DEF FeedInv, FeedsPassed, FeedWhole, Known, Named
<1> QED  BY <1>1, FeedInvAlways, PTL
=============================================================================
