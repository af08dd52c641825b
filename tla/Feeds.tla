--------------------------------- MODULE Feeds ---------------------------------
(***************************************************************************)
(* Where the candidates of a scan come from (scanner/candidates            *)
(* refill_candidate_queue, db/scan refill_wordlist_candidates and          *)
(* refill_prior_candidates_to_scan): a user's wordlist, read by pages from *)
(* a byte cursor; a window of generated names; the built-in corpus, read   *)
(* by its order.  The cursors and the rows are durable; the wordlist is    *)
(* read without the lock, so two refills may work from the same cursor.    *)
(*                                                                         *)
(* A line of the wordlist is a name or junk, one or two units long; a      *)
(* cursor is the number of lines passed and the units of the next one that *)
(* were passed already (cursor_text = 'discard').                          *)
(***************************************************************************)
EXTENDS Integers, Sequences, FiniteSets

CONSTANTS
    Refillers,   \* runs of the scan
    Wordlist,    \* names of the wordlist
    Junk,        \* a line that is no name
    MaxLines,    \* bound: lines of the wordlist
    CorpusList,      \* the sequence of built-in names, most promising first
    Generated,   \* the names of the high-value window
    PageLines,   \* lines of a page
    PageUnits,   \* MAX_WORDLIST_PAGE_BYTES
    Examined,    \* rows of the corpus one refill looks at
    Target,      \* rows the queue is filled up to
    Budgets,     \* values of max_words
    MaxRefills   \* bound: refills

ASSUME FeedAssumption ==
    /\ {MaxLines, PageLines, PageUnits, Examined, Target, MaxRefills} \subseteq Nat
    /\ Budgets \subseteq Nat /\ Junk \notin Wordlist /\ IsFiniteSet(Generated)
    /\ CorpusList \in Seq({CorpusList[k] : k \in DOMAIN CorpusList})

VARIABLES
    file,       \* the wordlist
    maxWords,
    generate,   \* generated names are allowed
    seeds,      \* names that are seeds already
    queue,      \* rows of scan_candidates that wait
    taken,      \* rows that were claimed
    words,      \* the feed: its cursor and whether it is exhausted
    window,     \* the high-value feed is exhausted
    corpus,     \* rows of the corpus passed, and whether it is exhausted
    filler,     \* per run: what its refill does
    split,      \* history: lines a page ended within
    refills

feedVars == <<file, maxWords, generate, seeds, queue, taken, words, window, corpus, filler, split,
              refills>>

LineOf == [name : Wordlist \cup {Junk}, units : {1, 2}]
CorpusNames(i) == {CorpusList[k] : k \in 1..i}

FeedStart == [line |-> 0, within |-> 0, exhausted |-> FALSE]
NoPage == [at |-> "idle", room |-> 0, spare |-> 0, from |-> FeedStart, pos |-> FeedStart, lines |-> 0,
           units |-> 0, found |-> <<>>, cut |-> {}]

FeedInit ==
    /\ file \in UNION {[1..n -> LineOf] : n \in 0..MaxLines}
    /\ maxWords \in Budgets /\ generate \in BOOLEAN
    /\ seeds \in {{}} \cup {{n} : n \in Wordlist}
    /\ queue = {} /\ taken = {} /\ words = FeedStart /\ window = FALSE
    /\ corpus = [passed |-> 0, exhausted |-> FALSE]
    /\ filler = [p \in Refillers |-> NoPage] /\ split = {} /\ refills = 0

FeedRows == queue \cup taken
FillerAt(p, where) == filler[p].at = where
Goes(p, page) == filler' = [filler EXCEPT ![p] = page]

\* FeedRows join the queue unless they exist or are seeds.
New(names) == names \ (FeedRows \cup seeds)

-----------------------------------------------------------------------------
\* refill_candidate_queue: the room left, read before the feeds are.
StartRefill(p) ==
    /\ FillerAt(p, "idle") /\ refills < MaxRefills
    /\ refills' = refills + 1
    /\ LET few == Cardinality(queue) < Target /\ Cardinality(FeedRows) < maxWords
           spare == maxWords - Cardinality(FeedRows)
           room == IF Target - Cardinality(queue) < spare THEN Target - Cardinality(queue) ELSE spare
       IN /\ few
          /\ Goes(p, [NoPage EXCEPT !.room = room, !.spare = spare, !.from = words, !.pos = words,
                        !.at = IF words.exhausted THEN "window" ELSE "page"])
    /\ UNCHANGED <<file, maxWords, generate, seeds, queue, taken, words, window, corpus, split>>

PageFull(f) == f.lines >= PageLines \/ f.units >= PageUnits

\* One line of the page, or as much of it as the page has room for; what follows of a line that
\* was cut is passed over by the pages after it.
ReadLine(p) ==
    LET f == filler[p]
        next == f.pos.line + 1
        left == file[next].units - f.pos.within
        room == PageUnits - f.units
        whole == left <= room
        moved == [f EXCEPT !.units = @ + (IF whole THEN left ELSE room)]
        fresh == f.pos.within = 0
    IN
    /\ FillerAt(p, "page") /\ ~PageFull(f) /\ f.pos.line < Len(file)
    /\ Goes(p,
        IF ~whole
        THEN [moved EXCEPT !.pos.within = @ + room, !.lines = @ + (IF fresh THEN 1 ELSE 0),
                           !.cut = @ \cup {next}]
        ELSE [moved EXCEPT !.pos.line = next, !.pos.within = 0,
                           !.lines = @ + (IF fresh THEN 1 ELSE 0),
                           !.found = IF fresh /\ file[next].name # Junk
                                     THEN Append(@, next) ELSE @])
    /\ UNCHANGED <<file, maxWords, generate, seeds, queue, taken, words, window, corpus, split,
                   refills>>

\* The lines inserted before the limit of the call is reached.
NamesUpTo(f, i) == {file[f.found[k]].name : k \in 1..i}
Enough(f) == {i \in 1..Len(f.found) : Cardinality(New(NamesUpTo(f, i))) >= f.room}
\* Mutant: the cursor of a page that was cut at its limit is that of the whole page.
CursorOfPage(f) == f.pos
CursorOf(f) == IF Enough(f) = {} THEN f.pos
               ELSE [f.pos EXCEPT !.line = f.found[CHOOSE i \in Enough(f) :
                                                      \A j \in Enough(f) : i <= j],
                                  !.within = 0]
Inserted(f) == New(IF Enough(f) = {} THEN NamesUpTo(f, Len(f.found))
                   ELSE NamesUpTo(f, CHOOSE i \in Enough(f) : \A j \in Enough(f) : i <= j))

\* The page is committed with its cursor, unless the feed moved meanwhile.  A feed with more to
\* give keeps the room that is left.
CommitWordPage(p) ==
    LET f == filler[p]
        ends == [CursorOf(f) EXCEPT !.exhausted = CursorOf(f).line = Len(file)]
    IN
    /\ FillerAt(p, "page") /\ (PageFull(f) \/ f.pos.line = Len(file))
    /\ IF words # f.from
       THEN /\ UNCHANGED <<queue, words, split>>
            /\ Goes(p, [NoPage EXCEPT !.at = IF words.exhausted THEN "window" ELSE "idle",
                                      !.room = f.room, !.spare = f.spare])
       ELSE /\ queue' = queue \cup Inserted(f)
            /\ words' = ends
            /\ split' = split \cup {l \in f.cut : l <= ends.line + 1}
            /\ Goes(p, [NoPage EXCEPT !.at = IF ends.exhausted THEN "window" ELSE "idle",
                                      !.room = f.room - Cardinality(Inserted(f)),
                                      !.spare = f.spare - Cardinality(Inserted(f))])
    /\ UNCHANGED <<file, maxWords, generate, seeds, taken, window, corpus, refills>>

\* The window is materialized at once, within what max_words leaves; its mark follows.
Materialize(p) ==
    /\ FillerAt(p, "window")
    /\ IF ~generate THEN Goes(p, NoPage) /\ UNCHANGED queue
       ELSE IF window \/ filler[p].room = 0
       THEN Goes(p, [filler[p] EXCEPT !.at = "corpus"]) /\ UNCHANGED queue
       ELSE \E few \in SUBSET New(Generated) :
                /\ Cardinality(few) <= filler[p].spare
                /\ few = New(Generated) \/ Cardinality(few) = filler[p].spare
                /\ queue' = queue \cup few
                /\ Goes(p, [filler[p] EXCEPT !.at = "mark",
                        !.room = IF @ > Cardinality(few) THEN @ - Cardinality(few) ELSE 0])
    /\ UNCHANGED <<file, maxWords, generate, seeds, taken, words, window, corpus, split, refills>>

MarkWindow(p) ==
    /\ FillerAt(p, "mark") /\ window' = TRUE /\ Goes(p, [filler[p] EXCEPT !.at = "corpus"])
    /\ UNCHANGED <<file, maxWords, generate, seeds, queue, taken, words, corpus, split, refills>>

\* The corpus and its cursor move in one transaction, row by row in the order of their rank.
Added(i) == New(CorpusNames(i) \ CorpusNames(corpus.passed))
FeedCorpus(p) ==
    LET room == filler[p].room IN
    /\ FillerAt(p, "corpus") /\ Goes(p, NoPage)
    /\ IF room = 0 \/ corpus.exhausted THEN UNCHANGED <<queue, corpus>>
       ELSE \E end \in corpus.passed..Len(CorpusList) :
            /\ Cardinality(Added(end)) <= room /\ end <= corpus.passed + Examined
            /\ \/ end = Len(CorpusList) \/ end = corpus.passed + Examined
               \/ Cardinality(Added(end)) = room
            /\ \A e \in corpus.passed..(end - 1) : Cardinality(Added(e)) < room
            /\ queue' = queue \cup Added(end)
            /\ corpus' = [passed |-> end,
                          exhausted |-> end < corpus.passed + Examined /\ Cardinality(Added(end)) < room]
    /\ UNCHANGED <<file, maxWords, generate, seeds, taken, words, window, split, refills>>

-----------------------------------------------------------------------------
\* The run claims what it queued.
TakeRow ==
    /\ queue # {} /\ taken' = FeedRows /\ queue' = {}
    /\ UNCHANGED <<file, maxWords, generate, seeds, words, window, corpus, filler, split, refills>>

\* A run ends, its page with it.
Quit(p) ==
    /\ ~FillerAt(p, "idle") /\ Goes(p, NoPage)
    /\ UNCHANGED <<file, maxWords, generate, seeds, queue, taken, words, window, corpus, split,
                   refills>>

FeedNext ==
    \/ \E p \in Refillers :
        \/ StartRefill(p) \/ ReadLine(p) \/ CommitWordPage(p) \/ Materialize(p) \/ MarkWindow(p)
        \/ FeedCorpus(p) \/ Quit(p)
    \/ TakeRow

FeedSpec == FeedInit /\ [][FeedNext]_feedVars

-----------------------------------------------------------------------------
FeedTypeOK ==
    /\ FeedRows \subseteq Wordlist \cup Generated \cup CorpusNames(Len(CorpusList)) /\ queue \cap taken = {}
    /\ words.line \in 0..Len(file) /\ words.within \in 0..1
    /\ corpus.passed \in 0..Len(CorpusList) /\ window \in BOOLEAN /\ split \subseteq 1..MaxLines
    /\ \A p \in Refillers :
        filler[p].at \in {"idle", "page", "window", "mark", "corpus"} /\ filler[p].room >= 0

\* The cursors of the wordlist and of the corpus pass no name over: what lies before them is a
\* candidate of the scan or a seed, whoever read it, however the reads of two runs interleave,
\* wherever a page was cut by its limit and whichever run was stopped between two feeds.  The
\* exception is a line longer than what a page had left for it.  Of the generated window
\* nothing is said: the budget may cut it, and it is marked as used all the same
\* (candidates.rs:242-244).
FeedWhole ==
    /\ \A l \in 1..words.line : file[l].name # Junk /\ l \notin split =>
            file[l].name \in FeedRows \cup seeds
    /\ CorpusNames(corpus.passed) \subseteq FeedRows \cup seeds
    /\ words.exhausted => words.line = Len(file)
    /\ corpus.exhausted => corpus.passed = Len(CorpusList)
=============================================================================
