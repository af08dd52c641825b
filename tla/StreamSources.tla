---------------------------- MODULE StreamSources ----------------------------
(***************************************************************************)
(* The connectors that decode an answer while it arrives (public_sources   *)
(* collect_streamed_lines, keyed_sources for_each_stream_line, extra circl,*)
(* providers netlas and crtsh_postgres).  Records come in chunks that cut  *)
(* them anywhere; decoded names wait in a batch that is handed to the      *)
(* writer when it is full, at checkpoints, and on the way out.             *)
(*                                                                         *)
(* Between two chunks the connector waits, and can be dropped by its       *)
(* deadline; inside a chunk nothing interrupts it.  Every record is two    *)
(* halves long; a good one yields one name.                                *)
(***************************************************************************)
EXTENDS Integers, Sequences, FiniteSets

CONSTANTS
    MaxRecords,    \* bound: records in an answer
    BatchSize,     \* names in a batch, 1000 in the code
    RecordCap,     \* records a connector accepts
    ByteCap,       \* halves of records a connector accepts
    DownloadLimit  \* FELLAGA_NETLAS_DOWNLOAD_LIMIT

ASSUME StreamAssumption ==
    {MaxRecords, RecordCap, ByteCap, DownloadLimit} \subseteq Nat /\ BatchSize \in Nat \ {0}

\* form: lines, where the last one may lack its end; an array that must be closed; rows that
\* come one at a time.  checkpoint: a partial batch is handed over after each chunk, after
\* some (a timer), or never.  cap: records are counted.  turns: answers one after the other.
Lines == [form |-> "lines", checkpoint |-> "timer", cap |-> TRUE, turns |-> 1]
ShrewdEye == Lines
ArquivoPt == Lines
SubMd == [Lines EXCEPT !.cap = FALSE]
EachLine == [Lines EXCEPT !.checkpoint = "chunk", !.cap = FALSE]
Circl == [EachLine EXCEPT !.cap = TRUE]
Profundis == EachLine
Robtex == [EachLine EXCEPT !.turns = 2]
Netlas == [Lines EXCEPT !.form = "array", !.checkpoint = "never"]
CrtShPostgres == [Lines EXCEPT !.form = "rows", !.checkpoint = "never", !.cap = FALSE]

StreamKinds == {ShrewdEye, SubMd, Circl, Profundis, Robtex, Netlas, CrtShPostgres}

VARIABLES
    source,    \* the connector
    turn,      \* the answer it reads
    answer,    \* its records, whether the last one has its end, and the number announced
    got,       \* halves received
    decoded,   \* records decoded of this answer
    counted,   \* records counted against the cap
    waiting,   \* the batch: pairs of turn and record
    handed,    \* names the writer has
    understood,\* history: good records decoded, of all answers
    step       \* "chunk", "decode", or how it ended: "ok", "error", "broken", "cut"

streamVars == <<source, turn, answer, got, decoded, counted, waiting, handed, understood, step>>

Classes == {"good", "blank", "bad", "long"}
AnswersOf(s) ==
    {a \in [records : UNION {[1..n -> Classes] : n \in 0..MaxRecords}, closed : BOOLEAN,
            count : 0..(IF s.form = "array" THEN MaxRecords + 1 ELSE 0)] :
        /\ s.form = "rows" => a.closed /\ \A i \in DOMAIN a.records : a.records[i] # "long"
        /\ s.form = "array" /\ a.count = 0 => a.closed /\ a.records = <<>>}  \* not asked for

StreamInit ==
    /\ source \in StreamKinds /\ turn = 1 /\ answer \in AnswersOf(source)
    /\ got = 0 /\ decoded = 0 /\ counted = 0
    /\ waiting = {} /\ handed = {} /\ understood = {} /\ step = "chunk"

Size == Len(answer.records)
\* A record whose end has arrived.
Complete == IF source.form = "lines" /\ ~answer.closed /\ got = 2 * Size /\ Size > 0
            THEN Size - 1 ELSE got \div 2
Limit == IF source.form = "array"
         THEN IF answer.count < DownloadLimit THEN answer.count ELSE DownloadLimit
         ELSE RecordCap

\* commit_result_page of the batch, or nothing.
HandOver(batch, really) ==
    /\ handed' = handed \cup (IF really THEN batch ELSE {})
    /\ waiting' = IF really THEN {} ELSE batch

\* All but Netlas and PostgreSQL hand over what they have before an error.
StreamFails(batch, how) ==
    /\ HandOver(batch, source.checkpoint # "never")
    /\ step' = how

-----------------------------------------------------------------------------
\* The status, the type or the announced length of the answer is refused.
Decline ==
    /\ step = "chunk" /\ got = 0
    /\ step' = "error"
    /\ UNCHANGED <<source, turn, answer, got, decoded, counted, waiting, handed, understood>>

\* A chunk arrives; one that exceeds the byte budget is not decoded.
Chunk ==
    /\ step = "chunk" /\ got < 2 * Size
    /\ \E more \in IF source.form = "rows" THEN {2} ELSE 1..(2 * Size - got) :
        /\ got' = got + more
        /\ IF got + more > ByteCap /\ source.form # "rows"
           THEN StreamFails(waiting, "error")
           ELSE step' = "decode" /\ UNCHANGED <<waiting, handed>>
    /\ UNCHANGED <<source, turn, answer, decoded, counted, understood>>

TooMany == source.cap /\ counted >= Limit

\* The record is one too many, too long, or does not parse.
Unusable(i) == TooMany \/ answer.records[i] \in {"bad", "long"}

\* Understood: the record of a line adds its names to the batch.
Understand(i) ==
    LET batch == waiting \cup {<<turn, i>>} IN
    /\ HandOver(batch, Cardinality(batch) >= BatchSize)
    /\ understood' = understood \cup {<<turn, i>>}

\* One complete record of the chunk.
Decode ==
    /\ step = "decode" /\ decoded < Complete
    /\ decoded' = decoded + 1
    /\ LET i == decoded + 1 IN
        IF answer.records[i] = "blank" /\ source.form = "lines"
        THEN UNCHANGED <<counted, waiting, handed, understood, step>>
        ELSE IF Unusable(i)
        THEN StreamFails(waiting, "error") /\ UNCHANGED <<counted, understood>>
        ELSE /\ counted' = counted + 1
             /\ IF answer.records[i] = "good" THEN Understand(i)
                ELSE UNCHANGED <<waiting, handed, understood>>
             /\ UNCHANGED step
    /\ UNCHANGED <<source, turn, answer, got>>

\* The part of a record that ends a chunk may already be too long.
Overlong == got > 2 * decoded /\ answer.records[decoded + 1] = "long"

\* The end of a chunk: a checkpoint, then the wait for the next chunk.
Checkpoint ==
    /\ step = "decode" /\ decoded = Complete
    /\ IF Overlong THEN StreamFails(waiting, "error")
       ELSE /\ step' = "chunk"
            /\ \/ source.checkpoint # "never" /\ HandOver(waiting, TRUE)
               \/ source.checkpoint # "chunk" /\ HandOver(waiting, FALSE)
    /\ UNCHANGED <<source, turn, answer, got, decoded, counted, understood>>

\* The connection breaks.
BreakStream ==
    /\ step = "chunk"
    /\ StreamFails(waiting, "broken")
    /\ UNCHANGED <<source, turn, answer, got, decoded, counted, understood>>

-----------------------------------------------------------------------------
(* The end of an answer.                                                   *)

\* Netlas compares what it decoded with what was announced.
Short == source.form = "array" /\ (~answer.closed \/ decoded < Limit \/ answer.count > Limit)

\* A last line without its end.
Carried == decoded < Size

\* The answer is over: the next one is asked for, or the connector returns.  Robtex follows
\* only some of the addresses it saw, and says so.
ReturnStream(fine) ==
    \/ ~fine /\ step' = "error" /\ UNCHANGED <<turn, answer, got, decoded, counted>>
    \/ /\ fine /\ step' \in {"ok"} \cup (IF turn > 1 THEN {"error"} ELSE {})
       /\ UNCHANGED <<turn, answer, got, decoded, counted>>
    \/ /\ fine /\ turn < source.turns /\ turn' = turn + 1
       /\ answer' \in AnswersOf(source)
       /\ got' = 0 /\ decoded' = 0 /\ counted' = 0 /\ step' = "chunk"

\* A last record that cannot be used costs the line connectors on a timer their batch.
EndOfAnswer ==
    /\ step = "chunk" /\ got = 2 * Size
    /\ IF ~Carried \/ answer.records[Size] = "blank"
       THEN HandOver(waiting, TRUE) /\ ReturnStream(~Short) /\ UNCHANGED understood
       ELSE IF Unusable(Size)
       THEN /\ HandOver(waiting, source.checkpoint = "chunk" \/ TooMany)
            /\ ReturnStream(FALSE) /\ UNCHANGED understood
       ELSE /\ HandOver(waiting \cup {<<turn, Size>>}, TRUE)
            /\ understood' = understood \cup {<<turn, Size>>}
            /\ ReturnStream(TRUE)
    /\ UNCHANGED source

\* The deadline of the source drops the connector and its batch.
Dropped ==
    /\ step = "chunk" /\ step' = "cut"
    /\ UNCHANGED <<source, turn, answer, got, decoded, counted, waiting, handed, understood>>

StreamNext == Decline \/ Chunk \/ Decode \/ Checkpoint \/ BreakStream \/ EndOfAnswer \/ Dropped

StreamSpec == StreamInit /\ [][StreamNext]_streamVars

-----------------------------------------------------------------------------
StreamTypeOK ==
    /\ source \in StreamKinds /\ turn \in 1..source.turns /\ answer \in AnswersOf(source)
    /\ got \in 0..(2 * Size) /\ decoded \in 0..Size /\ counted \in 0..decoded
    /\ waiting \cup handed \subseteq understood
    /\ step \in {"chunk", "decode", "ok", "error", "broken", "cut"}

Lost == understood \ handed
Good == {i \in DOMAIN answer.records : answer.records[i] = "good"}

\* What was decoded is not lost: never more than a batch is at stake, whatever ends the
\* connector; a connector that checkpoints each chunk loses nothing at all, one on a timer
\* nothing to a broken connection.  Success means that every record of the answer was
\* understood and handed over, and for Netlas that there were as many as announced.
StreamKept ==
    /\ Cardinality(Lost) < BatchSize
    /\ step \in {"ok", "error", "broken", "cut"} /\ source.checkpoint = "chunk" => Lost = {}
    /\ step = "broken" /\ source.checkpoint # "never" => Lost = {}
    /\ step = "ok" =>
        /\ Lost = {} /\ \A i \in Good : <<turn, i>> \in handed
        /\ \A i \in DOMAIN answer.records : answer.records[i] \in {"good", "blank"}
        /\ source.form = "array" => answer.closed /\ answer.count = Size
=============================================================================
