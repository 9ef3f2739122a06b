----------------------------- MODULE ChatRelay -----------------------------
(***************************************************************************)
(* POST /v1/chat/completions after the key and the rate limit have been    *)
(* checked: the upstream call, the relay of a stream with its usage        *)
(* sniffer (routers/chat.py, upstream.py), and the usage row that is left  *)
(* behind (metering.py).                                                   *)
(*                                                                         *)
(* A streamed answer is a list of lines.  On the wire each line is two     *)
(* symbols and a newline, and httpx hands the symbols over in chunks cut   *)
(* anywhere.                                                               *)
(***************************************************************************)
EXTENDS Integers, Sequences, FiniteSets, SequencesExt

CONSTANTS
    Requests,
    Bodies,     \* the streams an upstream may answer with: sequences of lines
    Totals,     \* the usage totals a line or an answer may report
    NoUsage,    \* no usage object: an empty sink, or usage missing
    MaxFaults   \* bound: failed INSERTs and broker crashes

\* A line carries content, or a usage object; [DONE] counts as content.
Line == [kind: {"content"}] \cup [kind: {"usage"}, total: Totals]

ASSUME TotalsAssumption == Totals \subseteq Nat \ {0} /\ NoUsage \notin Nat
ASSUME BodiesAssumption == \A body \in Bodies : body \in Seq(Line)
ASSUME FaultsAssumption == MaxFaults \in Nat

VARIABLES
    req,      \* req[r]: the request as its handler sees it
    client,   \* client[r]: the caller is still connected
    seen,     \* seen[r]: how many symbols of the answer the caller has been sent
    rows,     \* rows[r]: the token totals of the usage rows r has inserted
    faults

vars == <<req, client, seen, rows, faults>>

----------------------------------------------------------------------------
(* The wire *)

Newline == [half |-> 0]
Halves(line) == <<[half |-> 1, of |-> line], [half |-> 2, of |-> line], Newline>>

Wire(body) == FlattenSeq([i \in DOMAIN body |-> Halves(body[i])])

\* json.loads of one line: what it says when it is whole, else a decode error.
Decoded(text) == IF \E line \in Line : text = SubSeq(Halves(line), 1, 2)
                   THEN {text[1].of} ELSE {}

\* sink.update(obj["usage"]) for a line that decodes and has one.
Updated(sink, text) ==
    LET usage == {line \in Decoded(text) : line.kind = "usage"}
    IN  IF usage = {} THEN sink ELSE (CHOOSE line \in usage : TRUE).total

\* One more symbol of a text: the end of a line is where the line is read.
Sniff(acc, symbol) ==
    IF symbol = Newline THEN [line |-> <<>>, sink |-> Updated(acc.sink, acc.line)]
                        ELSE [acc EXCEPT !.line = Append(@, symbol)]

\* extract_usage_from_sse: the lines of a text, in order.
Sniffed(text, sink) ==
    FoldLeft(Sniff, [line |-> <<>>, sink |-> sink], Append(text, Newline)).sink

\* MUTANT of Buffered: the tail of the last chunk is not kept.
BufferedNot(buffer, chunk, sink) ==
    LET last == SelectLastInSeq(chunk, LAMBDA symbol : symbol = Newline)
    IN  [buffer |-> <<>>,
         sink |-> IF last = 0 THEN sink ELSE Sniffed(SubSeq(chunk, 1, last - 1), sink)]

\* buffer += chunk; everything before the last newline is parsed, the rest kept.
Buffered(buffer, chunk, sink) ==
    LET text == buffer \o chunk
        last == SelectLastInSeq(text, LAMBDA symbol : symbol = Newline)
    IN  IF last = 0 THEN [buffer |-> text, sink |-> sink]
        ELSE [buffer |-> SubSeq(text, last + 1, Len(text)),
              sink |-> Sniffed(SubSeq(text, 1, last - 1), sink)]

----------------------------------------------------------------------------
Symbol == {Newline} \cup [half: {1, 2}, of: Line]

New == [pc |-> "new"]

Request ==
    {New}
    \cup [pc: {"posted"}, stream: BOOLEAN]
    \* The relay: body is what the upstream is sending, got how much of it has
    \* arrived; while yielding, the last chunk has arrived but is not parsed.
    \cup [pc: {"streaming"}, body: Bodies, got: Nat, buffer: Seq(Symbol),
          sink: Totals \cup {NoUsage}]
    \cup [pc: {"yielding"}, body: Bodies, got: Nat, chunk: Seq(Symbol),
          buffer: Seq(Symbol), sink: Totals \cup {NoUsage}]
    \* metering.record is running; how tells why.
    \cup [pc: {"record"}, how: {"answer", "complete", "error", "cancelled"},
          stream: BOOLEAN, body: Bodies \cup {<<>>}, sink: Totals \cup {NoUsage}]
    \cup [pc: {"ended"}, how: {"answer", "complete", "error", "cancelled", "refused", "crashed"},
          stream: BOOLEAN, body: Bodies \cup {<<>>}, metered: BOOLEAN]

\* Every variable has its type; only an ended request has left a row, and the
\* caller was never sent more than there is.
TypeOK ==
    /\ req \in [Requests -> Request]
    /\ client \in [Requests -> BOOLEAN]
    /\ seen \in [Requests -> Nat]
    /\ rows \in [Requests -> Seq({0} \cup Totals)]
    /\ faults \in 0 .. MaxFaults
    /\ \A r \in Requests : rows[r] # <<>> => req[r].pc = "ended"
    /\ \A r \in Requests : req[r].pc \in {"streaming", "yielding"} =>
                              seen[r] <= req[r].got /\ req[r].got <= Len(Wire(req[r].body))

Init ==
    /\ req = [r \in Requests |-> New]
    /\ client = [r \in Requests |-> TRUE]
    /\ seen = [r \in Requests |-> 0]
    /\ rows = [r \in Requests |-> <<>>]
    /\ faults = 0

Ended(how, stream, body, metered) ==
    [pc |-> "ended", how |-> how, stream |-> stream, body |-> body, metered |-> metered]

\* Control goes to metering.record: the finally block of relay(), or the
\* statement after the upstream's answer.
ToRecord(how, stream, body, sink) ==
    [pc |-> "record", how |-> how, stream |-> stream, body |-> body, sink |-> sink]

----------------------------------------------------------------------------
(* The request and the upstream *)

\* The body is not JSON, is not an object, or names no model: 400 or 404.
Reject(r) ==
    /\ req[r] = New
    /\ req' = [req EXCEPT ![r] = Ended("refused", FALSE, <<>>, FALSE)]
    /\ UNCHANGED <<client, seen, rows, faults>>

\* Route, payload and headers are built; the upstream is called.
Post(r, stream) ==
    /\ req[r] = New
    /\ req' = [req EXCEPT ![r] = [pc |-> "posted", stream |-> stream]]
    /\ UNCHANGED <<client, seen, rows, faults>>

\* A plain call fails or is answered with an error: the handler raises, and
\* nothing is recorded.
AnswerError(r) ==
    /\ req[r].pc = "posted" /\ ~req[r].stream
    /\ req' = [req EXCEPT ![r] = Ended("error", FALSE, <<>>, FALSE)]
    /\ UNCHANGED <<client, seen, rows, faults>>

\* MUTANT of Answer: an answer without usage is not worth a row.
AnswerWithUsage(r) ==
    /\ req[r].pc = "posted" /\ ~req[r].stream
    /\ \E usage \in Totals \cup {NoUsage} :
         req' = [req EXCEPT ![r] = IF usage = NoUsage THEN Ended("answer", FALSE, <<>>, FALSE)
                                   ELSE ToRecord("answer", FALSE, <<>>, usage)]
    /\ UNCHANGED <<client, seen, rows, faults>>

\* A plain call is answered, with a usage object or without.
Answer(r) ==
    /\ req[r].pc = "posted" /\ ~req[r].stream
    /\ \E usage \in Totals \cup {NoUsage} :
         req' = [req EXCEPT ![r] = ToRecord("answer", FALSE, <<>>, usage)]
    /\ UNCHANGED <<client, seen, rows, faults>>

\* A stream is refused (status >= 400: one error frame, then return) or cannot
\* be opened: the finally block still records, with an empty sink.
StreamError(r) ==
    /\ req[r].pc = "posted" /\ req[r].stream
    /\ req' = [req EXCEPT ![r] = ToRecord("error", TRUE, <<>>, NoUsage)]
    /\ UNCHANGED <<client, seen, rows, faults>>

OpenStream(r) ==
    /\ req[r].pc = "posted" /\ req[r].stream
    /\ \E body \in Bodies :
         req' = [req EXCEPT ![r] = [pc |-> "streaming", body |-> body, got |-> 0,
                                    buffer |-> <<>>, sink |-> NoUsage]]
    /\ UNCHANGED <<client, seen, rows, faults>>

\* MUTANT of Chunk: the chunk is parsed before it is yielded.
ChunkParsedFirst(r) ==
    /\ req[r].pc = "streaming"
    /\ LET wire == Wire(req[r].body)
       IN  \E n \in req[r].got + 1 .. Len(wire) :
             LET parsed == Buffered(req[r].buffer, SubSeq(wire, req[r].got + 1, n), req[r].sink)
             IN  req' = [req EXCEPT ![r] =
                           [pc |-> "yielding", body |-> req[r].body, got |-> n,
                            chunk |-> <<>>, buffer |-> parsed.buffer, sink |-> parsed.sink]]
    /\ UNCHANGED <<client, seen, rows, faults>>

\* aiter_bytes: the next chunk, cut anywhere; it is yielded to the client first.
Chunk(r) ==
    /\ req[r].pc = "streaming"
    /\ LET wire == Wire(req[r].body)
       IN  \E n \in req[r].got + 1 .. Len(wire) :
             req' = [req EXCEPT ![r] =
                       [pc |-> "yielding", body |-> req[r].body, got |-> n,
                        chunk |-> SubSeq(wire, req[r].got + 1, n),
                        buffer |-> req[r].buffer, sink |-> req[r].sink]]
    /\ UNCHANGED <<client, seen, rows, faults>>

\* MUTANT of Resume: usage is recorded as soon as it is read, and again at the end.
ResumeAndRecord(r) ==
    /\ req[r].pc = "yielding"
    /\ LET parsed == Buffered(req[r].buffer, req[r].chunk, req[r].sink)
       IN  /\ req' = [req EXCEPT ![r] = [pc |-> "streaming", body |-> req[r].body,
                                         got |-> req[r].got, buffer |-> parsed.buffer,
                                         sink |-> parsed.sink]]
           /\ rows' = IF parsed.sink = req[r].sink THEN rows
                      ELSE [rows EXCEPT ![r] = Append(@, parsed.sink)]
    /\ seen' = [seen EXCEPT ![r] = req[r].got]
    /\ UNCHANGED <<client, faults>>

\* The client has taken the chunk: the generator resumes and parses it.
Resume(r) ==
    /\ req[r].pc = "yielding"
    /\ LET parsed == Buffered(req[r].buffer, req[r].chunk, req[r].sink)
       IN  req' = [req EXCEPT ![r] = [pc |-> "streaming", body |-> req[r].body,
                                      got |-> req[r].got, buffer |-> parsed.buffer,
                                      sink |-> parsed.sink]]
    /\ seen' = [seen EXCEPT ![r] = req[r].got]
    /\ UNCHANGED <<client, rows, faults>>

EndOfStream(r) ==
    /\ req[r].pc = "streaming"
    /\ req[r].got = Len(Wire(req[r].body))
    /\ req' = [req EXCEPT ![r] = ToRecord("complete", TRUE, req[r].body, req[r].sink)]
    /\ UNCHANGED <<client, seen, rows, faults>>

\* The upstream breaks off, or is silent for longer than upstream_timeout_s.
BreakOff(r) ==
    /\ req[r].pc = "streaming"
    /\ req' = [req EXCEPT ![r] = ToRecord("error", TRUE, req[r].body, req[r].sink)]
    /\ UNCHANGED <<client, seen, rows, faults>>

\* The client hangs up.  A stream is cancelled where it stands; a chunk being
\* yielded may or may not have reached the client, but is not parsed any more.
\* A plain handler runs on.
HangUp(r) ==
    /\ client[r]
    /\ req[r].pc \in {"posted", "streaming", "yielding", "record"}
    /\ client' = [client EXCEPT ![r] = FALSE]
    /\ CASE req[r].pc = "posted" /\ req[r].stream ->
              /\ req' = [req EXCEPT ![r] = ToRecord("cancelled", TRUE, <<>>, NoUsage)]
              /\ UNCHANGED seen
         [] req[r].pc \in {"streaming", "yielding"} ->
              /\ req' = [req EXCEPT ![r] = ToRecord("cancelled", TRUE, req[r].body, req[r].sink)]
              /\ seen' \in {seen, [seen EXCEPT ![r] = req[r].got]}
         [] OTHER -> UNCHANGED <<req, seen>>
    /\ UNCHANGED <<rows, faults>>

----------------------------------------------------------------------------
(* metering.record *)

\* usage or {}, then int(usage.get(...) or 0): nothing known is a row of zeros.
Billed(r) == Append(rows[r], IF req[r].sink = NoUsage THEN 0 ELSE req[r].sink)

After(r, metered) ==
    Ended(req[r].how, req[r].stream, req[r].body, metered)

Record(r) ==
    /\ req[r].pc = "record"
    /\ rows' = [rows EXCEPT ![r] = Billed(r)]
    /\ req' = [req EXCEPT ![r] = After(r, TRUE)]
    /\ UNCHANGED <<client, seen, faults>>

\* The INSERT fails; the exception is logged and swallowed.
RecordFails(r) ==
    /\ faults < MaxFaults
    /\ req[r].pc = "record"
    /\ req' = [req EXCEPT ![r] = After(r, FALSE)]
    /\ faults' = faults + 1
    /\ UNCHANGED <<client, seen, rows>>

\* A cancelled task may be cancelled again at the awaits of record itself;
\* CancelledError is not an Exception, and the row is lost.
RecordCancelled(r) ==
    /\ req[r].pc = "record" /\ req[r].stream /\ ~client[r]
    /\ req' = [req EXCEPT ![r] = After(r, FALSE)]
    /\ UNCHANGED <<client, seen, rows, faults>>

\* The broker process dies.
Crash ==
    /\ faults < MaxFaults
    /\ req' = [r \in Requests |->
                 IF req[r].pc \in {"posted", "streaming", "yielding", "record"}
                   THEN Ended("crashed", FALSE, <<>>, FALSE) ELSE req[r]]
    /\ faults' = faults + 1
    /\ UNCHANGED <<client, seen, rows>>

Next ==
    \/ \E r \in Requests :
         \/ Reject(r) \/ \E stream \in BOOLEAN : Post(r, stream)
         \/ AnswerError(r) \/ Answer(r)
         \/ StreamError(r) \/ OpenStream(r) \/ Chunk(r) \/ Resume(r)
         \/ EndOfStream(r) \/ BreakOff(r) \/ HangUp(r)
         \/ Record(r) \/ RecordFails(r) \/ RecordCancelled(r)
    \/ Crash

Spec == Init /\ [][Next]_vars

----------------------------------------------------------------------------
(* Properties *)

Usages(body) == {i \in DOMAIN body : body[i].kind = "usage"}

\* What a whole stream reports: its last usage line, or nothing.
Reported(body) ==
    IF Usages(body) = {} THEN 0
    ELSE body[CHOOSE i \in Usages(body) : \A j \in Usages(body) : j <= i].total

\* The caller has been sent lines 1 .. i.
Sent(r, i) == seen[r] >= 3 * i

\* A stream relayed to its end is billed once and for the usage it reported
\* last, however httpx cut the frames into chunks.
CompleteStreamsAreBilled ==
    \A r \in Requests :
        (req[r].pc = "ended" /\ req[r].how = "complete" /\ req[r].metered) =>
            rows[r] = <<Reported(req[r].body)>>

\* A stream is never billed for a usage report its caller was not sent: the
\* chunk is yielded first and parsed after, so what is billed, also for a stream
\* that broke off or was abandoned, is what some of the lines sent report.
BillsWereSent ==
    \A r \in Requests :
        (req[r].pc = "ended" /\ req[r].stream /\ req[r].metered) =>
            \E n \in 0 .. Len(req[r].body) :
                Sent(r, n) /\ rows[r] = <<Reported(SubSeq(req[r].body, 1, n))>>

\* A generation that the upstream answered, or any stream that was tried, leaves
\* its row; the exceptions are a failed INSERT, a crash, and a stream whose
\* caller hung up before the row was written.
LostRowsAreExplained ==
    Cardinality({r \in Requests :
                   /\ req[r].pc = "ended" /\ ~req[r].metered
                   /\ req[r].how \in {"answer", "complete", "error"}
                   /\ req[r].how = "error" => req[r].stream
                   /\ req[r].stream => client[r]}) <= faults

\* routers/chat.py:74, "Runs even if the client disconnects mid-stream, so
\* partial generations still get billed": content that was sent before the
\* caller hung up is billed by the row that is written.
PartialGenerationsAreBilled ==
    \A r \in Requests :
        (req[r].pc = "ended" /\ req[r].how = "cancelled" /\ req[r].metered) =>
            \A i \in DOMAIN req[r].body :
                (req[r].body[i].kind = "content" /\ Sent(r, i)) => rows[r] # <<0>>

=============================================================================
