---------------------------- MODULE ReplyStream -----------------------------
(***************************************************************************)
(* A served reply on its way to the client: the writers it goes through,   *)
(* and the removal of a model's thinking (below).                          *)
(*                                                                         *)
(* The measuring writer (internal/proxy/measure.go, execute.go) notes the  *)
(* first token and takes out the usage event the client did not ask for;   *)
(* the capturing writer (capture.go) keeps the reply's beginning and its   *)
(* newest part.  A reply reaches them in pieces cut anywhere.              *)
(*                                                                         *)
(* A reply is a sequence of letters: "k" then "v" is a token's key and its *)
(* value, "u" the usage of a usage-only event, "o" anything else, "n" a    *)
(* newline; an event ends with two.                                        *)
(***************************************************************************)
EXTENDS Naturals, Sequences, SequencesExt, FiniteSets, FiniteSetsExt

CONSTANTS
    MaxEvents,          \* bound: events in a reply
    MaxPiece,           \* bound: letters in one write
    edgeLen,
    maxCaptureBytes, captureTailBytes

Events == {<<"k", "v", "n", "n">>, <<"o", "n", "n">>, <<"u", "n", "n">>}
\* A reply may break off inside its last event.
Replies == UNION {
    {FlattenSeq(es) : es \in [1..n -> Events]} \cup
    {FlattenSeq(es) \o <<"k">> : es \in [1..n -> Events]} \cup
    {FlattenSeq(es) \o <<"u", "n">> : es \in [1..n -> Events]} : n \in 0..MaxEvents}

VARIABLES
    reply, strip,       \* what the backend sends; whether usage was injected
    written,            \* letters of it written so far
    carry, edge, firstAt, stripped,     \* measureWriter
    client,             \* what left for the client
    buf, tail, overflow, tailCap,       \* captureWriter
    finished

writerVars == <<reply, strip, written, carry, edge, firstAt, stripped, client, buf, tail, overflow, tailCap, finished>>

WriterInit ==
    /\ reply \in Replies /\ strip \in BOOLEAN
    /\ written = 0 /\ carry = <<>> /\ edge = <<>> /\ firstAt = 0 /\ stripped = 0
    /\ client = <<>> /\ buf = <<>> /\ tail = <<>> /\ overflow = FALSE /\ tailCap = 0
    /\ finished = FALSE

Newest(s, n) == SubSeq(s, IF Len(s) > n THEN Len(s) - n + 1 ELSE 1, Len(s))
Oldest(s, n) == SubSeq(s, 1, IF Len(s) < n THEN Len(s) ELSE n)

\* hasTokenText: a key with a value after it.
HasTokenText(p) == \E i \in 1..Len(p) - 1 : p[i] = "k" /\ p[i + 1] = "v"
\* seesToken also looks at the seam with what was written before.
SeesPiece(p) == HasTokenText(p)
SeesToken(p) == HasTokenText(p) \/ HasTokenText(edge \o Oldest(p, edgeLen))
NewEdge(p) ==
    IF Len(p) >= edgeLen THEN Newest(p, edgeLen)
    ELSE LET keep == IF Len(edge) < edgeLen - Len(p) THEN Len(edge) ELSE edgeLen - Len(p) IN Newest(edge, keep) \o p

\* The complete events at the front of s, and what follows the last of them.
EventEnds(s) == {i \in 2..Len(s) : s[i] = "n" /\ s[i - 1] = "n"}
EventsIn[s \in Seq({"k", "v", "u", "o", "n"})] ==
    IF EventEnds(s) = {} THEN [events |-> <<>>, rest |-> s]
    ELSE LET end == CHOOSE i \in EventEnds(s) : \A j \in EventEnds(s) : i <= j
             more == EventsIn[SubSeq(s, end + 1, Len(s))]
         IN  [events |-> <<SubSeq(s, 1, end)>> \o more.events, rest |-> more.rest]
IsUsageOnlyEvent(ev) == ev[1] = "u"

\* captureWriter.Write and keepTail: the tail is trimmed only when its buffer,
\* twice its size or what the first large write left, is full.
KeepTail(t, cap, p) ==
    IF Len(p) >= captureTailBytes
    THEN [tail |-> Newest(p, captureTailBytes), cap |-> IF cap = 0 THEN captureTailBytes ELSE cap]
    ELSE LET room == IF cap = 0 THEN 2 * captureTailBytes ELSE cap
             kept == IF Len(t) + Len(p) > room THEN Newest(t, captureTailBytes - Len(p)) ELSE t
         IN  [tail |-> kept \o p, cap |-> room]
CaptureOne(c, p) ==
    LET room == maxCaptureBytes - Len(c.buf)
        kept == KeepTail(c.tail, c.cap, SubSeq(p, room + 1, Len(p)))
        more == KeepTail(c.tail, c.cap, p)
    IN  CASE c.overflow -> [c EXCEPT !.tail = more.tail, !.cap = more.cap]
          [] Len(p) <= room -> [c EXCEPT !.buf = @ \o p]
          [] OTHER -> [buf |-> c.buf \o Oldest(p, room), tail |-> kept.tail, cap |-> kept.cap, overflow |-> TRUE]
Captured(ps) == FoldLeft(CaptureOne, [buf |-> buf, tail |-> tail, cap |-> tailCap, overflow |-> overflow], ps)

\* The pieces ps leave for the client, through the capturing writer.
Leave(ps) ==
    /\ client' = client \o FlattenSeq(ps)
    /\ LET c == Captured(ps) IN
       buf' = c.buf /\ tail' = c.tail /\ tailCap' = c.cap /\ overflow' = c.overflow

\* measureWriter.Write of the next n letters.
WritePiece(n) ==
    /\ ~finished /\ written + n <= Len(reply)
    /\ LET p == SubSeq(reply, written + 1, written + n)
           split == EventsIn[carry \o p]
           kept == SelectSeq(split.events, LAMBDA ev : ~IsUsageOnlyEvent(ev))
           first == firstAt = 0 /\ SeesToken(p)
       IN  /\ firstAt' = IF first THEN written + n ELSE firstAt
           /\ edge' = IF firstAt = 0 /\ ~first THEN NewEdge(p) ELSE edge
           /\ IF strip
              THEN /\ carry' = split.rest
                   /\ stripped' = stripped + Len(split.events) - Len(kept)
                   /\ Leave(kept)
              ELSE UNCHANGED <<carry, stripped>> /\ Leave(<<p>>)
    /\ written' = written + n
    /\ UNCHANGED <<reply, strip, finished>>

\* finish writes an incomplete last event.
FinishReply ==
    /\ ~finished /\ written = Len(reply)
    /\ finished' = TRUE
    /\ carry' = <<>>
    /\ IF carry # <<>> THEN Leave(<<carry>>) ELSE UNCHANGED <<client, buf, tail, overflow, tailCap>>
    /\ UNCHANGED <<reply, strip, written, edge, firstAt, stripped>>

WriterNext == (\E n \in 1..MaxPiece : WritePiece(n)) \/ FinishReply
WriterSpec == WriterInit /\ [][WriterNext]_writerVars

\* What the client should get of the letters written so far.
WithoutUsage(s) ==
    LET split == EventsIn[s] IN
    FlattenSeq(SelectSeq(split.events, LAMBDA ev : ~IsUsageOnlyEvent(ev))) \o split.rest
SoFar == SubSeq(reply, 1, written)

\* Whatever the pieces, no letter is lost, doubled or reordered: the client
\* has, or is owed, the reply without its usage-only events.
NothingLost ==
    /\ client \o carry = IF strip THEN WithoutUsage(SoFar) ELSE SoFar
    /\ finished => carry = <<>>

\* The first token is noticed with the write that completes it, also when its
\* key and its value come in different pieces.
FirstTokenSeen ==
    /\ firstAt # 0 <=> HasTokenText(SoFar)
    /\ firstAt # 0 => ~HasTokenText(SubSeq(reply, 1, firstAt - MaxPiece))

\* The capture is the beginning of what the client got, and past the limit at
\* least the newest captureTailBytes of it, where a final usage event lies.
CaptureHolds ==
    /\ buf = Oldest(client, maxCaptureBytes)
    /\ overflow <=> Len(client) > maxCaptureBytes
    /\ overflow => LET past == Len(client) - maxCaptureBytes IN
           /\ tail = Newest(client, Len(tail))
           /\ Len(tail) <= past /\ Len(tail) <= 2 * captureTailBytes
           /\ Len(tail) >= (IF past < captureTailBytes THEN past ELSE captureTailBytes)

-----------------------------------------------------------------------------
(***************************************************************************)
(* Hiding a model's thinking from a client that turned it off              *)
(* (internal/proxy/thinking.go).                                           *)
(*                                                                         *)
(* A streamed reply is rewritten chunk by chunk, on fast paths that skip   *)
(* the decoding where they can; they run here beside the slow path alone.  *)
(* A chunk is what the rewriter tells apart in it:                         *)
(*   other: not a data chunk, the end marker, or undecodable;              *)
(*   bare, finish: a finish_reason, without and with a delta;              *)
(*   plain, both: content, alone and beside reasoning;                     *)
(*   text, long, open, close, closeAfter, openClose, openCloseAfter:       *)
(*   reasoning, by its length, the think tags in it and whether text       *)
(*   follows the closing tag;                                              *)
(*   textFinish: reasoning and a finish_reason in one chunk.               *)
(* An output is the chunk it came from and how it was written.             *)
(*                                                                         *)
(* In a whole reply rewriteThinkResponse moves the reasoning without its   *)
(* think blocks into an empty content, and picks the clean paragraphs out  *)
(* of a content that is mostly reasoning (looksLikeReasoning,              *)
(* extractCleanContent).  A text is a sequence of lines: "blank", "mark"   *)
(* (a line reasoningLineRe matches), and prose, "short" or "long".         *)
(* Reasoning is a sequence of segments: "block" for a closed think block,  *)
(* "open" for one that is never closed, "text" outside.  Texts that end in *)
(* a quoted answer are left out.                                           *)
(***************************************************************************)

CONSTANTS
    MaxStream,          \* bound: chunks in a stream
    maxThinkBufSize,    \* reasoning kept for salvage, in lengths of a "text"
    MaxLines, MaxSegments \* bounds: lines of a content, segments of a reasoning

Thought == {"text", "long", "textFinish"}
Reasoning == Thought \cup {"open", "close", "closeAfter", "openClose", "openCloseAfter"}
Chunks == {"other", "bare", "finish", "plain", "both"} \cup Reasoning
HasKey(c) == c \in Reasoning \cup {"both"}
HasClose(c) == c \in {"close", "closeAfter", "openClose", "openCloseAfter"}
HasOpen(c) == c \in {"open", "openClose", "openCloseAfter"}

VARIABLES
    sent,               \* the chunks the backend sent
    ended,              \* how the stream ended: "no", "eof", "aborted"
    fast, slow,         \* both rewriters: in a think block, buffer, output
    reopened            \* history: an opening tag came inside a think block

thinkVars == <<sent, ended, fast, slow, reopened>>

ThinkInit ==
    /\ sent = <<>> /\ ended = "no"
    /\ fast = [in |-> FALSE, buf |-> <<>>, out |-> <<>>]
    /\ slow = [in |-> FALSE, buf |-> <<>>, out |-> <<>>]
    /\ reopened = FALSE

Put(st, i, form) == [st EXCEPT !.out = Append(@, [chunk |-> i, form |-> form, of |-> <<>>])]
Size(c) == IF c = "long" THEN 2 ELSE 1
Held(is) == MapThenSumSet(LAMBDA i : Size(sent[i]), is)
\* What does not fit is dropped; a shorter chunk after it may fit again.
Buffer(st, i, c) ==
    IF Held(ToSet(st.buf)) + Size(c) <= maxThinkBufSize THEN [st EXCEPT !.buf = Append(@, i)] ELSE st

\* emitSalvage writes what extractCleanContent (below) picks out of what was
\* buffered, without a think tag in front.
Salvaged(st) == IF st.buf # <<>> /\ sent[Head(st.buf)] = "open" THEN Tail(st.buf) ELSE st.buf
Salvage(st, i) ==
    IF ~st.in \/ st.buf = <<>> THEN st
    ELSE [in |-> FALSE, buf |-> <<>>,
          out |-> IF Salvaged(st) = <<>> THEN st.out
                  ELSE Append(st.out, [chunk |-> i, form |-> "salvage", of |-> Salvaged(st)])]

\* The slow path: decode, decide by the tags.
Close(st, i, after) ==
    LET outside == [st EXCEPT !.in = FALSE, !.buf = <<>>] IN IF after THEN Put(outside, i, "after") ELSE outside
SlowPath(st, i, c) ==
    CASE c \in {"other", "plain"} -> Put(st, i, "as is")
      [] c \in {"bare", "finish"} -> Put(Salvage(st, i), i, "as is")
      [] c = "both" -> Put(st, i, "content")
      [] c = "open" -> [st EXCEPT !.in = TRUE, !.buf = <<>>]
      [] c \in {"openClose", "openCloseAfter"} -> Close(st, i, c = "openCloseAfter")
      [] c \in {"close", "closeAfter"} /\ st.in -> Close(st, i, c = "closeAfter")
      [] c \in Thought /\ st.in -> Buffer(st, i, c)
      [] OTHER -> Put(st, i, "content")

\* The fast paths: pass on, suppress, rename; anything else is slow.
SuppressesFinish(c) == c \in {"text", "long", "open", "finish"}
Suppresses(c) == c \in {"text", "long", "open"}
Renames(c) == c \in Thought \cup {"close", "closeAfter"}
FastPath(st, i, c) ==
    CASE ~st.in /\ ~HasKey(c) -> Put(st, i, "as is")
      [] st.in /\ ~HasClose(c) /\ Suppresses(c) -> Buffer(st, i, c)
      [] ~st.in /\ Renames(c) -> Put(st, i, "content")
      [] OTHER -> SlowPath(st, i, c)

Chunk(c) ==
    /\ Len(sent) < MaxStream /\ ended = "no"
    /\ sent' = Append(sent, c)
    /\ fast' = FastPath(fast, Len(sent) + 1, c)
    /\ slow' = SlowPath(slow, Len(sent) + 1, c)
    /\ reopened' = (reopened \/ (fast.in /\ c = "open"))
    /\ UNCHANGED ended

\* The stream ends: at its end, or because the backend broke off, a line was
\* longer than maxSSELine or the client was gone, which abort the response.
StreamEnds(how) ==
    /\ ended = "no"
    /\ ended' = how
    /\ UNCHANGED <<sent, fast, slow, reopened>>

ThinkNext == (\E c \in Chunks : Chunk(c)) \/ (\E how \in {"eof", "aborted"} : StreamEnds(how))
ThinkSpec == ThinkInit /\ [][ThinkNext]_thinkVars

(***************************************************************************)
(* What the client should see.                                             *)
(***************************************************************************)
Finishes(c) == c \in {"bare", "finish"}
\* Chunk i lies in a think block that opened before it and was neither closed
\* nor ended by a finish_reason after some reasoning.
Inside(i) ==
    \E j \in 1..i - 1 :
        /\ sent[j] = "open"
        /\ \A k \in j + 1..i - 1 :
              /\ ~HasClose(sent[k])
              /\ ~(Finishes(sent[k]) /\ \E m \in j + 1..k - 1 : sent[m] \in Thought)
Forms(i) == {x.form : x \in {y \in ToSet(fast.out) : y.chunk = i}}
\* A second opening tag empties the slow path's buffer and not the fast one's,
\* so that what a finish_reason hands over depends on the path.
Disputed == reopened /\ \E i \in DOMAIN sent : Finishes(sent[i])

\* The fast paths write what the slow path writes, and leave the rewriter in
\* the same state.  After a second opening tag inside a block that goes for
\* what is written before a finish_reason, and the buffers differ.
FastIsSlow ==
    /\ ~reopened => fast = slow
    /\ ~Disputed => fast.in = slow.in /\ fast.out = slow.out

\* Everything outside a think block reaches the client, in order and once;
\* nothing inside one does, unless a finish_reason in a chunk without reasoning
\* comes before its end, which hands over for salvage all that was buffered and
\* drops only what did not fit.  Nothing is said of reasoning and a
\* finish_reason in one chunk inside a block: the code buffers that chunk and
\* salvages nothing, though its comment promises the salvage there too.
AnswerKept ==
    Disputed \/
    /\ \A i, j \in DOMAIN fast.out : i < j => fast.out[i].chunk <= fast.out[j].chunk
    /\ \A i \in DOMAIN sent :
        /\ sent[i] \in {"other", "plain"} => Forms(i) = {"as is"}
        /\ sent[i] = "both" => Forms(i) = {"content"}
        /\ sent[i] \in {"text", "long"} => Forms(i) = IF Inside(i) THEN {} ELSE {"content"}
        /\ sent[i] = "textFinish" /\ ~Inside(i) => Forms(i) = {"content"}
        /\ sent[i] \in {"closeAfter", "openCloseAfter"} /\ (Inside(i) \/ HasOpen(sent[i])) => Forms(i) = {"after"}
        /\ Finishes(sent[i]) => "as is" \in Forms(i)
        /\ Finishes(sent[i]) /\ Inside(i) =>
               \A j \in 1..i - 1 :
                   sent[j] \in Thought /\ Inside(j) /\ (\A k \in j + 1..i - 1 : ~HasClose(sent[k]) /\ sent[k] # "open") =>
                       \E x \in ToSet(fast.out) :
                           /\ x.chunk = i /\ x.form = "salvage"
                           /\ \/ j \in ToSet(x.of)
                              \/ Held({k \in ToSet(x.of) : k < j}) + Size(sent[j]) > maxThinkBufSize

------------------------------------------------------------------------------
(* A whole reply. *)

VARIABLES content, reasoning, calls, answered   \* the engine's message; what the client gets

cleanVars == <<content, reasoning, calls, answered>>

Width == [blank |-> 0, mark |-> 60, short |-> 30, long |-> 150]
minText == 300
minProse == 40
enoughProse == 200

LineSeqs == UNION {[1..n -> {"blank", "mark", "short", "long"}] : n \in 0..MaxLines}
Segments == UNION {[1..n -> {"block", "open", "text"}] : n \in 0..MaxSegments}
NoReasoning == <<"absent">>
NoReply == [content |-> {}, how |-> "none"]

Wide(is, lines) == MapThenSumSet(LAMBDA i : Width[lines[i]], is)
Marks(lines) == {i \in DOMAIN lines : lines[i] = "mark"}
LooksLikeReasoning(lines) ==
    /\ Wide(DOMAIN lines, lines) >= minText
    /\ Len(lines) > 3 /\ 10 * Cardinality(Marks(lines)) > 3 * Len(lines)

\* The runs of prose lines, the last one first, each a set of line numbers.
RunsBackwards(lines) ==
    LET Step(acc, i) ==
            IF lines[i] \in {"short", "long"} THEN [acc EXCEPT !.cur = @ \cup {i}]
            ELSE IF acc.cur = {} THEN acc ELSE [runs |-> Append(acc.runs, acc.cur), cur |-> {}]
        end == FoldRight(LAMBDA i, acc : Step(acc, i), [i \in DOMAIN lines |-> i], [runs |-> <<>>, cur |-> {}])
    IN  IF end.cur = {} THEN end.runs ELSE Append(end.runs, end.cur)

\* Joined by spaces; the widths are far enough apart for those not to matter.
CollectShort(best, run, lines) ==
    IF MapThenSumSet(LAMBDA r : Wide(r, lines), best) > enoughProse THEN best ELSE best \cup {run}
Collect(best, run, lines) ==
    IF MapThenSumSet(LAMBDA r : Wide(r, lines), best) > enoughProse \/ Wide(run, lines) < minProse
    THEN best ELSE best \cup {run}

\* extractCleanContent: the line numbers kept, all of them when no run is
\* prose enough.
ExtractCleanContent(lines) ==
    LET best == FoldLeft(LAMBDA acc, run : Collect(acc, run, lines), {}, RunsBackwards(lines))
    IN  IF best = {} THEN DOMAIN lines ELSE UNION best

\* thinkBlockRe: the segments left of a reasoning once closed blocks are out.
Outside(segs) == {i \in DOMAIN segs : segs[i] # "block"}

RewriteThinkResponse ==
    /\ answered = NoReply
    /\ answered' =
         CASE content # <<>> ->
                [how |-> "content",
                 content |-> IF LooksLikeReasoning(content) THEN ExtractCleanContent(content) ELSE DOMAIN content]
           [] content = <<>> /\ (reasoning = NoReasoning \/ calls \/ reasoning = <<>>) ->
                [how |-> "empty", content |-> {}]
           [] OTHER ->
                [how |-> "reasoning",
                 content |-> IF Outside(reasoning) = {} THEN DOMAIN reasoning ELSE Outside(reasoning)]
    /\ UNCHANGED <<content, reasoning, calls>>

CleanInit ==
    /\ calls \in BOOLEAN /\ answered = NoReply
    /\ \/ content \in LineSeqs /\ reasoning \in {NoReasoning, <<"text">>}
       \/ content = <<>> /\ reasoning \in Segments
CleanNext == RewriteThinkResponse
CleanSpec == CleanInit /\ [][CleanNext]_cleanVars

\* The maximal stretches of prose lines.
IsRun(lines, r) ==
    /\ \A i \in r : lines[i] \in {"short", "long"}
    /\ \A j \in DOMAIN lines \ r : (j - 1 \in r \/ j + 1 \in r) => lines[j] \notin {"short", "long"}
ProseRuns(lines) ==
    {r \in {a..b : a, b \in DOMAIN lines} \ {{}} : IsRun(lines, r) /\ Wide(r, lines) >= minProse}

\* A client that turned thinking off gets text whenever the engine wrote any,
\* unless a tool call is the answer, and a message that is an answer already is
\* left alone.
NeverEmptied ==
    answered # NoReply =>
      /\ content # <<>> => answered.content # {}
      /\ content = <<>> /\ ~calls /\ reasoning \notin {NoReasoning, <<>>} => answered.content # {}
      /\ content # <<>> /\ Marks(content) = {} => answered.content = DOMAIN content

\* The text picked out of a reasoning-like content is whole paragraphs of
\* prose, the last of them included, and no more of the earlier ones than the
\* collected length asks for.
CleanParagraphs ==
    answered.how = "content" /\ LooksLikeReasoning(content) =>
      LET runs == ProseRuns(content)
          kept == {r \in runs : r \subseteq answered.content}
          After(r) == {q \in runs : Max(q) > Max(r)}
      IN  IF runs = {} THEN answered.content = DOMAIN content
          ELSE /\ answered.content = UNION kept
               /\ \A r \in runs : r \in kept <=>
                    MapThenSumSet(LAMBDA q : Wide(q, content), After(r)) <= enoughProse

CleanSafe == NeverEmptied /\ CleanParagraphs
=============================================================================
