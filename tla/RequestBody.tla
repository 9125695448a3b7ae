----------------------------- MODULE RequestBody -----------------------------
(***************************************************************************)
(* What the proxy reads from, and writes into, the JSON body of one        *)
(* inference request: openAIDialect.Decode with its fast path              *)
(* (extractModelFast), rewriteModel and its in-place splice                *)
(* (modelValueSpan), injectIncludeUsage, hasImageParts, parsePrefer, and   *)
(* handleInference, which strings them together.                           *)
(*                                                                         *)
(* A body is a sequence of top-level fields, each a key, how the client    *)
(* spelled it and a value.  "plain" is the key's own bytes, "escaped" uses *)
(* a \u escape (the decoded key is the same), "cased" differs in case only *)
(* (encoding/json matches it to a struct field, a map keeps it apart).     *)
(* Values: a string ("m1", or the name of a key), "7" for any other        *)
(* scalar, "nested" and "image" for arrays, "null".  A client writes       *)
(* messages, stream and stream_options at most once; model, think and task *)
(* may be repeated.                                                        *)
(***************************************************************************)
EXTENDS Integers, Sequences, FiniteSets, SequencesExt

CONSTANTS
    Spellings,   \* the spellings clients use, a subset of {"plain", "escaped", "cased"}
    MaxFields,   \* the longest body
    MaxNames,    \* the longest prefer list
    maxPrefer

VARIABLES body, forwarded, pin, names, answer

bodyVars == <<body, forwarded, pin, names, answer>>

\* The alias table of the node: one live alias, one whose target nobody
\* serves; every other name stands for itself.
Alias == "al"
DeadAlias == "dead"
RealName == "m9"

ValuesOf(k) ==
    CASE k = "model" -> {"m1", "al", "dead", "7"}
      [] k = "think" -> {"true", "7"}
      [] k = "task" -> {"t", "7"}
      [] k = "messages" -> {"nested", "image"}
      [] k = "stream" -> {"true", "false"}
      [] k = "options" -> {"usage", "nousage", "null"}
      [] k = "other" -> {"model", "think", "nested"}
BodyKeys == {"model", "think", "task", "messages", "stream", "options", "other"}
OnlyOnce == {"messages", "stream", "options"}

Fields == UNION {{[key |-> k, spell |-> s, val |-> v] : s \in Spellings \ {"cased"}, v \in ValuesOf(k)}
                 : k \in {"model", "think", "task"}}
          \cup {[key |-> x[1], spell |-> "cased", val |-> x[2]] :
                  x \in {<<"model", "m1">>, <<"model", "al">>, <<"think", "true">>, <<"task", "t">>}}
          \cup UNION {{[key |-> k, spell |-> "plain", val |-> v] : v \in ValuesOf(k)}
                      : k \in BodyKeys \ {"model", "think", "task"}}
Bodies == {b \in UNION {[1..n -> Fields] : n \in 0..MaxFields} :
             \A i, j \in DOMAIN b : b[i].key = b[j].key /\ b[i].key \in OnlyOnce => i = j}

IsString(v) == v \notin {"7", "nested", "image", "usage", "nousage", "null", "true", "false"}
Nested(v) == v \in {"nested", "image", "usage", "nousage"}

(***************************************************************************)
(* Readers of a body                                                       *)
(***************************************************************************)

\* bytes.Count of a quoted key: as a key in its own bytes, or as a string value.
Quoted(b, k) == {i \in DOMAIN b : (b[i].key = k /\ b[i].spell = "plain") \/ b[i].val = k}
Escapes(b) == \E i \in DOMAIN b : b[i].spell = "escaped"

\* What a map decode, or an engine, reads: exact keys, the last value wins.
ExactKeys(b) == {b[i].key : i \in {j \in DOMAIN b : b[j].spell # "cased"}}
LastOf(b, S) == b[CHOOSE i \in S : \A j \in S : j <= i].val
Exactly(b) == [k \in ExactKeys(b) |-> LastOf(b, {i \in DOMAIN b : b[i].key = k /\ b[i].spell # "cased"})]

\* A struct field decoded by encoding/json: keys match whatever their case,
\* a value of another type leaves the field as it was, the last one that fits wins.
StructField(b, k, fits, zero) ==
    LET S == {i \in DOMAIN b : b[i].key = k /\ b[i].val \in fits}
    IN IF S = {} THEN zero ELSE LastOf(b, S)
Strings == {"m1", "al", "dead", "m9", "t"}

NoModel == "no fast answer"

\* Where an early-stopping scan ends: at the model key, or at the first nested
\* value.  It has an answer when that is a model key with a string value.
Stops(b) == {i \in DOMAIN b : (b[i].key = "model" /\ b[i].spell # "cased") \/ Nested(b[i].val)}
FirstStop(b) == CHOOSE i \in Stops(b) : \A j \in Stops(b) : i <= j
StopsAtModel(b) == Stops(b) # {} /\ IsString(b[FirstStop(b)].val)

\* A scan that takes the first model key whatever else the body holds.
ExtractModelFirst(b) ==
    IF Quoted(b, "think") \cup Quoted(b, "task") = {} /\ ~Escapes(b) /\ StopsAtModel(b)
    THEN b[FirstStop(b)].val ELSE NoModel

ExtractModelFast(b) ==
    IF /\ Quoted(b, "think") \cup Quoted(b, "task") = {} /\ ~Escapes(b)
       /\ Cardinality(Quoted(b, "model")) = 1 /\ StopsAtModel(b)
    THEN b[FirstStop(b)].val ELSE NoModel

\* The index of the model value a splice may overwrite, 0 when it cannot be sure.
ModelValueSpan(b) ==
    IF ~Escapes(b) /\ Cardinality(Quoted(b, "model")) = 1 /\ StopsAtModel(b)
    THEN FirstStop(b) ELSE 0

\* A body re-encoded from a map of its fields.
Encoded(f) == LET ks == SetToSeq(DOMAIN f)
              IN [i \in DOMAIN ks |-> [key |-> ks[i], spell |-> "plain", val |-> f[ks[i]]]]
\* A map keeps a key of another case as a key of its own, sorted before it.
Cased(b) == SelectSeq(b, LAMBDA x : x.spell = "cased")
Without(f, k) == [x \in DOMAIN f \ {k} |-> f[x]]
With(f, k, v) == [x \in DOMAIN f \cup {k} |-> IF x = k THEN v ELSE f[x]]

DecodedFields(b) ==
    IF ExtractModelFast(b) # NoModel
    THEN [model |-> ExtractModelFast(b), think |-> "unset", task |-> ""]
    ELSE [model |-> StructField(b, "model", Strings, ""),
          think |-> StructField(b, "think", {"true", "false"}, "unset"),
          task |-> StructField(b, "task", Strings, "")]

Decode(b) ==
    [fields |-> DecodedFields(b),
     body |-> IF DecodedFields(b).task # "" /\ "task" \in ExactKeys(b)
              THEN Cased(b) \o Encoded(Without(Exactly(b), "task")) ELSE b]

RewriteModel(b, m) ==
    IF ModelValueSpan(b) # 0 THEN [b EXCEPT ![ModelValueSpan(b)].val = m]
    ELSE Cased(b) \o Encoded(With(Exactly(b), "model", m))

\* Set stream_options.include_usage on a streamed request that did not ask.
InjectIncludeUsage(b) ==
    LET opt == IF "options" \in ExactKeys(b) THEN Exactly(b)["options"] ELSE "absent"
        streams == Quoted(b, "stream") # {} /\ StructField(b, "stream", {"true", "false"}, "false") = "true"
    IN CASE ~streams \/ opt = "usage" -> [body |-> b, injected |-> FALSE]
         [] streams /\ opt = "nousage" ->
              [body |-> Cased(b) \o Encoded(With(Exactly(b), "options", "usage")), injected |-> TRUE]
         [] OTHER -> [body |-> <<[key |-> "options", spell |-> "plain", val |-> "usage"]>> \o b,
                      injected |-> TRUE]

HasImageParts(b) == \E i \in DOMAIN b : b[i].key = "messages" /\ b[i].val = "image"

(***************************************************************************)
(* The pin and the preference list                                         *)
(***************************************************************************)

\* sanitizeHost: blank and "mesh" mean no pin, a malformed name is refused.
SanitizeHost(s) == [host |-> IF s \in {"", "mesh", "bad!"} THEN "" ELSE s, ok |-> s # "bad!"]

\* parsePrefer reads one name after another and stops at the first it refuses.
ParsePrefer(ns) ==
    FoldLeft(LAMBDA acc, n :
               IF ~acc.ok THEN acc
               ELSE IF ~SanitizeHost(n).ok THEN [ok |-> FALSE, list |-> <<>>]
               ELSE IF SanitizeHost(n).host = "" THEN acc
               ELSE IF Len(acc.list) = maxPrefer THEN [ok |-> FALSE, list |-> <<>>]
               ELSE [ok |-> TRUE, list |-> Append(acc.list, n)],
             [ok |-> TRUE, list |-> <<>>], ns)

(***************************************************************************)
(* handleInference, up to the dispatch                                     *)
(***************************************************************************)

NoAnswer == [status |-> 0]
Refuse(code) == [status |-> code]

\* Resolver: a live alias gives its target, one nobody serves a 503.
Resolved(m) == IF m = Alias THEN RealName ELSE m

HandleInference ==
    /\ answer = NoAnswer
    /\ LET d == Decode(body)
           m == d.fields.model
           real == IF forwarded THEN m ELSE Resolved(m)
           out == IF real # m THEN RewriteModel(d.body, real) ELSE d.body
           list == ParsePrefer(names)
       IN answer' =
            CASE m = "" -> Refuse(400)
              [] m = DeadAlias /\ ~forwarded -> Refuse(503)
              [] ~forwarded /\ ~SanitizeHost(pin).ok -> Refuse(400)
              [] ~forwarded /\ ~list.ok -> Refuse(400)
              [] OTHER ->
                   [status |-> 200, model |-> real, fields |-> d.fields,
                    host |-> IF forwarded THEN "" ELSE SanitizeHost(pin).host,
                    prefer |-> IF forwarded \/ SanitizeHost(pin).host # "" THEN <<>> ELSE list.list,
                    images |-> ~forwarded /\ HasImageParts(out),
                    peerBody |-> out, local |-> InjectIncludeUsage(out)]
    /\ UNCHANGED <<body, forwarded, pin, names>>

BodyInit ==
    /\ answer = NoAnswer
    /\ \/ body \in Bodies /\ forwarded \in BOOLEAN /\ pin = "" /\ names = <<>>
       \/ /\ body = <<[key |-> "model", spell |-> "plain", val |-> "m1"]>> /\ forwarded \in BOOLEAN
          /\ pin \in {"", "mesh", "gb1", "bad!"}
          /\ names \in UNION {[1..n -> {"", "mesh", "gb1", "gb2", "bad!"}] : n \in 0..MaxNames}

BodyNext == HandleInference
BodySpec == BodyInit /\ [][BodyNext]_bodyVars

-----------------------------------------------------------------------------
(***************************************************************************)
(* Properties                                                              *)
(***************************************************************************)

Served == answer.status = 200

\* The early-stopping scan of extractModelFast answers what a reader of exact
\* keys would: the last model, and no think or task it stopped too early to see.
\* That is also the full decode's answer unless a key is spelled in another
\* case, which encoding/json takes for the field and the scan does not.
FastAgrees ==
    ExtractModelFast(body) # NoModel =>
      /\ {"think", "task"} \cap ExactKeys(body) = {}
      /\ ExtractModelFast(body) = Exactly(body)["model"]
      /\ Cased(body) = <<>> =>
           [model |-> ExtractModelFast(body), think |-> "unset", task |-> ""] =
             [model |-> StructField(body, "model", Strings, ""),
              think |-> StructField(body, "think", {"true", "false"}, "unset"),
              task |-> StructField(body, "task", Strings, "")]

\* The body an engine or a peer receives says what the client's said, as a
\* reader that takes the last of repeated keys reads it: only the model is the
\* resolved one, a task tag is gone, and on the local attempt usage is asked
\* for.  rewriteModel's splice and its re-encode agree.  A model spelled in
\* another case only is routed by and stays; when it resolves, rewriteModel adds
\* the exact key beside it.
BodyKept ==
    Served =>
      LET sent == Exactly(answer.peerBody)
          same == Exactly(body)
          taken == IF answer.fields.task # "" THEN {"task"} ELSE {}
          here == Exactly(answer.local.body)
          resolved == IF answer.model # answer.fields.model THEN {"model"} ELSE {}
      IN /\ DOMAIN sent = (DOMAIN same \ taken) \cup resolved
         /\ \A k \in DOMAIN sent \ resolved : sent[k] = same[k]
         /\ \A k \in resolved : sent[k] = answer.model
         /\ "model" \in DOMAIN sent /\ Cased(body) = <<>> =>
              sent["model"] = answer.model \/ ~IsString(same["model"])
         /\ \A k \in DOMAIN here \ {"options"} : here[k] = sent[k]
         /\ DOMAIN here \ {"options"} = DOMAIN sent \ {"options"}

\* A client that asked for usage gets it and one that did not has it stripped:
\* the strip flag is set exactly when the client's own body did not ask, and a
\* streamed request that left the option out always asks the engine.
UsageStripped ==
    Served =>
      /\ answer.local.injected => "options" \notin ExactKeys(body) \/ Exactly(body)["options"] # "usage"
      /\ ~answer.local.injected => answer.local.body = answer.peerBody
      /\ ("stream" \in ExactKeys(body) /\ Exactly(body)["stream"] = "true"
          /\ ("options" \notin ExactKeys(body) \/ Exactly(body)["options"] = "nousage"))
            => "options" \in ExactKeys(answer.local.body) /\ Exactly(answer.local.body)["options"] = "usage"

\* The ?prefer= list a request is routed by holds exactly the names given, in
\* order, without blanks, and only when no pin says more; a malformed name or
\* one name too many is refused, never cut off.
PreferWhole ==
    LET given == SelectSeq(names, LAMBDA n : n \notin {"", "mesh"})
        fine == "bad!" \notin {names[i] : i \in DOMAIN names} /\ Len(given) <= maxPrefer
    IN /\ Served /\ ~forwarded => fine /\ answer.prefer = (IF answer.host = "" THEN given ELSE <<>>)
       /\ Served /\ forwarded => answer.prefer = <<>> /\ answer.host = ""
       /\ answer.status = 400 /\ ~forwarded /\ Len(body) = 1 /\ body[1].val = "m1" =>
            ~fine \/ pin = "bad!" \/ body[1].key # "model"

BodySafe == FastAgrees /\ BodyKept /\ UsageStripped /\ PreferWhole

=============================================================================
