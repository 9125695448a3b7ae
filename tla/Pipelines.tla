------------------------------ MODULE Pipelines ------------------------------
(***************************************************************************)
(* Localization pipelines (internal/pipeline and internal/proxy/           *)
(* pipeline.go): a virtual model "<pipeline>-<locale>" whose request runs  *)
(* the pipeline's steps one after the other, each a chat completion posted *)
(* to this node's own API.  A step's model name goes through the same      *)
(* handler as a client's, so a step naming a virtual model would start a   *)
(* pipeline inside a pipeline.                                             *)
(* A name is [pipe, suffix, published]: the pipeline prefix it has, NoPipe *)
(* for none, the lower-cased suffix, and whether it is spelled as listed.  *)
(***************************************************************************)
EXTENDS Naturals, Sequences, SequencesExt

CONSTANTS Pipe,         \* the pipelines
          NoPipe,
          Suffix,       \* the suffixes names may carry
          LocaleOf,     \* the suffixes that are locales
          LocaleAlias,  \* locale aliases: the locale each names, which may not be configured
          MaxDepth,     \* nested pipelines followed
          StepSeqs      \* the step lists a configuration may have

VARIABLES pipeSteps,  \* the loaded pipelines' steps, as [model, json]
          frames,     \* the pipelines running, the innermost last
          pipeReply,  \* the answer of the call that just ended
          open        \* pipeline requests logged as started and not yet ended

pipelineVars == <<pipeSteps, frames, pipeReply, open>>

NoPipeReply == [code |-> 0, text |-> 0]

\* A locale as it is, else what its alias names.  Case does not matter.
ResolveLocale(s) ==
  IF s \in LocaleOf THEN {s}
  ELSE IF s \in DOMAIN LocaleAlias THEN {LocaleAlias[s]} \cap LocaleOf
  ELSE {}

ResolvePipeline(m) == m.pipe # NoPipe /\ ResolveLocale(m.suffix) # {}

\* A mutant: only the full locales are listed.
VirtualLocalesOnly(p) == [pipe : {p}, suffix : LocaleOf, published : {TRUE}]

\* The names a pipeline lists: locales in lower case and aliases as written.
VirtualModels(p) == [pipe : {p}, suffix : LocaleOf \cup DOMAIN LocaleAlias, published : {TRUE}]

\* A configuration is refused when a step's model is a listed name.
AcceptedSteps(s) ==
  \A p \in Pipe : \A i \in DOMAIN s[p] : \A q \in Pipe : s[p][i].model \notin VirtualModels(q)

PipelineInit ==
  /\ pipeSteps \in {s \in [Pipe -> StepSeqs] : AcceptedSteps(s)}
  /\ frames = <<>> /\ pipeReply = NoPipeReply /\ open = 0

Frame(p) == [pipe |-> p, at |-> 1, content |-> 0, qc |-> FALSE]
Top == Last(frames)
Calling == frames # <<>> /\ pipeReply = NoPipeReply /\ Top.at <= Len(pipeSteps[Top.pipe])
StepModel == pipeSteps[Top.pipe][Top.at].model

\* handlePipeline: the request is logged, and its pipeline starts.
StartPipeline(m) ==
  /\ ResolvePipeline(m)
  /\ frames' = Append(frames, Frame(m.pipe))
  /\ open' = open + 1 /\ pipeReply' = NoPipeReply
  /\ UNCHANGED pipeSteps

ClientRequest(m) ==
  /\ frames = <<>>
  /\ StartPipeline(m)

\* A step that reaches a pipeline of this node.
StepIsPipeline == Calling /\ Len(frames) < MaxDepth /\ StartPipeline(StepModel)

\* A prefix with no such locale is refused; any other name is a model, which
\* answers a text, nothing, a failure, or not at all (code 0 is no answer).
StepIsModel ==
  /\ Calling /\ ~ResolvePipeline(StepModel)
  /\ \E r \in [code : {200, 0, 400, 404, 429, 503, 500}, text : {0, Top.at}] :
       /\ r.code # 200 => r.text = 0
       /\ StepModel.pipe # NoPipe => r.code = 400
       /\ pipeReply' = [r EXCEPT !.code = IF @ = 0 THEN 502 ELSE @]
  /\ UNCHANGED <<pipeSteps, frames, open>>

\* callModel's result: only a 200 with content continues the pipeline.  A JSON
\* step's output is the quality check, and never the content.
StepEnds ==
  /\ frames # <<>> /\ pipeReply.code = 200 /\ pipeReply.text # 0
  /\ LET s == pipeSteps[Top.pipe][Top.at]
         next == [Top EXCEPT !.at = @ + 1, !.content = IF s.json THEN @ ELSE pipeReply.text, !.qc = @ \/ s.json]
     IN frames' = Append(Front(frames), next)
  /\ pipeReply' = NoPipeReply
  /\ UNCHANGED <<pipeSteps, open>>

\* A failed step fails the pipeline: no capacity and unavailable are passed on
\* as they are, everything else is a bad gateway.
PipelineFails ==
  /\ frames # <<>> /\ pipeReply # NoPipeReply /\ (pipeReply.code # 200 \/ pipeReply.text = 0)
  /\ frames' = Front(frames)
  /\ pipeReply' = [code |-> IF pipeReply.code \in {429, 503} THEN pipeReply.code ELSE 502, text |-> 0]
  /\ open' = open - 1
  /\ UNCHANGED pipeSteps

\* After the last step the content is answered, whatever the steps were.
PipelineEnds ==
  /\ frames # <<>> /\ pipeReply = NoPipeReply /\ Top.at > Len(pipeSteps[Top.pipe])
  /\ frames' = Front(frames)
  /\ pipeReply' = [code |-> 200, text |-> Top.content]
  /\ open' = open - 1
  /\ UNCHANGED pipeSteps

PipelineNext ==
  \/ \E m \in [pipe : Pipe, suffix : Suffix, published : BOOLEAN] : ClientRequest(m)
  \/ StepIsPipeline \/ StepIsModel \/ StepEnds \/ PipelineFails \/ PipelineEnds

-----------------------------------------------------------------------------
\* A pipeline never runs inside a pipeline, the infinite recursion that
\* NewPipelineResolver rules out, as long as the steps spell names as they are
\* listed; and every request logged as started is logged as ended exactly once.
StepsBottomOut ==
  /\ Len(frames) > 1 => \E p \in Pipe : \E i \in DOMAIN pipeSteps[p] : ~pipeSteps[p][i].model.published
  /\ open = Len(frames)

\* The content of an answered pipeline is the output of its last step that is
\* not a quality check: nothing an earlier step or a quality check said.
ContentOfLastStep ==
  \A f \in Range(frames) :
    LET texts == {i \in 1..(f.at - 1) : ~pipeSteps[f.pipe][i].json}
    IN texts = {} \/ frames # <<f>> \/ f.content = CHOOSE i \in texts : \A j \in texts : j <= i

PipelinesSafe == StepsBottomOut /\ ContentOfLastStep
=============================================================================
