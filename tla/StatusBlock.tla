----------------------------- MODULE StatusBlock -----------------------------
(***************************************************************************)
(* What the engine takes an agent's answer for: the status block of a      *)
(* turn, from the structured output or from the one fence in the text; the *)
(* JSON of a planning pass; the report the Manager reads; and the kind of  *)
(* message the turn is recorded as.  Pure.  An answer is                   *)
(* [structured, text]: structured output or NoOutput, and the text as a    *)
(* sequence of words and fences.  An optional field is a sequence of at    *)
(* most one.                                                               *)
(***************************************************************************)
EXTENDS Integers, Sequences, FiniteSets

NoOutput == [json |-> "none"]
Failure  == [json |-> "failure"]

\* JSON read from a fence, or handed over: garbage, a value that is no object, or
\* an object with the fields.
Garbage        == [json |-> "garbage"]
Scalar         == [json |-> "scalar"]
Object(fields) == [json |-> "object", fields |-> fields]

Words             == [is |-> "words"]
Fence(kind, json) == [is |-> kind, json |-> json]      \* kind "status" or "plan"

STAGES      == {"priprava", "navrh", "programovanie", "verifikacia", "done"}
BLOCK_KINDS == {"question", "answer", "gate_report", "verdict", "done", "blocked",
                "consultation", "framework_issue"}
_AWAITING   == {"manazer", "none"}

-----------------------------------------------------------------------------
(* Shapes *)

\* ConsultationBlock: decisions with distinct keys, of two options at least.
ConsultationFits(decisions) ==
  /\ decisions # <<>>
  /\ \A i \in DOMAIN decisions : decisions[i].options >= 2
  /\ \A i, j \in DOMAIN decisions : decisions[i].key = decisions[j].key => i = j

\* TaskPlan, and the skeleton of it: epics of features; a skeleton's features are
\* counted, a plan's hold tasks.
PlanFits(epics) ==
  /\ epics # <<>>
  /\ \A e \in DOMAIN epics : epics[e] # <<>> /\ \A f \in DOMAIN epics[e] : epics[e][f] > 0
parse_task_plan_skeleton(epics) == epics # <<>> /\ \A e \in DOMAIN epics : epics[e] # <<>>

\* PipelineStatusBlock: what an object must have to be a block at all.
Fits(b) ==
  /\ b.consultation # <<>> => ConsultationFits(b.consultation[1])
  /\ b.plan # <<>> => PlanFits(b.plan[1])

-----------------------------------------------------------------------------
(* Reading *)

\* _validate_block
_validate_block(b) ==
  IF /\ Fits(b)
     /\ b.stage \in STAGES /\ b.kind \in BLOCK_KINDS /\ b.awaiting \in _AWAITING
     /\ b.kind \in {"question", "blocked", "framework_issue"} => b.question
     /\ b.stage = "navrh" /\ b.kind = "gate_report" => b.plan # <<>>
     /\ b.kind = "consultation" =>
          /\ b.consultation # <<>>
          /\ \A i \in DOMAIN b.consultation[1] : b.consultation[1][i].recommended = 1
  THEN b ELSE Failure

\* parse_structured_output
parse_structured_output(obj) ==
  IF obj.json = "object" THEN _validate_block(obj.fields) ELSE Failure

\* The JSON between the fences of a kind: there must be exactly one.
OnlyFence(text, kind) ==
  LET fences == SelectSeq(text, LAMBDA piece : piece.is = kind)
  IN  IF Len(fences) = 1 THEN fences[1].json ELSE Garbage

\* parse_status_block, extract_task_plan_json
parse_status_block(text) == parse_structured_output(OnlyFence(text, "status"))
extract_task_plan_json(text) ==
  LET json == OnlyFence(text, "plan") IN IF json.json = "object" THEN json ELSE Failure

\* invoke_agent: a structured output that does not validate gives way to the fence.
Block(answer) ==
  LET structured == parse_structured_output(answer.structured)
  IN  IF answer.structured # NoOutput /\ structured # Failure THEN structured
      ELSE parse_status_block(answer.text)

\* _plan_pass_once: a structured output is the answer, whatever it is.
Skeleton(answer) ==
  LET obj == IF answer.structured # NoOutput THEN answer.structured
             ELSE extract_task_plan_json(answer.text)
  IN  IF obj.json = "object" /\ parse_task_plan_skeleton(obj.fields.plan) THEN obj.fields.plan
      ELSE Failure

\* extract_report_body: the text without its fences.
extract_report_body(text) == SelectSeq(text, LAMBDA piece : piece.is = "words")

\* invoke_agent: the kinds of a message are fewer than those of a block.
MessageKind(b) ==
  IF b.kind \in {"question", "blocked"} THEN "question"
  ELSE IF b.kind \in {"answer", "gate_report", "verdict", "consultation"} THEN b.kind
  ELSE "gate_report"

-----------------------------------------------------------------------------
(* Claims *)

\* Of two blocks neither is believed, and the text cannot overrule a structured
\* output: the same answer with one more fence is the same block or none.
MoreTextNeverMisleads(answer, piece) ==
  LET longer == [answer EXCEPT !.text = Append(@, piece)] IN
  Block(answer) # Failure => Block(longer) \in {Block(answer), Failure}

\* A Manager who is asked can answer: the question has a text, each decision its
\* own key and one proposal.
AskedClearly(answer) ==
  LET b == Block(answer) IN
  b # Failure =>
    /\ MessageKind(b) = "question" => b.question
    /\ MessageKind(b) = "consultation" =>
         LET decisions == b.consultation[1] IN
         \A i, j \in DOMAIN decisions :
           /\ decisions[i].recommended = 1
           /\ i # j => decisions[i].key # decisions[j].key

\* Nothing between the fences reaches the report, however the answer was taken.
ReportIsText(answer) == \A i \in DOMAIN extract_report_body(answer.text) : extract_report_body(answer.text)[i] = Words

\* A block about a fault of the framework is recorded as a report of the gate, so
\* the check of a build that met one counts as reported (kontrola_done).
FaultReadsAsReport(answer) ==
  LET b == Block(answer) IN
  b # Failure /\ b.kind = "framework_issue" => MessageKind(b) = "gate_report"

\* The two ways of reading differ: a turn survives an invalid structured output
\* by its fence, a planning pass with the same answer does not.
PlanPassIsStricter(skeleton, bad) ==
  LET plain  == [structured |-> NoOutput, text |-> <<Fence("plan", Object([plan |-> skeleton]))>>]
      doubly == [plain EXCEPT !.structured = bad] IN
  parse_task_plan_skeleton(skeleton) => Skeleton(plain) = skeleton /\ Skeleton(doubly) = Failure
=============================================================================
