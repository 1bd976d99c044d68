----------------------------- MODULE Decisions ------------------------------
(***************************************************************************)
(* The local decisions of a service (internal/intel/decision_local.go):    *)
(* once a read is final, a local model is asked whether one passage of it  *)
(* supports an assertion, and which permitted way of acquiring the page    *)
(* would have answered the objective.  Both share one runtime, one bounded *)
(* memo of answers and one semantic aligner, which rests for a while after *)
(* a failure (semantic.go); retrieval has an aligner of its own.  The MCP  *)
(* server keeps the service, and with it memo and aligners, across calls.  *)
(* The dispatcher is serial: what interferes with an observation is the    *)
(* clock, the runtime behind the HTTP interface and what earlier reads     *)
(* left behind.                                                            *)
(***************************************************************************)
EXTENDS Integers, Sequences, SequencesExt, FiniteSets, FiniteSetsExt, Functions

CONSTANTS
  Readings,     \* what the final reads ask: see BeginAudit
  Size,         \* the encoded size of every text (0: it is blank)
  MaxInput,     \* decision.max_input_bytes
  Model, Other, \* the model configured, and another one the runtime may hold
  MemoEntries,  \* decisionMemoEntries
  Cooldown,     \* semantic.failure_cooldown_ms, which Validate wants positive
                \* (config_validate.go:129)
  Nobody        \* no evidence, no answer, no page

Passages == [id : STRING, text : DOMAIN Size]

ASSUME DecisionConstants ==
  /\ MemoEntries \in Nat \ {0} /\ Cooldown \in Nat \ {0}
  /\ \A r \in Readings :
        /\ r.chunks \in Seq(Passages)
        /\ r.page # Nobody => r.page.segments \in Seq(Passages)

Aligners == {"retrieval", "advisory"}
Support == {"supported", "contradicted", "not_established"}

VARIABLES
  memo, order,  \* decisionMemo: answers by key, and the keys by age
  cooling,      \* what is left of each aligner's cooldown
  since,        \* history: time since each use last failed, Cooldown if it
                \* has succeeded since or that long ago
  reading,      \* the read being audited
  wanted,        \* the observations it still asks for
  ob            \* the observation under way, or the last one

decisionVars == <<memo, order, cooling, since, reading, wanted, ob>>

Idle == [step |-> "done", task |-> "none"]

DecisionsInit ==
  /\ memo = <<>> /\ order = <<>>
  /\ cooling = [a \in Aligners |-> 0] /\ since = [a \in Aligners |-> Cooldown]
  /\ reading = Nobody /\ wanted = <<>> /\ ob = Idle

-----------------------------------------------------------------------------
(* The aligners *)

\* The aligner a use goes to: advisory cancellation must not cool down
\* retrieval, so the observer has one of its own.
AlignerOf(use) == use

CoolingDown(a) == cooling[a] > 0

Trip(a) == cooling' = [cooling EXCEPT ![a] = Cooldown]

Clear(a) == cooling' = [cooling EXCEPT ![a] = 0]

\* A request for scores: skipped without an error while the aligner rests;
\* otherwise the embedder fails, also because the context ended, or answers,
\* and may have nothing to say (an objective without a vector).
Score(use, outcome) ==
  LET a == AlignerOf(use)
  IN  \/ CoolingDown(a) /\ outcome = "none" /\ UNCHANGED <<cooling, since>>
      \/ /\ ~CoolingDown(a) /\ outcome = "error" /\ Trip(a)
         /\ since' = [since EXCEPT ![use] = 0]
      \/ /\ ~CoolingDown(a) /\ outcome \in {"none", "scores"} /\ Clear(a)
         /\ since' = [since EXCEPT ![use] = Cooldown]

Tick ==
  /\ cooling' = [a \in Aligners |-> IF cooling[a] > 0 THEN cooling[a] - 1 ELSE 0]
  /\ since' = [a \in Aligners |-> IF since[a] < Cooldown THEN since[a] + 1 ELSE Cooldown]
  /\ UNCHANGED <<memo, order, reading, wanted, ob>>

-----------------------------------------------------------------------------
(* The memo *)

Recall(key) == IF key \in DOMAIN memo THEN memo[key] ELSE Nobody

Memoize(key, answer) ==
  IF key \in DOMAIN memo THEN UNCHANGED <<memo, order>>
  ELSE LET full == Len(order) = MemoEntries
           kept == IF full THEN DOMAIN memo \ {Head(order)} ELSE DOMAIN memo
       IN  /\ memo' = [k \in kept \cup {key} |-> IF k = key THEN answer ELSE memo[k]]
           /\ order' = Append(IF full THEN Tail(order) ELSE order, key)

-----------------------------------------------------------------------------
(* What is asked *)

\* The ways of acquiring a page that its request permits; "open" are those the
\* page offers, the configuration enables and the time left allows.  A
\* required render leaves no choice.
Menu(page) ==
  IF page.mode = "required" THEN {"render"}
  ELSE {"serve_static", "insufficient"}
       \cup (IF page.html
             THEN page.open \cap (IF page.mode = "off" THEN {"read_declared"}
                                 ELSE {"read_declared", "render"})
             ELSE {})

\* The evidence of a task: the chunks of the answer, or the segments of the
\* page as it was first received, unless there is no need or no way to
\* reduce it.
Units(task) ==
  IF task = "support" THEN reading.chunks
  ELSE IF reading.page.mode = "required" \/ ~reading.page.reduces THEN <<>>
  ELSE reading.page.segments
Ids(task) == {u.id : u \in ToSet(Units(task))}
Criteria(task) == IF task = "support" THEN Support ELSE Menu(reading.page)

\* What the state of a route holds besides its passage.
Reserved(task) == IF task = "support" THEN 0 ELSE reading.page.size

\* Copies of one unit count once, and one identity with two texts is an error.
Conflicting(task) ==
  \E u, v \in ToSet(Units(task)) : u.id = v.id /\ u.text # v.text

Eligible(task) ==
  {u \in ToSet(Units(task)) : Size[u.text] > 0 /\ Size[u.text] + Reserved(task) <= MaxInput}

\* What the runtime is sent: the state, of which the page is a part for a
\* route, and the question with its options.
Body(task, unit) ==
  [state |-> [page |-> IF task = "support" THEN Nobody ELSE reading.page.source,
              text |-> IF unit = Nobody THEN Nobody ELSE unit.text],
   about |-> IF task = "support" THEN reading.assertion ELSE reading.objective,
   criteria |-> Criteria(task)]

\* Mutant of Key: the passage is left out, as if a page had one answer.
KeyOfPage(task, unit) ==
  [task |-> task, source |-> IF task = "support" THEN Nobody ELSE reading.page.source,
   body |-> Body(task, Nobody)]

\* What the memo takes for the same request: the task, the page it comes from
\* and all that is sent.
Key(task, unit) ==
  [task |-> task, source |-> IF task = "support" THEN Nobody ELSE reading.page.source,
   body |-> Body(task, unit)]

-----------------------------------------------------------------------------
(* An observation *)

\* A read is final: its observations follow one another.
BeginAudit ==
  /\ ob.step = "done" /\ wanted = <<>>
  /\ reading' \in Readings
  /\ wanted' = (IF reading'.assertion = Nobody THEN <<>> ELSE <<"support">>)
              \o (IF reading'.page = Nobody THEN <<>> ELSE <<"route">>)
  /\ ob' = Idle
  /\ UNCHANGED <<memo, order, cooling, since>>

\* Reads rank with the aligner of retrieval: there may be nothing to embed or
\* no vector to compare, every candidate is scored, or the embedder fails.
Rank ==
  /\ ob.step = "done" /\ wanted = <<>>
  /\ \E outcome \in {"none", "scores", "error"} : Score("retrieval", outcome)
  /\ UNCHANGED <<memo, order, reading, wanted, ob>>

New(task) ==
  [task |-> task, step |-> "select", unit |-> Nobody, status |-> "unavailable",
   answer |-> Nobody, proposed |-> Nobody, failed |-> FALSE,
   unassessed |-> Cardinality(Ids(task))]

\* An observation ends without an answer, or because an exchange with the
\* runtime failed: no connection, a redirect, another status than OK.
Refused(o, status) == [o EXCEPT !.step = "conclude", !.status = status]
Failed(o) == [o EXCEPT !.step = "conclude", !.failed = TRUE]

\* There is nothing to decide, the page cannot be reduced, or the context of
\* the read has ended.
Admit ==
  /\ ob.step = "done" /\ wanted # <<>>
  /\ wanted' = Tail(wanted)
  /\ LET task == Head(wanted)
         o == New(task)
     IN  \/ task = "support" /\ Units(task) = <<>> /\ ob' = Refused(o, "insufficient_input")
         \/ task = "route" /\ Cardinality(Criteria(task)) < 2 /\ ob' = Refused(o, "not_applicable")
         \/ /\ task = "support" => Units(task) # <<>>
            /\ Cardinality(Criteria(task)) >= 2
            /\ ob' \in (IF task = "route" /\ ~reading.page.reduces THEN {} ELSE {o})
                      \cup {Failed(o)}
  /\ UNCHANGED <<memo, order, cooling, since, reading>>

Selecting == ob.step = "select"
Chosen(u) == [ob EXCEPT !.step = "recall", !.unit = u]

\* A page without passages is asked about as such, if its description fits.
SelectNothing ==
  /\ Selecting /\ Units(ob.task) = <<>>
  /\ ob' = IF Size["none"] + Reserved(ob.task) > MaxInput
           THEN Refused(ob, "input_budget_exceeded") ELSE Chosen(Nobody)
  /\ UNCHANGED <<memo, order, cooling, since, reading, wanted>>

\* Evidence that needs no ranking: contradictory, too long, or all there is.
SelectAlone ==
  /\ Selecting /\ Units(ob.task) # <<>>
  /\ \/ Conflicting(ob.task) /\ ob' = Failed(ob)
     \/ /\ ~Conflicting(ob.task) /\ Eligible(ob.task) = {}
        /\ ob' = Refused(ob, "input_budget_exceeded")
     \/ /\ ~Conflicting(ob.task)
        /\ \E u \in Eligible(ob.task) : Eligible(ob.task) = {u} /\ ob' = Chosen(u)
  /\ UNCHANGED <<memo, order, cooling, since, reading, wanted>>

\* The best scored of several units; without scores none is chosen blindly.
SelectRanked ==
  /\ Selecting /\ ~Conflicting(ob.task) /\ Cardinality(Eligible(ob.task)) > 1
  /\ \/ Score("advisory", "error") /\ ob' = Failed(ob)
     \/ Score("advisory", "none") /\ ob' = Refused(ob, "selection_unavailable")
     \/ Score("advisory", "scores") /\ \E u \in Eligible(ob.task) : ob' = Chosen(u)
  /\ UNCHANGED <<memo, order, reading, wanted>>

\* Evidence that was asked about is assessed, whoever answers.
Assessed(answer) ==
  [ob EXCEPT !.step = "conclude", !.status = "observed", !.answer = answer,
             !.unassessed = @ - (IF ob.unit = Nobody THEN 0 ELSE 1)]

AnswerFromMemo ==
  /\ ob.step = "recall"
  /\ LET answer == Recall(Key(ob.task, ob.unit))
     IN  ob' = IF answer = Nobody THEN [ob EXCEPT !.step = "identify"] ELSE Assessed(answer)
  /\ UNCHANGED <<memo, order, cooling, since, reading, wanted>>

\* The runtime must hold the model configured, and nothing else.
Identify ==
  /\ ob.step = "identify"
  /\ \/ ob' = [ob EXCEPT !.step = "fit"]
     \/ ob' = Failed(ob)
  /\ UNCHANGED <<memo, order, cooling, since, reading, wanted>>

\* Question and state are counted in tokens before they are sent.
PromptFits ==
  /\ ob.step = "fit"
  /\ \/ ob' = [ob EXCEPT !.step = "ask"]
     \/ ob' = Refused(ob, "prompt_budget_exceeded")
     \/ ob' = Failed(ob)
  /\ UNCHANGED <<memo, order, cooling, since, reading, wanted>>

\* A response to the question sent and to no other, from the model configured,
\* which may have been replaced in between, with a normalized distribution
\* over exactly the options and its best one as the choice.
Valid(reply, body) ==
  /\ reply.model = Model /\ reply.of = body /\ reply.sound /\ reply.choice \in body.criteria

Ask ==
  /\ ob.step = "ask"
  /\ LET body == Body(ob.task, ob.unit)
     IN  \/ ob' = Failed(ob) /\ UNCHANGED <<memo, order>>
         \/ \E m \in {Model, Other}, about \in {body, Nobody}, sound \in BOOLEAN,
               choice \in body.criteria \cup {"foreign"} :
              LET reply == [model |-> m, of |-> about, sound |-> sound, choice |-> choice]
              IN  IF Valid(reply, body)
                  THEN Memoize(Key(ob.task, ob.unit), reply) /\ ob' = Assessed(reply)
                  ELSE UNCHANGED <<memo, order>> /\ ob' = Failed(ob)
  /\ UNCHANGED <<cooling, since, reading, wanted>>

\* The audit of an assertion; if the trace does not take it the read fails,
\* and there is no second one.
ConcludeSupport ==
  /\ ob.step = "conclude" /\ ob.task = "support"
  /\ ob' = [ob EXCEPT !.step = "done", !.status = IF ob.failed THEN "unavailable" ELSE @]
  /\ wanted' \in {wanted, <<>>}
  /\ UNCHANGED <<memo, order, cooling, since, reading>>

\* The audit of a route: a choice outside the menu is withdrawn.
ConcludeRoute ==
  /\ ob.step = "conclude" /\ ob.task = "route"
  /\ LET proposed == IF ob.status = "observed" THEN ob.answer.choice ELSE Nobody
         withdrawn == ob.failed \/ (ob.status = "observed" /\ proposed \notin Menu(reading.page))
     IN  ob' = [ob EXCEPT !.step = "done",
                          !.status = IF withdrawn THEN "unavailable" ELSE @,
                          !.answer = IF withdrawn THEN Nobody ELSE @,
                          !.proposed = IF withdrawn THEN Nobody ELSE proposed]
  /\ UNCHANGED <<memo, order, cooling, since, reading, wanted>>

\* A changed configuration retires the service with all it has kept.
Renew ==
  /\ ob.step = "done" /\ wanted = <<>>
  /\ memo' = <<>> /\ order' = <<>>
  /\ cooling' = [a \in Aligners |-> 0] /\ since' = [a \in Aligners |-> Cooldown]
  /\ reading' = Nobody /\ ob' = Idle /\ UNCHANGED wanted

DecisionsNext ==
  \/ Tick \/ Rank \/ Renew \/ BeginAudit \/ Admit
  \/ SelectNothing \/ SelectAlone \/ SelectRanked
  \/ AnswerFromMemo \/ Identify \/ PromptFits \/ Ask
  \/ ConcludeSupport \/ ConcludeRoute

DecisionsSpec == DecisionsInit /\ [][DecisionsNext]_decisionVars

-----------------------------------------------------------------------------
(* Properties *)

\* The memo is bounded, and an answer that failed its validation never gets
\* into it (decisionMemo, observeChoice).
MemoInv ==
  /\ DOMAIN memo = ToSet(order) /\ Len(order) = Cardinality(ToSet(order))
  /\ Len(order) <= MemoEntries
  /\ \A k \in DOMAIN memo : Valid(memo[k], memo[k].of)

\* A concluded audit speaks of this read: its answer is about a passage of the
\* read that its identity names unambiguously, to the question and the options
\* of this request, although the memo outlives pages and menus; a proposed
\* route is permitted, and evidence counts as assessed only if there is an
\* answer about it (observeReadDecision, observeReadDecisions).
TextsNamed(task, unit) == {u.text : u \in {v \in ToSet(Units(task)) : v.id = unit.id}}
Concluded(o) ==
  LET total == Cardinality(Ids(o.task))
  IN  IF o.status = "observed"
      THEN /\ Valid(o.answer, Body(o.task, o.unit))
           /\ o.task = "route" => o.proposed = o.answer.choice /\ o.proposed \in Menu(reading.page)
           /\ IF o.unit = Nobody THEN o.unassessed = total
              ELSE /\ o.unassessed = total - 1
                   /\ TextsNamed(o.task, o.unit) = {o.unit.text}
      ELSE o.answer = Nobody /\ o.proposed = Nobody /\ o.unassessed = total
AuditInv == ob.step = "done" /\ ob.task # "none" => Concluded(ob)

\* A use goes without scores for the cooldown after a failure of its own, and
\* never for that of the other (resilientSemanticAligner, NewWithRenderer).
CoolInv == \A use \in Aligners : CoolingDown(AlignerOf(use)) <=> since[use] < Cooldown

DecisionInv == MemoInv /\ AuditInv /\ CoolInv

(* Why they hold.  The memo keeps under a key only answers to what the key  *)
(* says was sent, whoever asked first, and an observation carries on its    *)
(* way what its conclusion will say.                                        *)

\* Every key has one place in the order of age.
MemoKept ==
  /\ order \in Seq(DOMAIN memo)
  /\ \A i, j \in DOMAIN order : order[i] = order[j] => i = j
  /\ \A k \in DOMAIN memo : Valid(memo[k], k.body)

\* The rest of an aligner and the time since the failure add up.
CoolKept ==
  /\ cooling \in [Aligners -> 0..Cooldown] /\ since \in [Aligners -> 0..Cooldown]
  /\ \A a \in Aligners : cooling[a] + since[a] = Cooldown

\* What is asked for is there to be asked about.
Asks(task) ==
  /\ task \in {"support", "route"} /\ reading \in Readings
  /\ task = "route" => reading.page # Nobody
WantedKept ==
  wanted \in Seq({"support", "route"}) /\ \A i \in DOMAIN wanted : Asks(wanted[i])

\* The evidence of an observation: none, or a passage its identity names.
Evident(o) ==
  o.unit = Nobody \/ (o.unit \in Eligible(o.task) /\ ~Conflicting(o.task))

\* An observation without an answer yet, and one with an answer.
Unanswered(o) ==
  /\ o.answer = Nobody /\ o.proposed = Nobody /\ o.status # "observed"
  /\ o.unassessed = Cardinality(Ids(o.task))
Answered(o) ==
  /\ Valid(o.answer, Body(o.task, o.unit)) /\ ~o.failed
  /\ o.unassessed = Cardinality(Ids(o.task)) - (IF o.unit = Nobody THEN 0 ELSE 1)

Carries(o) ==
  /\ Asks(o.task) /\ Evident(o)
  /\ o = [f \in DOMAIN New(o.task) |-> o[f]]
  /\ o.step \in {"select", "recall", "identify", "fit", "ask"} => Unanswered(o) /\ ~o.failed
  /\ o.step = "conclude" => Unanswered(o) \/ (Answered(o) /\ o.status = "observed")
ObservationKept == IF ob.task = "none" THEN ob.step = "done" ELSE Carries(ob)

DecisionInd ==
  DecisionInv /\ MemoKept /\ CoolKept /\ WantedKept /\ ObservationKept
=============================================================================
