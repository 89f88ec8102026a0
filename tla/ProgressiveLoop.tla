--------------------------- MODULE ProgressiveLoop ---------------------------
(***************************************************************************)
(* One run of the progressive retrieval loop over the governed host.       *)
(* A planner that nobody trusts proposes actions, a round at a time; the   *)
(* host executes them against a repository that may be committed to        *)
(* between two calls, and alone mints the handles that open documents; the *)
(* loop counts, suppresses duplicates, stops, and releases evidence.       *)
(*                                                                         *)
(* A document's candidate is named by the document and the commit it was   *)
(* read at.  Text is its length.  What a query finds, how many candidates  *)
(* the router looked at, and which handles it exposes, are inputs.  The    *)
(* planner chooses its actions one at a time, and its final ids last: it   *)
(* knows more than a planner that decides at the start of a round.         *)
(***************************************************************************)
EXTENDS Integers, Sequences, FiniteSets, FiniteSetsExt, SequencesExt

CONSTANTS
    Doc, Query, Route,     \* Route names the candidates that only carry handles
    Allowed,               \* documents of the allowed scopes
    Size,                  \* length of every document
    MaxRounds, MaxCalls, MaxChars, MaxEvaluations, MaxIds, HitChars, MaxFinal,
    Evaluated,             \* how many candidates the router may report it looked at
    Reasons,               \* stop reasons that the planner tries
    MaxHead                \* bound on commits

\* LoopBudgets accepts positive integers only.
ASSUME BudgetAssumption ==
    {MaxRounds, MaxCalls, MaxChars, MaxEvaluations, MaxIds, HitChars, MaxHead}
        \subseteq Nat \ {0}

ASSUME DocumentAssumption ==
    /\ Size \in [Doc -> Nat] /\ Allowed \subseteq Doc /\ Route \notin Doc
    /\ Evaluated \subseteq Nat

VARIABLES
    head,        \* the commit that the host reads
    verifier,    \* an answerability verifier is configured
    pc,          \* "bootstrap", "plan", "act", "done"
    round,
    calls,       \* attempted calls: [action, retries, status]
    evaluations, chars,
    visible,     \* candidate id -> length of its body
    handles,     \* disclosed to the planner
    grants,      \* minted by the host: handle -> the candidate it came with
    relations,   \* observed: <<source, target>>
    unbound,     \* candidates that came over an unproved relation
    trace,       \* of rounds: [status, quiet]
    stop,
    fatal,       \* the terminal flag, or the terminal reason of the bootstrap
    result       \* [status, evidence, checked] of a run that is done

vars == <<head, verifier, pc, round, calls, evaluations, chars, visible, handles,
          grants, relations, unbound, trace, stop, fatal, result>>

Status == {"complete", "no_answer", "missing_evidence"}

Kind == {"read", "follow"}

Handle == [kind : Kind, doc : Doc, revision : 1 .. MaxHead]

Action == [kind : {"search"}, on : Query] \cup {[kind |-> h.kind, on |-> h] : h \in Handle}

RouteId == <<Route, 0>>

NoResult == [status |-> "none", evidence |-> {}, checked |-> FALSE]

Empty == [x \in {} |-> 0]

Init ==
    /\ head = 1 /\ verifier \in BOOLEAN /\ pc = "bootstrap" /\ round = 1
    /\ calls = <<>> /\ evaluations = 0 /\ chars = 0 /\ visible = Empty
    /\ handles = {} /\ grants = Empty /\ relations = {} /\ unbound = {}
    /\ trace = <<>> /\ stop = "max_rounds" /\ fatal = FALSE /\ result = NoResult

Commit ==
    /\ head < MaxHead /\ pc # "done" /\ head' = head + 1
    /\ UNCHANGED <<verifier, pc, round, calls, evaluations, chars, visible, handles,
                   grants, relations, unbound, trace, stop, fatal, result>>

-----------------------------------------------------------------------------
(* The host.                                                               *)

Exposable == {h \in Handle : h.revision = head}

Nothing(status, evaluated) ==
    [status |-> status, id |-> RouteId, found |-> FALSE, body |-> 0, exposes |-> {},
     evaluated |-> evaluated]

Limit == Min({HitChars, MaxChars - chars})

Document(d, exposed, evaluated) ==
    [status |-> "ok", id |-> <<d, head>>, found |-> TRUE, body |-> Min({Size[d], Limit}),
     exposes |-> exposed, evaluated |-> evaluated]

InScope == Allowed

Exposures == {G \in SUBSET Exposable : Cardinality(G) <= 1}

Routed(exposed, evaluated) ==
    [Nothing("ok", evaluated) EXCEPT !.found = TRUE, !.exposes = exposed]

\* _search: an error, nothing (denied, filtered, empty), a document that was
\* reopened at the head, or the route with what it exposes.
Found(evaluated) ==
    {Nothing("error", 0), Nothing("none", 0), Nothing("none", evaluated)}
    \cup (UNION {{Document(d, G, evaluated) : d \in InScope} : G \in Exposures})
    \cup {Routed(G, evaluated) : G \in Exposures \ {{}}}

\* A read must reopen the path of its grant, and at its commit when provenance is on.
Reopens(r, h) ==
    \/ ~r.found
    \/ r.id = RouteId /\ ~verifier
    \/ r.id # RouteId /\ r.id[1] = h.doc /\ (verifier => r.id[2] = h.revision)

\* The search inside a read that is refused has made its grants nevertheless.
Refused(r) == [r EXCEPT !.status = "none", !.found = FALSE, !.evaluated = 0]

\* GovernedKnowledgeHost.execute; the grants are made by the search inside it.
Execute(a, evaluated) ==
    CASE a.kind \in {"search", "follow"} -> Found(evaluated)
      [] a.kind = "read" ->
           {IF Reopens(r, a.on) THEN r ELSE Refused(r) : r \in Found(evaluated)}
           \cup {Nothing("none", 0)}

\* A handle does not tell the candidate it came with: the last one that exposes it counts.
Granted(r) ==
    [h \in DOMAIN grants \cup r.exposes |-> IF h \in r.exposes THEN r.id ELSE grants[h]]

-----------------------------------------------------------------------------
(* The loop.                                                               *)

Attempt(a, retries, status) ==
    calls' = Append(calls, [action |-> a, retries |-> retries, status |-> status])

Remaining == MaxEvaluations - evaluations

Mismatch(r) == verifier /\ r.id \in DOMAIN visible /\ visible[r.id] # r.body

Full(r) == r.id \notin DOMAIN visible /\ Cardinality(DOMAIN visible) >= MaxIds

\* Counts and discloses what the host returned.
Disclose(r) ==
    /\ evaluations' = evaluations + Min({r.evaluated, Remaining})
    /\ IF r.found /\ ~Mismatch(r) /\ ~Full(r)
       THEN /\ visible' = [i \in DOMAIN visible \cup {r.id} |->
                             IF i = r.id THEN r.body ELSE visible[i]]
            /\ chars' = chars + r.body /\ handles' = handles \cup r.exposes
       ELSE UNCHANGED <<visible, chars, handles>>
    /\ stop' = IF r.evaluated > Remaining \/ (r.found /\ Full(r)) THEN "max_candidates"
               ELSE IF r.found /\ Mismatch(r) THEN "tool_failure" ELSE stop

\* The first search, before the planner is asked.
Bootstrap(q) ==
    /\ pc = "bootstrap" /\ pc' = "plan"
    /\ \E evaluated \in Evaluated : \E r \in Found(evaluated) :
          /\ Attempt([kind |-> "search", on |-> q], 0, r.status)
          /\ grants' = Granted(r) /\ Disclose(r)
          /\ fatal' = (r.evaluated > MaxEvaluations)
    /\ UNCHANGED <<head, verifier, round, relations, unbound, trace, result>>

BootstrapRaises(q) ==
    /\ pc = "bootstrap" /\ pc' = "plan" /\ fatal' = TRUE /\ stop' = "tool_failure"
    /\ Attempt([kind |-> "search", on |-> q], 0, "error")
    /\ UNCHANGED <<head, verifier, round, evaluations, chars, visible, handles, grants,
                   relations, unbound, trace, result>>

\* The planner is asked; after a bootstrap that was fatal its decision is dropped.
Plan(status) ==
    /\ pc = "plan" /\ pc' = IF fatal THEN "end" ELSE "act"
    /\ trace' = Append(trace, [status |-> status, quiet |-> round # 1])
    /\ UNCHANGED <<head, verifier, round, calls, evaluations, chars, visible, handles,
                   grants, relations, unbound, stop, fatal, result>>

Noisy == [trace EXCEPT ![round].quiet = FALSE]

Acting == pc = "act" /\ ~fatal

Stops(reason, terminal) ==
    /\ stop' = reason /\ fatal' = terminal /\ pc' = "end" /\ trace' = Noisy
    /\ UNCHANGED <<head, verifier, round, evaluations, chars, visible, handles, grants,
                   relations, unbound, result>>

\* In the last round actions are counted and never executed.
LastRound(a, n) ==
    /\ Acting /\ round = MaxRounds
    /\ calls' = calls \o [k \in 1 .. n |-> [action |-> a, retries |-> 0, status |-> "rejected"]]
    /\ Stops("max_rounds", TRUE)

NoCallLeft ==
    /\ Acting /\ round < MaxRounds /\ Len(calls) >= MaxCalls
    /\ calls' = calls /\ Stops("max_calls", FALSE)

Callable == Acting /\ round < MaxRounds /\ Len(calls) < MaxCalls

Known(a) == \E i \in DOMAIN calls : calls[i].action = a

\* Mutant: one failed call may be retried again and again.
RetriedNever(i) == FALSE

Retried(i) == \E j \in DOMAIN calls : calls[j].retries = i

MayRetry(a, i) ==
    i \in DOMAIN calls /\ calls[i].action = a /\ calls[i].status = "error" /\ ~Retried(i)

Suppress(a, i) ==
    /\ Callable /\ Known(a) /\ ~MayRetry(a, i)
    /\ Attempt(a, 0, "suppressed") /\ Stops("stalled_duplicate", FALSE)

Admitted(a, i) == Callable /\ (Known(a) => MayRetry(a, i))

RejectHandle(a, i) ==
    /\ Admitted(a, i) /\ a.kind # "search" /\ a.on \notin handles
    /\ Attempt(a, 0, "rejected") /\ Stops("unsafe_request_rejected", TRUE)

NoCandidateLeft(a, i) ==
    /\ Admitted(a, i) /\ (a.kind # "search" => a.on \in handles)
    /\ Remaining = 0
    /\ Attempt(a, 0, "rejected") /\ Stops("max_candidates", TRUE)

\* Only a read that reopened its path proves where its document came from.
Related(a, r) ==
    IF verifier /\ a.kind = "read" /\ r.found THEN {<<grants[a.on], r.id>>} ELSE {}

Call(a, i) ==
    /\ Admitted(a, i) /\ (a.kind # "search" => a.on \in handles)
    /\ Remaining > 0
    /\ \E evaluated \in Evaluated : \E r \in Execute(a, evaluated) :
          /\ Attempt(a, IF Known(a) THEN i ELSE 0, r.status)
          /\ grants' = Granted(r) /\ Disclose(r)
          /\ relations' = relations \cup Related(a, r)
          /\ unbound' = unbound \cup (IF a.kind = "follow" /\ r.found THEN {r.id} ELSE {})
          /\ fatal' = (r.found /\ Mismatch(r))
    /\ trace' = Noisy
    /\ pc' = IF fatal' THEN "end" ELSE "act"
    /\ UNCHANGED <<head, verifier, round, result>>

\* The host raises.
CallRaises(a, i) ==
    /\ Admitted(a, i) /\ (a.kind # "search" => a.on \in handles)
    /\ Remaining > 0
    /\ Attempt(a, IF Known(a) THEN i ELSE 0, "error") /\ Stops("tool_failure", TRUE)

-----------------------------------------------------------------------------
(* The end of a round, and of the run.                                     *)

\* What the dossier needs of the final evidence and of all it came from.
Sources(S) ==
    LET back[k \in 0 .. Cardinality(relations)] ==
          IF k = 0 THEN S
          ELSE back[k - 1] \cup {e[1] : e \in {e \in relations : e[2] \in back[k - 1]}}
    IN  back[Cardinality(relations)]

\* Mutant: only the final evidence itself is looked at.
ProvableAlone(S) == S \cap unbound = {} /\ S \subseteq DOMAIN visible

Provable(S) ==
    /\ Sources(S) \cap unbound = {} /\ Sources(S) \subseteq DOMAIN visible
    /\ \A e, f \in relations : (e[1] = f[1] /\ e[2][1] = f[2][1] /\ {e[2], f[2]} \subseteq Sources(S)) => e = f

Verified(id) == id \in DOMAIN visible /\ id # RouteId /\ visible[id] <= HitChars

\* A completion that flips without new evidence.
Triggered ==
    LET n == Len(trace)
    IN  /\ verifier /\ n >= 2
        /\ trace[n - 1].status = "missing_evidence"
        /\ trace[n].status = "complete" /\ trace[n].quiet

Answer(reason, evidence) ==
    CASE reason = "sufficient_evidence" /\ evidence # {} -> "complete"
      [] reason = "sufficient_evidence" -> trace[Len(trace)].status
      [] reason = "no_answer_calibrated" -> "no_answer"
      [] reason \in {"max_rounds", "max_calls", "max_candidates"} -> "budget_exhausted"
      [] OTHER -> "incomplete"

Finish(reason, evidence, checked) ==
    /\ pc' = "done" /\ stop' = reason
    /\ result' = [status |-> Answer(reason, evidence), evidence |-> evidence, checked |-> checked]
    /\ UNCHANGED <<head, verifier, round, calls, evaluations, chars, visible, handles,
                   grants, relations, unbound, trace, fatal>>

\* StructuredAnswerabilityVerifier.verify: it fails, refuses or accepts.
Verdicts == {"tool_failure", "no_answer_calibrated", "sufficient_evidence"}

Release(reason, finals) ==
    LET good == \A id \in finals : Verified(id)
        selected == IF good THEN finals ELSE {}
        why == IF good THEN reason ELSE "authority_reopen_failed"
    IN  IF ~Triggered \/ why # "sufficient_evidence" \/ selected = {}
        THEN Finish(why, selected, FALSE)
        ELSE \/ Finish("authority_reopen_failed", {}, FALSE)     \* no dossier
             \/ \E verdict \in Verdicts :
                   /\ Provable(selected)
                   /\ Finish(verdict, IF verdict = "sufficient_evidence" THEN selected ELSE {}, TRUE)

\* The decision names a stop reason and its final evidence.
Decide(reason, finals) ==
    /\ pc \in {"act", "end"} /\ ~fatal
    /\ Release(reason, finals)

Exhausted == {"max_calls", "max_candidates"}

NoDecision ==
    /\ pc \in {"act", "end"}
    /\ fatal \/ stop \in Exhausted \/ round = MaxRounds
    /\ Release(stop, {})

NextRound ==
    /\ pc \in {"act", "end"} /\ ~fatal /\ stop \notin Exhausted
    /\ round < MaxRounds /\ round' = round + 1 /\ pc' = "plan"
    /\ UNCHANGED <<head, verifier, calls, evaluations, chars, visible, handles, grants,
                   relations, unbound, trace, stop, fatal, result>>

Finals == {S \in SUBSET (DOMAIN visible \cup {<<d, r>> : d \in Doc, r \in 1 .. MaxHead}) :
             Cardinality(S) <= MaxFinal}

Next ==
    \/ Commit
    \/ \E q \in Query : Bootstrap(q) \/ BootstrapRaises(q)
    \/ \E status \in Status : Plan(status)
    \/ NoCallLeft \/ NoDecision \/ NextRound
    \/ \E a \in Action :
         \/ \E n \in 0 .. MaxCalls - Len(calls) : LastRound(a, n)
         \/ \E i \in 0 .. Len(calls) :
              \/ Suppress(a, i) \/ RejectHandle(a, i) \/ NoCandidateLeft(a, i)
              \/ Call(a, i) \/ CallRaises(a, i)
    \/ \E reason \in Reasons, finals \in Finals : Decide(reason, finals)

Spec == Init /\ [][Next]_vars

-----------------------------------------------------------------------------
(* Properties.                                                             *)

\* The budgets of the whole run hold, whatever the planner asks and the host reports.
Bounded ==
    /\ round <= MaxRounds /\ Len(calls) <= MaxCalls
    /\ evaluations <= MaxEvaluations /\ chars <= MaxChars
    /\ Cardinality(DOMAIN visible) <= MaxIds

Executed(i) == calls[i].status \in {"ok", "none", "error"}

\* An action that was executed with success is never executed again in the run, however
\* its retries were named.
NoRepeat ==
    \A i, j \in DOMAIN calls :
        (i < j /\ Executed(i) /\ Executed(j) /\ calls[i].action = calls[j].action)
           => calls[i].status = "error"

\* What is released was opened in this run, in an allowed scope; and where the verifier
\* had to look, nothing it rests on came over a relation that nobody proved.
Released ==
    \A id \in result.evidence :
        /\ id \in DOMAIN visible /\ id[1] \in Allowed /\ visible[id] <= HitChars
        /\ result.checked =>
             \A s \in Sources({id}) : s \in DOMAIN visible /\ s \notin unbound
=============================================================================
