---------------------------- MODULE RetrievalProofs ----------------------------
(***************************************************************************)
(* Theorems about the machines of retrieval: ProgressiveLoop, Publication, *)
(* ProgressiveSession and Answerability, for every set of documents,       *)
(* queries, texts and processes and every budget.                          *)
(***************************************************************************)
EXTENDS MCRetrieval, SequenceTheorems, Iteration

-----------------------------------------------------------------------------
(* The budgets of the loop.                                                *)

\* The smaller of two numbers.
LEMMA MinFacts ==
    \A i, j \in Int : Min({i, j}) \in {i, j} /\ Min({i, j}) <= i /\ Min({i, j}) <= j
<1>1. TAKE i, j \in Int
<1>2. \E k \in {i, j} : \A l \in {i, j} : k <= l
  <2>1. CASE i <= j
    BY <2>1
  <2>2. CASE j <= i
    BY <2>2
  <2> QED BY <2>1, <2>2
<1> QED BY <1>2 DEF Min

CallStatus == {"ok", "none", "error"}

CallRecord ==
    [action : Action, retries : Nat, status : CallStatus \cup {"rejected", "suppressed"}]

\* What can be opened: a document of an allowed scope, as of some commit, or the route.
Reachable == {RouteId} \cup (Allowed \X (1 .. MaxHead))

Shape ==
    /\ head \in 1 .. MaxHead /\ round \in 1 .. MaxRounds
    /\ pc \in {"bootstrap", "plan", "act", "end", "done"}
    /\ calls \in Seq(CallRecord) /\ (pc = "bootstrap" => calls = <<>>)
    /\ evaluations \in 0 .. MaxEvaluations /\ chars \in 0 .. MaxChars
    /\ DOMAIN visible \subseteq Reachable /\ IsFiniteSet(DOMAIN visible)
    /\ IsFiniteSet(relations)

\* A failed call that was followed by another one of its action has been retried.
RetriedOnce ==
    \A i, j \in DOMAIN calls :
        (i < j /\ Executed(i) /\ Executed(j) /\ calls[i].action = calls[j].action)
           => calls[i].status = "error" /\ Retried(i)

LoopInv ==
    /\ Shape /\ Bounded /\ RetriedOnce /\ Released
    /\ pc # "done" => result.evidence = {}

\* What the host may return.
Returned == [status : CallStatus, id : Reachable, found : BOOLEAN, body : 0 .. MaxChars - chars,
             exposes : SUBSET Handle, evaluated : Nat]

\* What a search returns (_search) is of the type above: its body fits what is left.
LEMMA FoundType ==
    ASSUME Shape, NEW n \in Evaluated, NEW r \in Found(n)
    PROVE  r \in Returned
<1>1. 0 \in 0 .. MaxChars - chars /\ n \in Nat
  BY BudgetAssumption, DocumentAssumption DEF Shape
<1>2. Exposable \subseteq Handle
  BY DEF Exposable
<1>3. ASSUME NEW s \in CallStatus, NEW m \in {0, n} PROVE Nothing(s, m) \in Returned
  BY <1>1 DEF Nothing, Returned, Reachable
<1>4. ASSUME NEW d \in InScope, NEW G \in Exposures, r = Document(d, G, n) PROVE r \in Returned
  <2>1. PICK left \in Nat : left = MaxChars - chars
    BY BudgetAssumption DEF Shape
  <2>2. PICK limit \in Nat : limit = Limit /\ limit <= left
    <3>1. HitChars \in Nat /\ HitChars \in Int /\ left \in Int
      BY BudgetAssumption
    <3>2. Min({HitChars, left}) \in {HitChars, left} /\ Min({HitChars, left}) <= left
      BY <3>1, MinFacts, Zenon
    <3> QED BY <2>1, <3>1, <3>2 DEF Limit
  <2>3. Min({Size[d], Limit}) \in 0 .. MaxChars - chars
    <3>1. Size[d] \in Nat /\ Size[d] \in Int /\ limit \in Int
      BY DocumentAssumption DEF InScope
    <3>2. Min({Size[d], limit}) \in {Size[d], limit} /\ Min({Size[d], limit}) <= limit
      BY <3>1, MinFacts, Zenon
    <3> QED BY <2>1, <2>2, <3>1, <3>2
  <2>4. <<d, head>> \in Reachable
    BY DEF Reachable, Shape, InScope
  <2>5. G \in SUBSET Handle /\ "ok" \in CallStatus /\ TRUE \in BOOLEAN
    BY <1>2 DEF CallStatus, Exposures
  <2> QED BY <1>1, <1>4, <2>3, <2>4, <2>5 DEF Document, Returned
<1>5. ASSUME NEW G \in Exposures, r = Routed(G, n) PROVE r \in Returned
  <2>1. G \in SUBSET Handle
    BY <1>2 DEF Exposures
  <2> QED BY <1>1, <1>5, <2>1 DEF Routed, Nothing, Returned, Reachable, CallStatus
<1>6. CASE r \in {Nothing("error", 0), Nothing("none", 0), Nothing("none", n)}
  BY <1>3, <1>6 DEF CallStatus
<1>7. CASE r \in UNION {{Document(d, G, n) : d \in InScope} : G \in Exposures}
  BY <1>4, <1>7
<1>8. CASE r \in {Routed(G, n) : G \in Exposures \ {{}}}
  BY <1>5, <1>8
<1> QED BY <1>6, <1>7, <1>8, Zenon DEF Found

\* What any executed action returns is of that type (GovernedKnowledgeHost.execute).
LEMMA ExecuteType ==
    ASSUME Shape, NEW act \in Action, NEW n \in Evaluated, NEW r \in Execute(act, n)
    PROVE  r \in Returned
<1>1. act.kind \in {"search", "read", "follow"}
  BY DEF Action, Handle, Kind
<1>2. CASE r \in Found(n)
  BY <1>2, FoundType
<1>3. CASE r = Nothing("none", 0)
  BY <1>3, BudgetAssumption DEF Nothing, Returned, Reachable, CallStatus, Shape
<1>4. ASSUME NEW f \in Found(n), r = Refused(f) PROVE r \in Returned
  <2>1. f \in Returned /\ "none" \in CallStatus /\ 0 \in Nat
    BY FoundType DEF CallStatus
  <2> QED BY <1>4, <2>1 DEF Refused, Returned
<1>5. r \in Found(n) \/ r = Nothing("none", 0) \/ \E f \in Found(n) : r = Refused(f)
  BY <1>1 DEF Execute
<1> QED BY <1>2, <1>3, <1>4, <1>5

\* What is disclosed of it fits the budgets.
LEMMA DiscloseKeeps ==
    ASSUME Shape, Bounded, NEW r \in Returned, Disclose(r)
    PROVE  /\ evaluations' \in 0 .. MaxEvaluations /\ chars' \in 0 .. MaxChars
           /\ DOMAIN visible' \subseteq Reachable /\ IsFiniteSet(DOMAIN visible')
           /\ Cardinality(DOMAIN visible') <= MaxIds
<1>1. evaluations' \in 0 .. MaxEvaluations
  <2>1. PICK left \in Nat : left = Remaining
    BY BudgetAssumption DEF Shape, Remaining
  <2>2. PICK e \in Nat : e = r.evaluated
    BY DEF Returned
  <2>3. Min({e, left}) \in {e, left} /\ Min({e, left}) <= left
    <3>1. e \in Int /\ left \in Int
      OBVIOUS
    <3> QED BY <3>1, MinFacts, Zenon
  <2>4. evaluations' = evaluations + Min({e, left})
    BY <2>1, <2>2 DEF Disclose
  <2>5. Min({e, left}) \in Nat
    BY <2>3
  <2>6. left = MaxEvaluations - evaluations /\ MaxEvaluations \in Nat /\ evaluations \in Nat
    BY <2>1, BudgetAssumption DEF Remaining, Shape
  <2>7. PICK k \in Nat : k = Min({e, left}) /\ k <= left
    BY <2>3, <2>5
  <2> QED BY <2>4, <2>6, <2>7
<1>2. CASE UNCHANGED <<visible, chars, handles>>
  BY <1>1, <1>2 DEF Shape, Bounded
<1>3. CASE /\ ~Full(r) /\ chars' = chars + r.body
           /\ visible' = [i \in DOMAIN visible \cup {r.id} |->
                            IF i = r.id THEN r.body ELSE visible[i]]
  <2>1. chars' \in 0 .. MaxChars
    BY <1>3, BudgetAssumption, SMTT(30) DEF Returned, Shape
  <2>2. DOMAIN visible' = DOMAIN visible \cup {r.id}
    BY <1>3
  <2>3. r.id \in Reachable
    BY DEF Returned
  <2>4. IsFiniteSet(DOMAIN visible') /\ Cardinality(DOMAIN visible') <= MaxIds
    <3>1. PICK D : D = DOMAIN visible
      OBVIOUS
    <3>2. IsFiniteSet(D) /\ Cardinality(D) \in Nat /\ Cardinality(D) <= MaxIds
      BY <3>1, FS_CardinalityType DEF Shape, Bounded
    <3>3. /\ IsFiniteSet(D \cup {r.id})
          /\ Cardinality(D \cup {r.id}) = IF r.id \in D THEN Cardinality(D) ELSE Cardinality(D) + 1
      BY <3>2, FS_AddElement
    <3>4. r.id \notin D => Cardinality(D) < MaxIds
      BY <3>1, <3>2, <1>3, BudgetAssumption DEF Full
    <3> QED BY <2>2, <3>1, <3>2, <3>3, <3>4, BudgetAssumption
  <2> QED BY <1>1, <2>1, <2>2, <2>3, <2>4 DEF Shape
<1> QED BY <1>2, <1>3 DEF Disclose

\* A call that was executed answers an action that was not called before, or retries a
\* failed one that was not retried.
Admissible(c) ==
    ~Known(c.action) \/ MayRetry(c.action, c.retries)

\* One more call keeps the discipline of retries.
LEMMA OneCallMore ==
    ASSUME Shape, RetriedOnce, NEW c \in CallRecord, calls' = Append(calls, c),
           c.status \in CallStatus => Admissible(c)
    PROVE  RetriedOnce' /\ calls' \in Seq(CallRecord) /\ Len(calls') = Len(calls) + 1
<1> DEFINE n == Len(calls) + 1
<1>1. calls \in Seq(CallRecord) /\ Len(calls) \in Nat /\ DOMAIN calls = 1 .. Len(calls)
  BY DEF Shape
<1>2. /\ calls' \in Seq(CallRecord) /\ Len(calls') = n /\ DOMAIN calls' = 1 .. n
      /\ calls'[n] = c /\ \A i \in DOMAIN calls : calls'[i] = calls[i]
  BY <1>1
<1>3. \A i \in DOMAIN calls : Retried(i) => Retried(i)'
  BY <1>1, <1>2 DEF Retried
<1>4. ASSUME NEW i \in DOMAIN calls', NEW j \in DOMAIN calls', i < j,
             Executed(i)', Executed(j)', (calls[i].action = calls[j].action)'
      PROVE  (calls[i].status = "error" /\ Retried(i))'
  <2>1. i \in DOMAIN calls /\ Executed(i) /\ calls'[i] = calls[i]
    BY <1>1, <1>2, <1>4 DEF Executed
  <2>2. CASE j # n
    <3>1. j \in DOMAIN calls /\ Executed(j) /\ calls'[j] = calls[j]
      BY <2>2, <1>1, <1>2, <1>4 DEF Executed
    <3>2. calls[i].status = "error" /\ Retried(i)
      BY <2>1, <3>1, <1>4 DEF RetriedOnce
    <3> QED BY <2>1, <3>2, <1>3
  <2>3. CASE j = n
    <3>1. c.status \in CallStatus /\ calls[i].action = c.action
      BY <2>1, <2>3, <1>2, <1>4 DEF Executed, CallStatus
    <3>2. Known(c.action)
      BY <2>1, <3>1 DEF Known
    <3>3. PICK m \in DOMAIN calls : /\ m = c.retries /\ calls[m].action = c.action
                                    /\ calls[m].status = "error" /\ ~Retried(m)
      BY <3>1, <3>2 DEF Admissible, MayRetry
    <3>4. Executed(m)
      BY <3>3 DEF Executed
    <3>5. CASE i = m
      <4>1. Retried(i)'
        BY <3>3, <3>5, <1>2 DEF Retried
      <4> QED BY <4>1, <3>5, <3>3, <2>1
    <3>6. CASE i < m
      <4>1. calls[i].status = "error" /\ Retried(i)
        BY <2>1, <3>1, <3>3, <3>4, <3>6 DEF RetriedOnce
      <4> QED BY <2>1, <4>1, <1>3
    <3>7. CASE m < i
      BY <2>1, <3>1, <3>3, <3>4, <3>7 DEF RetriedOnce
    <3> QED BY <1>1, <2>1, <3>3, <3>5, <3>6, <3>7
  <2> QED BY <2>2, <2>3
<1> QED BY <1>2, <1>4 DEF RetriedOnce

\* A step of the loop that leaves the calls.
LEMMA SameCalls ==
    ASSUME Shape, RetriedOnce, calls' = calls
    PROVE  RetriedOnce' /\ calls' \in Seq(CallRecord)
BY DEF Shape, RetriedOnce, Executed, Retried

\* Calls that are counted and not executed.
LEMMA RejectedCalls ==
    ASSUME Shape, RetriedOnce, NEW act \in Action, NEW n \in Nat,
           calls' = calls \o [k \in 1 .. n |->
                                [action |-> act, retries |-> 0, status |-> "rejected"]]
    PROVE  RetriedOnce' /\ calls' \in Seq(CallRecord) /\ Len(calls') = Len(calls) + n
<1> DEFINE c == [action |-> act, retries |-> 0, status |-> "rejected"]
           more == [k \in 1 .. n |-> c]
<1>1. c \in CallRecord /\ c.status = "rejected"
  BY DEF CallRecord
<1>2. more \in Seq(CallRecord) /\ Len(more) = n /\ \A k \in 1 .. n : more[k] = c
  BY <1>1
<1>3. calls \in Seq(CallRecord) /\ Len(calls) \in Nat /\ DOMAIN calls = 1 .. Len(calls)
  BY DEF Shape
<1>4. PICK old : old = calls
  OBVIOUS
<1>5. PICK new : new = calls'
  OBVIOUS
<1> HIDE DEF c, more
<1>6. new = old \o more
  BY <1>4, <1>5 DEF more, c
<1>7. /\ new \in Seq(CallRecord) /\ Len(new) = Len(old) + n
      /\ DOMAIN new = 1 .. Len(old) + n
      /\ \A i \in 1 .. Len(old) : new[i] = old[i]
      /\ \A i \in Len(old) + 1 .. Len(old) + n : new[i] = c
  <2>1. old \in Seq(CallRecord) /\ Len(old) \in Nat
    BY <1>3, <1>4
  <2>2. new \in Seq(CallRecord) /\ Len(new) = Len(old) + n
    BY <1>2, <1>6, <2>1, ConcatProperties
  <2>3. DOMAIN new = 1 .. Len(old) + n
    BY <2>2
  <2>4. \A i \in 1 .. Len(old) : new[i] = old[i]
    BY <1>2, <1>6, <2>1
  <2>5. ASSUME NEW i \in Len(old) + 1 .. Len(old) + n PROVE new[i] = c
    <3>1. new[i] = more[i - Len(old)] /\ i - Len(old) \in 1 .. n
      BY <1>2, <1>6, <2>1
    <3> QED BY <1>2, <3>1
  <2> QED BY <2>2, <2>3, <2>4, <2>5
<1>8. \A i \in DOMAIN calls : Retried(i) => Retried(i)'
  BY <1>3, <1>4, <1>5, <1>7 DEF Retried
<1>9. \A i \in DOMAIN calls' : Executed(i)' =>
          i \in DOMAIN calls /\ Executed(i) /\ calls'[i] = calls[i]
  BY <1>1, <1>3, <1>4, <1>5, <1>7 DEF Executed
<1>10. RetriedOnce'
  BY <1>8, <1>9 DEF RetriedOnce
<1> QED BY <1>4, <1>5, <1>7, <1>10

\* Nothing is released before the run is done.
LEMMA StillOpen ==
    ASSUME LoopInv, pc # "done", UNCHANGED result
    PROVE  Released' /\ result'.evidence = {}
BY DEF LoopInv, Released

\* The actions that the host does not execute.
LEMMA QuietStep ==
    ASSUME LoopInv,
           \/ Commit \/ (\E status \in Status : Plan(status)) \/ NoCallLeft \/ NextRound
    PROVE  LoopInv'
<1>1. Shape /\ Bounded /\ RetriedOnce
  BY DEF LoopInv
<1>2. /\ calls' = calls
      /\ UNCHANGED <<evaluations, chars, visible, relations, unbound, result>>
      /\ pc # "done" /\ pc' \in {"bootstrap", "plan", "act", "end"}
      /\ pc' = "bootstrap" => pc = "bootstrap"
      /\ head' \in 1 .. MaxHead /\ round' \in 1 .. MaxRounds
  <2>1. CASE Commit
    BY <1>1, <2>1, BudgetAssumption DEF Commit, Shape
  <2>2. CASE \E status \in Status : Plan(status)
    BY <1>1, <2>2 DEF Plan, Shape
  <2>3. CASE NoCallLeft
    BY <1>1, <2>3 DEF NoCallLeft, Acting, Stops, Shape
  <2>4. CASE NextRound
    BY <1>1, <2>4, BudgetAssumption DEF NextRound, Shape
  <2> QED BY <2>1, <2>2, <2>3, <2>4
<1>4. Shape'
  BY <1>1, <1>2 DEF Shape
<1>5. Bounded'
  BY <1>1, <1>2, BudgetAssumption DEF Bounded
<1>6. RetriedOnce'
  BY <1>1, <1>2, SameCalls
<1> QED BY <1>2, <1>4, <1>5, <1>6, StillOpen DEF LoopInv

\* An attempted call is a record of the calls.
LEMMA AttemptKeeps ==
    ASSUME Shape, RetriedOnce, NEW act \in Action, NEW i \in Nat,
           NEW status \in CallStatus \cup {"rejected", "suppressed"},
           Attempt(act, i, status), status \in CallStatus => ~Known(act) \/ MayRetry(act, i)
    PROVE  RetriedOnce' /\ calls' \in Seq(CallRecord) /\ Len(calls') = Len(calls) + 1
<1> DEFINE c == [action |-> act, retries |-> i, status |-> status]
<1>1. /\ c \in CallRecord /\ calls' = Append(calls, c)
      /\ c.action = act /\ c.retries = i /\ c.status = status
  BY DEF CallRecord, Attempt
<1>2. c.status \in CallStatus => Admissible(c)
  BY <1>1 DEF Admissible
<1> HIDE DEF c
<1> QED BY <1>1, <1>2, OneCallMore

\* The first query is an action like any other.
LEMMA SearchIsAction == \A q \in Query : [kind |-> "search", on |-> q] \in Action
BY DEF Action

\* The bootstrap is the first call.
LEMMA BootstrapStep ==
    ASSUME LoopInv, NEW q \in Query, Bootstrap(q) \/ BootstrapRaises(q)
    PROVE  LoopInv'
<1>1. Shape /\ Bounded /\ RetriedOnce /\ pc = "bootstrap" /\ pc' = "plan"
  BY DEF LoopInv, Bootstrap, BootstrapRaises
<1>2. PICK act \in Action : act = [kind |-> "search", on |-> q]
  BY SearchIsAction
<1>3. ~Known(act) /\ Len(calls) = 0
  BY <1>1 DEF Shape, Known
<1>4. \E status \in CallStatus : Attempt(act, 0, status)
  <2>1. CASE Bootstrap(q)
    <3>1. PICK n \in Evaluated : \E r \in Found(n) : Attempt(act, 0, r.status)
      BY <1>2, <2>1 DEF Bootstrap
    <3>2. PICK r \in Found(n) : Attempt(act, 0, r.status)
      BY <3>1
    <3>3. r.status \in CallStatus
      BY <1>1, FoundType DEF Returned
    <3> QED BY <3>2, <3>3
  <2>2. CASE BootstrapRaises(q)
    BY <1>2, <2>2 DEF BootstrapRaises, CallStatus
  <2> QED BY <2>1, <2>2
<1>5. RetriedOnce' /\ calls' \in Seq(CallRecord) /\ Len(calls') = 1
  BY <1>1, <1>3, <1>4, AttemptKeeps
<1>6. /\ evaluations' \in 0 .. MaxEvaluations /\ chars' \in 0 .. MaxChars
      /\ DOMAIN visible' \subseteq Reachable /\ IsFiniteSet(DOMAIN visible')
      /\ Cardinality(DOMAIN visible') <= MaxIds
  <2>1. CASE Bootstrap(q)
    <3>1. PICK n \in Evaluated : \E r \in Found(n) : Disclose(r)
      BY <2>1 DEF Bootstrap
    <3>2. PICK r \in Found(n) : Disclose(r)
      BY <3>1
    <3>3. r \in Returned
      BY <1>1, FoundType
    <3> QED BY <1>1, <3>2, <3>3, DiscloseKeeps
  <2>2. CASE BootstrapRaises(q)
    BY <1>1, <2>2 DEF BootstrapRaises, Shape, Bounded
  <2> QED BY <2>1, <2>2
<1>7. UNCHANGED <<head, round, relations, result>>
  BY DEF Bootstrap, BootstrapRaises
<1>8. Shape'
  BY <1>1, <1>5, <1>6, <1>7 DEF Shape
<1>9. Bounded'
  BY <1>1, <1>5, <1>6, <1>7, BudgetAssumption DEF Bounded
<1> QED BY <1>1, <1>5, <1>7, <1>8, <1>9, StillOpen DEF LoopInv

\* The planner's actions that are refused, or whose call raises.
LEMMA RefusedStep ==
    ASSUME LoopInv, NEW act \in Action,
           \/ \E n \in 0 .. MaxCalls - Len(calls) : LastRound(act, n)
           \/ \E i \in 0 .. Len(calls) :
                 \/ Suppress(act, i) \/ RejectHandle(act, i) \/ NoCandidateLeft(act, i)
                 \/ CallRaises(act, i)
    PROVE  LoopInv'
<1>1. Shape /\ Bounded /\ RetriedOnce /\ Len(calls) \in Nat
  BY DEF LoopInv, Shape
<1>2. \E reason, terminal : Acting /\ Stops(reason, terminal)
  BY DEF LastRound, Suppress, RejectHandle, NoCandidateLeft, CallRaises, Admitted, Callable
<1>3. /\ UNCHANGED <<head, round, evaluations, chars, visible, relations, unbound, result>>
      /\ pc = "act" /\ pc' = "end"
  BY <1>2 DEF Acting, Stops
<1>4. RetriedOnce' /\ calls' \in Seq(CallRecord) /\ Len(calls') <= MaxCalls
  <2>1. CASE \E n \in 0 .. MaxCalls - Len(calls) : LastRound(act, n)
    <3>1. PICK n \in 0 .. MaxCalls - Len(calls) : LastRound(act, n)
      BY <2>1
    <3>2. PICK m \in Nat : m = n
      BY <1>1, BudgetAssumption
    <3>3. calls' = calls \o [k \in 1 .. m |->
                               [action |-> act, retries |-> 0, status |-> "rejected"]]
      BY <3>1, <3>2 DEF LastRound
    <3>4. RetriedOnce' /\ calls' \in Seq(CallRecord) /\ Len(calls') = Len(calls) + m
      BY <1>1, <3>3, RejectedCalls
    <3> QED BY <1>1, <3>1, <3>2, <3>4, BudgetAssumption
  <2>2. ASSUME NEW i \in 0 .. Len(calls),
               \/ Suppress(act, i) \/ RejectHandle(act, i) \/ NoCandidateLeft(act, i)
               \/ CallRaises(act, i)
        PROVE  RetriedOnce' /\ calls' \in Seq(CallRecord) /\ Len(calls') <= MaxCalls
    <3>1. Len(calls) < MaxCalls
      BY <2>2 DEF Suppress, RejectHandle, NoCandidateLeft, CallRaises, Admitted, Callable
    <3>2. \/ \E status \in {"rejected", "suppressed"} : Attempt(act, 0, status)
          \/ ~Known(act) /\ Attempt(act, 0, "error")
          \/ MayRetry(act, i) /\ Attempt(act, i, "error")
      BY <2>2 DEF Suppress, RejectHandle, NoCandidateLeft, CallRaises, Admitted
    <3>3. RetriedOnce' /\ calls' \in Seq(CallRecord) /\ Len(calls') = Len(calls) + 1
      <4>1. CASE \E status \in {"rejected", "suppressed"} : Attempt(act, 0, status)
        <5>1. PICK status \in {"rejected", "suppressed"} : Attempt(act, 0, status)
          BY <4>1
        <5>2. status \notin CallStatus
          BY DEF CallStatus
        <5> QED BY <1>1, <5>1, <5>2, AttemptKeeps
      <4>2. CASE ~Known(act) /\ Attempt(act, 0, "error")
        BY <1>1, <4>2, AttemptKeeps DEF CallStatus
      <4>3. CASE MayRetry(act, i) /\ Attempt(act, i, "error")
        BY <1>1, <4>3, AttemptKeeps DEF CallStatus
      <4> QED BY <3>2, <4>1, <4>2, <4>3
    <3> QED BY <1>1, <3>1, <3>3, BudgetAssumption
  <2> QED BY <2>1, <2>2
<1>5. Shape'
  BY <1>1, <1>3, <1>4 DEF Shape
<1>6. Bounded'
  BY <1>1, <1>3, <1>4 DEF Bounded
<1> QED BY <1>3, <1>4, <1>5, <1>6, StillOpen DEF LoopInv

-----------------------------------------------------------------------------
(* What the release of evidence rests on.                                  *)

\* One step back along the relations R.
Back(R, X) == X \cup {e[1] : e \in {e \in R : e[2] \in X}}

\* f goes back from S, step by step.
GoesBack(f, R, S, n) == f = [k \in 0 .. n |-> IF k = 0 THEN S ELSE Back(R, f[k - 1])]

\* The recursive walk back is defined.
LEMMA BackExists ==
    ASSUME NEW R, NEW S, NEW n \in Nat
    PROVE  \E f : GoesBack(f, R, S, n)
<1> DEFINE V == SUBSET (S \cup {e[1] : e \in R})
           step == [p \in Nat \X V |-> Back(R, p[2])]
<1>1. step \in [Nat \X V -> V]
  BY DEF Back
<1>2. \A k \in Nat, X \in V : step[<<k, X>>] = Back(R, X)
  OBVIOUS
<1>3. S \in V
  OBVIOUS
<1> HIDE DEF V, step
<1>4. PICK f : Iterates(f, V, S, step, 0, n)
  <2>1. 0 \in Nat /\ 0 <= n
    OBVIOUS
  <2> QED BY <1>1, <1>3, <2>1, IterationExists
<1>5. ASSUME NEW k \in 0 .. n
      PROVE  f[k] = IF k = 0 THEN S ELSE Back(R, f[k - 1])
  <2>1. CASE k = 0
    BY <1>4, <2>1 DEF Iterates
  <2>2. CASE k # 0
    <3>1. k \in 0 + 1 .. n /\ k - 1 \in 0 .. n /\ k \in Nat
      BY <2>2
    <3>2. f[k] = step[<<k, f[k - 1]>>] /\ f[k - 1] \in V
      BY <1>4, <3>1 DEF Iterates
    <3> QED BY <1>2, <2>2, <3>1, <3>2
  <2> QED BY <2>1, <2>2
<1>6. f = [k \in 0 .. n |-> f[k]]
  BY <1>4 DEF Iterates
<1>7. GoesBack(f, R, S, n)
  BY <1>5, <1>6 DEF GoesBack
<1> QED BY <1>7

\* Sources is where the steps back from S end.
LEMMA SourcesEnd ==
    ASSUME IsFiniteSet(relations), NEW S
    PROVE  \E f : /\ GoesBack(f, relations, S, Cardinality(relations))
                  /\ Sources(S) = f[Cardinality(relations)]
<1>1. PICK R : R = relations
  OBVIOUS
<1>2. PICK n \in Nat : n = Cardinality(R)
  BY <1>1, FS_CardinalityType
<1> DEFINE back[k \in 0 .. n] ==
             IF k = 0 THEN S ELSE back[k - 1] \cup {e[1] : e \in {e \in R : e[2] \in back[k - 1]}}
<1>3. Sources(S) = back[n]
  BY <1>1, <1>2 DEF Sources
<1>4. GoesBack(back, R, S, n)
  <2>1. \E f : f = [k \in 0 .. n |-> IF k = 0 THEN S
                          ELSE f[k - 1] \cup {e[1] : e \in {e \in R : e[2] \in f[k - 1]}}]
    <3>1. PICK f : GoesBack(f, R, S, n)
      BY BackExists
    <3>2. f = [k \in 0 .. n |-> IF k = 0 THEN S
                 ELSE f[k - 1] \cup {e[1] : e \in {e \in R : e[2] \in f[k - 1]}}]
      BY <3>1, Zenon DEF GoesBack, Back
    <3> QED BY <3>2, Zenon
  <2>2. back = [k \in 0 .. n |-> IF k = 0 THEN S
                  ELSE back[k - 1] \cup {e[1] : e \in {e \in R : e[2] \in back[k - 1]}}]
    BY <2>1, Zenon
  <2> QED BY <2>2 DEF GoesBack, Back
<1> HIDE DEF back
<1> QED BY <1>1, <1>2, <1>3, <1>4

\* What a part of the evidence rests on, all of it rests on.
LEMMA GoesBackGrows ==
    ASSUME NEW R, NEW S, NEW T \in SUBSET S, NEW n \in Nat, NEW f, NEW g,
           GoesBack(f, R, T, n), GoesBack(g, R, S, n)
    PROVE  f[n] \subseteq g[n]
<1> DEFINE Smaller == {k \in 0 .. n : f[k] \subseteq g[k]}
<1>1. \A k \in 0 .. n : /\ f[k] = IF k = 0 THEN T ELSE Back(R, f[k - 1])
                        /\ g[k] = IF k = 0 THEN S ELSE Back(R, g[k - 1])
  BY DEF GoesBack
<1>2. 0 \in Smaller
  BY <1>1
<1>3. ASSUME NEW k \in 0 .. n - 1, k \in Smaller PROVE k + 1 \in Smaller
  <2>1. f[k + 1] = Back(R, f[k]) /\ g[k + 1] = Back(R, g[k])
    BY <1>1
  <2>2. Back(R, f[k]) \subseteq Back(R, g[k])
    BY <1>3 DEF Back
  <2> QED BY <2>1, <2>2
<1> HIDE DEF Smaller
<1>4. \A k \in 0 .. n : k \in Smaller
  <2>1. 0 \in Nat
    OBVIOUS
  <2> QED BY <1>2, <1>3, <2>1, Induction
<1> QED BY <1>4 DEF Smaller

\* Less evidence rests on less.
LEMMA SourcesGrow ==
    ASSUME IsFiniteSet(relations), NEW S, NEW T \in SUBSET S
    PROVE  Sources(T) \subseteq Sources(S)
<1>1. PICK R : R = relations
  OBVIOUS
<1>2. PICK n \in Nat : n = Cardinality(R)
  BY <1>1, FS_CardinalityType
<1>3. PICK f : GoesBack(f, R, T, n) /\ Sources(T) = f[n]
  BY <1>1, <1>2, SourcesEnd
<1>4. PICK g : GoesBack(g, R, S, n) /\ Sources(S) = g[n]
  BY <1>1, <1>2, SourcesEnd
<1> QED BY <1>3, <1>4, GoesBackGrows

\* A call that the host executes.
LEMMA CallStep ==
    ASSUME LoopInv, NEW act \in Action, NEW i \in 0 .. Len(calls), Call(act, i)
    PROVE  LoopInv'
<1>1. Shape /\ Bounded /\ RetriedOnce /\ Len(calls) \in Nat
  BY DEF LoopInv, Shape
<1>2. PICK n \in Evaluated : \E r \in Execute(act, n) :
         /\ Attempt(act, IF Known(act) THEN i ELSE 0, r.status)
         /\ Disclose(r) /\ relations' = relations \cup Related(act, r)
  BY DEF Call
<1>3. PICK r \in Returned :
         /\ Attempt(act, IF Known(act) THEN i ELSE 0, r.status)
         /\ Disclose(r) /\ relations' = relations \cup Related(act, r)
  BY <1>1, <1>2, ExecuteType
<1>4. /\ UNCHANGED <<head, round, result>> /\ pc = "act" /\ pc' \in {"end", "act"}
      /\ Len(calls) < MaxCalls /\ (Known(act) => MayRetry(act, i))
  BY DEF Call, Admitted, Callable, Acting
<1>5. RetriedOnce' /\ calls' \in Seq(CallRecord) /\ Len(calls') = Len(calls) + 1
  <2>1. r.status \in CallStatus
    BY DEF Returned
  <2>2. PICK j \in Nat : j = IF Known(act) THEN i ELSE 0
    BY <1>1
  <2>3. Attempt(act, j, r.status) /\ (~Known(act) \/ MayRetry(act, j))
    BY <1>3, <1>4, <2>2
  <2> QED BY <1>1, <2>1, <2>3, AttemptKeeps
<1>6. IsFiniteSet(relations')
  <2>1. IsFiniteSet(Related(act, r))
    BY FS_EmptySet, FS_Singleton DEF Related
  <2> QED BY <1>1, <1>3, <2>1, FS_Union DEF Shape
<1>7. /\ evaluations' \in 0 .. MaxEvaluations /\ chars' \in 0 .. MaxChars
      /\ DOMAIN visible' \subseteq Reachable /\ IsFiniteSet(DOMAIN visible')
      /\ Cardinality(DOMAIN visible') <= MaxIds
  BY <1>1, <1>3, DiscloseKeeps
<1>8. Shape'
  BY <1>1, <1>4, <1>5, <1>6, <1>7 DEF Shape
<1>9. Bounded'
  BY <1>1, <1>4, <1>5, <1>7, BudgetAssumption DEF Bounded
<1> QED BY <1>4, <1>5, <1>8, <1>9, StillOpen DEF LoopInv

\* The evidence with which a run is finished was opened in scope; a verifier that looked
\* at it could prove all it came from.
LEMMA FinishIsReleased ==
    ASSUME LoopInv, NEW reason, NEW E, NEW checked \in BOOLEAN, Finish(reason, E, checked),
           \A id \in E : Verified(id), checked /\ E # {} => Provable(E)
    PROVE  LoopInv'
<1>1. /\ UNCHANGED <<head, round, calls, evaluations, chars, visible, relations, unbound>>
      /\ pc' = "done" /\ result'.evidence = E /\ result'.checked = checked
  BY DEF Finish
<1>2. Shape /\ Bounded /\ RetriedOnce
  BY DEF LoopInv
<1>3. Shape' /\ Bounded'
  BY <1>1, <1>2 DEF Shape, Bounded
<1>4. RetriedOnce'
  BY <1>1, <1>2, SameCalls
<1>5. ASSUME NEW id \in E
      PROVE  /\ id \in DOMAIN visible /\ id[1] \in Allowed /\ visible[id] <= HitChars
             /\ checked => \A s \in Sources({id}) : s \in DOMAIN visible /\ s \notin unbound
  <2>1. id \in DOMAIN visible /\ id # RouteId /\ visible[id] <= HitChars
    BY DEF Verified
  <2>2. id[1] \in Allowed
    BY <1>2, <2>1 DEF Shape, Reachable
  <2>3. ASSUME checked PROVE \A s \in Sources({id}) : s \in DOMAIN visible /\ s \notin unbound
    <3>1. Sources({id}) \subseteq Sources(E)
      BY <1>2, SourcesGrow DEF Shape
    <3> QED BY <2>3, <3>1 DEF Provable
  <2> QED BY <2>1, <2>2, <2>3
<1>6. \A id : Sources({id})' = Sources({id})
  BY <1>1 DEF Sources
<1>7. Released'
  BY <1>1, <1>5, <1>6 DEF Released
<1> QED BY <1>1, <1>3, <1>4, <1>7 DEF LoopInv

\* Whatever the verifier says, a release ends the run with evidence as above.
LEMMA ReleaseStep ==
    ASSUME LoopInv, NEW reason, NEW finals, Release(reason, finals)
    PROVE  LoopInv'
<1> DEFINE good == \A id \in finals : Verified(id)
           selected == IF good THEN finals ELSE {}
<1>1. PICK E : E = selected /\ \A id \in E : Verified(id)
  <2>1. \A id \in selected : Verified(id)
    OBVIOUS
  <2> HIDE DEF selected
  <2> QED BY <2>1
<1>2. \/ \E why : Finish(why, E, FALSE)
      \/ \E why : Finish(why, {}, FALSE)
      \/ Provable(E) /\ \E why : Finish(why, E, TRUE) \/ Finish(why, {}, TRUE)
  BY <1>1 DEF Release
<1>3. ASSUME NEW why, Finish(why, {}, FALSE) \/ Finish(why, {}, TRUE) PROVE LoopInv'
  <2>1. PICK F : F = {}
    OBVIOUS
  <2>2. PICK checked \in BOOLEAN : Finish(why, F, checked)
    BY <1>3, <2>1
  <2> QED BY <2>1, <2>2, FinishIsReleased
<1>4. ASSUME NEW why, Finish(why, E, FALSE) PROVE LoopInv'
  BY <1>1, <1>4, FinishIsReleased
<1>5. ASSUME NEW why, Finish(why, E, TRUE), Provable(E) PROVE LoopInv'
  BY <1>1, <1>5, FinishIsReleased
<1> QED BY <1>2, <1>3, <1>4, <1>5

\* Every step of the loop, of its planner, and of others who commit, keeps its invariant.
LEMMA LoopStep == ASSUME LoopInv, [Next]_vars PROVE LoopInv'
<1>1. CASE UNCHANGED vars
  <2>1. \A S : Sources(S)' = Sources(S)
    BY <1>1 DEF vars, Sources
  <2> QED BY <1>1, <2>1 DEF LoopInv, Shape, Bounded, RetriedOnce, Released, Executed, Retried, vars
<1>2. CASE Commit \/ (\E status \in Status : Plan(status)) \/ NoCallLeft \/ NextRound
  BY <1>2, QuietStep
<1>3. CASE \E q \in Query : Bootstrap(q) \/ BootstrapRaises(q)
  BY <1>3, BootstrapStep
<1>4. CASE NoDecision
  BY <1>4, ReleaseStep DEF NoDecision
<1>5. CASE \E reason \in Reasons, finals \in Finals : Decide(reason, finals)
  BY <1>5, ReleaseStep DEF Decide
<1>6. ASSUME NEW act \in Action,
             \/ \E n \in 0 .. MaxCalls - Len(calls) : LastRound(act, n)
             \/ \E i \in 0 .. Len(calls) :
                   \/ Suppress(act, i) \/ RejectHandle(act, i) \/ NoCandidateLeft(act, i)
                   \/ Call(act, i) \/ CallRaises(act, i)
      PROVE  LoopInv'
  BY <1>6, RefusedStep, CallStep
<1> QED BY <1>1, <1>2, <1>3, <1>4, <1>5, <1>6 DEF Next

\* A run starts with all its budgets unspent.
LEMMA LoopInit == ASSUME Init PROVE LoopInv
<1>1. DOMAIN visible = {} /\ relations = {} /\ result.evidence = {} /\ calls = <<>>
  BY DEF Init, Empty, NoResult
<1>2. IsFiniteSet(DOMAIN visible) /\ Cardinality(DOMAIN visible) = 0 /\ IsFiniteSet(relations)
  BY <1>1, FS_EmptySet
<1>3. calls \in Seq(CallRecord) /\ Len(calls) = 0 /\ DOMAIN calls = {}
  BY <1>1
<1>4. Shape
  BY <1>1, <1>2, <1>3, BudgetAssumption DEF Init, Shape
<1>5. Bounded
  BY <1>1, <1>2, <1>3, BudgetAssumption DEF Init, Bounded
<1>6. RetriedOnce /\ Released
  BY <1>1, <1>3 DEF RetriedOnce, Released
<1> QED BY <1>1, <1>4, <1>5, <1>6 DEF LoopInv

-----------------------------------------------------------------------------
(* Recall (Publication).                                                   *)

Commits ==
    [items : [Item -> Published!Version], stones : SUBSET Published!Stone]

\* A tombstone is never removed, so HEAD of a recall holds those of all commits before.
Entombed ==
    /\ commits \in Seq(Commits) /\ began \in [Reader -> Nat]
    /\ \A r \in Reader : began[r] <= Len(commits)
    /\ Len(commits) > 0
    /\ \A n, m \in DOMAIN commits : n <= m => commits[n].stones \subseteq commits[m].stones

\* A commit that removes no tombstone keeps the history in order.
LEMMA PushKeeps ==
    ASSUME Entombed, NEW tree \in Commits, commits[Len(commits)].stones \subseteq tree.stones,
           Published!Push(tree)
    PROVE  Entombed'
<1>1. commits' = Append(commits, tree) /\ began' = began
  BY DEF Published!Push
<1>2. commits \in Seq(Commits) /\ Len(commits) \in Nat /\ Len(commits) > 0
  BY DEF Entombed
<1>3. /\ commits' \in Seq(Commits) /\ Len(commits') = Len(commits) + 1
      /\ DOMAIN commits' = 1 .. Len(commits) + 1
      /\ \A n \in 1 .. Len(commits) : commits'[n] = commits[n]
      /\ commits'[Len(commits) + 1] = tree
  BY <1>1, <1>2
<1>4. \A n \in DOMAIN commits : commits[n].stones \subseteq tree.stones
  BY <1>2 DEF Entombed
<1>5. ASSUME NEW n \in DOMAIN commits', NEW m \in DOMAIN commits', n <= m
      PROVE  commits'[n].stones \subseteq commits'[m].stones
  <2>1. CASE m \in 1 .. Len(commits)
    <3>1. n \in 1 .. Len(commits)
      BY <1>2, <1>3, <1>5, <2>1
    <3> QED BY <1>2, <1>3, <1>5, <2>1, <3>1 DEF Entombed
  <2>2. CASE m = Len(commits) + 1
    BY <1>2, <1>3, <1>4, <2>2
  <2> QED BY <1>3, <2>1, <2>2
<1>6. began' \in [Reader -> Nat] /\ \A r \in Reader : began'[r] <= Len(commits')
  BY <1>1, <1>2, <1>3 DEF Entombed
<1> QED BY <1>2, <1>3, <1>5, <1>6 DEF Entombed

\* Commits, builders and recalls keep the history of tombstones in order.
LEMMA PublishedStep ==
    ASSUME Entombed, Published!Next \/ UNCHANGED ofPublished
    PROVE  Entombed'
<1>1. PICK tree \in Commits : tree = commits[Len(commits)] /\ tree = Published!Tree
  BY DEF Entombed, Published!Tree, Published!HEAD
<1>2. ASSUME NEW i \in Item, Published!Entomb(i) PROVE Entombed'
  <2> DEFINE stone == [item |-> i, text |-> tree.items[i].text]
             new == [tree EXCEPT !.stones = @ \cup {stone}]
  <2>1. stone \in Published!Stone
    BY DEF Commits, Published!Stone, Published!Version
  <2>2. new \in Commits /\ tree.stones \subseteq new.stones
    BY <2>1 DEF Commits
  <2>3. Published!Push(new)
    BY <1>1, <1>2 DEF Published!Entomb
  <2> QED BY <1>1, <2>2, <2>3, PushKeeps
<1>3. ASSUME NEW i \in Item, NEW v \in Published!Version, Published!Edit(i, v)
      PROVE  Entombed'
  <2> DEFINE new == [tree EXCEPT !.items[i] = v]
  <2>1. new \in Commits /\ tree.stones \subseteq new.stones
    BY DEF Commits
  <2>2. Published!Push(new)
    BY <1>1, <1>3 DEF Published!Edit
  <2> QED BY <1>1, <2>1, <2>2, PushKeeps
<1>4. CASE UNCHANGED <<commits, began>>
  BY <1>4 DEF Entombed
<1>5. ASSUME NEW r \in Reader, Published!Begin(r) \/ Published!Return(r) PROVE Entombed'
  <2>1. commits' = commits /\ \E n \in {0, Len(commits)} : began' = [began EXCEPT ![r] = n]
    BY <1>5 DEF Published!Begin, Published!Return, Published!HEAD
  <2>2. Len(commits) \in Nat
    BY DEF Entombed
  <2> QED BY <2>1, <2>2 DEF Entombed
<1>6. CASE \/ Published!Invalidate
           \/ \E s \in Builder : \/ Published!Check(s) \/ Published!ReadCommit(s)
                                 \/ Published!PublishAuthority(s) \/ Published!PublishHybrid(s)
                                 \/ Published!Crash(s)
  BY <1>4, <1>6 DEF Published!Invalidate, Published!Check, Published!ReadCommit,
     Published!PublishAuthority, Published!PublishHybrid, Published!Crash
<1>7. CASE UNCHANGED ofPublished
  BY <1>4, <1>7 DEF ofPublished
<1> QED BY <1>2, <1>3, <1>5, <1>6, <1>7 DEF Published!Next

\* What a recall reopens is not entombed in the commit it began at, nor in one before.
LEMMA RecallIsClean == ASSUME Entombed PROVE Published!NothingDeleted
<1>1. SUFFICES ASSUME NEW r \in Reader, NEW match \in Published!Answer(r),
                      NEW n \in 1 .. began[r]
               PROVE  /\ match \notin commits[n].stones
                      /\ Published!StonesOf(commits[n], match.item)
                           \subseteq commits[began[r]].items[match.item].reactivates
  BY DEF Published!NothingDeleted
<1>2. PICK b0 \in Nat : b0 = began[r] /\ b0 <= Len(commits) /\ n <= b0
  BY DEF Entombed
<1>3. PICK tree \in Commits : tree = commits[b0]
  BY <1>2 DEF Entombed
<1>4. Published!Valid(tree) /\ match \in Published!Reopened(b0)
  BY <1>2, <1>3 DEF Published!Answer
<1>5. PICK i \in Published!Eligible(tree) : match = [item |-> i, text |-> tree.items[i].text]
  BY <1>3, <1>4 DEF Published!Reopened
<1>6. i \in Item /\ Published!Bars(tree, i) = {}
  BY <1>5 DEF Published!Eligible
<1>7. commits[n].stones \subseteq tree.stones
  BY <1>2, <1>3 DEF Entombed
<1>8. match \notin tree.stones
  BY <1>5, <1>6 DEF Published!Bars, Published!StonesOf
<1>9. Published!StonesOf(tree, i) \subseteq tree.items[i].reactivates
  BY <1>4, <1>6 DEF Published!Valid
<1>10. Published!StonesOf(commits[n], i) \subseteq Published!StonesOf(tree, i)
  BY <1>7 DEF Published!StonesOf
<1> QED BY <1>2, <1>3, <1>5, <1>7, <1>8, <1>9, <1>10

-----------------------------------------------------------------------------
(* The dossier and the decision (Answerability).                           *)

\* As many steps as there are relations go back as far as any.
LEMMA GoesBackToTheEnd ==
    ASSUME NEW R, IsFiniteSet(R), NEW S, NEW n \in Nat, Cardinality(R) <= n,
           NEW f, GoesBack(f, R, S, n)
    PROVE  \A e \in R : e[2] \in f[n] => e[1] \in f[n]
<1> DEFINE Used(k) == {e \in R : e[2] \in f[k]}
           Ended(k) == \A e \in Used(k) : e[1] \in f[k]
           T == {k \in 0 .. n : Ended(k) \/ Cardinality(Used(k)) > k}
<1>1. \A k \in 0 .. n : f[k] = IF k = 0 THEN S ELSE Back(R, f[k - 1])
  BY DEF GoesBack
<1>2. \A k : IsFiniteSet(Used(k)) /\ Cardinality(Used(k)) \in Nat
  <2> TAKE k
  <2>1. Used(k) \in SUBSET R
    OBVIOUS
  <2> HIDE DEF Used
  <2> QED BY <2>1, FS_Subset, FS_CardinalityType
<1>3. 0 \in T
  <2>1. CASE Used(0) = {}
    BY <2>1
  <2>2. CASE Used(0) # {}
    <3>1. Cardinality(Used(0)) # 0
      <4> HIDE DEF Used
      <4> QED BY <1>2, <2>2, FS_EmptySet
    <3>2. Cardinality(Used(0)) > 0
      <4> HIDE DEF Used
      <4> QED BY <1>2, <3>1
    <3> QED BY <3>2
  <2> QED BY <2>1, <2>2
<1>4. ASSUME NEW k \in 0 .. n - 1, k \in T PROVE k + 1 \in T
  <2>1. f[k + 1] = f[k] \cup {e[1] : e \in Used(k)}
    <3>1. f[k + 1] = Back(R, f[k])
      BY <1>1
    <3> QED BY <3>1 DEF Back
  <2>2. CASE Used(k + 1) = Used(k)
    <3>1. Ended(k + 1)
      BY <2>1, <2>2
    <3> HIDE DEF Ended, Used
    <3> QED BY <3>1
  <2>3. CASE Used(k + 1) # Used(k)
    <3>1. ~Ended(k)
      BY <2>1, <2>3
    <3>2. Used(k) \in SUBSET Used(k + 1)
      BY <2>1
    <3>3. Cardinality(Used(k)) > k
      <4> HIDE DEF Ended, Used
      <4> QED BY <3>1, <1>4
    <3>4. Cardinality(Used(k + 1)) > k + 1
      <4>1. PICK A : A = Used(k)
        OBVIOUS
      <4>2. PICK B : B = Used(k + 1)
        OBVIOUS
      <4> HIDE DEF Used
      <4>3. Cardinality(A) \in Nat /\ Cardinality(B) \in Nat /\ IsFiniteSet(B)
        BY <1>2, <4>1, <4>2
      <4>4. Cardinality(A) <= Cardinality(B) /\ Cardinality(B) # Cardinality(A)
        BY <4>1, <4>2, <4>3, <3>2, <2>3, FS_Subset
      <4> QED BY <4>1, <4>2, <4>3, <4>4, <3>3
    <3> HIDE DEF Ended, Used
    <3> QED BY <3>4
  <2> QED BY <2>2, <2>3
<1>5. n \in T
  <2> HIDE DEF T
  <2>1. \A k \in 0 .. n : k \in T
    <3>1. 0 \in Nat
      OBVIOUS
    <3> QED BY <1>3, <1>4, <3>1, Induction
  <2> QED BY <2>1
<1>6. Cardinality(Used(n)) <= n
  <2>1. Used(n) \in SUBSET R
    OBVIOUS
  <2> HIDE DEF Used
  <2>2. Cardinality(Used(n)) <= Cardinality(R) /\ Cardinality(R) \in Nat
    BY <2>1, FS_Subset, FS_CardinalityType
  <2> QED BY <1>2, <2>2
<1>7. Ended(n)
  <2> HIDE DEF Ended, Used
  <2> QED BY <1>2, <1>5, <1>6
<1> QED BY <1>7

\* The instance counts as its module does.
LEMMA SameCardinality == \A S : Answers!Cardinality(S) = Cardinality(S)
BY DEF Answers!Cardinality, Cardinality

\* The relations of g, by their ends.
Ends(g) == {<<e.from, e.to>> : e \in g.relations}

\* There are no more pairs of ends than relations.
LEMMA EndsAreFewer ==
    ASSUME NEW g, IsFiniteSet(g.relations)
    PROVE  IsFiniteSet(Ends(g)) /\ Cardinality(Ends(g)) <= Cardinality(g.relations)
<1>1. PICK R : R = g.relations
  OBVIOUS
<1> DEFINE s == [e \in R |-> <<e.from, e.to>>]
<1>2. s \in Surjection(R, Ends(g))
  BY <1>1 DEF Surjection, Ends
<1> HIDE DEF s
<1> QED BY <1>1, <1>2, FS_Surjection

\* What the dossier needs is where the steps back from the final evidence end.
LEMMA NeededEnd ==
    ASSUME NEW g, IsFiniteSet(g.relations)
    PROVE  \E f : /\ GoesBack(f, Ends(g), g.finals, Cardinality(g.relations))
                  /\ Answers!Needed(g) = f[Cardinality(g.relations)]
<1>1. PICK R : R = g.relations
  OBVIOUS
<1>2. PICK n \in Nat : n = Cardinality(R)
  BY <1>1, FS_CardinalityType
<1>3. PICK S : S = g.finals
  OBVIOUS
<1> DEFINE back[k \in 0 .. n] ==
             IF k = 0 THEN S
             ELSE back[k - 1] \cup {e.from : e \in {r \in R : r.to \in back[k - 1]}}
<1>4. Answers!Needed(g) = back[n]
  BY <1>1, <1>2, <1>3, SameCardinality DEF Answers!Needed
<1>5. \A X : Back(Ends(g), X) = X \cup {e.from : e \in {r \in R : r.to \in X}}
  <2> TAKE X
  <2>1. Ends(g) = {<<e.from, e.to>> : e \in R}
    BY <1>1 DEF Ends
  <2>2. {p[1] : p \in {p \in Ends(g) : p[2] \in X}} = {e.from : e \in {r \in R : r.to \in X}}
    <3>1. ASSUME NEW e \in R PROVE <<e.from, e.to>>[1] = e.from /\ <<e.from, e.to>>[2] = e.to
      OBVIOUS
    <3>2. ASSUME NEW p \in Ends(g), p[2] \in X PROVE \E e \in R : e.to \in X /\ e.from = p[1]
      <4>1. PICK e \in R : p = <<e.from, e.to>>
        BY <2>1
      <4> QED BY <3>1, <3>2, <4>1
    <3>3. ASSUME NEW e \in R, e.to \in X PROVE \E p \in Ends(g) : p[2] \in X /\ p[1] = e.from
      BY <2>1, <3>1, <3>3
    <3> QED BY <3>2, <3>3, Zenon
  <2> QED BY <2>2, Zenon DEF Back
<1>6. GoesBack(back, Ends(g), S, n)
  <2>1. \E f : f = [k \in 0 .. n |-> IF k = 0 THEN S
                     ELSE f[k - 1] \cup {e.from : e \in {r \in R : r.to \in f[k - 1]}}]
    <3>1. PICK f : GoesBack(f, Ends(g), S, n)
      BY <1>2, BackExists
    <3>2. f = [k \in 0 .. n |-> IF k = 0 THEN S
                 ELSE f[k - 1] \cup {e.from : e \in {r \in R : r.to \in f[k - 1]}}]
      BY <3>1, <1>5, Zenon DEF GoesBack
    <3> QED BY <3>2, Zenon
  <2>2. back = [k \in 0 .. n |-> IF k = 0 THEN S
                  ELSE back[k - 1] \cup {e.from : e \in {r \in R : r.to \in back[k - 1]}}]
    BY <2>1, Zenon
  <2> HIDE DEF back
  <2> QED BY <2>2, <1>5, Zenon DEF GoesBack
<1> HIDE DEF back
<1> QED BY <1>1, <1>2, <1>3, <1>4, <1>6

\* Whatever was read to reach what the dossier needs, it needs too.
LEMMA NeededIsClosed ==
    ASSUME NEW g, IsFiniteSet(g.relations)
    PROVE  \A e \in g.relations : e.to \in Answers!Needed(g) => e.from \in Answers!Needed(g)
<1>1. PICK n \in Nat : n = Cardinality(g.relations)
  BY FS_CardinalityType
<1>2. PICK f : GoesBack(f, Ends(g), g.finals, n) /\ Answers!Needed(g) = f[n]
  BY <1>1, NeededEnd
<1>3. \A p \in Ends(g) : p[2] \in f[n] => p[1] \in f[n]
  BY <1>1, <1>2, EndsAreFewer, GoesBackToTheEnd
<1>4. ASSUME NEW e \in g.relations, e.to \in f[n] PROVE e.from \in f[n]
  <2>1. <<e.from, e.to>> \in Ends(g)
    BY DEF Ends
  <2> QED BY <1>3, <1>4, <2>1
<1> QED BY <1>2, <1>4

\* A walk over E goes from edge to edge.
Chain(E) ==
    {w \in Seq(E) : Len(w) > 0 /\ \A i \in 1 .. Len(w) - 1 : w[i].to = w[i + 1].from}

\* The walks that are one edge longer than those of X.
Longer(E, X) ==
    {Append(p[1], p[2]) : p \in {q \in X \X E : Answers!Last(q[1]).to = q[2].from}}

Starts(E) == {<<e>> : e \in {r \in E : \A f \in E : f.to # r.from}}

\* A walk that an adjacent edge extends is a walk.
LEMMA LongerIsChain ==
    ASSUME NEW E, NEW X \in SUBSET Chain(E)
    PROVE  Longer(E, X) \subseteq Chain(E)
<1>1. ASSUME NEW w \in X, NEW e \in E, Answers!Last(w).to = e.from
      PROVE  Append(w, e) \in Chain(E)
  <2>1. w \in Seq(E) /\ Len(w) \in Nat /\ Len(w) > 0
    BY DEF Chain
  <2>2. /\ Append(w, e) \in Seq(E) /\ Len(Append(w, e)) = Len(w) + 1
        /\ \A i \in 1 .. Len(w) : Append(w, e)[i] = w[i]
        /\ Append(w, e)[Len(w) + 1] = e
    BY <2>1
  <2>3. w[Len(w)].to = e.from
    BY <1>1 DEF Answers!Last
  <2>4. \A i \in 1 .. Len(w) - 1 : w[i].to = w[i + 1].from
    BY DEF Chain
  <2>5. ASSUME NEW i \in 1 .. Len(w) PROVE Append(w, e)[i].to = Append(w, e)[i + 1].from
    <3>1. CASE i = Len(w)
      BY <2>1, <2>2, <2>3, <3>1
    <3>2. CASE i < Len(w)
      BY <2>1, <2>2, <2>4, <3>2
    <3> QED BY <2>1, <3>1, <3>2
  <2>6. PICK s : s = Append(w, e)
    OBVIOUS
  <2>7. s \in Seq(E) /\ Len(s) - 1 = Len(w) /\ Len(s) > 0
    BY <2>1, <2>2, <2>6
  <2>8. \A i \in 1 .. Len(s) - 1 : s[i].to = s[i + 1].from
    BY <2>5, <2>6, <2>7
  <2>9. s \in Chain(E)
    BY <2>7, <2>8 DEF Chain
  <2> QED BY <2>6, <2>9
<1>2. ASSUME NEW q \in X \X E, Answers!Last(q[1]).to = q[2].from
      PROVE  Append(q[1], q[2]) \in Chain(E)
  BY <1>1, <1>2
<1> QED BY <1>2, Zenon DEF Longer

\* All that Walks enumerates goes from edge to edge.
LEMMA WalkIsChain ==
    ASSUME NEW E, IsFiniteSet(E), NEW w \in Answers!Walks(E)
    PROVE  w \in Chain(E)
<1>1. PICK n \in Nat : n = Cardinality(E)
  BY FS_CardinalityType
<1>2. PICK S : S = Starts(E)
  OBVIOUS
<1>3. PICK V : V = SUBSET Chain(E)
  OBVIOUS
<1> DEFINE walks[k \in 1 .. n] ==
             IF k = 1 THEN S
             ELSE {Append(p[1], p[2]) :
                     p \in {q \in walks[k - 1] \X E : Answers!Last(q[1]).to = q[2].from}}
<1>4. Answers!Walks(E) = UNION Answers!Range(walks)
  BY <1>1, <1>2, SameCardinality, ZenonT(30) DEF Answers!Walks, Starts
<1>5. S \in V
  <2>1. ASSUME NEW e \in E PROVE <<e>> \in Chain(E)
    BY DEF Chain
  <2> QED BY <1>2, <1>3, <2>1 DEF Starts
<1> DEFINE step == [p \in Nat \X V |-> Longer(E, p[2])]
<1>6. step \in [Nat \X V -> V] /\ \A k \in Nat, X \in V : step[<<k, X>>] = Longer(E, X)
  <2>1. \A X \in V : Longer(E, X) \in V
    BY <1>3, LongerIsChain
  <2> QED BY <2>1
<1> HIDE DEF step
<1>7. \E f : /\ n > 0 => f \in [1 .. n -> V]
             /\ f = [k \in 1 .. n |-> IF k = 1 THEN S ELSE Longer(E, f[k - 1])]
  <2>1. CASE n = 0
    <3> DEFINE f == [k \in 1 .. n |-> S]
    <3>1. f = [k \in 1 .. n |-> IF k = 1 THEN S ELSE Longer(E, f[k - 1])]
      BY <2>1
    <3> HIDE DEF f
    <3> QED BY <2>1, <3>1
  <2>2. CASE n > 0
    <3>1. PICK f : Iterates(f, V, S, step, 1, n)
      <4>1. 1 \in Nat /\ 1 <= n
        BY <2>2
      <4> QED BY <1>5, <1>6, <4>1, IterationExists
    <3>2. ASSUME NEW k \in 1 .. n PROVE f[k] = IF k = 1 THEN S ELSE Longer(E, f[k - 1])
      <4>1. CASE k = 1
        BY <3>1, <4>1 DEF Iterates
      <4>2. CASE k # 1
        <5>1. k \in 1 + 1 .. n /\ k - 1 \in 1 .. n /\ k \in Nat
          BY <4>2
        <5>2. f[k] = step[<<k, f[k - 1]>>] /\ f[k - 1] \in V
          BY <3>1, <5>1 DEF Iterates
        <5> QED BY <1>6, <4>2, <5>1, <5>2
      <4> QED BY <4>1, <4>2
    <3>3. f \in [1 .. n -> V] /\ f = [k \in 1 .. n |-> f[k]]
      BY <3>1 DEF Iterates
    <3>4. f = [k \in 1 .. n |-> IF k = 1 THEN S ELSE Longer(E, f[k - 1])]
      BY <3>2, <3>3
    <3> QED BY <3>3, <3>4
  <2> QED BY <2>1, <2>2
<1>8. walks = [k \in 1 .. n |-> IF k = 1 THEN S ELSE Longer(E, walks[k - 1])]
  <2>1. \E f : f = [k \in 1 .. n |-> IF k = 1 THEN S
                 ELSE {Append(p[1], p[2]) :
                         p \in {q \in f[k - 1] \X E : Answers!Last(q[1]).to = q[2].from}}]
    BY <1>7, Zenon DEF Longer
  <2>2. walks = [k \in 1 .. n |-> IF k = 1 THEN S
                 ELSE {Append(p[1], p[2]) :
                         p \in {q \in walks[k - 1] \X E : Answers!Last(q[1]).to = q[2].from}}]
    BY <2>1, Zenon
  <2> HIDE DEF walks
  <2> QED BY <2>2, Zenon DEF Longer
<1> HIDE DEF walks
<1> DEFINE Good == {k \in 1 .. n : walks[k] \in V}
<1>9. ASSUME NEW k \in 1 .. n PROVE walks[k] \in V
  <2>1. 1 \in Good
    BY <1>5, <1>8
  <2>2. ASSUME NEW i \in 1 .. n - 1, i \in Good PROVE i + 1 \in Good
    <3>1. walks[i + 1] = Longer(E, walks[i]) /\ walks[i] \in V
      BY <1>8, <2>2
    <3> QED BY <1>3, <3>1, LongerIsChain
  <2> HIDE DEF Good
  <2>3. \A i \in 1 .. n : i \in Good
    <3>1. 1 \in Nat
      OBVIOUS
    <3> QED BY <2>1, <2>2, <3>1, Induction
  <2> QED BY <2>3 DEF Good
<1>10. DOMAIN walks = 1 .. n
  BY <1>8
<1>11. PICK k \in DOMAIN walks : w \in walks[k]
  BY <1>4 DEF Answers!Range
<1> QED BY <1>3, <1>9, <1>10, <1>11

\* The nodes of a walk are where its first edge starts, and where each edge ends.
LEMMA NodesOfChain ==
    ASSUME NEW E, NEW w \in Chain(E)
    PROVE  /\ DOMAIN Answers!NodesOf(w) = 1 .. Len(w) + 1
           /\ Answers!NodesOf(w)[1] = w[1].from
           /\ \A i \in 1 .. Len(w) : Answers!NodesOf(w)[i + 1] = w[i].to
<1>1. w \in Seq(E) /\ Len(w) \in Nat /\ Len(w) > 0 /\ DOMAIN w = 1 .. Len(w)
  BY DEF Chain
<1> DEFINE ends == [i \in 1 .. Len(w) |-> w[i].to]
           first == <<w[1].from>>
           D == {w[1].from} \cup {w[i].to : i \in 1 .. Len(w)}
<1>2. ends \in Seq(D) /\ Len(ends) = Len(w) /\ \A i \in 1 .. Len(w) : ends[i] = w[i].to
  BY <1>1
<1>3. first \in Seq(D) /\ Len(first) = 1 /\ first[1] = w[1].from
  OBVIOUS
<1>4. Answers!NodesOf(w) = first \o ends
  BY <1>1 DEF Answers!NodesOf
<1> HIDE DEF ends, first, D
<1>5. /\ first \o ends \in Seq(D) /\ Len(first \o ends) = Len(w) + 1
      /\ (first \o ends)[1] = w[1].from
      /\ \A i \in 1 .. Len(w) : (first \o ends)[i + 1] = ends[i]
  <2>1. ASSUME NEW C, NEW p \in Seq(C), NEW q \in Seq(C), Len(p) = 1
        PROVE  /\ p \o q \in Seq(C) /\ Len(p \o q) = Len(q) + 1 /\ (p \o q)[1] = p[1]
               /\ \A i \in 1 .. Len(q) : (p \o q)[i + 1] = q[i]
    <3>1. p \o q \in Seq(C) /\ Len(p \o q) = Len(q) + 1 /\ Len(q) \in Nat
      BY <2>1, ConcatProperties
    <3>2. (p \o q)[1] = p[1]
      BY <2>1, <3>1
    <3>3. ASSUME NEW i \in 1 .. Len(q) PROVE (p \o q)[i + 1] = q[i]
      <4>1. i + 1 \in Len(p) + 1 .. Len(p) + Len(q) /\ (i + 1) - Len(p) = i
        BY <2>1, <3>1
      <4> QED BY <2>1, <3>1, <4>1
    <3> QED BY <3>1, <3>2, <3>3
  <2> QED BY <1>1, <1>2, <1>3, <2>1
<1> QED BY <1>1, <1>2, <1>4, <1>5

\* A dossier that could be built of a graph, however its edges are drawn, is one that the
\* verifier validates.
LEMMA DossierIsValid ==
    ASSUME NEW g, IsFiniteSet(g.relations), Answers!Buildable(g)
    PROVE  Answers!Validated(Answers!Dossier(g))
<1> DEFINE N == Answers!Needed(g)
           R == Answers!Relevant(g)
           P == Answers!Paths(R, g.finals)
<1>1. PICK p : p = Answers!Dossier(g)
  OBVIOUS
<1>2. p.nodes = N /\ p.finals = g.finals /\ p.edges = R /\ p.paths = P
  BY <1>1 DEF Answers!Dossier
<1>3. R \subseteq g.relations /\ \A e \in R : e.to \in N
  BY DEF Answers!Relevant
<1>4. \A e \in R : e.from \in N
  <2> HIDE DEF N, R
  <2> QED BY <1>3, NeededIsClosed DEF N
<1>5. IsFiniteSet(R)
  <2> HIDE DEF R
  <2> QED BY <1>3, FS_Subset
<1>6. N # {}
  <2>1. PICK n \in Nat : n = Cardinality(g.relations)
    BY FS_CardinalityType
  <2>2. PICK f : GoesBack(f, Ends(g), g.finals, n) /\ N = f[n]
    BY <2>1, NeededEnd
  <2>3. \A k \in 0 .. n : f[k] = IF k = 0 THEN g.finals ELSE Back(Ends(g), f[k - 1])
    BY <2>2 DEF GoesBack
  <2> DEFINE T == {k \in 0 .. n : g.finals \subseteq f[k]}
  <2>4. 0 \in T
    BY <2>3
  <2>5. \A k \in 0 .. n - 1 : k \in T => k + 1 \in T
    <3> SUFFICES ASSUME NEW k \in 0 .. n - 1, k \in T PROVE k + 1 \in T
      OBVIOUS
    <3>1. f[k + 1] = Back(Ends(g), f[k])
      BY <2>3
    <3> QED BY <3>1 DEF Back
  <2>6. n \in T
    <3> HIDE DEF T
    <3>1. 0 \in Nat /\ n \in 0 .. n
      OBVIOUS
    <3> QED BY <2>4, <2>5, <3>1, Induction
  <2>7. g.finals # {}
    BY DEF Answers!Buildable
  <2> QED BY <2>2, <2>6, <2>7
<1>7. ASSUME NEW w \in P
      PROVE  /\ Answers!IsInjective(Answers!NodesOf(w)) /\ Answers!IsInjective(w)
             /\ Answers!Range(Answers!NodesOf(w)) \subseteq N /\ Answers!Range(w) \subseteq R
             /\ \A i \in 1 .. Len(w) - 1 : w[i].to = w[i + 1].from
  <2>1. w \in Answers!Walks(R)
    BY DEF Answers!Paths
  <2>2. w \in Chain(R)
    <3> HIDE DEF R
    <3> QED BY <1>5, <2>1, WalkIsChain
  <2>3. /\ w \in Seq(R) /\ Len(w) \in Nat /\ Len(w) > 0 /\ DOMAIN w = 1 .. Len(w)
        /\ \A i \in 1 .. Len(w) - 1 : w[i].to = w[i + 1].from
    BY <2>2 DEF Chain
  <2>4. PICK v : v = Answers!NodesOf(w)
    OBVIOUS
  <2>5. DOMAIN v = 1 .. Len(w) + 1 /\ v[1] = w[1].from /\ \A i \in 1 .. Len(w) : v[i + 1] = w[i].to
    BY <2>2, <2>4, NodesOfChain
  <2>6. \A i, j \in DOMAIN v : v[i] = v[j] => i = j
    BY <2>1, <2>4 DEF Answers!Buildable, Answers!Circles, Answers!IsInjective
  <2>7. \A i \in 1 .. Len(w) : w[i] \in R
    BY <2>3
  <2>8. ASSUME NEW i \in DOMAIN w, NEW j \in DOMAIN w, w[i] = w[j] PROVE i = j
    <3>1. v[i + 1] = v[j + 1] /\ i + 1 \in DOMAIN v /\ j + 1 \in DOMAIN v /\ i \in Nat /\ j \in Nat
      BY <2>3, <2>5, <2>8
    <3>2. i + 1 = j + 1
      BY <2>6, <3>1
    <3> QED BY <3>1, <3>2
  <2>9. ASSUME NEW i \in DOMAIN v PROVE v[i] \in N
    <3>1. CASE i = 1
      <4>1. w[1] \in R
        BY <2>3, <2>7
      <4> HIDE DEF N, R
      <4> QED BY <1>4, <2>5, <3>1, <4>1
    <3>2. CASE i # 1
      <4>1. i - 1 \in 1 .. Len(w) /\ (i - 1) + 1 = i
        BY <2>3, <2>5, <3>2
      <4>2. v[i] = w[i - 1].to /\ w[i - 1] \in R
        BY <2>5, <2>7, <4>1
      <4> HIDE DEF N, R
      <4> QED BY <1>3, <4>2
    <3> QED BY <3>1, <3>2
  <2> HIDE DEF N, R
  <2> QED BY <2>3, <2>4, <2>6, <2>7, <2>8, <2>9 DEF Answers!IsInjective, Answers!Range
<1>8. /\ Answers!Cardinality(N) <= MaxNodes /\ Answers!Cardinality(R) <= MaxEdges
      /\ Answers!Cardinality(P) <= MaxPaths /\ Answers!UniqueIds(R)
  BY DEF Answers!Buildable
<1> HIDE DEF N, R, P
<1>9. Answers!Validated(p)
  BY <1>2, <1>3, <1>4, <1>6, <1>7, <1>8 DEF Answers!Validated
<1> QED BY <1>1, <1>9

\* What the host may observe is finite.
LEMMA ObservedIsFinite == \A g \in Observed : IsFiniteSet(g.relations)
<1>1. TAKE g \in Observed
<1>2. g.relations \in SUBSET SomeEdges
  BY DEF Observed, kSubset
<1>3. IsFiniteSet(SomeEdges)
  <2>1. IsFiniteSet({})
    BY FS_EmptySet
  <2>2. SomeEdges = ((((({} \cup {Joins(e1, n1, n2)}) \cup {Joins(e2, n2, n3)})
                       \cup {Joins(e3, n1, n3)}) \cup {Joins(e4, n3, n2)})
                       \cup {Joins(e2, n2, n1)}) \cup {Joins(e5, n3, n3)}
    BY DEF SomeEdges
  <2> QED BY <2>1, <2>2, FS_AddElement
<1> QED BY <1>2, <1>3, FS_Subset

\* A decision is accepted of the dossier that was built, and only once it was built.
AnswerInv ==
    /\ given \in Observed \cup {None}
    /\ given # None => payload = None /\ outcome = "none"
    /\ payload # None => \E g \in Observed : Answers!Buildable(g) /\ payload = Answers!Dossier(g)
    /\ Answers!Grounded

\* Before anything is built, nothing is accepted.
LEMMA AnswerInit == ASSUME Answers!Init PROVE AnswerInv
BY DEF Answers!Init, AnswerInv, Answers!Grounded

\* Building, judging and failing keep it (build_answerability_payload, verify).
LEMMA AnswerStep == ASSUME AnswerInv, Answers!Next \/ UNCHANGED ofAnswers PROVE AnswerInv'
<1>1. CASE UNCHANGED ofAnswers
  BY <1>1 DEF AnswerInv, ofAnswers, Answers!Grounded, Answers!Required
<1>2. CASE Answers!Build
  <2>1. given' = None /\ given \in Observed /\ outcome' # "accepted"
    BY <1>2 DEF AnswerInv, Answers!Build
  <2>2. payload' # None => \E g \in Observed : Answers!Buildable(g) /\ payload' = Answers!Dossier(g)
    BY <1>2, <2>1 DEF Answers!Build
  <2> QED BY <2>1, <2>2 DEF AnswerInv, Answers!Grounded
<1>3. CASE Answers!VerifyFails
  BY <1>3 DEF AnswerInv, Answers!VerifyFails, Answers!Grounded
<1>4. CASE Answers!Verify
  <2>1. PICK d \in Answers!Decision(payload) :
          IF Answers!Parses(d, payload)
          THEN decision' = d /\ outcome' = IF Answers!Accepts(d) THEN "accepted" ELSE "refused"
          ELSE decision' = None /\ outcome' = "failed"
    BY <1>4 DEF Answers!Verify
  <2>2. UNCHANGED <<given, payload>> /\ payload # None /\ given = None
    BY <1>4 DEF Answers!Verify, AnswerInv
  <2>3. ASSUME outcome' = "accepted" PROVE Answers!Grounded'
    <3>1. decision' = d /\ Answers!Parses(d, payload) /\ Answers!Accepts(d)
      BY <2>1, <2>3
    <3>2. d.concrete \in BOOLEAN
      BY DEF Answers!Decision
    <3>3. Answers!Structural(d) = "supported" /\ \A f \in d.facets : f.assessment = "supported"
      BY <3>1 DEF Answers!Accepts, Answers!Structural
    <3>4. d.concrete
      BY <3>1, <3>2, <3>3 DEF Answers!Parses
    <3>5. \A f \in d.facets : f.refs # {} /\ f.refs \subseteq Answers!Refs(payload)
      BY <3>1, <3>3 DEF Answers!Parses
    <3>6. ASSUME NEW f \in d.facets, Answers!Required(payload)
          PROVE  \E r \in f.refs : r.kind = "P" /\ Answers!Last(r.of).to \in payload.finals
      <4>1. f.refs \cap Answers!PathRefs(payload) # {}
        BY <3>1, <3>3, <3>6 DEF Answers!Parses
      <4>2. PICK r \in f.refs : r \in Answers!PathRefs(payload)
        BY <4>1
      <4>3. PICK path \in payload.paths : r = [kind |-> "P", of |-> path]
        BY <4>2 DEF Answers!PathRefs
      <4>4. PICK g \in Observed : payload = Answers!Dossier(g)
        BY <2>2 DEF AnswerInv
      <4>5. path \in Answers!Paths(Answers!Relevant(g), g.finals) /\ payload.finals = g.finals
        BY <4>3, <4>4 DEF Answers!Dossier
      <4>6. Answers!Last(path).to \in payload.finals
        BY <4>5 DEF Answers!Paths
      <4> QED BY <4>3, <4>6
    <3>7. payload' = payload /\ Answers!Required(payload)' = Answers!Required(payload)
          /\ Answers!Refs(payload)' = Answers!Refs(payload)
      BY <2>2 DEF Answers!Required, Answers!Refs, Answers!PathRefs
    <3> QED BY <3>1, <3>4, <3>5, <3>6, <3>7 DEF Answers!Grounded
  <2>4. Answers!Grounded'
    BY <2>3 DEF Answers!Grounded
  <2> QED BY <2>2, <2>4 DEF AnswerInv
<1> QED BY <1>1, <1>2, <1>3, <1>4 DEF Answers!Next

\* What is judged was validated, and what is accepted is grounded in it.
LEMMA AnswerIsSound == ASSUME AnswerInv PROVE Answers!DossierValid /\ Answers!Grounded
<1>1. ASSUME payload # None PROVE Answers!Validated(payload)
  <2>1. PICK g \in Observed : Answers!Buildable(g) /\ payload = Answers!Dossier(g)
    BY <1>1 DEF AnswerInv
  <2> QED BY <2>1, ObservedIsFinite, DossierIsValid
<1> QED BY <1>1 DEF AnswerInv, Answers!DossierValid

-----------------------------------------------------------------------------
(* The sessions (ProgressiveSession).                                      *)

\* A session that a command replays is open, and holds one decision more than the file it
\* was read from, which could still be answered.
SessionInv ==
    /\ file \in [Token -> Sessions!Session \cup {None}]
    /\ pending \in [Command -> [token : Token, value : Sessions!Session] \cup {None}]
    /\ \A p \in Command : pending[p] # None =>
           pending[p].value.state = "active" /\ pending[p].value.query
    /\ Sessions!Confined

\* At first there is no session.
LEMMA SessionInit == ASSUME Sessions!Init PROVE SessionInv
BY DEF Sessions!Init, SessionInv, Sessions!Confined

\* However commands overlap, each step keeps it.
LEMMA SessionStep == ASSUME SessionInv, Sessions!Next \/ UNCHANGED ofSessions PROVE SessionInv'
<1>1. CASE UNCHANGED <<file, pending>>
  BY <1>1 DEF SessionInv, Sessions!Confined
<1>2. ASSUME NEW p \in Command, NEW t \in Token, Sessions!Start(p, t) PROVE SessionInv'
  <2> DEFINE asked == [token |-> t, value |-> Sessions!Opened]
  <2>1. /\ asked \in [token : Token, value : Sessions!Session]
        /\ asked.value.state = "active" /\ asked.value.query
    BY DecisionAssumption DEF Sessions!Opened, Sessions!Session
  <2>2. pending' = [pending EXCEPT ![p] = asked]
    BY <1>2 DEF Sessions!Start
  <2>3. file' = [u \in Token |-> IF u \in stale THEN None ELSE file[u]]
    BY <1>2 DEF Sessions!Start
  <2> HIDE DEF asked
  <2>4. file' \in [Token -> Sessions!Session \cup {None}] /\ Sessions!Confined'
    BY <2>3 DEF SessionInv, Sessions!Confined
  <2>5. pending' \in [Command -> [token : Token, value : Sessions!Session] \cup {None}]
    BY <2>1, <2>2 DEF SessionInv
  <2>6. \A c \in Command : pending'[c] # None =>
           pending'[c].value.state = "active" /\ pending'[c].value.query
    BY <2>1, <2>2 DEF SessionInv
  <2> QED BY <2>4, <2>5, <2>6 DEF SessionInv
<1>3. ASSUME NEW p \in Command, NEW t \in Token, Sessions!Step(p, t) PROVE SessionInv'
  <2> DEFINE more == [file[t] EXCEPT !.decisions = @ + 1]
             asked == [token |-> t, value |-> more]
  <2>1. /\ file[t] \in Sessions!Session /\ file[t].query
        /\ file[t].decisions < MaxDecisions /\ file[t].state = "active"
    BY <1>3 DEF Sessions!Step, SessionInv, Sessions!Confined
  <2>2. more \in Sessions!Session /\ more.state = "active" /\ more.query
    BY <2>1, DecisionAssumption DEF Sessions!Session
  <2>3. pending' = [pending EXCEPT ![p] = asked] /\ file' = file
    BY <1>3 DEF Sessions!Step
  <2> HIDE DEF more
  <2>4. pending' \in [Command -> [token : Token, value : Sessions!Session] \cup {None}]
    BY <2>2, <2>3 DEF SessionInv
  <2>5. \A c \in Command : pending'[c] # None =>
           pending'[c].value.state = "active" /\ pending'[c].value.query
    BY <2>2, <2>3 DEF SessionInv
  <2> QED BY <2>3, <2>4, <2>5 DEF SessionInv, Sessions!Confined
<1>4. ASSUME NEW p \in Command, Sessions!Write(p) PROVE SessionInv'
  <2>1. PICK t \in Token, v \in Sessions!Session :
          /\ pending[p] # None /\ t = pending[p].token /\ v = pending[p].value
          /\ v.state = "active" /\ v.query
    BY <1>4 DEF Sessions!Write, SessionInv
  <2>2. PICK asked \in Sessions!Results(v.decisions) :
          file' = [file EXCEPT ![t] = IF asked = "complete" THEN Sessions!Closed(v) ELSE v]
    BY <1>4, <2>1 DEF Sessions!Write, Sessions!Replace
  <2> DEFINE w == IF asked = "complete" THEN Sessions!Closed(v) ELSE v
  <2>3. /\ w \in Sessions!Session
        /\ IF w.state = "complete" THEN ~w.query /\ w.decisions = 0
           ELSE w.query /\ w.decisions < MaxDecisions
    BY <2>1, <2>2, DecisionAssumption DEF Sessions!Results, Sessions!Closed, Sessions!Session
  <2>4. pending' = [pending EXCEPT ![p] = None]
    BY <1>4 DEF Sessions!Write
  <2> HIDE DEF w
  <2>5. file' \in [Token -> Sessions!Session \cup {None}] /\ Sessions!Confined'
    BY <2>2, <2>3 DEF SessionInv, Sessions!Confined, w
  <2> QED BY <2>4, <2>5 DEF SessionInv
<1>5. ASSUME NEW p \in Command, Sessions!Fail(p) PROVE SessionInv'
  BY <1>5 DEF Sessions!Fail, SessionInv, Sessions!Confined
<1>6. CASE (\E m \in {"candidate", "legacy"} : Sessions!SetMode(m)) \/ \E t \in Token : Sessions!Age(t)
  BY <1>1, <1>6 DEF Sessions!SetMode, Sessions!Age
<1>7. CASE UNCHANGED ofSessions
  BY <1>1, <1>7 DEF ofSessions
<1> QED BY <1>2, <1>3, <1>4, <1>5, <1>6, <1>7 DEF Sessions!Next

-----------------------------------------------------------------------------
(* The theorems.                                                           *)

\* The first commit holds no tombstone.
LEMMA PublishedInit == ASSUME Published!Init PROVE Entombed
<1>1. PICK t \in Text :
        commits = <<[items |-> [i \in Item |-> Published!Fresh(t)], stones |-> {}]>>
  BY DEF Published!Init
<1>2. commits \in Seq(Commits) /\ Len(commits) = 1 /\ DOMAIN commits = {1}
  BY <1>1 DEF Commits, Published!Fresh, Published!Version
<1> QED BY <1>2 DEF Published!Init, Entombed

\* A failed call that is retried once is all that is ever repeated.
LEMMA NoRepeatOfRetried == ASSUME RetriedOnce PROVE NoRepeat
BY DEF RetriedOnce, NoRepeat

\* Each machine keeps its invariant.
RetrievalInv ==
    /\ machine \in {"publication", "loop", "sessions", "answers"}
    /\ machine = "publication" => Entombed
    /\ machine = "loop" => LoopInv
    /\ machine = "sessions" => SessionInv
    /\ machine = "answers" => AnswerInv

\* Each machine starts in its invariant.
LEMMA RetrievalInit == ASSUME MCInit PROVE RetrievalInv
BY PublishedInit, LoopInit, SessionInit, AnswerInit DEF MCInit, RetrievalInv

\* A step of one machine leaves the others alone.
LEMMA RetrievalStep == ASSUME RetrievalInv, [MCNext]_allVars PROVE RetrievalInv'
<1>1. machine' = machine
  BY DEF MCNext, OfPublished, allVars
<1>2. CASE machine = "publication"
  BY <1>1, <1>2, PublishedStep DEF RetrievalInv, MCNext, OfPublished, allVars
<1>3. CASE machine = "loop"
  BY <1>1, <1>3, LoopStep DEF RetrievalInv, MCNext, OfPublished, allVars
<1>4. CASE machine = "sessions"
  BY <1>1, <1>4, SessionStep DEF RetrievalInv, MCNext, OfPublished, allVars
<1>5. CASE machine = "answers"
  BY <1>1, <1>5, AnswerStep DEF RetrievalInv, MCNext, OfPublished, allVars
<1> QED BY <1>2, <1>3, <1>4, <1>5 DEF RetrievalInv

\* The invariants of all machines hold always.
LEMMA RetrievalInvariant == MCSpec => []RetrievalInv
<1>1. MCInit => RetrievalInv
  BY RetrievalInit
<1>2. RetrievalInv /\ [MCNext]_allVars => RetrievalInv'
  BY RetrievalStep
<1> QED BY <1>1, <1>2, PTL DEF MCSpec

\* What was deleted is not recalled, whatever is committed, built or crashes in between
\* (the recall of committed memory).
THEOREM DeletedIsNotRecalled == MCSpec => []NothingDeleted
<1>1. RetrievalInv => NothingDeleted
  BY RecallIsClean DEF RetrievalInv, NothingDeleted
<1> QED BY <1>1, RetrievalInvariant, PTL

\* The budgets of a run hold whatever its planner asks and the host returns, nothing that
\* succeeded is executed again, and what a session holds fits in the rounds of a run.
THEOREM BudgetsHold == MCSpec => []WithinBounds
<1>1. RetrievalInv => WithinBounds
  BY NoRepeatOfRetried DEF RetrievalInv, LoopInv, SessionInv, WithinBounds
<1> QED BY <1>1, RetrievalInvariant, PTL

\* What is released was opened in scope, and a verifier that looked saw all it came from;
\* the dossier of any graph is valid, and an accepted decision cites what it holds.
THEOREM ReleasesAreProved == MCSpec => []ReleasedInScope
<1>1. RetrievalInv => ReleasedInScope
  BY AnswerIsSound DEF RetrievalInv, LoopInv, ReleasedInScope
<1> QED BY <1>1, RetrievalInvariant, PTL
================================================================================
