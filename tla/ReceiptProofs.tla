---------------------------- MODULE ReceiptProofs ----------------------------
(***************************************************************************)
(* What the event chains and the receipts of ControlPlane prove, for every *)
(* value of the constants.  The argument rests on ArtifactMoves: a chain   *)
(* grows by one event at a time, an applied event is only appended when no *)
(* event of the current intent is there, and an intent is only rewritten   *)
(* while there is no receipt.                                              *)
(***************************************************************************)
EXTENDS ControlPlaneProofs

\* Two bodies that differ at most in whether the application was recovered.
SameIntent(b, d) == b.by = d.by /\ b.post = d.post /\ b.report = d.report

\* Every link is witnessed by an event.
LinksEvented == \A c \in Candidate : Has(c) =>
    \A e \in ledger[c].links : By("approved", e) \in EventsOf(ledger[c])

\* No intent was issued twice.
IssuedTwice(l, i, j) ==
    /\ l.events[i].kind = "workspace_applied" /\ l.events[j].kind = "workspace_applied"
    /\ SameIntent(l.events[i].body, l.events[j].body)

IssuedOnce == \A c \in Candidate : Has(c) =>
    \A i, j \in DOMAIN ledger[c].events : IssuedTwice(ledger[c], i, j) => i = j

\* The inductive invariant of the chains.
EInv == LinksEvented /\ IssuedOnce /\ EventOrder /\ ReceiptEvidence

-----------------------------------------------------------------------------
\* The chain of a ledger is a sequence with the appended event at its end.
LEMMA AppendEvent ==
    ASSUME NEW l \in Ledger, NEW e \in Event, NEW m, m.events = Append(l.events, e)
    PROVE  /\ Len(l.events) \in Nat
           /\ DOMAIN l.events = 1 .. Len(l.events)
           /\ Len(m.events) = Len(l.events) + 1
           /\ DOMAIN m.events = (DOMAIN l.events) \cup {Len(l.events) + 1}
           /\ \A i \in DOMAIN l.events : m.events[i] = l.events[i]
           /\ m.events[Len(l.events) + 1] = e
           /\ EventsOf(m) = EventsOf(l) \cup {e}
<1>1. l.events \in Seq(Event)
  BY DEF Ledger
<1>2. /\ Len(l.events) \in Nat
      /\ DOMAIN l.events = 1 .. Len(l.events)
      /\ Len(m.events) = Len(l.events) + 1
      /\ DOMAIN m.events = 1 .. Len(l.events) + 1
      /\ \A i \in 1 .. Len(l.events) : m.events[i] = l.events[i]
      /\ m.events[Len(l.events) + 1] = e
  BY <1>1
<1>3. 1 .. Len(l.events) + 1 = (1 .. Len(l.events)) \cup {Len(l.events) + 1}
  BY <1>2
<1>4. EventsOf(m) = EventsOf(l) \cup {e}
  <2>1. EventsOf(m) = {m.events[i] : i \in 1 .. Len(l.events)} \cup {e}
    BY <1>2, <1>3 DEF EventsOf
  <2>2. EventsOf(l) = {m.events[i] : i \in 1 .. Len(l.events)}
    BY <1>2 DEF EventsOf
  <2> QED BY <2>1, <2>2
<1> QED BY <1>2, <1>3, <1>4

\* What one step appends to the chain of a candidate, and when.
Appendable(c, e) ==
    \/ e.kind \in {"gate_rejected", "assessed", "approved"}
    \/ e.kind = "application_intent" /\ e.by \in ledger[c].links
    \/ /\ intents[c] \in Intent /\ intents[c].by \in ledger[c].links
       /\ receipts[c] = None /\ IssuedBodies(c) = {}
       /\ \E rec \in BOOLEAN : e = Applied(BodyOf(intents[c], rec))

\* A chain that is there stays as it is or grows by one event of those kinds.
LEMMA ChainMoves ==
    ASSUME TypeOK, NEW c \in Candidate, Has(c), LedgerMove(c)
    PROVE  \/ ledger'[c].events = ledger[c].events
           \/ \E e \in Event : /\ ledger'[c].events = Append(ledger[c].events, e)
                               /\ Appendable(c, e)
<1>1. ledger[c] \in Ledger
  BY DEF TypeOK, Has
<1>2. CASE ledger'[c] = ledger[c]
  BY <1>2
<1>3. CASE \E v \in Verdict : ledger'[c] = Rescreened(ledger[c], v)
  <2>1. PICK v \in Verdict : ledger'[c] = Rescreened(ledger[c], v)
    BY <1>3
  <2> DEFINE m == [ledger[c] EXCEPT !.mayScore = FALSE, !.reasons = @ \cup {v},
                                    !.disposition = DispositionOf(v)]
             e == Plain("gate_rejected")
  <2>2. m.events = ledger[c].events
    BY <1>1 DEF Ledger
  <2>3. DispositionOf(v) \in Disposition
    BY DEF DispositionOf, Disposition, Verdict
  <2>4. m \in Ledger
    BY <1>1, <2>3 DEF Ledger
  <2>5. e \in Event /\ e.kind = "gate_rejected"
    BY EventTypes DEF EventKind, Plain
  <2> HIDE DEF m, e
  <2>6. Record(m, e).events = Append(ledger[c].events, e)
    BY <2>2, <2>4, <2>5, RecordType
  <2>7. ledger'[c] = ledger[c] \/ ledger'[c] = Record(m, e)
    BY <2>1 DEF Rescreened, m, e
  <2> QED BY <2>5, <2>6, <2>7 DEF Appendable
<1>4. CASE \E o \in Assessment \ {"none"} : ledger'[c] = Assessed(ledger[c], o)
  <2>1. PICK o \in Assessment \ {"none"} : ledger'[c] = Assessed(ledger[c], o)
    BY <1>4
  <2> DEFINE m == [ledger[c] EXCEPT
                !.assessment = o,
                !.disposition = CASE o = "conflict" -> "needs_confirmation"
                                  [] o = "low"      -> "rejected"
                                  [] OTHER          -> @,
                !.reasons = IF o = "eligible" THEN @ ELSE {o}]
             e == Plain("assessed")
  <2>2. m.events = ledger[c].events /\ m \in Ledger
    BY <1>1 DEF Ledger, Assessment, Disposition
  <2>3. e \in Event /\ e.kind = "assessed"
    BY EventTypes DEF EventKind, Plain
  <2>4. ledger'[c] = Record(m, e)
    BY <2>1 DEF Assessed
  <2> HIDE DEF m, e
  <2> QED BY <2>2, <2>3, <2>4, RecordType DEF Appendable
<1>5. CASE \E a \in Evidence : ledger'[c] = Linked(ledger[c], a)
  <2>1. PICK a \in Evidence : ledger'[c] = Linked(ledger[c], a)
    BY <1>5
  <2> DEFINE m == [ledger[c] EXCEPT !.disposition = "approved", !.links = @ \cup {a}]
             e == By("approved", a)
  <2>2. m.events = ledger[c].events /\ m \in Ledger
    BY <1>1 DEF Ledger, Disposition
  <2>3. e \in Event /\ e.kind = "approved"
    BY EventTypes DEF EventKind, By
  <2>4. ledger'[c] = m \/ ledger'[c] = Record(m, e)
    BY <2>1 DEF Linked
  <2> HIDE DEF m, e
  <2> QED BY <2>2, <2>3, <2>4, RecordType, ZenonT(30) DEF Appendable
<1>6. CASE \E a \in ledger[c].links :
              ledger'[c] = Record(ledger[c], By("application_intent", a))
  <2>1. PICK a \in ledger[c].links :
              ledger'[c] = Record(ledger[c], By("application_intent", a))
    BY <1>6
  <2> DEFINE e == By("application_intent", a)
  <2>2. e \in Event /\ e.kind = "application_intent" /\ e.by = a
    BY <1>1, EventTypes DEF EventKind, Ledger, By
  <2> HIDE DEF e
  <2> QED BY <1>1, <2>1, <2>2, RecordType DEF Appendable, e
<1>7. CASE /\ intents[c] \in Intent /\ intents[c].by \in ledger[c].links
           /\ receipts[c] = None /\ IssuedBodies(c) = {}
           /\ \E rec \in BOOLEAN :
                ledger'[c] = Record(ledger[c], Applied(BodyOf(intents[c], rec)))
  <2>1. PICK rec \in BOOLEAN :
                ledger'[c] = Record(ledger[c], Applied(BodyOf(intents[c], rec)))
    BY <1>7
  <2> DEFINE e == Applied(BodyOf(intents[c], rec))
  <2>2. e \in Event
    <3>1. BodyOf(intents[c], rec) \in Body
      BY <1>7 DEF BodyOf, Body, Intent
    <3> QED BY <3>1, EventTypes
  <2>3. Appendable(c, e)
    BY <1>7 DEF Appendable
  <2> HIDE DEF e
  <2> QED BY <1>1, <2>1, <2>2, <2>3, RecordType DEF e
<1> QED BY <1>2, <1>3, <1>4, <1>5, <1>6, <1>7 DEF LedgerMove, Has

\* Links are only ever added, and each new one with its event.
LEMMA LinkEvents ==
    ASSUME TypeOK, NEW c \in Candidate, Has(c), LedgerMove(c),
           \A e \in ledger[c].links : By("approved", e) \in EventsOf(ledger[c])
    PROVE  /\ ledger[c].links \subseteq ledger'[c].links
           /\ EventsOf(ledger[c]) \subseteq EventsOf(ledger'[c])
           /\ \A e \in ledger'[c].links : By("approved", e) \in EventsOf(ledger'[c])
<1>1. ledger[c] \in Ledger
  BY DEF TypeOK, Has
<1>2. EventsOf(ledger[c]) \subseteq EventsOf(ledger'[c])
  <2>1. CASE ledger'[c].events = ledger[c].events
    BY <2>1 DEF EventsOf
  <2>2. CASE \E e \in Event : ledger'[c].events = Append(ledger[c].events, e)
    <3>1. PICK e \in Event : ledger'[c].events = Append(ledger[c].events, e)
      BY <2>2
    <3>2. EventsOf(ledger'[c]) = EventsOf(ledger[c]) \cup {e}
      BY <1>1, <3>1, AppendEvent, SMTT(60)
    <3> QED BY <3>2
  <2> QED BY <2>1, <2>2, ChainMoves
<1>3. CASE ledger'[c].links = ledger[c].links
  BY <1>2, <1>3
<1>4. CASE ledger'[c].links # ledger[c].links
  <2>1. PICK a \in Evidence : ledger'[c] = Linked(ledger[c], a)
    <3>1. ASSUME NEW v \in Verdict, ledger'[c] = Rescreened(ledger[c], v) PROVE FALSE
      BY <1>1, <1>4, <3>1, RescreenedType
    <3>2. ASSUME NEW o \in Assessment \ {"none"}, ledger'[c] = Assessed(ledger[c], o)
          PROVE  FALSE
      BY <1>1, <1>4, <3>2, AssessedType
    <3>3. ASSUME NEW e \in Event, ledger'[c] = Record(ledger[c], e) PROVE FALSE
      BY <1>1, <1>4, <3>3, RecordType
    <3>4. \A a \in ledger[c].links : By("application_intent", a) \in Event
      BY <1>1, EventTypes DEF EventKind, Ledger
    <3>5. intents[c] \in Intent =>
            \A rec \in BOOLEAN : Applied(BodyOf(intents[c], rec)) \in Event
      <4>1. intents[c] \in Intent => \A rec \in BOOLEAN : BodyOf(intents[c], rec) \in Body
        BY DEF BodyOf, Body, Intent
      <4> QED BY <4>1, EventTypes
    <3> QED BY <1>4, <3>1, <3>2, <3>3, <3>4, <3>5 DEF LedgerMove, Has
  <2>2. ledger'[c].links = ledger[c].links \cup {a}
    BY <1>1, <2>1, LinkedType
  <2>3. By("approved", a) \in EventsOf(ledger'[c])
    <3> DEFINE m == [ledger[c] EXCEPT !.disposition = "approved", !.links = @ \cup {a}]
    <3>1. m.events = ledger[c].events /\ m \in Ledger
      BY <1>1 DEF Ledger, Disposition
    <3>2. CASE By("approved", a) \in EventsOf(ledger[c])
      BY <1>2, <3>2
    <3>3. CASE By("approved", a) \notin EventsOf(ledger[c])
      <4>1. ledger'[c] = Record(m, By("approved", a))
        BY <2>1, <3>3 DEF Linked
      <4>2. By("approved", a) \in Event
        BY EventTypes DEF EventKind
      <4> HIDE DEF m
      <4> QED BY <3>1, <4>1, <4>2, RecordEvents
    <3> QED BY <3>2, <3>3
  <2> QED BY <1>2, <2>2, <2>3
<1> QED BY <1>2, <1>3, <1>4

\* Appending an event keeps an order of events that the appended one respects.
LEMMA PrecedesAppend ==
    ASSUME NEW l \in Ledger, NEW e \in Event, NEW m, m.events = Append(l.events, e),
           NEW k1, NEW k2, Precedes(l, k1, k2),
           e.kind = k2 => \E x \in EventsOf(l) : x.kind = k1 /\ x.by = e.by
    PROVE  Precedes(m, k1, k2)
<1> SUFFICES ASSUME NEW j \in DOMAIN m.events, m.events[j].kind = k2
             PROVE  \E i \in 1 .. j - 1 : /\ m.events[i].kind = k1
                                          /\ m.events[i].by = m.events[j].by
  BY DEF Precedes
<1>1. CASE j \in DOMAIN l.events
  <2>1. PICK i \in 1 .. j - 1 : l.events[i].kind = k1 /\ l.events[i].by = l.events[j].by
    BY <1>1, AppendEvent DEF Precedes
  <2>2. i \in DOMAIN l.events
    BY <1>1, AppendEvent
  <2> QED BY <1>1, <2>1, <2>2, AppendEvent
<1>2. CASE j = Len(l.events) + 1
  <2>1. PICK x \in EventsOf(l) : x.kind = k1 /\ x.by = e.by
    BY <1>2, AppendEvent
  <2>2. PICK i \in DOMAIN l.events : l.events[i] = x
    BY DEF EventsOf
  <2>3. i \in 1 .. j - 1 /\ m.events[i] = x /\ m.events[j] = e
    BY <1>2, <2>2, AppendEvent
  <2> QED BY <2>1, <2>3
<1> QED BY <1>1, <1>2, AppendEvent

\* The first event of a ledger is no approval, intent or application.
LEMMA NewLedgerEvents ==
    ASSUME NEW v \in Verdict
    PROVE  /\ Precedes(NewLedger(v), "approved", "application_intent")
           /\ Precedes(NewLedger(v), "approved", "workspace_applied")
           /\ NewLedger(v).links = {}
           /\ \A i, j \in DOMAIN NewLedger(v).events :
                IssuedTwice(NewLedger(v), i, j) => i = j
<1>1. PICK e \in {Plain("screened"), Plain("gate_rejected")} :
         NewLedger(v).events = <<e>> /\ NewLedger(v).links = {}
  BY DEF NewLedger
<1>2. e.kind \notin {"application_intent", "workspace_applied"}
  BY DEF Plain
<1>3. DOMAIN NewLedger(v).events = {1} /\ NewLedger(v).events[1] = e
  BY <1>1
<1> HIDE DEF Plain
<1> QED BY <1>1, <1>2, <1>3 DEF Precedes, IssuedTwice

\* Every step keeps the evidence of the links.
LEMMA LinksStep == IInv /\ LinksEvented /\ [Next]_vars => LinksEvented'
<1> SUFFICES ASSUME IInv, LinksEvented, [Next]_vars, NEW c \in Candidate, Has(c)'
             PROVE  \A e \in ledger'[c].links : By("approved", e) \in EventsOf(ledger'[c])
  BY DEF LinksEvented
<1>1. TypeOK /\ LedgerMove(c)
  BY ArtifactMoves DEF IInv, Moves
<1>2. CASE Has(c)
  BY <1>1, <1>2, LinkEvents DEF LinksEvented
<1>3. CASE ~Has(c)
  <2>1. PICK v \in Verdict : ledger'[c] = NewLedger(v)
    BY <1>1, <1>3 DEF LedgerMove, Has
  <2> QED BY <2>1, NewLedgerEvents
<1> QED BY <1>2, <1>3

\* Every step keeps the order of the events.
LEMMA EventOrderStep == IInv /\ LinksEvented /\ EventOrder /\ [Next]_vars => EventOrder'
<1> SUFFICES ASSUME IInv, LinksEvented, EventOrder, [Next]_vars,
                    NEW c \in Candidate, Has(c)'
             PROVE  /\ Precedes(ledger'[c], "approved", "application_intent")
                    /\ Precedes(ledger'[c], "approved", "workspace_applied")
  BY DEF EventOrder, Precedes
<1>1. TypeOK /\ LedgerMove(c)
  BY ArtifactMoves DEF IInv, Moves
<1>2. CASE ~Has(c)
  <2>1. PICK v \in Verdict : ledger'[c] = NewLedger(v)
    BY <1>1, <1>2 DEF LedgerMove, Has
  <2> QED BY <2>1, NewLedgerEvents
<1>3. CASE Has(c) /\ ledger'[c].events = ledger[c].events
  BY <1>3 DEF EventOrder, Precedes
<1>4. CASE Has(c) /\ \E e \in Event : /\ ledger'[c].events = Append(ledger[c].events, e)
                                      /\ Appendable(c, e)
  <2>1. PICK e \in Event : /\ ledger'[c].events = Append(ledger[c].events, e)
                           /\ Appendable(c, e)
    BY <1>4
  <2>2. ledger[c] \in Ledger
    BY <1>1, <1>4 DEF TypeOK, Has
  <2>3. e.kind \in {"application_intent", "workspace_applied"} =>
            \E x \in EventsOf(ledger[c]) : x.kind = "approved" /\ x.by = e.by
    <3>1. e.kind \in {"application_intent", "workspace_applied"} => e.by \in ledger[c].links
      BY <2>1 DEF Appendable, Applied, BodyOf
    <3>2. \A a : By("approved", a).kind = "approved" /\ By("approved", a).by = a
      BY DEF By
    <3> QED BY <1>4, <3>1, <3>2 DEF LinksEvented
  <2>4. /\ Precedes(ledger[c], "approved", "application_intent")
        /\ Precedes(ledger[c], "approved", "workspace_applied")
    BY <1>4 DEF EventOrder
  <2> QED BY <2>1, <2>2, <2>3, <2>4, PrecedesAppend
<1> QED BY <1>1, <1>2, <1>3, <1>4, ChainMoves

\* Every step keeps each intent issued at most once.
LEMMA IssuedOnceStep == IInv /\ IssuedOnce /\ [Next]_vars => IssuedOnce'
<1> SUFFICES ASSUME IInv, IssuedOnce, [Next]_vars, NEW c \in Candidate, Has(c)',
                    NEW i \in DOMAIN ledger'[c].events, NEW j \in DOMAIN ledger'[c].events,
                    IssuedTwice(ledger'[c], i, j)
             PROVE  i = j
  BY DEF IssuedOnce, IssuedTwice
<1>1. TypeOK /\ LedgerMove(c)
  BY ArtifactMoves DEF IInv, Moves
<1>2. CASE ~Has(c)
  <2>1. PICK v \in Verdict : ledger'[c] = NewLedger(v)
    BY <1>1, <1>2 DEF LedgerMove, Has
  <2> QED BY <2>1, NewLedgerEvents
<1>3. CASE Has(c) /\ ledger'[c].events = ledger[c].events
  BY <1>3 DEF IssuedOnce, IssuedTwice
<1>4. CASE Has(c) /\ \E e \in Event : /\ ledger'[c].events = Append(ledger[c].events, e)
                                      /\ Appendable(c, e)
  <2>1. PICK e \in Event : /\ ledger'[c].events = Append(ledger[c].events, e)
                           /\ Appendable(c, e)
    BY <1>4
  <2>2. ledger[c] \in Ledger
    BY <1>1, <1>4 DEF TypeOK, Has
  <2> DEFINE n == Len(ledger[c].events) + 1
  <2>3. /\ DOMAIN ledger'[c].events = (DOMAIN ledger[c].events) \cup {n}
        /\ \A k \in DOMAIN ledger[c].events : ledger'[c].events[k] = ledger[c].events[k]
        /\ ledger'[c].events[n] = e
    <3>1. PICK l : l = ledger[c]
      OBVIOUS
    <3>2. PICK m : m = ledger'[c]
      OBVIOUS
    <3>3. l \in Ledger /\ m.events = Append(l.events, e)
      BY <2>1, <2>2, <3>1, <3>2
    <3>4. /\ DOMAIN m.events = (DOMAIN l.events) \cup {Len(l.events) + 1}
          /\ \A k \in DOMAIN l.events : m.events[k] = l.events[k]
          /\ m.events[Len(l.events) + 1] = e
      BY <3>3, AppendEvent
    <3> QED BY <3>1, <3>2, <3>4
  \* the appended event repeats no event that is there
  <2>4. ASSUME NEW k \in DOMAIN ledger[c].events,
               ledger[c].events[k].kind = "workspace_applied",
               e.kind = "workspace_applied", SameIntent(ledger[c].events[k].body, e.body)
        PROVE  FALSE
    <3> DEFINE b == ledger[c].events[k].body
    <3>1. PICK rec \in BOOLEAN : e = Applied(BodyOf(intents[c], rec))
      BY <2>1, <2>4 DEF Appendable
    <3>2. IssuedBodies(c) = {}
      BY <2>1, <2>4 DEF Appendable
    <3>3. e.body = BodyOf(intents[c], rec)
      BY <3>1 DEF Applied
    <3>4. ledger[c].events[k] \in Event
      BY <2>2 DEF Ledger
    <3>5. b \in Body
      BY <2>4, <3>4 DEF Event, Applied
    <3>6. b = BodyOf(intents[c], b.recovered)
      BY <2>4, <3>3, <3>5 DEF SameIntent, BodyOf, Body
    <3>7. ledger[c].events[k] \in EventsOf(ledger[c])
      BY DEF EventsOf
    <3>8. b \in IssuedBodies(c)
      <4> HIDE DEF b
      <4>1. b = ledger[c].events[k].body
        BY DEF b
      <4> QED BY <2>4, <3>6, <3>7, <4>1 DEF IssuedBodies
    <3> QED BY <3>2, <3>8
  <2>5. \A k \in DOMAIN ledger[c].events : k # n
    BY <2>2, AppendEvent, <2>1
  <2> HIDE DEF n
  <2>6. CASE i \in DOMAIN ledger[c].events /\ j \in DOMAIN ledger[c].events
    BY <1>4, <2>3, <2>6 DEF IssuedOnce, IssuedTwice
  <2>7. CASE i \in DOMAIN ledger[c].events /\ j = n
    BY <2>3, <2>4, <2>7 DEF IssuedTwice
  <2>8. CASE i = n /\ j \in DOMAIN ledger[c].events
    BY <2>3, <2>4, <2>8 DEF IssuedTwice, SameIntent
  <2> QED BY <2>3, <2>6, <2>7, <2>8
<1> QED BY <1>1, <1>2, <1>3, <1>4, ChainMoves

\* Every step keeps each receipt issued by exactly one event of its ledger.
LEMMA ReceiptStep ==
    IInv /\ LinksEvented /\ IssuedOnce /\ ReceiptEvidence /\ [Next]_vars => ReceiptEvidence'
<1> SUFFICES ASSUME IInv, LinksEvented, IssuedOnce, ReceiptEvidence, [Next]_vars,
                    NEW c \in Candidate, receipts'[c] # None
             PROVE  /\ Has(c)' /\ intents'[c] # None
                    /\ receipts'[c] = BodyOf(intents'[c], receipts'[c].recovered)
                    /\ receipts'[c].by \in ledger'[c].links
                    /\ \E i \in DOMAIN ledger'[c].events :
                         /\ ledger'[c].events[i] = Applied(receipts'[c])
                         /\ \A j \in DOMAIN ledger'[c].events :
                              ledger'[c].events[j] = Applied(receipts'[c]) => j = i
  BY DEF ReceiptEvidence
<1>1. TypeOK /\ Moves(c)
  BY ArtifactMoves DEF IInv
<1>2. CASE receipts'[c] = receipts[c]
  <2>1. /\ Has(c) /\ intents[c] # None
        /\ receipts[c] = BodyOf(intents[c], receipts[c].recovered)
        /\ receipts[c].by \in ledger[c].links
    BY <1>2 DEF ReceiptEvidence
  <2>2. PICK i \in DOMAIN ledger[c].events :
          /\ ledger[c].events[i] = Applied(receipts[c])
          /\ \A j \in DOMAIN ledger[c].events :
                ledger[c].events[j] = Applied(receipts[c]) => j = i
    BY <1>2 DEF ReceiptEvidence
  <2>3. intents'[c] = intents[c]
    BY <1>1, <1>2 DEF Moves, IntentMove
  <2>4. Has(c)' /\ ledger[c].links \subseteq ledger'[c].links
    BY <1>1, <2>1, LinkMoves, LinkEvents DEF Moves, LinksEvented
  <2>5. ledger[c] \in Ledger
    BY <1>1, <2>1 DEF TypeOK, Has
  <2>6. CASE ledger'[c].events = ledger[c].events
    BY <1>2, <2>1, <2>2, <2>3, <2>4, <2>6
  <2>7. CASE \E e \in Event : /\ ledger'[c].events = Append(ledger[c].events, e)
                              /\ Appendable(c, e)
    <3>1. PICK e \in Event : /\ ledger'[c].events = Append(ledger[c].events, e)
                             /\ Appendable(c, e)
      BY <2>7
    <3>2. e # Applied(receipts[c])
      BY <1>2, <3>1 DEF Appendable, Applied
    <3>3. /\ DOMAIN ledger'[c].events = (DOMAIN ledger[c].events) \cup {Len(ledger[c].events) + 1}
          /\ \A k \in DOMAIN ledger[c].events : ledger'[c].events[k] = ledger[c].events[k]
          /\ ledger'[c].events[Len(ledger[c].events) + 1] = e
      BY <2>5, <3>1, AppendEvent, SMTT(60)
    <3> QED BY <1>2, <2>1, <2>2, <2>3, <2>4, <3>2, <3>3
  <2> QED BY <1>1, <2>1, <2>6, <2>7, ChainMoves DEF Moves
<1>3. CASE receipts'[c] # receipts[c]
  <2>1. /\ receipts'[c] \in IssuedBodies(c) /\ intents[c] \in Intent /\ Has(c)
        /\ intents[c].by \in ledger[c].links
        /\ intents'[c] = intents[c] /\ ledger'[c] = ledger[c]
    BY <1>1, <1>3 DEF Moves, ReceiptMove
  <2>2. ledger[c] \in Ledger
    BY <1>1, <2>1 DEF TypeOK, Has
  <2> DEFINE b == receipts'[c]
  <2>3. b \in Body /\ b = BodyOf(intents[c], b.recovered) /\ b.by = intents[c].by
    BY <2>1, <2>2, IssuedType
  <2>4. PICK e \in EventsOf(ledger[c]) : e.kind = "workspace_applied" /\ b = e.body
    BY <2>1 DEF IssuedBodies
  <2>5. PICK i \in DOMAIN ledger[c].events : ledger[c].events[i] = e
    BY DEF EventsOf
  <2>6. e \in Event
    BY <2>2, <2>5 DEF Ledger
  \* the event says nothing but the body
  <2>7. e = Applied(b)
    BY <2>4, <2>6 DEF Event, Applied
  <2>9. \A j \in DOMAIN ledger[c].events : ledger[c].events[j] = Applied(b) => j = i
    BY <2>1, <2>4, <2>5, <2>7 DEF IssuedOnce, IssuedTwice, SameIntent
  <2> HIDE DEF b
  <2>10. b = receipts'[c]
    BY DEF b
  <2>11. Has(c)' /\ intents'[c] # None
    BY <2>1, NoneAssumption DEF Has
  <2> QED BY <2>1, <2>3, <2>5, <2>7, <2>9, <2>10, <2>11
<1> QED BY <1>2, <1>3

\* EInv holds in every state: chains witness links, intents and receipts.
THEOREM ChainInvariance == Spec => [](IInv /\ EInv)
<1>1. Init => EInv
  BY DEF Init, EInv, LinksEvented, IssuedOnce, EventOrder, ReceiptEvidence, Has
<1>2. IInv /\ EInv /\ [Next]_vars => EInv'
  BY LinksStep, IssuedOnceStep, EventOrderStep, ReceiptStep DEF EInv
<1>3. IInv /\ [Next]_vars => IInv'
  BY TypeStep, CallsStep, OrderStep, ApprovalStep DEF IInv
<1> QED BY InitIInv, <1>1, <1>2, <1>3, PTL DEF Spec

\* Intents and applied events follow the approval they name, in every ledger.
THEOREM EventsOrdered == Spec => []EventOrder
<1>1. EInv => EventOrder
  BY DEF EInv
<1> QED BY ChainInvariance, <1>1, PTL

\* Every receipt is backed by its intent, its approval and exactly one event.
THEOREM ReceiptsEvidenced == Spec => []ReceiptEvidence
<1>1. EInv => ReceiptEvidence
  BY DEF EInv
<1> QED BY ChainInvariance, <1>1, PTL

-----------------------------------------------------------------------------
(* Action properties.                                                       *)

\* No step of any process drops or rewrites an event of any chain.
THEOREM ChainsGrow == Spec => ChainAppendOnly
<1>1. IInv /\ [Next]_vars =>
        [\A c \in Candidate : Has(c) =>
          /\ ledger'[c] # None
          /\ Len(ledger[c].events) <= Len(ledger'[c].events)
          /\ \A i \in DOMAIN ledger[c].events :
                ledger'[c].events[i] = ledger[c].events[i]]_vars
  <2> SUFFICES ASSUME IInv, [Next]_vars, NEW c \in Candidate, Has(c)
               PROVE  /\ ledger'[c] # None
                      /\ Len(ledger[c].events) <= Len(ledger'[c].events)
                      /\ \A i \in DOMAIN ledger[c].events :
                            ledger'[c].events[i] = ledger[c].events[i]
    OBVIOUS
  <2>1. TypeOK /\ LedgerMove(c)
    BY ArtifactMoves DEF IInv, Moves
  <2>2. ledger'[c] # None
    BY <2>1, LinkMoves DEF Has
  <2>3. ledger[c] \in Ledger
    BY <2>1 DEF TypeOK, Has
  <2>4. Len(ledger[c].events) \in Nat
    BY <2>3 DEF Ledger
  <2>5. CASE ledger'[c].events = ledger[c].events
    BY <2>2, <2>4, <2>5
  <2>6. CASE \E e \in Event : ledger'[c].events = Append(ledger[c].events, e)
    <3>1. PICK e \in Event : ledger'[c].events = Append(ledger[c].events, e)
      BY <2>6
    <3>2. /\ Len(ledger'[c].events) = Len(ledger[c].events) + 1
          /\ \A i \in DOMAIN ledger[c].events :
                ledger'[c].events[i] = ledger[c].events[i]
      BY <2>3, <3>1, AppendEvent, SMTT(60)
    <3> QED BY <2>2, <2>4, <3>2
  <2> QED BY <2>1, <2>5, <2>6, ChainMoves
<1> QED BY Invariance, <1>1, PTL DEF Spec, ChainAppendOnly

\* Once a proposal is finalized, its receipt, its intent and its approval stay.
THEOREM Finality == Spec => FinalForever
<1>1. (IInv /\ EInv) /\ [Next]_vars =>
        [\A c \in Candidate : receipts[c] # None =>
          /\ receipts'[c] = receipts[c] /\ intents'[c] = intents[c]
          /\ receipts[c].by \in ledger'[c].links]_vars
  <2> SUFFICES ASSUME IInv, EInv, [Next]_vars, NEW c \in Candidate, receipts[c] # None
               PROVE  /\ receipts'[c] = receipts[c] /\ intents'[c] = intents[c]
                      /\ receipts[c].by \in ledger'[c].links
    OBVIOUS
  <2>1. TypeOK /\ Moves(c)
    BY ArtifactMoves DEF IInv
  <2>2. receipts'[c] = receipts[c] /\ intents'[c] = intents[c]
    BY <2>1 DEF Moves, ReceiptMove, IntentMove
  <2>3. Has(c) /\ receipts[c].by \in ledger[c].links
    BY DEF EInv, ReceiptEvidence
  <2>4. ledger[c].links \subseteq ledger'[c].links
    BY <2>1, <2>3, LinkEvents DEF Moves, EInv, LinksEvented
  <2> QED BY <2>2, <2>3, <2>4
<1> QED BY ChainInvariance, <1>1, PTL DEF Spec, FinalForever

\* Only os.replace changes the working tree without a user.
LEMMA SwapWrites ==
    ASSUME TypeOK, [Next]_vars, ControlWrite
    PROVE  \E p \in Proc : Swap(p)
  <1>1. ASSUME NEW f \in Path, NEW b \in File, Edit(f, b) PROVE FALSE
    BY <1>1 DEF Edit, ControlWrite, TypeOK
  <1>2. CASE Commit \/ Expire \/ UNCHANGED vars
    BY <1>2 DEF Commit, Expire, vars, git, ControlWrite
  <1>3. ASSUME NEW c \in Candidate, NEW o \in Assessment \ {"none"}, Assess(c, o)
        PROVE  FALSE
    BY <1>3 DEF Assess, git, ControlWrite
  <1>4. ASSUME NEW p \in Proc, Call(p) \/ Recovery(p) \/ Crash(p) \/ Abandon(p)
        PROVE  FALSE
    BY <1>4 DEF Call, Observe, Authorize, ApplyStart, Recovery, RecoverStart,
         RecoverFinalize, RecoverSkip, RecoverDone, Crash, Abandon, git, ControlWrite
  <1>5. ASSUME NEW p \in Proc, Continue(p) PROVE Swap(p)
    BY <1>5 DEF Continue, Persist, Reconcile, WriteIntent, RecordIntent, Rebind,
         CheckPost, Issue, WriteReceipt, Raise, git, ControlWrite
  <1> QED BY <1>1, <1>2, <1>3, <1>4, <1>5 DEF Next, Environment

\* Authority is only written for a candidate that is approved, not finalized and has
\* a durable intent for those bytes, and only at its destination.
THEOREM AuthorizedWrites == Spec => WritesAuthorized
<1>1. IInv /\ [Next]_vars =>
        [ControlWrite =>
          \E c \in Candidate :
            /\ intents[c] # None /\ receipts[c] = None
            /\ ledger[c].disposition = "approved" /\ intents[c].by \in ledger[c].links
            /\ \A f \in Path : work'[f] = IF f = name[c].payload.dest
                                          THEN intents[c].after ELSE work[f]]_vars
  <2> SUFFICES ASSUME IInv, [Next]_vars, ControlWrite
               PROVE  \E c \in Candidate :
                        /\ intents[c] # None /\ receipts[c] = None
                        /\ ledger[c].disposition = "approved"
                        /\ intents[c].by \in ledger[c].links
                        /\ \A f \in Path : work'[f] = IF f = name[c].payload.dest
                                                      THEN intents[c].after ELSE work[f]
    OBVIOUS
  <2>1. PICK p \in Proc : Swap(p)
    BY SwapWrites DEF IInv
  <2> DEFINE c == loc[p].cand
  <2>2. pc[p] = "swap" /\ work' = [work EXCEPT ![name[c].payload.dest] = intents[c].after]
    BY <2>1 DEF Swap
  <2>3. TypeOK /\ CallsConsistent
    BY DEF IInv
  <2>4. /\ c \in Candidate /\ intents[c] # None /\ receipts[c] = None
        /\ ledger[c].disposition = "approved" /\ intents[c].by \in ledger[c].links
    BY <2>2, <2>3, LocalsType DEF CallsConsistent, Consistent, InApply, Planned
  <2>5. \A f \in Path : work'[f] = IF f = name[c].payload.dest
                                   THEN intents[c].after ELSE work[f]
    BY <2>2, <2>3 DEF TypeOK, Tree
  <2> QED BY <2>4, <2>5
<1> QED BY Invariance, <1>1, PTL DEF Spec, WritesAuthorized

\* A step that begins or resumes one call leaves the other calls alone.
LEMMA OthersStill ==
    ASSUME TypeOK, NEW p \in Proc, NEW q \in Proc, q # p,
           \/ \E pl \in Payload, gate \in Verdict : Observe(p, pl, gate)
           \/ \E c \in Candidate, e \in Evidence : Authorize(p, c, e) \/ ApplyStart(p, c, e)
           \/ RecordIntent(p) \/ Rebind(p) \/ Swap(p) \/ RecoverStart(p) \/ Abandon(p)
    PROVE  pc'[q] = pc[q] /\ loc'[q] = loc[q]
<1>1. ASSUME NEW pl \in Payload, NEW gate \in Verdict, Observe(p, pl, gate)
      PROVE  pc'[q] = pc[q] /\ loc'[q] = loc[q]
  BY <1>1 DEF Observe, Goto, TypeOK
<1>2. ASSUME NEW c \in Candidate, NEW e \in Evidence, Authorize(p, c, e)
      PROVE  pc'[q] = pc[q] /\ loc'[q] = loc[q]
  BY <1>2 DEF Authorize, Goto, TypeOK
<1>3. ASSUME NEW c \in Candidate, NEW e \in Evidence, ApplyStart(p, c, e)
      PROVE  pc'[q] = pc[q] /\ loc'[q] = loc[q]
  BY <1>3 DEF ApplyStart, Goto, TypeOK
<1>4. CASE RecordIntent(p)
  BY <1>4 DEF RecordIntent, Goto, TypeOK
<1>5. CASE Rebind(p) \/ Swap(p)
  BY <1>5 DEF Rebind, Swap, Goto, TypeOK
<1>6. CASE RecoverStart(p)
  BY <1>6 DEF RecoverStart, Goto, TypeOK
<1>7. CASE Abandon(p)
  BY <1>7 DEF Abandon, Return, Goto, TypeOK
<1> QED BY <1>1, <1>2, <1>3, <1>4, <1>5, <1>6, <1>7

\* Until a user edits, a call about to replace the target has it bound still: the lock
\* has kept every other call out since the second check of the binding.
Bound == \A p \in Proc : pc[p] = "swap" /\ edits = 0 => CurrentBinding(name[loc[p].cand])

\* Every step keeps the binding of the call that is about to write.
LEMMA BoundStep == IInv /\ Bound /\ [Next]_vars => Bound'
<1> SUFFICES ASSUME IInv, Bound, [Next]_vars,
                    NEW q \in Proc, pc'[q] = "swap", edits' = 0
             PROVE  CurrentBinding(name[loc[q].cand])'
  BY DEF Bound
<1> USE DEF IInv
<1>a. \A p \in Proc : lock = p <=> pc[p] \notin {"idle", "screened"}
  BY DEF CallsConsistent, Consistent
<1>b. ASSUME pc[q] = "swap", edits = 0, UNCHANGED <<head, index, work, name>>, loc'[q] = loc[q]
      PROVE  CurrentBinding(name[loc[q].cand])'
  <2>1. PICK id : id = name[loc[q].cand]
    OBVIOUS
  <2>2. CurrentBinding(id)
    BY <1>b, <2>1 DEF Bound
  <2>3. CurrentBinding(id)'
    BY <1>b, <2>2 DEF CurrentBinding, Publishable, Untracked, Tracked, TrackedTree,
         RepositoryAndSourcesHold, CitesHold, TargetAdmissible
  <2>4. name'[loc'[q].cand] = id
    BY <1>b, <2>1
  <2> QED BY <2>3, <2>4
<1>1. ASSUME NEW p \in Proc, Rebind(p) PROVE CurrentBinding(name[loc[q].cand])'
  <2>1. q = p
    BY <1>1, <1>a DEF Rebind, Goto, TypeOK
  <2> QED BY <1>1, <2>1 DEF Rebind, git, durable, CurrentBinding, Publishable, Untracked,
            Tracked, TrackedTree, RepositoryAndSourcesHold, CitesHold, TargetAdmissible
<1>2. ASSUME NEW p \in Proc,
             \/ Reconcile(p) \/ WriteIntent(p) \/ RecordIntent(p) \/ Swap(p) \/ CheckPost(p)
             \/ Issue(p) \/ WriteReceipt(p) \/ Raise(p) \/ Recovery(p) \/ Crash(p)
      PROVE  FALSE
  \* The call that moves is the one at the write, and it leaves that place.
  <2>1. pc' = [pc EXCEPT ![p] = pc'[p]] /\ pc'[p] # "swap"
    BY <1>2 DEF Reconcile, WriteIntent, RecordIntent, Swap, CheckPost, Issue, WriteReceipt,
         Raise, Recovery, RecoverStart, RecoverFinalize, RecoverSkip, RecoverDone, Crash,
         Goto, Return, TypeOK
  <2>2. lock = p \/ lock = None
    BY <1>2, <1>a DEF Reconcile, WriteIntent, RecordIntent, Swap, CheckPost, Issue,
         WriteReceipt, Raise, Recovery, RecoverStart, RecoverFinalize, RecoverSkip,
         RecoverDone, Crash, Acquire
  <2>3. q # p /\ pc[q] = "swap"
    BY <2>1 DEF TypeOK
  <2> QED BY <2>2, <2>3, <1>a, NoneAssumption
<1>3. ASSUME NEW p \in Proc, Persist(p) PROVE FALSE
  <2>1. lock = None /\ pc' = [pc EXCEPT ![p] = "idle"]
    BY <1>3 DEF Persist, Return, Goto
  <2>2. pc[q] = "swap"
    BY <2>1 DEF TypeOK
  <2> QED BY <2>1, <2>2, <1>a, NoneAssumption
<1>4. ASSUME NEW p \in Proc,
             \/ \E pl \in Payload, gate \in Verdict : Observe(p, pl, gate)
             \/ \E c \in Candidate, e \in Evidence : Authorize(p, c, e) \/ ApplyStart(p, c, e)
             \/ Abandon(p)
      PROVE  CurrentBinding(name[loc[q].cand])'
  <2>1. UNCHANGED <<head, index, work, name, edits>>
    BY <1>4 DEF Observe, Authorize, ApplyStart, Abandon, git, durable, counters
  <2>2. q # p
    BY <1>4 DEF Observe, Authorize, ApplyStart, Abandon, Return, Goto, TypeOK
  <2>3. pc'[q] = pc[q] /\ loc'[q] = loc[q]
    BY <1>4, <2>2, OthersStill
  <2> QED BY <1>b, <2>1, <2>3
<1>5. ASSUME NEW c \in Candidate, NEW o \in Assessment \ {"none"}, Assess(c, o)
      PROVE  CurrentBinding(name[loc[q].cand])'
  BY <1>5, <1>b DEF Assess, git, counters
<1>6. CASE Environment
  <2>1. ~(\E f \in Path, b \in File : Edit(f, b)) /\ ~Commit
    BY DEF Edit, Commit, TypeOK
  <2> QED BY <1>6, <1>b, <2>1 DEF Environment, Expire, durable, counters
<1>7. CASE UNCHANGED vars
  BY <1>7, <1>b DEF vars, git, durable, counters
<1> QED BY <1>1, <1>2, <1>3, <1>4, <1>5, <1>6, <1>7 DEF Next, Call, Continue

\* Until a user edits, what the control plane replaces is what its proposal was made
\* for: no proposal is written over another one made for the same state of the file.
THEOREM NoUpdateIsLost == Spec => NoLostUpdate
<1>1. Init => Bound
  BY DEF Init, Bound
<1>2. IInv /\ Bound /\ [Next]_vars => Bound'
  BY BoundStep
<1>3. IInv /\ Bound /\ [Next]_vars =>
        [ControlWrite /\ edits = 0 =>
          \E c \in Candidate :
            /\ intents[c] # None
            /\ work' = [work EXCEPT ![name[c].payload.dest] = intents[c].after]
            /\ work[name[c].payload.dest] = name[c].target
            /\ index = name[c].index /\ TrackedTree = name[c].tracked]_vars
  <2> SUFFICES ASSUME IInv, Bound, [Next]_vars, ControlWrite, edits = 0
               PROVE  \E c \in Candidate :
                        /\ intents[c] # None
                        /\ work' = [work EXCEPT ![name[c].payload.dest] = intents[c].after]
                        /\ work[name[c].payload.dest] = name[c].target
                        /\ index = name[c].index /\ TrackedTree = name[c].tracked
    OBVIOUS
  <2>1. PICK p \in Proc : Swap(p)
    BY SwapWrites DEF IInv
  <2> DEFINE c == loc[p].cand
  <2>2. pc[p] = "swap" /\ work' = [work EXCEPT ![name[c].payload.dest] = intents[c].after]
    BY <2>1 DEF Swap
  <2>3. c \in Candidate /\ intents[c] # None
    BY <2>2, LocalsType DEF IInv, CallsConsistent, Consistent, InApply, Planned
  <2>4. CurrentBinding(name[c])
    BY <2>2 DEF Bound
  <2> QED BY <2>2, <2>3, <2>4 DEF CurrentBinding
<1> QED BY Invariance, <1>1, <1>2, <1>3, PTL DEF Spec, NoLostUpdate

-----------------------------------------------------------------------------
(* Receipts and the states they certify.                                    *)

\* The post-state of a current intent is noted as soon as it stands, and the calls
\* that are about to write a receipt have seen it.
Witnessing ==
    /\ \A c \in Candidate : intents[c] # None /\ Here = intents[c].post => reached[c]
    /\ \A p \in Proc : pc[p] \in {"issue", "receipt"} => reached[loc[p].cand]
    /\ ReceiptWitnessed

\* The repository, the intents and the history change together, or not at all.
LEMMA HistoryMoves ==
    [Next]_vars => Observed \/ UNCHANGED <<Here, intents, reached>>
<1> SUFFICES ASSUME [Next]_vars PROVE Observed \/ UNCHANGED <<Here, intents, reached>>
  OBVIOUS
<1> USE DEF Here, git, durable
<1>1. ASSUME NEW p \in Proc, Continue(p) PROVE Observed \/ UNCHANGED <<Here, intents, reached>>
  BY <1>1 DEF Continue, Persist, Reconcile, WriteIntent, RecordIntent, Rebind, Swap,
       CheckPost, Issue, WriteReceipt, Raise
<1>2. ASSUME NEW p \in Proc, Call(p) \/ Recovery(p) \/ Crash(p) \/ Abandon(p)
      PROVE  Observed \/ UNCHANGED <<Here, intents, reached>>
  BY <1>2, ZenonT(30) DEF Call, Observe, Authorize, ApplyStart, Recovery, RecoverStart,
       RecoverFinalize, RecoverSkip, RecoverDone, Crash, Abandon
<1>3. ASSUME NEW c \in Candidate, NEW o \in Assessment \ {"none"}, Assess(c, o)
      PROVE  Observed \/ UNCHANGED <<Here, intents, reached>>
  BY <1>3 DEF Assess
<1>4. CASE Environment
  BY <1>4 DEF Environment, Edit, Commit, Expire
<1>5. CASE UNCHANGED vars
  BY <1>5 DEF vars
<1> QED BY <1>1, <1>2, <1>3, <1>4, <1>5 DEF Next

\* A call comes to its receipt by comparing the repository with its intent, and its
\* candidate does not change after that.
LEMMA IssuingMoves ==
    ASSUME IInv, [Next]_vars, NEW p \in Proc, pc'[p] \in {"issue", "receipt"}
    PROVE  /\ loc'[p].cand \in Candidate
           /\ intents[loc'[p].cand] # None
           /\ intents'[loc'[p].cand] = intents[loc'[p].cand]
           /\ \/ Here = intents[loc'[p].cand].post
              \/ pc[p] \in {"issue", "receipt"} /\ loc'[p].cand = loc[p].cand
<1> USE DEF IInv
<1> DEFINE Goal == /\ loc'[p].cand \in Candidate
                   /\ intents[loc'[p].cand] # None
                   /\ intents'[loc'[p].cand] = intents[loc'[p].cand]
                   /\ \/ Here = intents[loc'[p].cand].post
                      \/ pc[p] \in {"issue", "receipt"} /\ loc'[p].cand = loc[p].cand
\* a call that was there already keeps its candidate, and its intent with it
<1>a. ASSUME pc[p] \in {"issue", "receipt"}, loc'[p].cand = loc[p].cand,
             intents' = intents
      PROVE  Goal
  BY <1>a, LocalsType, NoneAssumption DEF Planned
<1>b. ASSUME NEW q \in Proc, q # p, intents' = intents,
             pc'[p] = pc[p], loc'[p] = loc[p]
      PROVE  Goal
  BY <1>a, <1>b
<1>1. ASSUME NEW q \in Proc, CheckPost(q) PROVE Goal
  <2>1. CASE q = p
    <3>1. pc[p] = "digest" /\ loc' = loc /\ intents' = intents
          /\ Here = intents[loc[p].cand].post
      BY <1>1, <2>1 DEF CheckPost, durable
    <3>2. loc[p].cand \in Candidate /\ intents[loc[p].cand] # None
      BY <3>1, LocalsType, NoneAssumption DEF Planned
    <3> QED BY <3>1, <3>2
  <2>2. CASE q # p
    BY <1>1, <1>b, <2>2 DEF CheckPost, Goto, durable, TypeOK
  <2> QED BY <2>1, <2>2
<1>2. ASSUME NEW q \in Proc, Issue(q) PROVE Goal
  <2>1. CASE q = p
    BY <1>2, <1>a, <2>1 DEF Issue
  <2>2. CASE q # p
    BY <1>2, <1>b, <2>2 DEF Issue, Goto, TypeOK
  <2> QED BY <2>1, <2>2
<1>3. ASSUME NEW q \in Proc, NEW c \in Candidate, RecoverFinalize(q, c) PROVE Goal
  <2>1. CASE q = p
    <3>1. loc'[p].cand = c /\ intents' = intents
      BY <1>3, <2>1 DEF RecoverFinalize, durable, TypeOK, Loc
    <3>2. intents[c] # None /\ Here = intents[c].post
      BY <1>3 DEF RecoverFinalize, Finalizable
    <3> QED BY <3>1, <3>2
  <2>2. CASE q # p
    BY <1>3, <1>b, <2>2 DEF RecoverFinalize, Goto, durable, TypeOK
  <2> QED BY <2>1, <2>2
\* no other step of p leads there
<1>4. ASSUME NEW q \in Proc,
             \/ \E pl \in Payload, gate \in Verdict : Observe(q, pl, gate)
             \/ \E c \in Candidate, e \in Evidence : Authorize(q, c, e) \/ ApplyStart(q, c, e)
             \/ RecordIntent(q) \/ Rebind(q) \/ Swap(q) \/ RecoverStart(q)
      PROVE  Goal
  <2>1. q # p
    <3>1. \E l \in {"screened", "reconcile", "validate", "digest", "rebind", "swap", "recover"} :
             Goto(q, l)
      BY <1>4 DEF Observe, Authorize, ApplyStart, RecordIntent, Rebind, Swap, RecoverStart
    <3> QED BY <3>1 DEF Goto, TypeOK
  <2>2. intents' = intents
    BY <1>4 DEF Observe, Authorize, ApplyStart, RecordIntent, Rebind, Swap,
         RecoverStart, durable
  <2>3. pc'[p] = pc[p] /\ loc'[p] = loc[p]
    BY <1>4, <2>1, OthersStill
  <2> QED BY <1>b, <2>1, <2>2, <2>3
<1>5. ASSUME NEW q \in Proc,
             Persist(q) \/ Reconcile(q) \/ Raise(q) \/ RecoverDone(q) \/ Crash(q) \/ Abandon(q)
      PROVE  Goal
  <2>1. Return(q) /\ intents' = intents
    BY <1>5 DEF Persist, Reconcile, Raise, RecoverDone, Crash, Abandon, durable
  <2>2. q # p
    BY <2>1 DEF Return, Goto, TypeOK
  <2> QED BY <1>b, <2>1, <2>2, ReturnConsistent
<1>6. ASSUME NEW q \in Proc, WriteReceipt(q) PROVE Goal
  <2>1. q # p
    BY <1>6 DEF WriteReceipt, Return, Goto, TypeOK
  <2>2. pc'[p] = pc[p] /\ loc'[p] = loc[p]
    BY <1>6, <2>1 DEF WriteReceipt, Return, Goto, TypeOK
  <2> QED BY <1>6, <1>b, <2>1, <2>2 DEF WriteReceipt
<1>7. ASSUME NEW q \in Proc, WriteIntent(q) PROVE Goal
  <2>1. q # p
    BY <1>7 DEF WriteIntent, Goto, TypeOK
  <2>2. pc'[p] = pc[p]
    BY <1>7, <2>1 DEF WriteIntent, Goto, TypeOK
  <2>3. lock = p /\ lock = q
    BY <1>7, <2>2 DEF CallsConsistent, Consistent, WriteIntent
  <2> QED BY <2>1, <2>3
<1>8. ASSUME NEW q \in Proc, NEW c \in Candidate, RecoverSkip(q, c) PROVE Goal
  <2>1. CASE q = p
    BY <1>8, <2>1 DEF RecoverSkip, TypeOK
  <2>2. CASE q # p
    BY <1>8, <1>b, <2>2 DEF RecoverSkip, durable, TypeOK
  <2> QED BY <2>1, <2>2
<1>9. ASSUME UNCHANGED <<pc, loc, intents>> PROVE Goal
  BY <1>9, <1>a
<1>10. ASSUME NEW c \in Candidate, NEW o \in Assessment \ {"none"}, Assess(c, o) PROVE Goal
  BY <1>9, <1>10 DEF Assess
<1>11. CASE Environment
  BY <1>9, <1>11 DEF Environment, Edit, Commit, Expire, durable
<1>12. CASE UNCHANGED vars
  BY <1>9, <1>12 DEF vars, durable
<1> QED
  BY <1>1, <1>2, <1>3, <1>4, <1>5, <1>6, <1>7, <1>8, <1>10, <1>11, <1>12
     DEF Next, Call, Continue, Recovery

\* Only the second half of _write_workspace_receipt writes receipts.
LEMMA ReceiptWriter ==
    ASSUME [Next]_vars, receipts' # receipts
    PROVE  \E p \in Proc : WriteReceipt(p)
<1> USE DEF durable
<1>1. ASSUME NEW p \in Proc, Continue(p) PROVE WriteReceipt(p)
  BY <1>1 DEF Continue, Persist, Reconcile, WriteIntent, RecordIntent, Rebind, Swap,
       CheckPost, Issue, Raise
<1>2. ASSUME NEW p \in Proc, Call(p) \/ Recovery(p) \/ Crash(p) \/ Abandon(p) PROVE FALSE
  BY <1>2 DEF Call, Observe, Authorize, ApplyStart, Recovery, RecoverStart,
       RecoverFinalize, RecoverSkip, RecoverDone, Crash, Abandon
<1>3. ASSUME NEW c \in Candidate, NEW o \in Assessment \ {"none"}, Assess(c, o) PROVE FALSE
  BY <1>3 DEF Assess
<1>4. ~Environment /\ vars' # vars
  BY DEF Environment, Edit, Commit, Expire, vars
<1> QED BY <1>1, <1>2, <1>3, <1>4 DEF Next

\* Every step keeps the history behind the receipts.
LEMMA WitnessStep == IInv /\ Witnessing /\ [Next]_vars => Witnessing'
<1> SUFFICES ASSUME IInv, Witnessing, [Next]_vars PROVE Witnessing'
  OBVIOUS
<1>1. ASSUME NEW c \in Candidate, intents[c] # None, intents'[c] = intents[c],
             reached[c] \/ Here = intents[c].post
      PROVE  reached'[c]
  BY <1>1, HistoryMoves DEF Observed, Witnessing
<1>2. \A c \in Candidate : intents'[c] # None /\ Here' = intents'[c].post => reached'[c]
  BY HistoryMoves DEF Observed, Witnessing
<1>3. \A p \in Proc : pc'[p] \in {"issue", "receipt"} => reached'[loc'[p].cand]
  <2> SUFFICES ASSUME NEW p \in Proc, pc'[p] \in {"issue", "receipt"}
               PROVE  reached'[loc'[p].cand]
    OBVIOUS
  <2>1. reached[loc'[p].cand] \/ Here = intents[loc'[p].cand].post
    BY IssuingMoves DEF Witnessing
  <2> QED BY <1>1, <2>1, IssuingMoves
<1>4. ReceiptWitnessed'
  <2> SUFFICES ASSUME NEW c \in Candidate, receipts'[c] # None PROVE reached'[c]
    BY DEF ReceiptWitnessed
  <2>1. TypeOK /\ Moves(c) /\ CallsConsistent /\ ArtifactOrder
    BY ArtifactMoves DEF IInv
  <2>2. CASE receipts'[c] = receipts[c]
    <3>1. reached[c] /\ intents[c] # None
      BY <2>1, <2>2 DEF Witnessing, ReceiptWitnessed, ArtifactOrder
    <3>2. intents'[c] = intents[c]
      BY <2>1, <2>2 DEF Moves, IntentMove
    <3> QED BY <1>1, <3>1, <3>2
  <2>3. CASE receipts'[c] # receipts[c]
    <3>1. PICK p \in Proc : WriteReceipt(p)
      BY <2>3, ReceiptWriter
    <3>2. pc[p] = "receipt" /\ loc[p].cand \in Candidate /\ intents' = intents
          /\ \E b : receipts' = [receipts EXCEPT ![loc[p].cand] = b]
      BY <3>1, <2>1, LocalsType DEF WriteReceipt, Planned
    <3>3. loc[p].cand = c
      BY <2>1, <2>3, <3>2 DEF TypeOK
    <3>4. reached[c] /\ intents[c] # None
      BY <2>1, <3>2, <3>3, LocalsType, NoneAssumption DEF Witnessing, Planned
    <3> QED BY <1>1, <3>2, <3>3, <3>4
  <2> QED BY <2>2, <2>3
<1> QED BY <1>2, <1>3, <1>4 DEF Witnessing

\* A receipt only certifies a repository state that existed after the intent was sealed.
THEOREM ReceiptsWitnessed == Spec => []ReceiptWitnessed
<1>1. Init => Witnessing
  BY DEF Init, Witnessing, ReceiptWitnessed
<1>2. (IInv /\ Witnessing) /\ [Next]_vars => Witnessing'
  BY WitnessStep
<1>3. IInv /\ [Next]_vars => IInv'
  BY TypeStep, CallsStep, OrderStep, ApprovalStep DEF IInv
<1>4. Witnessing => ReceiptWitnessed
  BY DEF Witnessing
<1> QED BY InitIInv, <1>1, <1>2, <1>3, <1>4, PTL DEF Spec

-----------------------------------------------------------------------------
(* The control plane implements the proposal protocol: reconciling an      *)
(* approval is Link, sealing the first intent is Plan, writing the receipt *)
(* is Finalize, and every other step stutters.                             *)

\* The one approval a candidate is linked to is the one its protocol state shows.
LEMMA LinkOfOne ==
    ASSUME TypeOK, ApprovalEvidence, NEW c \in Candidate, Has(c),
           NEW e \in ledger[c].links
    PROVE  LinkOf(c) = e /\ e \in Evidence
<1>1. ledger[c] \in Ledger
  BY DEF TypeOK, Has
<1>2. e \in Evidence /\ ledger[c].links \subseteq Evidence
  BY <1>1 DEF Ledger
<1>3. \A f \in ledger[c].links : f = e
  BY DEF ApprovalEvidence
<1>4. (CHOOSE f \in Evidence : f \in ledger[c].links) = e
  BY <1>2, <1>3
<1> QED BY <1>2, <1>4 DEF LinkOf, Has

\* A step that keeps the links keeps the protocol state.
LEMMA LinkOfSame ==
    ASSUME NEW c \in Candidate,
           \/ ledger'[c] = ledger[c]
           \/ Has(c) /\ Has(c)' /\ ledger'[c].links = ledger[c].links
           \/ ~Has(c) /\ ledger'[c].links = {}
    PROVE  LinkOf(c)' = LinkOf(c)
<1>1. CASE ledger'[c] = ledger[c]
  BY <1>1 DEF LinkOf
<1>2. CASE Has(c) /\ Has(c)' /\ ledger'[c].links = ledger[c].links
  BY <1>2 DEF LinkOf, Has
<1>3. CASE ~Has(c) /\ ledger'[c].links = {}
  BY <1>3 DEF LinkOf, Has
<1> QED BY <1>1, <1>2, <1>3

\* Every step of the control plane is a step of the protocol or a stutter.
LEMMA ProtocolStep ==
    IInv /\ IInv' /\ [Next]_vars => [Protocol!Next]_(Protocol!vars)
<1> SUFFICES ASSUME IInv, IInv', [Next]_vars PROVE [Protocol!Next]_(Protocol!vars)
  OBVIOUS
<1> USE DEF IInv
<1>a. \A l \in Ledger : l # None
  BY NoneAssumption
\* nothing of the protocol changes
<1>b. ASSUME \A c \in Candidate : LinkOf(c)' = LinkOf(c), UNCHANGED <<intents, receipts>>
      PROVE  UNCHANGED Protocol!vars
  BY <1>b DEF Protocol!vars
<1>c. ASSUME UNCHANGED <<ledger, intents, receipts>> PROVE UNCHANGED Protocol!vars
  <2>1. \A c \in Candidate : LinkOf(c)' = LinkOf(c)
    BY <1>c, LinkOfSame
  <2> QED BY <1>b, <1>c, <2>1
<1>1. ASSUME NEW p \in Proc, Persist(p) PROVE UNCHANGED Protocol!vars
  <2>1. PICK c \in Candidate :
          ledger' = [ledger EXCEPT ![c] =
                       IF @ = None THEN NewLedger(loc[p].verdict)
                                   ELSE Rescreened(@, loc[p].verdict)]
    BY <1>1 DEF Persist
  <2>2. loc[p].verdict \in Verdict
    BY <1>1, LocalsType DEF Persist
  <2>3. ASSUME NEW d \in Candidate PROVE LinkOf(d)' = LinkOf(d)
    <3>1. CASE d # c
      BY <2>1, <3>1, LinkOfSame DEF TypeOK
    <3>2. CASE d = c /\ ~Has(d)
      <4>1. ledger'[d].links = {}
        BY <2>1, <2>2, <3>2, NewLedgerType DEF TypeOK, Has
      <4> QED BY <3>2, <4>1, LinkOfSame
    <3>3. CASE d = c /\ Has(d)
      <4>1. ledger'[d] = Rescreened(ledger[d], loc[p].verdict) /\ ledger[d] \in Ledger
        BY <2>1, <3>3 DEF TypeOK, Has
      <4>2. Has(d)' /\ ledger'[d].links = ledger[d].links
        BY <1>a, <2>2, <4>1, RescreenedType DEF Has
      <4> QED BY <3>3, <4>2, LinkOfSame
    <3> QED BY <3>1, <3>2, <3>3
  <2> QED BY <1>1, <1>b, <2>3 DEF Persist
<1>2. ASSUME NEW c \in Candidate, NEW o \in Assessment \ {"none"}, Assess(c, o)
      PROVE  UNCHANGED Protocol!vars
  <2>1. ASSUME NEW d \in Candidate PROVE LinkOf(d)' = LinkOf(d)
    <3>1. CASE d # c
      BY <1>2, <3>1, LinkOfSame DEF Assess, TypeOK
    <3>2. CASE d = c
      <4>1. Has(d) /\ ledger'[d] = Assessed(ledger[d], o) /\ ledger[d] \in Ledger
        BY <1>2, <3>2 DEF Assess, TypeOK, Has
      <4>2. Has(d)' /\ ledger'[d].links = ledger[d].links
        BY <1>a, <4>1, AssessedType DEF Has
      <4> QED BY <4>1, <4>2, LinkOfSame
    <3> QED BY <3>1, <3>2
  <2> QED BY <1>2, <1>b, <2>1 DEF Assess
<1>3. ASSUME NEW p \in Proc, Reconcile(p) PROVE [Protocol!Next]_(Protocol!vars)
  <2>1. pc[p] = "reconcile" /\ UNCHANGED <<intents, receipts>>
    BY <1>3 DEF Reconcile
  <2>2. PICK c \in Candidate, e \in Evidence :
             c = loc[p].cand /\ e = loc[p].ev /\ ledger[c] \in Ledger /\ Has(c)
    BY <1>a, <2>1, LocalsType DEF Has
  <2>3. CASE ledger' = ledger
    BY <1>c, <2>1, <2>3
  <2>4. CASE ledger[c].links \subseteq {e} /\ ledger' = [ledger EXCEPT ![c] = Linked(@, e)]
    <3>1. ledger'[c] \in Ledger /\ ledger'[c].links = ledger[c].links \cup {e}
      BY <2>2, <2>4, LinkedType DEF TypeOK
    <3>2. Has(c)' /\ e \in ledger'[c].links
      BY <1>a, <3>1 DEF Has
    <3>3. \A d \in Candidate \ {c} : LinkOf(d)' = LinkOf(d)
      BY <2>4, LinkOfSame DEF TypeOK
    <3>4. CASE e \in ledger[c].links
      <4>1. ledger'[c].links = ledger[c].links
        BY <3>1, <3>4
      <4>2. LinkOf(c)' = LinkOf(c)
        BY <2>2, <3>2, <4>1, LinkOfSame
      <4> QED BY <1>b, <2>1, <3>3, <4>2
    <3>5. CASE e \notin ledger[c].links
      <4>1. ledger[c].links = {} /\ ledger'[c].links = {e}
        BY <2>4, <3>1, <3>5
      <4>2. LinkOf(c) = None
        BY <4>1 DEF LinkOf
      <4>3. LinkOf(c)' = e
        BY <2>2, <3>2, <4>1 DEF LinkOf, Has
      <4>4. receipts[c] = None
        BY <2>2, <4>1 DEF ArtifactOrder
      <4>5. Protocol!Link(c, e)
        BY <2>1, <2>2, <3>3, <4>2, <4>3, <4>4 DEF Protocol!Link
      <4> QED BY <2>2, <4>5 DEF Protocol!Next
    <3> QED BY <3>4, <3>5
  <2> QED BY <1>3, <2>2, <2>3, <2>4 DEF Reconcile, Linkable
<1>4. ASSUME NEW p \in Proc, WriteIntent(p) PROVE [Protocol!Next]_(Protocol!vars)
  <2>1. pc[p] = "validate" /\ UNCHANGED <<ledger, receipts>>
    BY <1>4 DEF WriteIntent
  <2>2. PICK c \in Candidate :
             /\ c = loc[p].cand /\ Has(c) /\ loc[p].ev \in ledger[c].links
             /\ receipts[c] = None
    BY <2>1, LocalsType DEF CallsConsistent, Consistent, InApply
  <2>3. PICK i \in Intent : i.by = loc[p].ev /\ intents' = [intents EXCEPT ![c] = i]
    BY <1>4, <2>2, IntentWritten
  <2>4. LinkOf(c) = loc[p].ev /\ loc[p].ev \in Evidence /\ loc[p].ev # None
    BY <2>2, LinkOfOne, NoneAssumption
  <2>5. \A d \in Candidate : LinkOf(d)' = LinkOf(d)
    BY <2>1, LinkOfSame
  <2>6. intents'[c] = i /\ i # None /\ \A d \in Candidate \ {c} : intents'[d] = intents[d]
    BY <2>3, <2>2, NoneAssumption DEF TypeOK
  <2>7. CASE intents[c] = None
    <3>1. Protocol!Plan(c)
      BY <2>3, <2>1, <2>2, <2>4, <2>5, <2>6, <2>7 DEF Protocol!Plan
    <3> QED BY <2>2, <3>1 DEF Protocol!Next
  <2>8. CASE intents[c] # None
    <3>1. intents[c].by = loc[p].ev
      BY <2>2, <2>8 DEF ArtifactOrder, ApprovalEvidence
    <3> QED BY <2>3, <2>1, <2>5, <2>6, <2>8, <3>1 DEF Protocol!vars
  <2> QED BY <2>7, <2>8
<1>5. ASSUME NEW p \in Proc, RecordIntent(p) PROVE UNCHANGED Protocol!vars
  <2> DEFINE c == loc[p].cand
             a == By("application_intent", loc[p].ev)
  <2>1. pc[p] = "event" /\ ledger' = [ledger EXCEPT ![c] = Record(loc[p].copy, a)]
    BY <1>5 DEF RecordIntent
  <2>2. c \in Candidate /\ ledger[c] \in Ledger /\ loc[p].copy = ledger[c] /\ a \in Event
    <3>1. loc[p].ev \in Evidence /\ c \in Candidate /\ ledger[c] \in Ledger
      BY <2>1, LocalsType DEF InApply
    <3>2. loc[p].copy = ledger[c]
      BY <2>1 DEF CallsConsistent, Consistent
    <3> QED BY <3>1, <3>2, EventTypes DEF EventKind
  <2>3. ledger'[c] \in Ledger /\ ledger'[c].links = ledger[c].links
    <3> HIDE DEF a
    <3> QED BY <2>1, <2>2, RecordType DEF TypeOK
  <2>4. ASSUME NEW d \in Candidate PROVE LinkOf(d)' = LinkOf(d)
    <3>1. CASE d # c
      BY <2>1, <3>1, LinkOfSame DEF TypeOK
    <3>2. CASE d = c
      BY <1>a, <2>2, <2>3, <3>2, LinkOfSame DEF Has
    <3> QED BY <3>1, <3>2
  <2> QED BY <1>5, <1>b, <2>4 DEF RecordIntent
<1>6. ASSUME NEW p \in Proc, Issue(p) PROVE UNCHANGED Protocol!vars
  <2> DEFINE c == loc[p].cand
  <2>1. /\ c \in Candidate /\ ledger' = [ledger EXCEPT ![c] = ledger'[c]]
        /\ ledger'[c] \in Ledger /\ ledger'[c].links = ledger[c].links
    BY <1>6, IssueKeeps
  <2>2. Has(c)
    BY <1>6, <1>a, LocalsType DEF Issue, Planned, Has
  <2>3. ASSUME NEW d \in Candidate PROVE LinkOf(d)' = LinkOf(d)
    <3>1. CASE d # c
      BY <2>1, <3>1, LinkOfSame DEF TypeOK
    <3>2. CASE d = c
      BY <1>a, <2>1, <2>2, <3>2, LinkOfSame DEF Has
    <3> QED BY <3>1, <3>2
  <2> QED BY <1>6, <1>b, <2>3 DEF Issue
<1>7. ASSUME NEW p \in Proc, WriteReceipt(p) PROVE [Protocol!Next]_(Protocol!vars)
  <2>1. pc[p] = "receipt" /\ UNCHANGED <<ledger, intents>>
    BY <1>7 DEF WriteReceipt
  <2>2. PICK c \in Candidate :
             /\ c = loc[p].cand /\ ledger[c] \in Ledger /\ intents[c] \in Intent
             /\ receipts[c] = None
    BY <2>1, LocalsType DEF CallsConsistent, Consistent, Planned
  <2>3. PICK b \in IssuedBodies(c) : receipts' = [receipts EXCEPT ![c] = b]
    BY <1>7, <2>2 DEF WriteReceipt
  <2>4. b \in Body /\ b.by = intents[c].by
    BY <2>3, <2>2, IssuedType
  <2>5. b # None /\ intents[c] # None /\ intents[c].by # None
    BY <2>2, <2>4, NoneAssumption DEF Intent
  <2>6. \A d \in Candidate : LinkOf(d)' = LinkOf(d)
    BY <2>1, LinkOfSame
  <2>7. receipts'[c] = b /\ \A d \in Candidate \ {c} : receipts'[d] = receipts[d]
    BY <2>3, <2>2 DEF TypeOK
  <2>8. Protocol!Finalize(c)
    BY <2>1, <2>2, <2>4, <2>5, <2>6, <2>7 DEF Protocol!Finalize
  <2> QED BY <2>2, <2>8 DEF Protocol!Next
<1>8. ASSUME NEW p \in Proc,
             Call(p) \/ Recovery(p) \/ Crash(p) \/ Abandon(p)
             \/ Rebind(p) \/ Swap(p) \/ CheckPost(p) \/ Raise(p)
      PROVE  UNCHANGED Protocol!vars
  BY <1>c, <1>8, ZenonT(30) DEF Call, Observe, Authorize, ApplyStart, Recovery, RecoverStart,
       RecoverFinalize, RecoverSkip, RecoverDone, Crash, Abandon, Rebind, Swap,
       CheckPost, Raise, durable
<1>9. CASE Environment
  BY <1>c, <1>9 DEF Environment, Edit, Commit, Expire, durable
<1>10. CASE UNCHANGED vars
  BY <1>c, <1>10 DEF vars, durable
<1> QED
  BY <1>1, <1>2, <1>3, <1>4, <1>5, <1>6, <1>7, <1>8, <1>9, <1>10 DEF Next, Continue

\* Whatever crashes, edits and races happen, a candidate is linked to one approval,
\* planned under it and finalized at most once, under the approval of its plan.
THEOREM Refinement == Spec => ImplementsProtocol
<1>1. Init => Protocol!Init
  BY DEF Init, Protocol!Init, LinkOf
<1>2. IInv /\ IInv' /\ [Next]_vars => [Protocol!Next]_(Protocol!vars)
  BY ProtocolStep
<1>3. Spec => Protocol!Spec
  BY Invariance, <1>1, <1>2, PTL DEF Spec, Protocol!Spec
<1> QED BY <1>3 DEF ImplementsProtocol
=============================================================================
