----------------------------- MODULE Publication -----------------------------
(***************************************************************************)
(* The two derived indexes of committed memory and the recall that uses    *)
(* them.  Only commits are authority: an index is built from one commit in *)
(* a temporary file that replaces the published one, recall takes from it  *)
(* which items to look at and takes the items from the commit.  Commits,   *)
(* purges, other builders and crashes come between any two steps.          *)
(*                                                                         *)
(* An item's text stands for its path and bytes, whose frontmatter may     *)
(* retire it; the tombstones that it reactivates are kept apart.           *)
(* The recall policy and the ranking are left out: a recall may look at    *)
(* any items, and its answer is what it would return if it looked at all.  *)
(* An index is the number of the commit it was built from.                 *)
(***************************************************************************)
EXTENDS Integers, Sequences, FiniteSets

CONSTANTS
    Item, Text,
    Retired,       \* texts whose frontmatter retires them
    Builder,       \* processes that run recover (a command, or SessionStart)
    Reader,        \* processes that recall
    None,
    MaxCommits, MaxFaults

VARIABLES
    commits,       \* trees: [items, stones], the last one is HEAD
    authority, hybrid,   \* the published indexes, or None
    pc, reads,     \* per builder: its step, and the commit it read
    began,         \* per reader: HEAD when its recall began, or 0
    faults

vars == <<commits, authority, hybrid, pc, reads, began, faults>>

Stone == [item : Item, text : Text]

Version == [text : Text, reactivates : SUBSET Stone]

Fresh(t) == [text |-> t, reactivates |-> {}]

HEAD == Len(commits)

Init ==
    /\ \E t \in Text : commits = <<[items |-> [i \in Item |-> Fresh(t)], stones |-> {}]>>
    /\ authority = None /\ hybrid = None
    /\ pc = [b \in Builder |-> "idle"] /\ reads = [b \in Builder |-> 0]
    /\ began = [r \in Reader |-> 0]
    /\ faults = 0

-----------------------------------------------------------------------------
(* Commits, by users and by the control plane.                             *)

Tree == commits[HEAD]

Push(tree) ==
    /\ HEAD <= MaxCommits /\ commits' = Append(commits, tree)
    /\ UNCHANGED <<authority, hybrid, pc, reads, began, faults>>

Edit(i, v) == v # Tree.items[i] /\ Push([Tree EXCEPT !.items[i] = v])

\* An applied deletion adds a tombstone for the item as it is.
Entomb(i) ==
    LET stone == [item |-> i, text |-> Tree.items[i].text]
    IN  stone \notin Tree.stones /\ Push([Tree EXCEPT !.stones = @ \cup {stone}])

-----------------------------------------------------------------------------
(* What a commit says (_committed_state).                                  *)

StonesOf(tree, i) == {s \in tree.stones : s.item = i}

\* Mutant: a reactivation is believed whatever the text.
ReactivatedAnyhow(tree, i) ==
    {s \in StonesOf(tree, i) : s.text = tree.items[i].text /\ s \notin tree.items[i].reactivates}

Bars(tree, i) == {s \in StonesOf(tree, i) : s.text = tree.items[i].text}

\* A tombstoned item may change only by naming every tombstone that it leaves behind, and
\* may name nothing else; otherwise no commit state can be read at all.
Valid(tree) ==
    \A i \in Item : tree.items[i].reactivates = StonesOf(tree, i) \ Bars(tree, i)

Eligible(tree) == {i \in Item : Bars(tree, i) = {} /\ tree.items[i].text \notin Retired}

-----------------------------------------------------------------------------
(* Builders.                                                               *)

Go(b, step) == pc' = [pc EXCEPT ![b] = step]

\* Mutant: an index that can be read is healthy.
HealthyIfAny == hybrid # None

\* Health looks at the hybrid index alone.
Healthy == hybrid = HEAD

Check(b) ==
    /\ pc[b] = "idle" /\ ~Healthy /\ Go(b, "authority")
    /\ UNCHANGED <<commits, authority, hybrid, reads, began, faults>>

\* The commit is read when a build begins; an invalid one ends the recovery.
ReadCommit(b) ==
    /\ pc[b] \in {"authority", "hybrid"} /\ reads[b] = 0
    /\ IF Valid(Tree) THEN reads' = [reads EXCEPT ![b] = HEAD] /\ pc' = pc
                      ELSE reads' = reads /\ Go(b, "idle")
    /\ UNCHANGED <<commits, authority, hybrid, began, faults>>

PublishAuthority(b) ==
    /\ pc[b] = "authority" /\ reads[b] # 0
    /\ authority' = reads[b] /\ Go(b, "hybrid") /\ reads' = [reads EXCEPT ![b] = 0]
    /\ UNCHANGED <<commits, hybrid, began, faults>>

PublishHybrid(b) ==
    /\ pc[b] = "hybrid" /\ reads[b] # 0
    /\ hybrid' = reads[b] /\ Go(b, "idle") /\ reads' = [reads EXCEPT ![b] = 0]
    /\ UNCHANGED <<commits, authority, began, faults>>

Crash(b) ==
    /\ pc[b] # "idle" /\ faults < MaxFaults /\ faults' = faults + 1
    /\ Go(b, "idle") /\ reads' = [reads EXCEPT ![b] = 0]
    /\ UNCHANGED <<commits, authority, hybrid, began>>

\* A runtime deletion unlinks both indexes.
Invalidate ==
    /\ faults < MaxFaults /\ faults' = faults + 1
    /\ authority' = None /\ hybrid' = None
    /\ UNCHANGED <<commits, pc, reads, began>>

-----------------------------------------------------------------------------
(* Recall, from the hybrid index or from the projection.                   *)

Begin(r) ==
    /\ began[r] = 0 /\ began' = [began EXCEPT ![r] = HEAD]
    /\ UNCHANGED <<commits, authority, hybrid, pc, reads, faults>>

\* A missing or stale index is not used, and the projection is compared with what the
\* commit says.
HybridCurrent(r) == hybrid = began[r]

ProjectionCurrent(r) == authority = began[r]

\* Candidates are reopened from the commit that was HEAD when the recall began.
Reopened(revision) ==
    {[item |-> i, text |-> commits[revision].items[i].text] : i \in Eligible(commits[revision])}

\* From a commit that cannot be read nothing is returned.
Answer(r) ==
    IF began[r] # 0 /\ (HybridCurrent(r) \/ ProjectionCurrent(r)) /\ Valid(commits[began[r]])
    THEN Reopened(began[r]) ELSE {}

Return(r) ==
    /\ began[r] # 0 /\ began' = [began EXCEPT ![r] = 0]
    /\ UNCHANGED <<commits, authority, hybrid, pc, reads, faults>>

Next ==
    \/ \E i \in Item : Entomb(i) \/ \E v \in Version : Edit(i, v)
    \/ \E b \in Builder : \/ Check(b) \/ ReadCommit(b) \/ PublishAuthority(b)
                          \/ PublishHybrid(b) \/ Crash(b)
    \/ Invalidate
    \/ \E r \in Reader : Begin(r) \/ Return(r)

Spec == Init /\ [][Next]_vars

Continue(b) == ReadCommit(b) \/ PublishAuthority(b) \/ PublishHybrid(b)

\* Sessions keep starting, and each runs recover to its end or dies.
Fairness == \A b \in Builder : WF_vars(Check(b)) /\ WF_vars(Continue(b))

-----------------------------------------------------------------------------
(* Properties.                                                             *)

\* What was deleted is not recalled: no match of a recall was entombed, as it is, in any
\* commit up to the HEAD the recall began at, whatever was edited since, and a match that
\* was entombed in another form names all those tombstones.
NothingDeleted ==
    \A r \in Reader : \A match \in Answer(r), n \in 1 .. began[r] :
        /\ match \notin commits[n].stones
        /\ StonesOf(commits[n], match.item)
             \subseteq commits[began[r]].items[match.item].reactivates

\* When commits, purges and crashes have ended, and the last commit can be read, the hybrid
\* index becomes and stays that of the last commit, whoever published when.
HybridRepaired == <>[]Valid(Tree) => <>[](hybrid = HEAD)

\* docs/agent-memory-hook-protocol.md: SessionStart repairs rebuildable stale indexes.
IndexesRepaired == <>[]Valid(Tree) => <>[](hybrid = HEAD /\ authority = HEAD)
=============================================================================
