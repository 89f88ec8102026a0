-------------------------- MODULE ProposalProtocol --------------------------
(***************************************************************************)
(* What the control plane promises about one proposal, without locks,      *)
(* ledgers, trees or crashes: it is linked to one approval and never to    *)
(* another, it is planned only under that approval, and it is finalized at *)
(* most once, under the approval it was planned with.  A proposal that is  *)
(* revoked, crashed or stale simply takes no further step.                 *)
(***************************************************************************)
CONSTANTS Candidate, Evidence, None

VARIABLES
    link,    \* the approval a proposal is linked to
    plan,    \* the approval its application intent was made under
    final    \* the approval it was finalized under

vars == <<link, plan, final>>

Init ==
    /\ link = [c \in Candidate |-> None]
    /\ plan = [c \in Candidate |-> None]
    /\ final = [c \in Candidate |-> None]

Link(c, e) ==
    /\ link[c] = None /\ final[c] = None
    /\ link' = [link EXCEPT ![c] = e]
    /\ UNCHANGED <<plan, final>>

Plan(c) ==
    /\ link[c] # None /\ plan[c] = None /\ final[c] = None
    /\ plan' = [plan EXCEPT ![c] = link[c]]
    /\ UNCHANGED <<link, final>>

Finalize(c) ==
    /\ plan[c] # None /\ final[c] = None
    /\ final' = [final EXCEPT ![c] = plan[c]]
    /\ UNCHANGED <<link, plan>>

Next == \E c \in Candidate :
            \/ \E e \in Evidence : Link(c, e)
            \/ Plan(c)
            \/ Finalize(c)

Spec == Init /\ [][Next]_vars
=============================================================================
