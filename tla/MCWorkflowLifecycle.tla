------------------------ MODULE MCWorkflowLifecycle ------------------------
(***************************************************************************)
(* An instance of WorkflowLifecycle.  Freeze f1 has nodes n1 and n2, where *)
(* n2 joins on n1; freeze f2 drops n2 for n3, which joins on n1 too, and a *)
(* migration of f2 sends n2 to n3.  The one change request maps n1 to n3.  *)
(* Only f2 lets supervisors approve and forbids agents to propose.         *)
(***************************************************************************)
EXTENDS WorkflowLifecycle, TLC

CONSTANTS n1, n2, n3, f1, f2

MCNodesOf == f1 :> {n1, n2} @@ f2 :> {n1, n3}

MCWaitFor ==
  f1 :> [n \in Node |-> IF n = n2 THEN {n1} ELSE {}] @@
  f2 :> [n \in Node |-> IF n = n3 THEN {n1} ELSE {}]

MCMigration ==
  f1 :> [n \in Node |-> None] @@
  f2 :> [n \in Node |-> IF n = n2 THEN n3 ELSE None]

MCCarries == <<{f2}>>
MCMapping == <<[n \in Node |-> IF n = n1 THEN n3 ELSE None]>>
MCDisposes == <<{n2}>>

\* Bound: one attempt of the family starts afresh, the other resumes it.
OneFreshStart ==
  \A a, b \in Attempt :
    /\ status[a] # "none" /\ source[a] = None
    /\ status[b] # "none" /\ source[b] = None
    => a = b

Symmetric == Permutations(Attempt) \cup Permutations(Activation)

=============================================================================
