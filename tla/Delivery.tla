------------------------------ MODULE Delivery ------------------------------
(***************************************************************************)
(* What the message bus promises its senders: where a message can be, and  *)
(* what its sender has been told.  Agents.tla says how the registry, the   *)
(* sessions and the bus bring it about, Agents_proofs.tla that they do.    *)
(*                                                                         *)
(* A message is with its sender until send() returns.  A message reported  *)
(* as delivered is with the agent or with its session, from which it only  *)
(* goes to the agent.  One reported as failed is lost, or it waits in the  *)
(* mailbox, where the agent may still find it, and which loses a message   *)
(* only to make room for another.                                          *)
(***************************************************************************)
EXTENDS Naturals, FiniteSets

CONSTANTS Messages, Cap   \* the messages sent, and the mailbox's capacity

VARIABLES
  place,  \* message -> where it is
  told    \* message -> what its sender was told

vars == <<place, told>>

At(p) == {m \in Messages : place[m] = p}
Moved(M, p) == [m \in Messages |-> IF m \in M THEN p ELSE place[m]]
Told(M, outcome) == [m \in Messages |-> IF m \in M THEN outcome ELSE told[m]]

Init ==
  /\ place = [m \in Messages |-> "sender"]
  /\ told = [m \in Messages |-> "none"]

\* Sends fail: all those, for instance, that joined a revival that fails.
Refuse(M) ==
  /\ M \subseteq At("sender")
  /\ place' = Moved(M, "lost")
  /\ told' = Told(M, "failed")

\* The agent gets the message at once, or its session keeps it for a while.
Deliver(m) ==
  /\ m \in At("sender")
  /\ place' \in {Moved({m}, "agent"), Moved({m}, "session")}
  /\ told' = Told({m}, "delivered")

\* The message waits in the mailbox; a full one loses one that waits there.
Keep(m) ==
  /\ m \in At("sender")
  /\ \/ Cardinality(At("mailbox")) < Cap /\ place' = Moved({m}, "mailbox")
     \/ /\ Cardinality(At("mailbox")) = Cap
        /\ \E old \in At("mailbox") : place' = [Moved({m}, "mailbox") EXCEPT ![old] = "lost"]
  /\ told' = Told({m}, "failed")

\* The agent gets messages that its session or the mailbox kept.
Hear(M) ==
  /\ M \subseteq At("session") \cup At("mailbox")
  /\ place' = Moved(M, "agent")
  /\ UNCHANGED told

Next ==
  \/ \E m \in Messages : Deliver(m) \/ Keep(m)
  \/ \E M \in SUBSET Messages : Refuse(M) \/ Hear(M)

Spec == Init /\ [][Next]_vars
=============================================================================
