------------------------------ MODULE Custody ------------------------------
(***************************************************************************)
(* What the durable queue promises of an event once it has accepted it     *)
(* (daemon/src/agent_waked/store.py:34-48, README.md:164-187): the event   *)
(* is somewhere, in the queue, in the hands of a prune, or dead-lettered,  *)
(* and moves from one place to the next, until an ack or the operator's    *)
(* retention lets it go or the process that holds it dies.  Module         *)
(* WakeStore implements it.                                                *)
(***************************************************************************)
CONSTANT Events

VARIABLES
    at,       \* at[e]: the places that hold e
    gone,     \* acked, or let go by a warning or on request
    lost      \* lost with a process

Places == {"queue", "prune", "dead"}
vars == <<at, gone, lost>>

Init ==
    /\ at = [e \in Events |-> {}]
    /\ gone = {} /\ lost = {}

Enters(e, p) == p \in at'[e] /\ p \notin at[e]
Leaves(e, p) == p \in at[e] /\ p \notin at'[e]

\* A prune takes an event from the queue; a dead letter is of an event that is
\* queued or being pruned, or, when a second copy of its row was exhausted
\* after the first was acked, of one that has gone.
Arrives(e) ==
    /\ Enters(e, "prune") => Leaves(e, "queue")
    /\ Enters(e, "dead") => at[e] # {} \/ e \in gone \cup lost

\* An event leaves the queue into a prune, after a dead letter of it was
\* written, or for good; it leaves a prune as a dead letter, or with the
\* process; and the last place to hold it gives it up only for good.
Departs(e) ==
    /\ Leaves(e, "queue") => "prune" \in at'[e] \/ "dead" \in at[e] \/ e \in gone'
    /\ Leaves(e, "prune") => "dead" \in at'[e] \/ e \in lost'
    /\ at[e] # {} /\ at'[e] = {} => e \in gone' \cup lost'

\* Only an event that was held goes, only one in a prune is lost, and only one
\* that is queued again returns.
Ends(e) ==
    /\ e \in gone' \ gone => at[e] # {} \/ e \in lost
    /\ e \in lost' \ lost => "prune" \in at[e]
    /\ e \in (gone \ gone') \cup (lost \ lost') => Enters(e, "queue")

Next ==
    /\ at' \in [Events -> SUBSET Places]
    /\ gone' \subseteq Events /\ lost' \subseteq Events
    /\ \A e \in Events : Arrives(e) /\ Departs(e) /\ Ends(e)

Spec == Init /\ [][Next]_vars
=============================================================================
