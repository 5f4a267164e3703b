------------------------------- MODULE Dedupe -------------------------------
(***************************************************************************)
(* The replay window of agent-waked: the dedupe table of                   *)
(* daemon/src/agent_waked/store.py as ingest.py's Dedupe uses it.  Each    *)
(* signed event_id is checked and recorded in one statement; every         *)
(* PruneInterval checks, and whenever a process opens the store, retention *)
(* deletes the rows past their TTL and then the oldest above the cap.  The *)
(* daemon may die between any two transactions, and operator commands      *)
(* prune the same file while it runs.  The names that module Ingest has    *)
(* too are prefixed: the proofs treat the two together.                    *)
(***************************************************************************)
EXTENDS Integers, FiniteSets

CONSTANTS
    Ids,               \* event ids that senders use
    Ttl, MaxRows,      \* dedupe_ttl_seconds, dedupe_max_rows
    PruneInterval,     \* _PRUNE_INTERVAL
    MaxTime            \* exploration bound: the clock

ASSUME DedupeConstants ==
    /\ IsFiniteSet(Ids)
    /\ {Ttl, MaxRows, MaxTime} \subseteq Nat
    /\ PruneInterval \in Nat \ {0}

VARIABLES
    now,
    rows, at,          \* the dedupe table: ids recorded, and their seen_at
    since,             \* _inserts_since_prune of the daemon
    daemon,            \* down, ready, or due: about to prune
    capped             \* history: ids the row cap dropped since their last admission

dedupeVars == <<now, rows, at, since, daemon, capped>>

DedupeTypeOK ==
    /\ now \in Nat
    /\ rows \subseteq Ids
    /\ at \in [Ids -> Int]
    /\ since \in 0..PruneInterval
    /\ daemon \in {"down", "ready", "due"}
    /\ capped \subseteq Ids

\* An id never admitted counts as admitted before its window could reach now.
DedupeInit ==
    /\ now = 0
    /\ rows = {} /\ at = [i \in Ids |-> -1 - Ttl]
    /\ since = 0 /\ daemon = "down"
    /\ capped = {}

-----------------------------------------------------------------------------
\* check_and_record_event, its INSERT OR IGNORE: a recorded id is a duplicate
\* and changes nothing but the count; any other is admitted.
RecordRow(i) ==
    IF i \in rows
      THEN UNCHANGED <<rows, at, capped>>
      ELSE /\ rows' = rows \cup {i}
           /\ at' = [at EXCEPT ![i] = now]
           /\ capped' = capped \ {i}

Check(i) ==
    /\ daemon = "ready"
    /\ RecordRow(i)
    /\ since' = since + 1
    /\ daemon' = IF since + 1 >= PruneInterval THEN "due" ELSE "ready"
    /\ UNCHANGED now

\* Mutant: rows expire one tick early.
LiveOffByOne == {i \in rows : at[i] > now - Ttl}
\* Rows the TTL leaves.
Live == {i \in rows : ~(at[i] < now - Ttl)}

\* Mutant: the sort is descending.
NewestFirst(V) == \A v \in V, s \in Live \ V : at[v] >= at[s]
OldestFirst(V) == \A v \in V, s \in Live \ V : at[v] <= at[s]

\* prune, as far as this table goes: V are the rows above the cap.
PruneRows ==
    \E V \in SUBSET Live :
        /\ Cardinality(Live \ V) =
             IF Cardinality(Live) > MaxRows THEN MaxRows ELSE Cardinality(Live)
        /\ OldestFirst(V)
        /\ rows' = Live \ V
        /\ capped' = capped \cup V

\* Mutant: the count is not reset.
PruneKeepingCount ==
    /\ daemon = "due" /\ PruneRows
    /\ daemon' = "ready"
    /\ UNCHANGED <<now, at, since>>
\* check_and_record_event prunes when enough checks have passed.
PruneWhenDue ==
    /\ daemon = "due"
    /\ PruneRows
    /\ since' = 0
    /\ daemon' = "ready"
    /\ UNCHANGED <<now, at>>

\* Mutant: a starting daemon opens the table as it is.
OpenWithoutPrune == daemon = "down" /\ UNCHANGED <<rows, capped>>
Open == daemon = "down" /\ PruneRows

\* The daemon starts: WakeStore.__init__ prunes.
Start ==
    /\ Open
    /\ since' = 0
    /\ daemon' = "ready"
    /\ UNCHANGED <<now, at>>

\* An operator command opens the store and prunes it.
OtherProcessPrunes ==
    /\ PruneRows
    /\ UNCHANGED <<now, at, since, daemon>>

\* The daemon stops or dies, even between a check and the prune it is due.
Stop ==
    /\ daemon # "down"
    /\ daemon' = "down"
    /\ UNCHANGED <<now, rows, at, since, capped>>

Tick ==
    /\ now < MaxTime
    /\ now' = now + 1
    /\ UNCHANGED <<rows, at, since, daemon, capped>>

DedupeNext ==
    \/ \E i \in Ids : Check(i)
    \/ PruneWhenDue \/ Start \/ OtherProcessPrunes \/ Stop \/ Tick

DedupeSpec == DedupeInit /\ [][DedupeNext]_dedupeVars

-----------------------------------------------------------------------------
\* "A replay is rejected across restarts" (README.md:175-176): an id admitted
\* no longer than Ttl ago is still recorded, unless the row cap took it; so
\* check_and_record_event answers that it is a duplicate.
ReplayRejected == \A i \in Ids \ capped : now - at[i] <= Ttl => i \in rows

\* The table is bounded however the daemon is restarted and whatever other
\* processes do: the cap, and what one prune interval can add.
DedupeBounded == Cardinality(rows) <= MaxRows + PruneInterval

\* Retention never forgets an id while it keeps an older one.
ForgetsOldestFirst ==
    [][\A i \in rows \ rows', j \in rows \cap rows' : at[i] <= at[j]]_dedupeVars
=============================================================================
