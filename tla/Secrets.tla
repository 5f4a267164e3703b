------------------------------- MODULE Secrets -------------------------------
(***************************************************************************)
(* The secrets of the sources: the commands agent-wake secrets add, rotate *)
(* and remove (daemon/src/agent_waked/cli/secrets.py), which write the env *)
(* file or Vault, then config.json, then signal the daemon, and may stop   *)
(* at any point or overlap; and what the daemon (main.py) takes from these *)
(* files: its environment when it starts, config.json when it starts and   *)
(* on SIGHUP.                                                              *)
(***************************************************************************)
EXTENDS Integers, Sequences, FiniteSets, SequencesExt, FiniteSetsExt

CONSTANTS
    Sources, Vault,     \* names of sources; those kept in Vault
    FirstSources,       \* configured at first
    Cmds,               \* commands the operator runs
    MaxStarts,          \* exploration bound: starts of the daemon
    None

ASSUME SecretsConstants ==
    /\ Vault \subseteq Sources /\ FirstSources \subseteq Sources /\ FirstSources # {}
    /\ IsFiniteSet(Sources) /\ IsFiniteSet(Cmds) /\ MaxStarts \in Nat
    /\ None \notin Nat

\* A secret is known by the order in which it was generated.
Keys == 0..(Cardinality(Sources) + Cardinality(Cmds))
\* An environment variable: <<s, 0>> is AGENT_WAKE_<s>_SECRET, and <<s, n>> the
\* n-th name that rotate tries.  The URI of a Vault source is <<s, 0>> too.
Vars == Sources \X (0..Cardinality(Cmds))

VARIABLES
    conf, file, vault,    \* config.json: URIs of each source; secrets.env; Vault
    pc, op, src, raw, new,  \* a command: where it is, its arguments, the configuration
                          \* it has read, the URI of the secret it makes
    nth, snap,            \* remove: which of the source's URIs it is at, the env file it has read
    minted,               \* secrets generated so far
    up, env, cfg, seen,   \* the daemon: whether it runs, its environment, configuration,
                          \* and the Vault secrets it has cached
    hup, starts,
    window,               \* history: the last two secrets saved for each source
    cut,                  \* history: sources whose variables a remove has taken from the
                          \* file, and whose entry in config.json it has not
    gone,                 \* history: variables that were in the env file, and are not
    overlap, torn, synced \* history: commands have overlapped; a remove was killed with the
                          \* env file truncated; nothing was written since the daemon started

disk == <<conf, file, vault>>
command == <<pc, op, src, raw, new, nth, snap, minted>>
daemon == <<up, env, cfg, seen, hup, starts>>
history == <<window, cut, gone, overlap, torn, synced>>
vars == <<disk, command, daemon, history>>

NoKeys == [v \in Vars |-> None]

TypeOK ==
    /\ \A c \in {conf, cfg} : DOMAIN c = Sources /\ \A s \in Sources : Len(c[s]) <= 2
    /\ file \in [Vars -> Keys \cup {None}] /\ env \in [Vars -> Keys \cup {None}]
    /\ {vault[s] : s \in Vault} \cup {seen[s] : s \in Vault} \subseteq Keys \cup {None}
    /\ pc \in [Cmds -> {"new", "store", "append", "truncate", "fill", "save", "print", "done"}]
    /\ nth \in [Cmds -> 0..2] /\ minted \in Keys
    /\ up \in BOOLEAN /\ hup \in BOOLEAN /\ starts \in 0..MaxStarts
    /\ cut \subseteq Sources /\ gone \subseteq Vars /\ {overlap, torn, synced} \subseteq BOOLEAN

Configured(c) == {s \in Sources : c[s] # <<>>}
EnvUris(c) == UNION {ToSet(c[s]) : s \in Sources \ Vault}

\* _require_resolvable_secrets: every environment secret is readable.
Readable(c, e) == \A u \in EnvUris(c) : e[u] # None

\* The secrets the daemon accepts for a source (gating.verify).
Accepts(s) == IF s \in Vault THEN {seen[s]} \ {None} ELSE {env[u] : u \in ToSet(cfg[s])}

\* The secrets of the sources that are configured at first.
FirstKey == CHOOSE k \in [FirstSources -> 0..(Cardinality(FirstSources) - 1)] : IsInjective(k)

\* A daemon that was started on these sources.
Init ==
    /\ conf = [s \in Sources |-> IF s \in FirstSources THEN <<<<s, 0>>>> ELSE <<>>]
    /\ file = [v \in Vars |-> IF v[1] \in FirstSources \ Vault /\ v[2] = 0
                              THEN FirstKey[v[1]] ELSE None]
    /\ vault = [s \in Vault |-> IF s \in FirstSources THEN FirstKey[s] ELSE None]
    /\ pc = [c \in Cmds |-> "new"] /\ op = [c \in Cmds |-> None]
    /\ src = [c \in Cmds |-> None] /\ raw = [c \in Cmds |-> None]
    /\ new = [c \in Cmds |-> None] /\ nth = [c \in Cmds |-> 0] /\ snap = [c \in Cmds |-> None]
    /\ minted = Cardinality(FirstSources)
    /\ up = TRUE /\ env = file /\ cfg = conf /\ seen = vault /\ hup = FALSE /\ starts = 0
    /\ window = [s \in Sources |-> IF s \in FirstSources THEN <<FirstKey[s]>> ELSE <<>>]
    /\ cut = {} /\ gone = {} /\ overlap = FALSE /\ torn = FALSE /\ synced = TRUE

-----------------------------------------------------------------------------
(* the commands *)

At(c, where) == pc' = [pc EXCEPT ![c] = where]

\* Between what it has read and what it saves.
Working == {c \in Cmds : pc[c] \in {"store", "append", "truncate", "fill", "save"}}

\* _load_raw_config, and the checks on the source.  Vault is left to itself by remove.
Load(c, o, s) ==
    /\ pc[c] = "new"
    /\ op' = [op EXCEPT ![c] = o] /\ src' = [src EXCEPT ![c] = s]
    /\ raw' = [raw EXCEPT ![c] = conf]
    /\ At(c, IF ~(o = "add" <=> conf[s] = <<>>) THEN "done"
             ELSE IF o = "remove" /\ s \in Vault THEN "save" ELSE "store")
    /\ overlap' = (overlap \/ Working \ {c} # {})
    /\ UNCHANGED <<disk, new, nth, snap, minted, daemon, window, cut, gone, torn, synced>>

\* rotate: a name that is not in the env file.
FreshName(s) == <<s, Min({n \in 1..Cardinality(Cmds) : file[<<s, n>>] = None})>>

\* _env_file_read: the name is settled; add asks that its name is not there.
Names(c) ==
    /\ pc[c] = "store" /\ op[c] # "remove" /\ src[c] \notin Vault
    /\ op[c] = "add" => file[<<src[c], 0>>] = None
    /\ new' = [new EXCEPT ![c] = IF op[c] = "add" THEN <<src[c], 0>> ELSE FreshName(src[c])]
    /\ At(c, "append")
    /\ UNCHANGED <<disk, op, src, raw, nth, snap, minted, daemon, history>>

\* An env variable that is there already, or Vault that cannot be written.
Refused(c) ==
    /\ pc[c] = "store" /\ op[c] # "remove"
    /\ src[c] \in Vault \/ (op[c] = "add" /\ file[<<src[c], 0>>] # None)
    /\ At(c, "done")
    /\ UNCHANGED <<disk, op, src, raw, new, nth, snap, minted, daemon, history>>

Held(f) == {v \in Vars : f[v] # None}
\* The env file is f from now on.
Writes(f) ==
    /\ file' = f /\ gone' = (gone \cup Held(file)) \ Held(f)
    /\ synced' = FALSE

\* Mutant: an error of the write is swallowed.
AppendsNothing(c) ==
    /\ pc[c] = "append" /\ minted' = minted + 1 /\ At(c, "save")
    /\ UNCHANGED <<disk, op, src, raw, new, nth, snap, daemon, history>>
\* _env_file_append: of two lines for one name the later one counts.
Appends(c) ==
    /\ pc[c] = "append" /\ Writes([file EXCEPT ![new[c]] = minted])
    /\ minted' = minted + 1 /\ At(c, "save")
    /\ UNCHANGED <<conf, vault, op, src, raw, new, nth, snap, daemon, window, cut, overlap, torn>>

\* _vault_write: rotate overwrites the secret under the URI that is there.
WritesVault(c) ==
    /\ pc[c] = "store" /\ op[c] # "remove" /\ src[c] \in Vault
    /\ new' = [new EXCEPT ![c] = IF op[c] = "add" THEN <<src[c], 0>> ELSE Head(raw[c][src[c]])]
    /\ vault' = [vault EXCEPT ![src[c]] = minted] /\ minted' = minted + 1
    /\ At(c, "save") /\ synced' = FALSE
    /\ UNCHANGED <<conf, file, op, src, raw, nth, snap, daemon, window, cut, gone, overlap, torn>>

\* _env_file_remove_line, once for every URI of the source: the file is read ...
RemoveReads(c) ==
    /\ pc[c] = "store" /\ op[c] = "remove"
    /\ nth' = [nth EXCEPT ![c] = @ + 1] /\ snap' = [snap EXCEPT ![c] = file]
    /\ At(c, "truncate")
    /\ UNCHANGED <<disk, op, src, raw, new, minted, daemon, history>>

\* ... opened for writing, which truncates it ...
Truncates(c) ==
    /\ pc[c] = "truncate" /\ Writes(NoKeys) /\ At(c, "fill")
    /\ UNCHANGED <<conf, vault, op, src, raw, new, nth, snap, minted, daemon, window, cut, overlap, torn>>

\* ... and what was read is written, without the variable, from the start of the
\* file, over whatever was appended meanwhile.
Fills(c) ==
    /\ pc[c] = "fill" /\ Writes([snap[c] EXCEPT ![raw[c][src[c]][nth[c]]] = None])
    /\ snap' = [snap EXCEPT ![c] = None] /\ cut' = cut \cup {src[c]}
    /\ IF nth[c] < Len(raw[c][src[c]])
         THEN At(c, "store") /\ UNCHANGED nth
         ELSE At(c, "save") /\ nth' = [nth EXCEPT ![c] = 0]
    /\ UNCHANGED <<conf, vault, op, src, raw, new, minted, daemon, window, overlap, torn>>

\* Mutant: every entry that was there is kept.
TrimNone(u, old) == <<u>> \o old
\* Mutant: the last of the list is kept, which may be the one before.
TrimNewest(u, old) == IF old = <<>> THEN <<u>> ELSE <<u, Last(old)>>
\* The new entry first, and at most one that was there: the newest.
Trim(u, old) == IF old = <<>> THEN <<u>> ELSE <<u, Head(old)>>

Saved(c) ==
    [raw[c] EXCEPT ![src[c]] =
        CASE op[c] = "add" -> <<new[c]>>
          [] op[c] = "rotate" -> Trim(new[c], @)
          [] op[c] = "remove" -> <<>>]

\* What a store holds under a URI.
Stored(s, u) == IF s \in Vault THEN vault[s] ELSE file[u]

\* _save_raw_config: load_config refuses a configuration with no sources, and
\* the command ends; otherwise the file is replaced as a whole.
Save(c) ==
    /\ pc[c] = "save"
    /\ IF Configured(Saved(c)) = {}
         THEN At(c, "done") /\ UNCHANGED <<conf, window, cut>>
         ELSE /\ conf' = Saved(c)
              /\ window' = [window EXCEPT ![src[c]] =
                    IF op[c] = "remove" THEN <<>>
                    ELSE SubSeq(<<Stored(src[c], new[c])>> \o @, 1, Min({2, Len(@) + 1}))]
              /\ cut' = IF op[c] = "remove" /\ ~overlap THEN cut \ {src[c]} ELSE cut
              /\ At(c, "print")
    /\ synced' = FALSE
    /\ UNCHANGED <<file, vault, op, src, raw, new, nth, snap, minted, daemon, gone, overlap, torn>>

\* The secret is printed, and after a rotate the daemon is signalled.
Finish(c) ==
    /\ pc[c] = "print" /\ At(c, "done")
    /\ hup' = (hup \/ (op[c] = "rotate" /\ up))
    /\ UNCHANGED <<disk, op, src, raw, new, nth, snap, minted, up, env, cfg, seen, starts, history>>

\* The command is killed.
Crash(c) ==
    /\ c \in Working \/ pc[c] = "print"
    /\ At(c, "done")
    /\ snap' = [snap EXCEPT ![c] = None] /\ nth' = [nth EXCEPT ![c] = 0]
    /\ torn' = (torn \/ pc[c] = "fill")
    /\ UNCHANGED <<disk, op, src, raw, new, minted, daemon, window, cut, gone, overlap, synced>>

-----------------------------------------------------------------------------
(* the daemon *)

\* SIGHUP: _reload_config, and refresh_all of what is cached.
Reload ==
    /\ up /\ hup /\ hup' = FALSE
    /\ IF Configured(conf) # {} /\ Readable(conf, env)
         THEN /\ cfg' = conf
              /\ seen' = [s \in Vault |-> IF seen[s] = None THEN None ELSE vault[s]]
         ELSE UNCHANGED <<cfg, seen>>
    /\ UNCHANGED <<disk, command, up, env, starts, history>>

\* A request for a Vault source when its secret is not cached, or has expired.
Fetch(s) ==
    /\ up /\ cfg[s] # <<>> /\ seen' = [seen EXCEPT ![s] = vault[s]]
    /\ UNCHANGED <<disk, command, up, env, cfg, hup, starts, history>>

\* The service manager starts the daemon again, with the env file as its
\* environment; the daemon exits if a secret cannot be read.
Restart ==
    /\ starts < MaxStarts /\ starts' = starts + 1
    /\ hup' = FALSE /\ seen' = [s \in Vault |-> None]
    /\ up' = Readable(conf, file)
    /\ env' = IF up' THEN file ELSE NoKeys
    /\ cfg' = IF up' THEN conf ELSE [s \in Sources |-> <<>>]
    /\ synced' = up'
    /\ UNCHANGED <<disk, command, window, cut, gone, overlap, torn>>

Next ==
    \/ \E c \in Cmds :
         \/ \E o \in {"add", "rotate", "remove"}, s \in Sources : Load(c, o, s)
         \/ Names(c) \/ Refused(c) \/ Appends(c) \/ WritesVault(c)
         \/ RemoveReads(c) \/ Truncates(c) \/ Fills(c)
         \/ Save(c) \/ Finish(c) \/ Crash(c)
    \/ Reload \/ Restart \/ \E s \in Vault : Fetch(s)

Spec == Init /\ [][Next]_vars

-----------------------------------------------------------------------------
(* properties *)

\* A variable that config.json names and the env file lacks, which keeps a daemon
\* from starting (main.py:173-177), was in the file before config.json named it, and
\* a remove has dropped it: of its own source, and then did not come to save, or,
\* of another, while it has the file truncated, was killed then, or overlapped.
OnlyRemoveCuts ==
    \A u \in EnvUris(conf) : file[u] = None =>
        /\ u \in gone
        /\ u[1] \in cut \/ overlap \/ torn \/ \E c \in Cmds : pc[c] = "fill"

\* A daemon started after the last command accepts, for every source in the
\* environment, the last two secrets saved for it, and no other
\* (docs/secret-management.md:91), whatever was killed on the way, unless a remove
\* of that source was, or any remove with the env file truncated.
StartVerifiesWindow ==
    synced /\ ~overlap /\ ~torn =>
        \A s \in Sources \ (Vault \cup cut) : Accepts(s) = ToSet(window[s])

\* docs/secret-management.md:121: rotate "sends SIGHUP to the running daemon (no
\* restart needed)": once the signal is handled, the newest secret verifies.
RotatedVerifies ==
    [][Reload => \A s \in Sources \ Vault :
                    conf[s] # <<>> => file[conf[s][1]] \in Accepts(s)']_vars
=============================================================================
