------------------------------- MODULE Ingest -------------------------------
(***************************************************************************)
(* The HTTP ingest of agent-waked: post_root of daemon/src/agent_waked/    *)
(* ingest.py with its rate buckets and in-memory replay window, the gates  *)
(* of gating.py, the secret cache of secrets/resolver.py, and the SIGHUP   *)
(* reload of main.py, which replaces the configuration under handlers that *)
(* are waiting for a secret or for a subscriber's socket, and under        *)
(* adapters that keep what they were granted.  An action runs from one     *)
(* await to the next.  router.deliver is here as far as it chooses whom to *)
(* send to; acknowledgements and the queue are in module Router, what      *)
(* becomes of a dispatched alert in module Delivery.                       *)
(***************************************************************************)
EXTENDS Addressing, Sequences, FiniteSets, SequencesExt

CONSTANTS
    Sources, Peers,    \* names of senders; remote addresses
    Principals,
    Uris, EnvUris,     \* secret URIs; those of the environment, read without an await
    EnvSet,            \* the environment secrets this process can read
    Configs,           \* what load_config may return
    FirstConfig,
    Reqs, Req,         \* requests, and Req[r]: what the sender sent
    Sessions, AdapterOf, Claims,   \* adapters that may connect, and what they claim
    Burst,             \* ingest_rate_burst
    MaxSize,           \* size of the in-memory replay window
    MaxRotations, MaxReloads, MaxRefills   \* exploration bounds

ASSUME IngestConstants ==
    /\ EnvUris \subseteq Uris /\ EnvSet \subseteq EnvUris
    /\ FirstConfig \in Configs
    /\ Sources \cap Peers = {}
    /\ Burst \in Nat \ {0} /\ MaxSize \in Nat \ {0}
    /\ {MaxRotations, MaxReloads, MaxRefills} \subseteq Nat
    /\ \A r \in Reqs : Req[r].src \in Sources /\ Req[r].peer \in Peers
    /\ \A c \in Configs : c.sources \subseteq Sources /\ \A s \in c.sources : c.uris[s] \in Seq(Uris)
    /\ None \notin Nat /\ None \notin Configs

Versions == 0..MaxRotations    \* the successive values of a secret
Failed == -1                   \* a fetch that raised

VARIABLES
    cfg,                   \* the configuration every component shares
    pc, scfg, need, keys,  \* per request: where its handler is, the configuration its
                           \* source_cfg, then its destinations, are from, URIs to
                           \* resolve, secrets resolved
    got,                   \* per request: what the thread read of the URI it waits for
    key, answer,           \* per request: the secret it is signed with; the response
    tokens,                \* SourceRateLimiter._buckets
    backend,               \* the value each secret has now
    cache, fresh,          \* SecretResolver._cache: values, and those not expired
    toRefresh, refreshing, \* refresh_all: URIs to go, and what its thread read
    order,                 \* Dedupe._order
    granted,               \* per adapter session: the destinations of its hello_ack
    admitted,              \* history: event ids that passed the replay window, in order
    dispatched,            \* history: request and principal
    left, writing,         \* router.deliver, per request: destinations to go, and the
                           \* destination and session whose frame is being written
    sent, broken,          \* frames written by the deliveries in progress: request,
                           \* destination, session; and those that failed
    rotations, reloads, refills

request == <<pc, scfg, need, keys, got, key, answer>>
secrets == <<backend, cache, fresh, toRefresh, refreshing, rotations>>
sends == <<left, writing, sent, broken>>
outcome == <<order, admitted, dispatched, sends>>
vars == <<cfg, request, tokens, secrets, granted, outcome, reloads, refills>>

Answers == {"none", "429", "403", "500", "400", "422", "duplicate", "denied", "refused",
            "no_subscriber", "queued"}
Values == Versions \cup {None}
Names == UNION {DestinationNames(c) : c \in Configs}

TypeOK ==
    /\ cfg \in Configs
    /\ pc \in [Reqs -> {"new", "fetching", "fetched", "sending", "done"}]
    /\ scfg \in [Reqs -> Configs \cup {None}]
    /\ need \in [Reqs -> Seq(Uris)]
    /\ keys \in [Reqs -> SUBSET Versions]
    /\ got \in [Reqs -> Values \cup {Failed}] /\ key \in [Reqs -> Values]
    /\ answer \in [Reqs -> Answers]
    /\ tokens \in [Sources \cup Peers -> 0..Burst]
    /\ backend \in [Uris -> Versions] /\ cache \in [Uris -> Values] /\ fresh \subseteq Uris
    /\ toRefresh \subseteq Uris /\ refreshing \in Values \cup {Failed}
    /\ Len(order) <= MaxSize
    /\ DOMAIN granted = Sessions /\ \A s \in Sessions : granted[s] \subseteq Claims[s]
    /\ left \in [Reqs -> SUBSET Names]
    /\ writing \in [Reqs -> (Names \X Sessions) \cup {None}]
    /\ rotations \in Versions /\ {reloads, refills} \subseteq Nat

Init ==
    /\ cfg = FirstConfig
    /\ pc = [r \in Reqs |-> "new"] /\ scfg = [r \in Reqs |-> None]
    /\ need = [r \in Reqs |-> <<>>] /\ keys = [r \in Reqs |-> {}]
    /\ got = [r \in Reqs |-> None] /\ key = [r \in Reqs |-> None]
    /\ answer = [r \in Reqs |-> "none"]
    /\ tokens = [b \in Sources \cup Peers |-> Burst]
    /\ backend = [u \in Uris |-> 0] /\ cache = [u \in Uris |-> None] /\ fresh = {}
    /\ toRefresh = {} /\ refreshing = None
    /\ order = <<>> /\ admitted = <<>>
    /\ granted = [s \in Sessions |-> {}]
    /\ dispatched = {} /\ sent = {} /\ broken = {}
    /\ left = [r \in Reqs |-> {}] /\ writing = [r \in Reqs |-> None]
    /\ rotations = 0 /\ reloads = 0 /\ refills = 0

-----------------------------------------------------------------------------
(* after the gates: dedupe, out-of-band dispatch, in-band delivery *)

Answered(r, a) ==
    /\ answer' = [answer EXCEPT ![r] = a]
    /\ pc' = [pc EXCEPT ![r] = "done"]
    /\ scfg' = [scfg EXCEPT ![r] = None]

\* Mutant: the oldest goes as soon as the window is full.
RecordShort(id) ==
    order' = IF Len(order) + 1 >= MaxSize THEN Tail(Append(order, id)) ELSE Append(order, id)
\* Dedupe.check on an id it has not seen: the oldest makes room.
Record(id) == order' = Append(IF Len(order) = MaxSize THEN Tail(order) ELSE order, id)

\* _subscriber_for: granted at its hello, and accepted by the destination as
\* the configuration c has it; G are the grants.
Subscribers(c, n, G) ==
    {s \in Sessions : n \in G[s] /\ AcceptsAdapter(Destination(c, n), AdapterOf[s])}

\* Mutant: authorization is read from the configuration the handler started with.
AuthorityAtStart(c) == c
\* ... and from the one in effect now.
Authority(c) == cfg

\* The loop of router.deliver, up to the next await: destinations D of the
\* configuration c come up in the order of the file; one without a subscriber
\* is passed over, the first with one gets the frame; at the end the request is
\* answered.  B are the frames that failed.
Serve(r, c, D, B) ==
    \/ \E n \in D, s \in Sessions : \E passed \in SUBSET (D \ {n}) :
         /\ s \in Subscribers(c, n, granted')
         /\ \A m \in passed : Subscribers(c, m, granted') = {}
         /\ left' = [left EXCEPT ![r] = D \ (passed \cup {n})]
         /\ writing' = [writing EXCEPT ![r] = <<n, s>>]
         /\ sent' = sent \cup {<<r, n, s>>}
         /\ pc' = [pc EXCEPT ![r] = "sending"]
         /\ scfg' = [scfg EXCEPT ![r] = c]
         /\ broken' = B
         /\ UNCHANGED answer
    \/ /\ \A m \in D : Subscribers(c, m, granted') = {}
       /\ left' = [left EXCEPT ![r] = {}] /\ writing' = [writing EXCEPT ![r] = None]
       /\ Answered(r, IF \E t \in sent \ B : t[1] = r THEN "queued" ELSE "no_subscriber")
       /\ sent' = {t \in sent : t[1] # r} /\ broken' = {t \in B : t[1] # r}

\* router.deliver up to its first await: the destinations are resolved once.
Deliver(r, c, D) ==
    LET q == Req[r]
        res == Resolve(c, q.src, q.dest, q.principal)
    IN /\ dispatched' = dispatched \cup D
       /\ IF res.ok THEN Serve(r, c, res.dests, broken)
          ELSE Answered(r, "refused") /\ UNCHANGED sends

\* The event has passed every gate.
Admit(r, held) ==
    LET q == Req[r]
        c == Authority(held)
    IN
    IF Contains(order, q.id)
      THEN Answered(r, "duplicate") /\ UNCHANGED outcome
      ELSE /\ Record(q.id)
           /\ admitted' = Append(admitted, q.id)
           /\ IF q.target = None THEN Deliver(r, c, {})
              ELSE IF q.target \notin c.channels
                THEN Answered(r, "422") /\ UNCHANGED <<dispatched, sends>>
              ELSE IF q.target \notin OutOfBandPrincipals(c, q.src)
                THEN Answered(r, "denied") /\ UNCHANGED <<dispatched, sends>>
              ELSE Deliver(r, c, {<<r, q.target>>})

\* check_trigger_identity, on the source_cfg the handler holds.
IdentityAllowed(r, held) ==
    LET allowed == held.idents[Req[r].src]
    IN allowed = {} \/ Req[r].ident \in allowed

\* _build_wake_event: a source that is not the header's, a version or a body
\* the daemon does not know.
BuildErrors == {"403", "400"}

\* SourceRateLimiter.allow.
Charge(b) == [tokens EXCEPT ![b] = IF @ > 0 THEN @ - 1 ELSE 0]

\* verify_signature_any and what follows, charged to the buckets T.
Gates(r, held, K, T) ==
    LET s == Req[r].src IN
    IF key'[r] \notin K
      THEN Answered(r, "403") /\ tokens' = T /\ UNCHANGED outcome
      ELSE /\ tokens' = [T EXCEPT ![s] = IF @ > 0 THEN @ - 1 ELSE 0]
           /\ IF T[s] = 0 THEN Answered(r, "429") /\ UNCHANGED outcome
              ELSE IF ~IdentityAllowed(r, held) THEN Answered(r, "403") /\ UNCHANGED outcome
              ELSE \/ \E e \in BuildErrors : Answered(r, e) /\ UNCHANGED outcome
                   \/ Admit(r, held)

-----------------------------------------------------------------------------
(* secrets: resolve_all, one URI after the other *)

\* Cached and not expired, what this step itself has cached included.
Usable(u) == cache'[u] # None /\ u \in fresh'

\* The part of a list of URIs that needs no await: cached and not expired, or
\* in the environment.
Ready(u) == u \in EnvSet \/ Usable(u)
ReadyLen(U) ==
    LET waits == {i \in DOMAIN U : ~Ready(U[i])}
    IN IF waits = {} THEN Len(U) ELSE (CHOOSE i \in waits : \A j \in waits : i <= j) - 1
ValueOf(u) == IF u \in EnvUris THEN backend[u] ELSE cache'[u]

\* The handler goes on with the URIs U to resolve and the secrets K it has: it
\* waits for the first that has to be fetched, fails on one that is not set,
\* or has them all.
GoOn(r, held, U, K, T) ==
    LET n == ReadyLen(U)
        K2 == K \cup {ValueOf(U[i]) : i \in 1..n}
    IN /\ got' = [got EXCEPT ![r] = None]
       /\ IF n = Len(U)
            THEN /\ need' = [need EXCEPT ![r] = <<>>] /\ keys' = [keys EXCEPT ![r] = {}]
                 /\ Gates(r, held, K2, T)
          ELSE IF U[n + 1] \in EnvUris
            THEN /\ Answered(r, "500") /\ tokens' = T
                 /\ need' = [need EXCEPT ![r] = <<>>] /\ keys' = [keys EXCEPT ![r] = {}]
                 /\ UNCHANGED outcome
          ELSE /\ need' = [need EXCEPT ![r] = SubSeq(U, n + 1, Len(U))]
               /\ keys' = [keys EXCEPT ![r] = K2]
               /\ pc' = [pc EXCEPT ![r] = "fetching"] /\ tokens' = T
               /\ scfg' = [scfg EXCEPT ![r] = held]
               /\ UNCHANGED <<answer, outcome>>

-----------------------------------------------------------------------------
(* post_root *)

\* Mutant: the source's bucket is charged before the signature is checked.
ChargeFirst(q) == [Charge(q.peer) EXCEPT ![q.src] = IF @ > 0 THEN @ - 1 ELSE 0]
ChargePeer(q) == Charge(q.peer)

\* The body is read: the peer's bucket, the source, and its secrets.  A sender
\* signs with a value the secret has or had, or not at all.
Begin(r) ==
    LET q == Req[r] IN
    /\ pc[r] = "new"
    /\ UNCHANGED <<cfg, secrets, granted, reloads, refills>>
    /\ IF tokens[q.peer] = 0 \/ q.src \notin cfg.sources
         THEN /\ Answered(r, IF tokens[q.peer] = 0 THEN "429" ELSE "403")
              /\ tokens' = ChargePeer(q)
              /\ UNCHANGED <<need, keys, got, key, outcome>>
         ELSE /\ \E k \in 0..rotations \cup {None} : key' = [key EXCEPT ![r] = k]
              /\ GoOn(r, cfg, cfg.uris[q.src], {}, ChargePeer(q))

\* _sync_fetch in its thread: the backend's answer, or an error.
FetchReads(r) ==
    /\ pc[r] = "fetching"
    /\ got' \in {[got EXCEPT ![r] = v] : v \in {backend[need[r][1]], Failed}}
    /\ pc' = [pc EXCEPT ![r] = "fetched"]
    /\ UNCHANGED <<cfg, scfg, need, keys, key, answer, tokens, secrets, granted, outcome,
                   reloads, refills>>

\* drain() returns: the frame counts as delivered, the loop goes on.
SendReturns(r) ==
    /\ pc[r] = "sending"
    /\ UNCHANGED granted
    /\ Serve(r, scfg[r], left[r], broken)
    /\ UNCHANGED <<cfg, need, keys, got, key, tokens, secrets, order, admitted, dispatched,
                   reloads, refills>>

\* drain() raises OSError: the subscriber is evicted, the destination counts as
\* undeliverable, the loop goes on.
SendFails(r) ==
    /\ pc[r] = "sending"
    /\ granted' = [granted EXCEPT ![writing[r][2]] = {}]
    /\ Serve(r, scfg[r], left[r], broken \cup {<<r, writing[r][1], writing[r][2]>>})
    /\ UNCHANGED <<cfg, need, keys, got, key, tokens, secrets, order, admitted, dispatched,
                   reloads, refills>>

Store(u, v) ==
    /\ cache' = [cache EXCEPT ![u] = v]
    /\ fresh' = fresh \cup {u}

\* _fetch_and_cache has its answer: it is cached, whatever was cached meanwhile.
FetchReturns(r) ==
    /\ pc[r] = "fetched"
    /\ UNCHANGED <<key, granted>>
    /\ IF got[r] = Failed
         THEN /\ Answered(r, "500")
              /\ need' = [need EXCEPT ![r] = <<>>] /\ keys' = [keys EXCEPT ![r] = {}]
              /\ got' = [got EXCEPT ![r] = None]
              /\ UNCHANGED <<tokens, cache, fresh, outcome>>
         ELSE /\ Store(need[r][1], got[r])
              /\ GoOn(r, scfg[r], Tail(need[r]), keys[r] \cup {got[r]}, tokens)
    /\ UNCHANGED <<cfg, backend, toRefresh, refreshing, rotations, reloads, refills>>

-----------------------------------------------------------------------------
(* the clock, the operator, adapters *)

\* Time passes: every bucket gains a token ...
Refill ==
    /\ refills < MaxRefills /\ refills' = refills + 1
    /\ tokens' = [b \in Sources \cup Peers |-> IF tokens[b] < Burst THEN tokens[b] + 1 ELSE Burst]
    /\ UNCHANGED <<cfg, request, secrets, granted, outcome, reloads>>

\* ... and a cached secret expires, unless it is from the environment.
Expire(u) ==
    /\ u \in fresh \ EnvUris
    /\ fresh' = fresh \ {u}
    /\ UNCHANGED <<cfg, request, tokens, backend, cache, toRefresh, refreshing, rotations,
                   granted, outcome, reloads, refills>>

Rotate(u) ==
    /\ u \notin EnvUris /\ rotations < MaxRotations
    /\ rotations' = rotations + 1
    /\ backend' = [backend EXCEPT ![u] = rotations + 1]
    /\ UNCHANGED <<cfg, request, tokens, cache, fresh, toRefresh, refreshing, granted, outcome,
                   reloads, refills>>

Secrets(c) == UNION {ToSet(c.uris[s]) : s \in c.sources}
\* _reload_config: no sources or an unreadable secret, and the file is refused.
UsableConfig(c) == c.sources # {} /\ Secrets(c) \cap EnvUris \subseteq EnvSet

\* The configuration is replaced in place and every cached secret fetched again.
Reload(c) ==
    /\ reloads < MaxReloads /\ reloads' = reloads + 1
    /\ UsableConfig(c)
    /\ cfg' = c
    /\ toRefresh = {} /\ toRefresh' = {u \in Uris : cache[u] # None}
    /\ UNCHANGED <<request, tokens, backend, cache, fresh, refreshing, rotations, granted,
                   outcome, refills>>

\* refresh_all: one URI after the other, a failed fetch leaving the old value.
RefreshReads(u) ==
    /\ u \in toRefresh /\ refreshing = None
    /\ refreshing' \in {backend[u], Failed}
    /\ UNCHANGED <<cfg, request, tokens, backend, cache, fresh, toRefresh, rotations, granted,
                   outcome, reloads, refills>>

RefreshReturns(u) ==
    /\ u \in toRefresh /\ refreshing # None
    /\ IF refreshing = Failed THEN UNCHANGED <<cache, fresh>> ELSE Store(u, refreshing)
    /\ toRefresh' = toRefresh \ {u} /\ refreshing' = None
    /\ UNCHANGED <<cfg, request, tokens, backend, rotations, granted, outcome, reloads, refills>>

\* A connection; its id is used again only when no frame of its last is pending.
Hello(s) ==
    /\ granted[s] = {}
    /\ \A r \in Reqs : writing[r] # None => writing[r][2] # s
    /\ granted' = [granted EXCEPT ![s] = DestinationsForHello(cfg, AdapterOf[s], Claims[s])]
    /\ granted'[s] # {}
    /\ UNCHANGED <<cfg, request, tokens, secrets, outcome, reloads, refills>>

Bye(s) ==
    /\ granted[s] # {}
    /\ granted' = [granted EXCEPT ![s] = {}]
    /\ UNCHANGED <<cfg, request, tokens, secrets, outcome, reloads, refills>>

Next ==
    \/ \E r \in Reqs : Begin(r) \/ FetchReads(r) \/ FetchReturns(r) \/ SendReturns(r) \/ SendFails(r)
    \/ Refill
    \/ \E u \in Uris : Expire(u) \/ Rotate(u) \/ RefreshReads(u) \/ RefreshReturns(u)
    \/ \E c \in Configs : Reload(c)
    \/ \E s \in Sessions : Hello(s) \/ Bye(s)

Spec == Init /\ [][Next]_vars

-----------------------------------------------------------------------------
(* properties *)

\* A duplicate event_id "does NOT produce a second wake frame" (design/
\* v1-daemon-spec.md:586), however the handlers of two requests with the same
\* id interleave: an id is admitted again only after MaxSize others.
AdmittedOnce ==
    \A i, j \in DOMAIN admitted :
        i < j /\ admitted[i] = admitted[j] =>
            Cardinality({admitted[k] : k \in (i + 1)..(j - 1)}) >= MaxSize

\* addressing.py:377-381: what the routes allow, by name or by principal, is
\* the outer bound, and the event can only narrow it.
MayReach(c, q, n) ==
    /\ \E r \in c.routes :
         /\ r.sender \in {q.src, AnySender}
         /\ \/ n \in r.dests
            \/ r.dests = {} /\ Destination(c, n).principal = r.principal /\ r.principal # None
    /\ q.dest \in {None, n} /\ q.principal \in {None, Destination(c, n).principal}

\* Authorization is what the configuration says at the moment an event is
\* handed on, not when its handler started or its adapter connected
\* (main.py:205-218, ingest.py:477-487): out of band to a principal the sender
\* may target, in band over a route to a destination the session was granted
\* and whose configured adapter it is.  The moment is that of router.py:588: a
\* fan-out that waits for a socket goes on with the destinations it resolved,
\* a reload meanwhile notwithstanding, but only to sessions still connected.
ActsOnLiveConfig ==
    [][/\ \A d \in dispatched' \ dispatched :
            d[2] \in cfg.channels \cap OutOfBandPrincipals(cfg, Req[d[1]].src)
       /\ \A r \in Reqs : pc'[r] = "sending" =>
            scfg'[r] = IF pc[r] = "sending" THEN scfg[r] ELSE cfg
       /\ \A t \in sent' \ sent :
            LET c == scfg'[t[1]] IN
            /\ t[2] \in DestinationNames(c) /\ MayReach(c, Req[t[1]], t[2])
            /\ t[2] \in granted'[t[3]]
            /\ AcceptsAdapter(Destination(c, t[2]), AdapterOf[t[3]])]_vars

\* An event from a sender with a route to somewhere a subscriber serves is
\* neither refused nor reported as without subscriber, whichever way the route
\* names it (addressing.py:313-341); one that has waited for a socket is
\* reported so only if it was written to someone and every write of it failed
\* (router.py:640-664).
ReachesSubscriber ==
    [][\A r \in Reqs :
         answer[r] = "none" /\ answer'[r] \in {"no_subscriber", "refused"} =>
            IF pc[r] = "sending"
              THEN /\ \E t \in sent : t[1] = r
                   /\ \A t \in sent : t[1] = r =>
                        \/ t \in broken
                        \/ <<t[2], t[3]>> = writing[r] /\ granted'[t[3]] = {}
              ELSE \A n \in DestinationNames(cfg) :
                     MayReach(cfg, Req[r], n) => Subscribers(cfg, n, granted) = {}]_vars

\* WI-008 (ingest.py:353-358): a request that does not verify takes no token
\* from the bucket of the source it claims.
SourceBucketClean ==
    [][\A s \in Sources : tokens'[s] < tokens[s] =>
         \E r \in Reqs :
            /\ Req[r].src = s
            /\ pc[r] \notin {"sending", "done"} /\ pc'[r] \in {"sending", "done"}
            /\ key'[r] \in keys[r] \cup {cache'[u] : u \in Uris} \cup {backend[u] : u \in EnvUris}
            /\ key'[r] # None]_vars

\* A file in the old vocabulary gives a sender the destination of its own name
\* and no other (addressing.py:142-156, 357-359: migrations "may not mint"
\* authority).
MigrationMintsNothing(L) ==
    LET c == DeriveFromLegacy(L) IN
    \A s \in L.sources :
        /\ RoutedDestinations(c, s) = {s}
        /\ OutOfBandPrincipals(c, s) = L.targets[s]
        /\ \A n \in L.sources \ {s} : ~Resolve(c, s, n, None).ok
=============================================================================
