---------------------------- MODULE OpenCode_proofs ----------------------------
(***************************************************************************)
(* Proofs about the OpenCode adapter's connection, labels, wakes and       *)
(* replies, for any number of sessions, labels, wakes, replies and         *)
(* connections.                                                            *)
(***************************************************************************)
EXTENDS OpenCode, TLAPS

\* A handler is of this connection or an earlier one.  The wake of one of this
\* connection is sent and not settled, or queued again since the socket went;
\* before the daemon has answered there is none.
HandlerFits(h) ==
    /\ h.conn <= conn
    /\ h.conn = conn => /\ link # "connecting"
                        /\ link = "up" => row[h.ev] = "sent"
                        /\ link = "down" => row[h.ev] = "queued"

HandlersFit == \A h \in handlers : HandlerFits(h)

\* One connection gives a wake to one handler.
OneHandler ==
    \A h, g \in handlers : h.conn = conn /\ g.conn = conn /\ h.ev = g.ev => h = g

\* A tool call that waits is registered, and so has its timer.
WaitingHasTimer == \A r \in Replies : call[r] = "waiting" => Timer(r)

\* A socket has a number.
Connected == link # "down" => conn > 0

Kept == TypeOK /\ LabelsAgree /\ HandlersFit /\ OneHandler /\ WaitingHasTimer

IndInv == Kept /\ Connected

-----------------------------------------------------------------------------
(* the connection *)

\* When the socket goes, what was sent on it is queued again.
LEMMA GoneTypes ==
    ASSUME TypeOK, Gone
    PROVE  /\ link' = "down" /\ early' \in BOOLEAN
           /\ row' \in [Wakes -> {"queued", "sent", "settled"}]
           /\ post' \in [Replies -> {"none", "written", "delivered", "failed", "lost"}]
           /\ \A w \in Wakes : row[w] \in {"queued", "sent"} => row'[w] = "queued"
  <1>1. row' = [w \in Wakes |-> IF row[w] = "sent" THEN "queued" ELSE row[w]]
    BY DEF Gone
  <1>2. post' = [r \in Replies |-> IF post[r] = "written" THEN "lost" ELSE post[r]]
    BY DEF Gone
  <1>3. link' = "down" /\ early' \in BOOLEAN
    BY DEF Gone
  <1>4. row' \in [Wakes -> {"queued", "sent", "settled"}]
    BY <1>1 DEF TypeOK
  <1>5. post' \in [Replies -> {"none", "written", "delivered", "failed", "lost"}]
    BY <1>2 DEF TypeOK
  <1>6. \A w \in Wakes : row[w] \in {"queued", "sent"} => row'[w] = "queued"
    BY <1>1
  <1> QED BY <1>3, <1>4, <1>5, <1>6

\* A handler of the connection that went has its wake back in the queue.
LEMMA GoneHandlers ==
    ASSUME TypeOK, HandlersFit, OneHandler, Gone, UNCHANGED <<conn, handlers>>
    PROVE  HandlersFit' /\ OneHandler'
  <1>1. HandlersFit'
    <2> SUFFICES ASSUME NEW h \in handlers PROVE HandlerFits(h)'
      BY DEF HandlersFit
    <2>1. h.ev \in Wakes
      BY DEF TypeOK, Handler
    <2>2. HandlerFits(h)
      BY DEF HandlersFit
    <2>3. h.conn = conn => row[h.ev] \in {"queued", "sent"}
      BY <2>2 DEF HandlerFits, TypeOK
    <2>4. h.conn = conn => row'[h.ev] = "queued"
      BY <2>1, <2>3, GoneTypes
    <2>5. link' = "down"
      BY DEF Gone
    <2> QED BY <2>2, <2>4, <2>5 DEF HandlerFits
  <1>2. OneHandler'
    BY DEF OneHandler
  <1> QED BY <1>1, <1>2

\* A new socket is nobody's yet.
LEMMA DialKeeps == ASSUME IndInv, Dial PROVE Kept'
  <1>1. TypeOK /\ LabelsAgree /\ HandlersFit /\ OneHandler /\ WaitingHasTimer
    BY DEF IndInv, Kept
  <1>2. /\ link' = "connecting" /\ conn' = conn + 1 /\ conn \in Nat /\ conn' \in 0..MaxConns
        /\ UNCHANGED <<early, registry, wakes, replies>>
    BY <1>1, OpenCodeConstants DEF Dial, TypeOK
  <1>3. TypeOK'
    BY <1>1, <1>2 DEF TypeOK, registry, wakes, replies
  <1>4. \A h \in handlers : h.conn \in Nat /\ h.conn <= conn
    BY <1>1, OpenCodeConstants DEF TypeOK, Handler, HandlersFit, HandlerFits
  <1>5. \A h \in handlers : h.conn <= conn' /\ h.conn # conn'
    BY <1>2, <1>4
  <1>6. HandlersFit' /\ OneHandler'
    BY <1>2, <1>5 DEF HandlersFit, HandlerFits, OneHandler, wakes
  <1>7. LabelsAgree' /\ WaitingHasTimer'
    BY <1>1, <1>2 DEF LabelsAgree, WaitingHasTimer, Timer, registry, replies
  <1> QED BY <1>3, <1>6, <1>7 DEF Kept

\* The socket goes.
LEMMA DropKeeps == ASSUME IndInv, Drop PROVE Kept'
  <1>1. TypeOK /\ LabelsAgree /\ HandlersFit /\ OneHandler /\ WaitingHasTimer
    BY DEF IndInv, Kept
  <1>2. Gone /\ UNCHANGED <<conn, registry, handlers, pending, call, via>>
    BY DEF Drop
  <1>3. HandlersFit' /\ OneHandler'
    BY <1>1, <1>2, GoneHandlers
  <1>4. TypeOK'
    BY <1>1, <1>2, GoneTypes DEF TypeOK, registry
  <1>5. LabelsAgree' /\ WaitingHasTimer'
    BY <1>1, <1>2 DEF LabelsAgree, WaitingHasTimer, Timer, registry
  <1> QED BY <1>3, <1>4, <1>5 DEF Kept

\* The daemon answers hello, or closes since a reply went ahead of it.
LEMMA GreetsKeeps == ASSUME IndInv, Greets PROVE Kept'
  <1>1. TypeOK /\ LabelsAgree /\ HandlersFit /\ OneHandler /\ WaitingHasTimer
    BY DEF IndInv, Kept
  <1>2. link = "connecting" /\ UNCHANGED <<conn, registry, handlers, pending, call, via>>
    BY DEF Greets
  <1>3. LabelsAgree' /\ WaitingHasTimer'
    BY <1>1, <1>2 DEF LabelsAgree, WaitingHasTimer, Timer, registry
  <1>4. CASE Gone
    <2>1. HandlersFit' /\ OneHandler'
      BY <1>1, <1>2, <1>4, GoneHandlers
    <2>2. TypeOK'
      BY <1>1, <1>2, <1>4, GoneTypes DEF TypeOK, registry
    <2> QED BY <1>3, <2>1, <2>2 DEF Kept
  <1>5. CASE link' = "up" /\ UNCHANGED <<early, row, post>>
    <2>1. TypeOK'
      BY <1>1, <1>2, <1>5 DEF TypeOK, registry
    <2>2. HandlersFit' /\ OneHandler'
      BY <1>1, <1>2, <1>5 DEF HandlersFit, HandlerFits, OneHandler
    <2> QED BY <1>3, <2>1, <2>2 DEF Kept
  <1> QED BY <1>4, <1>5 DEF Greets

\* opencode dies.
LEMMA CrashKeeps == ASSUME IndInv, Crash PROVE Kept'
  <1>1. TypeOK
    BY DEF IndInv, Kept
  <1>2. /\ Gone /\ handlers' = {} /\ pending' = {}
        /\ s2l' = [s \in Sessions |-> {}] /\ l2s' = [l \in Labels |-> {}]
        /\ ended' = {} /\ late' = {}
        /\ call' = [r \in Replies |-> IF call[r] = "waiting" THEN "failed" ELSE call[r]]
        /\ via' = [r \in Replies |-> 0]
        /\ UNCHANGED <<conn, live, claims>>
    BY DEF Crash
  <1>3. call' \in [Replies -> {"new", "waiting", "sent", "failed"}]
    BY <1>1, <1>2 DEF TypeOK
  <1>4. via' \in [Replies -> 0..MaxConns]
    BY <1>2, OpenCodeConstants
  <1>5. s2l' \in [Sessions -> SUBSET Labels] /\ l2s' \in [Labels -> SUBSET Sessions]
    BY <1>2
  <1>6. TypeOK'
    BY <1>1, <1>2, <1>3, <1>4, <1>5, GoneTypes DEF TypeOK
  <1>7. LabelsAgree'
    BY <1>2 DEF LabelsAgree
  <1>8. WaitingHasTimer'
    BY <1>2 DEF WaitingHasTimer
  <1>9. HandlersFit' /\ OneHandler'
    BY <1>2 DEF HandlersFit, OneHandler
  <1> QED BY <1>6, <1>7, <1>8, <1>9 DEF Kept

-----------------------------------------------------------------------------
(* labels *)

\* subscribe, unsubscribe and clearSession write both maps alike.
LEMMA LabelsKeep ==
    ASSUME IndInv, NEW s \in Sessions,
           Delete(s) \/ (\E l \in Labels : Subscribe(s, l))
             \/ \E L \in SUBSET Labels : Unsubscribe(s, L)
    PROVE  Kept'
  <1>1. TypeOK /\ LabelsAgree /\ HandlersFit /\ OneHandler /\ WaitingHasTimer
    BY DEF IndInv, Kept
  <1>2. UNCHANGED <<client, wakes, replies>>
    BY DEF Delete, Subscribe, Unsubscribe
  <1>3. HandlersFit' /\ OneHandler' /\ WaitingHasTimer'
    BY <1>1, <1>2 DEF HandlersFit, HandlerFits, OneHandler, WaitingHasTimer, Timer,
                      client, wakes, replies
  <1>4. /\ s2l \in [Sessions -> SUBSET Labels] /\ l2s \in [Labels -> SUBSET Sessions]
        /\ live \subseteq Sessions /\ ended \subseteq Sessions
        /\ late \subseteq Sessions \X Labels /\ claims \in 0..MaxClaims /\ MaxClaims \in Nat
    BY <1>1, OpenCodeConstants DEF TypeOK
  <1>8. \A t \in Sessions, m \in Labels :
          /\ m \in s2l[t] <=> t \in l2s[m]
          /\ m \in s2l[t] => t \in live \/ <<t, m>> \in late
    BY <1>1 DEF LabelsAgree
  <1>5. /\ s2l' \in [Sessions -> SUBSET Labels] /\ l2s' \in [Labels -> SUBSET Sessions]
        /\ live' \subseteq Sessions /\ ended' \subseteq Sessions
        /\ late' \subseteq Sessions \X Labels /\ claims' \in 0..MaxClaims /\ LabelsAgree'
    <2>1. CASE Delete(s)
      <3>1. /\ live' = live \ {s} /\ ended' = ended \cup {s} /\ late' = late
            /\ s2l' = [s2l EXCEPT ![s] = {}] /\ claims' = claims
            /\ l2s' = [l \in Labels |-> IF l \in s2l[s] THEN l2s[l] \ {s} ELSE l2s[l]]
        BY <2>1 DEF Delete, DropBackward
      <3>2. l2s' \in [Labels -> SUBSET Sessions] /\ s2l' \in [Sessions -> SUBSET Labels]
        BY <1>4, <3>1
      <3>3. LabelsAgree'
        <4>1. \A t \in Sessions, m \in Labels : t \in l2s'[m] <=> t \in l2s[m] /\ ~(t = s /\ m \in s2l[s])
          BY <1>4, <1>8, <3>1
        <4>2. \A t \in Sessions, m \in Labels : m \in s2l'[t] <=> m \in s2l[t] /\ ~(t = s)
          BY <1>4, <3>1
        <4>3. \A t \in Sessions, m \in Labels :
                /\ m \in s2l'[t] <=> t \in l2s'[m]
                /\ t \in l2s'[m] => t \in live' \/ <<t, m>> \in late'
          BY <1>8, <3>1, <4>1, <4>2
        <4> QED BY <4>3 DEF LabelsAgree
      <3> QED BY <1>4, <3>1, <3>2, <3>3
    <2>2. ASSUME NEW l \in Labels, Subscribe(s, l)
          PROVE  /\ s2l' \in [Sessions -> SUBSET Labels] /\ l2s' \in [Labels -> SUBSET Sessions]
                 /\ live' \subseteq Sessions /\ ended' \subseteq Sessions
                 /\ late' \subseteq Sessions \X Labels /\ claims' \in 0..MaxClaims /\ LabelsAgree'
      <3>1. /\ live' = live /\ ended' = ended /\ claims' = claims + 1 /\ claims < MaxClaims
            /\ late' = IF s \in live THEN late ELSE late \cup {<<s, l>>}
            /\ s2l' = [s2l EXCEPT ![s] = s2l[s] \cup {l}]
            /\ l2s' = [l2s EXCEPT ![l] = l2s[l] \cup {s}]
        BY <2>2 DEF Subscribe
      <3>2. l2s' \in [Labels -> SUBSET Sessions] /\ s2l' \in [Sessions -> SUBSET Labels]
        BY <1>4, <3>1
      <3>3. claims' \in 0..MaxClaims
        BY <1>4, <3>1
      <3>4. LabelsAgree'
        <4>1. \A t \in Sessions, m \in Labels : t \in l2s'[m] <=> t \in l2s[m] \/ <<t, m>> = <<s, l>>
          BY <1>4, <3>1
        <4>2. \A t \in Sessions, m \in Labels : m \in s2l'[t] <=> m \in s2l[t] \/ <<t, m>> = <<s, l>>
          BY <1>4, <3>1
        <4>3. late \subseteq late' /\ (s \in live \/ <<s, l>> \in late')
          BY <3>1
        <4>4. \A t \in Sessions, m \in Labels :
                /\ m \in s2l'[t] <=> t \in l2s'[m]
                /\ t \in l2s'[m] => t \in live' \/ <<t, m>> \in late'
          BY <1>8, <3>1, <4>1, <4>2, <4>3
        <4> QED BY <4>4 DEF LabelsAgree
      <3>5. late' \subseteq Sessions \X Labels
        BY <1>4, <3>1
      <3> QED BY <1>4, <3>1, <3>2, <3>3, <3>4, <3>5
    <2>3. ASSUME NEW L \in SUBSET Labels, Unsubscribe(s, L)
          PROVE  /\ s2l' \in [Sessions -> SUBSET Labels] /\ l2s' \in [Labels -> SUBSET Sessions]
                 /\ live' \subseteq Sessions /\ ended' \subseteq Sessions
                 /\ late' \subseteq Sessions \X Labels /\ claims' \in 0..MaxClaims /\ LabelsAgree'
      <3>1. /\ live' = live /\ ended' = ended /\ late' = late /\ claims' = claims
            /\ s2l' = [s2l EXCEPT ![s] = s2l[s] \ L]
            /\ l2s' = [l \in Labels |-> IF l \in L THEN l2s[l] \ {s} ELSE l2s[l]]
        BY <2>3 DEF Unsubscribe, DropBackward
      <3>2. l2s' \in [Labels -> SUBSET Sessions] /\ s2l' \in [Sessions -> SUBSET Labels]
        BY <1>4, <3>1
      <3>3. LabelsAgree'
        <4>1. \A t \in Sessions, m \in Labels : t \in l2s'[m] <=> t \in l2s[m] /\ ~(t = s /\ m \in L)
          BY <1>4, <1>8, <3>1
        <4>2. \A t \in Sessions, m \in Labels : m \in s2l'[t] <=> m \in s2l[t] /\ ~(t = s /\ m \in L)
          BY <1>4, <3>1
        <4>3. \A t \in Sessions, m \in Labels :
                /\ m \in s2l'[t] <=> t \in l2s'[m]
                /\ t \in l2s'[m] => t \in live' \/ <<t, m>> \in late'
          BY <1>8, <3>1, <4>1, <4>2
        <4> QED BY <4>3 DEF LabelsAgree
      <3> QED BY <1>4, <3>1, <3>2, <3>3
    <2> QED BY <2>1, <2>2, <2>3
  <1>6. TypeOK'
    BY <1>1, <1>2, <1>5 DEF TypeOK, client, wakes, replies
  <1> QED BY <1>3, <1>5, <1>6 DEF Kept
-----------------------------------------------------------------------------
(* wakes *)

\* A handler goes on with what is left to prompt.
LEMMA GoesOnKeeps ==
    ASSUME IndInv, NEW h \in handlers, NEW S \in SUBSET Sessions,
           handlers' = (handlers \ {h}) \cup {GoesOn(h, S)},
           UNCHANGED <<client, registry, row, replies>>
    PROVE  Kept'
  <1> DEFINE g == GoesOn(h, S)
  <1>1. TypeOK /\ LabelsAgree /\ HandlersFit /\ OneHandler /\ WaitingHasTimer
    BY DEF IndInv, Kept
  <1>2. g \in Handler /\ g.ev = h.ev /\ g.conn = h.conn
    <2>1. h \in Handler
      BY <1>1 DEF TypeOK
    <2> QED BY <2>1 DEF Handler, GoesOn
  <1>3. handlers' = (handlers \ {h}) \cup {g}
    OBVIOUS
  <1> HIDE DEF g
  <1>4. TypeOK'
    BY <1>1, <1>2, <1>3 DEF TypeOK, client, registry, replies
  <1>5. LabelsAgree' /\ WaitingHasTimer'
    BY <1>1 DEF LabelsAgree, WaitingHasTimer, Timer, registry, replies
  <1>6. HandlersFit'
    BY <1>1, <1>2, <1>3 DEF HandlersFit, HandlerFits, client
  <1>7. OneHandler'
    BY <1>1, <1>2, <1>3 DEF OneHandler, client
  <1> QED BY <1>4, <1>5, <1>6, <1>7 DEF Kept

\* A handler is through: it acks on its own connection, if that is still there.
LEMMA SettlesKeeps ==
    ASSUME IndInv, NEW h \in handlers, handlers' = handlers \ {h}, row' = Settles(h),
           UNCHANGED <<client, registry, replies>>
    PROVE  Kept'
  <1>1. TypeOK /\ LabelsAgree /\ HandlersFit /\ OneHandler /\ WaitingHasTimer
    BY DEF IndInv, Kept
  <1>2. h.ev \in Wakes
    BY <1>1 DEF TypeOK, Handler
  <1>3. \/ row' = row
        \/ h.conn = conn /\ row' = [row EXCEPT ![h.ev] = "settled"]
    BY DEF Settles
  <1>4. TypeOK'
    <2>1. row' \in [Wakes -> {"queued", "sent", "settled"}]
      BY <1>1, <1>2, <1>3 DEF TypeOK
    <2> QED BY <1>1, <2>1 DEF TypeOK, client, registry, replies
  <1>5. LabelsAgree' /\ WaitingHasTimer'
    BY <1>1 DEF LabelsAgree, WaitingHasTimer, Timer, registry, replies
  <1>6. OneHandler'
    BY <1>1 DEF OneHandler, client
  <1>7. HandlersFit'
    <2> SUFFICES ASSUME NEW g \in handlers, g # h PROVE HandlerFits(g)'
      BY DEF HandlersFit
    <2>1. HandlerFits(g) /\ g.ev \in Wakes
      BY <1>1 DEF HandlersFit, TypeOK, Handler
    <2>2. g.conn = conn => row'[g.ev] = row[g.ev]
      <3>1. CASE row' = row
        BY <3>1
      <3>2. CASE h.conn = conn /\ row' = [row EXCEPT ![h.ev] = "settled"]
        <4>1. g.conn = conn => g.ev # h.ev
          BY <1>1, <3>2 DEF OneHandler
        <4> QED BY <1>1, <2>1, <3>2, <4>1 DEF TypeOK
      <3> QED BY <1>3, <3>1, <3>2
    <2> QED BY <2>1, <2>2 DEF HandlerFits, client
  <1> QED BY <1>4, <1>5, <1>6, <1>7 DEF Kept

\* opencode has listed its sessions.
LEMMA ListedKeeps == ASSUME IndInv, NEW h \in handlers, Listed(h) PROVE Kept'
  <1>1. UNCHANGED <<client, registry, replies>> /\ live \in SUBSET Sessions
    BY DEF Listed, IndInv, Kept, TypeOK
  <1>2. PICK S \in {live, {}} :
          /\ handlers' = (handlers \ {h}) \cup IF S = {} THEN {} ELSE {GoesOn(h, S)}
          /\ row' = IF S = {} THEN Settles(h) ELSE row
    BY DEF Listed
  <1>3. CASE S = {}
    <2>1. handlers' = handlers \ {h} /\ row' = Settles(h)
      BY <1>2, <1>3
    <2> QED BY <1>1, <2>1, SettlesKeeps
  <1>4. CASE S # {}
    <2>1. S \in SUBSET Sessions /\ handlers' = (handlers \ {h}) \cup {GoesOn(h, S)} /\ row' = row
      BY <1>1, <1>2, <1>4
    <2> QED BY <1>1, <2>1, GoesOnKeeps
  <1> QED BY <1>3, <1>4

\* One promptAsync has returned.
LEMMA PromptedKeeps ==
    ASSUME IndInv, NEW h \in handlers, NEW s \in h.todo, Prompted(h, s)
    PROVE  Kept'
  <1>1. UNCHANGED <<client, registry, replies>>
    BY DEF Prompted
  <1>2. h.todo \in SUBSET Sessions
    BY DEF IndInv, Kept, TypeOK, Handler
  <1>3. /\ handlers' = (handlers \ {h}) \cup
              IF h.todo = {s} THEN {} ELSE {GoesOn(h, h.todo \ {s})}
        /\ row' = IF h.todo \ {s} = {} THEN Settles(h) ELSE row
    BY DEF Prompted, Done
  <1>4. CASE h.todo = {s}
    <2>1. handlers' = handlers \ {h} /\ row' = Settles(h)
      BY <1>3, <1>4
    <2> QED BY <1>1, <2>1, SettlesKeeps
  <1>5. CASE h.todo # {s}
    <2> DEFINE S == h.todo \ {s}
    <2>1. S # {} /\ S \in SUBSET Sessions
      BY <1>2, <1>5
    <2>2. handlers' = (handlers \ {h}) \cup {GoesOn(h, S)} /\ row' = row
      BY <1>3, <1>5, <2>1
    <2> HIDE DEF S
    <2> QED BY <1>1, <2>1, <2>2, GoesOnKeeps
  <1> QED BY <1>4, <1>5

\* A wake frame is read.
LEMMA WakeKeeps == ASSUME IndInv, NEW w \in Wakes, Wake(w) PROVE Kept'
  <1>1. TypeOK /\ LabelsAgree /\ HandlersFit /\ OneHandler /\ WaitingHasTimer
    BY DEF IndInv, Kept
  <1>2. /\ link = "up" /\ row[w] = "queued" /\ conn > 0
        /\ UNCHANGED <<client, registry, replies>>
    BY DEF Wake, IndInv, Connected
  <1>3. LabelsAgree' /\ WaitingHasTimer'
    BY <1>1, <1>2 DEF LabelsAgree, WaitingHasTimer, Timer, registry, replies
  <1>4. \A h \in handlers : h.conn = conn => h.ev # w
    BY <1>1, <1>2 DEF HandlersFit, HandlerFits
  <1>5. ASSUME NEW at \in {"listing", "prompting"}, NEW S \in SUBSET Sessions, Start(w, at, S)
        PROVE  Kept'
    <2>1. PICK g : g = [ev |-> w, conn |-> conn, at |-> at, todo |-> S]
      OBVIOUS
    <2>2. handlers' = handlers \cup {g} /\ row' = [row EXCEPT ![w] = "sent"]
      BY <1>5, <2>1 DEF Start
    <2>3. conn \in 1..MaxConns
      BY <1>1, <1>2, OpenCodeConstants DEF TypeOK
    <2>4. g \in Handler /\ g.ev = w /\ g.conn = conn
      BY <2>1, <2>3 DEF Handler
    <2>5. row' \in [Wakes -> {"queued", "sent", "settled"}] /\ row'[w] = "sent"
          /\ \A v \in Wakes : v # w => row'[v] = row[v]
      BY <1>1, <2>2 DEF TypeOK
    <2>6. TypeOK'
      BY <1>1, <1>2, <2>2, <2>4, <2>5 DEF TypeOK, client, registry, replies
    <2>7. OneHandler'
      BY <1>1, <1>2, <1>4, <2>2, <2>4 DEF OneHandler, client
    <2>8. HandlersFit'
      <3>1. \A h \in handlers : h.ev \in Wakes
        BY <1>1 DEF TypeOK, Handler
      <3>2. ASSUME NEW h \in handlers PROVE HandlerFits(h)'
        <4>1. h.conn = conn => row'[h.ev] = row[h.ev]
          BY <1>4, <2>5, <3>1
        <4> QED BY <1>1, <1>2, <4>1 DEF HandlersFit, HandlerFits, client
      <3>3. HandlerFits(g)'
        BY <1>2, <2>3, <2>4, <2>5 DEF HandlerFits, client
      <3> QED BY <2>2, <3>2, <3>3 DEF HandlersFit
    <2> QED BY <1>3, <2>6, <2>7, <2>8 DEF Kept
  <1>6. CASE row' = [row EXCEPT ![w] = "settled"] /\ UNCHANGED handlers
    <2>1. row' \in [Wakes -> {"queued", "sent", "settled"}]
          /\ \A v \in Wakes : v # w => row'[v] = row[v]
      BY <1>1, <1>6 DEF TypeOK
    <2>2. TypeOK'
      BY <1>1, <1>2, <1>6, <2>1 DEF TypeOK, client, registry, replies
    <2>3. OneHandler'
      BY <1>1, <1>2, <1>6 DEF OneHandler, client
    <2>4. HandlersFit'
      <3> SUFFICES ASSUME NEW h \in handlers PROVE HandlerFits(h)'
        BY <1>6 DEF HandlersFit
      <3>1. h.ev \in Wakes /\ HandlerFits(h)
        BY <1>1 DEF TypeOK, Handler, HandlersFit
      <3>2. h.conn = conn => row'[h.ev] = row[h.ev]
        BY <1>4, <2>1, <3>1
      <3> QED BY <1>2, <3>1, <3>2 DEF HandlerFits, client
    <2> QED BY <1>3, <2>2, <2>3, <2>4 DEF Kept
  <1>7. CASE Start(w, "listing", {})
    <2>1. {} \in SUBSET Sessions
      OBVIOUS
    <2> QED BY <1>5, <1>7, <2>1
  <1>8. CASE Target[w] # None /\ Start(w, "prompting", Aim(Target[w]))
    <2>1. Aim(Target[w]) \in SUBSET Sessions
      BY <1>1, <1>8, OpenCodeConstants DEF Aim, TypeOK
    <2> QED BY <1>5, <1>8, <2>1
  <1> QED BY <1>6, <1>7, <1>8 DEF Wake

-----------------------------------------------------------------------------
(* replies *)

\* The reply tool: its calls, the posts and the results.
LEMMA RepliesKeep ==
    ASSUME IndInv, NEW r \in Replies, Reply(r) \/ Posts(r) \/ Result(r) \/ TimesOut(r)
    PROVE  Kept'
  <1>1. TypeOK /\ LabelsAgree /\ HandlersFit /\ OneHandler /\ WaitingHasTimer
    BY DEF IndInv, Kept
  <1>2. UNCHANGED <<link, conn, registry, wakes>> /\ early' \in BOOLEAN
    BY <1>1 DEF Reply, Posts, Result, TimesOut, client, TypeOK
  <1>3. LabelsAgree' /\ HandlersFit' /\ OneHandler'
    BY <1>1, <1>2 DEF LabelsAgree, HandlersFit, HandlerFits, OneHandler, registry, wakes
  <1>4. ASSUME NEW p \in {"sent", "failed"}, Return(r, p)
        PROVE  /\ call' \in [Replies -> {"new", "waiting", "sent", "failed"}]
               /\ pending' \subseteq Replies /\ via' \in [Replies -> 0..MaxConns]
               /\ WaitingHasTimer'
    <2>1. /\ call' = [call EXCEPT ![r] = p] /\ pending' = pending \ {r}
          /\ via' = [via EXCEPT ![r] = 0] /\ p # "waiting"
      BY <1>4 DEF Return
    <2> QED BY <1>1, <2>1, OpenCodeConstants DEF TypeOK, WaitingHasTimer, Timer
  <1>5. /\ call' \in [Replies -> {"new", "waiting", "sent", "failed"}]
        /\ pending' \subseteq Replies /\ via' \in [Replies -> 0..MaxConns]
        /\ WaitingHasTimer'
    <2>1. CASE Reply(r)
      <3>1. CASE Return(r, "failed")
        BY <1>4, <3>1
      <3>2. CASE /\ call' = [call EXCEPT ![r] = "waiting"] /\ pending' = pending \cup {r}
                 /\ via' = [via EXCEPT ![r] = conn]
        BY <1>1, <3>2 DEF TypeOK, WaitingHasTimer, Timer
      <3> QED BY <2>1, <3>1, <3>2 DEF Reply
    <2>2. CASE Posts(r)
      BY <1>1, <2>2 DEF Posts, TypeOK, WaitingHasTimer, Timer
    <2>3. CASE Result(r)
      <3>1. Outcome(post[r]) \in {"sent", "failed"} /\ Return(r, Outcome(post[r]))
        BY <2>3 DEF Result, Outcome
      <3> QED BY <1>4, <3>1
    <2>4. CASE TimesOut(r)
      BY <1>4, <2>4 DEF TimesOut
    <2> QED BY <2>1, <2>2, <2>3, <2>4
  <1>6. post' \in [Replies -> {"none", "written", "delivered", "failed", "lost"}]
    BY <1>1 DEF Reply, Posts, Result, TimesOut, TypeOK
  <1>7. TypeOK'
    BY <1>1, <1>2, <1>5, <1>6 DEF TypeOK, registry, wakes
  <1> QED BY <1>3, <1>5, <1>7 DEF Kept

-----------------------------------------------------------------------------
(* the theorems *)

\* The plugin has just been loaded.
LEMMA InitIndInv == Init => IndInv
  <1> SUFFICES ASSUME Init PROVE IndInv
    OBVIOUS
  <1>1. TypeOK
    <2>1. conn \in 0..MaxConns /\ claims \in 0..MaxClaims /\ 0 \in 0..MaxConns
      BY OpenCodeConstants DEF Init
    <2> QED BY <2>1 DEF Init, TypeOK
  <1>2. LabelsAgree /\ HandlersFit /\ OneHandler /\ WaitingHasTimer /\ Connected
    BY DEF Init, LabelsAgree, HandlersFit, OneHandler, WaitingHasTimer, Connected
  <1> QED BY <1>1, <1>2 DEF IndInv, Kept

\* Every action keeps the invariant.
LEMMA NextIndInv == IndInv /\ [Next]_vars => IndInv'
  <1> SUFFICES ASSUME IndInv, [Next]_vars PROVE IndInv'
    OBVIOUS
  <1>1. Kept'
    <2>1. CASE Dial \/ Drop \/ Greets \/ Crash
      BY <2>1, DialKeeps, DropKeeps, GreetsKeeps, CrashKeeps
    <2>2. ASSUME NEW s \in Sessions,
                 Delete(s) \/ (\E l \in Labels : Subscribe(s, l))
                   \/ \E L \in SUBSET Labels : Unsubscribe(s, L)
          PROVE  Kept'
      BY <2>2, LabelsKeep
    <2>3. ASSUME NEW w \in Wakes, Wake(w) PROVE Kept'
      BY <2>3, WakeKeeps
    <2>4. ASSUME NEW h \in handlers, Listed(h) PROVE Kept'
      BY <2>4, ListedKeeps
    <2>5. ASSUME NEW h \in handlers, NEW s \in h.todo, Prompted(h, s) PROVE Kept'
      BY <2>5, PromptedKeeps
    <2>6. ASSUME NEW r \in Replies, Reply(r) \/ Posts(r) \/ Result(r) \/ TimesOut(r)
          PROVE  Kept'
      BY <2>6, RepliesKeep
    <2>7. CASE UNCHANGED vars
      BY <2>7 DEF IndInv, Kept, TypeOK, LabelsAgree, HandlersFit, HandlerFits, OneHandler,
                  WaitingHasTimer, Timer, vars, client, registry, wakes, replies
    <2> QED BY <2>1, <2>2, <2>3, <2>4, <2>5, <2>6, <2>7 DEF Next
  <1>2. Connected'
    <2>1. UNCHANGED <<link, conn>> \/ Dial \/ Greets \/ link' = "down"
      BY DEF Next, vars, client, Drop, Crash, Gone, Delete, Subscribe, Unsubscribe, Wake,
             Listed, Prompted, Reply, Posts, Result, TimesOut
    <2>2. conn \in Nat
      BY OpenCodeConstants DEF IndInv, Kept, TypeOK
    <2> QED BY <2>1, <2>2 DEF Connected, IndInv, Dial, Greets, Gone
  <1> QED BY <1>1, <1>2 DEF IndInv

\* What the adapter keeps, whatever the daemon and opencode do.
THEOREM OpenCodeInvariant == Spec => []IndInv
  BY InitIndInv, NextIndInv, PTL DEF Spec

\* The two maps of labels.ts are one relation, over sessions that live and claims
\* made after a deletion.
THEOREM OpenCodeLabelsAgree == Spec => []LabelsAgree
  <1>1. IndInv => LabelsAgree
    BY DEF IndInv, Kept
  <1> QED BY <1>1, OpenCodeInvariant, PTL

\* A wake is the daemon's until every session it is for has been prompted, also
\* with handlers of older connections that ack late.
THEOREM WakeKeptUntilPrompted == Spec => []KeptUntilPrompted
  <1>1. IndInv => KeptUntilPrompted
    BY DEF IndInv, Kept, TypeOK, HandlersFit, HandlerFits, KeptUntilPrompted
  <1> QED BY <1>1, OpenCodeInvariant, PTL

\* A tool call that waits has a timer (reply.ts:29-56): what lets it return
\* whatever has become of its connection.
THEOREM WaitingCallHasTimer == Spec => []WaitingHasTimer
  <1>1. IndInv => WaitingHasTimer
    BY DEF IndInv, Kept
  <1> QED BY <1>1, OpenCodeInvariant, PTL
=============================================================================
