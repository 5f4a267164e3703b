--------------------------- MODULE Delivery_proofs ---------------------------
(***************************************************************************)
(* Proofs about human delivery, the outbox, the shutdown and redrives, for *)
(* any number of items, channels, operator commands and attempts.          *)
(***************************************************************************)
EXTENDS Delivery, TLAPS

\* What a job knows.  While it waits every channel is through, left alone or
\* still to go; when a redrive is about to be recorded none is to go; what it
\* believes to have landed has; and only an item with an entry is redriven.
JobsFit ==
    \A k \in Jobs :
        /\ at[k] \in Waiting =>
             /\ cur[k] \in todo[k] /\ todo[k] \subseteq ChannelsOf[k[2]]
             /\ ChannelsOf[k[2]] \subseteq good[k] \cup bad[k] \cup skip[k] \cup todo[k]
        /\ at[k] = "marking" =>
             k[1] # Daemon /\ ChannelsOf[k[2]] \subseteq good[k] \cup bad[k] \cup skip[k]
        /\ good[k] \subseteq acked[k[2]] /\ skip[k] \subseteq acked[k[2]]
        /\ k[1] = Daemon => skip[k] = {}
        /\ k[1] # Daemon /\ at[k] # "idle" => k[2] \in entry

\* A reply has one channel: while its job waits nothing has come of it yet, and
\* its dead letter never lists a channel.
RepliesWhole ==
    /\ \A k \in Jobs : at[k] \in Waiting /\ k[2] \in Replies => good[k] = {} /\ bad[k] = {}
    /\ \A r \in Replies : done[r] = {}

\* The daemon works on an item once: it is through with one that has an entry,
\* nobody has taken one it has not begun, and without a redrive what landed is
\* its own doing.
DaemonOnce ==
    \A i \in Items :
        /\ i \in entry => at[<<Daemon, i>>] \notin Waiting \cup {"idle"}
        /\ at[<<Daemon, i>>] = "idle" => acked[i] = {}
        /\ i \notin redrove => acked[i] \subseteq good[<<Daemon, i>>]

\* What is under way when the cancelled tasks have been awaited outlived the
\* wait; the process outlives its tasks, and the store its writers until then.
SurvivorsKnown ==
    /\ stage \in {"outbox", "closed"} =>
         \A a \in Alerts : at[<<Daemon, a>>] \in Waiting => a \in survivors
    /\ stage = "exited" => \A a \in Alerts : at[<<Daemon, a>>] \notin Waiting
    /\ ~StoreFails /\ stage \in {"up", "handlers", "drain", "force"} => lost = {}

\* The columns of the table are true of every item, with an entry or without.
TableTrue ==
    \A i \in Items : done[i] \subseteq acked[i] /\ (mark[i] = "ok" => Landed(i))

IndInv ==
    /\ TypeOK /\ JobsFit /\ RepliesWhole /\ DaemonOnce /\ SurvivorsKnown /\ TableTrue
    /\ NothingUnrecorded /\ EntryTruthful /\ NoResend

-----------------------------------------------------------------------------
(* operators *)

\* A dead letter is written with the channels given, or the item is lost.
LEMMA BuryTypes ==
    ASSUME TypeOK, NEW i \in Items, NEW D \in SUBSET Kinds, Bury(i, D)
    PROVE  /\ entry' \subseteq Items /\ done' \in [Items -> SUBSET Kinds]
           /\ lost' \subseteq Alerts
  BY DEF Bury, TypeOK

\* What a step of a job may be: it moves to where it waits next, or the channel
\* it is on is through.
LEMMA JobStepEffect ==
    ASSUME NEW k \in Jobs, TypeOK, JobStep(k)
    PROVE  /\ Runs(k) /\ at[k] \in Waiting
           /\ \/ /\ \E p \in Waiting : Moves(k, p)
                 /\ tries' \in [Jobs -> 0..(MaxTries - 1)]
              \/ \E ok \in BOOLEAN : ChannelEnds(k, ok)
  <1> USE DEF Waiting
  <1>1. CASE Prepared(k)
    BY <1>1 DEF Prepared, TypeOK
  <1>2. CASE Posted(k)
    <2>1. Runs(k) /\ at[k] \in Waiting
      BY <1>2 DEF Posted
    <2>2. CASE Retry(k)
      <3>1. CASE tries[k] + 1 < MaxTries
        <4>1. tries[k] + 1 \in 0..(MaxTries - 1)
          BY <3>1, DeliveryConstants DEF TypeOK
        <4>2. Moves(k, "backoff") /\ tries' = [tries EXCEPT ![k] = @ + 1]
          BY <2>2, <3>1 DEF Retry
        <4>3. tries' \in [Jobs -> 0..(MaxTries - 1)]
          BY <4>1, <4>2 DEF TypeOK
        <4> QED BY <2>1, <4>2, <4>3
      <3>2. CASE ~(tries[k] + 1 < MaxTries)
        <4>1. ChannelEnds(k, FALSE)
          BY <2>2, <3>2 DEF Retry
        <4> QED BY <2>1, <4>1
      <3> QED BY <3>1, <3>2
    <2> QED BY <1>2, <2>1, <2>2 DEF Posted
  <1>3. CASE BackoffOver(k)
    BY <1>3 DEF BackoffOver, TypeOK
  <1>4. CASE Mailed(k)
    BY <1>4 DEF Mailed
  <1> QED BY <1>1, <1>2, <1>3, <1>4 DEF JobStep

-----------------------------------------------------------------------------
(* typing *)

\* The end of a job, with its dead letter or without.
LEMMA EndsTypes ==
    ASSUME TypeOK, NEW k \in Jobs, NEW ok \in BOOLEAN, NEW D \in SUBSET Kinds, Ends(k, ok, D)
    PROVE  /\ at' \in [Jobs -> Places]
           /\ entry' \subseteq Items /\ done' \in [Items -> SUBSET Kinds]
           /\ lost' \subseteq Alerts
  <1>1. k[2] \in Items
    BY DEF Jobs
  <1>2. at' \in [Jobs -> Places]
    BY DEF Ends, TypeOK, Places
  <1>3. CASE Bury(k[2], D)
    BY <1>1, <1>2, <1>3, BuryTypes
  <1>4. CASE UNCHANGED <<entry, done, lost>>
    BY <1>2, <1>4 DEF TypeOK
  <1> QED BY <1>3, <1>4 DEF Ends

\* A job that goes on to its next channel, or has none left.
LEMMA NextChannelTypes ==
    ASSUME TypeOK, NEW k \in Jobs, NEW rest \in SUBSET Kinds, NextChannel(k, rest)
    PROVE  /\ todo' \in [Jobs -> SUBSET Kinds] /\ cur' \in [Jobs -> Kinds \cup {None}]
           /\ tries' \in [Jobs -> 0..(MaxTries - 1)]
  BY DeliveryConstants DEF NextChannel, TypeOK

\* A job that starts stays within the types, and touches nothing but its own
\* state and the dead letters.
LEMMA StartTypes ==
    ASSUME TypeOK, NEW k \in Jobs, NEW S \in SUBSET Kinds, Start(k, S)
    PROVE  /\ at' \in [Jobs -> Places]
           /\ todo' \in [Jobs -> SUBSET Kinds] /\ cur' \in [Jobs -> Kinds \cup {None}]
           /\ tries' \in [Jobs -> 0..(MaxTries - 1)]
           /\ good' \in [Jobs -> SUBSET Kinds] /\ bad' \in [Jobs -> SUBSET Kinds]
           /\ skip' \in [Jobs -> SUBSET Kinds]
           /\ entry' \subseteq Items /\ done' \in [Items -> SUBSET Kinds]
           /\ lost' \subseteq Alerts /\ unknown' \subseteq Alerts
           /\ UNCHANGED <<acked, survivors>>
  <1>0. k[2] \in Items /\ ChannelsOf[k[2]] \subseteq Kinds /\ Owed(k[2], S) \subseteq Kinds
    BY DeliveryConstants DEF Jobs, Owed
  <1>3. UNCHANGED <<acked, survivors>> /\ unknown' \subseteq Alerts
    BY DEF Start, StartAlert, PrincipalGone, StartChannels, StartReply, TypeOK
  <1>1. CASE k[2] \in Alerts /\ StartAlert(k, S)
    <2>1. CASE PrincipalGone(k, S)
      <3>1. /\ skip' = [skip EXCEPT ![k] = S] /\ good' = [good EXCEPT ![k] = {}]
            /\ bad' = [bad EXCEPT ![k] = ChannelsOf[k[2]]]
            /\ Ends(k, TRUE, S) /\ UNCHANGED <<todo, cur, tries>>
        BY <2>1 DEF PrincipalGone
      <3>2. /\ skip' \in [Jobs -> SUBSET Kinds] /\ good' \in [Jobs -> SUBSET Kinds]
            /\ bad' \in [Jobs -> SUBSET Kinds]
        BY <1>0, <3>1 DEF TypeOK
      <3> QED BY <1>3, <3>1, <3>2, EndsTypes DEF TypeOK
    <2>2. CASE StartChannels(k, S) /\ Owed(k[2], S) = {}
      <3>1. Ends(k, ChannelsOf[k[2]] # {}, S) /\ UNCHANGED <<todo, cur, tries>>
        BY <2>2 DEF StartChannels
      <3>2. /\ skip' \in [Jobs -> SUBSET Kinds] /\ good' \in [Jobs -> SUBSET Kinds]
            /\ bad' \in [Jobs -> SUBSET Kinds]
        BY <2>2 DEF StartChannels, TypeOK
      <3> QED BY <1>3, <3>1, <3>2, EndsTypes DEF TypeOK
    <2>3. CASE StartChannels(k, S) /\ Owed(k[2], S) # {}
      <3>1. /\ NextChannel(k, Owed(k[2], S)) /\ at' = [at EXCEPT ![k] = "preparing"]
            /\ UNCHANGED <<entry, done, lost>>
        BY <2>3 DEF StartChannels
      <3>2. at' \in [Jobs -> Places]
        BY <3>1 DEF TypeOK, Places, Waiting
      <3>3. /\ skip' \in [Jobs -> SUBSET Kinds] /\ good' \in [Jobs -> SUBSET Kinds]
            /\ bad' \in [Jobs -> SUBSET Kinds]
        BY <2>3 DEF StartChannels, TypeOK
      <3> QED BY <1>0, <1>3, <3>1, <3>2, <3>3, NextChannelTypes DEF TypeOK
    <2> QED BY <1>1, <2>1, <2>2, <2>3 DEF StartAlert
  <1>2. CASE k[2] \in Replies /\ StartReply(k)
    <2>1. /\ skip' \in [Jobs -> SUBSET Kinds] /\ good' \in [Jobs -> SUBSET Kinds]
          /\ UNCHANGED <<acked, survivors>> /\ unknown' \subseteq Alerts
      BY <1>2, <1>3 DEF StartReply, TypeOK
    <2>2. CASE /\ at' = [at EXCEPT ![k] = IF k[1] = Daemon THEN "no_callback" ELSE "marking"]
               /\ bad' = [bad EXCEPT ![k] = {"callback"}]
               /\ UNCHANGED <<todo, cur, tries, entry, done, lost>>
      BY <2>1, <2>2 DEF TypeOK, Places, Kinds
    <2>3. CASE /\ bad' = [bad EXCEPT ![k] = {"callback"}]
               /\ Ends(k, FALSE, {}) /\ UNCHANGED <<todo, cur, tries>>
      <3>1. bad' \in [Jobs -> SUBSET Kinds]
        BY <2>3 DEF TypeOK, Kinds
      <3>2. {} \in SUBSET Kinds
        OBVIOUS
      <3> QED BY <2>1, <2>3, <3>1, <3>2, EndsTypes DEF TypeOK
    <2>4. CASE /\ at' = [at EXCEPT ![k] = "posting"] /\ bad' = [bad EXCEPT ![k] = {}]
               /\ NextChannel(k, {"callback"}) /\ UNCHANGED <<entry, done, lost>>
      <3>1. at' \in [Jobs -> Places] /\ bad' \in [Jobs -> SUBSET Kinds]
        BY <2>4 DEF TypeOK, Places, Waiting
      <3>2. {"callback"} \in SUBSET Kinds
        BY DEF Kinds
      <3> QED BY <2>1, <2>4, <3>1, <3>2, NextChannelTypes DEF TypeOK
    <2> QED BY <1>2, <2>2, <2>3, <2>4 DEF StartReply
  <1> QED BY <1>1, <1>2 DEF Start

-----------------------------------------------------------------------------
(* what a step does to the job it is about, and to no other *)

\* A job that no step was about.
SameJob(j) == UNCHANGED <<at[j], todo[j], cur[j], good[j], bad[j], skip[j]>>

\* The dead letter of i is written as D, or its loss is counted.
Written(i, D) ==
    /\ \A j \in Items \ {i} : done'[j] = done[j] /\ (j \in entry' <=> j \in entry)
    /\ \/ ~StoreClosed /\ i \in entry' /\ done'[i] = D /\ UNCHANGED lost
       \/ /\ StoreClosed \/ StoreFails
          /\ UNCHANGED <<entry, done>>
          /\ lost' = IF i \in Alerts THEN lost \cup {i} ELSE lost

\* What burying an item leaves: an entry, or an alert that is lost with the store.
LEMMA BuryEffect ==
    ASSUME TypeOK, NEW i \in Items, NEW D, Bury(i, D)
    PROVE  Written(i, D)
  BY DEF Bury, Written, TypeOK

\* A job that starts waits for what it owes, or has nothing to wait for and
\* is over, with a dead letter if it is the daemon's and has not landed.
LEMMA StartEffect ==
    ASSUME TypeOK, NEW k \in Jobs, NEW S \in SUBSET Kinds, Start(k, S)
    PROVE  /\ \A j \in Jobs \ {k} : SameJob(j)
           /\ UNCHANGED <<acked, survivors>> /\ unknown \subseteq unknown' /\ good'[k] = {}
           /\ skip'[k] = IF k[2] \in Alerts THEN S ELSE {}
           /\ \/ /\ at'[k] \in {"preparing", "posting"} /\ cur'[k] \in todo'[k]
                 /\ todo'[k] = ChannelsOf[k[2]] \ skip'[k] /\ bad'[k] = {}
                 /\ UNCHANGED <<entry, done, lost>>
              \/ /\ ChannelsOf[k[2]] \subseteq bad'[k] \cup skip'[k]
                 /\ k[1] # Daemon => at'[k] = "marking"
                 /\ k[1] = Daemon => at'[k] \in {"ended", "no_callback"}
                 /\ at'[k] = "ended" =>
                      \/ Written(k[2], {})
                      \/ Written(k[2], skip'[k])
                      \/ /\ ChannelsOf[k[2]] # {} /\ ChannelsOf[k[2]] \subseteq skip'[k]
                         /\ UNCHANGED <<entry, done, lost>>
                      \/ k[2] \in unknown' /\ UNCHANGED <<entry, done, lost>>
                 /\ at'[k] # "ended" => UNCHANGED <<entry, done, lost>>
  <1>0. /\ k[2] \in Items /\ ChannelsOf[k[2]] \subseteq Kinds
        /\ k[2] \in Replies => k[2] \notin Alerts
    BY DeliveryConstants DEF Jobs
  <1>4. UNCHANGED <<acked, survivors>> /\ unknown \subseteq unknown'
    BY DEF Start, StartAlert, PrincipalGone, StartChannels, StartReply
  <1>1. CASE k[2] \in Alerts /\ PrincipalGone(k, S)
    <2>1. /\ skip' = [skip EXCEPT ![k] = S] /\ good' = [good EXCEPT ![k] = {}]
          /\ bad' = [bad EXCEPT ![k] = ChannelsOf[k[2]]]
          /\ at' = [at EXCEPT ![k] = IF k[1] = Daemon THEN "ended" ELSE "marking"]
          /\ k[1] = Daemon => k[2] \in unknown'
          /\ UNCHANGED <<todo, cur, tries, entry, done, lost>>
      BY <1>1 DEF PrincipalGone, Ends
    <2>2. \A j \in Jobs \ {k} : SameJob(j)
      BY <2>1 DEF SameJob, TypeOK
    <2>3. /\ skip'[k] = S /\ skip'[k] = IF k[2] \in Alerts THEN S ELSE {}
          /\ good'[k] = {} /\ bad'[k] = ChannelsOf[k[2]]
          /\ at'[k] = IF k[1] = Daemon THEN "ended" ELSE "marking"
      BY <1>1, <2>1 DEF TypeOK
    <2> QED BY <1>4, <2>1, <2>2, <2>3
  <1>3. CASE k[2] \in Alerts /\ StartChannels(k, S)
    <2>1. /\ skip' = [skip EXCEPT ![k] = S] /\ good' = [good EXCEPT ![k] = {}]
          /\ bad' = [bad EXCEPT ![k] = {}]
          /\ UNCHANGED <<acked, survivors>> /\ unknown \subseteq unknown'
      BY <1>3, <1>4 DEF StartChannels
    <2>5. skip'[k] = S /\ skip'[k] = IF k[2] \in Alerts THEN S ELSE {}
      BY <1>3, <2>1 DEF TypeOK
    <2>2. CASE Owed(k[2], S) = {}
      <3>1. Ends(k, ChannelsOf[k[2]] # {}, S) /\ UNCHANGED <<todo, cur, tries>>
        BY <1>3, <2>2 DEF StartChannels
      <3>2. at' = [at EXCEPT ![k] = IF k[1] = Daemon THEN "ended" ELSE "marking"]
        BY <3>1 DEF Ends
      <3>3. \A j \in Jobs \ {k} : SameJob(j)
        BY <2>1, <3>1, <3>2 DEF SameJob, TypeOK
      <3>4. /\ good'[k] = {}
            /\ at'[k] = IF k[1] = Daemon THEN "ended" ELSE "marking"
        BY <2>1, <3>2 DEF TypeOK
      <3>5. ChannelsOf[k[2]] \subseteq S
        BY <2>2 DEF Owed
      <3>6. CASE k[1] = Daemon /\ ChannelsOf[k[2]] = {}
        <4>1. Bury(k[2], S)
          BY <3>1, <3>6 DEF Ends
        <4>2. Written(k[2], S)
          BY <1>0, <4>1, BuryEffect
        <4> QED BY <2>1, <3>3, <3>4, <2>5, <3>5, <3>6, <4>2
      <3>7. CASE ~(k[1] = Daemon /\ ChannelsOf[k[2]] = {})
        <4>1. UNCHANGED <<entry, done, lost>>
          BY <3>1, <3>7 DEF Ends
        <4> QED BY <2>1, <3>3, <3>4, <2>5, <3>5, <3>7, <4>1
      <3> QED BY <3>6, <3>7
    <2>3. CASE Owed(k[2], S) # {}
      <3>1. /\ NextChannel(k, Owed(k[2], S)) /\ at' = [at EXCEPT ![k] = "preparing"]
            /\ UNCHANGED <<entry, done, lost>>
        BY <1>3, <2>3 DEF StartChannels
      <3>2. \A j \in Jobs \ {k} : SameJob(j)
        BY <2>1, <3>1 DEF NextChannel, SameJob, TypeOK
      <3>3. /\ good'[k] = {} /\ bad'[k] = {} /\ at'[k] = "preparing"
            /\ todo'[k] = Owed(k[2], S) /\ cur'[k] \in Owed(k[2], S)
        BY <2>1, <3>1 DEF NextChannel, TypeOK
      <3> QED BY <2>1, <2>5, <3>1, <3>2, <3>3 DEF Owed
    <2> QED BY <2>2, <2>3
  <1>2. CASE k[2] \in Replies /\ StartReply(k)
    <2>0. ChannelsOf[k[2]] = {"callback"}
      BY <1>2, DeliveryConstants
    <2>1. /\ skip' = [skip EXCEPT ![k] = {}] /\ good' = [good EXCEPT ![k] = {}]
          /\ UNCHANGED <<acked, survivors>> /\ unknown \subseteq unknown'
      BY <1>2, <1>4 DEF StartReply
    <2>5. /\ skip'[k] = {} /\ skip'[k] = IF k[2] \in Alerts THEN S ELSE {}
          /\ good'[k] = {}
      BY <1>0, <1>2, <2>1 DEF TypeOK
    <2>2. CASE /\ at' = [at EXCEPT ![k] = IF k[1] = Daemon THEN "no_callback" ELSE "marking"]
               /\ bad' = [bad EXCEPT ![k] = {"callback"}]
               /\ UNCHANGED <<todo, cur, tries, entry, done, lost>>
      <3>1. \A j \in Jobs \ {k} : SameJob(j)
        BY <2>1, <2>2 DEF SameJob, TypeOK
      <3>2. /\ bad'[k] = {"callback"}
            /\ at'[k] = IF k[1] = Daemon THEN "no_callback" ELSE "marking"
        BY <2>2 DEF TypeOK
      <3> QED BY <2>0, <2>1, <2>2, <2>5, <3>1, <3>2
    <2>3. CASE /\ bad' = [bad EXCEPT ![k] = {"callback"}]
               /\ Ends(k, FALSE, {}) /\ UNCHANGED <<todo, cur, tries>>
      <3>1. at' = [at EXCEPT ![k] = IF k[1] = Daemon THEN "ended" ELSE "marking"]
        BY <2>3 DEF Ends
      <3>2. \A j \in Jobs \ {k} : SameJob(j)
        BY <2>1, <2>3, <3>1 DEF SameJob, TypeOK
      <3>3. /\ bad'[k] = {"callback"}
            /\ at'[k] = IF k[1] = Daemon THEN "ended" ELSE "marking"
        BY <2>1, <2>3, <3>1 DEF TypeOK
      <3>4. CASE k[1] = Daemon
        <4>1. Bury(k[2], {})
          BY <2>3, <3>4 DEF Ends
        <4>2. Written(k[2], {})
          BY <1>0, <4>1, BuryEffect
        <4> QED BY <2>0, <2>1, <2>5, <3>2, <3>3, <3>4, <4>2
      <3>5. CASE k[1] # Daemon
        <4>1. UNCHANGED <<entry, done, lost>>
          BY <2>3, <3>5 DEF Ends
        <4> QED BY <2>0, <2>1, <2>5, <3>2, <3>3, <3>5, <4>1
      <3> QED BY <3>4, <3>5
    <2>4. CASE /\ at' = [at EXCEPT ![k] = "posting"] /\ bad' = [bad EXCEPT ![k] = {}]
               /\ NextChannel(k, {"callback"}) /\ UNCHANGED <<entry, done, lost>>
      <3>1. \A j \in Jobs \ {k} : SameJob(j)
        BY <2>1, <2>4 DEF NextChannel, SameJob, TypeOK
      <3>2. /\ bad'[k] = {} /\ at'[k] = "posting"
            /\ todo'[k] = {"callback"} /\ cur'[k] \in {"callback"}
        BY <2>4 DEF NextChannel, TypeOK
      <3> QED BY <2>0, <2>1, <2>4, <2>5, <3>1, <3>2
    <2> QED BY <1>2, <2>2, <2>3, <2>4 DEF StartReply
  <1> QED BY <1>1, <1>2, <1>3 DEF Start, StartAlert

\* An alert is lost while the store is open only if the store can fail, and
\* once it is closed only if it was still under way.
LEMMA LossKnown ==
    ASSUME IndInv, UNCHANGED <<stage, survivors>>, NEW i \in Items,
           UNCHANGED lost \/ \E D \in SUBSET Kinds : Written(i, D),
           i \in Alerts /\ StoreClosed => at[<<Daemon, i>>] \in Waiting,
           \A a \in Alerts : at'[<<Daemon, a>>] \in Waiting =>
               at[<<Daemon, a>>] \in Waiting \/ stage \in {"up", "handlers"}
    PROVE  /\ SurvivorsKnown'
           /\ ~StoreFails => lost' \subseteq survivors'
  <1>1. \/ UNCHANGED lost
        \/ (StoreClosed \/ StoreFails) /\ i \in Alerts /\ lost' = lost \cup {i}
    BY DEF Written
  <1>2. SurvivorsKnown'
    BY <1>1 DEF IndInv, SurvivorsKnown, StoreClosed
  <1>3. ~StoreFails => lost' \subseteq survivors'
    BY <1>1 DEF IndInv, SurvivorsKnown, NothingUnrecorded, StoreClosed
  <1> QED BY <1>2, <1>3

\* A channel that is through has taken the item or failed; the job goes on to
\* the next, or is over, with a dead letter if it is the daemon's and a channel
\* failed.
LEMMA ChannelEndsEffect ==
    ASSUME TypeOK, NEW k \in Jobs, cur[k] \in todo[k],
           \E ok \in BOOLEAN : ChannelEnds(k, ok)
    PROVE  \E took \in {{}, {cur[k]}} :
             /\ \A j \in Jobs \ {k} : SameJob(j)
             /\ UNCHANGED <<stage, mark, unknown, survivors, redrives>>
             /\ skip'[k] = skip[k]
             /\ \A i \in Items \ {k[2]} : acked'[i] = acked[i]
             /\ acked'[k[2]] = acked[k[2]] \cup took
             /\ good'[k] = good[k] \cup took
             /\ bad'[k] = bad[k] \cup ({cur[k]} \ took)
             /\ redrove \subseteq redrove' /\ redrove' \subseteq Items
             /\ took # {} /\ k[1] # Daemon => k[2] \in redrove'
             /\ \/ /\ at'[k] = "preparing" /\ cur'[k] \in todo'[k]
                   /\ todo'[k] = todo[k] \ {cur[k]}
                   /\ UNCHANGED <<entry, done, lost>>
                \/ /\ todo[k] \subseteq {cur[k]}
                   /\ k[1] # Daemon => at'[k] = "marking" /\ UNCHANGED <<entry, done, lost>>
                   /\ k[1] = Daemon =>
                        /\ at'[k] = "ended"
                        /\ \/ bad'[k] # {} /\ Written(k[2], good'[k] \cup skip[k])
                           \/ bad'[k] = {} /\ UNCHANGED <<entry, done, lost>>
  <1>0. k[2] \in Items
    BY DEF Jobs
  <1> PICK ok \in BOOLEAN : ChannelEnds(k, ok)
    OBVIOUS
  <1> DEFINE took == IF ok THEN {cur[k]} ELSE {}
             g == IF ok THEN good[k] \cup {cur[k]} ELSE good[k]
             b == IF ok THEN bad[k] ELSE bad[k] \cup {cur[k]}
             rest == todo[k] \ {cur[k]}
  <1>1. /\ good' = [good EXCEPT ![k] = g] /\ bad' = [bad EXCEPT ![k] = b]
        /\ acked' = [acked EXCEPT ![k[2]] = IF ok THEN @ \cup {cur[k]} ELSE @]
        /\ redrove' = IF ok /\ k[1] # Daemon THEN redrove \cup {k[2]} ELSE redrove
        /\ UNCHANGED <<stage, skip, mark, unknown, survivors, redrives>>
    BY DEF ChannelEnds
  <1>2. /\ good'[k] = g /\ bad'[k] = b
        /\ \A j \in Jobs \ {k} : good'[j] = good[j] /\ bad'[j] = bad[j] /\ skip'[j] = skip[j]
    BY <1>1 DEF TypeOK
  <1>3. /\ \A i \in Items \ {k[2]} : acked'[i] = acked[i]
        /\ acked'[k[2]] = acked[k[2]] \cup took
    BY <1>0, <1>1 DEF TypeOK
  <1>4. /\ redrove \subseteq redrove' /\ redrove' \subseteq Items
        /\ took # {} /\ k[1] # Daemon => k[2] \in redrove'
    BY <1>0, <1>1 DEF TypeOK
  <1>7. /\ took \in {{}, {cur[k]}}
        /\ g = good[k] \cup took /\ b = bad[k] \cup ({cur[k]} \ took)
    OBVIOUS
  <1>5. CASE rest # {}
    <2>1. /\ NextChannel(k, rest) /\ at' = [at EXCEPT ![k] = "preparing"]
          /\ UNCHANGED <<entry, done, lost>>
      BY <1>5 DEF ChannelEnds
    <2>2. /\ at'[k] = "preparing" /\ cur'[k] \in todo'[k] /\ todo'[k] = rest
          /\ \A j \in Jobs \ {k} : at'[j] = at[j] /\ cur'[j] = cur[j] /\ todo'[j] = todo[j]
      BY <2>1 DEF NextChannel, TypeOK
    <2>3. \A j \in Jobs \ {k} : SameJob(j)
      BY <1>2, <2>2 DEF SameJob
    <2> HIDE DEF took, g, b
    <2> QED BY <1>1, <1>2, <1>3, <1>4, <1>7, <2>1, <2>2, <2>3
  <1>6. CASE rest = {}
    <2>1. /\ Ends(k, b = {}, g \cup skip[k])
          /\ todo' = [todo EXCEPT ![k] = {}] /\ cur' = [cur EXCEPT ![k] = None]
      BY <1>6 DEF ChannelEnds
    <2>2. at' = [at EXCEPT ![k] = IF k[1] = Daemon THEN "ended" ELSE "marking"]
      BY <2>1 DEF Ends
    <2>3. /\ at'[k] = IF k[1] = Daemon THEN "ended" ELSE "marking"
          /\ \A j \in Jobs \ {k} : at'[j] = at[j] /\ cur'[j] = cur[j] /\ todo'[j] = todo[j]
      BY <2>1, <2>2 DEF TypeOK
    <2>4. \A j \in Jobs \ {k} : SameJob(j)
      BY <1>2, <2>3 DEF SameJob
    <2>5. k[1] = Daemon /\ b # {} => Written(k[2], g \cup skip[k])
      <3>1. k[1] = Daemon /\ b # {} => Bury(k[2], g \cup skip[k])
        BY <2>1 DEF Ends
      <3> QED BY <1>0, <3>1, BuryEffect
    <2>6. k[1] # Daemon \/ b = {} => UNCHANGED <<entry, done, lost>>
      BY <2>1 DEF Ends
    <2>7. todo[k] \subseteq {cur[k]}
      BY <1>6
    <2> HIDE DEF took, g, b
    <2> QED BY <1>1, <1>2, <1>3, <1>4, <1>7, <2>3, <2>4, <2>5, <2>6, <2>7
  <1> QED BY <1>5, <1>6

-----------------------------------------------------------------------------
(* each action keeps the invariant *)

\* An item and a process make a job, and a job is made of them.
LEMMA JobIsPair ==
    ASSUME NEW k \in Jobs
    PROVE  k[1] \in Procs /\ k[2] \in Items /\ k = <<k[1], k[2]>>
  BY DEF Jobs

\* The daemon's job for an item begins only once.
LEMMA AcceptKeeps ==
    ASSUME IndInv, NEW i \in Items, Accept(i)
    PROVE  IndInv'
  <1> DEFINE k == <<Daemon, i>>
  <1>0. /\ k \in Jobs /\ k[1] = Daemon /\ k[2] = i
        /\ \A j \in Items \ {i} : <<Daemon, j>> \in Jobs \ {k}
        /\ \A j \in Jobs \ {k} : j[1] = Daemon => j[2] # i
    BY DEF Jobs, Procs
  <1> HIDE DEF k
  <1>1. /\ Accepts(i) /\ at[k] = "idle" /\ Start(k, {})
        /\ UNCHANGED <<stage, mark, redrove, redrives>>
    BY DEF Accept, k
  <1>2. /\ \A j \in Jobs \ {k} : SameJob(j)
        /\ UNCHANGED <<acked, survivors>> /\ unknown \subseteq unknown'
        /\ good'[k] = {} /\ skip'[k] = {}
        /\ \/ /\ at'[k] \in {"preparing", "posting"} /\ cur'[k] \in todo'[k]
              /\ todo'[k] = ChannelsOf[i] /\ bad'[k] = {}
              /\ UNCHANGED <<entry, done, lost>>
           \/ /\ ChannelsOf[i] \subseteq bad'[k]
              /\ at'[k] \in {"ended", "no_callback"}
              /\ at'[k] = "ended" =>
                   Written(i, {}) \/ (i \in unknown' /\ UNCHANGED <<entry, done, lost>>)
              /\ at'[k] # "ended" => UNCHANGED <<entry, done, lost>>
    <2>1. TypeOK /\ {} \in SUBSET Kinds /\ ChannelsOf[k[2]] = ChannelsOf[i]
      BY <1>0 DEF IndInv
    <2>2. skip'[k] = {}
      BY <1>0, <1>1, <2>1, StartEffect
    <2>3. ChannelsOf[i] # {} /\ ChannelsOf[i] \subseteq skip'[k] => FALSE
      BY <2>2
    <2>4. \/ /\ at'[k] \in {"preparing", "posting"} /\ cur'[k] \in todo'[k]
             /\ todo'[k] = ChannelsOf[i] \ skip'[k] /\ bad'[k] = {}
             /\ UNCHANGED <<entry, done, lost>>
          \/ /\ ChannelsOf[i] \subseteq bad'[k] \cup skip'[k]
             /\ at'[k] \in {"ended", "no_callback"}
             /\ at'[k] = "ended" =>
                  \/ Written(i, {}) \/ Written(i, skip'[k])
                  \/ i \in unknown' /\ UNCHANGED <<entry, done, lost>>
             /\ at'[k] # "ended" => UNCHANGED <<entry, done, lost>>
      BY <1>0, <1>1, <2>1, <2>3, StartEffect
    <2>5. /\ \A j \in Jobs \ {k} : SameJob(j)
          /\ UNCHANGED <<acked, survivors>> /\ unknown \subseteq unknown' /\ good'[k] = {}
      BY <1>0, <1>1, <2>1, StartEffect
    <2> QED BY <2>2, <2>4, <2>5
  <1>3. acked[i] = {} /\ i \notin entry
    BY <1>0, <1>1 DEF IndInv, DaemonOnce, k
  <1>4. /\ entry \subseteq entry' /\ lost \subseteq lost'
        /\ \A j \in Items \ {i} : done'[j] = done[j] /\ (j \in entry' <=> j \in entry)
        /\ done'[i] \in {done[i], {}}
    BY <1>0, <1>2 DEF Written, IndInv, TypeOK
  <1>5. TypeOK'
    BY <1>0, <1>1, StartTypes DEF IndInv, TypeOK
  <1>6. JobsFit'
    <2>1. ASSUME NEW j \in Jobs \ {k}
          PROVE  SameJob(j) /\ entry \subseteq entry' /\ UNCHANGED acked
      BY <1>2, <1>4
    <2> QED BY <1>0, <1>2, <2>1 DEF IndInv, JobsFit, SameJob, Waiting
  <1>7. RepliesWhole'
    <2>1. \A j \in Jobs \ {k} : SameJob(j)
      BY <1>2
    <2>2. good'[k] = {} /\ (at'[k] \in Waiting => bad'[k] = {})
      BY <1>2 DEF Waiting
    <2>3. \A r \in Replies : done'[r] = {}
      BY <1>4 DEF IndInv, RepliesWhole, Items
    <2> QED BY <2>1, <2>2, <2>3 DEF IndInv, RepliesWhole, SameJob
  <1>8. DaemonOnce'
    <2>1. \A j \in Items \ {i} : SameJob(<<Daemon, j>>)
      BY <1>0, <1>2
    <2>2. /\ i \in entry' => at'[k] \notin Waiting \cup {"idle"}
          /\ acked'[i] = {}
      BY <1>2, <1>3 DEF Waiting
    <2> QED BY <1>1, <1>2, <1>4, <2>1, <2>2 DEF IndInv, DaemonOnce, SameJob, k
  <1>9. SurvivorsKnown' /\ (~StoreFails => lost' \subseteq survivors')
    <2>1. \A j \in Items \ {i} : at'[<<Daemon, j>>] = at[<<Daemon, j>>]
      BY <1>0, <1>2 DEF SameJob
    <2>2. i \in Alerts => stage \in {"up", "handlers"} /\ ~StoreClosed
      BY <1>1 DEF Accepts, StoreClosed
    <2>3. \A a \in Alerts : at'[<<Daemon, a>>] \in Waiting =>
             at[<<Daemon, a>>] \in Waiting \/ stage \in {"up", "handlers"}
      BY <2>1, <2>2 DEF Items
    <2>4. UNCHANGED lost \/ \E D \in SUBSET Kinds : Written(i, D)
      BY <1>2
    <2> QED BY <1>1, <1>2, <2>2, <2>3, <2>4, LossKnown
  <1>10. TableTrue'
    BY <1>1, <1>2, <1>4 DEF IndInv, TableTrue, Landed
  <1>11. NothingUnrecorded'
    <2>1. ASSUME NEW j \in Items, at'[<<Daemon, j>>] \in Over(j)'
          PROVE  (\/ Landed(j) \/ j \in entry \cup lost \cup unknown
                  \/ StoreFails /\ j \in Replies)'
      <3>1. CASE j # i
        <4>1. at[<<Daemon, j>>] \in Over(j)
          BY <1>0, <1>1, <1>2, <2>1, <3>1 DEF SameJob, Over, StoreClosed
        <4> QED BY <1>2, <1>4, <4>1 DEF IndInv, NothingUnrecorded, Landed
      <3>2. CASE j = i
        <4>1. at'[k] = "ended" /\ ~StoreClosed
          BY <1>1, <1>2, <2>1, <3>2 DEF Over, StoreClosed, Accepts, k, Waiting
        <4>2. Written(i, {}) \/ i \in unknown'
          BY <1>2, <4>1
        <4> QED BY <3>2, <4>1, <4>2 DEF Written, Items
      <3> QED BY <3>1, <3>2
    <2> QED BY <1>9, <2>1 DEF NothingUnrecorded
  <1>12. EntryTruthful'
    <2>1. \A j \in Items \ {i} : good'[<<Daemon, j>>] = good[<<Daemon, j>>]
      BY <1>0, <1>2 DEF SameJob
    <2>2. good'[<<Daemon, i>>] = {}
      BY <1>2 DEF k
    <2>3. entry' \subseteq Items
      BY <1>5 DEF TypeOK
    <2>4. ASSUME NEW j \in entry'
          PROVE  good'[<<Daemon, j>>] \subseteq done'[j]
      <3>1. CASE j = i
        BY <2>2, <3>1
      <3>2. CASE j # i
        BY <1>4, <2>1, <2>3, <3>2 DEF IndInv, EntryTruthful
      <3> QED BY <3>1, <3>2
    <2> QED BY <1>10, <2>3, <2>4 DEF EntryTruthful, TableTrue
  <1>13. NoResend'
    <2>1. acked'[k[2]] = {}
      BY <1>0, <1>2, <1>3
    <2> QED BY <1>1, <1>2, <2>1 DEF IndInv, NoResend, SameJob
  <1> QED BY <1>5, <1>6, <1>7, <1>8, <1>9, <1>10, <1>11, <1>12, <1>13 DEF IndInv

\* A redrive begins the job of its command with the channels that have landed.
LEMMA RedriveKeeps ==
    ASSUME IndInv, NEW p \in Clis, NEW i \in Items, Redrive(p, i)
    PROVE  IndInv'
  <1> DEFINE k == <<p, i>>
  <1>0. /\ k \in Jobs /\ k[1] # Daemon /\ k[2] = i
        /\ \A j \in Items : <<Daemon, j>> \in Jobs \ {k}
    BY DeliveryConstants DEF Jobs, Procs
  <1> HIDE DEF k
  <1>1. /\ i \in entry /\ Start(k, done[i])
        /\ redrives' = redrives + 1 /\ UNCHANGED <<stage, mark, redrove>>
    BY DEF Redrive, k
  <1>2. /\ \A j \in Jobs \ {k} : SameJob(j)
        /\ UNCHANGED <<acked, survivors, entry, done, lost>> /\ unknown \subseteq unknown'
        /\ good'[k] = {} /\ skip'[k] = done[i]
        /\ \/ /\ at'[k] \in {"preparing", "posting"} /\ cur'[k] \in todo'[k]
              /\ todo'[k] = ChannelsOf[i] \ done[i] /\ bad'[k] = {}
           \/ ChannelsOf[i] \subseteq bad'[k] \cup done[i] /\ at'[k] = "marking"
    <2>1. TypeOK /\ done[i] \in SUBSET Kinds
      BY DEF IndInv, TypeOK
    <2>2. i \notin Alerts => done[i] = {}
      BY DEF IndInv, RepliesWhole, Items
    <2>3. skip'[k] = done[i]
      BY <1>0, <1>1, <2>1, <2>2, StartEffect
    <2>4. /\ \A j \in Jobs \ {k} : SameJob(j)
          /\ UNCHANGED <<acked, survivors>> /\ unknown \subseteq unknown' /\ good'[k] = {}
      BY <1>0, <1>1, <2>1, StartEffect
    <2>5. \/ /\ at'[k] \in {"preparing", "posting"} /\ cur'[k] \in todo'[k]
             /\ todo'[k] = ChannelsOf[i] \ skip'[k] /\ bad'[k] = {}
             /\ UNCHANGED <<entry, done, lost>>
          \/ /\ ChannelsOf[i] \subseteq bad'[k] \cup skip'[k] /\ at'[k] = "marking"
             /\ UNCHANGED <<entry, done, lost>>
      BY <1>0, <1>1, <2>1, StartEffect
    <2> QED BY <2>3, <2>4, <2>5
  <1>3. done[i] \subseteq acked[i]
    BY DEF IndInv, TableTrue
  <1>4. \A j \in Items : SameJob(<<Daemon, j>>)
    BY <1>0, <1>2
  <1>5. TypeOK'
    <2>1. TypeOK /\ done[i] \in SUBSET Kinds
      BY DEF IndInv, TypeOK
    <2>2. redrives' \in Nat /\ redrove' \subseteq Items /\ stage' \in Stages
          /\ mark' \in [Items -> {"none", "ok", "failed"}]
          /\ acked' \in [Items -> SUBSET Kinds]
      BY <1>1, <1>2, <2>1 DEF TypeOK
    <2> QED BY <1>0, <1>1, <2>1, <2>2, StartTypes DEF TypeOK
  <1>6. JobsFit'
    <2>1. \A j \in Jobs \ {k} : SameJob(j)
      BY <1>2
    <2>2. /\ at'[k] \in Waiting =>
               /\ cur'[k] \in todo'[k] /\ todo'[k] \subseteq ChannelsOf[k[2]]
               /\ ChannelsOf[k[2]] \subseteq good'[k] \cup bad'[k] \cup skip'[k] \cup todo'[k]
          /\ at'[k] = "marking" =>
               k[1] # Daemon /\ ChannelsOf[k[2]] \subseteq good'[k] \cup bad'[k] \cup skip'[k]
          /\ good'[k] \subseteq acked'[k[2]] /\ skip'[k] \subseteq acked'[k[2]]
      BY <1>0, <1>2, <1>3 DEF Waiting
    <2> QED BY <1>0, <1>1, <1>2, <2>1, <2>2 DEF IndInv, JobsFit, SameJob
  <1>7. RepliesWhole'
    <2>1. at'[k] \in Waiting => good'[k] = {} /\ bad'[k] = {}
      BY <1>2 DEF Waiting
    <2> QED BY <1>2, <2>1 DEF IndInv, RepliesWhole, SameJob
  <1>8. DaemonOnce' /\ SurvivorsKnown' /\ TableTrue'
    BY <1>1, <1>2, <1>4 DEF IndInv, DaemonOnce, SurvivorsKnown, TableTrue, SameJob, Landed, Items
  <1>9. NothingUnrecorded' /\ EntryTruthful'
    BY <1>1, <1>2, <1>4
    DEF IndInv, NothingUnrecorded, EntryTruthful, SameJob, Landed, Over, StoreClosed, Items, TypeOK
  <1>10. NoResend'
    <2>1. i \notin redrove => acked[i] \subseteq done[i]
      BY <1>1 DEF IndInv, DaemonOnce, EntryTruthful
    <2>2. at'[k] \in Waiting => todo'[k] \cap done[i] = {}
      BY <1>2 DEF Waiting
    <2>3. at'[k] \in Waiting /\ k[2] \notin redrove' => todo'[k] \cap acked'[k[2]] = {}
      BY <1>0, <1>1, <1>2, <2>1, <2>2
    <2> QED BY <1>1, <1>2, <2>3 DEF IndInv, NoResend, SameJob
  <1> QED BY <1>5, <1>6, <1>7, <1>8, <1>9, <1>10 DEF IndInv

\* A channel is through.
LEMMA ChannelEndsKeeps ==
    ASSUME IndInv, NEW k \in Jobs, at[k] \in Waiting,
           \E ok \in BOOLEAN : ChannelEnds(k, ok)
    PROVE  IndInv'
  <1> DEFINE i == k[2]
  <1>0. /\ i \in Items /\ k[1] \in Procs /\ k = <<k[1], i>>
        /\ \A j \in Items : <<Daemon, j>> \in Jobs
        /\ \A j \in Items : <<Daemon, j>> = k => j = i
        /\ \A j \in Jobs : j[2] \in Items
    <2>1. i \in Items /\ k[1] \in Procs /\ k = <<k[1], i>>
      BY JobIsPair
    <2>2. \A j \in Items : <<Daemon, j>> = k => j = i
      BY <2>1
    <2> QED BY <2>1, <2>2 DEF Jobs, Procs
  <1>1. /\ cur[k] \in todo[k] /\ todo[k] \subseteq ChannelsOf[i]
        /\ ChannelsOf[i] \subseteq good[k] \cup bad[k] \cup skip[k] \cup todo[k]
        /\ good[k] \subseteq acked[i] /\ skip[k] \subseteq acked[i]
        /\ k[1] = Daemon => skip[k] = {}
        /\ k[1] # Daemon => i \in entry
    BY DEF IndInv, JobsFit, Waiting
  <1>2. PICK took \in {{}, {cur[k]}} :
           /\ \A j \in Jobs \ {k} : SameJob(j)
           /\ UNCHANGED <<stage, mark, unknown, survivors, redrives>>
           /\ skip'[k] = skip[k]
           /\ \A j \in Items \ {i} : acked'[j] = acked[j]
           /\ acked'[i] = acked[i] \cup took
           /\ good'[k] = good[k] \cup took
           /\ bad'[k] = bad[k] \cup ({cur[k]} \ took)
           /\ redrove \subseteq redrove' /\ redrove' \subseteq Items
           /\ took # {} /\ k[1] # Daemon => i \in redrove'
           /\ \/ /\ at'[k] = "preparing" /\ cur'[k] \in todo'[k]
                 /\ todo'[k] = todo[k] \ {cur[k]}
                 /\ UNCHANGED <<entry, done, lost>>
              \/ /\ todo[k] \subseteq {cur[k]}
                 /\ k[1] # Daemon => at'[k] = "marking" /\ UNCHANGED <<entry, done, lost>>
                 /\ k[1] = Daemon =>
                      /\ at'[k] = "ended"
                      /\ \/ bad'[k] # {} /\ Written(i, good'[k] \cup skip[k])
                         \/ bad'[k] = {} /\ UNCHANGED <<entry, done, lost>>
    BY <1>1, ChannelEndsEffect DEF IndInv
  <1>3. \/ /\ at'[k] = "preparing" /\ cur'[k] \in todo'[k] /\ todo'[k] = todo[k] \ {cur[k]}
           /\ UNCHANGED <<entry, done, lost>>
        \/ /\ todo[k] \subseteq {cur[k]}
           /\ k[1] # Daemon => at'[k] = "marking" /\ UNCHANGED <<entry, done, lost>>
           /\ k[1] = Daemon =>
                /\ at'[k] = "ended"
                /\ \/ bad'[k] # {} /\ Written(i, good'[k])
                   \/ bad'[k] = {} /\ UNCHANGED <<entry, done, lost>>
    <2>1. k[1] = Daemon => good'[k] \cup skip[k] = good'[k]
      BY <1>1
    <2> QED BY <1>2, <2>1
  <1>4. k[1] = Daemon => k = <<Daemon, i>> /\ i \notin entry
    BY <1>0 DEF IndInv, DaemonOnce
  <1>6. TypeOK'
    <2>1. PICK ok \in BOOLEAN : ChannelEnds(k, ok)
      OBVIOUS
    <2>5. cur[k] \in Kinds
      BY <1>1 DEF IndInv, TypeOK
    <2>2. /\ good' \in [Jobs -> SUBSET Kinds] /\ bad' \in [Jobs -> SUBSET Kinds]
          /\ acked' \in [Items -> SUBSET Kinds]
      <3>1. /\ good' = [good EXCEPT ![k] = IF ok THEN good[k] \cup {cur[k]} ELSE good[k]]
            /\ bad' = [bad EXCEPT ![k] = IF ok THEN bad[k] ELSE bad[k] \cup {cur[k]}]
            /\ acked' = [acked EXCEPT ![i] = IF ok THEN @ \cup {cur[k]} ELSE @]
        BY <2>1 DEF ChannelEnds
      <3> QED BY <2>5, <3>1 DEF IndInv, TypeOK
    <2>3. CASE todo[k] \ {cur[k]} # {}
      <3>1. /\ NextChannel(k, todo[k] \ {cur[k]}) /\ at' = [at EXCEPT ![k] = "preparing"]
            /\ UNCHANGED <<entry, done, lost, stage, skip, mark>>
        BY <2>1, <2>3 DEF ChannelEnds
      <3>2. TypeOK /\ todo[k] \ {cur[k]} \in SUBSET Kinds
        BY DEF IndInv, TypeOK
      <3>3. at' \in [Jobs -> Places]
        BY <3>1, <3>2 DEF TypeOK, Places, Waiting
      <3> QED BY <1>2, <2>2, <3>1, <3>2, <3>3, NextChannelTypes DEF TypeOK
    <2>4. CASE todo[k] \ {cur[k]} = {}
      <3> DEFINE D == (IF ok THEN good[k] \cup {cur[k]} ELSE good[k]) \cup skip[k]
                 b == IF ok THEN bad[k] ELSE bad[k] \cup {cur[k]}
      <3>1. /\ Ends(k, b = {}, D)
            /\ todo' = [todo EXCEPT ![k] = {}] /\ cur' = [cur EXCEPT ![k] = None]
            /\ tries' = [tries EXCEPT ![k] = 0] /\ UNCHANGED <<stage, skip, mark>>
        BY <2>1, <2>4 DEF ChannelEnds
      <3>3. TypeOK /\ D \in SUBSET Kinds /\ (b = {}) \in BOOLEAN
        BY <2>5 DEF IndInv, TypeOK
      <3> HIDE DEF D, b
      <3>4. /\ at' \in [Jobs -> Places]
            /\ entry' \subseteq Items /\ done' \in [Items -> SUBSET Kinds]
            /\ lost' \subseteq Alerts
        BY <3>1, <3>3, EndsTypes
      <3>5. /\ todo' \in [Jobs -> SUBSET Kinds] /\ cur' \in [Jobs -> Kinds \cup {None}]
            /\ tries' \in [Jobs -> 0..(MaxTries - 1)]
        BY <3>1, <3>3, DeliveryConstants DEF TypeOK
      <3> QED BY <1>2, <2>2, <3>1, <3>3, <3>4, <3>5 DEF TypeOK
    <2> QED BY <2>3, <2>4
  <1>7. /\ entry \subseteq entry' /\ lost \subseteq lost' /\ redrove \subseteq redrove'
        /\ \A j \in Items : acked[j] \subseteq acked'[j]
        /\ \A j \in Items \ {i} : done'[j] = done[j] /\ (j \in entry' <=> j \in entry)
        /\ done'[i] = done[i] \/ done'[i] = good'[k]
    BY <1>0, <1>2, <1>3 DEF Written, IndInv, TypeOK
  <1> HIDE DEF i
  <1>9. JobsFit'
    <2>1. ASSUME NEW j \in Jobs \ {k}
          PROVE  SameJob(j) /\ acked[j[2]] \subseteq acked'[j[2]]
      BY <1>0, <1>2, <1>7
    <2>2. /\ good'[k] \subseteq acked'[i] /\ skip'[k] \subseteq acked'[i]
          /\ k[1] = Daemon => skip'[k] = {}
          /\ k[1] # Daemon => i \in entry'
      BY <1>1, <1>2, <1>7
    <2>3. ChannelsOf[i] \subseteq good'[k] \cup bad'[k] \cup skip'[k] \cup (todo[k] \ {cur[k]})
      BY <1>1, <1>2
    <2>4. at'[k] \in Waiting =>
             /\ cur'[k] \in todo'[k] /\ todo'[k] \subseteq ChannelsOf[i]
             /\ ChannelsOf[i] \subseteq good'[k] \cup bad'[k] \cup skip'[k] \cup todo'[k]
      BY <1>1, <1>3, <2>3 DEF Waiting
    <2>5. at'[k] = "marking" =>
             k[1] # Daemon /\ ChannelsOf[i] \subseteq good'[k] \cup bad'[k] \cup skip'[k]
      BY <1>3, <2>3
    <2>6. ASSUME NEW j \in Jobs \ {k}
          PROVE  /\ at'[j] \in Waiting =>
                      /\ cur'[j] \in todo'[j] /\ todo'[j] \subseteq ChannelsOf[j[2]]
                      /\ ChannelsOf[j[2]] \subseteq good'[j] \cup bad'[j] \cup skip'[j] \cup todo'[j]
                 /\ at'[j] = "marking" =>
                      j[1] # Daemon /\ ChannelsOf[j[2]] \subseteq good'[j] \cup bad'[j] \cup skip'[j]
                 /\ good'[j] \subseteq acked'[j[2]] /\ skip'[j] \subseteq acked'[j[2]]
                 /\ j[1] = Daemon => skip'[j] = {}
                 /\ j[1] # Daemon /\ at'[j] # "idle" => j[2] \in entry'
      <3>1. SameJob(j) /\ acked[j[2]] \subseteq acked'[j[2]] /\ entry \subseteq entry'
        BY <1>7, <2>1
      <3> QED BY <3>1 DEF IndInv, JobsFit, SameJob
    <2> QED BY <2>2, <2>4, <2>5, <2>6 DEF JobsFit, i
  <1>10. RepliesWhole'
    <2>1. i \in Replies => todo[k] = {cur[k]} /\ good[k] = {} /\ bad[k] = {}
      <3>1. i \in Replies => ChannelsOf[i] = {"callback"}
        BY DeliveryConstants
      <3> QED BY <1>1, <3>1 DEF IndInv, RepliesWhole, i
    <2>2. i \in Replies => at'[k] \notin Waiting
      BY <1>3, <2>1 DEF Waiting
    <2>3. i \in Replies => done'[i] = {}
      <3>1. SUFFICES ASSUME i \in Replies, done'[i] # {}
                     PROVE  FALSE
        OBVIOUS
      <3>2. done[i] = {}
        BY <3>1 DEF IndInv, RepliesWhole
      <3>3. k[1] = Daemon /\ ~(bad'[k] = {})
        <4>1. done'[i] # done[i]
          BY <3>1, <3>2
        <4> QED BY <1>3, <4>1 DEF Written
      <3>4. good'[k] = {}
        BY <1>2, <2>1, <3>1, <3>3
      <3> QED BY <1>7, <3>1, <3>2, <3>4
    <2> QED BY <1>0, <1>2, <1>7, <2>2, <2>3 DEF IndInv, RepliesWhole, SameJob, Items, i
  <1>11. DaemonOnce'
    <2>1. \A j \in Items \ {i} : SameJob(<<Daemon, j>>)
      BY <1>0, <1>2
    <2>2. i \in entry' => at'[<<Daemon, i>>] \notin Waiting \cup {"idle"}
      <3>1. CASE k[1] = Daemon
        BY <1>3, <1>4, <3>1 DEF Waiting
      <3>2. CASE k[1] # Daemon
        <4>1. SameJob(<<Daemon, i>>) /\ UNCHANGED entry
          BY <1>0, <1>2, <1>3, <3>2
        <4> QED BY <1>0, <4>1 DEF IndInv, DaemonOnce, SameJob
      <3> QED BY <3>1, <3>2
    <2>3. at'[<<Daemon, i>>] # "idle"
      <3>1. CASE k[1] = Daemon
        BY <1>3, <1>4, <3>1
      <3>2. CASE k[1] # Daemon
        <4>1. SameJob(<<Daemon, i>>) /\ i \in entry
          BY <1>0, <1>1, <1>2, <3>2
        <4> QED BY <1>0, <4>1 DEF IndInv, DaemonOnce, SameJob
      <3> QED BY <3>1, <3>2
    <2>4. i \notin redrove' => acked'[i] \subseteq good'[<<Daemon, i>>]
      <3>1. i \notin redrove' => acked[i] \subseteq good[<<Daemon, i>>]
        BY <1>0, <1>7 DEF IndInv, DaemonOnce
      <3>2. CASE k[1] = Daemon
        BY <1>2, <1>4, <3>1, <3>2
      <3>3. CASE k[1] # Daemon
        <4>1. SameJob(<<Daemon, i>>) /\ (i \notin redrove' => took = {})
          BY <1>0, <1>2, <3>3
        <4> QED BY <1>2, <3>1, <4>1 DEF SameJob
      <3> QED BY <3>2, <3>3
    <2>5. ASSUME NEW j \in Items \ {i}
          PROVE  /\ j \in entry' => at'[<<Daemon, j>>] \notin Waiting \cup {"idle"}
                 /\ at'[<<Daemon, j>>] = "idle" => acked'[j] = {}
                 /\ j \notin redrove' => acked'[j] \subseteq good'[<<Daemon, j>>]
      BY <1>2, <1>7, <2>1 DEF IndInv, DaemonOnce, SameJob
    <2> QED BY <2>2, <2>3, <2>4, <2>5 DEF DaemonOnce
  <1>12. SurvivorsKnown' /\ (~StoreFails => lost' \subseteq survivors')
    <2>1. \A a \in Alerts : at'[<<Daemon, a>>] \in Waiting => at[<<Daemon, a>>] \in Waiting
      BY <1>0, <1>2 DEF SameJob, Items
    <2>2. UNCHANGED lost \/ (k[1] = Daemon /\ Written(i, good'[k]))
      BY <1>3
    <2>3. good'[k] \in SUBSET Kinds
      BY <1>6 DEF TypeOK
    <2>4. CASE UNCHANGED lost
      BY <1>2, <2>1, <2>4 DEF IndInv, SurvivorsKnown, NothingUnrecorded
    <2>5. CASE k[1] = Daemon /\ Written(i, good'[k])
      <3>1. at[<<Daemon, i>>] \in Waiting
        BY <1>4, <2>5
      <3> QED BY <1>0, <1>2, <2>1, <2>3, <2>5, <3>1, LossKnown
    <2> QED BY <2>2, <2>4, <2>5
  <1>13. TableTrue'
    <2>1. done'[i] \subseteq acked'[i]
      <3>1. good'[k] \subseteq acked'[i]
        BY <1>1, <1>2
      <3> QED BY <1>0, <1>7, <3>1 DEF IndInv, TableTrue
    <2> QED BY <1>2, <1>7, <2>1 DEF IndInv, TableTrue, Landed
  <1>14. NothingUnrecorded'
    <2>1. ASSUME NEW j \in Items, at'[<<Daemon, j>>] \in Over(j)'
          PROVE  (\/ Landed(j) \/ j \in entry \cup lost \cup unknown
                  \/ StoreFails /\ j \in Replies)'
      <3>1. CASE <<Daemon, j>> # k
        <4>1. at[<<Daemon, j>>] \in Over(j)
          BY <1>0, <1>2, <2>1, <3>1 DEF SameJob, Over, StoreClosed
        <4>2. /\ UNCHANGED unknown /\ lost \subseteq lost'
              /\ j \in entry => j \in entry'
              /\ acked[j] \subseteq acked'[j]
          BY <1>2, <1>7
        <4> QED BY <4>1, <4>2 DEF IndInv, NothingUnrecorded, Landed
      <3>2. CASE <<Daemon, j>> = k
        <4>1. j = i /\ k[1] = Daemon
          BY <1>0, <3>2
        <4>2. /\ at'[k] = "ended"
              /\ j \in Replies => ~StoreClosed
          <5>1. at'[k] = "ended"
            BY <1>3, <2>1, <3>2, <4>1 DEF Over
          <5>2. j \in Replies => ~StoreClosed
            BY <1>2, <2>1, <5>1, DeliveryConstants DEF Over, StoreClosed
          <5> QED BY <5>1, <5>2
        <4>3. CASE Written(i, good'[k])
          BY <4>1, <4>2, <4>3 DEF Written, Items
        <4>4. CASE bad'[k] = {} /\ todo[k] \subseteq {cur[k]}
          <5>1. ChannelsOf[i] \subseteq acked'[i] /\ ChannelsOf[i] # {}
            BY <1>1, <1>2, <4>4
          <5> QED BY <4>1, <5>1 DEF Landed
        <4> QED BY <1>3, <4>1, <4>2, <4>3, <4>4
      <3> QED BY <3>1, <3>2
    <2> QED BY <1>12, <2>1 DEF NothingUnrecorded
  <1>15. EntryTruthful'
    <2>1. entry' \subseteq Items
      BY <1>6 DEF TypeOK
    <2>2. ASSUME NEW j \in entry'
          PROVE  good'[<<Daemon, j>>] \subseteq done'[j]
      <3>1. CASE <<Daemon, j>> # k
        <4>1. SameJob(<<Daemon, j>>)
          BY <1>0, <1>2, <2>1, <3>1
        <4>2. j \in entry /\ done'[j] = done[j]
          <5>1. CASE j = i
            BY <1>0, <1>1, <1>3, <3>1, <5>1
          <5>2. CASE j # i
            BY <1>7, <2>1, <5>2
          <5> QED BY <5>1, <5>2
        <4> QED BY <4>1, <4>2 DEF IndInv, EntryTruthful, SameJob
      <3>2. CASE <<Daemon, j>> = k
        <4>1. j = i /\ k[1] = Daemon /\ i \notin entry
          BY <1>0, <1>4, <2>1, <3>2
        <4>2. Written(i, good'[k]) /\ i \in entry'
          BY <1>3, <4>1
        <4>3. done'[i] = good'[k]
          BY <4>1, <4>2 DEF Written
        <4> QED BY <3>2, <4>1, <4>3
      <3> QED BY <3>1, <3>2
    <2> QED BY <1>13, <2>1, <2>2 DEF EntryTruthful, TableTrue
  <1>16. NoResend'
    <2>1. ASSUME NEW j \in Jobs, at'[j] \in Waiting, j[2] \notin redrove'
          PROVE  todo'[j] \cap acked'[j[2]] = {}
      <3>1. at[j] \in Waiting /\ j[2] \notin redrove /\ todo[j] \cap acked[j[2]] = {}
        BY <1>2, <1>7, <2>1 DEF IndInv, NoResend, SameJob
      <3>2. CASE j = k
        <4>1. todo'[k] = todo[k] \ {cur[k]}
          BY <1>3, <2>1, <3>2 DEF Waiting
        <4>2. todo[k] \cap acked[i] = {}
          BY <3>1, <3>2 DEF i
        <4>3. acked'[i] \subseteq acked[i] \cup {cur[k]}
          BY <1>2
        <4> QED BY <3>2, <4>1, <4>2, <4>3 DEF i
      <3>3. CASE j # k
        <4>1. UNCHANGED todo[j]
          BY <1>2, <3>3 DEF SameJob
        <4>2. CASE j[2] # i
          BY <1>0, <1>2, <3>1, <4>1, <4>2
        <4>3. CASE j[2] = i
          <5>1. took = {}
            <6>1. CASE k[1] # Daemon
              BY <1>2, <2>1, <4>3, <6>1
            <6>2. CASE k[1] = Daemon
              <7>1. j[1] # Daemon
                BY <1>0, <3>3, <4>3, <6>2, JobIsPair
              <7>2. i \in entry
                BY <3>1, <4>3, <7>1 DEF IndInv, JobsFit, Waiting
              <7> QED BY <1>4, <6>2, <7>2
            <6> QED BY <6>1, <6>2
          <5> QED BY <1>2, <3>1, <4>1, <4>3, <5>1
        <4> QED BY <4>2, <4>3
      <3> QED BY <3>2, <3>3
    <2> QED BY <2>1 DEF NoResend
  <1> QED BY <1>6, <1>9, <1>10, <1>11, <1>12, <1>13, <1>14, <1>15, <1>16 DEF IndInv

\* A job goes from one wait to the next, and a redrive is over: the rest of the
\* job is as it was, or gone.
LEMMA JobStepKeeps ==
    ASSUME IndInv, NEW k \in Jobs, JobStep(k)
    PROVE  IndInv'
  <1>0. TypeOK
    BY DEF IndInv
  <1>1. at[k] \in Waiting
    BY <1>0, JobStepEffect
  <1>2. CASE \E ok \in BOOLEAN : ChannelEnds(k, ok)
    BY <1>1, <1>2, ChannelEndsKeeps
  <1>3. CASE (\E p \in Waiting : Moves(k, p)) /\ tries' \in [Jobs -> 0..(MaxTries - 1)]
    <2>1. PICK p \in Waiting : Moves(k, p)
      BY <1>3
    <2>2. /\ at' = [at EXCEPT ![k] = p]
          /\ UNCHANGED <<stage, todo, cur, good, bad, skip, entry, done, mark, lost, unknown,
                         survivors, acked, redrove, redrives>>
      BY <2>1 DEF Moves, table, health
    <2>3. /\ at' \in [Jobs -> Places]
          /\ \A j \in Jobs : at'[j] = at[j] \/ (at[j] \in Waiting /\ at'[j] \in Waiting)
      BY <1>0, <1>1, <2>2 DEF TypeOK, Places
    <2>4. \A j \in Items : <<Daemon, j>> \in Jobs
      BY DEF Jobs, Procs
    <2>5. "idle" \notin Waiting /\ "marking" \notin Waiting /\ "ended" \notin Waiting
          /\ "cancelled" \notin Waiting
      BY DEF Waiting
    <2>6. TypeOK'
      BY <1>3, <2>2, <2>3 DEF IndInv, TypeOK
    <2>7. JobsFit'
      BY <2>2, <2>3, <2>5 DEF IndInv, JobsFit
    <2>8. RepliesWhole' /\ NoResend'
      BY <2>2, <2>3 DEF IndInv, RepliesWhole, NoResend
    <2>9. DaemonOnce'
      BY <2>2, <2>3, <2>4, <2>5 DEF IndInv, DaemonOnce
    <2>10. SurvivorsKnown' /\ TableTrue' /\ EntryTruthful'
      BY <2>2, <2>3, <2>4
      DEF IndInv, SurvivorsKnown, TableTrue, EntryTruthful, Landed, Items
    <2>11. NothingUnrecorded'
      <3>1. \A j \in Items : at'[<<Daemon, j>>] \in Over(j) => at[<<Daemon, j>>] \in Over(j)
        BY <2>3, <2>4, <2>5 DEF Over
      <3>2. \A j \in Items : Over(j)' = Over(j)
        BY <2>2 DEF Over, StoreClosed
      <3>3. \A a \in Alerts : at'[<<Daemon, a>>] \in Waiting => at[<<Daemon, a>>] \in Waiting
        BY <2>3, <2>4 DEF Items
      <3> QED BY <2>2, <3>1, <3>2, <3>3 DEF IndInv, NothingUnrecorded, Landed, StoreClosed
    <2> QED BY <2>6, <2>7, <2>8, <2>9, <2>10, <2>11 DEF IndInv
  <1> QED BY <1>0, <1>2, <1>3, JobStepEffect

\* A command marks its entry and is over, or is killed and records nothing.
LEMMA CommandKeeps ==
    ASSUME IndInv, NEW k \in Jobs, MarkRedriven(k) \/ CliKilled(k)
    PROVE  IndInv'
  <1>0. /\ TypeOK /\ k[2] \in Items
        /\ \A j \in Items : <<Daemon, j>> \in Jobs
        /\ "idle" \notin Waiting /\ "idle" # "marking"
    BY JobIsPair DEF IndInv, Jobs, Procs, Waiting
  <1>1. k[1] # Daemon
    BY DEF MarkRedriven, CliKilled, IndInv, JobsFit
  <1>2. CommandEnds(k)
    BY DEF MarkRedriven, CliKilled
  <1>3. /\ at' = [at EXCEPT ![k] = "idle"] /\ todo' = [todo EXCEPT ![k] = {}]
        /\ cur' = [cur EXCEPT ![k] = None] /\ tries' = [tries EXCEPT ![k] = 0]
        /\ good' = [good EXCEPT ![k] = {}] /\ bad' = [bad EXCEPT ![k] = {}]
        /\ skip' = [skip EXCEPT ![k] = {}]
        /\ UNCHANGED <<stage, entry, done, lost, unknown, survivors, acked, redrove, redrives>>
    BY <1>2 DEF CommandEnds, health
  <1>4. /\ \A j \in Jobs \ {k} : SameJob(j)
        /\ at'[k] = "idle" /\ good'[k] = {} /\ bad'[k] = {} /\ skip'[k] = {}
    BY <1>0, <1>3 DEF SameJob, TypeOK
  <1>5. \A j \in Items : SameJob(<<Daemon, j>>)
    BY <1>0, <1>1, <1>4
  <1>6. /\ mark' \in [Items -> {"none", "ok", "failed"}]
        /\ \A j \in Items : mark'[j] = "ok" => mark[j] = "ok" \/ Landed(j)
    <2>1. CASE MarkRedriven(k)
      <3>1. mark' = [mark EXCEPT ![k[2]] = IF RedriveOk(k) THEN "ok" ELSE "failed"]
        BY <2>1 DEF MarkRedriven
      <3>2. RedriveOk(k) => Landed(k[2])
        <4>1. /\ ChannelsOf[k[2]] \subseteq good[k] \cup bad[k] \cup skip[k]
              /\ good[k] \subseteq acked[k[2]] /\ skip[k] \subseteq acked[k[2]]
          BY <2>1 DEF MarkRedriven, IndInv, JobsFit
        <4> QED BY <4>1 DEF RedriveOk, Landed
      <3> QED BY <1>0, <3>1, <3>2 DEF TypeOK
    <2>2. CASE CliKilled(k)
      BY <1>0, <2>2 DEF CliKilled, TypeOK
    <2> QED BY <2>1, <2>2
  <1>7. TypeOK'
    BY <1>0, <1>3, <1>6, DeliveryConstants DEF TypeOK, Places
  <1>8. JobsFit'
    BY <1>0, <1>1, <1>3, <1>4 DEF IndInv, JobsFit, SameJob
  <1>9. RepliesWhole' /\ NoResend'
    BY <1>0, <1>3, <1>4 DEF IndInv, RepliesWhole, NoResend, SameJob
  <1>10. DaemonOnce' /\ SurvivorsKnown'
    BY <1>3, <1>5 DEF IndInv, DaemonOnce, SurvivorsKnown, SameJob, Items
  <1>11. TableTrue'
    BY <1>3, <1>6 DEF IndInv, TableTrue, Landed
  <1>12. NothingUnrecorded'
    BY <1>3, <1>5 DEF IndInv, NothingUnrecorded, Landed, Over, StoreClosed, SameJob, Items
  <1>13. EntryTruthful'
    BY <1>0, <1>3, <1>5, <1>11 DEF IndInv, EntryTruthful, TableTrue, SameJob, TypeOK
  <1> QED BY <1>7, <1>8, <1>9, <1>10, <1>11, <1>12, <1>13 DEF IndInv

\* A stage of the shutdown is over.
LEMMA StageKeeps ==
    ASSUME IndInv, StopAccepting \/ HandlersFinish \/ DrainEnds \/ Forced \/ StoreCloses
    PROVE  IndInv'
  <1>1. UNCHANGED <<at, todo, cur, tries, good, bad, skip, entry, done, mark, lost, unknown,
                    acked, redrove, redrives>>
    BY DEF StopAccepting, HandlersFinish, DrainEnds, Forced, StoreCloses, Enter, job, table,
           health
  <1>2. /\ stage' \in Stages \ {"up", "exited"} /\ stage # "exited"
        /\ StoreClosed => StoreClosed'
    BY DEF StopAccepting, HandlersFinish, DrainEnds, Forced, StoreCloses, Enter, Stages,
           StoreClosed
  <1>3. \/ /\ stage \in {"up", "handlers", "drain", "force"}
           /\ stage' \in {"handlers", "drain", "force"} /\ UNCHANGED survivors
        \/ /\ stage = "force" /\ stage' = "outbox"
           /\ survivors' = {a \in Alerts : at[<<Daemon, a>>] \in Waiting}
        \/ stage = "outbox" /\ stage' = "closed" /\ UNCHANGED survivors
    BY DEF StopAccepting, HandlersFinish, DrainEnds, Forced, StoreCloses, Enter
  <1>4. TypeOK' /\ JobsFit' /\ RepliesWhole' /\ DaemonOnce' /\ TableTrue' /\ EntryTruthful'
        /\ NoResend'
    BY <1>1, <1>2, <1>3 DEF IndInv, TypeOK, JobsFit, RepliesWhole, DaemonOnce, TableTrue,
                      EntryTruthful, NoResend, Landed
  <1>5. SurvivorsKnown'
    BY <1>1, <1>3 DEF IndInv, SurvivorsKnown
  <1>6. NothingUnrecorded'
    <2>1. \A i \in Items : Over(i)' \subseteq Over(i)
      BY <1>2 DEF Over
    <2>2. ~StoreFails => lost' \subseteq survivors'
      BY <1>1, <1>3 DEF IndInv, NothingUnrecorded, SurvivorsKnown
    <2> QED BY <1>1, <2>1, <2>2 DEF IndInv, NothingUnrecorded, Landed
  <1> QED BY <1>4, <1>5, <1>6 DEF IndInv

\* A cancelled delivery writes what it knows, or outlived the wait for it and is
\* counted.
LEMMA CancelKeeps ==
    ASSUME IndInv, NEW a \in Alerts, CancelDelivery(a)
    PROVE  IndInv'
  <1> DEFINE k == <<Daemon, a>>
  <1>0. /\ TypeOK /\ a \in Items /\ k \in Jobs /\ k[1] = Daemon /\ k[2] = a
        /\ \A j \in Items : <<Daemon, j>> \in Jobs
        /\ \A j \in Items \ {a} : <<Daemon, j>> # k
        /\ a \notin Replies
    BY DeliveryConstants DEF IndInv, Jobs, Procs, Items
  <1> HIDE DEF k
  <1>1. /\ stage \in Cancelled /\ at[k] \in Waiting /\ Bury(a, good[k] \cup skip[k])
        /\ at' = [at EXCEPT ![k] = "cancelled"]
        /\ todo' = [todo EXCEPT ![k] = {}] /\ cur' = [cur EXCEPT ![k] = None]
        /\ tries' = [tries EXCEPT ![k] = 0]
        /\ UNCHANGED <<stage, good, bad, skip, mark, unknown, survivors, acked, redrove, redrives>>
    BY DEF CancelDelivery, k
  <1>2. /\ skip[k] = {} /\ good[k] \subseteq acked[a]
    BY <1>0 DEF IndInv, JobsFit
  <1>3. Written(a, good[k])
    <2>1. good[k] \cup skip[k] = good[k]
      BY <1>2
    <2> QED BY <1>0, <1>1, <2>1, BuryEffect
  <1>4. /\ \A j \in Jobs \ {k} : SameJob(j)
        /\ at'[k] = "cancelled" /\ "cancelled" \notin Waiting
    BY <1>0, <1>1 DEF SameJob, TypeOK, Waiting
  <1>5. /\ entry \subseteq entry' /\ lost \subseteq lost'
        /\ \A j \in Items \ {a} : done'[j] = done[j] /\ (j \in entry' <=> j \in entry)
        /\ done'[a] \in {done[a], good[k]}
        /\ a \in entry' => done'[a] = good[k]
    <2>1. a \notin entry
      BY <1>0, <1>1 DEF IndInv, DaemonOnce, k
    <2> QED BY <1>0, <1>3, <2>1 DEF Written, TypeOK
  <1>6. TypeOK'
    <2>1. good[k] \cup skip[k] \in SUBSET Kinds
      BY <1>0 DEF TypeOK
    <2>2. /\ entry' \subseteq Items /\ done' \in [Items -> SUBSET Kinds] /\ lost' \subseteq Alerts
      BY <1>0, <1>1, <2>1, BuryTypes
    <2> QED BY <1>0, <1>1, <2>2, DeliveryConstants DEF TypeOK, Places
  <1>7. JobsFit'
    <2>1. \A j \in Jobs \ {k} : SameJob(j)
      BY <1>4
    <2>2. /\ at'[k] \notin Waiting \cup {"marking"} /\ good'[k] = good[k] /\ skip'[k] = skip[k]
      BY <1>1, <1>4
    <2> QED BY <1>0, <1>1, <1>5, <2>1, <2>2 DEF IndInv, JobsFit, SameJob
  <1>8. RepliesWhole' /\ NoResend'
    BY <1>0, <1>1, <1>4, <1>5 DEF IndInv, RepliesWhole, NoResend, SameJob, Items
  <1>9. DaemonOnce'
    <2>1. \A j \in Items \ {a} : SameJob(<<Daemon, j>>)
      BY <1>0, <1>4
    <2>2. at'[<<Daemon, a>>] = "cancelled"
      BY <1>4 DEF k
    <2> QED BY <1>0, <1>1, <1>4, <1>5, <2>1, <2>2 DEF IndInv, DaemonOnce, SameJob
  <1>10. SurvivorsKnown' /\ (~StoreFails => lost' \subseteq survivors')
    <2>1. good[k] \in SUBSET Kinds /\ at[<<Daemon, a>>] \in Waiting
      BY <1>0, <1>1 DEF TypeOK, k
    <2>2. \A b \in Alerts : at'[<<Daemon, b>>] \in Waiting => at[<<Daemon, b>>] \in Waiting
      BY <1>0, <1>4 DEF SameJob, Items, k
    <2> QED BY <1>0, <1>1, <1>3, <2>1, <2>2, LossKnown
  <1>11. TableTrue'
    BY <1>0, <1>1, <1>2, <1>5 DEF IndInv, TableTrue, Landed
  <1>12. NothingUnrecorded'
    <2>1. ASSUME NEW j \in Items, at'[<<Daemon, j>>] \in Over(j)'
          PROVE  (\/ Landed(j) \/ j \in entry \cup lost \cup unknown
                  \/ StoreFails /\ j \in Replies)'
      <3>1. CASE j # a
        <4>1. at[<<Daemon, j>>] \in Over(j)
          BY <1>0, <1>1, <1>4, <2>1, <3>1 DEF SameJob, Over, StoreClosed
        <4> QED BY <1>1, <1>5, <4>1 DEF IndInv, NothingUnrecorded, Landed
      <3>2. CASE j = a
        BY <1>3, <3>2 DEF Written
      <3> QED BY <3>1, <3>2
    <2> QED BY <1>10, <2>1 DEF NothingUnrecorded
  <1>13. EntryTruthful'
    <2>1. \A j \in Items : good'[<<Daemon, j>>] = good[<<Daemon, j>>]
      BY <1>1
    <2>2. entry' \subseteq Items
      BY <1>6 DEF TypeOK
    <2>3. ASSUME NEW j \in entry'
          PROVE  good'[<<Daemon, j>>] \subseteq done'[j]
      <3>1. CASE j = a
        <4>1. good'[k] = good[k] /\ k = <<Daemon, a>>
          BY <1>1 DEF k
        <4> QED BY <1>5, <3>1, <4>1
      <3>2. CASE j # a
        BY <1>5, <2>1, <2>2, <3>2 DEF IndInv, EntryTruthful
      <3> QED BY <3>1, <3>2
    <2> QED BY <1>11, <2>2, <2>3 DEF EntryTruthful, TableTrue
  <1> QED BY <1>6, <1>7, <1>8, <1>9, <1>10, <1>11, <1>12, <1>13 DEF IndInv

\* The daemon's process ends, by itself or killed: no alert is under way, or
\* what was under way is cut off.
LEMMA DaemonEndsKeeps ==
    ASSUME IndInv, Exit \/ DaemonCrash
    PROVE  IndInv'
  <1>0. /\ TypeOK
        /\ \A j \in Items : <<Daemon, j>> \in Jobs /\ <<Daemon, j>>[1] = Daemon
    BY DEF IndInv, Jobs, Procs
  <1>1. /\ stage' = "exited"
        /\ UNCHANGED <<todo, cur, tries, good, bad, skip, entry, done, mark, lost, unknown,
                       survivors, acked, redrove, redrives>>
    BY DEF Exit, DaemonCrash, table, health
  <1>2. /\ at' \in [Jobs -> Places]
        /\ \A j \in Jobs : at'[j] \in Waiting => j[1] # Daemon
        /\ \A j \in Jobs : \/ at'[j] = at[j]
                           \/ /\ j[1] = Daemon /\ at[j] \in Waiting
                              /\ at'[j] \in {"cancelled", "killed"}
    <2>1. CASE Exit
      BY <1>0, <2>1 DEF Exit, TypeOK, Places, Waiting
    <2>2. CASE DaemonCrash
      BY <1>0, <2>2 DEF DaemonCrash, TypeOK, Places, Waiting
    <2> QED BY <2>1, <2>2
  <1>3. \A a \in Alerts : at'[<<Daemon, a>>] = "cancelled" => at[<<Daemon, a>>] = "cancelled"
    <2>1. CASE Exit
      <3>1. \A a \in Alerts : at[<<Daemon, a>>] \notin Waiting
        BY <2>1 DEF Exit, AllCancelled
      <3> QED BY <1>0, <1>2, <3>1 DEF Items
    <2>2. CASE DaemonCrash
      BY <1>0, <2>2 DEF DaemonCrash, Items
    <2> QED BY <2>1, <2>2
  <1>4. "idle" \notin Waiting /\ "marking" \notin Waiting /\ "cancelled" \notin Waiting
        /\ "killed" \notin Waiting
    BY DEF Waiting
  <1>5. TypeOK'
    BY <1>0, <1>1, <1>2 DEF TypeOK, Stages
  <1>6. JobsFit'
    BY <1>1, <1>2, <1>4 DEF IndInv, JobsFit
  <1>7. RepliesWhole' /\ NoResend'
    BY <1>1, <1>2, <1>4 DEF IndInv, RepliesWhole, NoResend
  <1>8. DaemonOnce'
    BY <1>0, <1>1, <1>2, <1>4 DEF IndInv, DaemonOnce
  <1>9. SurvivorsKnown'
    BY <1>0, <1>1, <1>2 DEF SurvivorsKnown, Items
  <1>10. TableTrue' /\ EntryTruthful'
    BY <1>1 DEF IndInv, TableTrue, EntryTruthful, Landed
  <1>11. NothingUnrecorded'
    <2>1. ASSUME NEW j \in Items, at'[<<Daemon, j>>] \in Over(j)'
          PROVE  (\/ Landed(j) \/ j \in entry \cup lost \cup unknown
                  \/ StoreFails /\ j \in Replies)'
      <3>1. j \in Alerts /\ at'[<<Daemon, j>>] \in {"ended", "cancelled"}
        BY <1>1, <2>1 DEF Over, StoreClosed
      <3>2. at[<<Daemon, j>>] \in Over(j)
        BY <1>0, <1>2, <1>3, <3>1 DEF Over
      <3> QED BY <1>1, <3>2 DEF IndInv, NothingUnrecorded, Landed
    <2> QED BY <1>1, <2>1 DEF IndInv, NothingUnrecorded
  <1> QED BY <1>5, <1>6, <1>7, <1>8, <1>9, <1>10, <1>11 DEF IndInv

-----------------------------------------------------------------------------
(* the theorems *)

\* The daemon starts with nothing under way and nothing recorded.
LEMMA InitIndInv == Init => IndInv
  <1> SUFFICES ASSUME Init
               PROVE  IndInv
    OBVIOUS
  <1>0. /\ "idle" \notin Waiting \cup {"marking", "ended", "cancelled"}
        /\ \A j \in Items : <<Daemon, j>> \in Jobs
    BY DEF Waiting, Jobs, Procs
  <1>1. TypeOK
    BY DeliveryConstants DEF Init, TypeOK, Places, Stages
  <1>2. JobsFit /\ RepliesWhole /\ NoResend
    BY <1>0 DEF Init, JobsFit, RepliesWhole, NoResend, Items
  <1>3. DaemonOnce /\ SurvivorsKnown /\ TableTrue
    BY <1>0 DEF Init, DaemonOnce, SurvivorsKnown, TableTrue
  <1>4. NothingUnrecorded /\ EntryTruthful
    BY <1>0 DEF Init, NothingUnrecorded, EntryTruthful, Over, StoreClosed
  <1> QED BY <1>1, <1>2, <1>3, <1>4 DEF IndInv

\* Every step keeps the invariant.
LEMMA NextIndInv == IndInv /\ [Next]_vars => IndInv'
  <1> SUFFICES ASSUME IndInv, [Next]_vars
               PROVE  IndInv'
    OBVIOUS
  <1>1. CASE \E i \in Items : Accept(i)
    BY <1>1, AcceptKeeps
  <1>2. CASE \E k \in Jobs : JobStep(k)
    BY <1>2, JobStepKeeps
  <1>3. CASE \E p \in Clis, i \in Items : Redrive(p, i)
    BY <1>3, RedriveKeeps
  <1>4. CASE \E k \in Jobs : MarkRedriven(k) \/ CliKilled(k)
    BY <1>4, CommandKeeps
  <1>5. CASE StopAccepting \/ HandlersFinish \/ DrainEnds \/ Forced \/ StoreCloses
    BY <1>5, StageKeeps
  <1>6. CASE \E a \in Alerts : CancelDelivery(a)
    BY <1>6, CancelKeeps
  <1>7. CASE Exit \/ DaemonCrash
    BY <1>7, DaemonEndsKeeps
  <1>8. CASE UNCHANGED vars
    BY <1>8 DEF vars, job, table, health, IndInv, TypeOK, JobsFit, RepliesWhole, DaemonOnce,
                SurvivorsKnown, TableTrue, NothingUnrecorded, EntryTruthful, NoResend,
                Landed, Over, StoreClosed
  <1> QED BY <1>1, <1>2, <1>3, <1>4, <1>5, <1>6, <1>7, <1>8 DEF Next, Shutdown

\* The inductive invariant of deliveries, redrives and the shutdown.
THEOREM DeliveryInvariant == Spec => []IndInv
  BY InitIndInv, NextIndInv, PTL DEF Spec

\* Nothing leaves its type, however many jobs run and wherever they are cut off.
THEOREM DeliveryTypes == Spec => []TypeOK
  <1>1. IndInv => TypeOK
    BY DEF IndInv
  <1> QED BY <1>1, DeliveryInvariant, PTL

\* What the daemon is done with has landed everywhere, has a dead letter or is
\* counted, unless the open store refused the write; the shutdown leaves only
\* alerts that outlived FORCE_DRAIN_TIMEOUT to the time when the store is closed.
THEOREM DeliveryRecords == Spec => []NothingUnrecorded
  <1>1. IndInv => NothingUnrecorded
    BY DEF IndInv
  <1> QED BY <1>1, DeliveryInvariant, PTL

\* What a dead letter says of its item is true, whoever redrives it and
\* wherever the redrive is interrupted.
THEOREM DeadLettersTruthful == Spec => []EntryTruthful
  <1>1. IndInv => EntryTruthful
    BY DEF IndInv
  <1> QED BY <1>1, DeliveryInvariant, PTL

\* No channel is given an item it has reported as delivered, until a redrive
\* has landed somewhere.
THEOREM DeliveredOnce == Spec => []NoResend
  <1>1. IndInv => NoResend
    BY DEF IndInv
  <1> QED BY <1>1, DeliveryInvariant, PTL
=============================================================================
