---------------------------- MODULE Router_proofs ----------------------------
(***************************************************************************)
(* For any number of sessions, events and destinations: the caps hold, a   *)
(* session sees only frames for what it serves and the event or a redrive  *)
(* names, a queued row waits for its ack, and what a session owes is       *)
(* counted.  The middle two need to know where an address may come from: a *)
(* route, the queue, or a row in the hands of a drain; the last, which     *)
(* write a future belongs to.                                              *)
(***************************************************************************)
EXTENDS Router, FiniteSetTheorems, SequenceTheorems, TLAPS

Calls(S) == [todo : Seq(S), failed : Seq(S), took : Nat, at : Sessions \cup {None}]

\* A deliver() in progress has only destinations of its event in hand, and one
\* that waits for a write still has the destination of that write.
CallsFit ==
    /\ call = [e \in Events |-> call[e]]
    /\ \A e \in Events : /\ call[e] \in Calls(For(e))
                         /\ call[e].at # None => call[e].todo # <<>>

\* Only a draining task holds rows, and an adapter that has not said hello has
\* neither frames nor a subscription.
TasksFit ==
    \A s \in Sessions :
        /\ phase[s] # "draining" => claimed[s] = {} /\ stuck[s] = None
        /\ phase[s] = "unused" => wire[s] = {} /\ s \notin subs

\* Rows wait for destinations of their event, and a session holds or sees only
\* what is addressed to a destination it serves.
RowsAddressed == \A r \in queue : r.dest \in NamedBy(r.ev, r.made)
HandsAddressed ==
    \A s \in Sessions : \A r \in claimed[s] : r.dest \in dests[s] \cap NamedBy(r.ev, r.made)

\* A future that holds an ack was completed by an ack the daemon read.
AcksRead ==
    \A a \in acks :
        a.frame.from # "live" /\ a.got = "ack" => <<a.frame.ev, a.frame.from>> \in answered

\* A future whose write waits belongs to the deliver() or the drain that waits for it.
Waits(a) ==
    IF a.frame.from # "live"
      THEN /\ stuck[a.sess] # None
           /\ a.frame = FrameOf(stuck[a.sess].ev, stuck[a.sess].dest, stuck[a.sess].made)
      ELSE /\ call[a.frame.ev].at = a.sess
           /\ a.frame = FrameOf(a.frame.ev, Head(call[a.frame.ev].todo), "live")
WritesHeld == \A a \in acks : ~a.live => Waits(a)

\* A write has one future, and a session that has not said hello has none.
OneWaiting ==
    \A a, b \in acks : ~a.live /\ ~b.live /\ a.frame = b.frame /\ a.sess = b.sess => a = b
NewOwesNothing == \A a \in acks : phase[a.sess] # "unused"

FuturesFit == IsFiniteSet(acks) /\ WritesHeld /\ OneWaiting /\ NewOwesNothing /\ InFlightCovers

RouterInv ==
    /\ TypeOK /\ CallsFit /\ TasksFit
    /\ RowsAddressed /\ HandsAddressed /\ SessionScoped
    /\ AcksRead /\ QueuedUntilAcked /\ FuturesFit

-----------------------------------------------------------------------------
(* sequences of destinations *)

\* A sequence over a set is one over any larger set.
LEMMA SeqWider ==
    ASSUME NEW S, NEW T, S \subseteq T, NEW q \in Seq(S)
    PROVE  q \in Seq(T)
  BY SeqDef

\* The pieces deliver() cuts its list of destinations into are lists over the
\* same set.
LEMMA SeqPieces ==
    ASSUME NEW S, NEW q \in Seq(S), NEW i \in 1..Len(q)
    PROVE  /\ q[i] \in S
           /\ SubSeq(q, 1, i - 1) \in Seq(S)
           /\ Rest(q, i) \in Seq(S)
           /\ <<q[i]>> \o Rest(q, i) \in Seq(S)
           /\ <<q[i]>> \o Rest(q, i) # <<>>
  <1>1. q[i] \in S /\ <<q[i]>> \in Seq(S) /\ Len(<<q[i]>>) = 1
    BY ElementOfSeq
  <1>2. SubSeq(q, 1, i - 1) \in Seq(S)
    <2>1. CASE i = 1
      <3>1. SubSeq(q, 1, 0) = <<>>
        BY SubSeqEmpty
      <3> QED BY <2>1, <3>1
    <2>2. CASE i # 1
      <3>1. i - 1 \in 1..Len(q) /\ 1 \in 1..Len(q)
        BY <2>2, LenProperties
      <3> QED BY <3>1, SubSeqProperties
    <2> QED BY <2>1, <2>2
  <1>3. Rest(q, i) \in Seq(S)
    <2>1. CASE i = Len(q)
      <3>1. SubSeq(q, i + 1, Len(q)) = <<>>
        BY <2>1, SubSeqEmpty
      <3> QED BY <3>1 DEF Rest
    <2>2. CASE i # Len(q)
      <3>1. i + 1 \in 1..Len(q) /\ Len(q) \in 1..Len(q)
        BY <2>2, LenProperties
      <3> QED BY <3>1, SubSeqProperties DEF Rest
    <2> QED BY <2>1, <2>2
  <1>4. <<q[i]>> \o Rest(q, i) \in Seq(S)
    BY <1>1, <1>3, ConcatProperties
  <1>5. Len(<<q[i]>> \o Rest(q, i)) = 1 + Len(Rest(q, i)) /\ Len(Rest(q, i)) \in Nat
    BY <1>1, <1>3, ConcatProperties, LenProperties
  <1>6. <<q[i]>> \o Rest(q, i) # <<>>
    BY <1>5
  <1> QED BY <1>1, <1>2, <1>3, <1>4, <1>6

\* A route leads to destinations of its event.
LEMMA RouteFits ==
    ASSUME NEW e \in Events
    PROVE  Route[e] \in Seq(For(e)) /\ For(e) \subseteq Dests
  <1>1. Route[e] \in Seq(Dests)
    BY RouterConstants
  <1>2. \A i \in 1..Len(Route[e]) : Route[e][i] \in For(e)
    BY <1>1, ElementOfSeq DEF For
  <1>3. Len(Route[e]) \in Nat /\ DOMAIN Route[e] = 1..Len(Route[e])
    BY <1>1, LenProperties
  <1>4. Route[e] \in [1..Len(Route[e]) -> For(e)]
    BY <1>1, <1>2, <1>3, LenProperties
  <1> QED BY <1>3, <1>4, SeqDef DEF For

-----------------------------------------------------------------------------
(* writing a wake frame *)

\* The record of an ack future.
LEMMA AckFields ==
    ASSUME NEW f \in Frame, NEW s \in Sessions, NEW g \in {"open", "ack", "nack"},
           NEW l \in BOOLEAN
    PROVE  AckOf(f, s, g, l) \in Ack /\ AckOf(f, s, g, l).got = g /\ AckOf(f, s, g, l).frame = f
  BY DEF AckOf, Ack

\* Whatever a write does, nobody is subscribed or given an answer by it, and
\* only its own session gets to see the frame.
LEMMA SendEffect ==
    ASSUME TypeOK, NEW s \in Sessions, NEW f \in Frame,
           SendWake(s, f) \/ SendWakeFails(s) \/ SendWakeWaits(s, f)
    PROVE  /\ acks' \subseteq Ack
           /\ wire' \in [Sessions -> SUBSET Frame]
           /\ inflight' \in [Sessions -> Nat]
           /\ open' \in [Sessions -> BOOLEAN] /\ full' \in [Sessions -> BOOLEAN]
           /\ subs' \subseteq subs
           /\ \A t \in Sessions : \A g \in wire'[t] : g \in wire[t] \/ (t = s /\ g = f)
           /\ \A a \in acks' : a \in acks \/ a.got = "open"
  <1>1. CASE SendWake(s, f)
    <2>1. acks' \subseteq Ack /\ \A a \in acks' : a \in acks \/ a.got = "open"
      <3>1. AckOf(f, s, "open", TRUE) \in Ack /\ AckOf(f, s, "open", TRUE).got = "open"
        BY AckFields
      <3>2. acks' = acks \cup {AckOf(f, s, "open", TRUE)} /\ acks \subseteq Ack
        BY <1>1 DEF SendWake, TypeOK
      <3> QED BY <3>1, <3>2
    <2>2. wire' \in [Sessions -> SUBSET Frame] /\ inflight' \in [Sessions -> Nat]
      BY <1>1 DEF SendWake, TypeOK, OnWire, CountInFlight
    <2>3. \A t \in Sessions : \A g \in wire'[t] : g \in wire[t] \/ (t = s /\ g = f)
      BY <1>1 DEF SendWake, TypeOK, OnWire
    <2> QED BY <1>1, <2>1, <2>2, <2>3 DEF SendWake, TypeOK
  <1>2. CASE SendWakeFails(s)
    BY <1>2 DEF SendWakeFails, Evict, TypeOK
  <1>3. CASE SendWakeWaits(s, f)
    <2>1. acks' \subseteq Ack /\ \A a \in acks' : a \in acks \/ a.got = "open"
      <3>1. AckOf(f, s, "open", FALSE) \in Ack /\ AckOf(f, s, "open", FALSE).got = "open"
        BY AckFields
      <3>2. acks' = acks \cup {AckOf(f, s, "open", FALSE)} /\ acks \subseteq Ack
        BY <1>3 DEF SendWakeWaits, TypeOK
      <3> QED BY <3>1, <3>2
    <2>2. wire' \in [Sessions -> SUBSET Frame] /\ full' \in [Sessions -> BOOLEAN]
      BY <1>3 DEF SendWakeWaits, WriteWaits, TypeOK, OnWire
    <2>3. \A t \in Sessions : \A g \in wire'[t] : g \in wire[t] \/ (t = s /\ g = f)
      BY <1>3 DEF SendWakeWaits, TypeOK, OnWire
    <2> QED BY <1>3, <2>1, <2>2, <2>3 DEF SendWakeWaits, TypeOK
  <1> QED BY <1>1, <1>2, <1>3

\* The same for the end of a write that had to wait.
LEMMA ResumeEffect ==
    ASSUME TypeOK, NEW s \in Sessions, NEW f \in Frame,
           ResumeWake(s, f) \/ ResumeWakeFails(s, f)
    PROVE  /\ acks' \subseteq Ack
           /\ wire' = wire /\ full' = full
           /\ inflight' \in [Sessions -> Nat]
           /\ open' \in [Sessions -> BOOLEAN]
           /\ subs' \subseteq subs
           /\ \A a \in acks' : \E b \in acks : a.frame = b.frame /\ a.got = b.got
  <1>1. CASE ResumeWake(s, f)
    <2>1. \A a \in acks : a.frame \in Frame /\ a.got \in {"open", "ack", "nack"}
      BY DEF TypeOK, Ack
    <2>2. /\ acks' \subseteq Ack
          /\ \A a \in acks' : \E b \in acks : a.frame = b.frame /\ a.got = b.got
      <3>1. ASSUME NEW a \in acks'
            PROVE  a \in Ack /\ \E b \in acks : a.frame = b.frame /\ a.got = b.got
        <4>1. PICK b \in acks :
                a = IF b.frame = f /\ b.sess = s THEN AckOf(f, s, b.got, TRUE) ELSE b
          BY <1>1 DEF ResumeWake
        <4>3. b.got \in {"open", "ack", "nack"} /\ TRUE \in BOOLEAN
          BY <2>1
        <4>2. /\ AckOf(f, s, b.got, TRUE) \in Ack
              /\ AckOf(f, s, b.got, TRUE).got = b.got /\ AckOf(f, s, b.got, TRUE).frame = f
          BY <4>3 DEF AckOf, Ack
        <4> QED BY <4>1, <4>2 DEF TypeOK
      <3> QED BY <3>1
    <2>3. inflight' \in [Sessions -> Nat]
      BY <1>1 DEF ResumeWake, TypeOK, CountInFlight
    <2> QED BY <1>1, <2>2, <2>3 DEF ResumeWake, TypeOK
  <1>2. CASE ResumeWakeFails(s, f)
    BY <1>2 DEF ResumeWakeFails, Evict, TypeOK
  <1> QED BY <1>1, <1>2

\* One step of deliver() that writes: to a subscriber of a destination of the
\* event, with a call in progress left that fits.
LEMMA DeliverSendEffect ==
    ASSUME TypeOK, CallsFit, NEW e \in Events, DeliverSend(e)
    PROVE  \E s \in subs, d \in For(e), c \in Calls(For(e)) :
             /\ d \in dests[s]
             /\ \/ SendWake(s, FrameOf(e, d, "live")) /\ c.at = None
                \/ SendWakeFails(s) /\ c.at = None
                \/ /\ SendWakeWaits(s, FrameOf(e, d, "live"))
                   /\ c.at = s /\ c.todo # <<>> /\ Head(c.todo) = d
             /\ call' = [call EXCEPT ![e] = c]
             /\ c.at # None => c.todo # <<>>
  <1> DEFINE todo == Todo(e)
             S == For(e)
             Written(i, s) ==
            LET d == todo[i]
                failed == call[e].failed \o SubSeq(todo, 1, i - 1)
                f == FrameOf(e, d, "live")
            IN \/ /\ SendWake(s, f)
                  /\ call' = [call EXCEPT ![e] = CallOf(Rest(todo, i), failed, call[e].took + 1, None)]
               \/ /\ SendWakeFails(s)
                  /\ call' = [call EXCEPT
                                ![e] = CallOf(Rest(todo, i), Append(failed, d), call[e].took, None)]
               \/ /\ SendWakeWaits(s, f)
                  /\ call' = [call EXCEPT
                                ![e] = CallOf(<<d>> \o Rest(todo, i), failed, call[e].took, s)]
  <1>1. todo \in Seq(S) /\ call[e].failed \in Seq(S) /\ call[e].took \in Nat /\ Len(todo) \in Nat
    BY RouteFits, LenProperties DEF Todo, CallsFit, Calls
  <1> HIDE DEF todo
  <1>2. PICK i \in 1..Len(todo) : \E s \in SubscriberFor(todo[i]) : Written(i, s)
    BY DEF DeliverSend, todo
  <1>13. PICK s \in SubscriberFor(todo[i]) : Written(i, s)
    BY <1>2
  <1> DEFINE d == todo[i]
             failed == call[e].failed \o SubSeq(todo, 1, i - 1)
  <1>3. /\ d \in S /\ Rest(todo, i) \in Seq(S) /\ SubSeq(todo, 1, i - 1) \in Seq(S)
        /\ <<d>> \o Rest(todo, i) \in Seq(S) /\ <<d>> \o Rest(todo, i) # <<>>
    BY <1>1, SeqPieces
  <1>4. failed \in Seq(S) /\ Append(failed, d) \in Seq(S)
    BY <1>1, <1>3, ConcatProperties, AppendProperties
  <1>5. s \in subs /\ s \in Sessions /\ d \in dests[s]
    BY <1>13 DEF SubscriberFor, Serving, TypeOK
  <1> HIDE DEF d, failed, S
  <1>6. /\ CallOf(Rest(todo, i), failed, call[e].took + 1, None) \in Calls(S)
        /\ CallOf(Rest(todo, i), Append(failed, d), call[e].took, None) \in Calls(S)
        /\ CallOf(<<d>> \o Rest(todo, i), failed, call[e].took, s) \in Calls(S)
    BY <1>1, <1>3, <1>4, <1>5 DEF CallOf, Calls
  <1> DEFINE c1 == CallOf(Rest(todo, i), failed, call[e].took + 1, None)
             c2 == CallOf(Rest(todo, i), Append(failed, d), call[e].took, None)
             c3 == CallOf(<<d>> \o Rest(todo, i), failed, call[e].took, s)
  <1>7. c1.at = None /\ c2.at = None /\ c3.at = s /\ c3.todo # <<>> /\ Head(c3.todo) = d
    <2>1. Head(<<d>> \o Rest(todo, i)) = d
      BY <1>3
    <2> QED BY <1>3, <2>1 DEF CallOf
  <1>8. \/ SendWake(s, FrameOf(e, d, "live")) /\ call' = [call EXCEPT ![e] = c1]
        \/ SendWakeFails(s) /\ call' = [call EXCEPT ![e] = c2]
        \/ SendWakeWaits(s, FrameOf(e, d, "live")) /\ call' = [call EXCEPT ![e] = c3]
    BY <1>13 DEF d, failed
  <1> HIDE DEF c1, c2, c3
  <1>9. CASE SendWake(s, FrameOf(e, d, "live")) /\ call' = [call EXCEPT ![e] = c1]
    BY <1>3, <1>5, <1>6, <1>7, <1>9 DEF c1, S
  <1>10. CASE SendWakeFails(s) /\ call' = [call EXCEPT ![e] = c2]
    BY <1>3, <1>5, <1>6, <1>7, <1>10 DEF c2, S
  <1>11. CASE SendWakeWaits(s, FrameOf(e, d, "live")) /\ call' = [call EXCEPT ![e] = c3]
    BY <1>3, <1>5, <1>6, <1>7, <1>11 DEF c3, S
  <1> QED BY <1>8, <1>9, <1>10, <1>11

\* ... and one that ends a wait.
LEMMA DeliverResumeEffect ==
    ASSUME TypeOK, CallsFit, NEW e \in Events, DeliverResume(e)
    PROVE  \E s \in Sessions, f \in Frame, c \in Calls(For(e)) :
             /\ s = call[e].at /\ f = FrameOf(e, Head(call[e].todo), "live")
             /\ ResumeWake(s, f) \/ ResumeWakeFails(s, f)
             /\ call' = [call EXCEPT ![e] = c]
             /\ c.at = None
  <1> DEFINE s == call[e].at
             q == call[e].todo
             f == FrameOf(e, Head(q), "live")
             S == For(e)
             c1 == CallOf(Tail(q), call[e].failed, call[e].took + 1, None)
             c2 == CallOf(Tail(q), Append(call[e].failed, Head(q)), call[e].took, None)
  <1>1. s \in Sessions /\ q # <<>>
    BY DEF DeliverResume, CallsFit, Calls
  <1>2. q \in Seq(S) /\ call[e].failed \in Seq(S) /\ call[e].took \in Nat
    BY DEF CallsFit, Calls
  <1>3. Head(q) \in S /\ Tail(q) \in Seq(S)
    BY <1>1, <1>2, HeadTailProperties
  <1>4. Append(call[e].failed, Head(q)) \in Seq(S)
    BY <1>2, <1>3, AppendProperties
  <1>5. f \in Frame
    BY <1>3 DEF FrameOf, Frame, For
  <1>6. c1 \in Calls(S) /\ c2 \in Calls(S) /\ c1.at = None /\ c2.at = None
    BY <1>2, <1>3, <1>4 DEF CallOf, Calls
  <1>7. \/ ResumeWake(s, f) /\ call' = [call EXCEPT ![e] = c1]
        \/ ResumeWakeFails(s, f) /\ call' = [call EXCEPT ![e] = c2]
    BY DEF DeliverResume
  <1>8. s = call[e].at /\ f = FrameOf(e, Head(call[e].todo), "live")
    OBVIOUS
  <1> HIDE DEF s, f, c1, c2
  <1> QED BY <1>1, <1>5, <1>6, <1>7, <1>8 DEF S

\* A call over fewer destinations is one over more.
LEMMA CallsWider ==
    ASSUME NEW e \in Events, NEW c \in Calls(For(e))
    PROVE  c \in Calls(Dests)
  <1>1. c.todo \in Seq(Dests) /\ c.failed \in Seq(Dests)
    BY RouteFits, SeqWider DEF Calls
  <1> QED BY <1>1 DEF Calls

\* A row enters the queue, if at all, for a destination its maker may name.
LEMMA EnqueueEffect ==
    ASSUME TypeOK, NEW e \in Events, NEW F, NEW m \in Makers, F # <<>> => 1 \in 1..Len(F),
           \A k \in 1..Len(F) : F[k] \in Dests /\ F[k] \in NamedBy(e, m),
           UNCHANGED <<queue, queued>> \/ Enqueue(e, F, m)
    PROVE  /\ queue' \subseteq Row /\ queued' \subseteq Events \X Makers
           /\ queue \subseteq queue'
           /\ \A r \in queue' : r \in queue \/ r.dest \in NamedBy(r.ev, r.made)
           /\ \A i \in queued' : i \in queued \/ \E r \in queue' : RowId(r) = i
  <1> DEFINE r == RowOf(e, F[1], 0, m)
  <1>1. \/ UNCHANGED <<queue, queued>>
        \/ F # <<>> /\ queue' = queue \cup {r} /\ queued' = queued \cup {<<e, m>>}
    BY DEF Enqueue
  <1>2. F # <<>> => r \in Row
    BY DEF RowOf, Row
  <1>3. r.ev = e /\ r.dest = F[1] /\ r.made = m /\ RowId(r) = <<e, m>>
    BY DEF RowOf, RowId
  <1>4. F # <<>> => r.dest \in NamedBy(r.ev, r.made)
    BY <1>3
  <1>5. <<e, m>> \in Events \X Makers /\ queue \subseteq Row /\ queued \subseteq Events \X Makers
    BY DEF TypeOK
  <1> HIDE DEF r
  <1>6. CASE UNCHANGED <<queue, queued>>
    BY <1>5, <1>6
  <1>7. CASE F # <<>> /\ queue' = queue \cup {r} /\ queued' = queued \cup {<<e, m>>}
    BY <1>2, <1>3, <1>4, <1>5, <1>7
  <1> QED BY <1>1, <1>6, <1>7

\* The operator's redrive queues the event, if at all, for the name of its sender.
LEMMA RedriveEffect ==
    ASSUME TypeOK, NEW e \in Events, Redrive(e)
    PROVE  /\ queue' \subseteq Row /\ queued' \subseteq Events \X Makers
           /\ queue \subseteq queue'
           /\ \A r \in queue' : r \in queue \/ r.dest \in NamedBy(r.ev, r.made)
           /\ \A i \in queued' : i \in queued \/ \E r \in queue' : RowId(r) = i
  <1> DEFINE F == <<Source[e]>>
  <1>1. Len(F) = 1 /\ F[1] = Source[e] /\ Source[e] \in Dests
    BY RouterConstants
  <1>2. Source[e] \in NamedBy(e, "redrive")
    BY <1>1 DEF NamedBy
  <1>3. Enqueue(e, F, "redrive") /\ "redrive" \in Makers
    BY DEF Redrive, Makers
  <1> HIDE DEF F
  <1> QED BY <1>1, <1>2, <1>3, EnqueueEffect

\* The end of deliver() queues the event, if at all, for one of its destinations.
LEMMA DeliverEndEffect ==
    ASSUME TypeOK, CallsFit, NEW e \in Events, DeliverEnd(e)
    PROVE  /\ queue' \subseteq Row /\ queued' \subseteq Events \X Makers
           /\ queue \subseteq queue'
           /\ \A r \in queue' : r \in queue \/ r.dest \in NamedBy(r.ev, r.made)
           /\ \A i \in queued' : i \in queued \/ \E r \in queue' : RowId(r) = i
  <1> DEFINE F == IF Route[e] = <<>> THEN <<Source[e]>> ELSE call[e].failed \o Todo(e)
  <1>1. F \in Seq(For(e))
    <2>1. CASE Route[e] = <<>>
      BY <2>1, RouterConstants DEF For
    <2>2. CASE Route[e] # <<>>
      <3>1. call[e].failed \in Seq(For(e)) /\ Todo(e) \in Seq(For(e))
        BY RouteFits DEF CallsFit, Calls, Todo
      <3> QED BY <2>2, <3>1, ConcatProperties
    <2> QED BY <2>1, <2>2
  <1>2. \A i \in 1..Len(F) : F[i] \in For(e) /\ F[i] \in Dests
    BY <1>1, ElementOfSeq DEF For
  <1>3. F # <<>> => 1 \in 1..Len(F)
    BY <1>1, LenProperties
  <1>4. UNCHANGED <<queue, queued>> \/ Enqueue(e, F, "deliver")
    BY DEF DeliverEnd
  <1>5. \A k \in 1..Len(F) : F[k] \in NamedBy(e, "deliver")
    BY <1>2 DEF NamedBy
  <1> HIDE DEF F
  <1> QED BY <1>2, <1>3, <1>4, <1>5, EnqueueEffect DEF Makers

\* Reading an ack completes futures and changes nothing else about them.
LEMMA ReadAckEffect ==
    ASSUME TypeOK, NEW s \in Sessions, NEW f \in wire[s], NEW g \in {"ack", "nack"}, ReadAck(s, f, g)
    PROVE  /\ acks' \subseteq Ack
           /\ \A a \in acks' : a \in acks \/ (a.frame = f /\ a.got = g)
  <1>1. SUFFICES ASSUME NEW a \in acks'
                 PROVE  a \in Ack /\ (a \in acks \/ (a.frame = f /\ a.got = g))
    OBVIOUS
  <1>2. PICK b \in acks :
          a = IF b.frame = f /\ b.sess = s /\ b.got = "open" THEN AckOf(f, s, g, b.live) ELSE b
    BY DEF ReadAck
  <1>3. b \in Ack /\ b.live \in BOOLEAN /\ f \in Frame
    BY DEF TypeOK, Ack
  <1>4. /\ AckOf(f, s, g, b.live) \in Ack
        /\ AckOf(f, s, g, b.live).got = g /\ AckOf(f, s, g, b.live).frame = f
    BY <1>3 DEF AckOf, Ack
  <1> QED BY <1>2, <1>3, <1>4

\* The finally block of a connection handler keeps the types ...
LEMMA CloseTypes ==
    ASSUME TypeOK, NEW s \in Sessions, Close(s)
    PROVE  TypeOK'
  <1>1. /\ phase' \in [Sessions -> Phases] /\ open' \in [Sessions -> BOOLEAN]
        /\ wire' \in [Sessions -> SUBSET Frame]
    BY DEF Close, TypeOK, Phases
  <1>2. /\ dests' \in [Sessions -> SUBSET Dests] /\ ping' \in [Sessions -> BOOLEAN]
        /\ inflight' \in [Sessions -> Nat]
        /\ missed' \in [Sessions -> 0..MaxBusyMissedPongs]
    BY RouterConstants DEF Close, TypeOK
  <1> QED BY <1>1, <1>2 DEF Close, Cleanup, TypeOK, drain, history, beat

\* ... and so does the end of a heartbeat pass.
LEMMA PassTypes ==
    ASSUME TypeOK, NEW todo \in SUBSET Sessions, NEW stale \in SUBSET Sessions,
           HeartbeatGoesOn(todo, stale)
    PROVE  /\ hbTodo' \subseteq Sessions /\ hbStale' \subseteq Sessions
           /\ open' \in [Sessions -> BOOLEAN]
  <1>1. CASE todo = {}
    BY <1>1 DEF HeartbeatGoesOn
  <1>2. CASE todo # {}
    BY <1>2 DEF HeartbeatGoesOn, TypeOK
  <1> QED BY <1>1, <1>2

-----------------------------------------------------------------------------
(* every step keeps the invariant *)

\* Every step keeps the types.
LEMMA TypeStep ==
    ASSUME TypeOK, CallsFit, [Next]_vars
    PROVE  TypeOK'
  <1> USE DEF session, socket, liveness, beat, drain, history
  <1>1. ASSUME NEW e \in Events, DeliverSend(e) PROVE TypeOK'
    <2>1. PICK s \in subs, d \in For(e), c \in Calls(For(e)) :
             /\ \/ SendWake(s, FrameOf(e, d, "live"))
                \/ SendWakeFails(s)
                \/ SendWakeWaits(s, FrameOf(e, d, "live"))
             /\ call' = [call EXCEPT ![e] = c]
      BY <1>1, DeliverSendEffect
    <2>2. s \in Sessions /\ FrameOf(e, d, "live") \in Frame
      BY DEF TypeOK, FrameOf, Frame, For
    <2>3. c \in Calls(Dests)
      BY CallsWider
    <2>4. call' \in [Events -> Calls(Dests)]
      BY <2>1, <2>3 DEF TypeOK, Calls
    <2>5. /\ acks' \subseteq Ack
          /\ wire' \in [Sessions -> SUBSET Frame]
          /\ inflight' \in [Sessions -> Nat]
          /\ open' \in [Sessions -> BOOLEAN] /\ full' \in [Sessions -> BOOLEAN]
          /\ subs' \subseteq subs
      BY <2>1, <2>2, SendEffect
    <2> QED BY <1>1, <2>4, <2>5 DEF DeliverSend, TypeOK, Statuses, Calls
  <1>2. ASSUME NEW e \in Events, DeliverResume(e) PROVE TypeOK'
    <2>1. PICK s \in Sessions, f \in Frame, c \in Calls(For(e)) :
             /\ ResumeWake(s, f) \/ ResumeWakeFails(s, f)
             /\ call' = [call EXCEPT ![e] = c]
      BY <1>2, DeliverResumeEffect
    <2>2. c \in Calls(Dests)
      BY CallsWider
    <2>3. call' \in [Events -> Calls(Dests)]
      BY <2>1, <2>2 DEF TypeOK, Calls
    <2>4. /\ acks' \subseteq Ack
          /\ wire' = wire /\ full' = full
          /\ inflight' \in [Sessions -> Nat]
          /\ open' \in [Sessions -> BOOLEAN]
          /\ subs' \subseteq subs
      BY <2>1, ResumeEffect
    <2> QED BY <1>2, <2>3, <2>4 DEF DeliverResume, TypeOK, Calls
  <1>3. ASSUME NEW e \in Events, DeliverEnd(e) PROVE TypeOK'
    <2>1. queue' \subseteq Row /\ queued' \subseteq Events \X Makers
      BY <1>3, DeliverEndEffect
    <2>2. call' \in [Events -> Calls(Dests)]
      <3>1. NoCall \in Calls(Dests)
        BY DEF NoCall, Calls
      <3> QED BY <1>3, <3>1 DEF DeliverEnd, TypeOK, Calls
    <2> QED BY <1>3, <2>1, <2>2 DEF DeliverEnd, TypeOK, Statuses, Calls
  <1>4. ASSUME NEW a \in acks, AckAnswered(a) PROVE TypeOK'
    <2>1. a \in Ack /\ a.sess \in Sessions
      BY DEF TypeOK, Ack
    <2>2. inflight' \in [Sessions -> Nat]
      BY <1>4, <2>1 DEF AckAnswered, TypeOK
    <2>3. queue' \subseteq Row /\ acks' \subseteq Ack
      BY <1>4 DEF AckAnswered, SettlePending, TypeOK
    <2> QED BY <1>4, <2>2, <2>3 DEF AckAnswered, TypeOK
  <1>5. ASSUME NEW a \in acks, AckTimeout(a) PROVE TypeOK'
    BY <1>5 DEF AckTimeout, TypeOK, SettlePending
  <1>6. ASSUME NEW s \in Sessions, HelloAckSent(s) PROVE TypeOK'
    BY <1>6 DEF HelloAckSent, TypeOK, Phases
  <1>7. ASSUME NEW s \in Sessions, HelloAckFails(s) PROVE TypeOK'
    BY <1>7 DEF HelloAckFails, TypeOK, Phases
  <1>8. ASSUME NEW s \in Sessions, NEW d \in left[s], DrainDest(s, d) PROVE TypeOK'
    <2>1. \A r \in Row : Attempted(r) \in Row
      BY DEF Attempted, RowOf, Row
    <2> DEFINE A == {Attempted(r) : r \in RowsFor(d)}
    <2>2. A \subseteq Row
      BY <2>1 DEF RowsFor, TypeOK
    <2>5. \/ claimed' = [claimed EXCEPT ![s] = A] /\ queue' = (queue \ RowsFor(d)) \cup A
          \/ claimed' = claimed /\ queue' = queue
      BY <1>8 DEF DrainDest
    <2> HIDE DEF A
    <2>3. claimed' \in [Sessions -> SUBSET Row] /\ queue' \subseteq Row
      BY <2>2, <2>5 DEF TypeOK
    <2>4. left' \in [Sessions -> SUBSET Dests]
      BY <1>8 DEF DrainDest, TypeOK
    <2> QED BY <1>8, <2>3, <2>4 DEF DrainDest, TypeOK
  <1>9. ASSUME NEW s \in Sessions, NEW r \in claimed[s], DrainBury(s, r) PROVE TypeOK'
    <2>1. RowId(r) \in Events \X Makers
      BY DEF TypeOK, Row, RowId
    <2>2. claimed' \in [Sessions -> SUBSET Row]
      BY <1>9 DEF DrainBury, TypeOK
    <2>3. buried' \subseteq Events \X Makers /\ queue' \subseteq Row
      BY <1>9, <2>1 DEF DrainBury, TypeOK
    <2> QED BY <1>9, <2>2, <2>3 DEF DrainBury, TypeOK
  <1>10. ASSUME NEW s \in Sessions, NEW r \in claimed[s], DrainSend(s, r) PROVE TypeOK'
    <2>1. FrameOf(r.ev, r.dest, r.made) \in Frame
      BY DEF TypeOK, Row, FrameOf, Frame, Makers
    <2>2. \/ SendWake(s, FrameOf(r.ev, r.dest, r.made)) \/ SendWakeFails(s)
          \/ SendWakeWaits(s, FrameOf(r.ev, r.dest, r.made))
      BY <1>10 DEF DrainSend
    <2>3. /\ acks' \subseteq Ack
          /\ wire' \in [Sessions -> SUBSET Frame]
          /\ inflight' \in [Sessions -> Nat]
          /\ open' \in [Sessions -> BOOLEAN] /\ full' \in [Sessions -> BOOLEAN]
          /\ subs' \subseteq subs
      BY <2>1, <2>2, SendEffect
    <2>4. r \in Row /\ (stuck' = stuck \/ stuck' = [stuck EXCEPT ![s] = r])
      BY <1>10 DEF DrainSend, TypeOK
    <2>5. stuck' \in [Sessions -> Row \cup {None}]
      BY <2>4 DEF TypeOK
    <2>6. claimed' \in [Sessions -> SUBSET Row]
      BY <1>10 DEF DrainSend, TypeOK
    <2> QED BY <1>10, <2>3, <2>5, <2>6 DEF DrainSend, TypeOK
  <1>11. ASSUME NEW s \in Sessions, DrainResume(s) PROVE TypeOK'
    <2>1. stuck[s] \in Row
      BY <1>11 DEF DrainResume, TypeOK
    <2>2. FrameOf(stuck[s].ev, stuck[s].dest, stuck[s].made) \in Frame
      BY <2>1 DEF Row, FrameOf, Frame, Makers
    <2>3. /\ acks' \subseteq Ack
          /\ wire' = wire /\ full' = full
          /\ inflight' \in [Sessions -> Nat]
          /\ open' \in [Sessions -> BOOLEAN]
          /\ subs' \subseteq subs
      BY <1>11, <2>2, ResumeEffect DEF DrainResume
    <2> QED BY <1>11, <2>3 DEF DrainResume, TypeOK
  <1>12. ASSUME NEW s \in Sessions, DrainDone(s) PROVE TypeOK'
    BY <1>12 DEF DrainDone, TypeOK, Phases
  <1>13. ASSUME NEW s \in Sessions, ReplySent(s) PROVE TypeOK'
    <2>1. CASE Close(s)
      BY <2>1, CloseTypes
    <2>2. CASE ~Close(s)
      BY <1>13, <2>2 DEF ReplySent, TypeOK, Phases
    <2> QED BY <2>1, <2>2
  <1>14. ASSUME NEW s \in Sessions, ReadEof(s) PROVE TypeOK'
    BY <1>14, CloseTypes DEF ReadEof
  <1>15. ASSUME NEW s \in Sessions, ReadPong(s) PROVE TypeOK'
    <2>1. 0 \in 0..MaxBusyMissedPongs
      BY RouterConstants
    <2>2. missed' \in [Sessions -> 0..MaxBusyMissedPongs] /\ ping' \in [Sessions -> BOOLEAN]
      BY <1>15, <2>1 DEF ReadPong, TypeOK
    <2> QED BY <1>15, <2>2 DEF ReadPong, TypeOK
  <1>16. ASSUME NEW s \in Sessions, Refuse(s) PROVE TypeOK'
    BY <1>16 DEF Refuse, TypeOK, Phases
  <1>17. ASSUME NEW s \in Sessions, NEW D \in SUBSET Grants[s], Register(s, D) PROVE TypeOK'
    <2>1. Cardinality({t \in Sessions : joined[t] > 0}) \in Nat
      BY RouterConstants, FS_Subset, FS_CardinalityType
    <2>2. joined' \in [Sessions -> Nat]
      BY <1>17, <2>1 DEF Register, TypeOK
    <2>3. D \subseteq Dests /\ dests' \in [Sessions -> SUBSET Dests]
      BY <1>17, RouterConstants DEF Register, TypeOK
    <2>4. full' \in [Sessions -> BOOLEAN]
      BY <1>17, RouterConstants DEF Register, TypeOK
    <2> QED BY <1>17, <2>2, <2>3, <2>4 DEF Register, TypeOK, Phases
  <1>18. ASSUME NEW s \in Sessions, NEW f \in wire[s], NEW g \in {"ack", "nack"}, ReadAck(s, f, g)
        PROVE  TypeOK'
    <2>1. acks' \subseteq Ack
      BY <1>18, ReadAckEffect
    <2>2. f.from # "live" => <<f.ev, f.from>> \in Events \X Makers
      BY DEF TypeOK, Frame
    <2>3. wire' \in [Sessions -> SUBSET Frame]
      BY <1>18 DEF ReadAck, TypeOK
    <2>4. answered' \subseteq answered \cup {i \in {<<f.ev, f.from>>} : f.from # "live"}
      BY <1>18 DEF ReadAck
    <2>5. answered' \subseteq Events \X Makers
      BY <2>2, <2>4 DEF TypeOK
    <2> QED BY <1>18, <2>1, <2>3, <2>5 DEF ReadAck, TypeOK
  <1>19. ASSUME NEW s \in Sessions, ReadReply(s) PROVE TypeOK'
    BY <1>19 DEF ReadReply, TypeOK, Phases
  <1>20. ASSUME NEW s \in Sessions, ReadBadFrame(s) PROVE TypeOK'
    BY <1>20, CloseTypes DEF ReadBadFrame
  <1>21. CASE HeartbeatTick
    BY <1>21 DEF HeartbeatTick, TypeOK
  <1>22. CASE HeartbeatResume
    <2>1. hbAt \in Sessions
      BY <1>22 DEF HeartbeatResume, TypeOK
    <2>2. HeartbeatGoesOn(hbTodo, hbStale) \/ HeartbeatGoesOn(hbTodo, hbStale \cup {hbAt})
      BY <1>22 DEF HeartbeatResume
    <2>3. /\ hbTodo' \subseteq Sessions /\ hbStale' \subseteq Sessions
          /\ open' \in [Sessions -> BOOLEAN]
      BY <2>1, <2>2, PassTypes DEF TypeOK
    <2>4. ping' \in [Sessions -> BOOLEAN]
      BY <1>22, <2>1 DEF HeartbeatResume, TypeOK
    <2> QED BY <1>22, <2>3, <2>4 DEF HeartbeatResume, TypeOK
  <1>23. ASSUME NEW s \in hbTodo, HeartbeatMissed(s) PROVE TypeOK'
    <2>1. s \in Sessions
      BY DEF TypeOK
    <2>2. \/ HeartbeatGoesOn(hbTodo \ {s}, hbStale)
          \/ HeartbeatGoesOn(hbTodo \ {s}, hbStale \cup {s})
      BY <1>23 DEF HeartbeatMissed
    <2>8. /\ hbTodo \ {s} \in SUBSET Sessions
          /\ hbStale \in SUBSET Sessions /\ hbStale \cup {s} \in SUBSET Sessions
      BY <2>1 DEF TypeOK
    <2>3. /\ hbTodo' \subseteq Sessions /\ hbStale' \subseteq Sessions
          /\ open' \in [Sessions -> BOOLEAN]
      BY <2>2, <2>8, PassTypes
    <2>4. missed[s] \in 0..MaxBusyMissedPongs /\ MaxBusyMissedPongs \in Nat
      BY <2>1, RouterConstants DEF TypeOK
    <2>5. Tolerates(s) => missed[s] + 1 \in 0..MaxBusyMissedPongs
      BY <2>4 DEF Tolerates
    <2>6. missed' = missed \/ (Tolerates(s) /\ missed' = [missed EXCEPT ![s] = @ + 1])
      BY <1>23 DEF HeartbeatMissed, CountMissed
    <2>7. missed' \in [Sessions -> 0..MaxBusyMissedPongs]
      BY <2>5, <2>6 DEF TypeOK
    <2> QED BY <1>23, <2>3, <2>7 DEF HeartbeatMissed, TypeOK
  <1>24. ASSUME NEW s \in hbTodo, HeartbeatPing(s) PROVE TypeOK'
    <2>1. s \in Sessions
      BY DEF TypeOK
    <2>2. CASE hbAt' = s /\ hbTodo' = hbTodo \ {s} /\ WriteWaits(s) /\ UNCHANGED <<ping, open, hbStale>>
      BY <1>24, <2>1, <2>2 DEF HeartbeatPing, TypeOK, WriteWaits
    <2>3. CASE /\ \/ HeartbeatGoesOn(hbTodo \ {s}, hbStale)
                  \/ HeartbeatGoesOn(hbTodo \ {s}, hbStale \cup {s})
               /\ ping' \in {ping, [ping EXCEPT ![s] = TRUE]}
               /\ UNCHANGED <<full, hbAt>>
      <3>3. /\ hbTodo \ {s} \in SUBSET Sessions
            /\ hbStale \in SUBSET Sessions /\ hbStale \cup {s} \in SUBSET Sessions
        BY <2>1 DEF TypeOK
      <3>1. /\ hbTodo' \subseteq Sessions /\ hbStale' \subseteq Sessions
            /\ open' \in [Sessions -> BOOLEAN]
        BY <2>3, <3>3, PassTypes
      <3>2. ping' \in [Sessions -> BOOLEAN]
        BY <2>1, <2>3 DEF TypeOK
      <3> QED BY <1>24, <2>3, <3>1, <3>2 DEF HeartbeatPing, TypeOK
    <2> QED BY <1>24, <2>2, <2>3 DEF HeartbeatPing
  <1>25. ASSUME NEW s \in Sessions, PeerDies(s) PROVE TypeOK'
    BY <1>25 DEF PeerDies, TypeOK
  <1>26. ASSUME NEW s \in Sessions, PeerHangs(s) PROVE TypeOK'
    BY <1>26 DEF PeerHangs, TypeOK
  <1>27. ASSUME NEW s \in Sessions, PeerReturns(s) PROVE TypeOK'
    BY <1>27 DEF PeerReturns, TypeOK
  <1>28. ASSUME NEW s \in Sessions, PeerReads(s) PROVE TypeOK'
    BY <1>28 DEF PeerReads, TypeOK
  <1>29. CASE Restart
    <2>1. phase' \in [Sessions -> Phases] /\ open' \in [Sessions -> BOOLEAN]
      BY <1>29 DEF Restart, TypeOK, Phases
    <2>2. /\ wire' \in [Sessions -> SUBSET Frame] /\ left' \in [Sessions -> SUBSET Dests]
          /\ claimed' \in [Sessions -> SUBSET Row] /\ stuck' \in [Sessions -> Row \cup {None}]
      BY <1>29 DEF Restart
    <2>3. call' \in [Events -> Calls(Dests)]
      <3>1. NoCall \in Calls(Dests)
        BY DEF NoCall, Calls
      <3> QED BY <1>29, <3>1 DEF Restart
    <2>4. status' \in [Events -> Statuses]
      BY <1>29 DEF Restart, TypeOK, Statuses
    <2>5. /\ dests' \in [Sessions -> SUBSET Dests] /\ ping' \in [Sessions -> BOOLEAN]
          /\ inflight' \in [Sessions -> Nat]
          /\ missed' \in [Sessions -> 0..MaxBusyMissedPongs]
      BY <1>29, RouterConstants DEF Restart
    <2>6. /\ UNCHANGED <<joined, peer, full, queue, queued, buried, answered>>
          /\ conns' = {} /\ subs' = {} /\ acks' = {} /\ hbTodo' = {} /\ hbStale' = {}
          /\ hbAt' = None /\ restarts' = restarts + 1
      BY <1>29 DEF Restart
    <2>7. /\ joined' \in [Sessions -> Nat] /\ peer' \in [Sessions -> {"up", "hung", "dead"}]
          /\ full' \in [Sessions -> BOOLEAN] /\ queue' \subseteq Row
          /\ queued' \subseteq Events \X Makers /\ buried' \subseteq Events \X Makers
          /\ answered' \subseteq Events \X Makers /\ restarts' \in Nat
      BY <2>6 DEF TypeOK
    <2> QED BY <2>1, <2>2, <2>3, <2>4, <2>5, <2>6, <2>7 DEF TypeOK, Calls
  <1>31. ASSUME NEW e \in Events, Redrive(e) PROVE TypeOK'
    <2>1. queue' \subseteq Row /\ queued' \subseteq Events \X Makers
      BY <1>31, RedriveEffect
    <2> QED BY <1>31, <2>1 DEF Redrive, TypeOK
  <1>30. CASE UNCHANGED vars
    BY <1>30 DEF vars, TypeOK
  <1> QED BY <1>1, <1>2, <1>3, <1>4, <1>5, <1>6, <1>7, <1>8, <1>9, <1>10, <1>11, <1>12,
     <1>13, <1>14, <1>15, <1>16, <1>17, <1>18, <1>19, <1>20, <1>21, <1>22, <1>23, <1>24,
     <1>25, <1>26, <1>27, <1>28, <1>29, <1>30, <1>31 DEF Next, DeliverStep, HandlerStep,
     HeartbeatStep

\* Every step keeps the calls in progress to destinations of their event.
LEMMA CallsStep ==
    ASSUME TypeOK, CallsFit, [Next]_vars
    PROVE  CallsFit'
  <1>1. ASSUME NEW e \in Events, DeliverSend(e) PROVE CallsFit'
    <2>1. PICK c \in Calls(For(e)) : call' = [call EXCEPT ![e] = c] /\ (c.at # None => c.todo # <<>>)
      BY <1>1, DeliverSendEffect
    <2> QED BY <2>1 DEF CallsFit
  <1>2. ASSUME NEW e \in Events, DeliverResume(e) PROVE CallsFit'
    <2>1. PICK c \in Calls(For(e)) : call' = [call EXCEPT ![e] = c] /\ c.at = None
      BY <1>2, DeliverResumeEffect
    <2> QED BY <2>1 DEF CallsFit
  <1>3. ASSUME NEW e \in Events, DeliverEnd(e) PROVE CallsFit'
    <2>1. NoCall \in Calls(For(e)) /\ NoCall.at = None
      BY DEF NoCall, Calls
    <2> QED BY <1>3, <2>1 DEF DeliverEnd, CallsFit
  <1>4. CASE Restart
    <2>1. \A e \in Events : NoCall \in Calls(For(e)) /\ NoCall.at = None
      BY DEF NoCall, Calls
    <2> QED BY <1>4, <2>1 DEF Restart, CallsFit
  <1>5. CASE UNCHANGED <<call>>
    BY <1>5 DEF CallsFit
  <1>6. ASSUME NEW s \in Sessions, HandlerStep(s) PROVE call' = call
    BY <1>6 DEF session, socket, liveness, beat, drain, history, HandlerStep,
       HelloAckSent, HelloAckFails, DrainDest, DrainBury, DrainSend, DrainResume,
       DrainDone, ReplySent, ReadEof, ReadPong, Close
  <1>7. CASE HeartbeatStep
    <2>1. call' = call
      BY <1>7 DEF session, socket, liveness, beat, drain, history, HeartbeatStep,
         HeartbeatTick, HeartbeatResume, HeartbeatMissed, HeartbeatPing
    <2> QED BY <1>5, <2>1
  <1> QED BY <1>1, <1>2, <1>3, <1>4, <1>5, <1>6, <1>7 DEF Next, DeliverStep, vars, session,
     socket, liveness, beat, drain, history, Redrive, AckAnswered, AckTimeout, Refuse, Register,
     ReadAck, ReadReply, ReadBadFrame, Close, PeerDies, PeerHangs, PeerReturns, PeerReads

\* Every step leaves rows only in the hands of draining tasks, and nothing with a
\* connection that has not said hello.
LEMMA TasksStep ==
    ASSUME TypeOK, CallsFit, TasksFit, [Next]_vars
    PROVE  TasksFit'
  <1>1. ASSUME NEW e \in Events, DeliverSend(e) PROVE TasksFit'
    <2>1. PICK s \in subs, d \in For(e), c \in Calls(For(e)) :
             /\ d \in dests[s]
             /\ \/ SendWake(s, FrameOf(e, d, "live"))
                \/ SendWakeFails(s)
                \/ SendWakeWaits(s, FrameOf(e, d, "live"))
      BY <1>1, DeliverSendEffect
    <2>2. s \in Sessions /\ FrameOf(e, d, "live") \in Frame
      BY DEF TypeOK, FrameOf, Frame, For
    <2>3. /\ subs' \subseteq subs
          /\ \A u \in Sessions : \A g \in wire'[u] : g \in wire[u] \/ u = s
      BY <2>1, <2>2, SendEffect
    <2>4. phase' = phase /\ claimed' = claimed /\ stuck' = stuck
      BY <1>1 DEF DeliverSend, session, drain
    <2> QED BY <2>1, <2>2, <2>3, <2>4 DEF TasksFit
  <1>2. ASSUME NEW e \in Events, DeliverResume(e) PROVE TasksFit'
    <2>1. PICK s \in Sessions, f \in Frame : ResumeWake(s, f) \/ ResumeWakeFails(s, f)
      BY <1>2, DeliverResumeEffect
    <2>2. subs' \subseteq subs /\ wire' = wire
      BY <2>1, ResumeEffect
    <2>3. phase' = phase /\ claimed' = claimed /\ stuck' = stuck
      BY <1>2 DEF DeliverResume, session, drain
    <2> QED BY <2>2, <2>3 DEF TasksFit
  <1>3. ASSUME NEW s \in Sessions, HelloAckSent(s) PROVE TasksFit'
    BY <1>3 DEF HelloAckSent, TasksFit, TypeOK
  <1>4. ASSUME NEW s \in Sessions, HelloAckFails(s) PROVE TasksFit'
    BY <1>4 DEF HelloAckFails, TasksFit, TypeOK, drain
  <1>5. ASSUME NEW s \in Sessions, NEW d \in left[s], DrainDest(s, d) PROVE TasksFit'
    BY <1>5 DEF DrainDest, TasksFit, TypeOK, session
  <1>6. ASSUME NEW s \in Sessions, NEW r \in claimed[s], DrainBury(s, r) PROVE TasksFit'
    BY <1>6 DEF DrainBury, TasksFit, TypeOK, session
  <1>7. ASSUME NEW s \in Sessions, NEW r \in claimed[s], DrainSend(s, r) PROVE TasksFit'
    <2>1. FrameOf(r.ev, r.dest, r.made) \in Frame
      BY DEF TypeOK, Row, FrameOf, Frame, Makers
    <2>2. \/ SendWake(s, FrameOf(r.ev, r.dest, r.made)) \/ SendWakeFails(s)
          \/ SendWakeWaits(s, FrameOf(r.ev, r.dest, r.made))
      BY <1>7 DEF DrainSend
    <2>3. /\ subs' \subseteq subs
          /\ \A u \in Sessions : \A g \in wire'[u] : g \in wire[u] \/ u = s
      BY <2>1, <2>2, SendEffect
    <2>4. phase[s] = "draining"
      BY DEF TasksFit
    <2>5. /\ phase' = phase
          /\ \A u \in Sessions : u # s => claimed'[u] = claimed[u] /\ stuck'[u] = stuck[u]
      BY <1>7 DEF DrainSend, session, TypeOK
    <2> QED BY <2>3, <2>4, <2>5 DEF TasksFit
  <1>8. ASSUME NEW s \in Sessions, DrainResume(s) PROVE TasksFit'
    <2>1. stuck[s] \in Row
      BY <1>8 DEF DrainResume, TypeOK
    <2>2. FrameOf(stuck[s].ev, stuck[s].dest, stuck[s].made) \in Frame
      BY <2>1 DEF Row, FrameOf, Frame, Makers
    <2>3. subs' \subseteq subs /\ wire' = wire
      BY <1>8, <2>2, ResumeEffect DEF DrainResume
    <2>4. /\ phase' = phase /\ claimed' = claimed
          /\ \A u \in Sessions : stuck'[u] = stuck[u] \/ stuck'[u] = None
      BY <1>8 DEF DrainResume, session, TypeOK
    <2> QED BY <2>3, <2>4 DEF TasksFit
  <1>9. ASSUME NEW s \in Sessions, DrainDone(s) PROVE TasksFit'
    BY <1>9 DEF DrainDone, TasksFit, TypeOK, drain
  <1>10. ASSUME NEW s \in Sessions, ReplySent(s) PROVE TasksFit'
    BY <1>10 DEF ReplySent, TasksFit, TypeOK, drain, Close, Cleanup
  <1>11. ASSUME NEW s \in Sessions, ReadEof(s) PROVE TasksFit'
    BY <1>11 DEF ReadEof, TasksFit, TypeOK, drain, Close, Cleanup
  <1>12. ASSUME NEW s \in Sessions, ReadBadFrame(s) PROVE TasksFit'
    BY <1>12 DEF ReadBadFrame, TasksFit, TypeOK, drain, Close, Cleanup
  <1>13. ASSUME NEW s \in Sessions, Refuse(s) PROVE TasksFit'
    BY <1>13 DEF Refuse, TasksFit, TypeOK, drain
  <1>14. ASSUME NEW s \in Sessions, NEW D \in SUBSET Grants[s], Register(s, D) PROVE TasksFit'
    BY <1>14 DEF Register, TasksFit, TypeOK, drain
  <1>15. ASSUME NEW s \in Sessions, NEW f \in wire[s], NEW g \in {"ack", "nack"}, ReadAck(s, f, g)
        PROVE  TasksFit'
    BY <1>15 DEF ReadAck, TasksFit, TypeOK, drain, session
  <1>16. ASSUME NEW s \in Sessions, ReadReply(s) PROVE TasksFit'
    BY <1>16 DEF ReadReply, TasksFit, TypeOK, drain
  <1>17. CASE Restart
    BY <1>17 DEF Restart, TasksFit, TypeOK, Connected
  <1>18. CASE UNCHANGED <<phase, claimed, stuck, wire, subs>>
    BY <1>18 DEF TasksFit
  <1> QED BY <1>1, <1>2, <1>3, <1>4, <1>5, <1>6, <1>7, <1>8, <1>9, <1>10, <1>11, <1>12,
     <1>13, <1>14, <1>15, <1>16, <1>17, <1>18 DEF Next, Redrive, DeliverStep, HandlerStep,
     HeartbeatStep, vars, session, socket, liveness, beat, drain, history, DeliverEnd,
     AckAnswered, AckTimeout, ReadPong, HeartbeatTick, HeartbeatResume, HeartbeatMissed,
     HeartbeatPing, PeerDies, PeerHangs, PeerReturns, PeerReads

\* A drain claims rows of the destination it is at, and counts an attempt of each.
LEMMA DrainDestEffect ==
    ASSUME NEW s \in Sessions, NEW d \in left[s], TypeOK, DrainDest(s, d)
    PROVE  /\ \A r \in queue' : \E q \in queue : RowId(r) = RowId(q) /\ r.dest = q.dest
           /\ \A q \in queue : \E r \in queue' : RowId(r) = RowId(q)
           /\ \A u \in Sessions : \A r \in claimed'[u] :
                 \/ r \in claimed[u]
                 \/ u = s /\ d \in dests[s] /\ \E q \in queue : RowId(q) = RowId(r) /\ q.dest = r.dest /\ r.dest = d
  <1> DEFINE A == {Attempted(r) : r \in RowsFor(d)}
  <1>1. \A r \in A : \E q \in RowsFor(d) : RowId(q) = RowId(r) /\ q.dest = r.dest /\ r.dest = d
    BY DEF Attempted, RowOf, RowsFor, RowId
  <1>2. ASSUME NEW q \in RowsFor(d) PROVE \E r \in A : RowId(r) = RowId(q)
    <2>1. Attempted(q) \in A
      OBVIOUS
    <2>2. RowId(Attempted(q)) = RowId(q)
      BY DEF Attempted, RowOf, RowId
    <2> QED BY <2>1, <2>2
  <1>3. RowsFor(d) \subseteq queue
    BY DEF RowsFor
  <1>4. \/ /\ d \in dests[s]
           /\ claimed' = [claimed EXCEPT ![s] = A] /\ queue' = (queue \ RowsFor(d)) \cup A
        \/ claimed' = claimed /\ queue' = queue
    BY DEF DrainDest, SubscriberFor, Serving
  <1> HIDE DEF A
  <1>5. CASE claimed' = claimed /\ queue' = queue
    BY <1>5
  <1>6. CASE /\ d \in dests[s]
             /\ claimed' = [claimed EXCEPT ![s] = A] /\ queue' = (queue \ RowsFor(d)) \cup A
    <2>1. \A r \in queue' : \E q \in queue : RowId(r) = RowId(q) /\ r.dest = q.dest
      BY <1>1, <1>3, <1>6
    <2>2. \A q \in queue : \E r \in queue' : RowId(r) = RowId(q)
      BY <1>2, <1>6
    <2>3. ASSUME NEW u \in Sessions, NEW r \in claimed'[u], r \notin claimed[u]
          PROVE  u = s /\ r \in A
      BY <1>6, <2>3 DEF TypeOK
    <2> QED BY <1>1, <1>3, <1>6, <2>1, <2>2, <2>3
  <1> QED BY <1>4, <1>5, <1>6

\* Every step leaves only rows for a destination of their event in the queue.
LEMMA RowsStep ==
    ASSUME TypeOK, CallsFit, RowsAddressed, [Next]_vars
    PROVE  RowsAddressed'
  <1>1. ASSUME NEW e \in Events, DeliverEnd(e) PROVE RowsAddressed'
    <2>1. \A r \in queue' : r \in queue \/ r.dest \in NamedBy(r.ev, r.made)
      BY <1>1, DeliverEndEffect
    <2> QED BY <2>1 DEF RowsAddressed
  <1>7. ASSUME NEW e \in Events, Redrive(e) PROVE RowsAddressed'
    <2>1. \A r \in queue' : r \in queue \/ r.dest \in NamedBy(r.ev, r.made)
      BY <1>7, RedriveEffect
    <2> QED BY <2>1 DEF RowsAddressed
  <1>2. ASSUME NEW a \in acks, AckAnswered(a) PROVE RowsAddressed'
    BY <1>2 DEF AckAnswered, RowsAddressed, SettlePending
  <1>3. ASSUME NEW a \in acks, AckTimeout(a) PROVE RowsAddressed'
    BY <1>3 DEF AckTimeout, RowsAddressed, SettlePending
  <1>4. ASSUME NEW s \in Sessions, NEW d \in left[s], DrainDest(s, d) PROVE RowsAddressed'
    <2>1. \A r \in queue' : \E q \in queue : RowId(r) = RowId(q) /\ r.dest = q.dest
      BY <1>4, DrainDestEffect
    <2> QED BY <2>1 DEF RowsAddressed, RowId
  <1>5. ASSUME NEW s \in Sessions, NEW r \in claimed[s], DrainBury(s, r) PROVE RowsAddressed'
    BY <1>5 DEF DrainBury, RowsAddressed
  <1>6. CASE UNCHANGED <<queue>>
    BY <1>6 DEF RowsAddressed
  <1> QED BY <1>1, <1>2, <1>3, <1>4, <1>5, <1>6, <1>7 DEF Next, DeliverStep, HandlerStep,
     HeartbeatStep, vars, session, socket, liveness, beat, drain, history, DeliverSend,
     DeliverResume, HelloAckSent, HelloAckFails, DrainSend, DrainResume, DrainDone,
     ReplySent, ReadEof, ReadPong, Refuse, Register, ReadAck, ReadReply, ReadBadFrame,
     HeartbeatTick, HeartbeatResume, HeartbeatMissed, HeartbeatPing, PeerDies, PeerHangs,
     PeerReturns, PeerReads, Restart, Close

\* Every step leaves a drain only rows for destinations its session serves.
LEMMA HandsStep ==
    ASSUME TypeOK, CallsFit, TasksFit, RowsAddressed, HandsAddressed, [Next]_vars
    PROVE  HandsAddressed'
  <1>1. ASSUME NEW s \in Sessions, NEW d \in left[s], DrainDest(s, d) PROVE HandsAddressed'
    <2>1. \A u \in Sessions : \A r \in claimed'[u] :
                 \/ r \in claimed[u]
                 \/ u = s /\ d \in dests[s] /\ \E q \in queue : RowId(q) = RowId(r) /\ q.dest = r.dest /\ r.dest = d
      BY <1>1, DrainDestEffect
    <2>2. dests' = dests
      BY <1>1 DEF DrainDest, session
    <2> QED BY <2>1, <2>2 DEF HandsAddressed, RowsAddressed, RowId
  <1>2. ASSUME NEW s \in Sessions, NEW r \in claimed[s], DrainBury(s, r) PROVE HandsAddressed'
    BY <1>2 DEF DrainBury, HandsAddressed, TypeOK, session
  <1>3. ASSUME NEW s \in Sessions, NEW r \in claimed[s], DrainSend(s, r) PROVE HandsAddressed'
    BY <1>3 DEF DrainSend, HandsAddressed, TypeOK, session
  <1>4. ASSUME NEW s \in Sessions, ReplySent(s) PROVE HandsAddressed'
    <2>1. claimed[s] = {}
      BY <1>4 DEF ReplySent, TasksFit
    <2> QED BY <1>4, <2>1 DEF ReplySent, HandsAddressed, TypeOK, session, drain, Close
  <1>5. ASSUME NEW s \in Sessions, ReadEof(s) PROVE HandsAddressed'
    <2>1. claimed[s] = {}
      BY <1>5 DEF ReadEof, TasksFit
    <2> QED BY <1>5, <2>1 DEF ReadEof, HandsAddressed, TypeOK, session, drain, Close
  <1>6. ASSUME NEW s \in Sessions, ReadBadFrame(s) PROVE HandsAddressed'
    <2>1. claimed[s] = {}
      BY <1>6 DEF ReadBadFrame, TasksFit
    <2> QED BY <1>6, <2>1 DEF ReadBadFrame, HandsAddressed, TypeOK, session, drain, Close
  <1>7. ASSUME NEW s \in Sessions, NEW D \in SUBSET Grants[s], Register(s, D)
        PROVE  HandsAddressed'
    <2>1. claimed[s] = {}
      BY <1>7 DEF Register, TasksFit
    <2> QED BY <1>7, <2>1 DEF Register, HandsAddressed, TypeOK, session, drain
  <1>8. CASE Restart
    BY <1>8 DEF Restart, HandsAddressed
  <1>9. CASE UNCHANGED <<claimed, dests>>
    BY <1>9 DEF HandsAddressed
  <1> QED BY <1>1, <1>2, <1>3, <1>4, <1>5, <1>6, <1>7, <1>8, <1>9 DEF Next, Redrive, DeliverStep,
     HandlerStep, HeartbeatStep, vars, session, socket, liveness, beat, drain, history,
     DeliverSend, DeliverResume, DeliverEnd, AckAnswered, AckTimeout, HelloAckSent,
     HelloAckFails, DrainResume, DrainDone, ReadPong, Refuse, ReadAck, ReadReply,
     HeartbeatTick, HeartbeatResume, HeartbeatMissed, HeartbeatPing, PeerDies, PeerHangs,
     PeerReturns, PeerReads

\* Every step shows a session only frames for destinations it serves.
LEMMA WiresStep ==
    ASSUME TypeOK, CallsFit, TasksFit, HandsAddressed, SessionScoped, [Next]_vars
    PROVE  SessionScoped'
  <1>1. ASSUME NEW e \in Events, DeliverSend(e) PROVE SessionScoped'
    <2>1. PICK s \in subs, d \in For(e), c \in Calls(For(e)) :
             /\ d \in dests[s]
             /\ \/ SendWake(s, FrameOf(e, d, "live"))
                \/ SendWakeFails(s)
                \/ SendWakeWaits(s, FrameOf(e, d, "live"))
      BY <1>1, DeliverSendEffect
    <2>2. s \in Sessions /\ FrameOf(e, d, "live") \in Frame
      BY DEF TypeOK, FrameOf, Frame, For
    <2>3. \A u \in Sessions : \A g \in wire'[u] :
             g \in wire[u] \/ (u = s /\ g = FrameOf(e, d, "live"))
      BY <2>1, <2>2, SendEffect
    <2>4. dests' = dests
      BY <1>1 DEF DeliverSend, session
    <2>5. FrameOf(e, d, "live").ev = e /\ FrameOf(e, d, "live").dest = d
      BY DEF FrameOf
    <2>6. d \in NamedBy(e, FrameOf(e, d, "live").from)
      BY DEF NamedBy
    <2> QED BY <2>1, <2>3, <2>4, <2>5, <2>6 DEF SessionScoped
  <1>2. ASSUME NEW e \in Events, DeliverResume(e) PROVE SessionScoped'
    <2>1. PICK s \in Sessions, f \in Frame : ResumeWake(s, f) \/ ResumeWakeFails(s, f)
      BY <1>2, DeliverResumeEffect
    <2>2. wire' = wire
      BY <2>1, ResumeEffect
    <2>3. dests' = dests
      BY <1>2 DEF DeliverResume, session
    <2> QED BY <2>2, <2>3 DEF SessionScoped
  <1>3. ASSUME NEW s \in Sessions, NEW r \in claimed[s], DrainSend(s, r) PROVE SessionScoped'
    <2>1. FrameOf(r.ev, r.dest, r.made) \in Frame
      BY DEF TypeOK, Row, FrameOf, Frame, Makers
    <2>2. \/ SendWake(s, FrameOf(r.ev, r.dest, r.made)) \/ SendWakeFails(s)
          \/ SendWakeWaits(s, FrameOf(r.ev, r.dest, r.made))
      BY <1>3 DEF DrainSend
    <2>3. \A u \in Sessions : \A g \in wire'[u] :
             g \in wire[u] \/ (u = s /\ g = FrameOf(r.ev, r.dest, r.made))
      BY <2>1, <2>2, SendEffect
    <2>4. dests' = dests
      BY <1>3 DEF DrainSend, session
    <2>5. /\ FrameOf(r.ev, r.dest, r.made).ev = r.ev /\ FrameOf(r.ev, r.dest, r.made).dest = r.dest
          /\ FrameOf(r.ev, r.dest, r.made).from = r.made
      BY DEF FrameOf
    <2>6. r.dest \in dests[s] /\ r.dest \in NamedBy(r.ev, r.made)
      BY DEF HandsAddressed
    <2> QED BY <2>3, <2>4, <2>5, <2>6 DEF SessionScoped
  <1>4. ASSUME NEW s \in Sessions, DrainResume(s) PROVE SessionScoped'
    <2>1. stuck[s] \in Row
      BY <1>4 DEF DrainResume, TypeOK
    <2>2. FrameOf(stuck[s].ev, stuck[s].dest, stuck[s].made) \in Frame
      BY <2>1 DEF Row, FrameOf, Frame, Makers
    <2>3. wire' = wire
      BY <1>4, <2>2, ResumeEffect DEF DrainResume
    <2>4. dests' = dests
      BY <1>4 DEF DrainResume, session
    <2> QED BY <2>3, <2>4 DEF SessionScoped
  <1>5. ASSUME NEW s \in Sessions, ReplySent(s) PROVE SessionScoped'
    BY <1>5 DEF ReplySent, SessionScoped, TypeOK, session, Close
  <1>6. ASSUME NEW s \in Sessions, ReadEof(s) PROVE SessionScoped'
    BY <1>6 DEF ReadEof, SessionScoped, TypeOK, session, Close
  <1>7. ASSUME NEW s \in Sessions, ReadBadFrame(s) PROVE SessionScoped'
    BY <1>7 DEF ReadBadFrame, SessionScoped, TypeOK, session, Close
  <1>8. ASSUME NEW s \in Sessions, NEW D \in SUBSET Grants[s], Register(s, D)
        PROVE  SessionScoped'
    <2>1. wire[s] = {}
      BY <1>8 DEF Register, TasksFit
    <2> QED BY <1>8, <2>1 DEF Register, SessionScoped, TypeOK
  <1>9. ASSUME NEW s \in Sessions, NEW f \in wire[s], NEW g \in {"ack", "nack"}, ReadAck(s, f, g)
        PROVE  SessionScoped'
    BY <1>9 DEF ReadAck, SessionScoped, TypeOK, session
  <1>10. CASE Restart
    BY <1>10 DEF Restart, SessionScoped
  <1>11. CASE UNCHANGED <<wire, dests>>
    BY <1>11 DEF SessionScoped
  <1> QED BY <1>1, <1>2, <1>3, <1>4, <1>5, <1>6, <1>7, <1>8, <1>9, <1>10, <1>11 DEF Next, Redrive,
     DeliverStep, HandlerStep, HeartbeatStep, vars, session, socket, liveness, beat, drain,
     history, DeliverEnd, AckAnswered, AckTimeout, HelloAckSent, HelloAckFails, DrainDest,
     DrainBury, DrainDone, ReadPong, Refuse, ReadReply, HeartbeatTick, HeartbeatResume,
     HeartbeatMissed, HeartbeatPing, PeerDies, PeerHangs, PeerReturns, PeerReads

\* Every step completes futures only with answers the daemon read.
LEMMA AcksStep ==
    ASSUME TypeOK, CallsFit, AcksRead, [Next]_vars
    PROVE  AcksRead'
  <1>1. ASSUME NEW e \in Events, DeliverSend(e) PROVE AcksRead'
    <2>1. PICK s \in subs, d \in For(e), c \in Calls(For(e)) :
             /\ d \in dests[s]
             /\ \/ SendWake(s, FrameOf(e, d, "live"))
                \/ SendWakeFails(s)
                \/ SendWakeWaits(s, FrameOf(e, d, "live"))
      BY <1>1, DeliverSendEffect
    <2>2. s \in Sessions /\ FrameOf(e, d, "live") \in Frame
      BY DEF TypeOK, FrameOf, Frame, For
    <2>3. \A a \in acks' : a \in acks \/ a.got = "open"
      BY <2>1, <2>2, SendEffect
    <2>4. answered' = answered
      BY <1>1 DEF DeliverSend, history
    <2> QED BY <2>3, <2>4 DEF AcksRead
  <1>2. ASSUME NEW e \in Events, DeliverResume(e) PROVE AcksRead'
    <2>1. PICK s \in Sessions, f \in Frame : ResumeWake(s, f) \/ ResumeWakeFails(s, f)
      BY <1>2, DeliverResumeEffect
    <2>2. \A a \in acks' : \E b \in acks : a.frame = b.frame /\ a.got = b.got
      BY <2>1, ResumeEffect
    <2>3. answered' = answered
      BY <1>2 DEF DeliverResume, history
    <2> QED BY <2>2, <2>3 DEF AcksRead
  <1>3. ASSUME NEW a \in acks, AckAnswered(a) PROVE AcksRead'
    BY <1>3 DEF AckAnswered, AcksRead, history
  <1>4. ASSUME NEW a \in acks, AckTimeout(a) PROVE AcksRead'
    BY <1>4 DEF AckTimeout, AcksRead, history
  <1>5. ASSUME NEW s \in Sessions, NEW r \in claimed[s], DrainSend(s, r) PROVE AcksRead'
    <2>1. FrameOf(r.ev, r.dest, r.made) \in Frame
      BY DEF TypeOK, Row, FrameOf, Frame, Makers
    <2>2. \/ SendWake(s, FrameOf(r.ev, r.dest, r.made)) \/ SendWakeFails(s)
          \/ SendWakeWaits(s, FrameOf(r.ev, r.dest, r.made))
      BY <1>5 DEF DrainSend
    <2>3. \A a \in acks' : a \in acks \/ a.got = "open"
      BY <2>1, <2>2, SendEffect
    <2>4. answered' = answered
      BY <1>5 DEF DrainSend, history
    <2> QED BY <2>3, <2>4 DEF AcksRead
  <1>6. ASSUME NEW s \in Sessions, DrainResume(s) PROVE AcksRead'
    <2>1. stuck[s] \in Row
      BY <1>6 DEF DrainResume, TypeOK
    <2>2. FrameOf(stuck[s].ev, stuck[s].dest, stuck[s].made) \in Frame
      BY <2>1 DEF Row, FrameOf, Frame, Makers
    <2>3. \A a \in acks' : \E b \in acks : a.frame = b.frame /\ a.got = b.got
      BY <1>6, <2>2, ResumeEffect DEF DrainResume
    <2>4. answered' = answered
      BY <1>6 DEF DrainResume, history
    <2> QED BY <2>3, <2>4 DEF AcksRead
  <1>7. ASSUME NEW s \in Sessions, NEW f \in wire[s], NEW g \in {"ack", "nack"}, ReadAck(s, f, g)
        PROVE  AcksRead'
    <2>1. \A a \in acks' : a \in acks \/ (a.frame = f /\ a.got = g)
      BY <1>7, ReadAckEffect
    <2>2. answered \subseteq answered' /\ (f.from # "live" /\ g = "ack" => <<f.ev, f.from>> \in answered')
      BY <1>7 DEF ReadAck
    <2> QED BY <2>1, <2>2 DEF AcksRead
  <1>8. CASE Restart
    BY <1>8 DEF Restart, AcksRead
  <1>9. CASE UNCHANGED <<acks, answered>>
    BY <1>9 DEF AcksRead
  <1> QED BY <1>1, <1>2, <1>3, <1>4, <1>5, <1>6, <1>7, <1>8, <1>9 DEF Next, Redrive, DeliverStep,
     HandlerStep, HeartbeatStep, vars, session, socket, liveness, beat, drain, history,
     DeliverEnd, HelloAckSent, HelloAckFails, DrainDest, DrainBury, DrainDone, ReplySent,
     ReadEof, ReadPong, Refuse, Register, ReadReply, ReadBadFrame, HeartbeatTick,
     HeartbeatResume, HeartbeatMissed, HeartbeatPing, PeerDies, PeerHangs, PeerReturns,
     PeerReads, Close

\* Every step keeps a queued event's row until it is acked or dead-lettered.
LEMMA QueuedStep ==
    ASSUME TypeOK, CallsFit, AcksRead, QueuedUntilAcked, [Next]_vars
    PROVE  QueuedUntilAcked'
  <1>1. ASSUME NEW e \in Events, DeliverEnd(e) PROVE QueuedUntilAcked'
    <2>1. /\ queue \subseteq queue'
          /\ \A i \in queued' : i \in queued \/ \E r \in queue' : RowId(r) = i
      BY <1>1, DeliverEndEffect
    <2>2. answered' = answered /\ buried' = buried
      BY <1>1 DEF DeliverEnd
    <2> QED BY <2>1, <2>2 DEF QueuedUntilAcked
  <1>8. ASSUME NEW e \in Events, Redrive(e) PROVE QueuedUntilAcked'
    <2>1. /\ queue \subseteq queue'
          /\ \A i \in queued' : i \in queued \/ \E r \in queue' : RowId(r) = i
      BY <1>8, RedriveEffect
    <2>2. answered' = answered /\ buried' = buried
      BY <1>8 DEF Redrive
    <2> QED BY <2>1, <2>2 DEF QueuedUntilAcked
  <1>2. ASSUME NEW a \in acks, AckAnswered(a) PROVE QueuedUntilAcked'
    <2>1. \A r \in queue :
             r \in queue' \/ (a.got = "ack" /\ RowId(r) = <<a.frame.ev, a.frame.from>>)
      BY <1>2 DEF AckAnswered, SettlePending
    <2>4. \A r \in queue : RowId(r) = <<a.frame.ev, a.frame.from>> => a.frame.from # "live"
      BY DEF TypeOK, Row, RowId, Makers
    <2>2. \A r \in queue : r \in queue' \/ RowId(r) \in answered
      BY <2>1, <2>4 DEF AcksRead
    <2>3. queued' = queued /\ answered' = answered /\ buried' = buried
      BY <1>2 DEF AckAnswered, history
    <2> QED BY <2>2, <2>3 DEF QueuedUntilAcked
  <1>3. ASSUME NEW a \in acks, AckTimeout(a) PROVE QueuedUntilAcked'
    BY <1>3 DEF AckTimeout, SettlePending, QueuedUntilAcked, history
  <1>4. ASSUME NEW s \in Sessions, NEW d \in left[s], DrainDest(s, d) PROVE QueuedUntilAcked'
    <2>1. \A q \in queue : \E r \in queue' : RowId(r) = RowId(q)
      BY <1>4, DrainDestEffect
    <2>2. queued' = queued /\ answered' = answered /\ buried' = buried
      BY <1>4 DEF DrainDest, history
    <2> QED BY <2>1, <2>2 DEF QueuedUntilAcked
  <1>5. ASSUME NEW s \in Sessions, NEW r \in claimed[s], DrainBury(s, r) PROVE QueuedUntilAcked'
    BY <1>5 DEF DrainBury, QueuedUntilAcked
  <1>6. ASSUME NEW s \in Sessions, NEW f \in wire[s], NEW g \in {"ack", "nack"}, ReadAck(s, f, g)
        PROVE  QueuedUntilAcked'
    <2>1. queue' = queue /\ queued' = queued /\ answered \subseteq answered' /\ buried' = buried
      BY <1>6 DEF ReadAck
    <2> QED BY <2>1 DEF QueuedUntilAcked
  <1>7. CASE UNCHANGED <<queue, queued, answered, buried>>
    BY <1>7 DEF QueuedUntilAcked
  <1> QED BY <1>1, <1>2, <1>3, <1>4, <1>5, <1>6, <1>7, <1>8 DEF Next, DeliverStep, HandlerStep,
     HeartbeatStep, vars, session, socket, liveness, beat, drain, history, DeliverSend,
     DeliverResume, HelloAckSent, HelloAckFails, DrainSend, DrainResume, DrainDone,
     ReplySent, ReadEof, ReadPong, Refuse, Register, ReadReply, ReadBadFrame, HeartbeatTick,
     HeartbeatResume, HeartbeatMissed, HeartbeatPing, PeerDies, PeerHangs, PeerReturns,
     PeerReads, Restart, Close

-----------------------------------------------------------------------------
(* what a session owes *)

\* The image of a finite set is no larger.
LEMMA ImageSmall ==
    ASSUME NEW S, IsFiniteSet(S), NEW T, NEW g \in [S -> T], \A y \in T : \E x \in S : g[x] = y
    PROVE  IsFiniteSet(T) /\ Cardinality(T) <= Cardinality(S)
  <1>1. g \in Surjection(S, T)
    BY DEF Surjection
  <1> QED BY <1>1, FS_Surjection

\* What a session owes can be counted.
LEMMA OwedFinite ==
    ASSUME IsFiniteSet(acks), NEW s
    PROVE  IsFiniteSet(Owed(s)) /\ Cardinality(Owed(s)) \in Nat
  <1>1. Owed(s) \subseteq acks
    BY DEF Owed
  <1> QED BY <1>1, FS_Subset, FS_CardinalityType

\* A future that is gone is not owed.
LEMMA FewerOwed ==
    ASSUME FuturesFit, TypeOK, acks' \subseteq acks, subs' \subseteq subs, inflight' \in [Sessions -> Nat],
           \A t \in subs' : inflight'[t] = inflight[t]
    PROVE  IsFiniteSet(acks)' /\ OneWaiting' /\ InFlightCovers'
  <1>1. IsFiniteSet(acks')
    BY FS_Subset DEF FuturesFit
  <1>2. OneWaiting'
    BY DEF FuturesFit, OneWaiting
  <1>3. ASSUME NEW t \in subs' PROVE Cardinality(Owed(t)') <= inflight'[t]
    <2>1. Owed(t)' \subseteq Owed(t)
      BY DEF Owed
    <2>2. IsFiniteSet(Owed(t)) /\ Cardinality(Owed(t)) \in Nat
      BY OwedFinite DEF FuturesFit
    <2>3. IsFiniteSet(Owed(t)') /\ Cardinality(Owed(t)') <= Cardinality(Owed(t))
      BY <2>1, <2>2, FS_Subset
    <2>4. Cardinality(Owed(t)') \in Nat
      BY <2>3, FS_CardinalityType
    <2>5. Cardinality(Owed(t)) <= inflight[t] /\ inflight[t] \in Nat
      BY DEF FuturesFit, InFlightCovers, TypeOK
    <2> QED BY <2>2, <2>3, <2>4, <2>5
  <1>4. InFlightCovers'
    BY <1>3 DEF InFlightCovers
  <1> QED BY <1>1, <1>2, <1>4

\* One future more is covered by one delivery more in flight.
LEMMA OneMoreOwed ==
    ASSUME TypeOK, NEW s \in Sessions, NEW x, IsFiniteSet(acks), IsFiniteSet(acks)',
           Owed(s)' \subseteq Owed(s) \cup {x}, s \in subs => Cardinality(Owed(s)) <= inflight[s],
           CountInFlight(s, x)
    PROVE  s \in subs => Cardinality(Owed(s)') <= inflight'[s]
  <1> SUFFICES ASSUME s \in subs PROVE Cardinality(Owed(s)') <= inflight'[s]
    OBVIOUS
  <1>1. IsFiniteSet(Owed(s)) /\ Cardinality(Owed(s)) \in Nat
    BY OwedFinite
  <1>2. /\ IsFiniteSet(Owed(s) \cup {x})
        /\ Cardinality(Owed(s) \cup {x}) \in {Cardinality(Owed(s)), Cardinality(Owed(s)) + 1}
    BY <1>1, FS_AddElement
  <1>3. IsFiniteSet(Owed(s)') /\ Cardinality(Owed(s)') <= Cardinality(Owed(s) \cup {x})
    BY <1>2, FS_Subset
  <1>4. Cardinality(Owed(s)') \in Nat
    BY <1>3, FS_CardinalityType
  <1>5. inflight'[s] = inflight[s] + 1 /\ inflight[s] \in Nat
    BY DEF CountInFlight, TypeOK
  <1> QED BY <1>1, <1>2, <1>3, <1>4, <1>5

\* A write makes one future, which is owed once the write has returned.
LEMMA SendCovers ==
    ASSUME TypeOK, FuturesFit, NEW s \in Sessions, NEW f \in Frame,
           \A a \in acks : a.sess = s /\ a.frame = f => a.live,
           SendWake(s, f) \/ SendWakeFails(s) \/ SendWakeWaits(s, f)
    PROVE  /\ IsFiniteSet(acks)' /\ OneWaiting' /\ InFlightCovers'
           /\ \A a \in acks' : a \in acks \/ (a.frame = f /\ a.sess = s)
           /\ \A a \in acks' : a \in acks \/ a.live \/ SendWakeWaits(s, f)
  <1>1. CASE SendWake(s, f)
    <2> DEFINE x == AckOf(f, s, "open", TRUE)
    <2>1. x.frame = f /\ x.sess = s /\ x.live
      BY DEF AckOf
    <2>2. acks' = acks \cup {x} /\ subs' = subs /\ CountInFlight(s, f)
      BY <1>1 DEF SendWake
    <2> HIDE DEF x
    <2>3. IsFiniteSet(acks) /\ IsFiniteSet(acks')
      BY <2>2, FS_AddElement DEF FuturesFit
    <2>4. OneWaiting'
      BY <2>1, <2>2 DEF FuturesFit, OneWaiting
    <2>5. s \in subs => Cardinality(Owed(s)') <= inflight'[s]
      <3>1. Owed(s)' \subseteq Owed(s) \cup {x}
        BY <2>2 DEF Owed
      <3>2. CountInFlight(s, x)
        BY <2>2 DEF CountInFlight
      <3> QED BY <2>3, <3>1, <3>2, OneMoreOwed DEF FuturesFit, InFlightCovers
    <2>6. ASSUME NEW t \in subs', t # s PROVE Cardinality(Owed(t)') <= inflight'[t]
      <3>1. Owed(t)' = Owed(t)
        BY <2>1, <2>2, <2>6 DEF Owed
      <3>2. inflight'[t] = inflight[t]
        BY <2>2, <2>6 DEF CountInFlight, TypeOK
      <3> QED BY <2>2, <3>1, <3>2 DEF FuturesFit, InFlightCovers
    <2>7. InFlightCovers'
      BY <2>2, <2>5, <2>6 DEF InFlightCovers
    <2> QED BY <2>1, <2>2, <2>3, <2>4, <2>7
  <1>2. CASE SendWakeFails(s)
    <2>1. acks' = acks /\ inflight' = inflight /\ subs' \subseteq subs
      BY <1>2 DEF SendWakeFails, Evict
    <2>2. inflight' \in [Sessions -> Nat]
      BY <2>1 DEF TypeOK
    <2> QED BY <2>1, <2>2, FewerOwed
  <1>3. CASE SendWakeWaits(s, f)
    <2> DEFINE x == AckOf(f, s, "open", FALSE)
    <2>1. x.frame = f /\ x.sess = s /\ ~x.live
      BY DEF AckOf
    <2>2. acks' = acks \cup {x} /\ subs' = subs /\ inflight' = inflight
      BY <1>3 DEF SendWakeWaits
    <2> HIDE DEF x
    <2>3. IsFiniteSet(acks')
      BY <2>2, FS_AddElement DEF FuturesFit
    <2>4. OneWaiting'
      BY <2>1, <2>2 DEF FuturesFit, OneWaiting
    <2>5. \A t : Owed(t)' = Owed(t)
      BY <2>1, <2>2 DEF Owed
    <2>6. InFlightCovers'
      BY <2>2, <2>5 DEF FuturesFit, InFlightCovers
    <2> QED BY <1>3, <2>1, <2>2, <2>3, <2>4, <2>6
  <1> QED BY <1>1, <1>2, <1>3

\* The end of a wait makes the one future of the write owed, or drops it.
LEMMA ResumeCovers ==
    ASSUME TypeOK, FuturesFit, NEW s \in Sessions, NEW f \in Frame,
           ResumeWake(s, f) \/ ResumeWakeFails(s, f)
    PROVE  /\ IsFiniteSet(acks)' /\ OneWaiting' /\ InFlightCovers'
           /\ \A a \in acks' : a.live \/ (a \in acks /\ ~(a.frame = f /\ a.sess = s))
           /\ \A a \in acks' : \E b \in acks : a.sess = b.sess
  <1>1. CASE ResumeWake(s, f)
    <2> DEFINE g == [a \in acks |-> IF a.frame = f /\ a.sess = s THEN AckOf(f, s, a.got, TRUE) ELSE a]
    <2>1. /\ acks' = {IF a.frame = f /\ a.sess = s THEN AckOf(f, s, a.got, TRUE) ELSE a : a \in acks}
          /\ subs' = subs /\ CountInFlight(s, f)
      BY <1>1 DEF ResumeWake
    <2>2. g \in [acks -> acks'] /\ \A y \in acks' : \E x \in acks : g[x] = y
      BY <2>1
    <2>3. \A a \in acks : IF a.frame = f /\ a.sess = s
                          THEN g[a] = AckOf(f, s, a.got, TRUE)
                          ELSE g[a] = a
      OBVIOUS
    <2>4. \A a \in acks : /\ a.frame \in Frame /\ a.sess \in Sessions /\ a.live \in BOOLEAN
                          /\ a.live => a = AckOf(a.frame, a.sess, a.got, TRUE)
      BY DEF TypeOK, Ack, AckOf
    <2>5. \A v : /\ AckOf(f, s, v, TRUE).frame = f /\ AckOf(f, s, v, TRUE).sess = s
                 /\ AckOf(f, s, v, TRUE).live
      BY DEF AckOf
    <2> HIDE DEF g
    <2>6. IsFiniteSet(acks) /\ IsFiniteSet(acks')
      BY <2>2, ImageSmall DEF FuturesFit
    <2>14. ASSUME NEW a \in acks'
           PROVE  /\ a.live \/ (a \in acks /\ ~(a.frame = f /\ a.sess = s))
                  /\ \E b \in acks : a.sess = b.sess
      <3>1. PICK b \in acks : g[b] = a
        BY <2>2
      <3>2. CASE b.frame = f /\ b.sess = s
        <4>1. a = AckOf(f, s, b.got, TRUE)
          BY <2>3, <3>1, <3>2
        <4> QED BY <2>5, <3>2, <4>1
      <3>3. CASE ~(b.frame = f /\ b.sess = s)
        <4>1. a = b
          BY <2>3, <3>1, <3>3
        <4> QED BY <3>3, <4>1
      <3> QED BY <3>2, <3>3
    <2>7. \A a \in acks' : a.live \/ (a \in acks /\ ~(a.frame = f /\ a.sess = s))
      BY <2>14
    <2>8. \A a \in acks' : \E b \in acks : a.sess = b.sess
      BY <2>14
    <2>9. OneWaiting'
      BY <2>7 DEF FuturesFit, OneWaiting
    <2>10. \E x : Owed(s)' \subseteq Owed(s) \cup {x}
      <3>1. CASE \E m \in acks : m.frame = f /\ m.sess = s /\ ~m.live
        <4>1. PICK m \in acks : m.frame = f /\ m.sess = s /\ ~m.live
          BY <3>1
        <4>2. ASSUME NEW y \in acks', y.sess = s, y.live
              PROVE  y \in Owed(s) \/ y = AckOf(f, s, m.got, TRUE)
          <5>1. PICK a \in acks : g[a] = y
            BY <2>2
          <5>2. CASE a.frame = f /\ a.sess = s /\ ~a.live
            <6>1. a = m
              BY <4>1, <5>2 DEF FuturesFit, OneWaiting
            <6> QED BY <2>3, <5>1, <5>2, <6>1
          <5>3. CASE ~(a.frame = f /\ a.sess = s /\ ~a.live)
            <6>1. y = a
              BY <2>3, <2>4, <5>1, <5>3
            <6> QED BY <4>2, <6>1 DEF Owed
          <5> QED BY <5>2, <5>3
        <4>3. Owed(s)' \subseteq Owed(s) \cup {AckOf(f, s, m.got, TRUE)}
          BY <4>2 DEF Owed
        <4> QED BY <4>3
      <3>2. CASE ~\E m \in acks : m.frame = f /\ m.sess = s /\ ~m.live
        <4>1. ASSUME NEW y \in acks', y.sess = s, y.live PROVE y \in Owed(s)
          <5>1. PICK a \in acks : g[a] = y
            BY <2>2
          <5>2. y = a
            BY <2>3, <2>4, <3>2, <5>1
          <5> QED BY <4>1, <5>2 DEF Owed
        <4>2. Owed(s)' \subseteq Owed(s) \cup {None}
          BY <4>1 DEF Owed
        <4> QED BY <4>2
      <3> QED BY <3>1, <3>2
    <2>11. s \in subs => Cardinality(Owed(s)') <= inflight'[s]
      <3>1. PICK x : Owed(s)' \subseteq Owed(s) \cup {x}
        BY <2>10
      <3>2. CountInFlight(s, x)
        BY <2>1 DEF CountInFlight
      <3> QED BY <2>6, <3>1, <3>2, OneMoreOwed DEF FuturesFit, InFlightCovers
    <2>12. ASSUME NEW t \in subs', t # s PROVE Cardinality(Owed(t)') <= inflight'[t]
      <3>1. Owed(t)' = Owed(t)
        <4>1. \A a \in acks : a.sess = t => g[a] = a
          BY <2>3, <2>12
        <4>2. \A a \in acks : a.sess # t => g[a].sess # t
          BY <2>3, <2>5, <2>12
        <4>3. \A a : (a \in acks' /\ a.sess = t) <=> (a \in acks /\ a.sess = t)
          BY <2>2, <4>1, <4>2
        <4> QED BY <4>3 DEF Owed
      <3>2. inflight'[t] = inflight[t]
        BY <2>1, <2>12 DEF CountInFlight, TypeOK
      <3> QED BY <2>1, <3>1, <3>2 DEF FuturesFit, InFlightCovers
    <2>13. InFlightCovers'
      BY <2>1, <2>11, <2>12 DEF InFlightCovers
    <2> QED BY <2>6, <2>7, <2>8, <2>9, <2>13
  <1>2. CASE ResumeWakeFails(s, f)
    <2>1. /\ acks' = {a \in acks : ~(a.frame = f /\ a.sess = s)}
          /\ inflight' = inflight /\ subs' \subseteq subs
      BY <1>2 DEF ResumeWakeFails, Evict
    <2>2. inflight' \in [Sessions -> Nat]
      BY <2>1 DEF TypeOK
    <2>3. IsFiniteSet(acks)' /\ OneWaiting' /\ InFlightCovers'
      BY <2>1, <2>2, FewerOwed
    <2> QED BY <2>1, <2>3
  <1> QED BY <1>1, <1>2

\* Unless the write waits, the future is owed at once.
LEMMA SentIsLive ==
    ASSUME NEW s, NEW f, SendWake(s, f) \/ SendWakeFails(s)
    PROVE  \A a \in acks' : a \in acks \/ a.live
  <1>1. AckOf(f, s, "open", TRUE).live
    BY DEF AckOf
  <1> QED BY <1>1 DEF SendWake, SendWakeFails

\* The two ends of an ack waiter.
LEMMA AckCovers ==
    ASSUME TypeOK, FuturesFit, NEW a \in acks, AckAnswered(a) \/ AckTimeout(a)
    PROVE  FuturesFit'
  <1>1. /\ acks' = acks \ {a} /\ a.live /\ a.sess \in Sessions
        /\ UNCHANGED <<subs, phase, stuck, call>>
    BY DEF AckAnswered, AckTimeout, TypeOK, Ack, session, drain
  <1>2. IsFiniteSet(acks) /\ IsFiniteSet(acks')
    BY <1>1, FS_Subset DEF FuturesFit
  <1>3. WritesHeld' /\ OneWaiting' /\ NewOwesNothing'
    BY <1>1 DEF FuturesFit, WritesHeld, Waits, OneWaiting, NewOwesNothing
  <1>4. ASSUME NEW t \in subs PROVE Cardinality(Owed(t)') <= inflight'[t]
    <2>1. IsFiniteSet(Owed(t)) /\ Cardinality(Owed(t)) \in Nat
      BY <1>2, OwedFinite
    <2>2. Cardinality(Owed(t)) <= inflight[t] /\ inflight[t] \in Nat
      BY DEF FuturesFit, InFlightCovers, TypeOK
    <2>3. CASE t = a.sess
      <3>1. Owed(t)' = Owed(t) \ {a} /\ a \in Owed(t)
        BY <1>1, <2>3 DEF Owed
      <3>2. Cardinality(Owed(t)') = Cardinality(Owed(t)) - 1 /\ Cardinality(Owed(t)') \in Nat
        BY <2>1, <3>1, FS_RemoveElement, FS_CardinalityType
      <3>3. inflight[t] > 0
        BY <2>1, <2>2, <3>2
      <3>4. inflight'[t] \in {inflight[t], inflight[t] - 1}
        <4>1. CASE AckAnswered(a)
          BY <2>3, <3>3, <4>1 DEF AckAnswered, TypeOK
        <4>2. CASE AckTimeout(a)
          BY <4>2 DEF AckTimeout
        <4> QED BY <4>1, <4>2
      <3> QED BY <2>1, <2>2, <3>2, <3>4
    <2>4. CASE t # a.sess
      <3>1. Owed(t)' = Owed(t)
        BY <1>1, <2>4 DEF Owed
      <3>2. inflight'[t] = inflight[t]
        BY <2>4 DEF AckAnswered, AckTimeout, TypeOK
      <3> QED BY <2>2, <3>1, <3>2
    <2> QED BY <2>3, <2>4
  <1>5. InFlightCovers'
    BY <1>1, <1>4 DEF InFlightCovers
  <1> QED BY <1>2, <1>3, <1>5 DEF FuturesFit

\* An ack that is read completes futures; it neither makes nor removes one.
LEMMA ReadCovers ==
    ASSUME TypeOK, FuturesFit, NEW s \in Sessions, NEW f \in wire[s], NEW v \in {"ack", "nack"},
           ReadAck(s, f, v)
    PROVE  FuturesFit'
  <1> DEFINE g == [a \in acks |-> IF a.frame = f /\ a.sess = s /\ a.got = "open"
                                  THEN AckOf(f, s, v, a.live) ELSE a]
  <1>1. /\ acks' = {IF a.frame = f /\ a.sess = s /\ a.got = "open" THEN AckOf(f, s, v, a.live)
                    ELSE a : a \in acks}
        /\ UNCHANGED <<subs, inflight, phase, stuck, call>>
    BY DEF ReadAck, session, drain
  <1>2. g \in [acks -> acks'] /\ \A y \in acks' : \E x \in acks : g[x] = y
    BY <1>1
  <1>3. ASSUME NEW a \in acks
        PROVE  g[a].frame = a.frame /\ g[a].sess = a.sess /\ g[a].live = a.live
    <2>1. CASE a.frame = f /\ a.sess = s /\ a.got = "open"
      <3>1. g[a] = AckOf(f, s, v, a.live)
        BY <2>1
      <3>2. /\ AckOf(f, s, v, a.live).frame = f /\ AckOf(f, s, v, a.live).sess = s
            /\ AckOf(f, s, v, a.live).live = a.live
        BY DEF AckOf
      <3> QED BY <2>1, <3>1, <3>2
    <2>2. CASE ~(a.frame = f /\ a.sess = s /\ a.got = "open")
      <3>1. g[a] = a
        BY <2>2
      <3> QED BY <3>1
    <2> QED BY <2>1, <2>2
  <1> HIDE DEF g
  <1>4. IsFiniteSet(acks) /\ IsFiniteSet(acks')
    BY <1>2, ImageSmall DEF FuturesFit
  <1>5. WritesHeld'
    <2> SUFFICES ASSUME NEW y \in acks', ~y.live PROVE Waits(y)'
      BY DEF WritesHeld
    <2>1. PICK x \in acks : g[x] = y
      BY <1>2
    <2>2. y.frame = x.frame /\ y.sess = x.sess /\ ~x.live
      BY <1>3, <2>1
    <2>3. Waits(x)
      BY <2>2 DEF FuturesFit, WritesHeld
    <2> QED BY <1>1, <2>2, <2>3 DEF Waits
  <1>6. OneWaiting'
    <2> SUFFICES ASSUME NEW y \in acks', NEW z \in acks', ~y.live, ~z.live, y.frame = z.frame, y.sess = z.sess
                 PROVE  y = z
      BY DEF OneWaiting
    <2>1. PICK x \in acks : g[x] = y
      BY <1>2
    <2>2. PICK w \in acks : g[w] = z
      BY <1>2
    <2>3. x.frame = w.frame /\ x.sess = w.sess /\ ~x.live /\ ~w.live
      BY <1>3, <2>1, <2>2
    <2>4. x = w
      BY <2>3 DEF FuturesFit, OneWaiting
    <2> QED BY <2>1, <2>2, <2>4
  <1>7. NewOwesNothing'
    <2> SUFFICES ASSUME NEW y \in acks' PROVE phase'[y.sess] # "unused"
      BY DEF NewOwesNothing
    <2>1. PICK x \in acks : g[x] = y
      BY <1>2
    <2>2. y.sess = x.sess
      BY <1>3, <2>1
    <2> QED BY <1>1, <2>2 DEF FuturesFit, NewOwesNothing
  <1>8. ASSUME NEW t \in subs PROVE Cardinality(Owed(t)') <= inflight[t]
    <2> DEFINE A == Owed(t)
               B == Owed(t)'
               h == [a \in A |-> g[a]]
    <2>1. h \in [A -> B] /\ \A y \in B : \E x \in A : h[x] = y
      <3>1. ASSUME NEW x \in A PROVE g[x] \in B
        <4>1. x \in acks /\ x.sess = t /\ x.live
          BY DEF Owed
        <4>2. g[x] \in acks' /\ g[x].sess = t /\ g[x].live
          BY <1>2, <1>3, <4>1
        <4> QED BY <4>2 DEF Owed
      <3>2. ASSUME NEW y \in B PROVE \E x \in A : g[x] = y
        <4>1. y \in acks' /\ y.sess = t /\ y.live
          BY DEF Owed
        <4>2. PICK x \in acks : g[x] = y
          BY <1>2, <4>1
        <4>3. x.sess = t /\ x.live
          BY <1>3, <4>1, <4>2
        <4> QED BY <4>2, <4>3 DEF Owed
      <3> HIDE DEF A, B
      <3> QED BY <3>1, <3>2
    <2>2. IsFiniteSet(A) /\ Cardinality(A) \in Nat
      BY <1>4, OwedFinite
    <2> HIDE DEF h, A, B
    <2>3. IsFiniteSet(B) /\ Cardinality(B) <= Cardinality(A)
      BY <2>1, <2>2, ImageSmall
    <2>4. Cardinality(B) \in Nat
      BY <2>3, FS_CardinalityType
    <2>5. Cardinality(A) <= inflight[t] /\ inflight[t] \in Nat
      BY DEF FuturesFit, InFlightCovers, TypeOK, A
    <2>6. Cardinality(B) <= inflight[t]
      BY <2>2, <2>3, <2>4, <2>5
    <2> QED BY <2>6 DEF B
  <1>9. InFlightCovers'
    BY <1>1, <1>8 DEF InFlightCovers
  <1> QED BY <1>4, <1>5, <1>6, <1>7, <1>9 DEF FuturesFit

\* Steps that leave the futures and those who wait for them alone.
LEMMA OthersCover ==
    ASSUME TypeOK, FuturesFit, UNCHANGED <<acks, stuck, call>>, subs' \subseteq subs,
           inflight' \in [Sessions -> Nat], \A t \in subs' : inflight'[t] = inflight[t],
           \A t \in Sessions : phase'[t] = "unused" => phase[t] = "unused"
    PROVE  FuturesFit'
  <1>1. IsFiniteSet(acks)' /\ OneWaiting' /\ InFlightCovers'
    BY FewerOwed
  <1>2. WritesHeld'
    BY DEF FuturesFit, WritesHeld, Waits
  <1>3. NewOwesNothing'
    BY DEF FuturesFit, NewOwesNothing, TypeOK, Ack
  <1> QED BY <1>1, <1>2, <1>3 DEF FuturesFit

\* Every step keeps the futures and what is counted of them.
LEMMA FuturesStep ==
    ASSUME TypeOK, CallsFit, TasksFit, FuturesFit, [Next]_vars
    PROVE  FuturesFit'
  <1> USE DEF session, socket, liveness, beat, drain, history
  <1>0. /\ None \notin Sessions
        /\ \A a \in acks : a.frame \in Frame /\ a.frame.ev \in Events /\ a.sess \in Sessions
        /\ \A a \in acks : ~a.live => Waits(a)
    BY RouterConstants DEF TypeOK, Ack, Frame, FuturesFit, WritesHeld
  <1>1. ASSUME NEW e \in Events, DeliverSend(e) PROVE FuturesFit'
    <2>1. PICK s \in subs, d \in For(e), c \in Calls(For(e)) :
             /\ \/ SendWake(s, FrameOf(e, d, "live")) /\ c.at = None
                \/ SendWakeFails(s) /\ c.at = None
                \/ /\ SendWakeWaits(s, FrameOf(e, d, "live"))
                   /\ c.at = s /\ c.todo # <<>> /\ Head(c.todo) = d
             /\ call' = [call EXCEPT ![e] = c]
      BY <1>1, DeliverSendEffect
    <2> DEFINE f == FrameOf(e, d, "live")
    <2>2. /\ s \in Sessions /\ f \in Frame /\ f.ev = e /\ f.dest = d /\ f.from = "live" /\ phase[s] # "unused"
          /\ call[e].at = None /\ UNCHANGED <<phase, stuck>>
      BY <1>1 DEF DeliverSend, TypeOK, TasksFit, FrameOf, Frame, For
    <2>3. \A a \in acks : ~a.live /\ a.frame.from = "live" => a.frame.ev # e
      BY <1>0, <2>2 DEF Waits
    <2>4. /\ call'[e] = c
          /\ \A x \in Events : x # e => call'[x] = call[x]
      BY <2>1 DEF TypeOK
    <2> HIDE DEF f
    <2>5. \A a \in acks : a.sess = s /\ a.frame = f => a.live
      BY <2>2, <2>3
    <2>6. SendWake(s, f) \/ SendWakeFails(s) \/ SendWakeWaits(s, f)
      BY <2>1 DEF f
    <2>7. /\ IsFiniteSet(acks)' /\ OneWaiting' /\ InFlightCovers'
          /\ \A a \in acks' : a \in acks \/ (a.frame = f /\ a.sess = s)
      BY <2>2, <2>5, <2>6, SendCovers
    <2>8. WritesHeld'
      <3> SUFFICES ASSUME NEW a \in acks', ~a.live PROVE Waits(a)'
        BY DEF WritesHeld
      <3>1. CASE a \in acks
        <4>1. Waits(a)
          BY <1>0, <3>1
        <4>2. CASE a.frame.from # "live"
          BY <2>2, <4>1, <4>2 DEF Waits
        <4>3. CASE a.frame.from = "live"
          <5>1. call'[a.frame.ev] = call[a.frame.ev]
            BY <1>0, <2>3, <2>4, <3>1, <4>3
          <5> QED BY <4>1, <4>3, <5>1 DEF Waits
        <4> QED BY <4>2, <4>3
      <3>2. CASE a \notin acks
        <4>1. a.frame = f /\ a.sess = s
          BY <2>7, <3>2
        <4>2. ~(SendWake(s, f) \/ SendWakeFails(s))
          BY <3>2, SentIsLive
        <4>3. c.at = s /\ Head(c.todo) = d
          BY <2>1, <4>2 DEF f
        <4> QED BY <2>2, <2>4, <4>1, <4>3 DEF Waits, f
      <3> QED BY <3>1, <3>2
    <2>9. NewOwesNothing'
      BY <2>2, <2>7 DEF FuturesFit, NewOwesNothing
    <2> QED BY <2>7, <2>8, <2>9 DEF FuturesFit
  <1>2. ASSUME NEW e \in Events, DeliverResume(e) PROVE FuturesFit'
    <2>1. PICK s \in Sessions, f \in Frame, c \in Calls(For(e)) :
             /\ s = call[e].at /\ f = FrameOf(e, Head(call[e].todo), "live")
             /\ ResumeWake(s, f) \/ ResumeWakeFails(s, f)
             /\ call' = [call EXCEPT ![e] = c]
      BY <1>2, DeliverResumeEffect
    <2>2. UNCHANGED <<phase, stuck>> /\ \A x \in Events : x # e => call'[x] = call[x]
      BY <1>2, <2>1 DEF DeliverResume, TypeOK
    <2>3. /\ IsFiniteSet(acks)' /\ OneWaiting' /\ InFlightCovers'
          /\ \A a \in acks' : a.live \/ (a \in acks /\ ~(a.frame = f /\ a.sess = s))
          /\ \A a \in acks' : \E b \in acks : a.sess = b.sess
      BY <2>1, ResumeCovers
    <2>4. WritesHeld'
      <3> SUFFICES ASSUME NEW a \in acks', ~a.live PROVE Waits(a)'
        BY DEF WritesHeld
      <3>1. a \in acks /\ ~(a.frame = f /\ a.sess = s) /\ Waits(a)
        BY <1>0, <2>3
      <3>2. CASE a.frame.from # "live"
        BY <2>2, <3>1, <3>2 DEF Waits
      <3>3. CASE a.frame.from = "live"
        <4>1. a.frame.ev # e
          BY <2>1, <3>1, <3>3 DEF Waits
        <4>2. call'[a.frame.ev] = call[a.frame.ev]
          BY <1>0, <2>2, <3>1, <4>1
        <4> QED BY <3>1, <3>3, <4>2 DEF Waits
      <3> QED BY <3>2, <3>3
    <2>5. NewOwesNothing'
      BY <2>2, <2>3 DEF FuturesFit, NewOwesNothing
    <2> QED BY <2>3, <2>4, <2>5 DEF FuturesFit
  <1>3. ASSUME NEW e \in Events, DeliverEnd(e) PROVE FuturesFit'
    <2>1. /\ call[e].at = None /\ UNCHANGED <<acks, subs, inflight, phase, stuck>>
          /\ \A x \in Events : x # e => call'[x] = call[x]
      BY <1>3 DEF DeliverEnd, TypeOK
    <2>2. \A a \in acks : ~a.live /\ a.frame.from = "live" => a.frame.ev # e
      BY <1>0, <2>1 DEF Waits
    <2>3. WritesHeld'
      <3> SUFFICES ASSUME NEW a \in acks, ~a.live PROVE Waits(a)'
        BY <2>1 DEF WritesHeld
      <3>1. a.frame.from = "live" => call'[a.frame.ev] = call[a.frame.ev]
        BY <1>0, <2>1, <2>2
      <3> QED BY <1>0, <2>1, <3>1 DEF Waits
    <2>4. OneWaiting' /\ NewOwesNothing' /\ InFlightCovers' /\ IsFiniteSet(acks)'
      BY <2>1 DEF FuturesFit, OneWaiting, NewOwesNothing, InFlightCovers, Owed
    <2> QED BY <2>3, <2>4 DEF FuturesFit
  <1>4. ASSUME NEW a \in acks, AckAnswered(a) \/ AckTimeout(a) PROVE FuturesFit'
    BY <1>4, AckCovers
  <1>5. ASSUME NEW s \in Sessions, NEW r \in claimed[s], DrainSend(s, r) PROVE FuturesFit'
    <2> DEFINE f == FrameOf(r.ev, r.dest, r.made)
    <2>1. /\ f \in Frame /\ f.from # "live" /\ phase[s] # "unused" /\ stuck[s] = None /\ r \in Row /\ r # None
          /\ UNCHANGED <<phase, call>>
      <3>1. r \in Row /\ phase[s] = "draining"
        BY <1>5 DEF DrainSend, TypeOK, TasksFit
      <3> QED BY <1>5, <3>1, RouterConstants DEF DrainSend, FrameOf, Frame, Row, Makers
    <2>2. \A a \in acks : ~a.live /\ a.frame.from # "live" => a.sess # s
      BY <2>1, <1>0 DEF Waits
    <2> HIDE DEF f
    <2>3. \A a \in acks : a.sess = s /\ a.frame = f => a.live
      BY <2>1, <2>2
    <2>4. \/ SendWake(s, f) /\ stuck' = stuck
          \/ SendWakeFails(s) /\ stuck' = stuck
          \/ SendWakeWaits(s, f) /\ stuck' = [stuck EXCEPT ![s] = r]
      BY <1>5 DEF DrainSend, f
    <2>5. /\ IsFiniteSet(acks)' /\ OneWaiting' /\ InFlightCovers'
          /\ \A a \in acks' : a \in acks \/ (a.frame = f /\ a.sess = s)
      BY <2>1, <2>3, <2>4, SendCovers
    <2>6. \A t \in Sessions : t # s => stuck'[t] = stuck[t]
      BY <2>4 DEF TypeOK
    <2>7. WritesHeld'
      <3> SUFFICES ASSUME NEW a \in acks', ~a.live PROVE Waits(a)'
        BY DEF WritesHeld
      <3>1. CASE a \in acks
        <4>1. Waits(a) /\ (a.frame.from # "live" => stuck'[a.sess] = stuck[a.sess])
          BY <1>0, <2>2, <2>6, <3>1
        <4> QED BY <2>1, <4>1 DEF Waits
      <3>2. CASE a \notin acks
        <4>1. a.frame = f /\ a.sess = s
          BY <2>5, <3>2
        <4>2. ~(SendWake(s, f) \/ SendWakeFails(s))
          BY <3>2, SentIsLive
        <4>3. stuck'[s] = r
          BY <2>4, <4>2 DEF TypeOK
        <4> QED BY <2>1, <4>1, <4>3 DEF Waits, f
      <3> QED BY <3>1, <3>2
    <2>8. NewOwesNothing'
      BY <2>1, <2>5 DEF FuturesFit, NewOwesNothing
    <2> QED BY <2>5, <2>7, <2>8 DEF FuturesFit
  <1>6. ASSUME NEW s \in Sessions, DrainResume(s) PROVE FuturesFit'
    <2> DEFINE f == FrameOf(stuck[s].ev, stuck[s].dest, stuck[s].made)
    <2>1. stuck[s] \in Row
      BY <1>6 DEF DrainResume, TypeOK
    <2>2. /\ f \in Frame /\ (ResumeWake(s, f) \/ ResumeWakeFails(s, f))
          /\ UNCHANGED <<phase, call>> /\ \A t \in Sessions : t # s => stuck'[t] = stuck[t]
      BY <1>6, <2>1 DEF DrainResume, Row, FrameOf, Frame
    <2> HIDE DEF f
    <2>3. /\ IsFiniteSet(acks)' /\ OneWaiting' /\ InFlightCovers'
          /\ \A a \in acks' : a.live \/ (a \in acks /\ ~(a.frame = f /\ a.sess = s))
          /\ \A a \in acks' : \E b \in acks : a.sess = b.sess
      BY <2>2, ResumeCovers
    <2>4. WritesHeld'
      <3> SUFFICES ASSUME NEW a \in acks', ~a.live PROVE Waits(a)'
        BY DEF WritesHeld
      <3>1. a \in acks /\ ~(a.frame = f /\ a.sess = s) /\ Waits(a)
        BY <1>0, <2>3
      <3>2. a.frame.from # "live" => stuck'[a.sess] = stuck[a.sess]
        <4>1. a.frame.from # "live" => a.sess # s
          BY <3>1 DEF Waits, f
        <4> QED BY <1>0, <2>2, <3>1, <4>1
      <3> QED BY <2>2, <3>1, <3>2 DEF Waits
    <2>5. NewOwesNothing'
      BY <2>2, <2>3 DEF FuturesFit, NewOwesNothing
    <2> QED BY <2>3, <2>4, <2>5 DEF FuturesFit
  <1>7. ASSUME NEW s \in Sessions, NEW f \in wire[s], NEW g \in {"ack", "nack"}, ReadAck(s, f, g)
        PROVE  FuturesFit'
    BY <1>7, ReadCovers
  <1>8. ASSUME NEW s \in Sessions, NEW D \in SUBSET Grants[s], Register(s, D) PROVE FuturesFit'
    <2>1. /\ phase[s] = "unused" /\ phase' = [phase EXCEPT ![s] = "acking"] /\ subs' = subs \cup {s}
          /\ UNCHANGED <<inflight, acks, stuck, call>>
      BY <1>8 DEF Register
    <2>2. Owed(s) = {}
      BY <2>1 DEF Owed, FuturesFit, NewOwesNothing
    <2>3. Cardinality(Owed(s)) <= inflight[s]
      BY <2>2, FS_EmptySet DEF TypeOK
    <2>4. InFlightCovers'
      BY <2>1, <2>3 DEF FuturesFit, InFlightCovers, Owed
    <2>5. NewOwesNothing'
      BY <1>0, <2>1 DEF FuturesFit, NewOwesNothing, TypeOK
    <2>6. WritesHeld' /\ OneWaiting' /\ IsFiniteSet(acks)'
      BY <2>1 DEF FuturesFit, WritesHeld, Waits, OneWaiting
    <2> QED BY <2>4, <2>5, <2>6 DEF FuturesFit
  <1>9. ASSUME NEW s \in Sessions, Close(s) PROVE FuturesFit'
    <2>1. /\ UNCHANGED <<acks, stuck, call>> /\ subs' = subs \ {s}
          /\ phase' = [phase EXCEPT ![s] = "closed"] /\ inflight' = [inflight EXCEPT ![s] = 0]
      BY <1>9 DEF Close, Cleanup
    <2>2. inflight' \in [Sessions -> Nat] /\ \A t \in subs' : inflight'[t] = inflight[t]
      BY <2>1 DEF TypeOK
    <2>3. \A t \in Sessions : phase'[t] = "unused" => phase[t] = "unused"
      BY <2>1 DEF TypeOK
    <2> QED BY <2>1, <2>2, <2>3, OthersCover
  <1>10. ASSUME NEW s \in Sessions,
                \/ ReplySent(s) \/ ReadEof(s) \/ ReadBadFrame(s) \/ Refuse(s) \/ HelloAckSent(s)
                \/ HelloAckFails(s) \/ DrainDone(s) \/ ReadReply(s)
         PROVE  FuturesFit'
    <2>1. CASE Close(s)
      BY <1>9, <2>1
    <2>2. CASE ~Close(s)
      <3>1. /\ UNCHANGED <<acks, stuck, call, subs, inflight>>
            /\ \E p \in {"serving", "refused", "draining", "replying"} :
                 phase' = [phase EXCEPT ![s] = p]
        BY <1>10, <2>2 DEF ReplySent, ReadEof, ReadBadFrame, Refuse, HelloAckSent, HelloAckFails,
           DrainDone, ReadReply
      <3>2. \A t \in Sessions : phase'[t] = "unused" => phase[t] = "unused"
        BY <3>1 DEF TypeOK
      <3>3. inflight' \in [Sessions -> Nat]
        BY <3>1 DEF TypeOK
      <3> QED BY <3>1, <3>2, <3>3, OthersCover
    <2> QED BY <2>1, <2>2
  <1>11. CASE Restart
    <2>1. acks' = {} /\ subs' = {}
      BY <1>11 DEF Restart
    <2> QED BY <2>1, FS_EmptySet DEF FuturesFit, WritesHeld, OneWaiting, NewOwesNothing, InFlightCovers
  <1>12. CASE UNCHANGED <<acks, subs, inflight, stuck, call, phase>>
    <2>1. inflight' \in [Sessions -> Nat]
      BY <1>12 DEF TypeOK
    <2> QED BY <1>12, <2>1, OthersCover
  <1>13. CASE \E e \in Events : DeliverStep(e)
    BY <1>1, <1>2, <1>3, <1>13 DEF DeliverStep
  <1>14. CASE \E s \in Sessions : HandlerStep(s)
    <2>1. PICK s \in Sessions : HandlerStep(s)
      BY <1>14
    <2>2. CASE \E d \in left[s] : DrainDest(s, d)
      BY <1>12, <2>2 DEF DrainDest
    <2>3. CASE \E r \in claimed[s] : DrainBury(s, r)
      BY <1>12, <2>3 DEF DrainBury
    <2>4. CASE ReadPong(s)
      BY <1>12, <2>4 DEF ReadPong
    <2> QED BY <1>5, <1>6, <1>10, <2>1, <2>2, <2>3, <2>4 DEF HandlerStep
  <1>15. CASE HeartbeatStep
    BY <1>12, <1>15 DEF HeartbeatStep, HeartbeatTick, HeartbeatResume, HeartbeatMissed, HeartbeatPing
  <1>16. CASE \E s \in Sessions : PeerDies(s) \/ PeerHangs(s) \/ PeerReturns(s) \/ PeerReads(s)
    BY <1>12, <1>16 DEF PeerDies, PeerHangs, PeerReturns, PeerReads
  <1>17. CASE UNCHANGED vars
    BY <1>12, <1>17 DEF vars
  <1>18. CASE \E e \in Events : Redrive(e)
    BY <1>12, <1>18 DEF Redrive
  <1> QED BY <1>4, <1>7, <1>8, <1>10, <1>11, <1>13, <1>14, <1>15, <1>16, <1>17, <1>18 DEF Next

-----------------------------------------------------------------------------
(* the caps *)

\* A cap that holds goes on holding when sessions leave.
LEMMA FewerHold ==
    ASSUME TypeOK, CapsHold, conns' \subseteq conns, subs' \subseteq subs,
           \A u \in Sessions : dests'[u] \subseteq dests[u]
    PROVE  CapsHold'
  <1>1. IsFiniteSet(conns) /\ IsFiniteSet(subs)
    BY RouterConstants, FS_Subset DEF TypeOK
  <1>2. Cardinality(conns') <= Cardinality(conns) /\ IsFiniteSet(conns')
    BY <1>1, FS_Subset
  <1>3. Cardinality(conns') \in Nat /\ Cardinality(conns) \in Nat /\ MaxConnections \in Nat
    BY <1>1, <1>2, FS_CardinalityType, RouterConstants
  <1>4. ASSUME NEW d \in Dests PROVE DestinationLoad(d)' <= Cap[d]
    <2>1. Serving(d)' \subseteq Serving(d)
      BY DEF Serving, TypeOK
    <2>2. Serving(d) \subseteq subs
      BY DEF Serving
    <2>3. IsFiniteSet(Serving(d))
      BY <1>1, <2>2, FS_Subset
    <2>4. Cardinality(Serving(d)') <= Cardinality(Serving(d)) /\ IsFiniteSet(Serving(d)')
      BY <2>1, <2>3, FS_Subset
    <2>5. Cardinality(Serving(d)') \in Nat /\ Cardinality(Serving(d)) \in Nat /\ Cap[d] \in Nat
      BY <2>3, <2>4, FS_CardinalityType, RouterConstants
    <2>6. Cardinality(Serving(d)) <= Cap[d]
      BY DEF CapsHold, DestinationLoad
    <2>7. Cardinality(Serving(d)') <= Cap[d]
      BY <2>4, <2>5, <2>6
    <2> QED BY <2>7 DEF DestinationLoad
  <1>5. Cardinality(conns') <= MaxConnections
    BY <1>2, <1>3 DEF CapsHold
  <1> QED BY <1>4, <1>5 DEF CapsHold

\* A handshake that passes the checks of the caps keeps them.
LEMMA OneMoreHolds ==
    ASSUME TypeOK, CapsHold, NEW s \in Sessions, NEW D \in SUBSET Grants[s], Register(s, D),
           TasksFit
    PROVE  CapsHold'
  <1>1. IsFiniteSet(conns) /\ IsFiniteSet(subs)
    BY RouterConstants, FS_Subset DEF TypeOK
  <1>2. conns' = conns \cup {s} /\ Cardinality(conns) < MaxConnections
    BY DEF Register, RoomFor
  <1>3. Cardinality(conns') <= MaxConnections
    <2>1. Cardinality(conns) \in Nat /\ MaxConnections \in Nat
      BY <1>1, FS_CardinalityType, RouterConstants
    <2>2. Cardinality(conns \cup {s}) \in {Cardinality(conns), Cardinality(conns) + 1}
      BY <1>1, FS_AddElement
    <2> QED BY <1>2, <2>1, <2>2
  <1>4. ASSUME NEW d \in Dests PROVE DestinationLoad(d)' <= Cap[d]
    <2>1. subs' = subs \cup {s} /\ dests' = [dests EXCEPT ![s] = D] /\ s \notin subs
      BY DEF Register, TasksFit
    <2>2. Serving(d) \subseteq subs /\ Serving(d)' = {u \in subs' : d \in dests'[u]}
      BY DEF Serving
    <2>3. IsFiniteSet(Serving(d)) /\ Cardinality(Serving(d)) \in Nat /\ Cap[d] \in Nat
      BY <1>1, <2>2, FS_Subset, FS_CardinalityType, RouterConstants
    <2>4. CASE d \in D
      <3>1. Serving(d)' \subseteq Serving(d) \cup {s}
        BY <2>1, <2>2 DEF Serving, TypeOK
      <3>2. /\ IsFiniteSet(Serving(d) \cup {s})
            /\ Cardinality(Serving(d) \cup {s}) \in {Cardinality(Serving(d)), Cardinality(Serving(d)) + 1}
        BY <2>3, FS_AddElement
      <3>3. Cardinality(Serving(d)') <= Cardinality(Serving(d) \cup {s}) /\ IsFiniteSet(Serving(d)')
        BY <3>1, <3>2, FS_Subset
      <3>4. Cardinality(Serving(d)') \in Nat
        BY <3>3, FS_CardinalityType
      <3>5. Cardinality(Serving(d)) < Cap[d]
        BY <2>4 DEF Register, RoomFor, DestinationLoad
      <3>6. Cardinality(Serving(d)') <= Cap[d]
        BY <2>3, <3>2, <3>3, <3>4, <3>5
      <3> QED BY <3>6 DEF DestinationLoad
    <2>5. CASE d \notin D
      <3>1. Serving(d)' = Serving(d)
        BY <2>1, <2>2, <2>5 DEF Serving, TypeOK
      <3>2. DestinationLoad(d)' = DestinationLoad(d)
        BY <3>1 DEF DestinationLoad
      <3> QED BY <3>2 DEF CapsHold
    <2> QED BY <2>4, <2>5
  <1> QED BY <1>3, <1>4 DEF CapsHold

\* Every step keeps the number of sessions within the caps.
LEMMA CapsStep ==
    ASSUME TypeOK, CallsFit, TasksFit, CapsHold, [Next]_vars
    PROVE  CapsHold'
  <1>1. ASSUME NEW e \in Events, DeliverSend(e) PROVE CapsHold'
    <2>1. PICK s \in subs, d \in For(e), c \in Calls(For(e)) :
             /\ d \in dests[s]
             /\ \/ SendWake(s, FrameOf(e, d, "live"))
                \/ SendWakeFails(s)
                \/ SendWakeWaits(s, FrameOf(e, d, "live"))
      BY <1>1, DeliverSendEffect
    <2>2. s \in Sessions /\ FrameOf(e, d, "live") \in Frame
      BY DEF TypeOK, FrameOf, Frame, For
    <2>3. subs' \subseteq subs
      BY <2>1, <2>2, SendEffect
    <2>4. conns' = conns /\ dests' = dests
      BY <1>1 DEF DeliverSend, session
    <2> QED BY <2>3, <2>4, FewerHold
  <1>2. ASSUME NEW e \in Events, DeliverResume(e) PROVE CapsHold'
    <2>1. PICK s \in Sessions, f \in Frame : ResumeWake(s, f) \/ ResumeWakeFails(s, f)
      BY <1>2, DeliverResumeEffect
    <2>2. subs' \subseteq subs
      BY <2>1, ResumeEffect
    <2>3. conns' = conns /\ dests' = dests
      BY <1>2 DEF DeliverResume, session
    <2> QED BY <2>2, <2>3, FewerHold
  <1>3. ASSUME NEW s \in Sessions, NEW r \in claimed[s], DrainSend(s, r) PROVE CapsHold'
    <2>1. FrameOf(r.ev, r.dest, r.made) \in Frame
      BY DEF TypeOK, Row, FrameOf, Frame, Makers
    <2>2. \/ SendWake(s, FrameOf(r.ev, r.dest, r.made)) \/ SendWakeFails(s)
          \/ SendWakeWaits(s, FrameOf(r.ev, r.dest, r.made))
      BY <1>3 DEF DrainSend
    <2>3. subs' \subseteq subs
      BY <2>1, <2>2, SendEffect
    <2>4. conns' = conns /\ dests' = dests
      BY <1>3 DEF DrainSend, session
    <2> QED BY <2>3, <2>4, FewerHold
  <1>4. ASSUME NEW s \in Sessions, DrainResume(s) PROVE CapsHold'
    <2>1. stuck[s] \in Row
      BY <1>4 DEF DrainResume, TypeOK
    <2>2. FrameOf(stuck[s].ev, stuck[s].dest, stuck[s].made) \in Frame
      BY <2>1 DEF Row, FrameOf, Frame, Makers
    <2>3. subs' \subseteq subs
      BY <1>4, <2>2, ResumeEffect DEF DrainResume
    <2>4. conns' = conns /\ dests' = dests
      BY <1>4 DEF DrainResume, session
    <2> QED BY <2>3, <2>4, FewerHold
  <1>5. ASSUME NEW s \in Sessions, ReplySent(s) PROVE CapsHold'
    <2>1. /\ conns' \subseteq conns /\ subs' \subseteq subs
          /\ \A u \in Sessions : dests'[u] \subseteq dests[u]
      <3>1. CASE Close(s)
        BY <3>1 DEF Close, Cleanup, TypeOK
      <3>2. CASE ~Close(s)
        BY <1>5, <3>2 DEF ReplySent
      <3> QED BY <3>1, <3>2
    <2> QED BY <2>1, FewerHold
  <1>6. ASSUME NEW s \in Sessions, ReadEof(s) PROVE CapsHold'
    <2>1. /\ conns' \subseteq conns /\ subs' \subseteq subs
          /\ \A u \in Sessions : dests'[u] \subseteq dests[u]
      BY <1>6 DEF ReadEof, Close, Cleanup, TypeOK
    <2> QED BY <2>1, FewerHold
  <1>7. ASSUME NEW s \in Sessions, ReadBadFrame(s) PROVE CapsHold'
    <2>1. /\ conns' \subseteq conns /\ subs' \subseteq subs
          /\ \A u \in Sessions : dests'[u] \subseteq dests[u]
      BY <1>7 DEF ReadBadFrame, Close, Cleanup, TypeOK
    <2> QED BY <2>1, FewerHold
  <1>8. ASSUME NEW s \in Sessions, NEW D \in SUBSET Grants[s], Register(s, D) PROVE CapsHold'
    BY <1>8, OneMoreHolds
  <1>9. CASE Restart
    <2>1. /\ conns' \subseteq conns /\ subs' \subseteq subs
          /\ \A u \in Sessions : dests'[u] \subseteq dests[u]
      BY <1>9 DEF Restart
    <2> QED BY <2>1, FewerHold
  <1>10. CASE UNCHANGED <<conns, subs, dests>>
    BY <1>10 DEF CapsHold, DestinationLoad, Serving
  <1> QED BY <1>1, <1>2, <1>3, <1>4, <1>5, <1>6, <1>7, <1>8, <1>9, <1>10 DEF Next, Redrive,
     DeliverStep, HandlerStep, HeartbeatStep, vars, session, socket, liveness, beat, drain,
     history, DeliverEnd, AckAnswered, AckTimeout, HelloAckSent, HelloAckFails, DrainDest,
     DrainBury, DrainDone, ReadPong, Refuse, ReadAck, ReadReply, HeartbeatTick,
     HeartbeatResume, HeartbeatMissed, HeartbeatPing, PeerDies, PeerHangs, PeerReturns,
     PeerReads

-----------------------------------------------------------------------------
(* theorems *)

\* The daemon starts within its caps and with the invariant.
LEMMA InitHolds ==
    ASSUME Init
    PROVE  RouterInv /\ CapsHold
  <1> USE RouterConstants DEF Init
  <1>1. NoCall \in Calls(Dests) /\ NoCall.at = None /\ \A e \in Events : NoCall \in Calls(For(e))
    BY DEF NoCall, Calls
  <1>2. TypeOK
    BY <1>1 DEF TypeOK, Phases, Statuses, Calls
  <1>3. CallsFit /\ TasksFit
    BY <1>1 DEF CallsFit, TasksFit
  <1>4. RowsAddressed /\ HandsAddressed /\ SessionScoped /\ AcksRead /\ QueuedUntilAcked
    BY DEF RowsAddressed, HandsAddressed, SessionScoped, AcksRead, QueuedUntilAcked
  <1>5. CapsHold
    <2>1. \A d \in Dests : Serving(d) = {}
      BY DEF Serving
    <2>2. Cardinality({}) = 0
      BY FS_EmptySet
    <2>3. MaxConnections \in Nat /\ \A d \in Dests : Cap[d] \in Nat
      OBVIOUS
    <2>4. Cardinality(conns) = 0 /\ \A d \in Dests : DestinationLoad(d) = 0
      BY <2>1, <2>2 DEF DestinationLoad
    <2> QED BY <2>3, <2>4 DEF CapsHold
  <1>6. FuturesFit
    BY FS_EmptySet DEF FuturesFit, WritesHeld, OneWaiting, NewOwesNothing, InFlightCovers
  <1> QED BY <1>2, <1>3, <1>4, <1>5, <1>6 DEF RouterInv

\* The invariant that the theorems below are read off: types, calls and tasks,
\* addresses, and answers; with it, the caps.
THEOREM RouterInvariant == Spec => [](RouterInv /\ CapsHold)
  <1>1. ASSUME RouterInv /\ CapsHold, [Next]_vars
        PROVE  (RouterInv /\ CapsHold)'
    <2>1. /\ TypeOK /\ CallsFit /\ TasksFit /\ RowsAddressed /\ HandsAddressed
          /\ SessionScoped /\ AcksRead /\ QueuedUntilAcked /\ FuturesFit /\ CapsHold
      BY <1>1 DEF RouterInv
    <2>2. TypeOK' /\ CallsFit'
      BY <1>1, <2>1, TypeStep, CallsStep
    <2>3. TasksFit' /\ RowsAddressed' /\ HandsAddressed'
      BY <1>1, <2>1, TasksStep, RowsStep, HandsStep
    <2>4. SessionScoped' /\ AcksRead' /\ QueuedUntilAcked'
      BY <1>1, <2>1, WiresStep, AcksStep, QueuedStep
    <2>5. CapsHold' /\ FuturesFit'
      BY <1>1, <2>1, CapsStep, FuturesStep
    <2> QED BY <2>2, <2>3, <2>4, <2>5 DEF RouterInv
  <1> QED BY <1>1, InitHolds, PTL DEF Spec

\* Type correctness of the router and the socket server.
THEOREM RouterTypes == Spec => []TypeOK
  <1>1. RouterInv => TypeOK
    BY DEF RouterInv
  <1> QED BY <1>1, RouterInvariant, PTL

\* However many adapters connect, drop out and come back: never more than
\* MAX_CONNECTIONS of them, nor more than max_connections per destination.
THEOREM RouterHoldsCaps == Spec => []CapsHold
  BY RouterInvariant, PTL

\* No wake reaches a session that does not serve a destination of its event,
\* neither from deliver() nor from the drain of the queue, unless an operator's
\* redrive put it back: then the session serves the name of the event's sender.
THEOREM RouterScopesSessions == Spec => []SessionScoped
  <1>1. RouterInv => SessionScoped
    BY DEF RouterInv
  <1> QED BY <1>1, RouterInvariant, PTL

\* A queued event keeps its row until an adapter acks it or its attempts run
\* out, whatever writes fail, time out, are nacked or are cut off by a restart.
THEOREM RouterKeepsRows == Spec => []QueuedUntilAcked
  <1>1. RouterInv => QueuedUntilAcked
    BY DEF RouterInv
  <1> QED BY <1>1, RouterInvariant, PTL

\* What the heartbeat is told of a subscriber (in_flight_for) is never less than
\* the acks that subscriber owes, also when two writes to it overlap, one of them
\* waits in drain(), or an ack is read before the write has returned.
THEOREM RouterCountsOwed == Spec => []InFlightCovers
  <1>1. RouterInv => InFlightCovers
    BY DEF RouterInv, FuturesFit
  <1> QED BY <1>1, RouterInvariant, PTL

\* The heartbeat gives a subscriber that owes an ack up only after it has forgiven
\* MAX_BUSY_MISSED_PONGS missed pongs.
THEOREM RouterSparesBusy == Spec => BusyNotReaped
  <1>1. ASSUME RouterInv
        PROVE  \A s \in subs :
                 /\ HeartbeatMissed(s) /\ missed' = missed
                 /\ Owed(s) # {}
                 => missed[s] = MaxBusyMissedPongs
    <2> SUFFICES ASSUME NEW s \in subs, HeartbeatMissed(s), missed' = missed, Owed(s) # {}
                 PROVE  missed[s] = MaxBusyMissedPongs
      OBVIOUS
    <2>1. TypeOK /\ IsFiniteSet(acks) /\ InFlightCovers
      BY <1>1 DEF RouterInv, FuturesFit
    <2>2. /\ s \in Sessions /\ missed \in [Sessions -> 0..MaxBusyMissedPongs]
          /\ MaxBusyMissedPongs \in Nat /\ inflight[s] \in Nat
      BY <2>1, RouterConstants DEF TypeOK
    <2>3. inflight[s] > 0
      <3>1. IsFiniteSet(Owed(s)) /\ Cardinality(Owed(s)) \in Nat
        BY <2>1, OwedFinite
      <3>2. Cardinality(Owed(s)) # 0
        BY <3>1, FS_EmptySet
      <3>3. Cardinality(Owed(s)) <= inflight[s]
        BY <2>1 DEF InFlightCovers
      <3> QED BY <2>2, <3>1, <3>2, <3>3
    <2>4. ~Tolerates(s)
      <3> SUFFICES ASSUME Tolerates(s) PROVE FALSE
        OBVIOUS
      <3>1. missed' = [missed EXCEPT ![s] = @ + 1]
        BY DEF HeartbeatMissed, CountMissed
      <3>2. missed'[s] = missed[s] + 1 /\ missed[s] \in Nat
        BY <2>2, <3>1
      <3> QED BY <3>2
    <2> QED BY <2>2, <2>3, <2>4 DEF Tolerates, InFlightFor
  <1> QED BY <1>1, RouterInvariant, PTL DEF BusyNotReaped
=============================================================================
