-------------------------- MODULE ServerLoop_proofs --------------------------
(***************************************************************************)
(* Proofs about ServerLoop, for every number of sessions and whatever the  *)
(* clients send: types, no lost wake-up, the session slots and the limit   *)
(* on their number.                                                        *)
(***************************************************************************)
EXTENDS ServerLoop, SequenceTheorems, FiniteSetTheorems, TLAPS

Scbs == [state : {"none", "init", "hello_wait", "idle"},
         wire : Seq(Input), msgQ : Seq(Messages),
         inq : BOOLEAN, due : BOOLEAN]

(* The sessions that must be queued: those flagged or with a message       *)
Wants(scb) == scb.inq \/ scb.msgQ # <<>>

QueueInv == \A s \in Sids : Wants(agtses[s]) => s \in QueueRange(inreadyQ)

SlotInv == SlotsFree /\ SessionLimit

(* accept() is called only if a connection waits                           *)
Listening == 0 \in readset => backlog > 0

LoopInv == TypeOK /\ QueueInv /\ SlotInv /\ Listening

-----------------------------------------------------------------------------
(* Queues                                                                  *)

LEMMA AppendRange ==
    ASSUME NEW q \in Seq(Sids), NEW s \in Sids
    PROVE  /\ Append(q, s) \in Seq(Sids)
           /\ QueueRange(Append(q, s)) = QueueRange(q) \cup {s}
<1> DEFINE p == Append(q, s)
<1>1. /\ p \in Seq(Sids) /\ Len(p) = Len(q) + 1 /\ Len(q) \in Nat
      /\ \A i \in 1 .. Len(q) : p[i] = q[i]
      /\ p[Len(q) + 1] = s
  BY AppendProperties
<1>2. DOMAIN p = 1 .. Len(q) + 1 /\ DOMAIN q = 1 .. Len(q)
  BY <1>1
<1> HIDE DEF p
<1>3. QueueRange(p) = {p[i] : i \in 1 .. Len(q)} \cup {p[Len(q) + 1]}
  BY <1>1, <1>2 DEF QueueRange
<1> QED
  BY <1>1, <1>2, <1>3 DEF QueueRange, p

LEMMA TailRange ==
    ASSUME NEW q \in Seq(Sids), q # <<>>
    PROVE  /\ Head(q) \in Sids /\ Tail(q) \in Seq(Sids)
           /\ QueueRange(q) = {Head(q)} \cup QueueRange(Tail(q))
<1> DEFINE p == Tail(q)
<1>1. /\ Head(q) \in Sids /\ p \in Seq(Sids) /\ Len(p) = Len(q) - 1
      /\ Len(q) \in Nat /\ Len(q) > 0 /\ Head(q) = q[1]
      /\ \A i \in 1 .. Len(p) : p[i] = q[i + 1]
  BY HeadTailProperties, EmptySeq, LenProperties
<1>2. DOMAIN p = 1 .. Len(q) - 1 /\ DOMAIN q = 1 .. Len(q)
  BY <1>1
<1> HIDE DEF p
<1>3. ASSUME NEW x PROVE x \in QueueRange(q) <=> x = q[1] \/ x \in QueueRange(p)
  <2>1. ASSUME NEW i \in DOMAIN q, x = q[i], i # 1
        PROVE  x \in QueueRange(p)
    <3>1. i - 1 \in DOMAIN p /\ p[i - 1] = x
      BY <1>1, <1>2, <2>1
    <3> QED
      BY <3>1 DEF QueueRange
  <2>2. ASSUME NEW i \in DOMAIN p, x = p[i]
        PROVE  x \in QueueRange(q)
    <3>1. i + 1 \in DOMAIN q /\ q[i + 1] = x
      BY <1>1, <1>2, <2>2
    <3> QED
      BY <3>1 DEF QueueRange
  <2>3. 1 \in DOMAIN q
    BY <1>1, <1>2
  <2> QED
    BY <2>1, <2>2, <2>3 DEF QueueRange
<1> QED
  BY <1>1, <1>3 DEF p

(* ses_msg_make_inready: the session ends up in the queue if it was flagged *)
(* truthfully, and no other leaves it.                                      *)
LEMMA MadeReadyQueues ==
    ASSUME NEW q \in Seq(Sids), NEW s \in Sids, NEW scb \in Scbs,
           scb.inq => s \in QueueRange(q)
    PROVE  /\ MadeReady(q, s, scb) \in Seq(Sids)
           /\ QueueRange(q) \subseteq QueueRange(MadeReady(q, s, scb))
           /\ Wants(scb) => s \in QueueRange(MadeReady(q, s, scb))
BY AppendRange DEF MadeReady, Wants

LEMMA MessagesNonempty ==
    ASSUME NEW q \in Seq(Messages), q # <<>>
    PROVE  Head(q) \in Messages /\ Tail(q) \in Seq(Messages)
BY HeadTailProperties

-----------------------------------------------------------------------------
(* Control blocks                                                          *)

LEMMA FreshTypes ==
    /\ NoScb \in Scbs /\ ~Wants(NoScb)
    /\ Scb("init") \in Scbs /\ ~Wants(Scb("init"))
BY EmptySeq DEF NoScb, Scb, Scbs, Wants

LEMMA FreeType ==
    ASSUME NEW scbs \in [Sids -> Scbs], NEW dead
    PROVE  /\ agt_ses_free_session(scbs, dead) \in [Sids -> Scbs]
           /\ \A s \in Sids :
                 \/ agt_ses_free_session(scbs, dead)[s] = scbs[s]
                 \/ agt_ses_free_session(scbs, dead)[s] = NoScb
BY FreshTypes DEF agt_ses_free_session

LEMMA PoppedType ==
    ASSUME TypeOK, NEW s \in Sids
    PROVE  /\ Popped(s) \in Scbs
           /\ Popped(s).state = agtses[s].state
           /\ Popped(s).msgQ = agtses[s].msgQ
           /\ Popped(s).inq => s \in QueueRange(Tail(inreadyQ))
BY DEF Popped, TypeOK, Scbs

(* After a message of a session was processed and the session queued again *)
(* if it has more, every session that must be queued is.                   *)
LEMMA RequeuedQueues ==
    ASSUME TypeOK, inreadyQ # <<>>, NEW s \in Sids, Head(inreadyQ) = s,
           NEW scb \in Scbs, scb.msgQ # <<>>,
           scb.inq => s \in QueueRange(Tail(inreadyQ)),
           NEW scbs \in [Sids -> Scbs],
           \A t \in Sids : Wants(scbs[t]) => t \in QueueRange(inreadyQ),
           Requeued(s, scb, scbs)
    PROVE  /\ inreadyQ' \in Seq(Sids)
           /\ agtses' \in [Sids -> Scbs]
           /\ QueueInv'
           /\ agtses'[s].state = scb.state
           /\ \A t \in Sids \ {s} : agtses'[t] = scbs[t]
<1> DEFINE left == [scb EXCEPT !.msgQ = Tail(@)]
           last == [left EXCEPT !.inq = @ \/ left.msgQ # <<>>]
           q == Tail(inreadyQ)
<1>1. /\ q \in Seq(Sids)
      /\ QueueRange(inreadyQ) = {s} \cup QueueRange(q)
  BY TailRange DEF TypeOK
<1>2. left \in Scbs /\ left.inq = scb.inq /\ left.state = scb.state
  BY MessagesNonempty DEF Scbs
<1>3. last \in Scbs /\ (Wants(last) <=> Wants(left)) /\ last.state = scb.state
  BY <1>2 DEF Scbs, Wants
<1>4. inreadyQ' = MadeReady(q, s, left) /\ agtses' = [scbs EXCEPT ![s] = last]
  BY DEF Requeued
<1> HIDE DEF left, last, q
<1>5. /\ inreadyQ' \in Seq(Sids)
      /\ QueueRange(q) \subseteq QueueRange(inreadyQ')
      /\ Wants(left) => s \in QueueRange(inreadyQ')
  BY <1>1, <1>2, <1>4, MadeReadyQueues DEF q
<1>6. agtses' \in [Sids -> Scbs]
  BY <1>3, <1>4
<1>7. agtses'[s] = last /\ \A t \in Sids \ {s} : agtses'[t] = scbs[t]
  BY <1>4
<1>8. QueueInv'
  BY <1>1, <1>3, <1>5, <1>7 DEF QueueInv
<1> QED
  BY <1>3, <1>5, <1>6, <1>7, <1>8

-----------------------------------------------------------------------------
(* Slots                                                                   *)

LEMMA FiniteSlots ==
    /\ IsFiniteSet(Sids)
    /\ IsFiniteSet(Live) /\ Cardinality(Live) \in Nat
<1>1. IsFiniteSet(Sids)
  BY LoopAssumption, FS_Interval DEF Sids
<1>2. Live \in SUBSET Sids
  BY DEF Live
<1>3. IsFiniteSet(Live)
  BY <1>1, <1>2, FS_Subset
<1> QED
  BY <1>1, <1>3, FS_CardinalityType

(* When no session begins, the slots stay as the counter says, and the     *)
(* limit is kept.                                                          *)
LEMMA FewerSessions ==
    ASSUME SlotInv, Live' \subseteq Live, next_sesid' = next_sesid
    PROVE  SlotInv'
<1>1. SlotsFree'
  BY DEF SlotInv, SlotsFree
<1>2. IsFiniteSet(Live)
  BY FiniteSlots
<1>3. IsFiniteSet(Live') /\ Cardinality(Live') <= Cardinality(Live)
  BY <1>2, FS_Subset
<1>4. Cardinality(Live) \in Nat /\ Cardinality(Live') \in Nat
  BY <1>2, <1>3, FS_CardinalityType
<1>5. SessionLimit'
  BY <1>3, <1>4, LoopAssumption DEF SlotInv, SessionLimit
<1> QED
  BY <1>1, <1>5 DEF SlotInv

(* A new session takes a free slot.                                        *)
LEMMA NewSession ==
    ASSUME LoopInv, agt_ses_new_session, inreadyQ' = inreadyQ
    PROVE  /\ agtses' \in [Sids -> Scbs] /\ next_sesid' \in Sids \cup {0}
           /\ QueueInv' /\ SlotInv'
<1>1. agtses \in [Sids -> Scbs] /\ next_sesid \in Sids \cup {0}
  BY DEF LoopInv, TypeOK, Scbs
<1>2. CASE UNCHANGED <<next_sesid, agtses>>
  <2>1. Live' = Live
    BY <1>2 DEF Live
  <2>2. SlotInv'
    BY <1>2, <2>1, FewerSessions DEF LoopInv
  <2> QED
    BY <1>1, <1>2, <2>2 DEF LoopInv, QueueInv
<1>3. ASSUME ~check_max_sessions,
             NEW slot \in FreeSlots,
             agtses' = [agtses EXCEPT ![slot] = Scb("init")],
             next_sesid' = NextSlot(slot)
      PROVE  /\ agtses' \in [Sids -> Scbs] /\ next_sesid' \in Sids \cup {0}
             /\ QueueInv' /\ SlotInv'
  <2>1. /\ slot \in Sids
        /\ next_sesid = 0 \/ slot = next_sesid
        /\ slot \notin Live
    BY <1>1, <1>3, LoopAssumption DEF FreeSlots, LoopInv, SlotInv, SlotsFree, Sids, Live
  <2>2. agtses' \in [Sids -> Scbs]
    BY <1>1, <1>3, FreshTypes
  <2>3. QueueInv'
    BY <1>1, <1>3, <2>1, FreshTypes DEF QueueInv, LoopInv
  <2>4. Live' = Live \cup {slot}
    BY <1>1, <1>3, <2>1 DEF Live, Scb
  <2>5. next_sesid' = IF next_sesid = 0 \/ slot = MaxSid THEN 0 ELSE slot + 1
    BY <1>3 DEF NextSlot
  <2>6. next_sesid' \in Sids \cup {0}
    BY <2>1, <2>5, LoopAssumption DEF Sids
  <2>7. SlotsFree'
    BY <2>1, <2>4, <2>5, LoopAssumption DEF SlotsFree, LoopInv, SlotInv, Sids, Live
  <2>8. Counted = Live
    BY <1>1, LoopAssumption DEF Counted, LoopInv, SlotInv, SlotsFree
  <2>9. IsFiniteSet(Live) /\ Cardinality(Live) \in Nat
    BY FiniteSlots
  <2>10. Cardinality(Live') = Cardinality(Live) + 1
    BY <2>1, <2>4, <2>9, FS_AddElement
  <2>11. SessionLimit'
    BY <1>3, <2>8, <2>9, <2>10, LoopAssumption DEF check_max_sessions, SessionLimit
  <2> QED
    BY <2>2, <2>3, <2>6, <2>7, <2>11 DEF SlotInv
<1> QED
  BY <1>2, <1>3 DEF agt_ses_new_session

-----------------------------------------------------------------------------
(* The steps                                                               *)

LEMMA InitLoop == Init => LoopInv
<1> SUFFICES ASSUME Init PROVE LoopInv
  OBVIOUS
<1>1. agtses = [s \in Sids |-> NoScb] /\ inreadyQ = <<>> /\ next_sesid = 1
  BY DEF Init, Boot
<1>2. Live = {}
  BY <1>1 DEF Live, NoScb, Scb
<1>3. TypeOK
  BY <1>1, FreshTypes, LoopAssumption, EmptySeq DEF Init, Boot, TypeOK, Scbs, Sids
<1>4. QueueInv
  BY <1>1, FreshTypes DEF QueueInv
<1>5. SlotInv
  BY <1>2, LoopAssumption, FS_EmptySet DEF SlotInv, SlotsFree, SessionLimit
<1>6. Listening
  BY DEF Init, Boot, Listening
<1> QED
  BY <1>3, <1>4, <1>5, <1>6 DEF LoopInv

(* Sessions end, and nothing else happens to the queue.                    *)
LEMMA EndsKeep ==
    ASSUME LoopInv, NEW dead, inreadyQ' = inreadyQ, next_sesid' = next_sesid,
           agtses' = agt_ses_free_session(agtses, dead)
    PROVE  agtses' \in [Sids -> Scbs] /\ QueueInv' /\ SlotInv'
<1>1. /\ agtses \in [Sids -> Scbs]
      /\ agtses' \in [Sids -> Scbs]
      /\ \A s \in Sids : agtses'[s] = agtses[s] \/ agtses'[s] = NoScb
  BY FreeType DEF LoopInv, TypeOK, Scbs
<1>2. QueueInv'
  BY <1>1, FreshTypes DEF LoopInv, QueueInv
<1>3. Live' \subseteq Live
  BY <1>1 DEF Live, NoScb, Scb
<1> QED
  BY <1>1, <1>2, <1>3, FewerSessions DEF LoopInv

(* One control block changes without ending or losing its place.           *)
LEMMA ChangeKeeps ==
    ASSUME LoopInv, NEW s \in Sids, NEW scb \in Scbs,
           agtses' = [agtses EXCEPT ![s] = scb],
           scb.state = agtses[s].state,
           inreadyQ' \in Seq(Sids),
           QueueRange(inreadyQ) \subseteq QueueRange(inreadyQ'),
           Wants(scb) => s \in QueueRange(inreadyQ'),
           next_sesid' = next_sesid
    PROVE  agtses' \in [Sids -> Scbs] /\ QueueInv' /\ SlotInv'
<1>1. /\ agtses \in [Sids -> Scbs] /\ agtses' \in [Sids -> Scbs]
      /\ agtses'[s] = scb /\ \A t \in Sids \ {s} : agtses'[t] = agtses[t]
  BY DEF LoopInv, TypeOK, Scbs
<1>2. QueueInv'
  BY <1>1 DEF LoopInv, QueueInv
<1>3. Live' = Live
  BY <1>1 DEF Live
<1> QED
  BY <1>1, <1>2, <1>3, FewerSessions DEF LoopInv

(* The clients, the clock and the steps that touch no session              *)
LEMMA QuietSteps ==
    ASSUME LoopInv,
           \/ Connect \/ CcElapses \/ SelectReturns \/ ServiceDone \/ DrainDone
           \/ UNCHANGED vars
    PROVE  LoopInv'
<1>1. UNCHANGED <<agtses, inreadyQ, next_sesid>>
  BY DEF Connect, CcElapses, SelectReturns, ServiceDone, DrainDone, vars
<1>2. Live' = Live
  BY <1>1 DEF Live
<1>3. SlotInv'
  BY <1>1, <1>2, FewerSessions DEF LoopInv
<1>4. QueueInv'
  BY <1>1 DEF LoopInv, QueueInv
<1>5. Readable \subseteq Sids \cup {0}
  BY DEF Readable, Live
<1>6. /\ pc' \in {"select", "service", "drain"}
      /\ readset' \subseteq Sids \cup {0} /\ backlog' \in Nat
      /\ cc' \in {"none", "pending", "due"} /\ timeouts' \in Timeouts
  BY <1>5 DEF Connect, CcElapses, SelectReturns, ServiceDone, DrainDone, vars,
              LoopInv, TypeOK
<1>7. TypeOK'
  BY <1>1, <1>6 DEF LoopInv, TypeOK
<1>8. 0 \in Readable => backlog > 0
  BY DEF Readable, Live, Sids, LoopInv, TypeOK
<1>9. Listening'
  BY <1>8 DEF Connect, CcElapses, SelectReturns, ServiceDone, DrainDone, vars,
              LoopInv, Listening, TypeOK
<1> QED
  BY <1>3, <1>4, <1>7, <1>9 DEF LoopInv

LEMMA RestartStep == LoopInv /\ Restart => LoopInv'
<1>1. LoopInv /\ Restart => Init'
  BY DEF Restart, Init, Boot, LoopInv, TypeOK
<1> QED
  BY <1>1, InitLoop, PTL

LEMMA SendStep ==
    ASSUME LoopInv, NEW s \in Sids, NEW x \in Sendable, Send(s, x)
    PROVE  LoopInv'
<1> DEFINE scb == [agtses[s] EXCEPT !.wire = Append(@, x)]
<1>1. x \in Input /\ agtses[s] \in Scbs
  BY LoopAssumption DEF LoopInv, TypeOK, Scbs
<1>2. scb \in Scbs /\ scb.state = agtses[s].state
      /\ (Wants(scb) <=> Wants(agtses[s]))
  BY <1>1, AppendProperties DEF Scbs, Wants
<1>3. agtses' = [agtses EXCEPT ![s] = scb]
      /\ UNCHANGED <<timeouts, pc, readset, backlog, next_sesid, inreadyQ, cc>>
  BY <1>1 DEF Send, LoopInv, TypeOK, Scbs
<1> HIDE DEF scb
<1>4. agtses' \in [Sids -> Scbs] /\ QueueInv' /\ SlotInv'
  BY <1>2, <1>3, ChangeKeeps DEF LoopInv, QueueInv, TypeOK
<1> QED
  BY <1>3, <1>4 DEF LoopInv, TypeOK, Scbs, Listening

LEMMA TimeElapsesStep ==
    ASSUME LoopInv, NEW s \in Sids, TimeElapses(s)
    PROVE  LoopInv'
<1> DEFINE scb == [agtses[s] EXCEPT !.due = TRUE]
<1>1. agtses[s] \in Scbs
  BY DEF LoopInv, TypeOK, Scbs
<1>2. scb \in Scbs /\ scb.state = agtses[s].state
      /\ (Wants(scb) <=> Wants(agtses[s]))
  BY <1>1 DEF Scbs, Wants
<1>3. agtses' = [agtses EXCEPT ![s] = scb]
      /\ UNCHANGED <<timeouts, pc, readset, backlog, next_sesid, inreadyQ, cc>>
  BY <1>1 DEF TimeElapses, LoopInv, TypeOK, Scbs
<1> HIDE DEF scb
<1>4. agtses' \in [Sids -> Scbs] /\ QueueInv' /\ SlotInv'
  BY <1>2, <1>3, ChangeKeeps DEF LoopInv, QueueInv, TypeOK
<1> QED
  BY <1>3, <1>4 DEF LoopInv, TypeOK, Scbs, Listening

LEMMA SelectTimesOutStep ==
    ASSUME LoopInv, SelectTimesOut
    PROVE  LoopInv'
<1>1. agtses' \in [Sids -> Scbs] /\ QueueInv' /\ SlotInv'
  BY EndsKeep DEF SelectTimesOut
<1>2. cc' \in {"none", "pending", "due"}
  BY DEF SelectTimesOut, CcWithout, agt_ncx_check_cc_timeout, LoopInv, TypeOK
<1> QED
  BY <1>1, <1>2 DEF SelectTimesOut, LoopInv, TypeOK, Scbs, Listening

LEMMA AcceptStep ==
    ASSUME LoopInv, Accept
    PROVE  LoopInv'
<1>1. /\ agtses' \in [Sids -> Scbs] /\ next_sesid' \in Sids \cup {0}
      /\ QueueInv' /\ SlotInv'
  BY NewSession DEF Accept
<1>2. backlog' \in Nat /\ readset' \subseteq Sids \cup {0} /\ Listening'
  BY DEF Accept, LoopInv, TypeOK, Listening
<1> QED
  BY <1>1, <1>2 DEF Accept, LoopInv, TypeOK, Scbs

(* One read: n messages, and broken framing behind them if broken          *)
LEMMA ReadsStep ==
    ASSUME LoopInv, NEW s \in Sids, NEW n \in 0 .. Len(agtses[s].wire),
           NEW broken \in BOOLEAN, Reads(s, n, broken), next_sesid' = next_sesid
    PROVE  /\ inreadyQ' \in Seq(Sids) /\ cc' \in {"none", "pending", "due"}
           /\ agtses' \in [Sids -> Scbs] /\ QueueInv' /\ SlotInv'
<1> DEFINE wire == agtses[s].wire
           rest == SubSeq(wire, n + 1, Len(wire))
           got == SubSeq(wire, 1, n)
           scb == [agtses[s] EXCEPT !.wire = rest, !.msgQ = @ \o got]
           last == [scb EXCEPT !.inq = TRUE]
<1>1. /\ agtses \in [Sids -> Scbs] /\ inreadyQ \in Seq(Sids)
      /\ agtses[s] \in Scbs /\ wire \in Seq(Input) /\ Len(wire) \in Nat
      /\ n \in Nat /\ n <= Len(wire)
      /\ agtses[s].msgQ \in Seq(Messages)
      /\ Wants(agtses[s]) => s \in QueueRange(inreadyQ)
  BY DEF LoopInv, QueueInv, TypeOK, Scbs
<1>2. /\ \A i \in 1 .. n : wire[i] \in Messages
      /\ inreadyQ' = IF n = 0 THEN inreadyQ ELSE MadeReady(inreadyQ, s, scb)
      /\ agtses' = IF broken THEN agt_ses_free_session(agtses, {s})
                             ELSE [agtses EXCEPT ![s] = last]
      /\ ~broken => n > 0
      /\ cc' \in CcWithout(IF broken THEN {s} ELSE {})
  BY DEF Reads
<1>3. /\ rest \in Seq(Input) /\ got \in Seq(Messages) /\ Len(got) = n
  <2>1. \A i \in n + 1 .. Len(wire) : wire[i] \in Input
    BY <1>1
  <2> QED
    BY <1>1, <1>2, <2>1, SubSeqProperties
<1> HIDE DEF wire, rest, got
<1>4. agtses[s].msgQ \o got \in Seq(Messages)
      /\ (n > 0 => agtses[s].msgQ \o got # <<>>)
  <2> DEFINE old == agtses[s].msgQ
  <2>1. old \in Seq(Messages) /\ Len(old) \in Nat /\ Len(<<>>) = 0
    BY <1>1, LenProperties, EmptySeq
  <2> HIDE DEF old
  <2>2. old \o got \in Seq(Messages) /\ Len(old \o got) = Len(old) + n
    BY <1>3, <2>1, ConcatProperties
  <2> QED
    BY <1>1, <2>1, <2>2 DEF old
<1>5. /\ scb \in Scbs /\ scb.state = agtses[s].state
      /\ scb.inq = agtses[s].inq /\ (n > 0 => Wants(scb))
  BY <1>1, <1>3, <1>4 DEF Scbs, Wants
<1>6. last \in Scbs /\ last.state = agtses[s].state
  BY <1>5 DEF Scbs
<1> HIDE DEF scb, last
<1>7. /\ inreadyQ' \in Seq(Sids)
      /\ QueueRange(inreadyQ) \subseteq QueueRange(inreadyQ')
      /\ n > 0 => s \in QueueRange(inreadyQ')
  BY <1>1, <1>2, <1>5, MadeReadyQueues DEF Wants
<1>8. cc' \in {"none", "pending", "due"}
  BY <1>2 DEF CcWithout, LoopInv, TypeOK
<1>9. CASE ~broken
  <2>1. agtses' = [agtses EXCEPT ![s] = last] /\ n > 0
    BY <1>2, <1>9
  <2> QED
    BY <1>6, <1>7, <1>8, <2>1, ChangeKeeps
<1>10. CASE broken
  <2>1. agtses' = agt_ses_free_session(agtses, {s})
    BY <1>2, <1>10
  <2>2. /\ agtses' \in [Sids -> Scbs]
        /\ \A t \in Sids : agtses'[t] = agtses[t] \/ agtses'[t] = NoScb
    BY <1>1, <2>1, FreeType
  <2>3. QueueInv'
    BY <1>7, <2>2, FreshTypes DEF LoopInv, QueueInv
  <2>4. Live' \subseteq Live
    BY <2>2 DEF Live, NoScb, Scb
  <2> QED
    BY <1>7, <1>8, <2>2, <2>3, <2>4, FewerSessions DEF LoopInv
<1> QED
  BY <1>9, <1>10

LEMMA AcceptInputStep ==
    ASSUME LoopInv, NEW s \in Sids, ses_accept_input(s)
    PROVE  LoopInv'
<1>1. /\ inreadyQ' \in Seq(Sids) /\ cc' \in {"none", "pending", "due"}
      /\ agtses' \in [Sids -> Scbs] /\ QueueInv' /\ SlotInv'
  <2>1. CASE \E n \in 0 .. Len(agtses[s].wire), broken \in BOOLEAN :
                 Reads(s, n, broken)
    BY <2>1, ReadsStep DEF ses_accept_input
  <2>2. CASE HangsUp(s)
    BY <2>2, EndsKeep
       DEF HangsUp, ses_accept_input, CcWithout, LoopInv, TypeOK
  <2> QED
    BY <2>1, <2>2 DEF ses_accept_input
<1>2. /\ readset' \subseteq Sids \cup {0}
      /\ Listening'
  BY DEF ses_accept_input, LoopInv, TypeOK, Listening
<1> QED
  BY <1>1, <1>2 DEF ses_accept_input, LoopInv, TypeOK, Scbs

(* What a dispatched message may change besides the sessions               *)
LEMMA Dispatched ==
    ASSUME LoopInv, UNCHANGED <<timeouts, pc, readset, backlog, next_sesid>>,
           inreadyQ' \in Seq(Sids), agtses' \in [Sids -> Scbs],
           cc' \in {"none", "pending", "due"},
           QueueInv', Live' \subseteq Live
    PROVE  LoopInv'
<1>1. SlotInv'
  BY FewerSessions DEF LoopInv
<1> QED
  BY <1>1 DEF LoopInv, TypeOK, Scbs, Listening

(* The first entry of the queue is a session with a message.               *)
LEMMA HandlesFacts ==
    ASSUME LoopInv, NEW s \in Sids, Handles(s)
    PROVE  /\ inreadyQ # <<>> /\ Head(inreadyQ) = s
           /\ agtses \in [Sids -> Scbs] /\ agtses[s].msgQ # <<>>
           /\ Popped(s) \in Scbs /\ Popped(s).state = agtses[s].state
           /\ Popped(s).msgQ = agtses[s].msgQ
           /\ Popped(s).inq => s \in QueueRange(Tail(inreadyQ))
           /\ \A t \in Sids : Wants(agtses[t]) => t \in QueueRange(inreadyQ)
           /\ UNCHANGED <<timeouts, pc, readset, backlog, next_sesid>>
BY PoppedType DEF Handles, First, LoopInv, TypeOK, Scbs, QueueInv

LEMMA OpensStep ==
    ASSUME LoopInv, NEW s \in Sids, NEW msg, NEW st \in {"hello_wait", "idle"},
           Opens(s, msg, st)
    PROVE  LoopInv'
<1> DEFINE scb == [Popped(s) EXCEPT !.state = st, !.due = FALSE]
<1>1. Requeued(s, scb, agtses)
  BY DEF Opens
<1>2. scb \in Scbs /\ scb.msgQ # <<>> /\ scb.inq = Popped(s).inq
  BY HandlesFacts DEF Opens, Scbs
<1>3. agtses[s].state # "none"
  BY DEF Opens, Expected, Expects
<1> HIDE DEF scb
<1>4. /\ inreadyQ' \in Seq(Sids) /\ agtses' \in [Sids -> Scbs] /\ QueueInv'
      /\ \A t \in Sids \ {s} : agtses'[t] = agtses[t]
  BY <1>1, <1>2, HandlesFacts, RequeuedQueues DEF Opens, LoopInv, scb
<1>5. Live' \subseteq Live
  BY <1>3, <1>4 DEF Live
<1> QED
  BY <1>4, <1>5, HandlesFacts, Dispatched DEF Opens, LoopInv, TypeOK

LEMMA RpcStep ==
    ASSUME LoopInv, NEW s \in Sids, agt_rpc_dispatch(s)
    PROVE  LoopInv'
<1>1. PICK due \in {agtses[s].due, FALSE} :
          Requeued(s, [Popped(s) EXCEPT !.due = due], agtses)
  BY DEF agt_rpc_dispatch
<1> DEFINE scb == [Popped(s) EXCEPT !.due = due]
<1>2. due \in BOOLEAN
  BY DEF LoopInv, TypeOK
<1>3. scb \in Scbs /\ scb.msgQ # <<>> /\ scb.inq = Popped(s).inq
  BY <1>2, HandlesFacts DEF agt_rpc_dispatch, Scbs
<1>4. agtses[s].state # "none"
  BY DEF agt_rpc_dispatch, Expected, Expects
<1> HIDE DEF scb
<1>5. /\ inreadyQ' \in Seq(Sids) /\ agtses' \in [Sids -> Scbs] /\ QueueInv'
      /\ \A t \in Sids \ {s} : agtses'[t] = agtses[t]
  BY <1>1, <1>3, HandlesFacts, RequeuedQueues DEF agt_rpc_dispatch, LoopInv, scb
<1>6. Live' \subseteq Live
  BY <1>4, <1>5 DEF Live
<1>7. cc' \in {"none", "pending", "due"}
  BY DEF agt_rpc_dispatch, LoopInv, TypeOK
<1> QED
  BY <1>5, <1>6, <1>7, HandlesFacts, Dispatched DEF agt_rpc_dispatch

LEMMA KillsStep ==
    ASSUME LoopInv, NEW s \in Sids, NEW t \in Sids, Kills(s, t)
    PROVE  LoopInv'
<1> DEFINE scb == [Popped(s) EXCEPT !.due = FALSE]
           scbs == agt_ses_free_session(agtses, {t})
<1>1. scb \in Scbs /\ scb.msgQ # <<>> /\ scb.inq = Popped(s).inq
  BY HandlesFacts DEF Kills, Scbs
<1>2. /\ scbs \in [Sids -> Scbs]
      /\ \A u \in Sids : scbs[u] = agtses[u] \/ scbs[u] = NoScb
  BY HandlesFacts, FreeType DEF Kills
<1>3. \A u \in Sids : Wants(scbs[u]) => u \in QueueRange(inreadyQ)
  BY <1>2, HandlesFacts, FreshTypes DEF Kills
<1>4. Requeued(s, scb, scbs) /\ agtses[s].state # "none"
  BY DEF Kills, Expected, Expects
<1> HIDE DEF scb, scbs
<1>5. /\ inreadyQ' \in Seq(Sids) /\ agtses' \in [Sids -> Scbs] /\ QueueInv'
      /\ \A u \in Sids \ {s} : agtses'[u] = scbs[u]
  BY <1>1, <1>2, <1>3, <1>4, HandlesFacts, RequeuedQueues DEF Kills, LoopInv
<1>6. Live' \subseteq Live
  BY <1>2, <1>4, <1>5 DEF Live, NoScb, Scb
<1>7. cc' \in {"none", "pending", "due"}
  BY DEF Kills, CcWithout, LoopInv, TypeOK
<1> QED
  BY <1>5, <1>6, <1>7, HandlesFacts, Dispatched DEF Kills

(* The session ends, so its entry may go.                                  *)
LEMMA ClosesStep ==
    ASSUME LoopInv, NEW s \in Sids, Closes(s)
    PROVE  LoopInv'
<1>1. inreadyQ' = Tail(inreadyQ) /\ agtses' = agt_ses_free_session(agtses, {s})
  BY DEF Closes
<1>2. /\ inreadyQ' \in Seq(Sids)
      /\ QueueRange(inreadyQ) = {s} \cup QueueRange(inreadyQ')
  BY <1>1, HandlesFacts, TailRange DEF Closes, LoopInv, TypeOK
<1>3. /\ agtses' \in [Sids -> Scbs] /\ agtses'[s] = NoScb
      /\ \A t \in Sids : agtses'[t] = agtses[t] \/ agtses'[t] = NoScb
  BY <1>1, HandlesFacts, FreeType DEF Closes, agt_ses_free_session
<1>4. QueueInv'
  BY <1>2, <1>3, HandlesFacts, FreshTypes DEF QueueInv, Closes
<1>5. Live' \subseteq Live
  BY <1>3 DEF Live, NoScb, Scb
<1>6. cc' \in {"none", "pending", "due"}
  BY DEF Closes, CcWithout, LoopInv, TypeOK
<1> QED
  BY <1>2, <1>3, <1>4, <1>5, <1>6, HandlesFacts, Dispatched DEF Closes

(* An entry without a message goes; the session it may belong to now is    *)
(* still queued if it was flagged.                                         *)
LEMMA DrainStopsStep ==
    ASSUME LoopInv, NEW s \in Sids, DrainStops(s)
    PROVE  LoopInv'
<1>1. /\ inreadyQ # <<>> /\ Head(inreadyQ) = s /\ agtses[s].msgQ = <<>>
      /\ inreadyQ' = Tail(inreadyQ) /\ pc' = "select"
      /\ agtses' = [agtses EXCEPT ![s] = Popped(s)]
      /\ UNCHANGED <<timeouts, readset, backlog, next_sesid, cc>>
  BY DEF DrainStops, First
<1>2. /\ inreadyQ' \in Seq(Sids)
      /\ QueueRange(inreadyQ) = {s} \cup QueueRange(inreadyQ')
  BY <1>1, TailRange DEF LoopInv, TypeOK
<1>3. /\ Popped(s) \in Scbs /\ Popped(s).state = agtses[s].state
      /\ Wants(Popped(s)) => s \in QueueRange(inreadyQ')
  BY <1>1, PoppedType DEF LoopInv, Wants
<1>4. /\ agtses \in [Sids -> Scbs] /\ agtses' \in [Sids -> Scbs]
      /\ agtses'[s] = Popped(s)
      /\ \A t \in Sids \ {s} : agtses'[t] = agtses[t]
  BY <1>1, <1>3 DEF LoopInv, TypeOK, Scbs
<1>5. QueueInv'
  BY <1>2, <1>3, <1>4 DEF LoopInv, QueueInv
<1>6. Live' = Live
  BY <1>3, <1>4 DEF Live
<1>7. SlotInv'
  BY <1>1, <1>6, FewerSessions DEF LoopInv
<1> QED
  BY <1>1, <1>2, <1>4, <1>5, <1>7 DEF LoopInv, TypeOK, Scbs, Listening

LEMMA NextStep == LoopInv /\ [Next]_vars => LoopInv'
<1> SUFFICES ASSUME LoopInv, [Next]_vars PROVE LoopInv'
  OBVIOUS
<1>1. CASE Restart
  BY <1>1, RestartStep
<1>2. CASE \E s \in Sids, x \in Sendable : Send(s, x)
  BY <1>2, SendStep
<1>3. CASE \E s \in Sids : TimeElapses(s)
  BY <1>3, TimeElapsesStep
<1>4. CASE SelectTimesOut
  BY <1>4, SelectTimesOutStep
<1>5. CASE Accept
  BY <1>5, AcceptStep
<1>6. CASE \E s \in Sids : ses_accept_input(s)
  BY <1>6, AcceptInputStep
<1>7. CASE \E s \in Sids : DrainStops(s)
  BY <1>7, DrainStopsStep
<1>8. ASSUME NEW s \in Sids, Dispatch(s) PROVE LoopInv'
  BY <1>8, OpensStep, RpcStep, KillsStep, ClosesStep
     DEF Dispatch, agt_connect_dispatch, agt_hello_dispatch
<1>9. CASE \/ Connect \/ CcElapses \/ SelectReturns \/ ServiceDone \/ DrainDone
           \/ UNCHANGED vars
  BY <1>9, QuietSteps
<1> QED
  BY <1>1, <1>2, <1>3, <1>4, <1>5, <1>6, <1>7, <1>8, <1>9 DEF Next, ServerStep

LEMMA AlwaysLoop == Spec => []LoopInv
BY InitLoop, NextStep, PTL DEF Spec

-----------------------------------------------------------------------------
(* The theorems                                                            *)

(* Every variable keeps its type, whatever clients send and however many   *)
(* sessions there are: session ids stay in the table (agt_ses_new_session).*)
THEOREM LoopTypeCorrect == Spec => []TypeOK
BY AlwaysLoop, PTL DEF LoopInv

(* No session with a complete message is forgotten by the ready queue      *)
(* (ses_msg_make_inready, agt_ses_process_first_ready).                    *)
THEOREM NoLostWakeup == Spec => []ReadyQueued
<1>1. LoopInv => ReadyQueued
  BY DEF LoopInv, QueueInv, ReadyQueued, Wants
<1> QED
  BY <1>1, AlwaysLoop, PTL

(* inready.inq is set only while the session is queued                     *)
(* (ses_msg_get_first_inready).                                            *)
THEOREM FlagsTruthful == Spec => []FlagQueued
<1>1. LoopInv => FlagQueued
  BY DEF LoopInv, QueueInv, FlagQueued, Wants
<1> QED
  BY <1>1, AlwaysLoop, PTL

(* The next session id belongs to no session (agt_ses_new_session).        *)
THEOREM SlotsNeverOverwritten == Spec => []SlotsFree
<1>1. LoopInv => SlotsFree
  BY DEF LoopInv, SlotInv
<1> QED
  BY <1>1, AlwaysLoop, PTL

(* The number of sessions stays within --max-sessions                      *)
(* (check_max_sessions).                                                   *)
THEOREM LimitKept == Spec => []SessionLimit
<1>1. LoopInv => SessionLimit
  BY DEF LoopInv, SlotInv
<1> QED
  BY <1>1, AlwaysLoop, PTL

=============================================================================
