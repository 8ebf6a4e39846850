----------------------------- MODULE ServerLoop -----------------------------
(***************************************************************************)
(* The main loop of netconfd-pro (agt_ncxserver_run) and the life of its   *)
(* sessions.  One thread waits in select(), services every socket that has *)
(* input, then dispatches complete messages from the ready queue, one of a *)
(* session at a time, and waits again.  Timeouts are looked at only when   *)
(* select() has returned nothing for a second.                             *)
(*                                                                         *)
(* Clients connect, send and hang up whenever they like.  A session that   *)
(* ends while it is in the ready queue leaves its entry there, in memory   *)
(* that was freed.  The model lets the entry keep its session id, or the   *)
(* server crash (Restart); it has no outcome in which other data took the  *)
(* place of the entry.                                                     *)
(***************************************************************************)
EXTENDS Naturals, FiniteSets, Sequences

CONSTANTS
    MaxSid,        \* AGT_SES_MAX_SESSIONS - 1
    MaxSessions,   \* --max-sessions; 0: no limit
    Timeouts,      \* values of timeouts
    Sendable,      \* what clients send
    MaxInput,      \* bound: input of a session that is not processed yet
    MaxBacklog     \* bound: connections that wait to be accepted

Sids == 1 .. MaxSid

(* The session state in which the handler of a message takes it on.  "rpc" *)
(* is any operation but the two that end sessions                          *)
Expects == [connect |-> "init", hello |-> "hello_wait", rpc |-> "idle",
            kill |-> "idle", close |-> "idle"]

(* "bad": a message without a top element that has a handler               *)
Messages == DOMAIN Expects \cup {"bad"}

(* Input also holds broken framing (or a read that fails) and the end of   *)
(* the connection                                                          *)
Input == Messages \cup {"garbage", "eof"}

ASSUME LoopAssumption ==
    /\ MaxSid \in Nat \ {0}
    /\ MaxSessions \in Nat
    /\ Timeouts \subseteq SUBSET {"hello_wait", "idle"}
    /\ Sendable \subseteq Input
    /\ MaxInput \in Nat
    /\ MaxBacklog \in Nat

VARIABLES
    timeouts,    \* of the agt_profile: the states that have a timeout, those
                 \* of --hello-timeout and --idle-timeout unless they are 0
    pc,          \* "select", "service" or "drain"
    readset,     \* read_fd_set: sessions still to be serviced; 0 listens
    backlog,     \* connections that are not accepted yet
    next_sesid,  \* the next session id; 0: the last one was used
    agtses,      \* the session control blocks
    inreadyQ,    \* the ready queue, by the session ids of its entries
    cc           \* confirmed commit: "none", "pending", or "due" to expire

vars == <<timeouts, pc, readset, backlog, next_sesid, agtses, inreadyQ, cc>>

(* A control block: its state; the input the server has not read; the      *)
(* complete messages; whether inready is queued; and whether the timeout   *)
(* of its state has elapsed (hello_time or last_rpc_time is long ago)      *)
Scb(st) == [state |-> st, wire |-> <<>>, msgQ |-> <<>>,
            inq |-> FALSE, due |-> FALSE]

NoScb == Scb("none")   \* an empty slot

Live == {s \in Sids : agtses[s].state # "none"}

QueueRange(q) == {q[i] : i \in DOMAIN q}

-----------------------------------------------------------------------------
Boot ==
    [pc |-> "select", readset |-> {}, backlog |-> 0, next_sesid |-> 1,
     agtses |-> [s \in Sids |-> NoScb], inreadyQ |-> <<>>, cc |-> "none"]

Init ==
    /\ timeouts \in Timeouts
    /\ pc = Boot.pc /\ readset = Boot.readset /\ backlog = Boot.backlog
    /\ next_sesid = Boot.next_sesid /\ agtses = Boot.agtses
    /\ inreadyQ = Boot.inreadyQ /\ cc = Boot.cc

(* A shutdown, or a crash, and the next start                              *)
Restart ==
    /\ pc' = Boot.pc /\ readset' = Boot.readset /\ backlog' = Boot.backlog
    /\ next_sesid' = Boot.next_sesid /\ agtses' = Boot.agtses
    /\ inreadyQ' = Boot.inreadyQ /\ cc' = Boot.cc
    /\ UNCHANGED timeouts

-----------------------------------------------------------------------------
(* Clients and the clock                                                   *)

Connect ==
    /\ backlog < MaxBacklog
    /\ backlog' = backlog + 1
    /\ UNCHANGED <<timeouts, pc, readset, next_sesid, agtses, inreadyQ, cc>>

Send(s, x) ==
    /\ s \in Live
    /\ Len(agtses[s].wire) + Len(agtses[s].msgQ) < MaxInput
    /\ "eof" \notin QueueRange(agtses[s].wire)
    /\ agtses' = [agtses EXCEPT ![s].wire = Append(@, x)]
    /\ UNCHANGED <<timeouts, pc, readset, backlog, next_sesid, inreadyQ, cc>>

(* The session has said no hello, or sent no request, for too long         *)
TimeElapses(s) ==
    /\ agtses[s].state \in {"hello_wait", "idle"}
    /\ ~agtses[s].due
    /\ agtses' = [agtses EXCEPT ![s].due = TRUE]
    /\ UNCHANGED <<timeouts, pc, readset, backlog, next_sesid, inreadyQ, cc>>

CcElapses ==
    /\ cc = "pending"
    /\ cc' = "due"
    /\ UNCHANGED <<timeouts, pc, readset, backlog, next_sesid, agtses, inreadyQ>>

-----------------------------------------------------------------------------
(* The slots of the sessions in dead are emptied; the ready queue is left  *)
(* alone                                                                   *)
agt_ses_free_session(scbs, dead) ==
    [s \in Sids |-> IF s \in dead THEN NoScb ELSE scbs[s]]

(* A confirmed commit may end with the session that started it             *)
CcWithout(dead) == IF dead = {} THEN {cc} ELSE {cc, "none"}

(* Waiting in select()                                                     *)
Readable ==
    {s \in Live : agtses[s].wire # <<>>} \cup
        (IF backlog > 0 THEN {0} ELSE {})

SelectReturns ==
    /\ pc = "select"
    /\ Readable # {}
    /\ readset' = Readable
    /\ pc' = "service"
    /\ UNCHANGED <<timeouts, backlog, next_sesid, agtses, inreadyQ, cc>>

CheckedIdle(st) ==   \* mutant: sessions that said no hello are not checked
    st = "idle" /\ st \in timeouts

Checked(st) == st \in timeouts

TimedOut == {s \in Live : agtses[s].due /\ Checked(agtses[s].state)}

agt_ncx_check_cc_timeout(c) == IF c = "due" THEN "none" ELSE c

no_timeouts ==   \* mutant: the quick exit ignores a confirmed commit
    timeouts = {}

QuickExit == timeouts = {} /\ cc = "none"

(* agt_ses_check_timeouts, in the idle branch of the select loop; a second *)
(* has passed since the last time, so its interval never holds it back     *)
SelectTimesOut ==
    /\ pc = "select"
    /\ Readable = {}
    /\ ~QuickExit
    /\ agtses' = agt_ses_free_session(agtses, TimedOut)
    /\ \E c \in CcWithout(TimedOut) : cc' = agt_ncx_check_cc_timeout(c)
    /\ UNCHANGED <<timeouts, pc, readset, backlog, next_sesid, inreadyQ>>

-----------------------------------------------------------------------------
(* Servicing the sockets                                                   *)

(* The sessions that are counted, up to the next id                        *)
Counted == {s \in Live : next_sesid = 0 \/ s < next_sesid}

check_max_sessions == MaxSessions # 0 /\ Cardinality(Counted) >= MaxSessions

(* Ids count up to the last one; from then on a free one is searched for   *)
FreeSlots == IF next_sesid = 0 THEN Sids \ Live ELSE {next_sesid}

NextPast(slot) == slot + 1   \* mutant: counts past the last id

NextSlot(slot) ==
    IF next_sesid = 0 \/ slot = MaxSid THEN 0 ELSE slot + 1

agt_ses_new_session ==
    IF check_max_sessions \/ FreeSlots = {}
    THEN UNCHANGED <<next_sesid, agtses>>
    ELSE \E slot \in FreeSlots :
            /\ \A s \in FreeSlots : slot <= s
            /\ agtses' = [agtses EXCEPT ![slot] = Scb("init")]
            /\ next_sesid' = NextSlot(slot)

Accept ==
    /\ pc = "service"
    /\ 0 \in readset
    /\ readset' = readset \ {0}
    /\ backlog' = backlog - 1
    /\ agt_ses_new_session
    /\ UNCHANGED <<timeouts, pc, inreadyQ, cc>>

(* The queue after ses_msg_make_inready, for a session with messages       *)
MadeReady(q, s, scb) ==
    IF scb.inq \/ scb.msgQ = <<>> THEN q ELSE Append(q, s)

(* One read of the n messages that have arrived, and of broken framing     *)
(* behind them if broken is TRUE: that ends the session, which leaves the  *)
(* entry it may just have made                                             *)
Reads(s, n, broken) ==
    LET wire == agtses[s].wire
        scb == [agtses[s] EXCEPT !.wire = SubSeq(wire, n + 1, Len(wire)),
                                 !.msgQ = @ \o SubSeq(wire, 1, n)]
    IN  /\ \A i \in 1 .. n : wire[i] \in Messages
        /\ IF broken THEN scb.wire # <<>> /\ scb.wire[1] = "garbage" ELSE n > 0
        /\ inreadyQ' = IF n = 0 THEN inreadyQ ELSE MadeReady(inreadyQ, s, scb)
        /\ agtses' = IF broken
                     THEN agt_ses_free_session(agtses, {s})
                     ELSE [agtses EXCEPT ![s] = [scb EXCEPT !.inq = TRUE]]
        /\ cc' \in CcWithout(IF broken THEN {s} ELSE {})

(* The end of the connection, seen by a read of its own                    *)
HangsUp(s) ==
    /\ agtses[s].wire[1] = "eof"
    /\ agtses' = agt_ses_free_session(agtses, {s})
    /\ cc' \in CcWithout({s})
    /\ UNCHANGED inreadyQ

ses_accept_input(s) ==
    /\ pc = "service"
    /\ s \in readset
    /\ readset' = readset \ {s}
    /\ \/ \E n \in 0 .. Len(agtses[s].wire), broken \in BOOLEAN :
              Reads(s, n, broken)
       \/ HangsUp(s)
    /\ UNCHANGED <<timeouts, pc, backlog, next_sesid>>

ServiceDone ==
    /\ pc = "service"
    /\ readset = {}
    /\ pc' = "drain"
    /\ UNCHANGED <<timeouts, readset, backlog, next_sesid, agtses, inreadyQ, cc>>

-----------------------------------------------------------------------------
(* Draining the ready queue: agt_ses_process_first_ready                   *)

First(s) == pc = "drain" /\ inreadyQ # <<>> /\ Head(inreadyQ) = s

(* The control block after the first entry was taken off the queue.  If s  *)
(* is queued again behind it, it was the entry of an earlier session s     *)
Popped(s) == [agtses[s] EXCEPT !.inq = @ /\ s \in QueueRange(Tail(inreadyQ))]

DrainDone ==
    /\ pc = "drain"
    /\ inreadyQ = <<>>
    /\ pc' = "select"
    /\ UNCHANGED <<timeouts, readset, backlog, next_sesid, agtses, inreadyQ, cc>>

DrainSticks(s) ==   \* mutant: looks at the first entry and leaves it
    /\ First(s)
    /\ agtses[s].msgQ = <<>>
    /\ pc' = "select"
    /\ UNCHANGED <<timeouts, readset, backlog, next_sesid, agtses, inreadyQ, cc>>

(* The session of the entry is gone, or a new one without a message has    *)
(* its slot: the drain ends there                                          *)
DrainStops(s) ==
    /\ First(s)
    /\ agtses[s].msgQ = <<>>
    /\ inreadyQ' = Tail(inreadyQ)
    /\ agtses' = [agtses EXCEPT ![s] = Popped(s)]
    /\ pc' = "select"
    /\ UNCHANGED <<timeouts, readset, backlog, next_sesid, cc>>

Handles(s) ==
    /\ First(s)
    /\ agtses[s].msgQ # <<>>
    /\ UNCHANGED <<timeouts, pc, readset, backlog, next_sesid>>

Msg(s) == Head(agtses[s].msgQ)

Expected(s) ==
    Msg(s) \in DOMAIN Expects /\ agtses[s].state = Expects[Msg(s)]

NotRequeued(s, scb, scbs) ==   \* mutant: later messages of the session wait
    /\ inreadyQ' = Tail(inreadyQ)
    /\ agtses' = [scbs EXCEPT ![s] = [scb EXCEPT !.msgQ = Tail(@)]]

(* The message was processed and the session lives on with control block   *)
(* scb: if it has another message it goes to the end of the queue          *)
Requeued(s, scb, scbs) ==
    LET left == [scb EXCEPT !.msgQ = Tail(@)]
    IN  /\ inreadyQ' = MadeReady(Tail(inreadyQ), s, left)
        /\ agtses' = [scbs EXCEPT ![s] =
                          [left EXCEPT !.inq = @ \/ left.msgQ # <<>>]]

(* The session moves on to state st, and the time starts again             *)
Opens(s, msg, st) ==
    /\ Handles(s)
    /\ Expected(s)
    /\ Msg(s) = msg
    /\ Requeued(s, [Popped(s) EXCEPT !.state = st, !.due = FALSE], agtses)
    /\ UNCHANGED cc

(* <ncx-connect>; the server sends its <hello>                             *)
agt_connect_dispatch(s) == Opens(s, "connect", "hello_wait")

agt_hello_dispatch(s) == Opens(s, "hello", "idle")

(* An <rpc>, or a <kill-session> that is refused.  It restarts the idle    *)
(* timer unless its start is malformed, and may start, extend or finish a  *)
(* confirmed commit.                                                       *)
agt_rpc_dispatch(s) ==
    /\ Handles(s)
    /\ Expected(s)
    /\ Msg(s) \in {"rpc", "kill"}
    /\ \E due \in {agtses[s].due, FALSE} :
          Requeued(s, [Popped(s) EXCEPT !.due = due], agtses)
    /\ cc' \in IF Msg(s) = "rpc" THEN {cc, "pending", "none"} ELSE {cc}

(* <kill-session>: the other session ends at once, its entry in the ready  *)
(* queue stays                                                             *)
Kills(s, t) ==
    /\ Handles(s)
    /\ Expected(s)
    /\ Msg(s) = "kill"
    /\ t \in Live \ {s}
    /\ Requeued(s, [Popped(s) EXCEPT !.due = FALSE],
                agt_ses_free_session(agtses, {t}))
    /\ cc' \in CcWithout({t})

(* <close-session>, a message whose handler refuses its contents, or that  *)
(* is not expected in this state, or that cannot be dispatched, ends the   *)
(* session.  (Where the handler has freed it, the code goes on to remove   *)
(* the message from the freed control block: nothing more, or a crash.)    *)
Closes(s) ==
    /\ Handles(s)
    /\ Expected(s) => Msg(s) # "kill"
    /\ inreadyQ' = Tail(inreadyQ)
    /\ agtses' = agt_ses_free_session(agtses, {s})
    /\ cc' \in CcWithout({s})

Dispatch(s) ==
    \/ agt_connect_dispatch(s)
    \/ agt_hello_dispatch(s)
    \/ agt_rpc_dispatch(s)
    \/ \E t \in Sids : Kills(s, t)
    \/ Closes(s)

-----------------------------------------------------------------------------
(* What the thread of the server does by itself                            *)
ServerStep ==
    \/ SelectReturns
    \/ Accept
    \/ \E s \in Sids : ses_accept_input(s)
    \/ ServiceDone
    \/ DrainDone
    \/ \E s \in Sids : DrainStops(s) \/ Dispatch(s)

Next ==
    \/ Restart
    \/ Connect
    \/ \E s \in Sids, x \in Sendable : Send(s, x)
    \/ \E s \in Sids : TimeElapses(s)
    \/ CcElapses
    \/ SelectTimesOut
    \/ ServerStep

(* The thread runs whenever it has something to do, select() returns after *)
(* a second if there is nothing to read, and time passes.  Clients owe the *)
(* server nothing.                                                         *)
Fairness ==
    /\ WF_vars(ServerStep)
    /\ WF_vars(SelectTimesOut)
    /\ \A s \in Sids : WF_vars(TimeElapses(s))
    /\ WF_vars(CcElapses)

Spec == Init /\ [][Next]_vars /\ Fairness

-----------------------------------------------------------------------------
(* Properties                                                              *)

(* Every variable keeps its type: slots, ready queue and read set hold     *)
(* session ids in range, and a queue entry needs no live session           *)
TypeOK ==
    /\ timeouts \in Timeouts
    /\ pc \in {"select", "service", "drain"}
    /\ readset \subseteq Sids \cup {0}
    /\ backlog \in Nat
    /\ next_sesid \in Sids \cup {0}
    /\ agtses \in [Sids -> [state : {"none", "init", "hello_wait", "idle"},
                            wire : Seq(Input), msgQ : Seq(Messages),
                            inq : BOOLEAN, due : BOOLEAN]]
    /\ inreadyQ \in Seq(Sids)
    /\ cc \in {"none", "pending", "due"}

(* No lost wake-up: a session with a complete message is in the ready      *)
(* queue, whatever was read, dispatched, killed or left in the queue       *)
(* (ses_msg_make_inready, agt_ses_process_first_ready).                    *)
ReadyQueued ==
    \A s \in Sids : agtses[s].msgQ # <<>> => s \in QueueRange(inreadyQ)

(* The flag that keeps a session from being queued twice tells the truth:  *)
(* inready.inq is set only while an entry of its id is in the queue; if it *)
(* were not, later messages of the session would never be queued           *)
(* (ses_msg_make_inready, ses_msg_get_first_inready).                      *)
FlagQueued ==
    \A s \in Sids : agtses[s].inq => s \in QueueRange(inreadyQ)

(* While ids count up, no id from the next one on is taken, so a new       *)
(* session never overwrites the slot of another (agt_ses_new_session).     *)
SlotsFree ==
    next_sesid # 0 => \A s \in Live : s < next_sesid

(* There are never more sessions than --max-sessions                       *)
(* (check_max_sessions).                                                   *)
SessionLimit ==
    MaxSessions # 0 => Cardinality(Live) <= MaxSessions

(* As long as input keeps coming from anybody, the messages of a session   *)
(* are dispatched: sessions that fill the queue do not starve it, and an   *)
(* entry that ends a drain early only delays it to the next one            *)
(* (agt_ncxserver_run, agt_ses_process_first_ready).                       *)
Served ==
    []<><<SelectReturns>>_vars =>
        \A s \in Sids : \/ []<>(agtses[s].msgQ = <<>>)
                        \/ []<><<Dispatch(s)>>_vars

(* Once there is nothing to read, a session that says no hello is dropped  *)
(* (agt_ses_check_timeouts).                                               *)
HelloEnds ==
    "hello_wait" \in timeouts /\ <>[](Readable = {}) =>
        \A s \in Sids : agtses[s].state = "hello_wait" ~>
                        agtses[s].state # "hello_wait"

(* Once there is nothing to read, a pending confirmed commit expires, also *)
(* with both session timeouts switched off (agt_ses_check_timeouts).       *)
CcExpires ==
    <>[](Readable = {}) => (cc # "none" ~> cc = "none")
=============================================================================
