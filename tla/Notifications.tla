--------------------------- MODULE Notifications ---------------------------
(***************************************************************************)
(* The event log and the subscriptions of the server (agt_not.c), and the  *)
(* loop that sends notifications (send_some_notifications of               *)
(* agt_ncxserver.c).                                                       *)
(*                                                                         *)
(* An event gets the next msgid and a time when it is made, and is put at  *)
(* the end of the log; a pass over the subscriptions sends each of them at *)
(* most one message.  A subscription has pointers into the log, which are  *)
(* cleared when the entry they point to is deleted, and the msgid of the   *)
(* same entries, by which it then finds its place again.                   *)
(*                                                                         *)
(* Time stamps are in seconds.  Memory is never exhausted and msgid does   *)
(* not wrap.  A refused <create-subscription> changes nothing and is left  *)
(* out.                                                                    *)
(***************************************************************************)
EXTENDS Naturals, Sequences, FiniteSets

CONSTANTS
    Sessions,
    EventTypes,     \* the types that filters tell apart
    Filters,        \* the sets of types that a filter may let pass
    Readable,       \* of these, the ones that access control lets out
    EventlogSizes,  \* values of --eventlog-size
    Bursts,         \* values of --maxburst, 0 for none
    Windows,        \* the <<startTime, stopTime>> that clients ask for
    MaxTime,        \* bound: the clock
    MaxEvents,      \* bound: the events that happen
    None,           \* no subscription, or no time
    replayComplete, notificationComplete

ASSUME ProfileAssumption ==
    /\ Readable \subseteq EventTypes /\ Filters \subseteq SUBSET EventTypes
    /\ EventlogSizes \subseteq Nat /\ Bursts \subseteq Nat
    /\ MaxTime \in Nat /\ MaxEvents \in Nat
    /\ Windows \subseteq (0..MaxTime \cup {None}) \X (0..MaxTime \cup {None})
    /\ IsFiniteSet(Sessions)

VARIABLES
    eventlog_size, maxburst,  \* of the agt_profile
    now,
    events,           \* every event so far; the msgid of one is its index
    notificationQ,    \* the msgids of the log
    notification_count,
    sub,              \* the subscription of a session
    sent,             \* what it has been sent: msgids, and the two above
    sending,          \* send_some_notifications is to make a pass
    sendtotal         \* what it has sent since it was called

profile == <<eventlog_size, maxburst>>
log == <<events, notificationQ, notification_count>>
vars == <<profile, now, log, sub, sent, sending, sendtotal>>

Ids == 1..MaxEvents
Time == 0..MaxTime
Null == 0

(* Back-pointers are msgids too, or Null.                                  *)
Subscription ==
    [state : {"replay", "timed", "live", "shutdown"},
     startTime : Time \cup {None}, stopTime : Time \cup {None},
     futurestop : BOOLEAN, filter : SUBSET EventTypes,
     firstreplaymsg : Ids \cup {Null}, firstreplaymsgid : Ids \cup {0},
     lastreplaymsg : Ids \cup {Null}, lastreplaymsgid : Ids \cup {0},
     lastmsg : Ids \cup {Null}, lastmsgid : Ids \cup {0},
     rc_ready : BOOLEAN, rc_done : BOOLEAN, nc_done : BOOLEAN]

ASSUME SymbolAssumption ==
    /\ None \notin Subscription /\ None \notin Time
    /\ replayComplete \notin Ids /\ notificationComplete \notin Ids
    /\ replayComplete # notificationComplete

Subscribed == {s \in Sessions : sub[s] # None}

Init ==
    /\ eventlog_size \in EventlogSizes /\ maxburst \in Bursts
    /\ now = 0
    /\ events = <<>>
    /\ notificationQ = <<>> /\ notification_count = 0
    /\ sub = [s \in Sessions |-> None]
    /\ sent = [s \in Sessions |-> <<>>]
    /\ sending = FALSE /\ sendtotal = 0

-----------------------------------------------------------------------------
(* The log.                                                                *)

Logged == {notificationQ[i] : i \in DOMAIN notificationQ}

Least(S) == CHOOSE x \in S : \A y \in S : x <= y

LastEntry == IF notificationQ = <<>> THEN Null
             ELSE notificationQ[Len(notificationQ)]

AtOrAfter(id) ==   \* mutant: the entry that was sent already
    LET later == {i \in Logged : i >= id}
    IN  IF later = {} THEN Null ELSE Least(later)

get_entry_after(id) ==
    LET later == {i \in Logged : i > id}
    IN  IF later = {} THEN Null ELSE Least(later)

Unless(p, id) == IF p = id THEN Null ELSE p

KeepLastmsg(id) ==   \* mutant: the place of a live subscription dangles
    sub' = [s \in Sessions |->
               IF sub[s] = None THEN None
               ELSE [sub[s] EXCEPT !.firstreplaymsg = Unless(@, id),
                                   !.lastreplaymsg = Unless(@, id)]]

(* delete_oldest_notification clears the pointers to the entry it frees.   *)
ClearPointers(id) ==
    sub' = [s \in Sessions |->
               IF sub[s] = None THEN None
               ELSE [sub[s] EXCEPT !.firstreplaymsg = Unless(@, id),
                                   !.lastreplaymsg = Unless(@, id),
                                   !.lastmsg = Unless(@, id)]]

FullByCount ==   \* mutant: also when the size of the log is not tracked
    notification_count >= eventlog_size

LogFull == eventlog_size > 0 /\ notification_count >= eventlog_size

(* An event is made and queued.  The entry that takes the place of the     *)
(* oldest one is not counted.                                              *)
agt_not_queue_notification(type) ==
    LET id == Len(events) + 1
    IN  /\ Len(events) < MaxEvents
        /\ ~sending
        /\ events' = Append(events, [time |-> now, type |-> type])
        /\ IF LogFull /\ notificationQ # <<>>
           THEN /\ notificationQ' = Append(Tail(notificationQ), id)
                /\ notification_count' = notification_count - 1
                /\ ClearPointers(Head(notificationQ))
           ELSE /\ notificationQ' = Append(notificationQ, id)
                /\ notification_count' = IF eventlog_size > 0
                                         THEN notification_count + 1
                                         ELSE notification_count
                /\ UNCHANGED sub
        /\ UNCHANGED <<profile, now, sent, sending, sendtotal>>

(* agt_not_clean_eventlog, after the pass that ends the loop: the first     *)
(* entry that stays.  Subscriptions that were not sent anything yet do not *)
(* count.                                                                  *)
FirstKept ==
    LET reached == {sub'[s].lastmsgid : s \in {t \in Sessions : sub'[t] # None}}
                   \ {0}
        kept == {i \in DOMAIN notificationQ :
                    reached # {} /\ Least(reached) <= notificationQ[i]}
    IN  Least(kept \cup {Len(notificationQ) + 1})

-----------------------------------------------------------------------------
(* <create-subscription>.                                                  *)

LaterThan(t) == {i \in Logged : events[i].time >= t}

(* create_subscription_invoke: where the replay ends, if there is a        *)
(* stopTime: at the end of the log, or before the first entry after it.    *)
ReplayEnd(first, stop, future) ==
    LET over == {i \in Logged : i > first /\ events[i].time > stop}
    IN  IF future \/ over = {} THEN LastEntry
        ELSE CHOOSE i \in Logged : get_entry_after(i) = Least(over)

ReplayNothing(stop, first, future) ==
    \/ first = Null
    \/ stop # None /\ ~future /\ stop <= events[first].time

create_subscription(s, start, stop, filter) ==
    LET future == stop # None /\ stop > now
        matching == IF start = None THEN {} ELSE LaterThan(start)
        first == IF matching = {} THEN Null ELSE Least(matching)
        none == ReplayNothing(stop, first, future)
        begin == IF none THEN Null ELSE first
        last == IF none \/ stop = None THEN Null
                ELSE ReplayEnd(first, stop, future)
        place == IF start = None THEN LastEntry ELSE Null
    IN  /\ ~sending
        /\ sub[s] = None
        /\ start # None => start <= now /\ (stop # None => start <= stop)
        /\ start = None => stop = None
        /\ sub' = [sub EXCEPT ![s] =
             [state |-> IF start = None THEN "live" ELSE "replay",
              startTime |-> start, stopTime |-> stop,
              futurestop |-> future, filter |-> filter,
              firstreplaymsg |-> begin, firstreplaymsgid |-> begin,
              lastreplaymsg |-> last, lastreplaymsgid |-> last,
              lastmsg |-> place, lastmsgid |-> place,
              rc_ready |-> start # None /\ none,
              rc_done |-> FALSE, nc_done |-> FALSE]]
        /\ sent' = [sent EXCEPT ![s] = <<>>]
        /\ sending' = TRUE
        /\ UNCHANGED <<profile, now, log, sendtotal>>

(* agt_not_remove_subscription, when the session ends.                     *)
agt_not_remove_subscription(s) ==
    /\ ~sending
    /\ sub[s] # None
    /\ sub' = [sub EXCEPT ![s] = None]
    /\ sent' = [sent EXCEPT ![s] = <<>>]
    /\ UNCHANGED <<profile, now, log, sending, sendtotal>>

-----------------------------------------------------------------------------
(* One pass: what happens to one subscription q.  The result has the       *)
(* subscription, or None when it expired, and what was sent to it.         *)

Quiet(q) == [sub |-> q, sent |-> <<>>, count |-> 0]
Told(q, what) == [sub |-> q, sent |-> <<what>>, count |-> 1]

FromTheEnd(q) ==   \* mutant: whose place was deleted goes on at the end
    IF q.lastmsgid # 0
    THEN IF q.lastmsg # Null THEN get_entry_after(q.lastmsg)
         ELSE IF LastEntry > q.lastmsgid THEN LastEntry ELSE Null
    ELSE IF q.state # "replay" THEN get_entry_after(0)
    ELSE IF q.firstreplaymsg # Null THEN q.firstreplaymsg
    ELSE get_entry_after(q.firstreplaymsgid)

(* The entry to send next.                                                 *)
NextEntry(q) ==
    IF q.lastmsgid # 0
    THEN get_entry_after(IF q.lastmsg # Null THEN q.lastmsg ELSE q.lastmsgid)
    ELSE IF q.state # "replay" THEN get_entry_after(0)
    ELSE IF q.firstreplaymsg # Null THEN q.firstreplaymsg
    ELSE get_entry_after(q.firstreplaymsgid)

(* send_notification of an entry that access control lets out; the filter  *)
(* may still hold it back.                                                 *)
Sent(q, id, next) ==
    LET type == events[id].type
    IN  IF type \notin Readable THEN Quiet(next)
        ELSE [sub |-> next, count |-> 1,
              sent |-> IF type \in q.filter THEN <<id>> ELSE <<>>]

At(q, id) == [q EXCEPT !.lastmsg = id, !.lastmsgid = id]

FinalState(q) == IF q.stopTime = None THEN "live"
                 ELSE IF q.futurestop THEN "timed" ELSE q.state

ReplayFirst(q) ==   \* mutant: over when the last entry is still ahead
    LET id == NextEntry(q)
        end == \/ q.lastreplaymsg = id
               \/ q.lastreplaymsgid # 0 /\ q.lastreplaymsgid >= id
    IN  IF id # Null
        THEN Sent(q, id, [At(q, id) EXCEPT !.rc_ready = end])
        ELSE Told([q EXCEPT !.rc_ready = TRUE, !.rc_done = TRUE,
                            !.state = FinalState(q)], replayComplete)

ReplayMore(q) ==
    LET id == NextEntry(q)
        end == \/ q.lastreplaymsg = id
               \/ q.lastreplaymsgid # 0 /\ q.lastreplaymsgid <= id
    IN  IF id # Null
        THEN Sent(q, id, [At(q, id) EXCEPT !.rc_ready = end])
        ELSE Told([q EXCEPT !.rc_ready = TRUE, !.rc_done = TRUE,
                            !.state = FinalState(q)], replayComplete)

StayReplay(q) ==   \* mutant: without a stopTime it never becomes live
    IF ~q.rc_done THEN Told([q EXCEPT !.rc_done = TRUE], replayComplete)
    ELSE IF q.stopTime # None /\ ~q.futurestop
    THEN Told([q EXCEPT !.nc_done = TRUE, !.state = "shutdown"], notificationComplete)
    ELSE Quiet([q EXCEPT !.state = IF q.futurestop THEN "timed" ELSE q.state])

(* The replay is over: replayComplete, then the final state.               *)
ReplayOver(q) ==
    IF ~q.rc_done THEN Told([q EXCEPT !.rc_done = TRUE], replayComplete)
    ELSE IF q.stopTime # None /\ ~q.futurestop
    THEN Told([q EXCEPT !.nc_done = TRUE, !.state = "shutdown"], notificationComplete)
    ELSE Quiet([q EXCEPT !.state = FinalState(q)])

Live(q) ==
    LET id == NextEntry(q)
    IN  IF id = Null THEN Quiet(q) ELSE Sent(q, id, At(q, id))

(* An event is sent before its time is compared with the stopTime.         *)
Timed(q) ==
    LET id == NextEntry(q)
        time == IF id = Null THEN now ELSE events[id].time
        stop(r) == IF q.stopTime <= time THEN [r EXCEPT !.state = "shutdown"]
                   ELSE r
    IN  IF id = Null THEN Quiet(stop(q)) ELSE Sent(q, id, stop(At(q, id)))

Shutdown(q) ==
    IF q.stopTime # None /\ ~q.nc_done
    THEN Told([q EXCEPT !.nc_done = TRUE], notificationComplete)
    ELSE Quiet(None)

Served(q) ==
    IF q = None THEN Quiet(None)
    ELSE CASE q.state = "replay" -> IF q.rc_ready THEN ReplayOver(q) ELSE ReplayMore(q)
           [] q.state = "live"   -> Live(q)
           [] q.state = "timed"  -> Timed(q)
           [] OTHER              -> Shutdown(q)

(* agt_not_send_notifications, and whether send_some_notifications calls   *)
(* it again.  The loop runs when select() times out and after a message    *)
(* was dispatched.                                                         *)
agt_not_send_notifications ==
    LET served == [s \in Sessions |-> Served(sub[s])]
        count == Cardinality({s \in Sessions : served[s].count = 1})
        total == sendtotal + count
        again == count # 0 /\ (maxburst = 0 \/ total < maxburst)
    IN  /\ sub' = [s \in Sessions |-> served[s].sub]
        /\ sent' = [s \in Sessions |-> IF served[s].sub = None THEN <<>>
                                       ELSE sent[s] \o served[s].sent]
        /\ sending' = again
        /\ sendtotal' = IF again /\ maxburst # 0 THEN total ELSE 0
        /\ notificationQ' = IF again \/ eventlog_size > 0 THEN notificationQ
                            ELSE SubSeq(notificationQ, FirstKept,
                                        Len(notificationQ))
        /\ UNCHANGED <<profile, now, events, notification_count>>

Tick ==
    /\ now < MaxTime
    /\ now' = now + 1
    /\ UNCHANGED <<profile, log, sub, sent, sending, sendtotal>>

-----------------------------------------------------------------------------
Next ==
    \/ \E type \in EventTypes : agt_not_queue_notification(type)
    \/ \E s \in Sessions, w \in Windows, f \in Filters :
          create_subscription(s, w[1], w[2], f)
    \/ \E s \in Sessions : agt_not_remove_subscription(s)
    \/ agt_not_send_notifications
    \/ Tick

(* The loop comes back to send_some_notifications: select() times out when *)
(* there is no input, and after every message there is a pass.             *)
Fairness == WF_vars(agt_not_send_notifications)

Spec == Init /\ [][Next]_vars /\ Fairness

-----------------------------------------------------------------------------
EventIds(s) == {sent[s][i] : i \in DOMAIN sent[s]} \cap Ids

TypeOK ==
    /\ eventlog_size \in EventlogSizes /\ maxburst \in Bursts
    /\ now \in Time
    /\ events \in Seq([time : Time, type : EventTypes])
    /\ notificationQ \in Seq(1..Len(events))
    /\ notification_count \in 0..Len(notificationQ)
    /\ \A s \in Sessions : sub[s] \in Subscription \cup {None}
    /\ \A s \in Sessions : sent[s] \in Seq(Ids \cup {replayComplete, notificationComplete})
    /\ sending \in BOOLEAN /\ sendtotal \in Nat

(* The back-pointers that the next pass follows point into the log: the    *)
(* place in the log of a subscription, the first entry of a replay that    *)
(* has sent nothing yet and the last entry of one that is not over.        *)
PointersLive ==
    \A s \in Subscribed :
        LET q == sub[s]
        IN  /\ q.lastmsg \in Logged \cup {Null}
            /\ q.state = "replay" /\ ~q.rc_ready =>
                  /\ q.lastreplaymsg \in Logged \cup {Null}
                  /\ q.lastmsgid = 0 => q.firstreplaymsg \in Logged \cup {Null}

(* Events are sent in the order in which they happened and never twice;    *)
(* replayComplete is sent once and only to a subscription with a           *)
(* startTime, and notificationComplete only to one with a stopTime, after  *)
(* replayComplete and with nothing after it.                               *)
InOrder ==
    \A s \in Sessions : \A j \in DOMAIN sent[s] :
        LET what == sent[s][j]
            before == {sent[s][i] : i \in 1..(j - 1)}
        IN  /\ what \in Ids => \A id \in before \cap Ids : id < what
            /\ notificationComplete \notin before
            /\ what = replayComplete => /\ sub[s].startTime # None
                                       /\ replayComplete \notin before
            /\ what = notificationComplete => /\ sub[s].stopTime # None
                                             /\ replayComplete \in before

Wanted(s, i) == events[i].type \in Readable \cap sub[s].filter

(* Whatever is deleted from the log and however a subscription finds its   *)
(* place again, no entry between two that it was sent is left out while it *)
(* is still in the log.                                                    *)
Gapless ==
    \A s \in Subscribed : \A i \in Logged :
        /\ Wanted(s, i)
        /\ \E a, b \in EventIds(s) : a < i /\ i < b
        => i \in EventIds(s)

(* replayComplete says the truth: everything in the log since the          *)
(* startTime, or before a stopTime that was past, has been sent.           *)
ReplayWhole ==
    [][\A s \in Subscribed :
          /\ Len(sent'[s]) > Len(sent[s])
          /\ sent'[s][Len(sent'[s])] = replayComplete
          /\ ~sub[s].futurestop
          => \A i \in Logged :
                /\ Wanted(s, i)
                /\ sub[s].startTime <= events[i].time
                /\ sub[s].stopTime # None => events[i].time < sub[s].stopTime
                => i \in EventIds(s)]_vars

Behind(s) ==
    /\ sub[s] # None /\ sub[s].stopTime = None
    /\ \E i \in Logged : sub[s].lastmsgid < i

(* Every event in the log is sent, or passed over, to every subscription   *)
(* without a stopTime, unless it is deleted before.                        *)
CatchesUp == \A s \in Sessions : []<>~Behind(s)
=============================================================================
