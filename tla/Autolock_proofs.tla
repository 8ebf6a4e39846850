--------------------------- MODULE Autolock_proofs ---------------------------
(***************************************************************************)
(* Proofs about Autolock, for every set of datastores and every bound on    *)
(* the messages under way: types and ids, that a wait has a request, that   *)
(* the client holds the locks it believes in, and that it gives back what   *)
(* it got.                                                                 *)
(*                                                                         *)
(* The helpers of the model take a session and return an outcome; the first *)
(* half states once what any outcome does (Effect), the second half what a  *)
(* step does that carries one out.                                         *)
(***************************************************************************)
EXTENDS Autolock, SequenceTheorems, FiniteSetTheorems, TLAPS

Modes == {"NORMAL"} \cup AutoModes
Ops == {"lock", "unlock", "discard", "rpc"}
Results == {"ok", "denied", "failed"}

SessionCbs ==
    {s \in [state : {"DOWN", "IDLE", "RPYWAIT"}, mode : Modes, active : BOOLEAN,
            waiting : BOOLEAN, cur : Used, cleanup : BOOLEAN, expired : BOOLEAN,
            lock : [Configs -> LockStates]] :
        \A c \in Configs \ Used : s.lock[c] = "NONE"}

Sent == [op : Ops, cfg : Used]

Outcomes == [s : SessionCbs, send : Sent \cup {Nothing}, done : BOOLEAN]

(* q is the request that the session s waits for, and the lock block of its *)
(* datastore says so                                                       *)
Awaits(s, q) ==
    /\ s.mode = "NORMAL" => q.op = "rpc"
    /\ s.mode = "AUTOLOCK" => q.op = "lock" /\ q.cfg = s.cur
    /\ s.mode = "AUTOUNLOCK" => q.op = "unlock" /\ q.cfg = s.cur
    /\ s.mode = "AUTODISCARD" => q.op = "discard"

Marked(s) ==
    /\ s.mode \in AutoModes => s.active
    /\ s.mode \in {"AUTOLOCK", "AUTODISCARD"} => s.lock[s.cur] = "REQUEST_SENT"
    /\ s.mode = "AUTOUNLOCK" => s.lock[s.cur] = "RELEASE_SENT"

(* What the outcome o of a helper makes of the idle session s: it sends one *)
(* request and waits for it, or sends nothing; a lock is never believed to  *)
(* be held that was not, and one that is no longer is being unlocked.       *)
Does(s, o) ==
    /\ o \in Outcomes
    /\ o.s.active => s.active
    /\ \/ /\ o.send = Nothing /\ o.s.state = s.state
          /\ o.s.mode \in {"AUTOLOCK", "NORMAL"} /\ (o.s.mode = "AUTOLOCK" => o.s.active)
       \/ /\ o.send # Nothing /\ o.s.state = "RPYWAIT"
          /\ Awaits(o.s, o.send) /\ Marked(o.s)
    /\ \A c \in Configs : o.s.active /\ o.s.lock[c] = "ACTIVE" => s.lock[c] = "ACTIVE"
    /\ \A c \in Configs :
          o.s.active /\ s.lock[c] = "ACTIVE" =>
             \/ o.s.lock[c] = "ACTIVE"
             \/ o.send # Nothing /\ o.s.mode = "AUTOUNLOCK" /\ o.s.cur = c

(* And the lock blocks are cleared only if nothing is held, or by a         *)
(* timeout, or without the cleanup.                                        *)
Effect(s, o) ==
    /\ Does(s, o)
    /\ s.active /\ ~o.s.active => s.expired \/ ~s.cleanup \/ InState(s, "ACTIVE") = {}

-----------------------------------------------------------------------------
(* Least elements                                                          *)

LEMMA LeastNat ==
    ASSUME NEW S, S \subseteq Nat, S # {}
    PROVE  Min(S) \in S /\ \A y \in S : Min(S) <= y
<1>1. PICK x \in S : \A y \in S : ~(<<y, x>> \in OpToRel(<, Nat))
  BY NatLessThanWellFounded, WFMin, Zenon
<1>2. \A y \in S : x <= y
  <2> SUFFICES ASSUME NEW y \in S PROVE x <= y
    OBVIOUS
  <2>1. ~(y < x)
    BY <1>1 DEF OpToRel
  <2> QED
    BY <2>1
<1> QED
  BY <1>1, <1>2 DEF Min

LEMMA LeastConfig ==
    ASSUME NEW s \in SessionCbs, NEW st \in LockStates \ {"NONE"}, InState(s, st) # {}
    PROVE  /\ Min(InState(s, st)) \in Used
           /\ s.lock[Min(InState(s, st))] = st
<1>1. InState(s, st) \subseteq Nat
  BY DEF InState, Configs
<1>2. Min(InState(s, st)) \in InState(s, st)
  BY <1>1, LeastNat
<1> QED
  BY <1>2 DEF InState, SessionCbs

-----------------------------------------------------------------------------
(* Outcomes                                                                *)

LEMMA ClearedType ==
    ASSUME NEW s \in SessionCbs
    PROVE  /\ clear_lock_cbs(s) \in SessionCbs
           /\ clear_lock_cbs(s).state = s.state
           /\ clear_lock_cbs(s).mode = "NORMAL" /\ ~clear_lock_cbs(s).active
BY UsedAssumption DEF clear_lock_cbs, SessionCbs, Modes, LockStates, Configs, Running

LEMMA ClearEffect ==
    ASSUME NEW s \in SessionCbs, s.expired \/ ~s.cleanup \/ InState(s, "ACTIVE") = {}
    PROVE  Effect(s, Keep(clear_lock_cbs(s)))
BY ClearedType DEF Effect, Does, Keep, Outcome, Outcomes

LEMMA SendEffect ==
    ASSUME NEW s \in SessionCbs, s.state = "IDLE", s.active, NEW c \in Used,
           NEW islock \in BOOLEAN, NEW m \in {"AUTOLOCK", "AUTOUNLOCK"},
           islock <=> m = "AUTOLOCK", islock => s.lock[c] # "ACTIVE",
           NEW o, o = send_lock_pdu_to_server([s EXCEPT !.mode = m], c, islock)
    PROVE  /\ Effect(s, o)
           /\ o.s.active /\ ~o.done /\ o.send # Nothing /\ o.s.mode = m
<1> DEFINE new == [s EXCEPT !.mode = m, !.cur = c, !.state = "RPYWAIT",
                            !.lock[c] = IF islock THEN "REQUEST_SENT" ELSE "RELEASE_SENT"]
<1>1. o = [s |-> new, done |-> FALSE,
           send |-> [op |-> IF islock THEN "lock" ELSE "unlock", cfg |-> c]]
  BY DEF send_lock_pdu_to_server, send_request_to_server, SessionCbs
<1>2. c \in Configs
  BY UsedAssumption DEF Configs
<1>3. new \in SessionCbs
  BY <1>2 DEF SessionCbs, Modes, AutoModes, LockStates
<1>4. o.send \in Sent /\ o.send # Nothing
  BY <1>1 DEF Sent, Ops, Nothing
<1>5. Awaits(new, o.send) /\ Marked(new) /\ new.mode = m /\ new.active /\ new.state = "RPYWAIT"
  BY <1>1, <1>2 DEF SessionCbs, Awaits, Marked, AutoModes
<1>6. \A d \in Configs : d # c => new.lock[d] = s.lock[d]
  BY <1>2 DEF SessionCbs
<1>7. new.cur = c /\ new.lock[c] # "ACTIVE"
  BY <1>2 DEF SessionCbs
<1>8. m \in AutoModes
  BY DEF AutoModes
<1> HIDE DEF new
<1>9. o \in Outcomes /\ o.s = new /\ ~o.done
  <2>1. o.s = new /\ o.done = FALSE
    BY <1>1
  <2>2. o = [s |-> o.s, done |-> o.done, send |-> o.send]
    BY <1>1
  <2>3. o.send \in Sent \cup {Nothing} /\ o.done \in BOOLEAN /\ o.s \in SessionCbs
    BY <1>3, <1>4, <2>1
  <2> QED
    BY <2>1, <2>2, <2>3 DEF Outcomes
<1> QED
  BY <1>9, <1>3, <1>4, <1>5, <1>6, <1>7, <1>8 DEF Effect, Does

LEMMA LockEffect ==
    ASSUME NEW s \in SessionCbs, s.state = "IDLE", s.active,
           NEW c \in Used, s.lock[c] # "ACTIVE"
    PROVE  /\ Effect(s, SendLock(s, c))
           /\ SendLock(s, c).s.active /\ ~SendLock(s, c).done
           /\ SendLock(s, c).send # Nothing /\ SendLock(s, c).s.mode = "AUTOLOCK"
<1>1. \A o : o = send_lock_pdu_to_server([s EXCEPT !.mode = "AUTOLOCK"], c, TRUE)
              => /\ Effect(s, o) /\ o.s.active /\ ~o.done
                 /\ o.send # Nothing /\ o.s.mode = "AUTOLOCK"
  <2> TAKE o
  <2> HAVE o = send_lock_pdu_to_server([s EXCEPT !.mode = "AUTOLOCK"], c, TRUE)
  <2> QED
    BY SendEffect, Zenon
<1> QED
  BY <1>1, Zenon DEF SendLock

LEMMA UnlockEffect ==
    ASSUME NEW s \in SessionCbs, s.state = "IDLE", s.active, s.mode = "AUTOUNLOCK",
           NEW c \in Used
    PROVE  LET o == send_lock_pdu_to_server(s, c, FALSE)
           IN  Effect(s, o) /\ ~o.done /\ o.s.mode = "AUTOUNLOCK" /\ o.s.active
<1>1. s = [s EXCEPT !.mode = "AUTOUNLOCK"]
  BY DEF SessionCbs
<1> QED
  BY <1>1, SendEffect

LEMMA ReleaseEffect ==
    ASSUME NEW s \in SessionCbs, s.state = "IDLE", s.active
    PROVE  /\ s.mode = "AUTOUNLOCK" => Effect(s, ClearWhenDone(release_locks(s)))
           /\ s.mode = "AUTOUNLOCK" =>
                 ClearWhenDone(release_locks(s)).s.mode \in {"NORMAL", "AUTOUNLOCK"}
           /\ Effect(s, ClearWhenDone(FirstRelease(s)))
           /\ ClearWhenDone(FirstRelease(s)).s.mode \in {"NORMAL", "AUTOUNLOCK"}
           /\ InState(s, "ACTIVE") # {} =>
                 ClearWhenDone(FirstRelease(s)) = FirstRelease(s) /\ FirstRelease(s).s.active
<1> DEFINE e == [s EXCEPT !.mode = "AUTOUNLOCK", !.expired = FALSE]
<1>1. /\ e \in SessionCbs /\ e.state = "IDLE" /\ e.active /\ e.mode = "AUTOUNLOCK"
      /\ InState(e, "ACTIVE") = InState(s, "ACTIVE")
      /\ e.lock = s.lock /\ e.state = s.state
  BY DEF SessionCbs, Modes, AutoModes, InState
<1>2. \A t \in {s, e} : [t EXCEPT !.mode = "AUTOUNLOCK"] = e \/ t = s
  BY DEF SessionCbs
<1>3. ASSUME NEW t \in SessionCbs, t.state = "IDLE", t.active, t.mode = "AUTOUNLOCK"
      PROVE  LET o == ClearWhenDone(release_locks(t))
             IN  /\ Effect(t, o) /\ o.s.mode \in {"NORMAL", "AUTOUNLOCK"}
                 /\ InState(t, "ACTIVE") # {} => o = release_locks(t) /\ o.s.active
  <2>1. CASE InState(t, "ACTIVE") = {}
    <3> DEFINE i == [t EXCEPT !.state = "IDLE"]
    <3>1. i = t
      BY <1>3 DEF SessionCbs
    <3>2. release_locks(t) = Outcome(clear_lock_cbs(t), TRUE)
      BY <2>1, <3>1 DEF release_locks
    <3>3. ClearWhenDone(release_locks(t)) =
             [Outcome(clear_lock_cbs(t), TRUE) EXCEPT !.s = clear_lock_cbs(clear_lock_cbs(t))]
      BY <3>2 DEF ClearWhenDone, Outcome
    <3>4. ClearWhenDone(release_locks(t)).s = clear_lock_cbs(clear_lock_cbs(t))
      BY <3>3 DEF Outcome
    <3>5. ClearWhenDone(release_locks(t)).send = Nothing
      BY <3>3 DEF Outcome
    <3>6. /\ clear_lock_cbs(clear_lock_cbs(t)) \in SessionCbs
          /\ clear_lock_cbs(clear_lock_cbs(t)).state = t.state
          /\ clear_lock_cbs(clear_lock_cbs(t)).mode = "NORMAL"
          /\ ~clear_lock_cbs(clear_lock_cbs(t)).active
      BY ClearedType
    <3> QED
      BY <2>1, <3>3, <3>4, <3>5, <3>6 DEF Effect, Does, Outcome, Outcomes
  <2>2. CASE InState(t, "ACTIVE") # {}
    <3>1. FirstActive(t) \in Used
      BY <2>2, LeastConfig DEF FirstActive, LockStates
    <3>2. release_locks(t) = send_lock_pdu_to_server(t, FirstActive(t), FALSE)
      BY <2>2 DEF release_locks
    <3>4. /\ Effect(t, release_locks(t)) /\ ~release_locks(t).done
          /\ release_locks(t).s.mode = "AUTOUNLOCK" /\ release_locks(t).s.active
      <4>1. LET o == send_lock_pdu_to_server(t, FirstActive(t), FALSE)
            IN  Effect(t, o) /\ ~o.done /\ o.s.mode = "AUTOUNLOCK" /\ o.s.active
        BY <1>3, <3>1, UnlockEffect
      <4> QED
        BY <3>2, <4>1
    <3> QED
      BY <3>4 DEF ClearWhenDone
  <2> QED
    BY <2>1, <2>2
<1>4. s.mode = "AUTOUNLOCK" =>
         /\ Effect(s, ClearWhenDone(release_locks(s)))
         /\ ClearWhenDone(release_locks(s)).s.mode \in {"NORMAL", "AUTOUNLOCK"}
  BY <1>3
<1>5. LET o == ClearWhenDone(FirstRelease(s))
      IN  Effect(e, o) /\ o.s.mode \in {"NORMAL", "AUTOUNLOCK"}
  BY <1>1, <1>3 DEF FirstRelease
<1>6. Effect(s, ClearWhenDone(FirstRelease(s)))
  BY <1>1, <1>5 DEF Effect, Does, SessionCbs
<1>7. InState(s, "ACTIVE") # {} =>
         ClearWhenDone(FirstRelease(s)) = FirstRelease(s) /\ FirstRelease(s).s.active
  BY <1>1, <1>3 DEF FirstRelease
<1> QED
  BY <1>4, <1>5, <1>6, <1>7

LEMMA CleanupEffect ==
    ASSUME NEW s \in SessionCbs, s.state = "IDLE", s.active, s.mode = "AUTOLOCK"
    PROVE  /\ Effect(s, handle_locks_cleanup(s))
           /\ handle_locks_cleanup(s).s.mode \in {"NORMAL", "AUTOUNLOCK"}
<1>1. CASE s.cleanup
  BY <1>1, ReleaseEffect DEF handle_locks_cleanup
<1>2. CASE ~s.cleanup
  <2>1. handle_locks_cleanup(s) = Keep(clear_lock_cbs(s))
    BY <1>2 DEF handle_locks_cleanup
  <2> QED
    BY <1>2, <2>1, ClearEffect, ClearedType DEF Keep, Outcome
<1> QED
  BY <1>1, <1>2

LEMMA NotSent == Nothing \notin Sent
BY DEF Nothing, Sent, Ops

(* The first request of get-locks, and a later one, or the cleanup          *)
LEMMA GetEffect ==
    ASSUME NEW s \in SessionCbs, s.state = "IDLE", s.active, s.mode = "AUTOLOCK",
           NEW due
    PROVE  /\ Effect(s, get_locks(s, due))
           /\ get_locks(s, due).done => get_locks(s, due) = Outcome(s, TRUE)
           /\ Effect(s, handle_get_locks(s, due))
<1> DEFINE idle == InState(s, "IDLE")
           again == InState(s, "TEMP_ERROR")
           o == get_locks(s, due)
           w == [s EXCEPT !.waiting = TRUE]
<1>1. Effect(s, Keep(s)) /\ Effect(s, Outcome(s, TRUE))
  BY DEF Effect, Does, Keep, Outcome, Outcomes
<1>2. Effect(s, Keep(w)) /\ ~Keep(w).done /\ ~Keep(s).done
  BY DEF Effect, Does, Keep, Outcome, Outcomes, SessionCbs
<1>3. ASSUME idle # {}
      PROVE  Effect(s, SendLock(s, Min(idle))) /\ ~SendLock(s, Min(idle)).done
  <2>1. Min(idle) \in Used /\ s.lock[Min(idle)] = "IDLE"
    BY <1>3, LeastConfig DEF LockStates
  <2> QED
    BY <2>1, LockEffect
<1>4. ASSUME again \cap due # {}
      PROVE  LET c == Min(again \cap due)
                 u == SendLock([s EXCEPT !.waiting = @ \/ \E a \in again : a < c], c)
             IN  Effect(s, u) /\ ~u.done
  <2> DEFINE c == Min(again \cap due)
             t == [s EXCEPT !.waiting = @ \/ \E a \in again : a < c]
  <2>1. c \in again
    <3>1. again \cap due \subseteq Nat
      BY DEF InState, Configs
    <3> QED
      BY <1>4, <3>1, LeastNat
  <2>2. c \in Used /\ s.lock[c] = "TEMP_ERROR"
    BY <2>1 DEF InState, SessionCbs
  <2> HIDE DEF c
  <2>3. /\ t \in SessionCbs /\ t.state = "IDLE" /\ t.active /\ t.lock = s.lock
        /\ t.expired = s.expired /\ t.cleanup = s.cleanup /\ t.state = s.state
    BY DEF SessionCbs
  <2> HIDE DEF t
  <2>4. Effect(t, SendLock(t, c)) /\ ~SendLock(t, c).done
    BY <2>2, <2>3, LockEffect
  <2>5. Effect(s, SendLock(t, c))
    BY <2>3, <2>4 DEF Effect, Does, InState
  <2> QED
    BY <2>4, <2>5 DEF t, c
<1>5. Effect(s, o) /\ (o.done => o = Outcome(s, TRUE))
  BY <1>1, <1>2, <1>3, <1>4 DEF get_locks
<1>6. Effect(s, handle_locks_cleanup(s))
  BY CleanupEffect
<1>7. Effect(s, handle_get_locks(s, due))
  <2>1. CASE s.expired
    <3>1. handle_get_locks(s, due) = [handle_locks_cleanup(s) EXCEPT !.done = FALSE]
      BY <2>1 DEF handle_get_locks
    <3>2. handle_locks_cleanup(s) \in Outcomes
      BY <1>6 DEF Effect, Does
    <3>3. /\ handle_get_locks(s, due) \in Outcomes
          /\ handle_get_locks(s, due).s = handle_locks_cleanup(s).s
          /\ handle_get_locks(s, due).send = handle_locks_cleanup(s).send
      BY <3>1, <3>2 DEF Outcomes
    <3> QED
      BY <1>6, <3>3 DEF Effect, Does
  <2>2. CASE ~s.expired /\ ~o.done
    BY <1>5, <2>2 DEF handle_get_locks
  <2>3. CASE ~s.expired /\ o.done /\ get_lock_worked(o.s)
    <3> DEFINE n == [s EXCEPT !.mode = "NORMAL", !.waiting = FALSE]
    <3>1. handle_get_locks(s, due) = Keep(n)
      <4>1. o.s = s
        BY <1>5, <2>3 DEF Outcome
      <4>2. handle_get_locks(s, due) =
               Keep([o.s EXCEPT !.mode = "NORMAL", !.waiting = FALSE])
        BY <2>3 DEF handle_get_locks
      <4> QED
        BY <4>1, <4>2
    <3>2. /\ n \in SessionCbs /\ n.state = s.state /\ n.mode = "NORMAL" /\ n.active
          /\ n.lock = s.lock
      BY DEF SessionCbs, Modes
    <3> HIDE DEF n
    <3> QED
      BY <3>1, <3>2 DEF Effect, Does, Keep, Outcome, Outcomes
  <2>4. CASE ~s.expired /\ o.done /\ ~get_lock_worked(o.s)
    BY <1>5, <1>6, <2>4 DEF handle_get_locks, Outcome
  <2> QED
    BY <2>1, <2>2, <2>3, <2>4, <1>5 DEF Effect, Does, Outcomes
<1> QED
  BY <1>5, <1>7

-----------------------------------------------------------------------------
(* The invariant                                                           *)

Waits == [id : MsgIds, old : BOOLEAN]
Requests == [id : MsgIds, op : Ops, cfg : Used]
Replies == [id : MsgIds, result : Results]

IdsOf(q) == {q[i].id : i \in DOMAIN q}
Distinct(q) == \A i, j \in DOMAIN q : q[i].id = q[j].id => i = j

Types ==
    /\ session \in SessionCbs
    /\ reqQ \in Seq(Waits) /\ requests \in Seq(Requests) /\ replies \in Seq(Replies)
    /\ holder \in [Used -> {"nobody", "me", "other"}]
    /\ up \in BOOLEAN
    /\ missed \subseteq {"reply", "overtaken", "release"}

(* No id is carried by two requests, nor by a request that was not answered *)
(* and by a reply                                                          *)
Unique ==
    /\ Distinct(reqQ) /\ Distinct(requests) /\ Distinct(replies)
    /\ IdsOf(requests) \cap IdsOf(replies) = {}

(* What the session may still put on its way without a command of the user: *)
(* one more <lock> when it is idle in get-locks, and one <unlock>.          *)
Credit(s) ==
    CASE s.mode \in {"NORMAL", "AUTOUNLOCK"} -> 0
      [] s.mode \in {"AUTOLOCK", "AUTODISCARD"} /\ s.state = "RPYWAIT" -> 2
      [] OTHER -> 4

PendInv == Pending + Credit(session) <= MaxPending + 3

DownInv ==
    /\ ~up => requests = <<>> /\ replies = <<>> /\ \A c \in Used : holder[c] # "me"
    /\ session.state = "DOWN" =>
          ~up /\ reqQ = <<>> /\ session.mode = "NORMAL" /\ ~session.active

Orderly == up /\ "overtaken" \notin missed

(* Unless a timeout has overtaken a request, the one request in the queue   *)
(* is the one that the session waits for; it is the last one on its way to  *)
(* the server, or its reply the last one on its way back.                   *)
OneInv ==
    /\ session.state = "RPYWAIT" => Marked(session)
    /\ session.state = "IDLE" => session.mode \in {"NORMAL", "AUTOLOCK"}
    /\ session.mode = "AUTOLOCK" => session.active
    /\ up /\ session.state = "RPYWAIT" => reqQ # <<>>
    /\ Orderly => IF session.state = "RPYWAIT" THEN Len(reqQ) = 1 ELSE reqQ = <<>>

Tells(s, r) == s.mode = "AUTOLOCK" /\ r = "ok" => holder[s.cur] = "me"

UnderWay ==
    Orderly /\ session.state = "RPYWAIT" =>
        IF requests # <<>>
        THEN LET q == requests[Len(requests)]
             IN  q.id = reqQ[1].id /\ Awaits(session, q)
        ELSE /\ replies # <<>>
             /\ replies[Len(replies)].id = reqQ[1].id
             /\ Tells(session, replies[Len(replies)].result)

(* A lock that the client believes in is held, and no <unlock> of it is on  *)
(* its way, not even a late one.                                           *)
Unthreatened(c) == \A i \in DOMAIN requests : requests[i].op = "unlock" => requests[i].cfg # c

HeldInv ==
    Orderly /\ session.active =>
        \A c \in Configs : session.lock[c] = "ACTIVE" => holder[c] = "me" /\ Unthreatened(c)

(* While no timeout has cut anything short: whatever the client holds on    *)
(* the server, it believes in, or is being told of, or is giving back.      *)
Accounted(c) ==
    /\ session.active
    /\ \/ session.lock[c] = "ACTIVE"
       \/ /\ session.state = "RPYWAIT" /\ session.cur = c
          /\ \/ session.mode = "AUTOLOCK" /\ requests = <<>> /\ replies[1].result = "ok"
             \/ session.mode = "AUTOUNLOCK" /\ requests # <<>>

ReleaseInv ==
    up /\ missed = {} =>
        /\ Len(requests) + Len(replies) = IF session.state = "RPYWAIT" THEN 1 ELSE 0
        /\ \A c \in Used : holder[c] = "me" => Accounted(c)

AutoInv ==
    /\ Types /\ Unique /\ PendInv /\ DownInv
    /\ OneInv /\ UnderWay /\ HeldInv /\ ReleaseInv

-----------------------------------------------------------------------------
(* Queues and ids                                                          *)

LEMMA RestOf ==
    ASSUME NEW S, NEW q \in Seq(S), q # <<>>
    PROVE  /\ Tail(q) \in Seq(S) /\ Len(Tail(q)) = Len(q) - 1
           /\ \A i \in 1..Len(q) - 1 : Tail(q)[i] = q[i + 1]
           /\ Head(q) = q[1] /\ Len(q) >= 1 /\ q[1] \in S
           /\ Distinct(q) => Distinct(Tail(q))
           /\ IdsOf(Tail(q)) \subseteq IdsOf(q)
<1>1. /\ Tail(q) \in Seq(S) /\ Len(Tail(q)) = Len(q) - 1
      /\ \A i \in 1..Len(q) - 1 : Tail(q)[i] = q[i + 1]
      /\ Head(q) = q[1] /\ Len(q) >= 1 /\ q[1] \in S
  OBVIOUS
<1>2. DOMAIN q = 1..Len(q) /\ DOMAIN Tail(q) = 1..Len(q) - 1
  BY <1>1
<1> QED
  BY <1>1, <1>2 DEF Distinct, IdsOf

LEMMA EndOf ==
    ASSUME NEW S, NEW q \in Seq(S), NEW n \in 1..Len(q) + 1
    PROVE  /\ SubSeq(q, n, Len(q)) \in Seq(S)
           /\ Len(SubSeq(q, n, Len(q))) = Len(q) - n + 1
           /\ Distinct(q) => Distinct(SubSeq(q, n, Len(q)))
           /\ IdsOf(SubSeq(q, n, Len(q))) \subseteq IdsOf(q)
<1> DEFINE t == SubSeq(q, n, Len(q))
<1>1. t \in Seq(S) /\ Len(t) = Len(q) - n + 1
  OBVIOUS
<1>2. \A i \in 1..Len(t) : t[i] = q[n + i - 1]
  OBVIOUS
<1>3. DOMAIN q = 1..Len(q) /\ DOMAIN t = 1..Len(t)
  BY <1>1
<1> HIDE DEF t
<1>4. \A i \in 1..Len(t) : n + i - 1 \in 1..Len(q)
  BY <1>1
<1>5. Distinct(q) => Distinct(t)
  <2> SUFFICES ASSUME Distinct(q), NEW i \in 1..Len(t), NEW j \in 1..Len(t), t[i].id = t[j].id
               PROVE  i = j
    BY <1>3 DEF Distinct
  <2>1. n + i - 1 = n + j - 1
    BY <1>2, <1>3, <1>4 DEF Distinct
  <2> QED
    BY <2>1, <1>1
<1>6. IdsOf(t) \subseteq IdsOf(q)
  BY <1>2, <1>3, <1>4 DEF IdsOf
<1> QED
  BY <1>1, <1>5, <1>6 DEF t

LEMMA WithoutOne ==
    ASSUME NEW S, NEW q \in Seq(S), NEW n \in 1..Len(q)
    PROVE  /\ Without(q, n) \in Seq(S)
           /\ Len(Without(q, n)) = Len(q) - 1
           /\ Distinct(q) => Distinct(Without(q, n))
           /\ IdsOf(Without(q, n)) \subseteq IdsOf(q)
<1> DEFINE t == Without(q, n)
           at(i) == IF i < n THEN i ELSE i + 1
           a == SubSeq(q, 1, n - 1)
           b == SubSeq(q, n + 1, Len(q))
<1>a. a \in Seq(S) /\ Len(a) = n - 1 /\ \A i \in 1..n - 1 : a[i] = q[i]
  OBVIOUS
<1>b. b \in Seq(S) /\ Len(b) = Len(q) - n /\ \A i \in 1..Len(q) - n : b[i] = q[n + i]
  OBVIOUS
<1>c. t = a \o b
  BY DEF Without
<1> HIDE DEF a, b, t
<1>1. t \in Seq(S) /\ Len(t) = Len(q) - 1
  BY <1>a, <1>b, <1>c
<1>2. \A i \in 1..Len(t) : t[i] = q[at(i)]
  <2> SUFFICES ASSUME NEW i \in 1..Len(t) PROVE t[i] = q[at(i)]
    OBVIOUS
  <2>1. CASE i < n
    <3>1. i \in 1..Len(a) /\ t[i] = a[i]
      BY <2>1, <1>a, <1>b, <1>c
    <3> QED
      BY <2>1, <3>1, <1>a
  <2>2. CASE ~(i < n)
    <3>1. i - (n - 1) \in 1..Len(q) - n /\ t[i] = b[i - (n - 1)]
      BY <2>2, <1>1, <1>a, <1>b, <1>c
    <3>2. n + (i - (n - 1)) = i + 1
      OBVIOUS
    <3> QED
      BY <2>2, <3>1, <3>2, <1>b
  <2> QED
    BY <2>1, <2>2
<1>3. DOMAIN q = 1..Len(q) /\ DOMAIN t = 1..Len(t)
  BY <1>1
<1>4. \A i \in 1..Len(t) : at(i) \in 1..Len(q)
  BY <1>1
<1>5. \A i, j \in 1..Len(t) : at(i) = at(j) => i = j
  BY <1>1
<1> HIDE DEF t, at
<1>6. Distinct(q) => Distinct(t)
  BY <1>2, <1>3, <1>4, <1>5 DEF Distinct
<1>7. IdsOf(t) \subseteq IdsOf(q)
  BY <1>2, <1>3, <1>4 DEF IdsOf
<1> QED
  BY <1>1, <1>6, <1>7 DEF t

LEMMA WithOne ==
    ASSUME NEW S, NEW q \in Seq(S), NEW r \in S
    PROVE  /\ Append(q, r) \in Seq(S)
           /\ Len(Append(q, r)) = Len(q) + 1
           /\ Append(q, r)[Len(q) + 1] = r
           /\ \A i \in 1..Len(q) : Append(q, r)[i] = q[i]
           /\ Distinct(q) /\ r.id \notin IdsOf(q) => Distinct(Append(q, r))
           /\ IdsOf(Append(q, r)) = IdsOf(q) \cup {r.id}
<1> DEFINE t == Append(q, r)
<1>1. /\ t \in Seq(S) /\ Len(t) = Len(q) + 1 /\ t[Len(q) + 1] = r
      /\ \A i \in 1..Len(q) : t[i] = q[i]
  OBVIOUS
<1>2. DOMAIN q = 1..Len(q) /\ DOMAIN t = 1..Len(q) \cup {Len(q) + 1}
  BY <1>1
<1> HIDE DEF t
<1>3. Distinct(q) /\ r.id \notin IdsOf(q) => Distinct(t)
  BY <1>1, <1>2 DEF Distinct, IdsOf
<1>4. IdsOf(t) = IdsOf(q) \cup {r.id}
  BY <1>1, <1>2 DEF IdsOf
<1> QED
  BY <1>1, <1>3, <1>4 DEF t

LEMMA IdsCount ==
    ASSUME NEW S, NEW q \in Seq(S)
    PROVE  IsFiniteSet(IdsOf(q)) /\ Cardinality(IdsOf(q)) <= Len(q)
<1> DEFINE f == [i \in 1..Len(q) |-> q[i].id]
<1>1. IsFiniteSet(1..Len(q)) /\ Cardinality(1..Len(q)) = Len(q)
  <2>1. Len(q) \in Nat /\ 1 \in Int /\ Len(q) \in Int
    OBVIOUS
  <2>2. /\ IsFiniteSet(1..Len(q))
        /\ Cardinality(1..Len(q)) = IF 1 > Len(q) THEN 0 ELSE Len(q) - 1 + 1
    BY <2>1, FS_Interval, Zenon
  <2> QED
    BY <2>1, <2>2
<1>2. DOMAIN q = 1..Len(q)
  OBVIOUS
<1>3. f \in Surjection(1..Len(q), IdsOf(q))
  BY <1>2 DEF Surjection, IdsOf
<1> QED
  BY <1>1, <1>3, FS_Surjection

(* There is always an id that no message carries.                           *)
LEMMA Fresh ==
    ASSUME Types, Pending <= MaxPending + 3
    PROVE  /\ NextMsgId \in MsgIds
           /\ NextMsgId \notin IdsOf(reqQ) \cup IdsOf(requests) \cup IdsOf(replies)
<1> DEFINE A == IdsOf(reqQ)
           B == IdsOf(requests)
           C == IdsOf(replies)
<1>1. /\ IsFiniteSet(A) /\ Cardinality(A) <= Len(reqQ)
      /\ IsFiniteSet(B) /\ Cardinality(B) <= Len(requests)
      /\ IsFiniteSet(C) /\ Cardinality(C) <= Len(replies)
  BY IdsCount DEF Types
<1>2. InUse = (A \cup B) \cup C
  BY DEF InUse, IdsOf
<1> HIDE DEF A, B, C
<1>3. /\ IsFiniteSet(A \cup B)
      /\ Cardinality(A \cup B) = Cardinality(A) + Cardinality(B) - Cardinality(A \cap B)
      /\ IsFiniteSet((A \cup B) \cup C)
      /\ Cardinality((A \cup B) \cup C) =
            Cardinality(A \cup B) + Cardinality(C) - Cardinality((A \cup B) \cap C)
  BY <1>1, FS_Union
<1>4. /\ Cardinality(A \cap B) \in Nat /\ Cardinality((A \cup B) \cap C) \in Nat
      /\ Cardinality(A) \in Nat /\ Cardinality(B) \in Nat /\ Cardinality(C) \in Nat
  BY <1>1, <1>3, FS_Intersection, FS_CardinalityType
<1>5. Cardinality(InUse) <= MaxPending + 3 /\ IsFiniteSet(InUse)
  BY <1>1, <1>2, <1>3, <1>4, PendingAssumption DEF Pending, Types
<1>6. Cardinality(MsgIds) = 3 * MaxPending + 7
  BY FS_Interval, PendingAssumption DEF MsgIds
<1>7. MsgIds \ InUse # {}
  <2> SUFFICES ASSUME MsgIds \subseteq InUse PROVE FALSE
    OBVIOUS
  <2>1. Cardinality(MsgIds) <= Cardinality(InUse)
    BY <1>5, FS_Subset
  <2>2. Cardinality(InUse) \in Nat
    BY <1>5, FS_CardinalityType
  <2> QED
    BY <2>1, <2>2, <1>5, <1>6, PendingAssumption
<1>8. NextMsgId \in MsgIds \ InUse
  BY <1>7, LeastNat DEF NextMsgId, MsgIds
<1> QED
  BY <1>2, <1>8 DEF A, B, C

-----------------------------------------------------------------------------
(* Carrying out an outcome: s is the session that the helper was given, and *)
(* queue what is left of reqQ.                                              *)

(* What an outcome puts on its way, now or later                            *)
Cost(o) == (IF o.send = Nothing THEN 0 ELSE 2) + Credit(o.s)

LEMMA CostOf ==
    ASSUME NEW s \in SessionCbs, s.state = "IDLE", NEW o, Does(s, o)
    PROVE  /\ Cost(o) \in 0..4
           /\ o.s.mode \in {"NORMAL", "AUTOUNLOCK"} => Cost(o) <= 2
           /\ o.s.mode = "NORMAL" /\ o.send = Nothing => Cost(o) = 0
<1>1. o.s.mode \in Modes
  BY DEF Does, Outcomes, SessionCbs
<1> QED
  BY <1>1 DEF Does, Cost, Credit, Modes, AutoModes

LEMMA CarryOut ==
    ASSUME AutoInv, up, NEW s \in SessionCbs, s.state = "IDLE", NEW o, Does(s, o),
           NEW queue, Do(o, queue),
           queue \in Seq(Waits), Distinct(queue), IdsOf(queue) \subseteq IdsOf(reqQ),
           replies' \in Seq(Replies), Distinct(replies'), IdsOf(replies') \subseteq IdsOf(replies),
           UNCHANGED <<up, holder>>,
           missed \subseteq missed', missed' \subseteq {"reply", "overtaken", "release"},
           "overtaken" \notin missed' => queue = <<>>,
           "overtaken" \notin missed' /\ s.active =>
              \A c \in Configs : s.lock[c] = "ACTIVE" => holder[c] = "me" /\ Unthreatened(c),
           missed' = {} =>
              /\ requests = <<>> /\ replies' = <<>>
              /\ \A c \in Used : holder[c] = "me" => s.active /\ s.lock[c] = "ACTIVE"
              /\ s.active /\ ~o.s.active => InState(s, "ACTIVE") = {},
           Len(queue) + Len(requests) + Len(replies') + Cost(o) <= MaxPending + 3
    PROVE  AutoInv'
<1> DEFINE id == NextMsgId
           w == [id |-> id, old |-> FALSE]
           q == [id |-> id, op |-> o.send.op, cfg |-> o.send.cfg]
<1> USE DEF AutoInv
<1>1. Types /\ session' = o.s /\ o \in Outcomes /\ o.s \in SessionCbs /\ Used \subseteq Configs
  BY UsedAssumption DEF Do, Does, Outcomes, Configs
<1>2. id \in MsgIds /\ id \notin IdsOf(reqQ) \cup IdsOf(requests) \cup IdsOf(replies)
  <2>1. Pending <= MaxPending + 3
    <3>1. Credit(session) \in {0, 2, 4}
      BY <1>1 DEF Credit, Types, SessionCbs, Modes
    <3> QED
      BY <3>1, <1>1, PendingAssumption DEF PendInv, Pending, Types
  <2> QED
    BY <2>1, <1>1, Fresh
<1> HIDE DEF id
<1>3. CASE o.send = Nothing
  <2>1. reqQ' = queue /\ requests' = requests
    BY <1>3 DEF Do
  <2>2. session'.state = "IDLE" /\ session'.mode \in {"NORMAL", "AUTOLOCK"}
        /\ (session'.mode = "AUTOLOCK" => session'.active)
    BY <1>1, <1>3 DEF Does
  <2>3. Types'
    BY <1>1, <2>1 DEF Types
  <2>4. Unique'
    <3>1. /\ Distinct(reqQ') /\ Distinct(requests') /\ IdsOf(requests') = IdsOf(requests)
          /\ IdsOf(requests) \cap IdsOf(replies) = {}
      BY <2>1 DEF Unique
    <3>2. IdsOf(requests') \cap IdsOf(replies') = {}
      BY <3>1
    <3> QED
      BY <3>1, <3>2 DEF Unique, Distinct, IdsOf
  <2>5. PendInv'
    <3>1. /\ Len(queue) \in Nat /\ Len(requests) \in Nat /\ Len(replies') \in Nat
      BY <1>1 DEF Types
    <3> QED
      BY <1>1, <1>3, <2>1, <2>2, <3>1, PendingAssumption DEF PendInv, Pending, Cost, Credit
  <2>6. DownInv'
    BY <1>1, <2>2 DEF DownInv
  <2>7. OneInv'
    BY <1>1, <2>1, <2>2 DEF OneInv, Orderly
  <2>8. UnderWay'
    BY <2>2 DEF UnderWay
  <2>9. HeldInv'
    <3> SUFFICES ASSUME Orderly', session'.active, NEW c \in Configs,
                        session'.lock[c] = "ACTIVE"
                 PROVE  holder'[c] = "me" /\ Unthreatened(c)'
      BY DEF HeldInv
    <3>1. s.lock[c] = "ACTIVE" /\ s.active
      BY <1>1 DEF Does
    <3>2. holder[c] = "me" /\ Unthreatened(c)
      BY <3>1 DEF Orderly
    <3> QED
      BY <2>1, <3>2 DEF Unthreatened
  <2>10. ReleaseInv'
    BY <1>1, <1>3, <2>1, <2>2 DEF ReleaseInv, Accounted, Does, InState
  <2> QED
    BY <2>3, <2>4, <2>5, <2>6, <2>7, <2>8, <2>9, <2>10
<1>4. CASE o.send # Nothing
  <2>1. reqQ' = Append(queue, w) /\ requests' = Append(requests, q)
    BY <1>4 DEF Do, id
  <2>2. /\ session'.state = "RPYWAIT" /\ Awaits(session', o.send) /\ Marked(session')
    BY <1>1, <1>4 DEF Does
  <2>3. w \in Waits /\ q \in Requests /\ w.id = id /\ q.id = id
        /\ q.op = o.send.op /\ q.cfg = o.send.cfg
    <3>1. o.send \in Sent
      BY <1>1, <1>4 DEF Outcomes
    <3> QED
      BY <3>1, <1>2 DEF Waits, Requests, Sent
  <2>4. Awaits(session', q)
    BY <2>2, <2>3 DEF Awaits
  <2> HIDE DEF w, q
  <2>5. /\ reqQ' \in Seq(Waits) /\ Len(reqQ') = Len(queue) + 1 /\ reqQ'[Len(queue) + 1] = w
        /\ IdsOf(reqQ') = IdsOf(queue) \cup {id} /\ Distinct(reqQ')
    BY <1>2, <2>1, <2>3, WithOne
  <2>6. /\ requests' \in Seq(Requests) /\ Len(requests') = Len(requests) + 1
        /\ requests'[Len(requests) + 1] = q
        /\ \A i \in 1..Len(requests) : requests'[i] = requests[i]
        /\ IdsOf(requests') = IdsOf(requests) \cup {id} /\ Distinct(requests')
    <3>1. requests \in Seq(Requests) /\ Distinct(requests) /\ id \notin IdsOf(requests)
      BY <1>1, <1>2 DEF Types, Unique
    <3> QED
      BY <2>1, <2>3, <3>1, WithOne
  <2>7. Types'
    BY <1>1, <2>5, <2>6 DEF Types
  <2>8. Unique'
    <3>1. IdsOf(requests') \cap IdsOf(replies') = {}
      BY <1>2, <2>6 DEF Unique
    <3> QED
      BY <2>5, <2>6, <3>1 DEF Unique, Distinct, IdsOf
  <2>9. /\ Len(queue) \in Nat /\ Len(requests) \in Nat /\ Len(replies') \in Nat
        /\ DOMAIN requests' = 1..Len(requests) + 1
    BY <1>1, <2>6 DEF Types
  <2>10. PendInv'
    <3>1. session'.mode \in Modes
      BY <1>1 DEF SessionCbs
    <3> QED
      BY <1>1, <1>4, <2>2, <2>5, <2>6, <2>9, <3>1, PendingAssumption
      DEF PendInv, Pending, Cost, Credit, Modes, AutoModes
  <2>11. DownInv'
    BY <1>1, <2>2 DEF DownInv
  <2>12. OneInv'
    <3>1. reqQ' # <<>>
      BY <2>5, <2>9
    <3>2. Orderly' => Len(reqQ') = 1
      BY <2>5 DEF Orderly
    <3>3. session'.mode = "AUTOLOCK" => session'.active
      BY <2>2 DEF Marked, AutoModes
    <3> QED
      BY <2>2, <3>1, <3>2, <3>3 DEF OneInv
  <2>13. UnderWay'
    <3>1. requests' # <<>> /\ requests'[Len(requests')] = q
      BY <2>6, <2>9
    <3>2. Orderly' => reqQ'[1] = w
      BY <2>5 DEF Orderly
    <3> QED
      BY <2>2, <2>3, <2>4, <3>1, <3>2 DEF UnderWay, w, q
  <2>14. HeldInv'
    <3> SUFFICES ASSUME Orderly', session'.active, NEW c \in Configs,
                        session'.lock[c] = "ACTIVE"
                 PROVE  holder'[c] = "me" /\ Unthreatened(c)'
      BY DEF HeldInv
    <3>1. s.lock[c] = "ACTIVE" /\ s.active
      BY <1>1, <2>2 DEF Does
    <3>2. holder[c] = "me" /\ Unthreatened(c)
      BY <3>1 DEF Orderly
    <3>3. q.op = "unlock" => q.cfg # c
      BY <1>1, <2>2, <2>4 DEF Awaits, Marked, SessionCbs, Modes, AutoModes
    <3>4. DOMAIN requests = 1..Len(requests)
      BY <1>1 DEF Types
    <3>5. \A i \in 1..Len(requests) + 1 : i \in 1..Len(requests) \/ i = Len(requests) + 1
      BY <2>9
    <3>6. \A i \in DOMAIN requests' : requests'[i].op = "unlock" => requests'[i].cfg # c
      BY <2>6, <2>9, <3>2, <3>3, <3>4, <3>5 DEF Unthreatened
    <3> QED
      BY <3>2, <3>6 DEF Unthreatened
  <2>15. ReleaseInv'
    <3> SUFFICES ASSUME missed' = {}
                 PROVE  /\ Len(requests') + Len(replies') = 1
                        /\ \A c \in Used : holder'[c] = "me" => Accounted(c)'
      BY <2>2 DEF ReleaseInv
    <3>0. Len(requests) = 0 /\ Len(replies') = 0
      OBVIOUS
    <3>1. Len(requests') = 1 /\ requests' # <<>> /\ Len(replies') = 0
      <4>1. Len(requests') = 1
        BY <2>6, <3>0
      <4>2. requests' # <<>>
        BY <2>6, <2>9
      <4> QED
        BY <4>1, <4>2, <3>0, Zenon
    <3>2. ASSUME NEW c \in Used, holder'[c] = "me" PROVE Accounted(c)'
      <4>1. s.active /\ s.lock[c] = "ACTIVE" /\ c \in Configs
        BY <3>2, <1>1
      <4>2. session'.active
        BY <1>1, <4>1 DEF InState
      <4>3. session'.lock[c] = "ACTIVE" \/ (session'.mode = "AUTOUNLOCK" /\ session'.cur = c)
        BY <1>1, <4>1, <4>2 DEF Does
      <4> QED
        BY <2>2, <3>1, <4>2, <4>3 DEF Accounted
    <3> QED
      BY <3>1, <3>2
  <2> QED
    BY <2>7, <2>8, <2>10, <2>11, <2>12, <2>13, <2>14, <2>15
<1> QED
  BY <1>3, <1>4

(* The reply that the session t waits for: s is the session once the lock   *)
(* block of the datastore has the result.                                   *)
Answered(t, result, s) ==
    /\ s \in SessionCbs /\ s.state = "IDLE"
    /\ s.active = t.active /\ s.expired = t.expired /\ s.cleanup = t.cleanup
    /\ \A c \in Configs :
          s.lock[c] = "ACTIVE" <=>
             t.lock[c] = "ACTIVE" \/ (t.mode = "AUTOLOCK" /\ result = "ok" /\ c = t.cur)

LEMMA ReplyEffect ==
    ASSUME NEW t \in SessionCbs, t.state = "RPYWAIT", Marked(t),
           NEW result \in Results, NEW due,
           NEW o, o = yangcli_reply_handler(t, result, due)
    PROVE  /\ \E s \in SessionCbs : Answered(t, result, s) /\ Effect(s, o)
           /\ t.mode \in {"NORMAL", "AUTOUNLOCK"} => o.s.mode \in {"NORMAL", "AUTOUNLOCK"}
<1> DEFINE i == [t EXCEPT !.state = "IDLE"]
<1>1. /\ i \in SessionCbs /\ i.state = "IDLE" /\ i.mode = t.mode /\ i.active = t.active
      /\ i.lock = t.lock /\ i.cur = t.cur /\ i.expired = t.expired /\ i.cleanup = t.cleanup
      /\ t.cur \in Used /\ t.cur \in Configs /\ t.mode \in Modes
  BY UsedAssumption DEF SessionCbs, Configs
<1> HIDE DEF i
<1>2. ASSUME NEW v \in LockStates, t.mode \in AutoModes
      PROVE  /\ [i EXCEPT !.lock[i.cur] = v] \in SessionCbs
             /\ [i EXCEPT !.lock[i.cur] = v].state = "IDLE"
             /\ [i EXCEPT !.lock[i.cur] = v].mode = t.mode
             /\ [i EXCEPT !.lock[i.cur] = v].active
             /\ (v = "ACTIVE" <=> t.mode = "AUTOLOCK" /\ result = "ok") =>
                   Answered(t, result, [i EXCEPT !.lock[i.cur] = v])
  <2> DEFINE s == [i EXCEPT !.lock[i.cur] = v]
  <2>1. /\ s \in SessionCbs /\ s.state = "IDLE" /\ s.mode = t.mode /\ s.active = t.active
        /\ s.expired = t.expired /\ s.cleanup = t.cleanup /\ s.lock[t.cur] = v
        /\ \A c \in Configs : c # t.cur => s.lock[c] = t.lock[c]
    BY <1>1 DEF SessionCbs
  <2> HIDE DEF s
  <2>2. t.lock[t.cur] # "ACTIVE" /\ t.active
    BY <1>2 DEF Marked, AutoModes
  <2>3. (v = "ACTIVE" <=> t.mode = "AUTOLOCK" /\ result = "ok") => Answered(t, result, s)
    BY <1>1, <2>1, <2>2 DEF Answered
  <2> QED
    BY <2>1, <2>2, <2>3 DEF s
<1>3. CASE t.mode = "NORMAL"
  <2>1. o = Keep(i)
    BY <1>3 DEF yangcli_reply_handler, i
  <2>2. Effect(i, Keep(i)) /\ Keep(i).s.mode = "NORMAL"
    BY <1>1, <1>3 DEF Effect, Does, Keep, Outcome, Outcomes
  <2> QED
    BY <1>1, <1>3, <2>1, <2>2 DEF Answered
<1>4. CASE t.mode = "AUTOLOCK"
  <2>1. o = LockReply(i, result, due)
    BY <1>4 DEF yangcli_reply_handler, i
  <2>2. CASE result \in {"ok", "denied"}
    <3> DEFINE v == IF result = "ok" THEN "ACTIVE" ELSE "TEMP_ERROR"
               s == [i EXCEPT !.lock[i.cur] = v]
    <3>1. o = handle_get_locks(s, due)
      BY <2>1, <2>2 DEF LockReply
    <3>2. v \in LockStates /\ (v = "ACTIVE" <=> result = "ok")
      BY <2>2 DEF LockStates
    <3> HIDE DEF v
    <3>3. /\ s \in SessionCbs /\ s.state = "IDLE" /\ s.mode = "AUTOLOCK" /\ s.active
          /\ Answered(t, result, s)
      BY <1>2, <1>4, <3>2 DEF AutoModes
    <3> HIDE DEF s
    <3>4. Effect(s, handle_get_locks(s, due))
      BY <3>3, GetEffect
    <3> QED
      BY <1>4, <3>1, <3>3, <3>4
  <2>3. CASE result = "failed" /\ t.cur = Candidate
    <3> DEFINE n == [i EXCEPT !.state = "RPYWAIT", !.mode = "AUTODISCARD"]
               d == [op |-> "discard", cfg |-> Candidate]
    <3>1. o = [s |-> n, send |-> d, done |-> FALSE]
      <4>1. o = [send_request_to_server(i, "discard", Candidate) EXCEPT !.s.mode = "AUTODISCARD"]
        BY <1>1, <2>1, <2>3 DEF LockReply
      <4> QED
        BY <4>1, <1>1 DEF send_request_to_server, SessionCbs
    <3>2. /\ n \in SessionCbs /\ n.lock = t.lock /\ n.cur = t.cur /\ n.mode = "AUTODISCARD"
          /\ n.active = t.active /\ n.state = "RPYWAIT"
      BY <1>1 DEF SessionCbs, Modes, AutoModes
    <3>3. d \in Sent /\ d # Nothing /\ d.op = "discard"
      BY <1>1, <2>3 DEF Sent, Ops, Nothing
    <3>4. Awaits(n, d) /\ Marked(n)
      BY <1>4, <3>2, <3>3 DEF Awaits, Marked, AutoModes
    <3> HIDE DEF n, d
    <3>5. o \in Outcomes /\ o.s = n /\ o.send = d
      BY <3>1, <3>2, <3>3 DEF Outcomes
    <3>6. Effect(i, o)
      BY <1>1, <1>4, <3>2, <3>3, <3>4, <3>5 DEF Effect, Does, Marked, AutoModes
    <3>7. Answered(t, result, i)
      BY <1>1, <2>3 DEF Answered
    <3> QED
      BY <1>1, <1>4, <3>6, <3>7
  <2>4. CASE result = "failed" /\ t.cur # Candidate
    <3> DEFINE s == [i EXCEPT !.lock[i.cur] = "FATAL_ERROR"]
    <3>1. o = Keep(s)
      BY <1>1, <2>1, <2>4 DEF LockReply
    <3>3. /\ s \in SessionCbs /\ s.state = "IDLE" /\ s.mode = "AUTOLOCK" /\ s.active
          /\ Answered(t, result, s)
      BY <1>2, <1>4, <2>4 DEF AutoModes, LockStates
    <3> HIDE DEF s
    <3>4. Effect(s, Keep(s))
      BY <3>3 DEF Effect, Does, Keep, Outcome, Outcomes
    <3> QED
      BY <1>4, <3>1, <3>3, <3>4
  <2> QED
    BY <2>2, <2>3, <2>4 DEF Results
<1>5. CASE t.mode = "AUTOUNLOCK"
  <2> DEFINE v == IF result = "ok" THEN "RELEASED" ELSE "FATAL_ERROR"
             s == [i EXCEPT !.lock[i.cur] = v]
  <2>1. o = ClearWhenDone(NextRelease(s))
    BY <1>5 DEF yangcli_reply_handler, i, UnlockReply
  <2>2. v \in LockStates /\ v # "ACTIVE"
    BY DEF LockStates
  <2> HIDE DEF v
  <2>3. /\ s \in SessionCbs /\ s.state = "IDLE" /\ s.mode = "AUTOUNLOCK" /\ s.active
        /\ Answered(t, result, s)
    BY <1>2, <1>5, <2>2 DEF AutoModes
  <2> HIDE DEF s
  <2>4. CASE s.expired
    <3>1. o = Keep(clear_lock_cbs(s))
      BY <2>1, <2>4 DEF NextRelease, ClearWhenDone, Keep, Outcome
    <3>2. Effect(s, Keep(clear_lock_cbs(s)))
      BY <2>3, <2>4, ClearEffect
    <3>3. Keep(clear_lock_cbs(s)).s.mode = "NORMAL"
      BY <2>3, ClearedType DEF Keep, Outcome
    <3> QED
      BY <2>3, <3>1, <3>2, <3>3
  <2>5. CASE ~s.expired
    <3>1. o = ClearWhenDone(release_locks(s))
      BY <2>1, <2>5 DEF NextRelease
    <3> QED
      BY <2>3, <3>1, ReleaseEffect
  <2> QED
    BY <2>4, <2>5
<1>6. CASE t.mode = "AUTODISCARD"
  <2> DEFINE s == [i EXCEPT !.mode = "AUTOLOCK"]
  <2>1. o = IF result = "ok" THEN handle_get_locks(s, due) ELSE handle_locks_cleanup(s)
    BY <1>6 DEF yangcli_reply_handler, i, DiscardReply
  <2>2. /\ s \in SessionCbs /\ s.state = "IDLE" /\ s.mode = "AUTOLOCK" /\ s.active
        /\ Answered(t, result, s)
    <3>1. /\ s \in SessionCbs /\ s.state = "IDLE" /\ s.mode = "AUTOLOCK" /\ s.lock = t.lock
          /\ s.active = t.active /\ s.expired = t.expired /\ s.cleanup = t.cleanup
      BY <1>1 DEF SessionCbs, Modes, AutoModes
    <3> QED
      BY <1>6, <3>1 DEF Answered, Marked, AutoModes
  <2> HIDE DEF s
  <2> QED
    BY <1>6, <2>1, <2>2, GetEffect, CleanupEffect
<1> QED
  BY <1>1, <1>3, <1>4, <1>5, <1>6 DEF Modes, AutoModes

-----------------------------------------------------------------------------
(* The steps                                                               *)

(* What the invariant says of a session that waits for nothing              *)
LEMMA Idle ==
    ASSUME AutoInv, up, session.state = "IDLE"
    PROVE  /\ "overtaken" \notin missed => reqQ = <<>>
           /\ "overtaken" \notin missed /\ session.active =>
                 \A c \in Configs : session.lock[c] = "ACTIVE" => holder[c] = "me" /\ Unthreatened(c)
           /\ missed = {} =>
                 /\ requests = <<>> /\ replies = <<>>
                 /\ \A c \in Used : holder[c] = "me" => session.active /\ session.lock[c] = "ACTIVE"
           /\ Pending \in Nat /\ Len(reqQ) \in Nat /\ Len(requests) \in Nat /\ Len(replies) \in Nat
           /\ Pending = Len(reqQ) + Len(requests) + Len(replies)
           /\ session \in SessionCbs
           /\ session.mode \in {"NORMAL", "AUTOLOCK"}
           /\ session.mode = "AUTOLOCK" => session.active
<1> USE DEF AutoInv
<1>1. /\ Len(reqQ) \in Nat /\ Len(requests) \in Nat /\ Len(replies) \in Nat
      /\ Len(requests) = 0 => requests = <<>>
      /\ Len(replies) = 0 => replies = <<>>
  BY DEF Types
<1>2. missed = {} => requests = <<>> /\ replies = <<>>
  BY <1>1 DEF ReleaseInv
<1> QED
  BY <1>1, <1>2 DEF OneInv, HeldInv, ReleaseInv, Accounted, Orderly, Pending, Types

(* Every step that carries out an outcome and leaves the replies alone      *)
LEMMA IdleStep ==
    ASSUME AutoInv, up, session.state = "IDLE",
           NEW s \in SessionCbs, s.state = "IDLE", NEW o, Effect(s, o), Do(o, reqQ),
           s.active /\ session.active => s.lock = session.lock,
           s.active /\ ~session.active => InState(s, "ACTIVE") = {},
           session.active => s.active,
           UNCHANGED <<replies, up, holder>>,
           missed' \in {missed, missed \cup {"release"}},
           missed' = {} /\ s.active /\ ~o.s.active => InState(s, "ACTIVE") = {},
           Pending + 4 <= MaxPending + 3
    PROVE  AutoInv'
<1>1. Types /\ Unique
  BY DEF AutoInv
<1>2. /\ reqQ \in Seq(Waits) /\ Distinct(reqQ) /\ replies' \in Seq(Replies) /\ Distinct(replies')
      /\ IdsOf(replies') = IdsOf(replies)
  BY <1>1 DEF Types, Unique, Distinct, IdsOf
<1>3. missed \subseteq missed' /\ missed' \subseteq {"reply", "overtaken", "release"}
  BY <1>1 DEF Types
<1>4. "overtaken" \notin missed' /\ s.active =>
         \A c \in Configs : s.lock[c] = "ACTIVE" => holder[c] = "me" /\ Unthreatened(c)
  BY <1>3, Idle DEF InState
<1>5. missed' = {} =>
         /\ requests = <<>> /\ replies' = <<>>
         /\ \A c \in Used : holder[c] = "me" => s.active /\ s.lock[c] = "ACTIVE"
  BY <1>3, Idle
<1>6. Len(reqQ) + Len(requests) + Len(replies') + Cost(o) <= MaxPending + 3
  BY Idle, CostOf, PendingAssumption DEF Effect
<1>7. "overtaken" \notin missed' => reqQ = <<>>
  BY <1>3, Idle
<1> QED
  BY CarryOut, <1>2, <1>3, <1>4, <1>5, <1>6, <1>7 DEF Effect

LEMMA SetupType ==
    ASSUME NEW s \in SessionCbs, NEW b \in BOOLEAN
    PROVE  LET t == [setup_lock_cbs(s) EXCEPT !.cleanup = b, !.expired = FALSE]
           IN  /\ t \in SessionCbs /\ t.state = s.state /\ t.active
               /\ \A c \in Configs : t.lock[c] = IF c \in Used THEN "IDLE" ELSE "NONE"
<1> DEFINE t == [setup_lock_cbs(s) EXCEPT !.cleanup = b, !.expired = FALSE]
           l == [c \in Configs |-> IF c \in Used THEN "IDLE" ELSE "NONE"]
<1>1. l \in [Configs -> LockStates]
  BY DEF LockStates
<1>2. \A c \in Configs : l[c] = IF c \in Used THEN "IDLE" ELSE "NONE"
  OBVIOUS
<1> HIDE DEF l
<1>3. t = [s EXCEPT !.active = TRUE, !.waiting = FALSE, !.cur = Running, !.lock = l,
                    !.cleanup = b, !.expired = FALSE]
  BY DEF setup_lock_cbs, SessionCbs, l
<1>4. Running \in Used
  BY UsedAssumption DEF Running
<1>5. /\ t.lock = l /\ t.state = s.state /\ t.active
      /\ t \in [state : {"DOWN", "IDLE", "RPYWAIT"}, mode : Modes, active : BOOLEAN,
            waiting : BOOLEAN, cur : Used, cleanup : BOOLEAN, expired : BOOLEAN,
            lock : [Configs -> LockStates]]
  BY <1>1, <1>3, <1>4 DEF SessionCbs
<1> QED
  BY <1>2, <1>5 DEF SessionCbs

LEMMA StepGetLocks ==
    ASSUME AutoInv, NEW b \in Cleanups, do_get_locks(b)
    PROVE  AutoInv'
<1> DEFINE t == [setup_lock_cbs(session) EXCEPT !.cleanup = b, !.expired = FALSE]
           o == get_locks(t, {})
<1>1. /\ session \in SessionCbs /\ up /\ session.state = "IDLE" /\ Pending < MaxPending
      /\ b \in BOOLEAN /\ ~session.active
  BY ClocksAssumption DEF AutoInv, Types, do_get_locks, Ready
<1>2. Do(o, reqQ) /\ UNCHANGED <<replies, holder, up, missed>>
  BY DEF do_get_locks
<1>3. /\ t \in SessionCbs /\ t.state = "IDLE" /\ t.active
      /\ \A c \in Configs : t.lock[c] = IF c \in Used THEN "IDLE" ELSE "NONE"
  BY <1>1, SetupType
<1> HIDE DEF t
<1>4. 1 \in InState(t, "IDLE") /\ InState(t, "FATAL_ERROR") = {} /\ InState(t, "ACTIVE") = {}
  BY <1>3, UsedAssumption DEF InState, Configs
<1>5. o = SendLock(t, Min(InState(t, "IDLE")))
  BY <1>4 DEF get_locks
<1>6. Min(InState(t, "IDLE")) \in Used /\ t.lock[Min(InState(t, "IDLE"))] = "IDLE"
  BY <1>3, <1>4, LeastConfig DEF LockStates
<1>7. Effect(t, o) /\ o.s.active
  BY <1>3, <1>5, <1>6, LockEffect
<1> HIDE DEF o
<1>8. Pending + 4 <= MaxPending + 3
  BY <1>1, Idle, PendingAssumption
<1> QED
  BY <1>1, <1>2, <1>3, <1>4, <1>7, <1>8, IdleStep

LEMMA StepReleaseLocks ==
    ASSUME AutoInv, do_release_locks
    PROVE  AutoInv'
<1> DEFINE t == [session EXCEPT !.cleanup = TRUE]
           o == FirstRelease(t)
<1>1. /\ session \in SessionCbs /\ up /\ session.state = "IDLE" /\ Pending < MaxPending
      /\ session.active /\ InState(session, "ACTIVE") # {}
  BY DEF AutoInv, Types, do_release_locks, Ready
<1>2. Do(o, reqQ) /\ UNCHANGED <<replies, holder, up, missed>>
  BY DEF do_release_locks
<1>3. /\ t \in SessionCbs /\ t.state = "IDLE" /\ t.active /\ t.lock = session.lock
      /\ InState(t, "ACTIVE") # {}
  BY <1>1 DEF SessionCbs, InState
<1> HIDE DEF t
<1>4. Effect(t, o) /\ o.s.mode \in {"NORMAL", "AUTOUNLOCK"}
  BY <1>3, ReleaseEffect
<1>6. o.s.active
  BY <1>3, ReleaseEffect
<1> HIDE DEF o
<1>7. Pending + 4 <= MaxPending + 3
  BY <1>1, Idle, PendingAssumption
<1> QED
  BY <1>1, <1>2, <1>3, <1>4, <1>6, <1>7, IdleStep

LEMMA StepSendCommand ==
    ASSUME AutoInv, SendCommand
    PROVE  AutoInv'
<1> DEFINE n == [session EXCEPT !.state = "RPYWAIT"]
           d == [op |-> "rpc", cfg |-> Running]
           o == send_request_to_server(session, "rpc", Running)
<1>1. /\ session \in SessionCbs /\ up /\ session.state = "IDLE" /\ Pending < MaxPending
      /\ session.mode = "NORMAL" /\ Do(o, reqQ)
      /\ UNCHANGED <<replies, holder, up, missed>>
  BY DEF AutoInv, Types, SendCommand, Ready
<1>2. o = [s |-> n, send |-> d, done |-> FALSE]
  BY DEF send_request_to_server
<1>3. /\ n \in SessionCbs /\ n.state = "RPYWAIT" /\ n.mode = "NORMAL"
      /\ n.lock = session.lock /\ n.active = session.active
  BY <1>1 DEF SessionCbs
<1>4. d \in Sent /\ d # Nothing /\ d.op = "rpc"
  BY UsedAssumption DEF Sent, Ops, Nothing, Running
<1> HIDE DEF n, d, o
<1>5. Awaits(n, d) /\ Marked(n)
  BY <1>3, <1>4 DEF Awaits, Marked, AutoModes
<1>6. o \in Outcomes /\ o.s = n /\ o.send = d
  BY <1>2, <1>3, <1>4 DEF Outcomes
<1>7. Effect(session, o)
  BY <1>1, <1>3, <1>4, <1>5, <1>6 DEF Effect, Does
<1>8. Pending + 4 <= MaxPending + 3
  BY <1>1, Idle, PendingAssumption
<1> QED
  BY <1>1, <1>3, <1>6, <1>7, <1>8, IdleStep

(* The two steps of the input handler in the middle of get-locks            *)
LEMMA AutolockStep ==
    ASSUME AutoInv, up, session.state = "IDLE", session.mode = "AUTOLOCK",
           NEW o, Effect(session, o), Do(o, reqQ), UNCHANGED <<replies, holder, up>>,
           missed' = missed \cup IF Forgets THEN {"release"} ELSE {}
    PROVE  AutoInv'
<1>1. session.active /\ session \in SessionCbs
  BY Idle
<1>2. missed' = {} /\ ~o.s.active => InState(session, "ACTIVE") = {}
  BY <1>1 DEF Effect, Forgets, Do
<1>3. Pending + 4 <= MaxPending + 3
  BY DEF AutoInv, PendInv, Credit
<1> QED
  BY <1>1, <1>2, <1>3, IdleStep

LEMMA StepIdleExpired ==
    ASSUME AutoInv, IdleExpired
    PROVE  AutoInv'
<1>1. session.mode = "AUTOLOCK" /\ session.active /\ session \in SessionCbs
  BY Idle DEF IdleExpired, AutoModes
<1>2. Effect(session, handle_locks_cleanup(session))
  BY <1>1, CleanupEffect DEF IdleExpired
<1>3. Do(handle_locks_cleanup(session), reqQ)
  BY <1>1 DEF IdleExpired
<1> QED
  BY <1>1, <1>2, <1>3, AutolockStep DEF IdleExpired

LEMMA StepRetry ==
    ASSUME AutoInv, Retry
    PROVE  AutoInv'
<1>1. session.mode = "AUTOLOCK" /\ session.active /\ session \in SessionCbs
  BY Idle DEF Retry
<1>2. PICK due \in SUBSET InState(session, "TEMP_ERROR") : Do(handle_get_locks(session, due), reqQ)
  BY DEF Retry
<1>3. Effect(session, handle_get_locks(session, due))
  BY <1>1, GetEffect DEF Retry
<1> QED
  BY <1>1, <1>2, <1>3, AutolockStep DEF Retry

LEMMA StillQueued ==
    ASSUME Types, Unique
    PROVE  /\ mgr_rpc_timeout_requestQ \in Seq(Waits) /\ Distinct(mgr_rpc_timeout_requestQ)
           /\ IdsOf(mgr_rpc_timeout_requestQ) \subseteq IdsOf(reqQ)
           /\ Len(mgr_rpc_timeout_requestQ) <= Len(reqQ)
           /\ Len(mgr_rpc_timeout_requestQ) \in Nat
<1> DEFINE F == {i \in 1..Len(reqQ) + 1 : i <= Len(reqQ) => ~TimedOut(reqQ[i])}
<1>1. reqQ \in Seq(Waits) /\ Distinct(reqQ) /\ Len(reqQ) \in Nat
  BY DEF Types, Unique
<1>2. Len(reqQ) + 1 \in F /\ F \subseteq Nat
  BY <1>1
<1>3. FirstWaiting \in 1..Len(reqQ) + 1
  BY <1>2, LeastNat DEF FirstWaiting
<1> QED
  BY <1>1, <1>3, EndOf DEF mgr_rpc_timeout_requestQ

LEMMA StepWaitExpired ==
    ASSUME AutoInv, WaitExpired
    PROVE  AutoInv'
<1> DEFINE queue == mgr_rpc_timeout_requestQ
           i == [session EXCEPT !.state = "IDLE"]
           l == [i EXCEPT !.mode = "AUTOLOCK"]
<1>1. /\ up /\ session.state = "RPYWAIT" /\ Do(Abandon, queue)
      /\ UNCHANGED <<replies, holder, up>>
      /\ Types /\ Unique /\ session \in SessionCbs /\ Marked(session)
  BY DEF WaitExpired, AutoInv, Types, OneInv
<1>2. /\ queue \in Seq(Waits) /\ Distinct(queue) /\ IdsOf(queue) \subseteq IdsOf(reqQ)
      /\ Len(queue) <= Len(reqQ) /\ Len(queue) \in Nat
  BY <1>1, StillQueued
<1> HIDE DEF queue
<1>3. /\ missed \subseteq missed' /\ missed' \subseteq {"reply", "overtaken", "release"}
      /\ "overtaken" \notin missed' => queue = <<>>
  BY <1>1 DEF WaitExpired, Types, queue
<1>4. missed' # {}
  <2>1. reqQ # <<>>
    BY <1>1 DEF AutoInv, OneInv
  <2>2. message_timed_out \/ queue # <<>>
    BY <2>1 DEF message_timed_out, queue
  <2> QED
    BY <2>2 DEF WaitExpired, queue
<1>5. /\ i \in SessionCbs /\ i.state = "IDLE" /\ i.lock = session.lock /\ i.active = session.active
      /\ i.mode = session.mode
      /\ l \in SessionCbs /\ l.state = "IDLE" /\ l.lock = session.lock /\ l.active = session.active
      /\ l.mode = "AUTOLOCK"
      /\ WaitOver = i /\ session.mode \in Modes
  BY <1>1 DEF SessionCbs, Modes, AutoModes, WaitOver
<1> HIDE DEF i, l
<1>6. \E s \in SessionCbs :
         /\ s.state = "IDLE" /\ s.lock = session.lock /\ s.active = session.active
         /\ Does(s, Abandon) /\ Cost(Abandon) <= Credit(session)
  <2>1. CASE session.mode = "NORMAL"
    <3>1. Abandon = Keep(i)
      BY <2>1, <1>5 DEF Abandon
    <3> QED
      BY <2>1, <3>1, <1>5 DEF Does, Keep, Outcome, Outcomes, Cost, Credit
  <2>2. CASE session.mode = "AUTOUNLOCK"
    <3>1. Abandon = Keep(clear_lock_cbs(i))
      BY <2>2, <1>5 DEF Abandon
    <3> QED
      BY <2>2, <3>1, <1>5, ClearedType DEF Does, Keep, Outcome, Outcomes, Cost, Credit
  <2>3. CASE session.mode \in {"AUTOLOCK", "AUTODISCARD"}
    <3>1. Abandon = handle_locks_cleanup(l)
      BY <2>3, <1>5 DEF Abandon, l
    <3>2. l.active
      BY <1>1, <1>5, <2>3 DEF Marked, AutoModes
    <3>3. Does(l, Abandon) /\ Abandon.s.mode \in {"NORMAL", "AUTOUNLOCK"}
      BY <3>1, <3>2, <1>5, CleanupEffect DEF Effect
    <3>4. Cost(Abandon) <= 2 /\ Credit(session) = 2
      BY <2>3, <3>3, <1>1, <1>5, CostOf DEF Credit
    <3> QED
      BY <3>3, <3>4, <1>5
  <2> QED
    BY <2>1, <2>2, <2>3, <1>5 DEF Modes, AutoModes
<1>7. PICK s \in SessionCbs :
         /\ s.state = "IDLE" /\ s.lock = session.lock /\ s.active = session.active
         /\ Does(s, Abandon) /\ Cost(Abandon) <= Credit(session)
  BY <1>6
<1>8. "overtaken" \notin missed' /\ s.active =>
         \A c \in Configs : s.lock[c] = "ACTIVE" => holder[c] = "me" /\ Unthreatened(c)
  BY <1>1, <1>3, <1>7 DEF AutoInv, HeldInv, Orderly
<1>9. Len(queue) + Len(requests) + Len(replies') + Cost(Abandon) <= MaxPending + 3
  <2>1. Cost(Abandon) \in Nat /\ Credit(session) \in Nat
    BY <1>7, CostOf DEF Credit
  <2> QED
    BY <1>1, <1>2, <1>7, <2>1, PendingAssumption DEF AutoInv, PendInv, Pending, Types
<1>10. /\ replies' \in Seq(Replies) /\ Distinct(replies') /\ IdsOf(replies') \subseteq IdsOf(replies)
  BY <1>1 DEF Types, Unique, Distinct, IdsOf
<1> QED
  BY <1>1, <1>2, <1>3, <1>4, <1>7, <1>8, <1>9, <1>10, CarryOut

(* The oldest request is the one that the reply at the head answers: then   *)
(* nothing else is under way.                                               *)
LEMMA OnlyReply ==
    ASSUME AutoInv, Orderly, session.state = "RPYWAIT", replies # <<>>, reqQ # <<>>,
           reqQ[1].id = replies[1].id
    PROVE  /\ requests = <<>> /\ Len(replies) = 1
           /\ Tells(session, replies[1].result)
<1>1. /\ requests \in Seq(Requests) /\ replies \in Seq(Replies)
      /\ Distinct(replies) /\ IdsOf(requests) \cap IdsOf(replies) = {} /\ UnderWay
  BY DEF AutoInv, Types, Unique
<1>2. 1 \in DOMAIN replies /\ Len(replies) \in DOMAIN replies
  BY <1>1
<1>3. requests = <<>>
  <2> SUFFICES ASSUME requests # <<>> PROVE FALSE
    OBVIOUS
  <2>1. Len(requests) \in DOMAIN requests
    BY <1>1
  <2>2. requests[Len(requests)].id = reqQ[1].id
    BY <1>1 DEF UnderWay
  <2> QED
    BY <1>1, <1>2, <2>1, <2>2 DEF IdsOf
<1>4. replies[Len(replies)].id = reqQ[1].id /\ Tells(session, replies[Len(replies)].result)
  BY <1>1, <1>3 DEF UnderWay
<1>5. Len(replies) = 1
  BY <1>1, <1>2, <1>4 DEF Distinct
<1> QED
  BY <1>3, <1>4, <1>5

LEMMA StrayReply ==
    ASSUME AutoInv, up, replies # <<>>, find_request(Head(replies).id) = 0,
           replies' = Tail(replies), UNCHANGED <<session, reqQ, requests, holder, up, missed>>
    PROVE  AutoInv'
<1> USE DEF AutoInv
<1>1. /\ replies \in Seq(Replies) /\ reqQ \in Seq(Waits) /\ requests \in Seq(Requests)
      /\ Distinct(replies)
  BY DEF Types, Unique
<1>2. /\ Tail(replies) \in Seq(Replies) /\ Len(Tail(replies)) = Len(replies) - 1
      /\ \A i \in 1..Len(replies) - 1 : Tail(replies)[i] = replies[i + 1]
      /\ Head(replies) = replies[1] /\ Len(replies) >= 1
      /\ Distinct(Tail(replies)) /\ IdsOf(Tail(replies)) \subseteq IdsOf(replies)
  BY <1>1, RestOf
<1>3. reqQ # <<>> => reqQ[1].id # replies[1].id
  <2> SUFFICES ASSUME reqQ # <<>>, reqQ[1].id = replies[1].id PROVE FALSE
    OBVIOUS
  <2>1. 1 \in Matches(replies[1].id) /\ Matches(replies[1].id) \subseteq Nat \ {0}
    BY <1>1 DEF Matches
  <2>2. Min(Matches(replies[1].id)) \in Matches(replies[1].id)
    BY <2>1, LeastNat
  <2> QED
    BY <1>2, <2>1, <2>2 DEF find_request
<1>4. Types'
  BY <1>2 DEF Types
<1>5. Unique'
  <2>1. /\ Distinct(reqQ') /\ Distinct(requests') /\ Distinct(replies')
        /\ IdsOf(requests') = IdsOf(requests) /\ IdsOf(replies') \subseteq IdsOf(replies)
        /\ IdsOf(requests) \cap IdsOf(replies) = {}
    BY <1>2 DEF Unique
  <2>2. IdsOf(requests') \cap IdsOf(replies') = {}
    BY <2>1
  <2> QED
    BY <2>1, <2>2 DEF Unique, Distinct, IdsOf
<1>6. PendInv'
  BY <1>1, <1>2, PendingAssumption DEF PendInv, Pending, Credit
<1>7. DownInv' /\ OneInv' /\ HeldInv'
  BY DEF DownInv, OneInv, HeldInv, Orderly, Marked, Unthreatened
<1>8. UnderWay'
  <2> SUFFICES ASSUME Orderly, session.state = "RPYWAIT", requests = <<>>
               PROVE  /\ replies' # <<>>
                      /\ replies'[Len(replies')].id = reqQ[1].id
                      /\ Tells(session, replies'[Len(replies')].result)
    BY DEF UnderWay, Orderly, Tells, Awaits
  <2>1. /\ replies[Len(replies)].id = reqQ[1].id /\ Tells(session, replies[Len(replies)].result)
        /\ reqQ # <<>>
    BY DEF UnderWay, OneInv, Orderly
  <2>2. Len(replies) >= 2
    BY <1>1, <1>2, <1>3, <2>1
  <2> QED
    BY <1>1, <1>2, <2>1, <2>2
<1>9. ReleaseInv'
  <2>1. missed # {}
    <3> SUFFICES ASSUME missed = {} PROVE FALSE
      OBVIOUS
    <3>1. Len(requests) = 0 /\ Len(replies) = 1 /\ session.state = "RPYWAIT"
      BY <1>1, <1>2 DEF ReleaseInv
    <3> QED
      BY <1>1, <1>3, <3>1 DEF UnderWay, OneInv, Orderly
  <2> QED
    BY <2>1 DEF ReleaseInv
<1> QED
  BY <1>4, <1>5, <1>6, <1>7, <1>8, <1>9

LEMMA StepDispatch ==
    ASSUME AutoInv, mgr_rpc_dispatch
    PROVE  AutoInv'
<1> DEFINE rpy == Head(replies)
           n == find_request(rpy.id)
           queue == Without(reqQ, n)
<1>1. /\ up /\ replies # <<>> /\ replies' = Tail(replies) /\ UNCHANGED <<holder, up>>
      /\ missed' = missed \cup IF Forgets THEN {"release"} ELSE {}
      /\ session \in SessionCbs /\ Types /\ Unique
  BY DEF mgr_rpc_dispatch, AutoInv, Types
<1>2. /\ replies \in Seq(Replies) /\ reqQ \in Seq(Waits) /\ requests \in Seq(Requests)
      /\ replies' \in Seq(Replies) /\ Distinct(replies') /\ IdsOf(replies') \subseteq IdsOf(replies)
      /\ Len(replies') = Len(replies) - 1
      /\ rpy = replies[1] /\ rpy \in Replies
  BY <1>1, RestOf DEF Types, Unique
<1>3. CASE n = 0
  <2>1. Do(Keep(session), reqQ)
    BY <1>3 DEF mgr_rpc_dispatch
  <2>2. session' = session /\ reqQ' = reqQ /\ requests' = requests
    BY <2>1 DEF Do, Keep, Outcome
  <2>3. missed' = missed
    BY <1>1, <2>2 DEF Forgets
  <2> QED
    BY <1>1, <1>3, <2>2, <2>3, StrayReply
<1>4. CASE n # 0
  <2>1. PICK due \in SUBSET (InState(session, "TEMP_ERROR") \cup {session.cur}) :
               Do(yangcli_reply_handler(session, rpy.result, due), queue)
    BY <1>4 DEF mgr_rpc_dispatch
  <2> DEFINE o == yangcli_reply_handler(session, rpy.result, due)
  <2>2. n \in 1..Len(reqQ) /\ reqQ[n].id = rpy.id
    <3>1. Matches(rpy.id) # {} /\ Matches(rpy.id) \subseteq Nat
      BY <1>2, <1>4 DEF find_request, Matches
    <3>2. n \in Matches(rpy.id)
      BY <3>1, LeastNat DEF find_request
    <3> QED
      BY <1>2, <3>2 DEF Matches
  <2>3. /\ queue \in Seq(Waits) /\ Distinct(queue) /\ IdsOf(queue) \subseteq IdsOf(reqQ)
        /\ Len(queue) = Len(reqQ) - 1
    BY <1>1, <1>2, <2>2, WithoutOne DEF Unique
  <2> HIDE DEF n, queue, rpy
  <2>4. /\ missed \subseteq missed' /\ missed' \subseteq {"reply", "overtaken", "release"}
        /\ "overtaken" \notin missed' => Orderly
    BY <1>1 DEF Types, Orderly
  <2>5. /\ Len(reqQ) \in Nat /\ Len(requests) \in Nat /\ Len(replies) \in Nat
        /\ Len(queue) \in Nat
    BY <1>2, <2>3
  <2>6. Len(queue) + Len(requests) + Len(replies') + 2 + Credit(session) <= MaxPending + 3
    <3>1. Credit(session) \in Nat
      BY DEF Credit
    <3> QED
      BY <1>2, <2>3, <2>5, <3>1, PendingAssumption DEF AutoInv, PendInv, Pending
  <2>7. CASE session.state # "RPYWAIT"
    <3>1. o = Keep(session)
      BY <2>7 DEF yangcli_reply_handler
    <3>2. session.state = "IDLE"
      BY <1>1, <2>7 DEF SessionCbs, AutoInv, DownInv
    <3>3. "overtaken" \in missed
      BY <1>1, <1>2, <2>2, <3>2, Idle
    <3>4. Effect(session, Keep(session)) /\ Cost(Keep(session)) = Credit(session)
      <4>1. /\ session \in SessionCbs /\ session.mode \in {"NORMAL", "AUTOLOCK"}
            /\ session.mode = "AUTOLOCK" => session.active
        BY <1>1, <3>2, Idle
      <4>2. Keep(session).s = session /\ Keep(session).send = Nothing
            /\ Keep(session) \in Outcomes
        BY <4>1 DEF Keep, Outcome, Outcomes
      <4>3. Effect(session, Keep(session))
        BY <4>1, <4>2 DEF Effect, Does
      <4>4. Cost(Keep(session)) = 0 + Credit(session)
        BY <4>2 DEF Cost
      <4>5. Credit(session) \in {0, 2, 4}
        BY DEF Credit
      <4> QED
        BY <4>3, <4>4, <4>5
    <3>5. Len(queue) + Len(requests) + Len(replies') + Cost(o) <= MaxPending + 3
      BY <1>1, <1>2, <2>5, <2>6, <3>1, <3>4, PendingAssumption DEF Credit
    <3> QED
      BY <1>1, <1>2, <2>1, <2>3, <2>4, <3>1, <3>2, <3>3, <3>4, <3>5, CarryOut DEF Effect
  <2>8. CASE session.state = "RPYWAIT"
    <3>1. Marked(session) /\ rpy.result \in Results
      BY <1>2, <2>8 DEF AutoInv, OneInv, Replies
    <3>2. /\ \E s \in SessionCbs : Answered(session, rpy.result, s) /\ Effect(s, o)
          /\ session.mode \in {"NORMAL", "AUTOUNLOCK"} => o.s.mode \in {"NORMAL", "AUTOUNLOCK"}
      BY <1>1, <2>8, <3>1, ReplyEffect
    <3> HIDE DEF o
    <3>3. PICK s \in SessionCbs : Answered(session, rpy.result, s) /\ Effect(s, o)
      BY <3>2
    <3>4. /\ s.state = "IDLE" /\ Does(s, o) /\ s.active = session.active
          /\ s.expired = session.expired /\ s.cleanup = session.cleanup
          /\ \A c \in Configs :
                s.lock[c] = "ACTIVE" <=>
                   session.lock[c] = "ACTIVE"
                      \/ (session.mode = "AUTOLOCK" /\ rpy.result = "ok" /\ c = session.cur)
      BY <3>3 DEF Answered, Effect
    <3>5. Orderly => /\ requests = <<>> /\ Len(replies) = 1 /\ Len(reqQ) = 1
                     /\ Tells(session, rpy.result)
      <4> SUFFICES ASSUME Orderly
                   PROVE  /\ requests = <<>> /\ Len(replies) = 1 /\ Len(reqQ) = 1
                          /\ Tells(session, rpy.result)
        OBVIOUS
      <4>1. Len(reqQ) = 1 /\ reqQ # <<>>
        BY <1>1, <2>8 DEF AutoInv, OneInv
      <4>2. reqQ[1].id = replies[1].id
        BY <1>2, <2>2, <4>1
      <4> QED
        BY <1>1, <1>2, <2>8, <4>1, <4>2, OnlyReply
    <3>6. Orderly => queue = <<>> /\ replies' = <<>>
      BY <1>2, <2>3, <3>5
    <3>7. "overtaken" \notin missed' => queue = <<>>
      BY <2>4, <3>6
    <3>8. "overtaken" \notin missed' /\ s.active =>
             \A c \in Configs : s.lock[c] = "ACTIVE" => holder[c] = "me" /\ Unthreatened(c)
      <4> SUFFICES ASSUME Orderly, session.active, NEW c \in Configs, s.lock[c] = "ACTIVE"
                   PROVE  holder[c] = "me" /\ Unthreatened(c)
        BY <2>4, <3>4
      <4>1. Unthreatened(c)
        BY <3>5 DEF Unthreatened
      <4>2. CASE session.lock[c] = "ACTIVE"
        BY <4>1, <4>2 DEF AutoInv, HeldInv
      <4>3. CASE session.lock[c] # "ACTIVE"
        BY <3>4, <3>5, <4>1, <4>3 DEF Tells
      <4> QED
        BY <4>2, <4>3
    <3>9. missed' = {} =>
             /\ requests = <<>> /\ replies' = <<>>
             /\ \A c \in Used : holder[c] = "me" => s.active /\ s.lock[c] = "ACTIVE"
             /\ s.active /\ ~o.s.active => InState(s, "ACTIVE") = {}
      <4> SUFFICES ASSUME missed' = {}
                   PROVE  /\ requests = <<>> /\ replies' = <<>>
                          /\ \A c \in Used : holder[c] = "me" => s.active /\ s.lock[c] = "ACTIVE"
                          /\ s.active /\ ~o.s.active => InState(s, "ACTIVE") = {}
        OBVIOUS
      <4>1. missed = {} /\ Orderly /\ ~Forgets
        BY <1>1, <2>4
      <4>2. ASSUME NEW c \in Used, holder[c] = "me" PROVE s.active /\ s.lock[c] = "ACTIVE"
        <5>1. Accounted(c)
          BY <1>1, <4>1, <4>2 DEF AutoInv, ReleaseInv
        <5>2. c \in Configs
          BY UsedAssumption DEF Configs
        <5> QED
          BY <1>2, <3>4, <3>5, <4>1, <5>1, <5>2 DEF Accounted
      <4>3. s.active /\ ~o.s.active => InState(s, "ACTIVE") = {}
        <5> SUFFICES ASSUME s.active, ~o.s.active, NEW c \in Configs, s.lock[c] = "ACTIVE"
                     PROVE  FALSE
          BY DEF InState
        <5>1. s.expired \/ ~s.cleanup
          BY <3>3 DEF Effect, InState
        <5>2. session' = o.s
          BY <2>1 DEF Do, o
        <5>3. session.lock[c] \in {"ACTIVE", "REQUEST_SENT"}
          BY <3>1, <3>4 DEF Marked
        <5> QED
          BY <3>4, <4>1, <5>1, <5>2, <5>3 DEF Forgets, InState
      <4> QED
        BY <3>6, <3>5, <4>1, <4>2, <4>3
    <3>10. Cost(o) \in Nat /\ Cost(o) <= 2 + Credit(session)
      <4>1. /\ Cost(o) \in 0..4
            /\ o.s.mode \in {"NORMAL", "AUTOUNLOCK"} => Cost(o) <= 2
        BY <3>4, CostOf
      <4>2. CASE session.mode \in {"NORMAL", "AUTOUNLOCK"}
        BY <3>2, <4>1, <4>2 DEF Credit
      <4>3. CASE session.mode \in {"AUTOLOCK", "AUTODISCARD"}
        BY <2>8, <4>1, <4>3 DEF Credit
      <4> QED
        BY <1>1, <4>2, <4>3 DEF SessionCbs, Modes, AutoModes
    <3>11. Len(queue) + Len(requests) + Len(replies') + Cost(o) <= MaxPending + 3
      BY <1>2, <2>5, <2>6, <3>10, PendingAssumption DEF Credit
    <3>12. Do(o, queue)
      BY <2>1 DEF o
    <3> QED
      BY <1>1, <1>2, <2>3, <2>4, <3>3, <3>4, <3>7, <3>8, <3>9, <3>11, <3>12, CarryOut
  <2> QED
    BY <2>7, <2>8
<1> QED
  BY <1>3, <1>4

LEMMA StepServe ==
    ASSUME AutoInv, Serve
    PROVE  AutoInv'
<1> DEFINE q == Head(requests)
<1> USE DEF AutoInv
<1>1. PICK a \in Answers(q) :
         /\ replies' = Append(replies, [id |-> q.id, result |-> a[1]])
         /\ holder' = [holder EXCEPT ![q.cfg] = a[2]]
  BY DEF Serve
<1> DEFINE rpy == [id |-> q.id, result |-> a[1]]
<1>2. /\ requests # <<>> /\ requests' = Tail(requests)
      /\ UNCHANGED <<session, reqQ, up, missed>>
      /\ Types /\ Unique
  BY DEF Serve
<1>3. /\ requests \in Seq(Requests) /\ Distinct(requests)
      /\ replies \in Seq(Replies) /\ Distinct(replies)
      /\ IdsOf(requests) \cap IdsOf(replies) = {}
  BY <1>2 DEF Types, Unique
<1>4. /\ requests' \in Seq(Requests) /\ Len(requests') = Len(requests) - 1
      /\ \A i \in 1..Len(requests) - 1 : requests'[i] = requests[i + 1]
      /\ q = requests[1] /\ Len(requests) >= 1 /\ q \in Requests
      /\ Distinct(requests') /\ IdsOf(requests') \subseteq IdsOf(requests)
  BY <1>2, <1>3, RestOf
<1>5. q.id \in MsgIds /\ q.op \in Ops /\ q.cfg \in Used
  BY <1>4 DEF Requests
<1>6. 1 \in DOMAIN requests /\ DOMAIN requests = 1..Len(requests)
      /\ DOMAIN requests' = 1..Len(requests) - 1 /\ Len(requests) \in Nat /\ Len(replies) \in Nat
      /\ Len(reqQ) \in Nat
  BY <1>2, <1>3, <1>4 DEF Types
<1>7. q.id \notin IdsOf(requests') /\ q.id \notin IdsOf(replies)
  <2>1. ASSUME NEW j \in DOMAIN requests', requests'[j].id = q.id PROVE FALSE
    <3>1. j + 1 \in DOMAIN requests /\ requests[j + 1].id = requests[1].id /\ j + 1 # 1
      BY <1>4, <1>6, <2>1
    <3> QED
      BY <1>3, <1>6, <3>1 DEF Distinct
  <2>2. q.id \in IdsOf(requests)
    BY <1>4, <1>6 DEF IdsOf
  <2> QED
    BY <1>3, <2>1, <2>2 DEF IdsOf
<1>8. /\ a[1] \in Results /\ a[2] \in {"nobody", "me", "other"}
      /\ q.op = "unlock" => a[2] # "me"
      /\ q.op # "unlock" => (holder[q.cfg] = "me" => a[2] = "me")
      /\ q.op = "lock" /\ a[1] = "ok" => a[2] = "me"
      /\ a[2] = "me" /\ holder[q.cfg] # "me" => q.op = "lock" /\ a[1] = "ok"
  <2>1. holder[q.cfg] \in {"nobody", "me", "other"}
    BY <1>2, <1>5 DEF Types
  <2> QED
    BY <1>5, <2>1 DEF Answers, Results, Ops
<1> HIDE DEF q
<1>9. rpy \in Replies /\ rpy.id = q.id /\ rpy.result = a[1]
  BY <1>5, <1>8 DEF Replies
<1> HIDE DEF rpy
<1>10. /\ replies' \in Seq(Replies) /\ Len(replies') = Len(replies) + 1
       /\ replies'[Len(replies) + 1] = rpy /\ Distinct(replies')
       /\ IdsOf(replies') = IdsOf(replies) \cup {q.id}
  BY <1>1, <1>3, <1>7, <1>9, WithOne DEF rpy
<1>11. /\ \A c \in Used : c # q.cfg => holder'[c] = holder[c]
       /\ holder'[q.cfg] = a[2]
       /\ holder' \in [Used -> {"nobody", "me", "other"}]
  BY <1>1, <1>2, <1>5, <1>8 DEF Types
<1>12. Types'
  BY <1>2, <1>4, <1>10, <1>11 DEF Types
<1>13. Unique'
  <2>1. IdsOf(requests') \cap IdsOf(replies') = {}
    BY <1>3, <1>4, <1>7, <1>10
  <2>2. Distinct(reqQ') /\ Distinct(requests') /\ Distinct(replies')
    BY <1>2, <1>4, <1>10 DEF Unique
  <2> QED
    BY <2>1, <2>2 DEF Unique, IdsOf, Distinct
<1>14. PendInv'
  BY <1>2, <1>4, <1>6, <1>10, PendingAssumption DEF PendInv, Pending, Credit
<1>15. DownInv' /\ OneInv'
  BY <1>2 DEF DownInv, OneInv, Marked, Orderly
<1>16. UnderWay'
  <2> SUFFICES ASSUME Orderly, session.state = "RPYWAIT"
               PROVE  IF requests' # <<>>
                      THEN /\ requests'[Len(requests')].id = reqQ[1].id
                           /\ Awaits(session, requests'[Len(requests')])
                      ELSE /\ replies' # <<>>
                           /\ replies'[Len(replies')].id = reqQ[1].id
                           /\ (session.mode = "AUTOLOCK" /\ replies'[Len(replies')].result = "ok"
                                  => holder'[session.cur] = "me")
    BY <1>2 DEF UnderWay, Orderly, Tells, Awaits
  <2>1. requests[Len(requests)].id = reqQ[1].id /\ Awaits(session, requests[Len(requests)])
    BY <1>2 DEF UnderWay
  <2>2. CASE requests' # <<>>
    BY <1>4, <1>6, <2>1, <2>2
  <2>3. CASE requests' = <<>>
    <3>1. Len(requests) = 1
      BY <1>4, <1>6, <2>3
    <3>2. q.id = reqQ[1].id /\ Awaits(session, q)
      BY <1>4, <2>1, <3>1
    <3>3. replies' # <<>> /\ replies'[Len(replies')] = rpy
      BY <1>6, <1>10
    <3> QED
      BY <1>8, <1>9, <1>11, <2>3, <3>2, <3>3 DEF Awaits
  <2> QED
    BY <2>2, <2>3
<1>17. HeldInv'
  <2> SUFFICES ASSUME Orderly, session.active, NEW c \in Configs, session.lock[c] = "ACTIVE"
               PROVE  holder'[c] = "me" /\ Unthreatened(c)'
    BY <1>2 DEF HeldInv, Orderly
  <2>1. holder[c] = "me" /\ Unthreatened(c)
    BY DEF HeldInv
  <2>2. Unthreatened(c)'
    BY <1>4, <1>6, <2>1 DEF Unthreatened
  <2>3. c \in Used
    BY <1>2 DEF Types, SessionCbs
  <2>4. q.op = "unlock" => q.cfg # c
    BY <1>4, <1>6, <2>1 DEF Unthreatened
  <2> QED
    BY <1>8, <1>11, <2>1, <2>2, <2>3, <2>4
<1>18. ReleaseInv'
  <2> SUFFICES ASSUME up, missed = {}
               PROVE  /\ Len(requests') + Len(replies') = IF session.state = "RPYWAIT" THEN 1 ELSE 0
                      /\ \A c \in Used : holder'[c] = "me" => Accounted(c)'
    BY <1>2 DEF ReleaseInv
  <2>1. /\ Len(requests) = 1 /\ Len(replies) = 0 /\ session.state = "RPYWAIT"
        /\ \A c \in Used : holder[c] = "me" => Accounted(c)
    BY <1>4, <1>6 DEF ReleaseInv
  <2>2. Awaits(session, q)
    BY <1>2, <1>4, <2>1 DEF UnderWay, Orderly
  <2>3. requests' = <<>> /\ replies'[1] = rpy
    BY <1>4, <1>10, <2>1
  <2>4. ASSUME NEW c \in Used, holder'[c] = "me" PROVE Accounted(c)'
    <3>1. session.mode \in Modes
      BY <1>2 DEF Types, SessionCbs
    <3>2. CASE holder[c] = "me"
      <4>1. Accounted(c) /\ (c = q.cfg => q.op # "unlock")
        BY <1>8, <1>11, <2>1, <2>4, <3>2
      <4> QED
        BY <1>2, <2>2, <4>1 DEF Accounted, Awaits
    <3>3. CASE holder[c] # "me"
      <4>1. c = q.cfg /\ q.op = "lock" /\ a[1] = "ok"
        BY <1>8, <1>11, <2>4, <3>3
      <4>2. session.mode = "AUTOLOCK" /\ session.cur = c
        BY <2>2, <3>1, <4>1 DEF Awaits, Modes, AutoModes
      <4>3. session.active
        BY <4>2 DEF OneInv
      <4> QED
        BY <1>2, <1>9, <2>1, <2>3, <4>1, <4>2, <4>3 DEF Accounted
    <3> QED
      BY <3>2, <3>3
  <2> QED
    BY <1>4, <1>6, <1>10, <2>1, <2>4
<1> QED
  BY <1>12, <1>13, <1>14, <1>15, <1>16, <1>17, <1>18

LEMMA QueuesKept ==
    ASSUME Unique, UNCHANGED <<requests, replies>>
    PROVE  /\ Distinct(reqQ') => Unique'
           /\ reqQ' = reqQ => Unique'
<1>1. requests' = requests /\ replies' = replies
  OBVIOUS
<1>2. /\ Distinct(requests') /\ Distinct(replies') /\ IdsOf(requests') \cap IdsOf(replies') = {}
  BY <1>1 DEF Unique
<1>3. Distinct(reqQ') => Unique'
  BY <1>2 DEF Unique, Distinct, IdsOf
<1>4. reqQ' = reqQ => Distinct(reqQ')
  BY DEF Unique
<1> QED
  BY <1>3, <1>4

LEMMA StepDown ==
    ASSUME AutoInv, clear_server_cb_session
    PROVE  AutoInv'
<1> USE DEF AutoInv
<1>1. /\ ~up /\ session' = IdleSession(session) /\ reqQ' = <<>>
      /\ UNCHANGED <<requests, replies, holder, up, missed>> /\ Types /\ Unique
      /\ session \in SessionCbs
  BY DEF clear_server_cb_session, Types
<1>2. /\ session' \in SessionCbs /\ session'.state = "DOWN" /\ session'.mode = "NORMAL"
      /\ ~session'.active
  BY <1>1 DEF IdleSession, SessionCbs, Modes
<1>3. Types'
  BY <1>1, <1>2 DEF Types
<1>4. Unique'
  BY <1>1 DEF Unique, Distinct, IdsOf
<1>5. DownInv' /\ OneInv' /\ UnderWay' /\ HeldInv' /\ ReleaseInv'
  BY <1>1, <1>2 DEF DownInv, OneInv, UnderWay, HeldInv, ReleaseInv, Orderly
<1>6. PendInv'
  <2>1. Len(requests') = 0 /\ Len(replies') = 0 /\ Len(reqQ') = 0
    BY <1>1 DEF DownInv
  <2> QED
    BY <1>2, <2>1, PendingAssumption DEF PendInv, Pending, Credit
<1> QED
  BY <1>3, <1>4, <1>5, <1>6

LEMMA StepConnect ==
    ASSUME AutoInv, Connect
    PROVE  AutoInv'
<1> USE DEF AutoInv
<1>1. /\ ~up /\ session.state = "DOWN" /\ up' = TRUE /\ missed' = {}
      /\ session' = [session EXCEPT !.state = "IDLE"]
      /\ UNCHANGED <<reqQ, requests, replies, holder>> /\ Types /\ Unique
      /\ session \in SessionCbs
  BY DEF Connect, Types
<1>2. /\ session' \in SessionCbs /\ session'.state = "IDLE" /\ session'.mode = "NORMAL"
      /\ ~session'.active
  BY <1>1 DEF SessionCbs, DownInv
<1>3. /\ reqQ = <<>> /\ requests = <<>> /\ replies = <<>>
      /\ \A c \in Used : holder[c] # "me"
  BY <1>1 DEF DownInv
<1>4. Types' /\ Unique'
  <2>1. Types'
    BY <1>1, <1>2 DEF Types
  <2> QED
    BY <1>1, <2>1, QueuesKept
<1>5. DownInv' /\ OneInv' /\ UnderWay' /\ HeldInv' /\ ReleaseInv'
  <2>1. Len(requests') = 0 /\ Len(replies') = 0
    BY <1>1, <1>3
  <2> QED
    BY <1>1, <1>2, <1>3, <2>1 DEF DownInv, OneInv, UnderWay, HeldInv, ReleaseInv, Orderly
<1>6. PendInv'
  <2>1. Len(requests') = 0 /\ Len(replies') = 0 /\ Len(reqQ') = 0
    BY <1>1, <1>3
  <2> QED
    BY <1>2, <2>1, PendingAssumption DEF PendInv, Pending, Credit
<1> QED
  BY <1>4, <1>5, <1>6

LEMMA StepRequestAges ==
    ASSUME AutoInv, RequestAges
    PROVE  AutoInv'
<1> USE DEF AutoInv
<1>1. PICK i \in DOMAIN reqQ : reqQ' = [reqQ EXCEPT ![i].old = TRUE]
  BY DEF RequestAges
<1>2. UNCHANGED <<session, requests, replies, holder, up, missed>> /\ Types /\ Unique
      /\ reqQ \in Seq(Waits)
  BY DEF RequestAges, Types
<1>3. /\ reqQ' \in Seq(Waits) /\ Len(reqQ') = Len(reqQ) /\ DOMAIN reqQ' = DOMAIN reqQ
      /\ \A j \in DOMAIN reqQ : reqQ'[j].id = reqQ[j].id
  <2> DEFINE w == [reqQ[i] EXCEPT !.old = TRUE]
  <2>1. reqQ[i] \in Waits
    BY <1>2
  <2>2. w \in Waits /\ w.id = reqQ[i].id
    BY <2>1 DEF Waits
  <2>3. reqQ' = [reqQ EXCEPT ![i] = w]
    BY <1>1
  <2> HIDE DEF w
  <2> QED
    BY <1>2, <2>2, <2>3
<1>4. IdsOf(reqQ') = IdsOf(reqQ) /\ Distinct(reqQ')
  BY <1>2, <1>3 DEF IdsOf, Unique, Distinct
<1>5. Types'
  BY <1>2, <1>3 DEF Types
<1>6. Unique'
  BY <1>2, <1>4, QueuesKept
<1>7. PendInv' /\ DownInv' /\ HeldInv' /\ ReleaseInv'
  BY <1>2, <1>3 DEF PendInv, Pending, Credit, DownInv, HeldInv, ReleaseInv, Accounted,
                    Orderly, Unthreatened
<1>8. reqQ # <<>> /\ reqQ' # <<>> /\ reqQ'[1].id = reqQ[1].id
  BY <1>1, <1>2, <1>3
<1>9. OneInv' /\ UnderWay'
  BY <1>2, <1>3, <1>8 DEF OneInv, UnderWay, Orderly, Marked, Awaits, Tells
<1> QED
  BY <1>5, <1>6, <1>7, <1>9

LEMMA StepLockTimer ==
    ASSUME AutoInv, LockTimerExpires
    PROVE  AutoInv'
<1> USE DEF AutoInv
<1>1. /\ session' = [session EXCEPT !.expired = TRUE] /\ session \in SessionCbs
      /\ UNCHANGED <<reqQ, requests, replies, holder, up, missed>> /\ Types /\ Unique
  BY DEF LockTimerExpires, Types
<1>2. /\ session' \in SessionCbs /\ session'.state = session.state
      /\ session'.mode = session.mode /\ session'.active = session.active
      /\ session'.cur = session.cur /\ session'.lock = session.lock
  BY <1>1 DEF SessionCbs
<1>3. Types' /\ Unique'
  <2>1. Types'
    BY <1>1, <1>2 DEF Types
  <2> QED
    BY <1>1, <2>1, QueuesKept
<1>4. PendInv' /\ DownInv' /\ HeldInv' /\ ReleaseInv'
  BY <1>1, <1>2 DEF PendInv, Pending, Credit, DownInv, HeldInv, ReleaseInv, Accounted,
                    Orderly, Unthreatened
<1>5. OneInv' /\ UnderWay'
  BY <1>1, <1>2 DEF OneInv, UnderWay, Orderly, Marked, Awaits, Tells
<1> QED
  BY <1>3, <1>4, <1>5

LEMMA StepDisconnect ==
    ASSUME AutoInv, Disconnect
    PROVE  AutoInv'
<1> USE DEF AutoInv
<1>1. /\ up /\ up' = FALSE /\ requests' = <<>> /\ replies' = <<>>
      /\ holder' = [c \in Used |-> IF holder[c] = "me" THEN "nobody" ELSE holder[c]]
      /\ UNCHANGED <<session, reqQ, missed>> /\ Types /\ Unique
  BY DEF Disconnect
<1>2. holder' \in [Used -> {"nobody", "me", "other"}] /\ \A c \in Used : holder'[c] # "me"
  BY <1>1 DEF Types
<1>3. Types' /\ Unique'
  <2>1. Types'
    <3>1. requests' \in Seq(Requests) /\ replies' \in Seq(Replies)
      BY <1>1
    <3> QED
      BY <1>1, <1>2, <3>1 DEF Types
  <2>2. /\ Distinct(reqQ') /\ Distinct(requests') /\ Distinct(replies')
        /\ IdsOf(requests') = {}
    BY <1>1 DEF Unique, Distinct, IdsOf
  <2> QED
    BY <2>1, <2>2 DEF Unique, Distinct, IdsOf
<1>4. DownInv' /\ OneInv' /\ UnderWay' /\ HeldInv' /\ ReleaseInv'
  BY <1>1, <1>2 DEF DownInv, OneInv, UnderWay, HeldInv, ReleaseInv, Orderly, Marked
<1>5. PendInv'
  <2>1. Len(requests') = 0 /\ Len(replies') = 0 /\ Len(requests) \in Nat /\ Len(replies) \in Nat
        /\ Len(reqQ) \in Nat
    BY <1>1 DEF Types
  <2>2. Credit(session) \in {0, 2, 4}
    BY DEF Credit
  <2> QED
    BY <1>1, <2>1, <2>2, PendingAssumption DEF PendInv, Pending, Credit
<1> QED
  BY <1>3, <1>4, <1>5

LEMMA StepOthers ==
    ASSUME AutoInv, OthersLock
    PROVE  AutoInv'
<1> USE DEF AutoInv
<1>1. PICK d \in Used :
         /\ holder[d] # "me"
         /\ \/ holder' = [holder EXCEPT ![d] = "other"]
            \/ holder' = [holder EXCEPT ![d] = "nobody"]
  BY DEF OthersLock
<1>2. UNCHANGED <<session, reqQ, requests, replies, up, missed>> /\ Types /\ Unique
  BY DEF OthersLock
<1>3. /\ holder' \in [Used -> {"nobody", "me", "other"}]
      /\ \A c \in Used : holder'[c] = "me" <=> holder[c] = "me"
  BY <1>1, <1>2 DEF Types
<1>4. Types' /\ Unique'
  <2>1. Types'
    BY <1>2, <1>3 DEF Types
  <2> QED
    BY <1>2, <2>1, QueuesKept
<1>5. session.cur \in Used /\ \A c \in Configs : session.lock[c] = "ACTIVE" => c \in Used
  BY <1>2 DEF Types, SessionCbs
<1>6. PendInv' /\ DownInv' /\ ReleaseInv'
  BY <1>2, <1>3 DEF PendInv, Pending, Credit, DownInv, ReleaseInv, Accounted
<1>7. HeldInv'
  BY <1>2, <1>3, <1>5 DEF HeldInv, Orderly, Unthreatened
<1>8. OneInv' /\ UnderWay'
  BY <1>2, <1>3, <1>5 DEF OneInv, UnderWay, Orderly, Marked, Awaits, Tells
<1> QED
  BY <1>4, <1>6, <1>7, <1>8

LEMMA StepNone ==
    ASSUME AutoInv, UNCHANGED vars
    PROVE  AutoInv'
<1> USE DEF AutoInv
<1>1. /\ session' = session /\ reqQ' = reqQ /\ requests' = requests /\ replies' = replies
      /\ holder' = holder /\ up' = up /\ missed' = missed
  BY DEF vars
<1>2. Unique'
  BY <1>1, QueuesKept
<1>3. Types' /\ PendInv' /\ DownInv'
  BY <1>1 DEF Types, PendInv, Pending, Credit, DownInv
<1>4. OneInv' /\ UnderWay'
  BY <1>1 DEF OneInv, UnderWay, Orderly, Marked, Awaits, Tells
<1>5. HeldInv' /\ ReleaseInv'
  BY <1>1 DEF HeldInv, ReleaseInv, Accounted, Orderly, Unthreatened
<1> QED
  BY <1>2, <1>3, <1>4, <1>5

-----------------------------------------------------------------------------
LEMMA AutoInit == Init => AutoInv
<1> SUFFICES ASSUME Init PROVE AutoInv
  OBVIOUS
<1>1. /\ session.state = "DOWN" /\ session.mode = "NORMAL" /\ ~session.active
      /\ session \in SessionCbs
  BY UsedAssumption DEF Init, SessionCbs, Modes, LockStates, Configs, Running
<1>2. /\ reqQ = <<>> /\ requests = <<>> /\ replies = <<>> /\ ~up /\ missed = {}
      /\ holder \in [Used -> {"nobody"}]
  BY DEF Init
<1>3. Types
  <2>1. reqQ \in Seq(Waits) /\ requests \in Seq(Requests) /\ replies \in Seq(Replies)
    BY <1>2
  <2>2. holder \in [Used -> {"nobody", "me", "other"}]
    BY <1>2
  <2> QED
    BY <1>1, <1>2, <2>1, <2>2 DEF Types, Init
<1>4. Unique
  BY <1>2 DEF Unique, Distinct, IdsOf
<1>5. PendInv
  <2>1. Len(reqQ) = 0 /\ Len(requests) = 0 /\ Len(replies) = 0
    BY <1>2
  <2> QED
    BY <1>1, <2>1, PendingAssumption DEF PendInv, Pending, Credit
<1>6. DownInv /\ OneInv /\ UnderWay /\ HeldInv /\ ReleaseInv
  <2>1. \A c \in Used : holder[c] # "me"
    BY <1>2
  <2> QED
    BY <1>1, <1>2, <2>1 DEF DownInv, OneInv, UnderWay, HeldInv, ReleaseInv, Orderly
<1> QED
  BY <1>3, <1>4, <1>5, <1>6 DEF AutoInv

LEMMA AutoStep == AutoInv /\ [Next]_vars => AutoInv'
<1> SUFFICES ASSUME AutoInv, [Next]_vars PROVE AutoInv'
  OBVIOUS
<1>1. CASE User
  BY <1>1, StepReleaseLocks, StepSendCommand, StepConnect, StepGetLocks DEF User
<1>2. CASE IdleExpired
  BY <1>2, StepIdleExpired
<1>3. CASE Retry
  BY <1>3, StepRetry
<1>4. CASE WaitExpired
  BY <1>4, StepWaitExpired
<1>5. CASE clear_server_cb_session
  BY <1>5, StepDown
<1>6. CASE mgr_rpc_dispatch
  BY <1>6, StepDispatch
<1>7. CASE RequestAges
  BY <1>7, StepRequestAges
<1>8. CASE LockTimerExpires
  BY <1>8, StepLockTimer
<1>9. CASE Serve
  BY <1>9, StepServe
<1>10. CASE Disconnect
  BY <1>10, StepDisconnect
<1>11. CASE OthersLock
  BY <1>11, StepOthers
<1>12. CASE UNCHANGED vars
  BY <1>12, StepNone
<1> QED
  BY <1>1, <1>2, <1>3, <1>4, <1>5, <1>6, <1>7, <1>8, <1>9, <1>10, <1>11, <1>12 DEF Next

LEMMA AutoInvariant == Spec => []AutoInv
<1> USE AutoInit, AutoStep
<1> QED
  BY PTL DEF Spec

(* Every variable of the client keeps its type whatever the server and the   *)
(* clocks do, and no two requests it waits for ever have one message id      *)
(* (mgr/mgr_rpc.c:266).                                                     *)
THEOREM AutolockTypeCorrect == Spec => []TypeOK
<1>1. AutoInv => TypeOK
  <2> SUFFICES ASSUME AutoInv PROVE TypeOK
    OBVIOUS
  <2>1. Types /\ Distinct(reqQ)
    BY DEF AutoInv, Unique
  <2>2. Pending <= 3 * MaxPending + 6
    <3>1. Credit(session) \in {0, 2, 4}
      BY DEF Credit
    <3>2. Pending \in Nat
      BY <2>1 DEF Pending, Types
    <3> QED
      BY <3>1, <3>2, PendingAssumption DEF AutoInv, PendInv
  <2> QED
    BY <2>1, <2>2 DEF TypeOK, Types, SessionCbs, Modes, Distinct
<1> QED
  BY <1>1, AutoInvariant, PTL

(* A session that waits for a reply has a request in the queue, so that the  *)
(* wait ends with a reply or with the timeout of the request                 *)
(* (ycli/yangcli.c:3329).                                                   *)
THEOREM WaitsHaveRequests == Spec => []WaitsForRequest
<1>1. AutoInv => WaitsForRequest
  BY DEF AutoInv, OneInv, WaitsForRequest
<1> QED
  BY <1>1, AutoInvariant, PTL

(* A lock that the client believes it has is held on the server, unless the  *)
(* lock timeout overtook a request (ycli/yangcli.c:3749): a late             *)
(* answer is never taken for the answer of another request, and no unlock of *)
(* a lock that is still believed in is on its way.                           *)
THEOREM LocksAreHeld == Spec => []ActiveHeld
<1>1. AutoInv => ActiveHeld
  <2> SUFFICES ASSUME AutoInv, Orderly, session.active, NEW c \in InState(session, "ACTIVE")
               PROVE  holder[c] = "me"
    BY DEF ActiveHeld, Orderly
  <2> QED
    BY DEF AutoInv, HeldInv, InState
<1> QED
  BY <1>1, AutoInvariant, PTL

(* When get-locks has failed, or release-locks is over, nothing is left      *)
(* locked that the client had got, unless a timeout has cut something short  *)
(* or the user asked for no cleanup (ycli/yangcli_autolock.c:621).           *)
THEOREM NothingLeftLocked == Spec => []AllReleased
<1>1. AutoInv => AllReleased
  BY DEF AutoInv, ReleaseInv, Accounted, AllReleased
<1> QED
  BY <1>1, AutoInvariant, PTL
=============================================================================
