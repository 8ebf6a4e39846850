------------------------------ MODULE Autolock ------------------------------
(***************************************************************************)
(* The get-locks and release-locks commands of yangcli-pro: the client     *)
(* locks every datastore of the server, one request at a time, tries again *)
(* what somebody else holds, and unlocks what it got when it cannot have    *)
(* all (ycli/yangcli_autolock.c, the reply handler and the input handler of *)
(* ycli/yangcli.c, and the request queue of mgr/mgr_rpc.c).                *)
(*                                                                         *)
(* Two clocks race the answers of the server: each request has a timeout,   *)
(* and a command has the lock timeout.  A clock is a flag that is raised    *)
(* some time after it was started.  The retry interval is left open: at     *)
(* every look, any of the refused locks may be due again.                   *)
(*                                                                         *)
(* Message ids count up to MGR_MAX_REQUEST_ID and start again; no more      *)
(* requests are ever under way, so an id is one that no message carries.    *)
(***************************************************************************)
EXTENDS Integers, Sequences, FiniteSets

CONSTANTS
    Used,           \* the datastores the server can lock: 1 running, 2 candidate, 3 startup
    LockTimeout,    \* lock-timeout is not 0
    RequestTimeout, \* the timeout of a request is not 0
    Cleanups,       \* the values of the cleanup parameter users give
    MaxPending      \* bound: users wait while that many messages are under way

ASSUME UsedAssumption == Used \subseteq 1..3 /\ 1 \in Used
ASSUME ClocksAssumption ==
    LockTimeout \in BOOLEAN /\ RequestTimeout \in BOOLEAN /\ Cleanups \subseteq BOOLEAN
ASSUME PendingAssumption == MaxPending \in Nat \ {0}

VARIABLES
    session,    \* the session_cb_t of the client
    reqQ,       \* requests the client waits for: the oldest first
    requests,   \* messages on their way to the server
    replies,    \* replies on their way to the client
    holder,     \* who has a datastore locked on the server
    up,         \* the connection exists
    missed      \* history: what timeouts have cut short on this connection

vars == <<session, reqQ, requests, replies, holder, up, missed>>

Configs == 1..3
Running == 1
Candidate == 2

Min(S) == CHOOSE x \in S : \A y \in S : x <= y

Pending == Len(reqQ) + Len(requests) + Len(replies)

MsgIds == 0..3 * MaxPending + 6

InUse == {reqQ[i].id : i \in DOMAIN reqQ} \cup {requests[i].id : i \in DOMAIN requests}
            \cup {replies[i].id : i \in DOMAIN replies}

NextMsgId == Min(MsgIds \ InUse)

-----------------------------------------------------------------------------
(* The helpers take a session block and return what becomes of it, the      *)
(* request they send, if any, and their "done".                              *)

Nothing == [op |-> "none", cfg |-> 0]

Outcome(s, done) == [s |-> s, send |-> Nothing, done |-> done]

Keep(s) == Outcome(s, FALSE)

send_request_to_server(s, op, cfg) ==
    [s |-> [s EXCEPT !.state = "RPYWAIT"], send |-> [op |-> op, cfg |-> cfg], done |-> FALSE]

send_lock_pdu_to_server(s, cfg, islock) ==
    send_request_to_server(
        [s EXCEPT !.lock[cfg] = IF islock THEN "REQUEST_SENT" ELSE "RELEASE_SENT", !.cur = cfg],
        IF islock THEN "lock" ELSE "unlock", cfg)

SetupAll(s) ==
    [s EXCEPT !.active = TRUE, !.waiting = FALSE, !.cur = Running,
              !.lock = [c \in Configs |-> "IDLE"]]     \* mutant: does not look at the capabilities

\* LOCK_STATE_NONE stands for a datastore whose lock_used is FALSE.
setup_lock_cbs(s) ==
    [s EXCEPT !.active = TRUE, !.waiting = FALSE, !.cur = Running,
              !.lock = [c \in Configs |-> IF c \in Used THEN "IDLE" ELSE "NONE"]]

clear_lock_cbs(s) ==
    [s EXCEPT !.active = FALSE, !.waiting = FALSE, !.cur = Running, !.mode = "NORMAL",
              !.lock = [c \in Configs |-> "NONE"]]

InState(s, st) == {c \in Configs : s.lock[c] = st}

get_lock_worked(s) == \A c \in Configs : s.lock[c] \in {"NONE", "ACTIVE"}

ClearWhenDone(o) == IF o.done THEN [o EXCEPT !.s = clear_lock_cbs(@)] ELSE o

FirstActive(s) == Min(InState(s, "ACTIVE"))

release_locks(s) ==
    IF InState(s, "ACTIVE") = {}
    THEN Outcome(clear_lock_cbs([s EXCEPT !.state = "IDLE"]), TRUE)
    ELSE send_lock_pdu_to_server(s, FirstActive(s), FALSE)

\* handle_release_locks_request_to_server, the first time and after a reply
FirstRelease(s) == release_locks([s EXCEPT !.mode = "AUTOUNLOCK", !.expired = FALSE])

ReleaseOne(s) == Keep(clear_lock_cbs(s))    \* mutant: the first unlock ends the release

NextRelease(s) == IF s.expired THEN Keep(clear_lock_cbs(s)) ELSE release_locks(s)

handle_locks_cleanup(s) ==
    IF s.cleanup THEN ClearWhenDone(FirstRelease(s)) ELSE Keep(clear_lock_cbs(s))

SendLock(s, cfg) == send_lock_pdu_to_server([s EXCEPT !.mode = "AUTOLOCK"], cfg, TRUE)

\* get_locks: a datastore that was not asked for yet, or else one that was
\* refused and is due again
get_locks(s, due) ==
    LET idle == InState(s, "IDLE")
        fatal == InState(s, "FATAL_ERROR")
        again == InState(s, "TEMP_ERROR")
    IN  IF \E f \in fatal : \A i \in idle : f < i THEN Keep(s)
        ELSE IF idle # {} THEN SendLock(s, Min(idle))
        ELSE IF again = {} THEN Outcome(s, TRUE)
        ELSE IF again \cap due = {} THEN Keep([s EXCEPT !.waiting = TRUE])
        ELSE LET c == Min(again \cap due)
             IN  SendLock([s EXCEPT !.waiting = @ \/ \E a \in again : a < c], c)

\* handle_get_locks_request_to_server after the first time, with the check of
\* its callers that the locks are all good
handle_get_locks(s, due) ==
    LET o == get_locks(s, due) IN
    CASE s.expired -> [handle_locks_cleanup(s) EXCEPT !.done = FALSE]
      [] ~s.expired /\ ~o.done -> o
      [] ~s.expired /\ o.done /\ get_lock_worked(o.s) ->
            Keep([o.s EXCEPT !.mode = "NORMAL", !.waiting = FALSE])
      [] OTHER -> handle_locks_cleanup(o.s)

-----------------------------------------------------------------------------
(* The reply of the request the session waits for (yangcli_reply_handler). *)

LockReply(s, result, due) ==
    CASE result = "ok"     -> handle_get_locks([s EXCEPT !.lock[s.cur] = "ACTIVE"], due)
      [] result = "denied" -> handle_get_locks([s EXCEPT !.lock[s.cur] = "TEMP_ERROR"], due)
      [] result = "failed" /\ s.cur = Candidate ->
            LET o == send_request_to_server(s, "discard", Candidate)
            IN  [o EXCEPT !.s.mode = "AUTODISCARD"]
      [] OTHER -> Keep([s EXCEPT !.lock[s.cur] = "FATAL_ERROR"])

UnlockReply(s, result) ==
    ClearWhenDone(NextRelease([s EXCEPT !.lock[s.cur] =
        IF result = "ok" THEN "RELEASED" ELSE "FATAL_ERROR"]))

DiscardReply(s, result, due) ==
    LET l == [s EXCEPT !.mode = "AUTOLOCK"]
    IN  IF result = "ok" THEN handle_get_locks(l, due) ELSE handle_locks_cleanup(l)

yangcli_reply_handler(s, result, due) ==
    LET i == [s EXCEPT !.state = "IDLE"] IN
    CASE s.state # "RPYWAIT"     -> Keep(s)
      [] s.state = "RPYWAIT" /\ s.mode = "AUTOLOCK"    -> LockReply(i, result, due)
      [] s.state = "RPYWAIT" /\ s.mode = "AUTOUNLOCK"  -> UnlockReply(i, result)
      [] s.state = "RPYWAIT" /\ s.mode = "AUTODISCARD" -> DiscardReply(i, result, due)
      [] OTHER -> Keep(i)

-----------------------------------------------------------------------------
AutoModes == {"AUTOLOCK", "AUTOUNLOCK", "AUTODISCARD"}

IdleSession(s) ==
    [s EXCEPT !.state = "DOWN", !.mode = "NORMAL", !.active = FALSE, !.waiting = FALSE,
              !.cleanup = FALSE]

Init ==
    /\ session = [state |-> "DOWN", mode |-> "NORMAL", active |-> FALSE, waiting |-> FALSE,
                  cur |-> Running, cleanup |-> FALSE, expired |-> FALSE,
                  lock |-> [c \in Configs |-> "NONE"]]
    /\ reqQ = <<>> /\ requests = <<>> /\ replies = <<>>
    /\ holder = [c \in Used |-> "nobody"]
    /\ up = FALSE
    /\ missed = {}

\* The client does what a helper says: queue is what is left of reqQ.
Do(o, queue) ==
    /\ session' = o.s
    /\ IF o.send = Nothing
       THEN reqQ' = queue /\ UNCHANGED requests
       ELSE /\ reqQ' = Append(queue, [id |-> NextMsgId, old |-> FALSE])
            /\ requests' = Append(requests, [id |-> NextMsgId, op |-> o.send.op, cfg |-> o.send.cfg])

Ready == up /\ session.state = "IDLE" /\ session.mode = "NORMAL" /\ Pending < MaxPending

do_get_locks(cleanup) ==
    /\ Ready /\ ~session.active
    /\ Do(get_locks([setup_lock_cbs(session) EXCEPT !.cleanup = cleanup, !.expired = FALSE], {}), reqQ)
    /\ UNCHANGED <<replies, holder, up, missed>>

do_release_locks ==
    /\ Ready /\ session.active
    /\ InState(session, "ACTIVE") # {}      \* else setup_unlock_cbs finds nothing to do
    /\ Do(FirstRelease([session EXCEPT !.cleanup = TRUE]), reqQ)
    /\ UNCHANGED <<replies, holder, up, missed>>

\* Any other command that sends a request.
SendCommand ==
    /\ Ready
    /\ Do(send_request_to_server(session, "rpc", Running), reqQ)
    /\ UNCHANGED <<replies, holder, up, missed>>

\* The lock blocks are cleared by a timeout, or without the cleanup, while there
\* are locks to release.
Forgets ==
    /\ session.active /\ ~session'.active
    /\ session.expired \/ ~session.cleanup
    /\ InState(session, "ACTIVE") \cup InState(session, "REQUEST_SENT") # {}

-----------------------------------------------------------------------------
(* The input handler, which the loop of the client calls after every input  *)
(* and every 100 microseconds without.                                      *)

IdleExpired ==
    /\ up /\ session.state = "IDLE" /\ session.mode \in AutoModes /\ session.expired
    /\ Do(IF session.mode = "AUTOUNLOCK" THEN Keep(clear_lock_cbs(session))
          ELSE handle_locks_cleanup(session), reqQ)
    /\ missed' = missed \cup IF Forgets THEN {"release"} ELSE {}
    /\ UNCHANGED <<replies, holder, up>>

Retry ==
    /\ up /\ session.state = "IDLE" /\ session.mode = "AUTOLOCK" /\ session.waiting
    /\ ~session.expired
    /\ \E due \in SUBSET InState(session, "TEMP_ERROR") : Do(handle_get_locks(session, due), reqQ)
    /\ missed' = missed \cup IF Forgets THEN {"release"} ELSE {}
    /\ UNCHANGED <<replies, holder, up>>

StillWaiting == session     \* mutant: the state is not put back

WaitOver == [session EXCEPT !.state = "IDLE"]

Abandon ==
    CASE session.mode = "NORMAL"     -> Keep(WaitOver)
      [] session.mode = "AUTOUNLOCK" -> Keep(clear_lock_cbs(WaitOver))
      [] OTHER -> handle_locks_cleanup([WaitOver EXCEPT !.mode = "AUTOLOCK"])

NoTimeout(r) == FALSE     \* mutant: the timeout of the session is not copied

TimedOut(r) == r.old

\* The requests are in the order of their start times: the first ones time out.
FirstWaiting == Min({i \in 1..Len(reqQ) + 1 : i <= Len(reqQ) => ~TimedOut(reqQ[i])})

mgr_rpc_timeout_requestQ == SubSeq(reqQ, FirstWaiting, Len(reqQ))

message_timed_out == mgr_rpc_timeout_requestQ # reqQ

WaitExpired ==
    /\ up /\ session.state = "RPYWAIT"
    /\ message_timed_out \/ (session.mode \in AutoModes /\ session.expired)
    /\ Do(Abandon, mgr_rpc_timeout_requestQ)
    /\ missed' = missed \cup (IF message_timed_out THEN {"reply"} ELSE {})
                        \cup (IF mgr_rpc_timeout_requestQ # <<>> THEN {"overtaken"} ELSE {})
                        \cup (IF Forgets THEN {"release"} ELSE {})
    /\ UNCHANGED <<replies, holder, up>>

\* The server has closed the connection.
clear_server_cb_session ==
    /\ ~up /\ session.state # "DOWN"
    /\ session' = IdleSession(session)
    /\ reqQ' = <<>>
    /\ UNCHANGED <<requests, replies, holder, up, missed>>

Connect ==
    /\ ~up /\ session.state = "DOWN"
    /\ up' = TRUE
    /\ session' = [session EXCEPT !.state = "IDLE"]
    /\ missed' = {}
    /\ UNCHANGED <<reqQ, requests, replies, holder>>

-----------------------------------------------------------------------------
Matches(id) == {i \in DOMAIN reqQ : reqQ[i].id = id}

OldestRequest(id) == IF reqQ = <<>> THEN 0 ELSE 1     \* mutant: does not compare the ids

find_request(id) == IF Matches(id) = {} THEN 0 ELSE Min(Matches(id))

Without(queue, i) == SubSeq(queue, 1, i - 1) \o SubSeq(queue, i + 1, Len(queue))

\* mgr_rpc_dispatch: a reply nobody waits for is skipped.
mgr_rpc_dispatch ==
    /\ up /\ replies # <<>>
    /\ LET rpy == Head(replies)
           i == find_request(rpy.id)
       IN  IF i = 0 THEN Do(Keep(session), reqQ)
           ELSE \E due \in SUBSET (InState(session, "TEMP_ERROR") \cup {session.cur}) :
                    Do(yangcli_reply_handler(session, rpy.result, due), Without(reqQ, i))
    /\ replies' = Tail(replies)
    /\ missed' = missed \cup IF Forgets THEN {"release"} ELSE {}
    /\ UNCHANGED <<holder, up>>

-----------------------------------------------------------------------------
(* The clocks, the server, and the sessions of other clients.               *)

\* Requests are queued in the order of their start times.
RequestAges ==
    /\ RequestTimeout
    /\ \E i \in DOMAIN reqQ :
        /\ ~reqQ[i].old
        /\ \A j \in 1..i - 1 : reqQ[j].old
        /\ reqQ' = [reqQ EXCEPT ![i].old = TRUE]
    /\ UNCHANGED <<session, requests, replies, holder, up, missed>>

LockTimerExpires ==
    /\ LockTimeout /\ session.mode \in AutoModes /\ ~session.expired
    /\ session' = [session EXCEPT !.expired = TRUE]
    /\ UNCHANGED <<reqQ, requests, replies, holder, up, missed>>

\* The server may refuse to lock a datastore that is free, for instance while a
\* confirmed commit of another session is pending, and to discard changes.
Answers(q) ==
    CASE q.op = "lock" ->
            IF holder[q.cfg] = "nobody" THEN {<<"ok", "me">>, <<"failed", "nobody">>}
            ELSE {<<"denied", holder[q.cfg]>>}
      [] q.op = "unlock" ->
            {IF holder[q.cfg] = "me" THEN <<"ok", "nobody">> ELSE <<"failed", holder[q.cfg]>>}
      [] q.op = "discard" -> {<<"ok", holder[q.cfg]>>, <<"failed", holder[q.cfg]>>}
      [] OTHER -> {<<"ok", holder[q.cfg]>>}

Serve ==
    /\ requests # <<>>
    /\ LET q == Head(requests) IN
       \E a \in Answers(q) :
          /\ replies' = Append(replies, [id |-> q.id, result |-> a[1]])
          /\ holder' = [holder EXCEPT ![q.cfg] = a[2]]
    /\ requests' = Tail(requests)
    /\ UNCHANGED <<session, reqQ, up, missed>>

Disconnect ==
    /\ up
    /\ up' = FALSE
    /\ requests' = <<>> /\ replies' = <<>>
    /\ holder' = [c \in Used |-> IF holder[c] = "me" THEN "nobody" ELSE holder[c]]
    /\ UNCHANGED <<session, reqQ, missed>>

OthersLock ==
    /\ \E c \in Used :
        \/ holder[c] = "nobody" /\ holder' = [holder EXCEPT ![c] = "other"]
        \/ holder[c] = "other" /\ holder' = [holder EXCEPT ![c] = "nobody"]
    /\ UNCHANGED <<session, reqQ, requests, replies, up, missed>>

-----------------------------------------------------------------------------
InputHandler == IdleExpired \/ Retry \/ WaitExpired \/ clear_server_cb_session

User == do_release_locks \/ SendCommand \/ Connect \/ \E b \in Cleanups : do_get_locks(b)

Next ==
    \/ User
    \/ IdleExpired
    \/ Retry
    \/ WaitExpired
    \/ clear_server_cb_session
    \/ mgr_rpc_dispatch
    \/ RequestAges
    \/ LockTimerExpires
    \/ Serve
    \/ Disconnect
    \/ OthersLock

\* The loop of the client calls the input handler again and again, reads what
\* arrives, and time passes.  Nothing is assumed of the server or of the user.
Fairness ==
    /\ WF_vars(InputHandler)
    /\ WF_vars(mgr_rpc_dispatch)
    /\ WF_vars(RequestAges)
    /\ WF_vars(LockTimerExpires)

Spec == Init /\ [][Next]_vars /\ Fairness

-----------------------------------------------------------------------------
LockStates == {"NONE", "IDLE", "REQUEST_SENT", "TEMP_ERROR", "FATAL_ERROR", "ACTIVE",
               "RELEASE_SENT", "RELEASED"}

\* Every variable has its type; a lock block of a datastore the server does not
\* have is never used, and no two requests under way have one id.
TypeOK ==
    /\ session.state \in {"DOWN", "IDLE", "RPYWAIT"}
    /\ session.mode \in {"NORMAL"} \cup AutoModes
    /\ session.cur \in Used
    /\ session.lock \in [Configs -> LockStates]
    /\ \A c \in Configs \ Used : session.lock[c] = "NONE"
    /\ \A i, j \in DOMAIN reqQ : reqQ[i].id = reqQ[j].id => i = j
    /\ Pending <= 3 * MaxPending + 6
    /\ holder \in [Used -> {"nobody", "me", "other"}]
    /\ up \in BOOLEAN
    /\ missed \subseteq {"reply", "overtaken", "release"}

\* A session that waits for a reply has a request in the queue: without one
\* message_timed_out never fires and the wait has no end (ycli/yangcli.c:3329).
\* Replies that come late, while the session waits for another request, must
\* not take that request's place.
WaitsForRequest == up /\ session.state = "RPYWAIT" => reqQ # <<>>

\* A lock the client believes it has is held on the server, also when requests
\* time out and are answered later (mgr/mgr_rpc.c:400): unless the lock timeout
\* went ahead of a request that was still in the queue.
ActiveHeld ==
    up /\ session.active /\ "overtaken" \notin missed
        => \A c \in InState(session, "ACTIVE") : holder[c] = "me"

\* When get-locks has failed or release-locks is over, the client has released
\* whatever it had: unless a timeout has cut off a request or the release, or the
\* user asked for no cleanup.
AllReleased ==
    up /\ session.mode = "NORMAL" /\ ~session.active /\ missed = {}
        => \A c \in Used : holder[c] # "me"

\* "If all the locks cannot be obtained, then release all of them
\* (all-or-nothing)" (modules/yumaworks/yangcli-pro.yang:1445): once nothing is
\* under way any more, a get-locks that failed has left no lock behind.
AllOrNothing ==
    up /\ session.mode = "NORMAL" /\ ~session.active /\ Pending = 0
        => \A c \in Used : holder[c] # "me"

\* Whatever the server does, or does not, the client takes commands again
\* (ycli/yangcli.c:3900): every get-locks and every wait comes to an end, if
\* neither of the two timeouts is 0, which means that there is none.
CommandEnds ==
    LockTimeout /\ RequestTimeout => []<>(session.mode = "NORMAL" /\ session.state # "RPYWAIT")
=============================================================================
