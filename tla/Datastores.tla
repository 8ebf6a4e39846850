----------------------------- MODULE Datastores -----------------------------
(***************************************************************************)
(* The configuration datastores of netconfd-pro when the edit target is    *)
(* <candidate>: the global and partial locks, the operations that write a  *)
(* datastore, the confirmed commit with its timer and its backup file, the *)
(* end of a session and the restart of the server.                         *)
(*                                                                         *)
(* The server is one process that completes an <rpc> before it looks at    *)
(* anything else, so an action is a whole request that succeeds in its     *)
(* validate callback (ncx/cfg.c, agt/agt_ncx.c); a request that is refused *)
(* is no action, but for a <commit>, which can leave <candidate> changed.  *)
(* What interleaves is requests of different sessions, sessions that end,  *)
(* the timer and restarts.                                                 *)
(***************************************************************************)
EXTENDS Naturals, FiniteSets

CONSTANTS
    Sessions,     \* session ids (a slot of agtses[] may be used again)
    NoSession,    \* ses_id_t 0: nobody, and the system itself
    Base11,       \* the sessions that negotiated NETCONF base:1.1
    Leaves,       \* the data nodes of the configuration
    Vals,         \* their values
    Absent,       \* the value of a node that is not there
    Factory,      \* the running config of a boot without a startup file
    PersistIds,   \* values of the <persist> parameter
    NoPersist,    \* the parameter is missing
    NoFile,       \* a file or a config root that does not exist
    HasStartup,   \* --with-startup: a distinct <startup> datastore
    UseStartup,   \* FALSE: --no-startup
    StopOnError,  \* --startup-error=stop
    BackupNames,  \* files for <backup>; none without yumaworks-system
    MaxPlocks,    \* bound: partial locks a session holds at a time
    Faults        \* which of the calls below may fail

Config == [Leaves -> Vals]

(* "sil": a callback of the instrumentation, or a partial lock of another  *)
(* session, refuses a commit; "rollback": a callback also fails to undo;   *)
(* "restore": it refuses a restored backup; "nv", "backup": the startup or *)
(* the backup file is not writable; "badmsg": a message of a client is not *)
(* XML or not a known top element.                                         *)
ASSUME ConstantsAssumption ==
    /\ NoSession \notin Sessions
    /\ Base11 \subseteq Sessions
    /\ Absent \in Vals
    /\ Factory \in Config
    /\ NoPersist \notin PersistIds
    /\ NoFile \notin Config
    /\ HasStartup \in BOOLEAN
    /\ UseStartup \in BOOLEAN
    /\ StopOnError \in BOOLEAN
    /\ MaxPlocks \in Nat
    /\ Faults \subseteq {"sil", "rollback", "restore", "nv", "backup", "badmsg"}

(* cfg_arr[]: the static datastores that exist                             *)
Cfgs == {"candidate", "running"} \cup (IF HasStartup THEN {"startup"} ELSE {})

EmptyRoot == [l \in Leaves |-> Absent]

VARIABLES
    live,        \* agtses[]: the sessions that exist
    cfg_state,   \* cfg_template_t.cfg_state: READY, PLOCK or FLOCK
    locked_by,   \* cfg_template_t.locked_by: owner of the global lock
    plocks,      \* running->plockQ: how many partial locks a session holds
    root,        \* cfg_template_t.root
    dirty,       \* CFG_FL_DIRTY of <candidate>
    edited,      \* nodes with VAL_FL_DIRTY, in <candidate> and in <startup>
    load_errQ,   \* running->load_errQ is not empty
    nv,          \* contents of the startup-cfg.xml file
    backup,      \* contents of the backup-cfg.xml file
    backups,     \* contents of the files <backup> has written
    cc           \* commit_cb: the confirmed commit in progress

locks == <<cfg_state, locked_by, plocks>>
vars == <<live, cfg_state, locked_by, plocks, root, dirty, edited, load_errQ,
          nv, backup, backups, cc>>

(* commit_cb after clear_commit_cb; expired stands for the start time and  *)
(* the timeout: the interval has elapsed                                   *)
NoCommit == [active |-> FALSE, ses_id |-> NoSession, persist |-> NoPersist,
             expired |-> FALSE]

CommitCb == [active: BOOLEAN, ses_id: Sessions \cup {NoSession},
             persist: PersistIds \cup {NoPersist}, expired: BOOLEAN]

-----------------------------------------------------------------------------
(* Booting.  Sessions, locks and the confirmed commit live in memory; the  *)
(* two files survive.                                                      *)

BootRunning(file) == IF UseStartup /\ file # NoFile THEN file ELSE Factory

BootStartup(file) == IF UseStartup /\ file # NoFile THEN file ELSE EmptyRoot

BootRoot(file) ==
    [c \in Cfgs |-> IF c = "startup" THEN BootStartup(file)
                                     ELSE BootRunning(file)]

Init ==
    /\ live = {}
    /\ cfg_state = [c \in Cfgs |-> "ready"]
    /\ locked_by = [c \in Cfgs |-> NoSession]
    /\ plocks = [s \in Sessions |-> 0]
    /\ nv = NoFile
    /\ backup = NoFile
    /\ backups = [f \in BackupNames |-> NoFile]
    /\ root = BootRoot(nv)
    /\ dirty = FALSE
    /\ edited = [c \in {"candidate", "startup"} |-> {}]
    /\ load_errQ = FALSE
    /\ cc = NoCommit

(* A crash, or a shutdown, at any moment, and the boot that follows.       *)
Reboot ==
    /\ live' = {}
    /\ cfg_state' = [c \in Cfgs |-> "ready"]
    /\ locked_by' = [c \in Cfgs |-> NoSession]
    /\ plocks' = [s \in Sessions |-> 0]
    /\ root' = BootRoot(nv)
    /\ dirty' = FALSE
    /\ edited' = [c \in {"candidate", "startup"} |-> {}]
    /\ load_errQ' = FALSE
    /\ cc' = NoCommit
    /\ UNCHANGED <<nv, backup, backups>>

-----------------------------------------------------------------------------
(* Locks (ncx/cfg.c)                                                       *)

cfg_ok_to_lock(c) == cfg_state[c] = "ready" /\ (c = "candidate" => ~dirty)

cfg_ok_to_unlock(c, s) == cfg_state[c] = "flock" /\ locked_by[c] = s

AnyOwner(c, s) ==        \* mutant: locked by somebody is enough
    cfg_state[c] = "flock" => locked_by[c] # NoSession

cfg_ok_to_write(c, s) == cfg_state[c] = "flock" => locked_by[c] = s

cfg_ok_to_partial_lock == cfg_state["running"] \in {"ready", "plock"}

(* <candidate> becomes a clone of <running> and loses its marks            *)
Filled(r) == [r EXCEPT !["candidate"] = r["running"]]
NoEdits == [edited EXCEPT !["candidate"] = {}]

cfg_fill_candidate_from_running ==
    /\ root' = Filled(root)
    /\ dirty' = FALSE
    /\ edited' = NoEdits

NewSession(s) ==
    /\ s \notin live
    /\ live' = live \cup {s}
    /\ UNCHANGED <<locks, root, dirty, edited, load_errQ, nv, backup, backups, cc>>

LockDuringCommit(s, c) ==   \* mutant: a pending commit is not checked
    /\ s \in live
    /\ cfg_ok_to_lock(c)
    /\ cfg_state' = [cfg_state EXCEPT ![c] = "flock"]
    /\ locked_by' = [locked_by EXCEPT ![c] = s]
    /\ UNCHANGED <<live, plocks, root, dirty, edited, load_errQ, nv, backup, backups, cc>>

Lock(s, c) ==
    /\ s \in live
    /\ cfg_ok_to_lock(c)
    /\ c \in {"running", "candidate"} => ~cc.active
    /\ cfg_state' = [cfg_state EXCEPT ![c] = "flock"]
    /\ locked_by' = [locked_by EXCEPT ![c] = s]
    /\ UNCHANGED <<live, plocks, root, dirty, edited, load_errQ, nv, backup, backups, cc>>

UnlockKeepsEdits(s, c) ==   \* mutant: no reload_candidate
    /\ s \in live
    /\ cfg_ok_to_unlock(c, s)
    /\ cfg_state' = [cfg_state EXCEPT ![c] = "ready"]
    /\ locked_by' = [locked_by EXCEPT ![c] = NoSession]
    /\ UNCHANGED <<live, plocks, root, dirty, edited, load_errQ, nv, backup, backups, cc>>

Unlock(s, c) ==
    /\ s \in live
    /\ cfg_ok_to_unlock(c, s)
    /\ cfg_state' = [cfg_state EXCEPT ![c] = "ready"]
    /\ locked_by' = [locked_by EXCEPT ![c] = NoSession]
    /\ IF c = "candidate" /\ dirty          \* reload_candidate
       THEN cfg_fill_candidate_from_running
       ELSE UNCHANGED <<root, dirty, edited>>
    /\ UNCHANGED <<live, plocks, load_errQ, nv, backup, backups, cc>>

PartialLock(s) ==
    /\ s \in live
    /\ cfg_ok_to_partial_lock
    /\ ~cc.active
    /\ plocks[s] < MaxPlocks
    /\ cfg_state' = [cfg_state EXCEPT !["running"] = "plock"]
    /\ plocks' = [plocks EXCEPT ![s] = @ + 1]
    /\ UNCHANGED <<live, locked_by, root, dirty, edited, load_errQ, nv, backup, backups, cc>>

PartialUnlock(s) ==
    /\ s \in live
    /\ plocks[s] > 0
    /\ plocks' = [plocks EXCEPT ![s] = @ - 1]
    /\ cfg_state' = [cfg_state EXCEPT !["running"] =
           IF \A t \in Sessions : plocks'[t] = 0 THEN "ready" ELSE "plock"]
    /\ UNCHANGED <<live, locked_by, root, dirty, edited, load_errQ, nv, backup, backups, cc>>

-----------------------------------------------------------------------------
(* Operations that write <candidate>, <startup> and the files              *)

Differing(r1, r2) == {l \in Leaves : r1[l] # r2[l]}

WriteUnflagged(new) ==   \* mutant: CFG_FL_DIRTY is not set
    /\ root' = [root EXCEPT !["candidate"] = new]
    /\ edited' = [edited EXCEPT !["candidate"] =
                      @ \cup Differing(root["candidate"], new)]
    /\ UNCHANGED dirty

WriteForgets(new) ==     \* mutant: marks of earlier edits are lost
    /\ root' = [root EXCEPT !["candidate"] = new]
    /\ edited' = [edited EXCEPT !["candidate"] =
                      Differing(root["candidate"], new)]
    /\ dirty' = TRUE

(* agt_val_apply_write on <candidate> with success: the nodes that change  *)
(* are marked, and <candidate> is dirty whether or not a node changed.     *)
WriteCandidate(new) ==
    /\ root' = [root EXCEPT !["candidate"] = new]
    /\ edited' = [edited EXCEPT !["candidate"] =
                      @ \cup Differing(root["candidate"], new)]
    /\ dirty' = TRUE

EditConfig(s, l, v) ==
    /\ s \in live
    /\ cfg_ok_to_write("candidate", s)
    /\ WriteCandidate([root["candidate"] EXCEPT ![l] = v])
    /\ UNCHANGED <<live, locks, load_errQ, nv, backup, backups, cc>>

CopyInlineToCandidate(s, new) ==
    /\ s \in live
    /\ cfg_ok_to_write("candidate", s)
    /\ WriteCandidate(new)
    /\ UNCHANGED <<live, locks, load_errQ, nv, backup, backups, cc>>

(* <discard-changes>, and <copy-config> of <running> to <candidate>        *)
DiscardChanges(s) ==
    /\ s \in live
    /\ cfg_ok_to_write("candidate", s)
    /\ dirty
    /\ cfg_fill_candidate_from_running
    /\ UNCHANGED <<live, locks, load_errQ, nv, backup, backups, cc>>

(* The clone keeps the marks the nodes had when <startup> was written      *)
CopyStartupToCandidate(s) ==
    /\ HasStartup
    /\ s \in live
    /\ cfg_ok_to_write("candidate", s)
    /\ root["startup"] # NoFile
    /\ root' = [root EXCEPT !["candidate"] = root["startup"]]
    /\ edited' = [edited EXCEPT !["candidate"] = edited["startup"]]
    /\ dirty' = FALSE
    /\ UNCHANGED <<live, locks, load_errQ, nv, backup, backups, cc>>

(* agt_ncx_cfg_save: the startup file, and its image in memory if there is *)
(* a <startup>; what the roots and the marks become when config c is saved *)
SavedRoot(r, c) == IF HasStartup THEN [r EXCEPT !["startup"] = r[c]] ELSE r

SavedMarks(e, c) ==
    IF HasStartup
    THEN [e EXCEPT !["startup"] = IF c = "candidate" THEN e[c] ELSE {}]
    ELSE e

CopyToStartup(s, c) ==
    /\ HasStartup
    /\ s \in live
    /\ cfg_ok_to_write("startup", s)
    /\ nv' = root[c]
    /\ root' = SavedRoot(root, c)
    /\ edited' = SavedMarks(edited, c)
    /\ UNCHANGED <<live, locks, dirty, load_errQ, backup, backups, cc>>

(* Only the file is written: cfg_save_inline                               *)
CopyInlineToStartup(s, new) ==
    /\ HasStartup
    /\ s \in live
    /\ cfg_ok_to_write("startup", s)
    /\ nv' = new
    /\ UNCHANGED <<live, locks, root, dirty, edited, load_errQ, backup, backups, cc>>

DeleteStartup(s) ==
    /\ HasStartup
    /\ s \in live
    /\ cfg_ok_to_write("startup", s)
    /\ nv # NoFile
    /\ nv' = NoFile
    /\ root' = [root EXCEPT !["startup"] = NoFile]
    /\ UNCHANGED <<live, locks, dirty, edited, load_errQ, backup, backups, cc>>

-----------------------------------------------------------------------------
(* Commit.  Three values are threaded through a commit, since a finishing  *)
(* commit saves <running> before it applies anything: the roots r, the     *)
(* startup file f and the marks e.                                         *)

LoadUnchecked(r, b, sid) ==   \* mutant: a missing file is not noticed
    {[running |-> b, ok |-> TRUE, err |-> FALSE]}

(* The values <running> can have after agt_ncx_load_backup of file b as    *)
(* session sid, whether the load succeeded, and whether it left an error   *)
(* in load_errQ.  The lock on <running> is checked, but the result of that *)
(* check only stops the load under --startup-error=stop.                   *)
LoadBackup(r, b, sid) ==
    LET allowed == cfg_ok_to_write("running", sid)
        kept(e) == [running |-> r["running"], ok |-> FALSE, err |-> e]
    IN  IF b = NoFile THEN {kept(FALSE)}
        ELSE IF ~allowed /\ StopOnError THEN {kept(TRUE)}
        ELSE {[running |-> b, ok |-> TRUE, err |-> ~allowed]}
             \cup (IF "restore" \in Faults THEN {kept(TRUE)} ELSE {})

(* The commit failed and could not be undone: load the backup              *)
Recover(r, f, e, b, sid) ==
    \E o \in LoadBackup(r, b, sid) :
        /\ root' = [r EXCEPT !["running"] = o.running]
        /\ nv' = f
        /\ edited' = e
        /\ load_errQ' = (load_errQ \/ o.err)

(* What a refused commit can leave behind: invoke_btype_cb marks the nodes *)
(* that were refused as deleted, in <candidate> itself, and neither the    *)
(* rollback nor anything else takes that mark back.  A later commit does   *)
(* not visit them, and notices that they are gone only if the parent is    *)
(* marked, by another edit, as one that lost a child.                      *)
Refused(r, e) ==
    {[root |-> [r EXCEPT !["candidate"] =
                   [l \in Leaves |-> IF l \in S THEN Absent
                                                ELSE r["candidate"][l]]],
      edited |-> [e EXCEPT !["candidate"] = @ \ (S \cap T)]] :
        S \in SUBSET e["candidate"], T \in SUBSET e["candidate"]}

(* The marked nodes of <candidate> replace those of <running>              *)
Merged(r, e) ==
    [r EXCEPT !["running"] =
        [l \in Leaves |-> IF l \in e["candidate"] THEN r["candidate"][l]
                                                  ELSE r["running"][l]]]

ApplyEdits(r, f, e, b, saveNv, sid) ==
    LET applied == Merged(r, e)
        unmarked == [e EXCEPT !["candidate"] = {}]
        mirror == ~HasStartup /\ saveNv
    IN  \/ /\ root' = applied
           /\ edited' = unmarked
           /\ nv' = IF mirror THEN applied["running"] ELSE f
           /\ UNCHANGED load_errQ
        \/ /\ "sil" \in Faults             \* refused and rolled back
           /\ \E q \in Refused(r, e) : root' = q.root /\ edited' = q.edited
           /\ nv' = f
           /\ UNCHANGED load_errQ
        \/ /\ {"sil", "rollback"} \subseteq Faults
           /\ \E q \in Refused(r, e) : Recover(q.root, f, q.edited, b, sid)
        \/ /\ "nv" \in Faults /\ mirror    \* applied, but not saved
           /\ Recover(applied, f, unmarked, b, sid)

(* A clean <candidate> is not applied, but <running> may still be saved    *)
SkipEdits(r, f, e, b, sid) ==
    LET save == ~HasStartup /\ (~UseStartup \/ load_errQ)
    IN  \/ /\ root' = r /\ edited' = e
           /\ nv' = IF save THEN r["running"] ELSE f
           /\ UNCHANGED load_errQ
        \/ /\ "nv" \in Faults /\ save
           /\ Recover(r, f, e, b, sid)

agt_ncx_internal_commit(r, f, e, writeBackup, saveNv, sid) ==
    \/ /\ writeBackup /\ "backup" \in Faults
       /\ root' = r /\ nv' = f /\ edited' = e
       /\ UNCHANGED <<backup, load_errQ>>
    \/ LET b == IF writeBackup THEN r["running"] ELSE backup
       IN  /\ backup' = b
           /\ IF dirty THEN ApplyEdits(r, f, e, b, saveNv, sid)
                       ELSE SkipEdits(r, f, e, b, sid)

(* commit_validate; pid is the <persist-id> parameter                      *)
commit_validate(s, pid) ==
    /\ s \in live
    /\ pid # NoPersist => s \in Base11 /\ cc.active /\ cc.persist = pid
    /\ cfg_ok_to_write("candidate", s)
    /\ cfg_ok_to_write("running", s)

(* A commit that is refused in commit_validate: cc is not reached.         *)
CommitRefused(s, pid) ==
    /\ commit_validate(s, pid)
    /\ dirty
    /\ "sil" \in Faults
    /\ \E q \in Refused(root, edited) : root' = q.root /\ edited' = q.edited
    /\ UNCHANGED <<live, locks, dirty, load_errQ, nv, backup, backups, cc>>

(* commit_invoke, by the parameters and by the state of the confirmed      *)
(* commit.  cc is updated before the commit is attempted.                  *)
CommitUnsaved(s) ==      \* mutant: save_nvstore is FALSE
    /\ commit_validate(s, NoPersist)
    /\ ~cc.active
    /\ agt_ncx_internal_commit(root, nv, edited, TRUE, FALSE, NoSession)
    /\ UNCHANGED <<live, locks, dirty, backups, cc>>

Commit(s) ==
    /\ commit_validate(s, NoPersist)
    /\ ~cc.active
    /\ agt_ncx_internal_commit(root, nv, edited, TRUE, TRUE, NoSession)
    /\ UNCHANGED <<live, locks, dirty, backups, cc>>

StartConfirmed(s, persist) ==
    /\ commit_validate(s, NoPersist)
    /\ persist # NoPersist => s \in Base11
    /\ ~cc.active
    /\ cc' = [active |-> TRUE, ses_id |-> s, persist |-> persist,
              expired |-> FALSE]
    /\ agt_ncx_internal_commit(root, nv, edited, TRUE, FALSE, s)
    /\ UNCHANGED <<live, locks, dirty, backups>>

ExtendRewritesBackup(s, persist, pid) ==   \* mutant: write_backup is TRUE
    /\ commit_validate(s, pid)
    /\ persist # NoPersist => s \in Base11
    /\ cc.active
    /\ pid # NoPersist \/ (cc.persist = NoPersist /\ cc.ses_id = s)
    /\ cc' = [cc EXCEPT !.ses_id = s, !.expired = FALSE,
                        !.persist = IF persist # NoPersist THEN persist ELSE @]
    /\ agt_ncx_internal_commit(root, nv, edited, TRUE, FALSE, s)
    /\ UNCHANGED <<live, locks, dirty, backups>>

ExtendConfirmed(s, persist, pid) ==
    /\ commit_validate(s, pid)
    /\ persist # NoPersist => s \in Base11
    /\ cc.active
    /\ pid # NoPersist \/ (cc.persist = NoPersist /\ cc.ses_id = s)
    /\ cc' = [cc EXCEPT !.ses_id = s, !.expired = FALSE,
                        !.persist = IF persist # NoPersist THEN persist ELSE @]
    /\ agt_ncx_internal_commit(root, nv, edited, FALSE, FALSE, s)
    /\ UNCHANGED <<live, locks, dirty, backups>>

(* A confirming commit: <running> is saved, then the commit is attempted   *)
FinishConfirmed(s, pid) ==
    /\ commit_validate(s, pid)
    /\ cc.active
    /\ pid # NoPersist \/ cc.ses_id = s
    /\ cc' = NoCommit
    /\ agt_ncx_internal_commit(SavedRoot(root, "running"), root["running"],
                               SavedMarks(edited, "running"),
                               TRUE, TRUE, NoSession)
    /\ UNCHANGED <<live, locks, dirty, backups>>

(* agt_ncx_cancel_confirmed_commit, up to the release of locks: what the   *)
(* backup restores, and whether <candidate> is filled from it              *)
Restored == LoadBackup(root, backup, NoSession)

CancelConfirmedCommit ==
    \E o \in Restored :
        /\ root' = IF o.ok THEN [root EXCEPT !["running"] = o.running,
                                             !["candidate"] = o.running]
                           ELSE root
        /\ dirty' = (dirty /\ ~o.ok)
        /\ edited' = IF o.ok THEN NoEdits ELSE edited
        /\ load_errQ' = (load_errQ \/ o.err)
        /\ cc' = NoCommit
        /\ UNCHANGED <<live, locks, nv, backup, backups>>

CancelCommit(s, pid) ==
    /\ s \in live /\ s \in Base11
    /\ cc.active
    /\ cfg_ok_to_write("running", s)
    /\ pid = cc.persist
    /\ cc.persist = NoPersist => cc.ses_id = s
    /\ CancelConfirmedCommit

CcTimerElapses ==
    /\ cc.active /\ ~cc.expired
    /\ cc' = [cc EXCEPT !.expired = TRUE]
    /\ UNCHANGED <<live, locks, root, dirty, edited, load_errQ, nv, backup, backups>>

CcTimeout ==
    /\ cc.active /\ cc.expired
    /\ CancelConfirmedCommit

-----------------------------------------------------------------------------
(* <backup>, <delete-backup> and <restore> of yumaworks-system.  A restore *)
(* replaces <running> and nothing else: neither <candidate> nor the        *)
(* startup file follows.                                                   *)
Backup(s, f) ==
    /\ s \in live
    /\ backups[f] = NoFile
    /\ backups' = [backups EXCEPT ![f] = root["running"]]
    /\ UNCHANGED <<live, locks, root, dirty, edited, load_errQ, nv, backup, cc>>

DeleteBackup(s, f) ==
    /\ s \in live
    /\ backups[f] # NoFile
    /\ backups' = [backups EXCEPT ![f] = NoFile]
    /\ UNCHANGED <<live, locks, root, dirty, edited, load_errQ, nv, backup, cc>>

Restore(s, f) ==
    /\ s \in live
    /\ cfg_ok_to_write("running", s)
    /\ ~cc.active
    /\ backups[f] # NoFile
    /\ \E o \in LoadBackup(root, backups[f], s) :
           /\ root' = [root EXCEPT !["running"] = o.running]
           /\ load_errQ' = (load_errQ \/ o.err)
    /\ UNCHANGED <<live, locks, dirty, edited, nv, backup, backups, cc>>

-----------------------------------------------------------------------------
(* cfg_release_locks: the partial locks of the session, then its global    *)
(* locks.  Removing partial locks does not touch cfg_state.                *)
PartialLocksOnly(s) ==   \* mutant: the loop over cfg_arr[] is lost
    /\ plocks' = [plocks EXCEPT ![s] = 0]
    /\ UNCHANGED <<cfg_state, locked_by>>

cfg_release_locks(s) ==
    LET owned(c) == locked_by[c] = s
    IN  /\ plocks' = [plocks EXCEPT ![s] = 0]
        /\ cfg_state' = [c \in Cfgs |-> IF owned(c) THEN "ready" ELSE cfg_state[c]]
        /\ locked_by' = [c \in Cfgs |-> IF owned(c) THEN NoSession ELSE locked_by[c]]

Cancels(s) == cc.active /\ cc.ses_id = s /\ cc.persist = NoPersist

OwnerStays(s) ==         \* mutant: a persistent commit keeps a dead owner
    IF Cancels(s) THEN NoCommit ELSE cc

CommitWithout(s) ==
    IF Cancels(s) THEN NoCommit
    ELSE IF cc.active /\ cc.ses_id = s THEN [cc EXCEPT !.ses_id = NoSession]
    ELSE cc

(* agt_ses_kill_session: <close-session>, <kill-session>, a timeout of the *)
(* session or a lost connection.  A confirmed commit of the session is     *)
(* cancelled first, then its partial locks are removed, then its global    *)
(* locks, which discards the edits of a dirty <candidate>.                 *)
SessionEnds(s) ==
    LET nothing == [running |-> root["running"], ok |-> FALSE, err |-> FALSE]
        unlocked == locked_by["candidate"] = s
    IN  /\ s \in live
        /\ live' = live \ {s}
        /\ cc' = CommitWithout(s)
        /\ \E o \in IF Cancels(s) THEN Restored ELSE {nothing} :
             LET refill == o.ok \/ (unlocked /\ dirty)
             IN  /\ root' = [root EXCEPT
                        !["running"] = o.running,
                        !["candidate"] = IF refill THEN o.running ELSE @]
                 /\ dirty' = (dirty /\ ~refill)
                 /\ edited' = IF refill THEN NoEdits ELSE edited
                 /\ load_errQ' = (load_errQ \/ o.err)
        /\ cfg_release_locks(s)
        /\ UNCHANGED <<nv, backup, backups>>

(* agt_top_dispatch_msg frees a session whose message it cannot dispatch   *)
(* without going through agt_ses_kill_session: its locks are released, but *)
(* the confirmed commit is not told.                                       *)
SessionDropped(s) ==
    /\ "badmsg" \in Faults
    /\ s \in live
    /\ live' = live \ {s}
    /\ IF locked_by["candidate"] = s /\ dirty
       THEN cfg_fill_candidate_from_running
       ELSE UNCHANGED <<root, dirty, edited>>
    /\ cfg_release_locks(s)
    /\ UNCHANGED <<load_errQ, nv, backup, backups, cc>>

-----------------------------------------------------------------------------
(* The requests of session s that can change the contents of a datastore   *)
WriteRpc(s) ==
    \/ \E l \in Leaves, v \in Vals : EditConfig(s, l, v)
    \/ \E new \in Config : CopyInlineToCandidate(s, new)
    \/ DiscardChanges(s)
    \/ CopyStartupToCandidate(s)
    \/ \E c \in {"candidate", "running"} : CopyToStartup(s, c)
    \/ \E new \in Config : CopyInlineToStartup(s, new)
    \/ DeleteStartup(s)
    \/ Commit(s)
    \/ \E pid \in PersistIds \cup {NoPersist} : CommitRefused(s, pid)
    \/ \E p \in PersistIds \cup {NoPersist} : StartConfirmed(s, p)
    \/ \E p, pid \in PersistIds \cup {NoPersist} : ExtendConfirmed(s, p, pid)
    \/ \E pid \in PersistIds \cup {NoPersist} : FinishConfirmed(s, pid)
    \/ \E f \in BackupNames : Restore(s, f)

BackupRpc(s) == \E f \in BackupNames : Backup(s, f) \/ DeleteBackup(s, f)

LockRpc(s) ==
    \/ \E c \in Cfgs : Lock(s, c)
    \/ \E c \in Cfgs : Unlock(s, c)
    \/ PartialLock(s)
    \/ PartialUnlock(s)

Next ==
    \/ \E s \in Sessions : \/ NewSession(s)
                           \/ LockRpc(s)
                           \/ WriteRpc(s)
                           \/ BackupRpc(s)
                           \/ \E pid \in PersistIds \cup {NoPersist} :
                                  CancelCommit(s, pid)
                           \/ SessionEnds(s)
                           \/ SessionDropped(s)
    \/ CcTimerElapses
    \/ CcTimeout
    \/ Reboot

Spec == Init /\ [][Next]_vars

-----------------------------------------------------------------------------
(* Properties                                                              *)

(* Every variable has its type, and <candidate> and <running> always have  *)
(* a root (only <startup> can lose it, to <delete-config>).                *)
TypeOK ==
    /\ live \subseteq Sessions
    /\ cfg_state \in [Cfgs -> {"ready", "plock", "flock"}]
    /\ locked_by \in [Cfgs -> Sessions \cup {NoSession}]
    /\ plocks \in [Sessions -> 0 .. MaxPlocks]
    /\ root \in [Cfgs -> Config \cup {NoFile}]
    /\ root["candidate"] \in Config /\ root["running"] \in Config
    /\ dirty \in BOOLEAN
    /\ edited \in [{"candidate", "startup"} -> SUBSET Leaves]
    /\ load_errQ \in BOOLEAN
    /\ nv \in Config \cup {NoFile}
    /\ backup \in Config \cup {NoFile}
    /\ backups \in [BackupNames -> Config \cup {NoFile}]
    /\ cc \in CommitCb

(* A datastore is in the full-lock state exactly while a session that      *)
(* still exists owns it, and a partial lock is held only by a session that *)
(* exists and only while <running> is in the partial-lock state: however   *)
(* sessions end (agt_ses_free_session), no lock outlives its owner.        *)
LockOwners ==
    /\ \A c \in Cfgs : /\ cfg_state[c] = "flock" <=> locked_by[c] # NoSession
                       /\ locked_by[c] \in live \cup {NoSession}
    /\ \A s \in Sessions :
           plocks[s] > 0 => s \in live /\ cfg_state["running"] = "plock"

(* While a confirmed commit is pending, <candidate> and <running> can be   *)
(* locked by nobody but the session that owns the commit: a timeout or the *)
(* end of that session restores both datastores without asking for a lock  *)
(* (agt_ncx_cancel_confirmed_commit), so a lock of somebody else would be  *)
(* written through.                                                        *)
CcOwnerHoldsLocks ==
    cc.active => \A c \in {"candidate", "running"} :
                     locked_by[c] \in {NoSession, cc.ses_id}

(* The owner of a pending confirmed commit is a session that exists, or    *)
(* nobody when the commit is persistent (agt_ses_kill_session: "handle     *)
(* confirmed commit started by this session"), so that a new session that  *)
(* gets the same id does not inherit the commit of another user.           *)
CcOwnerLives ==
    /\ cc.active /\ cc.persist = NoPersist => cc.ses_id \in live
    /\ cc.ses_id # NoSession => cc.active /\ cc.ses_id \in live

(* <running> and <candidate>, when locked, change only in a step of the    *)
(* owner of the lock: no request and no end of another session, and no     *)
(* expiry of a confirmed commit that is not the owner's, writes through a  *)
(* lock.  The one exception the code makes is stated apart, below.         *)
LockedAgainst(c, s) == locked_by[c] \notin {NoSession, s}

LockProtects ==
    [][\A c \in {"candidate", "running"} :
        /\ \A s \in Sessions :
             (WriteRpc(s) \/ SessionEnds(s) \/ SessionDropped(s))
             /\ LockedAgainst(c, s) => root'[c] = root[c]
        /\ CcTimeout /\ LockedAgainst(c, cc.ses_id) => root'[c] = root[c]]_vars

(* Releasing the lock on <candidate>, by <unlock> or by the end of the     *)
(* session, leaves no uncommitted edit in it (reload_candidate: "sec       *)
(* 8.3.5.2 requires a discard-changes when a lock is released on the       *)
(* candidate and there are edits done to the candidate").                  *)
ReleaseDiscards ==
    [][locked_by["candidate"] # NoSession /\ locked_by'["candidate"] = NoSession
         => root'["candidate"] = root'["running"]]_vars

(* A <candidate> that is not dirty equals <running>: <commit>, <discard-   *)
(* changes>, <copy-config> and the release of a lock are all skipped when  *)
(* the flag is clear.                                                      *)
CleanCandidate == ~dirty => root["candidate"] = root["running"]

(* Every node in which <candidate> and <running> differ carries the mark   *)
(* that makes a commit apply it: a commit that succeeds makes <running>    *)
(* equal to <candidate>.                                                   *)
MarksCoverEdits ==
    Differing(root["candidate"], root["running"]) \subseteq edited["candidate"]

(* The configuration that survives: the one a pending confirmed commit     *)
(* would be rolled back to, otherwise <running>.                           *)
Confirmed == IF cc.active THEN backup ELSE root["running"]

(* Without a distinct <startup>, the startup file mirrors the confirmed    *)
(* configuration, so a restart at any moment boots it: committed changes   *)
(* are not lost, and unconfirmed ones do not survive.                      *)
NvMirrorsConfirmed ==
    ~HasStartup /\ UseStartup /\ ~load_errQ => BootRunning(nv) = Confirmed

(* The datastores implement the abstract commit service: a start keeps the *)
(* backup equal to what was running, an extension leaves it alone, and a   *)
(* commit that ends any other way than by a confirming commit puts back    *)
(* exactly that backup.                                                    *)
CommitService ==
    INSTANCE ConfirmedCommit WITH
        Mirror <- ~HasStartup, running <- root["running"],
        confirmed <- Confirmed, saved <- BootRunning(nv), pending <- cc.active

ImplementsCommitService == CommitService!Spec
=============================================================================
