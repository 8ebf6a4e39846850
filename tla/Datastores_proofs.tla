-------------------------- MODULE Datastores_proofs --------------------------
(***************************************************************************)
(* Proofs about Datastores, for every number of sessions, nodes, values    *)
(* and backups, and with any of the calls failing.                         *)
(***************************************************************************)
EXTENDS Datastores, TLAPS

Roots == {r \in [Cfgs -> Config \cup {NoFile}] :
             r["candidate"] \in Config /\ r["running"] \in Config}

Marks == [{"candidate", "startup"} -> SUBSET Leaves]

Pids == PersistIds \cup {NoPersist}

-----------------------------------------------------------------------------
(* Types of what the operations compute                                    *)

LEMMA Datastores_exist ==
    /\ "candidate" \in Cfgs /\ "running" \in Cfgs
    /\ HasStartup <=> "startup" \in Cfgs
    /\ Cfgs \subseteq {"candidate", "running", "startup"}
BY DEF Cfgs

LEMMA EmptyRootType == EmptyRoot \in Config
BY ConstantsAssumption DEF EmptyRoot, Config

LEMMA BootType ==
    ASSUME NEW f \in Config \cup {NoFile}
    PROVE  BootRunning(f) \in Config /\ BootRoot(f) \in Roots
BY ConstantsAssumption, EmptyRootType, Datastores_exist
   DEF BootRunning, BootStartup, BootRoot, Roots

(* A root of <running> that a load of a backup leaves is a configuration.  *)
LEMMA LoadBackupType ==
    ASSUME NEW r \in Roots, NEW b \in Config \cup {NoFile}, NEW sid,
           NEW o \in LoadBackup(r, b, sid)
    PROVE  /\ o.running \in Config
           /\ o.ok \in BOOLEAN /\ o.err \in BOOLEAN
           /\ o.ok => o.running = b
           /\ ~o.ok => o.running = r["running"]
<1>1. o = [running |-> r["running"], ok |-> FALSE, err |-> FALSE]
        => o.running \in Config /\ o.ok = FALSE /\ o.err = FALSE
           /\ o.running = r["running"]
  BY DEF Roots
<1>2. o = [running |-> r["running"], ok |-> FALSE, err |-> TRUE]
        => o.running \in Config /\ o.ok = FALSE /\ o.err = TRUE
           /\ o.running = r["running"]
  BY DEF Roots
<1>3. b # NoFile /\ o = [running |-> b, ok |-> TRUE,
                         err |-> ~cfg_ok_to_write("running", sid)]
        => o.running \in Config /\ o.ok = TRUE /\ o.err \in BOOLEAN
           /\ o.running = b
  BY DEF cfg_ok_to_write
<1> QED
  BY <1>1, <1>2, <1>3 DEF LoadBackup

LEMMA MergedType ==
    ASSUME NEW r \in Roots, NEW e \in Marks
    PROVE  /\ Merged(r, e) \in Roots
           /\ [e EXCEPT !["candidate"] = {}] \in Marks
<1>1. \A l \in Leaves : r["candidate"][l] \in Vals /\ r["running"][l] \in Vals
  BY DEF Roots, Config
<1>2. [l \in Leaves |-> IF l \in e["candidate"] THEN r["candidate"][l]
                                                ELSE r["running"][l]] \in Config
  BY <1>1 DEF Config
<1> QED
  BY <1>2, Datastores_exist DEF Merged, Roots, Marks

(* A refused commit changes nothing but <candidate> and its marks.         *)
LEMMA RefusedType ==
    ASSUME NEW r \in Roots, NEW e \in Marks, NEW q \in Refused(r, e)
    PROVE  /\ q.root \in Roots /\ q.edited \in Marks
           /\ \A c \in Cfgs \ {"candidate"} : q.root[c] = r[c]
<1>1. PICK S \in SUBSET e["candidate"], T \in SUBSET e["candidate"] :
          q = [root |-> [r EXCEPT !["candidate"] =
                            [l \in Leaves |-> IF l \in S THEN Absent
                                                         ELSE r["candidate"][l]]],
               edited |-> [e EXCEPT !["candidate"] = @ \ (S \cap T)]]
  BY DEF Refused
<1>2. \A l \in Leaves : r["candidate"][l] \in Vals
  BY DEF Roots, Config
<1>3. [l \in Leaves |-> IF l \in S THEN Absent ELSE r["candidate"][l]] \in Config
  BY <1>2, ConstantsAssumption DEF Config
<1>4. q.root \in Roots /\ \A c \in Cfgs \ {"candidate"} : q.root[c] = r[c]
  BY <1>1, <1>3, Datastores_exist DEF Roots
<1>5. q.edited \in Marks
  BY <1>1 DEF Marks
<1> QED
  BY <1>4, <1>5

LEMMA SavedType ==
    ASSUME NEW r \in Roots, NEW e \in Marks, NEW c \in {"candidate", "running"}
    PROVE  /\ SavedRoot(r, c) \in Roots
           /\ SavedRoot(r, c)["candidate"] = r["candidate"]
           /\ SavedRoot(r, c)["running"] = r["running"]
           /\ SavedMarks(e, c) \in Marks
           /\ SavedMarks(e, c)["candidate"] = e["candidate"]
BY Datastores_exist DEF SavedRoot, SavedMarks, Roots, Marks

LEMMA RecoverType ==
    ASSUME NEW r \in Roots, NEW f \in Config \cup {NoFile}, NEW e \in Marks,
           NEW b \in Config \cup {NoFile}, NEW sid, load_errQ \in BOOLEAN,
           Recover(r, f, e, b, sid)
    PROVE  /\ root' \in Roots /\ edited' \in Marks
           /\ nv' \in Config \cup {NoFile} /\ load_errQ' \in BOOLEAN
<1>1. PICK o \in LoadBackup(r, b, sid) :
           /\ root' = [r EXCEPT !["running"] = o.running]
           /\ nv' = f /\ edited' = e /\ load_errQ' = (load_errQ \/ o.err)
  BY DEF Recover
<1>2. o.running \in Config /\ o.err \in BOOLEAN
  BY LoadBackupType
<1> QED
  BY <1>1, <1>2, Datastores_exist DEF Roots

(* Whatever comes of a commit, it leaves configurations behind.            *)
LEMMA CommitType ==
    ASSUME NEW r \in Roots, NEW f \in Config \cup {NoFile}, NEW e \in Marks,
           NEW writeBackup, NEW saveNv, NEW sid,
           backup \in Config \cup {NoFile}, load_errQ \in BOOLEAN,
           agt_ncx_internal_commit(r, f, e, writeBackup, saveNv, sid)
    PROVE  /\ root' \in Roots /\ edited' \in Marks
           /\ nv' \in Config \cup {NoFile} /\ load_errQ' \in BOOLEAN
           /\ backup' \in Config \cup {NoFile}
<1> DEFINE b == IF writeBackup THEN r["running"] ELSE backup
           unmarked == [e EXCEPT !["candidate"] = {}]
           New == /\ root' \in Roots /\ edited' \in Marks
                  /\ nv' \in Config \cup {NoFile} /\ load_errQ' \in BOOLEAN
<1>1. b \in Config \cup {NoFile}
  BY DEF Roots
<1>2. Merged(r, e) \in Roots /\ unmarked \in Marks
  BY MergedType
<1>3. CASE root' = r /\ nv' = f /\ edited' = e /\ UNCHANGED <<backup, load_errQ>>
  BY <1>3
<1>4. CASE backup' = b /\ dirty /\ ApplyEdits(r, f, e, b, saveNv, sid)
  <2>1. ASSUME NEW q \in Refused(r, e),
               Recover(q.root, f, q.edited, b, sid)
        PROVE  New
    <3>1. q.root \in Roots /\ q.edited \in Marks
      BY RefusedType
    <3> DEFINE r2 == q.root
               e2 == q.edited
    <3>2. r2 \in Roots /\ e2 \in Marks /\ Recover(r2, f, e2, b, sid)
      BY <2>1, <3>1
    <3> HIDE DEF b, r2, e2
    <3> QED
      BY <1>1, <3>2, RecoverType
  <2>2. CASE Recover(Merged(r, e), f, unmarked, b, sid)
    BY <2>2, <1>1, <1>2, <1>4, RecoverType
  <2>3. ASSUME NEW q \in Refused(r, e), root' = q.root, edited' = q.edited,
               nv' = f, UNCHANGED load_errQ
        PROVE  New
    BY <2>3, <1>1, <1>4, RefusedType
  <2>4. CASE /\ root' = Merged(r, e) /\ edited' = unmarked
             /\ nv' = IF ~HasStartup /\ saveNv THEN Merged(r, e)["running"]
                                               ELSE f
             /\ UNCHANGED load_errQ
    BY <2>4, <1>1, <1>2, <1>4 DEF Roots
  <2>5. New
    BY <1>4, <2>1, <2>2, <2>3, <2>4 DEF ApplyEdits
  <2> QED
    BY <1>1, <1>4, <2>5
<1>5. CASE backup' = b /\ SkipEdits(r, f, e, b, sid)
  <2>1. CASE Recover(r, f, e, b, sid)
    <3>1. New
      BY <2>1, <1>1, RecoverType
    <3> QED
      BY <3>1, <1>1, <1>5
  <2>2. CASE root' = r /\ edited' = e /\ nv' \in {r["running"], f}
             /\ UNCHANGED load_errQ
    BY <2>2, <1>1, <1>5 DEF Roots
  <2> QED
    BY <1>5, <2>1, <2>2 DEF SkipEdits
<1> QED
  BY <1>3, <1>4, <1>5 DEF agt_ncx_internal_commit

-----------------------------------------------------------------------------
(* Type correctness                                                        *)

(* TypeOK in the sets above                                                *)
LEMMA TypeOK_Sets ==
    TypeOK <=>
        /\ live \subseteq Sessions
        /\ cfg_state \in [Cfgs -> {"ready", "plock", "flock"}]
        /\ locked_by \in [Cfgs -> Sessions \cup {NoSession}]
        /\ plocks \in [Sessions -> 0 .. MaxPlocks]
        /\ root \in Roots
        /\ dirty \in BOOLEAN
        /\ edited \in Marks
        /\ load_errQ \in BOOLEAN
        /\ nv \in Config \cup {NoFile}
        /\ backup \in Config \cup {NoFile}
        /\ backups \in [BackupNames -> Config \cup {NoFile}]
        /\ cc \in CommitCb
BY DEF TypeOK, Roots, Marks

LEMMA CcType ==
    /\ NoCommit \in CommitCb
    /\ \A c \in CommitCb : /\ [c EXCEPT !.expired = TRUE] \in CommitCb
                           /\ [c EXCEPT !.ses_id = NoSession] \in CommitCb
    /\ \A s \in Sessions, p \in Pids :
           /\ [active |-> TRUE, ses_id |-> s, persist |-> p,
               expired |-> FALSE] \in CommitCb
           /\ \A c \in CommitCb :
                  [c EXCEPT !.ses_id = s, !.expired = FALSE,
                     !.persist = IF p # NoPersist THEN p ELSE @] \in CommitCb
BY DEF NoCommit, CommitCb, Pids

LEMMA CopyType ==
    ASSUME NEW r \in Roots, NEW new \in Config, NEW c \in {"candidate", "running"}
    PROVE  [r EXCEPT ![c] = new] \in Roots
BY Datastores_exist DEF Roots

(* A request that takes or gives back a lock                               *)
LEMMA LockRpcType ==
    ASSUME TypeOK, NEW s \in Sessions, LockRpc(s)
    PROVE  TypeOK'
<1>1. ASSUME NEW c \in Cfgs, Lock(s, c) PROVE TypeOK'
  BY <1>1 DEF Lock, TypeOK
<1>2. ASSUME NEW c \in Cfgs, Unlock(s, c) PROVE TypeOK'
  <2>1. root' \in Roots /\ dirty' \in BOOLEAN /\ edited' \in Marks
    BY <1>2, TypeOK_Sets, Datastores_exist
       DEF Unlock, cfg_fill_candidate_from_running, Filled, NoEdits, Roots, Marks
  <2>2. /\ cfg_state' \in [Cfgs -> {"ready", "plock", "flock"}]
        /\ locked_by' \in [Cfgs -> Sessions \cup {NoSession}]
    BY <1>2 DEF Unlock, TypeOK
  <2> QED
    BY <1>2, <2>1, <2>2 DEF Unlock, TypeOK, Roots, Marks
<1>3. ASSUME PartialLock(s) PROVE TypeOK'
  <2>1. plocks[s] + 1 \in 0 .. MaxPlocks
    BY <1>3, ConstantsAssumption DEF PartialLock, TypeOK
  <2> QED
    BY <1>3, <2>1, Datastores_exist DEF PartialLock, TypeOK
<1>4. ASSUME PartialUnlock(s) PROVE TypeOK'
  <2>1. plocks[s] - 1 \in 0 .. MaxPlocks
    BY <1>4, ConstantsAssumption DEF PartialUnlock, TypeOK
  <2> QED
    BY <1>4, <2>1, Datastores_exist DEF PartialUnlock, TypeOK
<1> QED
  BY <1>1, <1>2, <1>3, <1>4 DEF LockRpc

(* A commit that is refused leaves <running> and everything else alone.    *)
LEMMA RefusedKeeps ==
    ASSUME TypeOK, NEW s, NEW pid, CommitRefused(s, pid)
    PROVE  /\ root' \in Roots /\ edited' \in Marks
           /\ root'["running"] = root["running"]
           /\ UNCHANGED <<live, locks, dirty, load_errQ, nv, backup, backups, cc>>
<1>1. root \in Roots /\ edited \in Marks
  BY TypeOK_Sets
<1>2. PICK q \in Refused(root, edited) : root' = q.root /\ edited' = q.edited
  BY DEF CommitRefused
<1> QED
  BY <1>1, <1>2, RefusedType, Datastores_exist DEF CommitRefused

(* A request that writes <candidate>, <startup> or a file                  *)
LEMMA EditType ==
    ASSUME TypeOK, NEW s \in Sessions,
           \/ \E l \in Leaves, v \in Vals : EditConfig(s, l, v)
           \/ \E new \in Config : CopyInlineToCandidate(s, new)
           \/ DiscardChanges(s)
           \/ CopyStartupToCandidate(s)
           \/ \E c \in {"candidate", "running"} : CopyToStartup(s, c)
           \/ \E new \in Config : CopyInlineToStartup(s, new)
           \/ DeleteStartup(s)
           \/ BackupRpc(s)
    PROVE  TypeOK'
<1>1. ASSUME NEW new \in Config, WriteCandidate(new)
      PROVE  root' \in Roots /\ dirty' \in BOOLEAN /\ edited' \in Marks
  BY <1>1, TypeOK_Sets, CopyType DEF WriteCandidate, Differing, Marks
<1>2. ASSUME NEW l \in Leaves, NEW v \in Vals, EditConfig(s, l, v)
      PROVE  TypeOK'
  <2>1. [root["candidate"] EXCEPT ![l] = v] \in Config
    BY DEF TypeOK, Config
  <2> QED
    BY <1>1, <1>2, <2>1 DEF EditConfig, locks, TypeOK, Roots, Marks
<1>3. ASSUME NEW new \in Config, CopyInlineToCandidate(s, new) PROVE TypeOK'
  BY <1>1, <1>3 DEF CopyInlineToCandidate, locks, TypeOK, Roots, Marks
<1>4. ASSUME DiscardChanges(s) PROVE TypeOK'
  BY <1>4, Datastores_exist
     DEF DiscardChanges, cfg_fill_candidate_from_running, Filled, NoEdits,
         locks, TypeOK
<1>5. ASSUME CopyStartupToCandidate(s) PROVE TypeOK'
  BY <1>5, Datastores_exist DEF CopyStartupToCandidate, locks, TypeOK
<1>6. ASSUME NEW c \in {"candidate", "running"}, CopyToStartup(s, c)
      PROVE  TypeOK'
  <2>1. root' \in Roots /\ edited' \in Marks /\ nv' \in Config
    BY <1>6, TypeOK_Sets, SavedType DEF CopyToStartup, Roots
  <2> QED
    BY <1>6, <2>1 DEF CopyToStartup, locks, TypeOK, Roots, Marks
<1>7. ASSUME NEW new \in Config, CopyInlineToStartup(s, new) PROVE TypeOK'
  BY <1>7 DEF CopyInlineToStartup, locks, TypeOK
<1>8. ASSUME DeleteStartup(s) PROVE TypeOK'
  BY <1>8, Datastores_exist DEF DeleteStartup, locks, TypeOK
<1>9. ASSUME BackupRpc(s) PROVE TypeOK'
  <2>1. backups' \in [BackupNames -> Config \cup {NoFile}]
    BY <1>9 DEF BackupRpc, Backup, DeleteBackup, TypeOK
  <2> QED
    BY <1>9, <2>1 DEF BackupRpc, Backup, DeleteBackup, locks, TypeOK
<1> QED
  BY <1>2, <1>3, <1>4, <1>5, <1>6, <1>7, <1>8, <1>9

(* A request that commits, and a restore                                   *)
LEMMA CommitRpcType ==
    ASSUME TypeOK, NEW s \in Sessions,
           \/ Commit(s)
           \/ \E p \in Pids : StartConfirmed(s, p)
           \/ \E p, pid \in Pids : ExtendConfirmed(s, p, pid)
           \/ \E pid \in Pids : FinishConfirmed(s, pid)
           \/ \E pid \in Pids : CommitRefused(s, pid)
           \/ \E f \in BackupNames : Restore(s, f)
    PROVE  TypeOK'
<1> DEFINE Written == /\ root' \in Roots /\ edited' \in Marks
                      /\ nv' \in Config \cup {NoFile} /\ load_errQ' \in BOOLEAN
                      /\ backup' \in Config \cup {NoFile}
<1>1. /\ root \in Roots /\ edited \in Marks /\ nv \in Config \cup {NoFile}
      /\ backup \in Config \cup {NoFile} /\ load_errQ \in BOOLEAN
      /\ cc \in CommitCb
  BY TypeOK_Sets
<1>2. ASSUME NEW wb, NEW save, NEW sid,
             agt_ncx_internal_commit(root, nv, edited, wb, save, sid)
      PROVE  Written
  BY <1>1, <1>2, CommitType
<1>3. ASSUME Written, cc' \in CommitCb, UNCHANGED <<live, locks, dirty, backups>>
      PROVE  TypeOK'
  BY <1>3 DEF locks, TypeOK, Roots, Marks
<1>4. ASSUME Commit(s) PROVE TypeOK'
  <2>1. Written
    BY <1>2, <1>4 DEF Commit
  <2> QED
    BY <1>1, <1>3, <1>4, <2>1 DEF Commit
<1>5. ASSUME NEW p \in Pids, StartConfirmed(s, p) PROVE TypeOK'
  <2>1. Written
    BY <1>2, <1>5 DEF StartConfirmed
  <2> QED
    BY <1>3, <1>5, <2>1, CcType DEF StartConfirmed
<1>6. ASSUME NEW p \in Pids, NEW pid \in Pids, ExtendConfirmed(s, p, pid)
      PROVE  TypeOK'
  <2>1. Written
    BY <1>2, <1>6 DEF ExtendConfirmed
  <2>2. cc' \in CommitCb
    BY <1>1, <1>6, CcType DEF ExtendConfirmed
  <2> QED
    BY <1>3, <1>6, <2>1, <2>2 DEF ExtendConfirmed
<1>7. ASSUME NEW pid \in Pids, FinishConfirmed(s, pid) PROVE TypeOK'
  <2>1. /\ SavedRoot(root, "running") \in Roots
        /\ SavedMarks(edited, "running") \in Marks
    BY <1>1, SavedType
  <2>2. root["running"] \in Config \cup {NoFile}
    BY <1>1 DEF Roots
  <2>3. Written
    BY <1>1, <1>7, <2>1, <2>2, CommitType DEF FinishConfirmed
  <2> QED
    BY <1>3, <1>7, <2>3, CcType DEF FinishConfirmed
<1>8. ASSUME NEW f \in BackupNames, Restore(s, f) PROVE TypeOK'
  <2>1. PICK o \in LoadBackup(root, backups[f], s) :
             /\ root' = [root EXCEPT !["running"] = o.running]
             /\ load_errQ' = (load_errQ \/ o.err)
    BY <1>8 DEF Restore
  <2>2. backups[f] \in Config \cup {NoFile}
    BY TypeOK_Sets
  <2>3. o.running \in Config /\ o.err \in BOOLEAN
    BY <1>1, <2>2, LoadBackupType
  <2>4. Written
    BY <1>1, <1>8, <2>1, <2>3, CopyType DEF Restore
  <2> QED
    BY <1>1, <1>3, <1>8, <2>4 DEF Restore
<1>9. ASSUME NEW pid \in Pids, CommitRefused(s, pid) PROVE TypeOK'
  BY <1>1, <1>3, <1>9, RefusedKeeps
<1> QED
  BY <1>4, <1>5, <1>6, <1>7, <1>8, <1>9

(* The steps that take a confirmed commit back                             *)
LEMMA CancelType ==
    ASSUME TypeOK, CancelConfirmedCommit
    PROVE  TypeOK'
<1>1. PICK o \in LoadBackup(root, backup, NoSession) :
           /\ root' = IF o.ok THEN [root EXCEPT !["running"] = o.running,
                                                !["candidate"] = o.running]
                              ELSE root
           /\ dirty' = (dirty /\ ~o.ok)
           /\ edited' = IF o.ok THEN NoEdits ELSE edited
           /\ load_errQ' = (load_errQ \/ o.err)
  BY DEF CancelConfirmedCommit, Restored
<1>2. o.running \in Config /\ o.err \in BOOLEAN /\ o.ok \in BOOLEAN
  BY TypeOK_Sets, LoadBackupType
<1>3. root' \in Roots /\ dirty' \in BOOLEAN /\ edited' \in Marks
      /\ load_errQ' \in BOOLEAN
  BY <1>1, <1>2, TypeOK_Sets, Datastores_exist DEF NoEdits, Roots, Marks
<1> QED
  BY <1>3, CcType DEF CancelConfirmedCommit, locks, TypeOK, Roots, Marks

LEMMA SessionEndsType ==
    ASSUME TypeOK, NEW s \in Sessions, SessionEnds(s)
    PROVE  TypeOK'
<1> DEFINE nothing == [running |-> root["running"], ok |-> FALSE, err |-> FALSE]
           refill(o) == o.ok \/ (locked_by["candidate"] = s /\ dirty)
<1>1. PICK o \in IF Cancels(s) THEN Restored ELSE {nothing} :
           /\ root' = [root EXCEPT
                  !["running"] = o.running,
                  !["candidate"] = IF refill(o) THEN o.running ELSE @]
           /\ dirty' = (dirty /\ ~refill(o))
           /\ edited' = IF refill(o) THEN NoEdits ELSE edited
           /\ load_errQ' = (load_errQ \/ o.err)
  BY DEF SessionEnds
<1>2. o.running \in Config /\ o.ok \in BOOLEAN /\ o.err \in BOOLEAN
  <2>1. CASE o = nothing
    BY <2>1 DEF TypeOK
  <2>2. CASE o \in Restored
    BY <2>2, TypeOK_Sets, LoadBackupType DEF Restored
  <2> QED
    BY <1>1, <2>1, <2>2
<1>3. root' \in Roots /\ dirty' \in BOOLEAN /\ edited' \in Marks
      /\ load_errQ' \in BOOLEAN
  <2>1. refill(o) \in BOOLEAN
    BY <1>2 DEF TypeOK
  <2> HIDE DEF refill
  <2> QED
    BY <1>1, <1>2, <2>1, TypeOK_Sets, Datastores_exist DEF NoEdits, Roots, Marks
<1>4. /\ cfg_state' \in [Cfgs -> {"ready", "plock", "flock"}]
      /\ locked_by' \in [Cfgs -> Sessions \cup {NoSession}]
      /\ plocks' \in [Sessions -> 0 .. MaxPlocks]
  BY ConstantsAssumption DEF SessionEnds, cfg_release_locks, TypeOK
<1>5. cc' \in CommitCb
  BY TypeOK_Sets, CcType DEF SessionEnds, CommitWithout
<1> QED
  BY <1>3, <1>4, <1>5 DEF SessionEnds, TypeOK, Roots, Marks

LEMMA SessionDroppedType ==
    ASSUME TypeOK, NEW s \in Sessions, SessionDropped(s)
    PROVE  TypeOK'
<1>1. root' \in Roots /\ dirty' \in BOOLEAN /\ edited' \in Marks
  BY TypeOK_Sets, Datastores_exist
     DEF SessionDropped, cfg_fill_candidate_from_running, Filled, NoEdits, Roots,
         Marks
<1>2. /\ cfg_state' \in [Cfgs -> {"ready", "plock", "flock"}]
      /\ locked_by' \in [Cfgs -> Sessions \cup {NoSession}]
      /\ plocks' \in [Sessions -> 0 .. MaxPlocks]
  BY ConstantsAssumption DEF SessionDropped, cfg_release_locks, TypeOK
<1> QED
  BY <1>1, <1>2 DEF SessionDropped, TypeOK, Roots, Marks

(* What a boot sets, the files apart                                       *)
LEMMA BootedType ==
    /\ [c \in Cfgs |-> "ready"] \in [Cfgs -> {"ready", "plock", "flock"}]
    /\ [c \in Cfgs |-> NoSession] \in [Cfgs -> Sessions \cup {NoSession}]
    /\ [s \in Sessions |-> 0] \in [Sessions -> 0 .. MaxPlocks]
    /\ [c \in {"candidate", "startup"} |-> {}] \in Marks
    /\ [f \in BackupNames |-> NoFile] \in [BackupNames -> Config \cup {NoFile}]
BY ConstantsAssumption DEF Marks

LEMMA InitType == Init => TypeOK
<1> SUFFICES ASSUME Init PROVE TypeOK
  OBVIOUS
<1>1. root \in Roots
  BY BootType DEF Init
<1> QED
  BY <1>1, BootedType, CcType, TypeOK_Sets DEF Init

LEMMA RebootType ==
    ASSUME TypeOK, Reboot
    PROVE  TypeOK'
<1>1. root' \in Roots
  BY BootType DEF Reboot, TypeOK
<1> QED
  BY <1>1, BootedType, CcType DEF Reboot, TypeOK, Roots, Marks

LEMMA NextType ==
    ASSUME TypeOK, [Next]_vars
    PROVE  TypeOK'
<1>1. ASSUME NEW s \in Sessions, NewSession(s) PROVE TypeOK'
  BY <1>1 DEF NewSession, locks, TypeOK
<1>2. ASSUME NEW s \in Sessions, LockRpc(s) PROVE TypeOK'
  BY <1>2, LockRpcType
<1>3. ASSUME NEW s \in Sessions, WriteRpc(s) \/ BackupRpc(s) PROVE TypeOK'
  BY <1>3, EditType, CommitRpcType DEF WriteRpc, Pids
<1>4. ASSUME NEW s \in Sessions, NEW pid, CancelCommit(s, pid) PROVE TypeOK'
  BY <1>4, CancelType DEF CancelCommit
<1>5. ASSUME NEW s \in Sessions, SessionEnds(s) \/ SessionDropped(s)
      PROVE  TypeOK'
  BY <1>5, SessionEndsType, SessionDroppedType
<1>6. ASSUME CcTimerElapses PROVE TypeOK'
  BY <1>6, CcType DEF CcTimerElapses, locks, TypeOK
<1>7. ASSUME CcTimeout PROVE TypeOK'
  BY <1>7, CancelType DEF CcTimeout
<1>8. ASSUME Reboot PROVE TypeOK'
  BY <1>8, RebootType
<1>9. ASSUME UNCHANGED vars PROVE TypeOK'
  BY <1>9 DEF vars, TypeOK
<1> QED
  BY <1>1, <1>2, <1>3, <1>4, <1>5, <1>6, <1>7, <1>8, <1>9 DEF Next

(* Every variable keeps its type: a datastore always holds a configuration *)
(* (<startup> may also be deleted), whichever calls fail.                  *)
THEOREM TypeCorrect == Spec => []TypeOK
BY InitType, NextType, PTL DEF Spec

-----------------------------------------------------------------------------
(* Locks and the owner of a confirmed commit                               *)

(* None of the three is inductive alone: that the owner of a pending commit *)
(* lives when it ends is what keeps its locks, and that a lock has a live  *)
(* owner is what makes a check of the state a check of the owner.          *)
OwnerLives == "badmsg" \notin Faults => CcOwnerLives

OwnerInv == LockOwners /\ CcOwnerHoldsLocks /\ OwnerLives

(* A request that may write a datastore finds it unlocked or locked by its *)
(* own session.                                                            *)
LEMMA WriterOwns ==
    ASSUME LockOwners, NEW c \in Cfgs, NEW s, cfg_ok_to_write(c, s)
    PROVE  locked_by[c] \in {NoSession, s}
BY DEF LockOwners, cfg_ok_to_write

LEMMA CommitterOwns ==
    ASSUME LockOwners, NEW s, NEW pid, commit_validate(s, pid)
    PROVE  \A c \in {"candidate", "running"} : locked_by[c] \in {NoSession, s}
BY WriterOwns, Datastores_exist DEF commit_validate

(* Steps that touch neither the sessions nor the locks                     *)
LEMMA UnlockedStep ==
    ASSUME LockOwners, UNCHANGED <<live, locks>>
    PROVE  LockOwners'
BY DEF LockOwners, locks

LEMMA QuietStep ==
    ASSUME OwnerInv, UNCHANGED <<live, locks, cc>>
    PROVE  OwnerInv'
BY DEF OwnerInv, LockOwners, CcOwnerHoldsLocks, OwnerLives, CcOwnerLives, locks

(* A confirmed commit that is over                                         *)
LEMMA NoCommitOwner ==
    ASSUME LockOwners', cc' = NoCommit
    PROVE  OwnerInv'
BY DEF OwnerInv, CcOwnerHoldsLocks, OwnerLives, CcOwnerLives, NoCommit

LEMMA InitOwner == Init => OwnerInv
BY ConstantsAssumption
   DEF Init, OwnerInv, LockOwners, CcOwnerHoldsLocks, OwnerLives, CcOwnerLives, NoCommit

LEMMA LockRpcOwner ==
    ASSUME TypeOK, OwnerInv, NEW s \in Sessions, LockRpc(s)
    PROVE  OwnerInv'
<1>1. s # NoSession
  BY ConstantsAssumption
<1>2. ASSUME NEW c \in Cfgs, Lock(s, c) PROVE OwnerInv'
  <2>1. /\ s \in live /\ cfg_state[c] = "ready"
        /\ cfg_state' = [cfg_state EXCEPT ![c] = "flock"]
        /\ locked_by' = [locked_by EXCEPT ![c] = s]
        /\ UNCHANGED <<live, plocks, cc>>
        /\ c \in {"candidate", "running"} => ~cc.active
    BY <1>2 DEF Lock, cfg_ok_to_lock
  <2>2. LockOwners'
    BY <1>1, <2>1 DEF OwnerInv, LockOwners, TypeOK
  <2>3. CcOwnerHoldsLocks'
    BY <2>1, Datastores_exist DEF OwnerInv, CcOwnerHoldsLocks, TypeOK
  <2> QED
    BY <2>1, <2>2, <2>3 DEF OwnerInv, OwnerLives, CcOwnerLives
<1>3. ASSUME NEW c \in Cfgs, Unlock(s, c) PROVE OwnerInv'
  <2>1. /\ cfg_state[c] = "flock"
        /\ cfg_state' = [cfg_state EXCEPT ![c] = "ready"]
        /\ locked_by' = [locked_by EXCEPT ![c] = NoSession]
        /\ UNCHANGED <<live, plocks, cc>>
    BY <1>3 DEF Unlock, cfg_ok_to_unlock
  <2>2. LockOwners'
    BY <2>1 DEF OwnerInv, LockOwners, TypeOK
  <2>3. CcOwnerHoldsLocks'
    BY <2>1, Datastores_exist DEF OwnerInv, CcOwnerHoldsLocks, TypeOK
  <2> QED
    BY <2>1, <2>2, <2>3 DEF OwnerInv, OwnerLives, CcOwnerLives
<1>4. ASSUME PartialLock(s) PROVE OwnerInv'
  <2>1. /\ s \in live /\ cfg_state["running"] \in {"ready", "plock"}
        /\ cfg_state' = [cfg_state EXCEPT !["running"] = "plock"]
        /\ plocks' = [plocks EXCEPT ![s] = @ + 1]
        /\ UNCHANGED <<live, locked_by, cc>>
    BY <1>4 DEF PartialLock, cfg_ok_to_partial_lock
  <2>2. LockOwners'
    BY <2>1, Datastores_exist DEF OwnerInv, LockOwners, TypeOK
  <2> QED
    BY <2>1, <2>2 DEF OwnerInv, CcOwnerHoldsLocks, OwnerLives, CcOwnerLives
<1>5. ASSUME PartialUnlock(s) PROVE OwnerInv'
  <2>1. /\ s \in live /\ cfg_state["running"] = "plock"
    BY <1>5 DEF PartialUnlock, OwnerInv, LockOwners
  <2>2. /\ plocks' = [plocks EXCEPT ![s] = @ - 1]
        /\ cfg_state' = [cfg_state EXCEPT !["running"] =
               IF \A t \in Sessions : plocks'[t] = 0 THEN "ready" ELSE "plock"]
        /\ UNCHANGED <<live, locked_by, cc>>
    BY <1>5 DEF PartialUnlock
  <2>3. \A t \in Sessions : plocks'[t] > 0 => t \in live
    BY <2>1, <2>2 DEF OwnerInv, LockOwners, TypeOK
  <2>4. \A t \in Sessions : plocks'[t] \in Nat
    BY <1>5, <2>2 DEF PartialUnlock, TypeOK
  <2>5. LockOwners'
    BY <2>1, <2>2, <2>3, <2>4, Datastores_exist DEF OwnerInv, LockOwners, TypeOK
  <2> QED
    BY <2>2, <2>5 DEF OwnerInv, CcOwnerHoldsLocks, OwnerLives, CcOwnerLives
<1> QED
  BY <1>2, <1>3, <1>4, <1>5 DEF LockRpc

(* Only a session that may write both datastores becomes the owner of a    *)
(* confirmed commit.                                                       *)
LEMMA WriteRpcOwner ==
    ASSUME TypeOK, OwnerInv, NEW s \in Sessions, WriteRpc(s)
    PROVE  OwnerInv'
<1>1. UNCHANGED <<live, locks>>
  BY DEF WriteRpc, EditConfig, CopyInlineToCandidate, DiscardChanges,
         CopyStartupToCandidate, CopyToStartup, CopyInlineToStartup,
         DeleteStartup, Commit, CommitRefused, StartConfirmed,
         ExtendConfirmed, FinishConfirmed, Restore
<1>2. LockOwners'
  BY <1>1, UnlockedStep DEF OwnerInv
<1>3. CASE UNCHANGED cc
  BY <1>1, <1>3, QuietStep
<1>4. CASE cc' = NoCommit
  BY <1>2, <1>4, NoCommitOwner
<1>5. ASSUME NEW pid, commit_validate(s, pid), cc'.ses_id = s, cc'.active
      PROVE  OwnerInv'
  <2>1. s \in live /\ \A c \in {"candidate", "running"} :
                          locked_by[c] \in {NoSession, s}
    BY <1>5, CommitterOwns DEF OwnerInv, commit_validate
  <2>2. CcOwnerHoldsLocks' /\ OwnerLives'
    BY <1>1, <1>5, <2>1 DEF CcOwnerHoldsLocks, OwnerLives, CcOwnerLives, locks
  <2> QED
    BY <1>2, <2>2 DEF OwnerInv
<1>6. ASSUME NEW p \in Pids, StartConfirmed(s, p) PROVE OwnerInv'
  BY <1>5, <1>6 DEF StartConfirmed
<1>7. ASSUME NEW p \in Pids, NEW pid \in Pids, ExtendConfirmed(s, p, pid)
      PROVE  OwnerInv'
  <2>1. cc'.ses_id = s /\ cc'.active
    BY <1>7 DEF ExtendConfirmed, TypeOK, CommitCb
  <2> QED
    BY <1>5, <1>7, <2>1 DEF ExtendConfirmed
<1> QED
  BY <1>3, <1>4, <1>6, <1>7
  DEF WriteRpc, EditConfig, CopyInlineToCandidate, DiscardChanges,
      CopyStartupToCandidate, CopyToStartup, CopyInlineToStartup,
      DeleteStartup, Commit, CommitRefused, FinishConfirmed, Restore, Pids

LEMMA SessionEndsOwner ==
    ASSUME TypeOK, OwnerInv, NEW s \in Sessions, SessionEnds(s)
    PROVE  OwnerInv'
<1>1. /\ live' = live \ {s}
      /\ cc' = CommitWithout(s)
      /\ cfg_release_locks(s)
      /\ s # NoSession
  BY ConstantsAssumption DEF SessionEnds
<1>2. LockOwners'
  BY <1>1, ConstantsAssumption, Datastores_exist
     DEF cfg_release_locks, OwnerInv, LockOwners, TypeOK
<1>3. \A c \in Cfgs : locked_by'[c] \in {NoSession, locked_by[c]} /\ locked_by'[c] # s
  BY <1>1 DEF cfg_release_locks
<1>4. CASE cc' = NoCommit
  BY <1>2, <1>4, NoCommitOwner
<1>5. CASE cc' = cc /\ ~(cc.active /\ cc.ses_id = s)
  <2>1. CcOwnerHoldsLocks'
    BY <1>3, <1>5, Datastores_exist DEF OwnerInv, CcOwnerHoldsLocks
  <2>2. OwnerLives'
    BY <1>1, <1>5 DEF OwnerInv, OwnerLives, CcOwnerLives
  <2> QED
    BY <1>2, <2>1, <2>2 DEF OwnerInv
<1>6. CASE /\ cc' = [cc EXCEPT !.ses_id = NoSession]
           /\ cc.active /\ cc.ses_id = s /\ cc.persist # NoPersist
  <2>1. cc'.ses_id = NoSession /\ cc'.persist # NoPersist
    BY <1>6 DEF TypeOK, CommitCb
  <2>2. \A c \in {"candidate", "running"} : locked_by'[c] = NoSession
    BY <1>3, <1>6, Datastores_exist DEF OwnerInv, CcOwnerHoldsLocks
  <2> QED
    BY <1>2, <2>1, <2>2 DEF OwnerInv, CcOwnerHoldsLocks, OwnerLives, CcOwnerLives
<1> QED
  BY <1>1, <1>4, <1>5, <1>6 DEF CommitWithout, Cancels

(* A commit that outlives its owner keeps everybody off the locks the      *)
(* owner had, since a lock is refused while a commit is pending.           *)
LEMMA SessionDroppedOwner ==
    ASSUME TypeOK, OwnerInv, NEW s \in Sessions, SessionDropped(s)
    PROVE  OwnerInv'
<1>1. /\ live' = live \ {s}
      /\ cc' = cc
      /\ cfg_release_locks(s)
      /\ "badmsg" \in Faults
      /\ s # NoSession
  BY ConstantsAssumption DEF SessionDropped
<1>2. LockOwners'
  BY <1>1, ConstantsAssumption, Datastores_exist
     DEF cfg_release_locks, OwnerInv, LockOwners, TypeOK
<1>3. \A c \in Cfgs : locked_by'[c] \in {NoSession, locked_by[c]}
  BY <1>1 DEF cfg_release_locks
<1>4. CcOwnerHoldsLocks'
  BY <1>1, <1>3, Datastores_exist DEF OwnerInv, CcOwnerHoldsLocks
<1> QED
  BY <1>1, <1>2, <1>4 DEF OwnerInv, OwnerLives

LEMMA NextOwner ==
    ASSUME TypeOK, OwnerInv, [Next]_vars
    PROVE  OwnerInv'
<1>1. ASSUME NEW s \in Sessions, NewSession(s) PROVE OwnerInv'
  BY <1>1 DEF NewSession, locks, OwnerInv, LockOwners, CcOwnerHoldsLocks,
              OwnerLives, CcOwnerLives
<1>2. ASSUME NEW s \in Sessions, LockRpc(s) PROVE OwnerInv'
  BY <1>2, LockRpcOwner
<1>3. ASSUME NEW s \in Sessions, WriteRpc(s) PROVE OwnerInv'
  BY <1>3, WriteRpcOwner
<1>4. ASSUME NEW s \in Sessions, BackupRpc(s) PROVE OwnerInv'
  BY <1>4, QuietStep DEF BackupRpc, Backup, DeleteBackup
<1>5. ASSUME CancelConfirmedCommit PROVE OwnerInv'
  BY <1>5, UnlockedStep, NoCommitOwner DEF CancelConfirmedCommit, OwnerInv
<1>6. ASSUME NEW s \in Sessions, SessionEnds(s) \/ SessionDropped(s)
      PROVE  OwnerInv'
  BY <1>6, SessionEndsOwner, SessionDroppedOwner
<1>7. ASSUME CcTimerElapses PROVE OwnerInv'
  BY <1>7 DEF CcTimerElapses, locks, OwnerInv, LockOwners, CcOwnerHoldsLocks,
              OwnerLives, CcOwnerLives, TypeOK, CommitCb
<1>8. ASSUME Reboot PROVE OwnerInv'
  BY <1>8, ConstantsAssumption
     DEF Reboot, OwnerInv, LockOwners, CcOwnerHoldsLocks, OwnerLives, CcOwnerLives, NoCommit
<1>9. ASSUME UNCHANGED vars PROVE OwnerInv'
  BY <1>9, QuietStep DEF vars, locks
<1> QED
  BY <1>1, <1>2, <1>3, <1>4, <1>5, <1>6, <1>7, <1>8, <1>9
     DEF Next, CancelCommit, CcTimeout

LEMMA OwnerCorrect == Spec => [](TypeOK /\ OwnerInv)
BY InitType, InitOwner, NextType, NextOwner, PTL DEF Spec

(* No lock, global or partial, outlives the session that holds it.         *)
THEOREM LocksHaveOwners == Spec => []LockOwners
BY OwnerCorrect, PTL DEF OwnerInv

(* Nobody locks <candidate> or <running> against a pending confirmed       *)
(* commit.                                                                 *)
THEOREM CommitOwnerHoldsLocks == Spec => []CcOwnerHoldsLocks
BY OwnerCorrect, PTL DEF OwnerInv

(* The owner of a pending confirmed commit is alive, or it is persistent.  *)
THEOREM CommitOwnerLives ==
    ASSUME "badmsg" \notin Faults
    PROVE  Spec => []CcOwnerLives
<1>1. OwnerInv => CcOwnerLives
  BY DEF OwnerInv, OwnerLives
<1> QED
  BY <1>1, OwnerCorrect, PTL

-----------------------------------------------------------------------------
(* Locks protect what they lock                                            *)

LEMMA WriteRpcProtects ==
    ASSUME TypeOK, OwnerInv, NEW s \in Sessions, WriteRpc(s),
           NEW c \in {"candidate", "running"}, LockedAgainst(c, s)
    PROVE  root'[c] = root[c]
<1>1. ~cfg_ok_to_write(c, s)
  BY WriterOwns, Datastores_exist DEF OwnerInv, LockedAgainst
<1>2. \A pid : ~commit_validate(s, pid)
  BY CommitterOwns DEF OwnerInv, LockedAgainst
<1>3. \A d, v : d # c => [root EXCEPT ![d] = v][c] = root[c]
  BY Datastores_exist DEF TypeOK
<1>4. ~(Commit(s) \/ (\E pid \in Pids : CommitRefused(s, pid))
        \/ (\E p \in Pids : StartConfirmed(s, p))
        \/ (\E p, pid \in Pids : ExtendConfirmed(s, p, pid))
        \/ (\E pid \in Pids : FinishConfirmed(s, pid)))
  BY <1>2 DEF Commit, CommitRefused, StartConfirmed, ExtendConfirmed,
              FinishConfirmed
<1>5. ASSUME NEW v, cfg_ok_to_write("candidate", s),
             root' = [root EXCEPT !["candidate"] = v]
      PROVE  root'[c] = root[c]
  BY <1>1, <1>3, <1>5
<1>6. ASSUME NEW l \in Leaves, NEW v \in Vals, EditConfig(s, l, v)
      PROVE  root'[c] = root[c]
  BY <1>5, <1>6 DEF EditConfig, WriteCandidate
<1>7. ASSUME NEW new \in Config, CopyInlineToCandidate(s, new)
      PROVE  root'[c] = root[c]
  BY <1>5, <1>7 DEF CopyInlineToCandidate, WriteCandidate
<1>8. CASE DiscardChanges(s)
  BY <1>5, <1>8 DEF DiscardChanges, cfg_fill_candidate_from_running, Filled
<1>9. CASE CopyStartupToCandidate(s)
  BY <1>5, <1>9 DEF CopyStartupToCandidate
<1>10. ASSUME NEW d \in {"candidate", "running"}, CopyToStartup(s, d)
       PROVE  root'[c] = root[c]
  BY <1>3, <1>10 DEF CopyToStartup, SavedRoot
<1>11. CASE DeleteStartup(s)
  BY <1>3, <1>11 DEF DeleteStartup
<1>12. ASSUME NEW f \in BackupNames, Restore(s, f)
       PROVE  root'[c] = root[c]
  <2>1. c # "running"
    BY <1>1, <1>12 DEF Restore
  <2>2. PICK o : root' = [root EXCEPT !["running"] = o.running]
    BY <1>12 DEF Restore
  <2> QED
    BY <1>3, <2>1, <2>2
<1>13. ASSUME NEW new \in Config, CopyInlineToStartup(s, new)
       PROVE  root'[c] = root[c]
  BY <1>13 DEF CopyInlineToStartup
<1> QED
  BY <1>4, <1>6, <1>7, <1>8, <1>9, <1>10, <1>11, <1>12, <1>13
     DEF WriteRpc, Pids

LEMMA SessionEndsProtects ==
    ASSUME TypeOK, OwnerInv, NEW s \in Sessions, SessionEnds(s),
           NEW c \in {"candidate", "running"}, LockedAgainst(c, s)
    PROVE  root'[c] = root[c]
<1> DEFINE nothing == [running |-> root["running"], ok |-> FALSE, err |-> FALSE]
<1>1. ~Cancels(s)
  BY DEF Cancels, OwnerInv, CcOwnerHoldsLocks, LockedAgainst
<1>2. c = "candidate" => locked_by["candidate"] # s
  BY DEF LockedAgainst
<1>3. PICK o \in {nothing} :
        root' = [root EXCEPT
            !["running"] = o.running,
            !["candidate"] = IF o.ok \/ (locked_by["candidate"] = s /\ dirty)
                             THEN o.running ELSE @]
  BY <1>1 DEF SessionEnds
<1>4. o.running = root["running"] /\ o.ok = FALSE
  BY <1>3
<1>5. root["running"] = root'["running"]
      /\ (locked_by["candidate"] # s => root'["candidate"] = root["candidate"])
  BY <1>3, <1>4, Datastores_exist DEF TypeOK
<1> QED
  BY <1>2, <1>5

LEMMA SessionDroppedProtects ==
    ASSUME TypeOK, OwnerInv, NEW s \in Sessions, SessionDropped(s),
           NEW c \in {"candidate", "running"}, LockedAgainst(c, s)
    PROVE  root'[c] = root[c]
BY Datastores_exist
   DEF SessionDropped, cfg_fill_candidate_from_running, Filled, LockedAgainst,
       TypeOK

LEMMA StepProtects ==
    ASSUME TypeOK, OwnerInv
    PROVE  \A c \in {"candidate", "running"} :
             /\ \A s \in Sessions :
                  (WriteRpc(s) \/ SessionEnds(s) \/ SessionDropped(s))
                  /\ LockedAgainst(c, s) => root'[c] = root[c]
             /\ CcTimeout /\ LockedAgainst(c, cc.ses_id) => root'[c] = root[c]
<1>1. ASSUME NEW c \in {"candidate", "running"}, CcTimeout
      PROVE  ~LockedAgainst(c, cc.ses_id)
  BY <1>1 DEF CcTimeout, OwnerInv, CcOwnerHoldsLocks, LockedAgainst
<1> QED
  BY <1>1, WriteRpcProtects, SessionEndsProtects, SessionDroppedProtects

(* No request, no end of a session and no expiry of a confirmed commit     *)
(* changes a datastore that another session has locked.                    *)
THEOREM LocksProtect == Spec => LockProtects
<1>1. TypeOK /\ OwnerInv /\ [Next]_vars =>
        [\A c \in {"candidate", "running"} :
          /\ \A s \in Sessions :
               (WriteRpc(s) \/ SessionEnds(s) \/ SessionDropped(s))
               /\ LockedAgainst(c, s) => root'[c] = root[c]
          /\ CcTimeout /\ LockedAgainst(c, cc.ses_id) => root'[c] = root[c]]_vars
  BY StepProtects
<1> QED
  BY <1>1, OwnerCorrect, PTL DEF Spec, LockProtects

-----------------------------------------------------------------------------
(* The commit service, with a distinct <startup>.  Without one it is not   *)
(* implemented by every instance: an error that a cancelled commit leaves  *)
(* in load_errQ makes a later extension save a <running> that nobody has   *)
(* confirmed.                                                              *)

Distinct ==
    /\ HasStartup /\ UseStartup /\ ~StopOnError
    /\ "restore" \notin Faults /\ "backup" \notin Faults

(* The backup a pending commit goes back to exists.                        *)
BackedUp == cc.active => backup \in Config

(* The values that the abstract variables take                             *)
Service == <<root["running"], cc.active, backup, nv>>

(* Whatever comes of a commit, the startup file is left alone.             *)
LEMMA DistinctCommit ==
    ASSUME Distinct, NEW r \in Roots, NEW f, NEW e \in Marks,
           NEW writeBackup, NEW saveNv, NEW sid,
           backup \in Config \cup {NoFile}, load_errQ \in BOOLEAN,
           agt_ncx_internal_commit(r, f, e, writeBackup, saveNv, sid)
    PROVE  /\ nv' = f
           /\ backup' = IF writeBackup THEN r["running"] ELSE backup
<1> DEFINE b == IF writeBackup THEN r["running"] ELSE backup
<1>1. backup' = b /\ (ApplyEdits(r, f, e, b, saveNv, sid)
                      \/ SkipEdits(r, f, e, b, sid))
  BY DEF Distinct, agt_ncx_internal_commit
<1>2. nv' = f
  <2> HIDE DEF b
  <2> QED
    BY <1>1 DEF Distinct, ApplyEdits, SkipEdits, Recover
<1> QED
  BY <1>1, <1>2

(* The load of a backup that is there succeeds.                            *)
LEMMA DistinctLoad ==
    ASSUME Distinct, NEW r \in Roots, NEW b \in Config,
           NEW sid \in Sessions \cup {NoSession},
           NEW o \in LoadBackup(r, b, sid)
    PROVE  o.ok = TRUE /\ o.running = b
<1>1. b # NoFile
  BY ConstantsAssumption
<1>2. o \in {[running |-> b, ok |-> TRUE, err |-> ~cfg_ok_to_write("running", sid)]}
  BY <1>1 DEF Distinct, LoadBackup
<1> QED
  BY <1>2

(* A boot reads the file that the abstract service calls saved.            *)
LEMMA Booted ==
    ASSUME NEW f
    PROVE  BootRoot(f)["running"] = BootRunning(f)
BY Datastores_exist DEF BootRoot

(* A commit request: it starts, ends or extends a confirmed commit, or     *)
(* there is none.                                                          *)
LEMMA CommitRpcServes ==
    ASSUME Distinct, TypeOK, NEW s \in Sessions,
           \/ Commit(s)
           \/ \E p \in Pids : StartConfirmed(s, p)
           \/ \E p, pid \in Pids : ExtendConfirmed(s, p, pid)
           \/ \E pid \in Pids : FinishConfirmed(s, pid)
    PROVE  /\ CommitService!Next
           /\ BackedUp => BackedUp'
<1>1. /\ root \in Roots /\ edited \in Marks /\ nv \in Config \cup {NoFile}
      /\ backup \in Config \cup {NoFile} /\ load_errQ \in BOOLEAN
      /\ cc \in CommitCb /\ root["running"] \in Config
  BY TypeOK_Sets DEF Roots
<1>2. ASSUME NEW wb, NEW save, NEW sid,
             agt_ncx_internal_commit(root, nv, edited, wb, save, sid)
      PROVE  /\ root'["running"] \in Config /\ nv' = nv
             /\ backup' = IF wb THEN root["running"] ELSE backup
  <2>1. root' \in Roots
    BY <1>1, <1>2, CommitType
  <2>2. nv' = nv /\ backup' = IF wb THEN root["running"] ELSE backup
    BY <1>1, <1>2, DistinctCommit
  <2> QED
    BY <2>1, <2>2 DEF Roots
<1>3. ASSUME Commit(s)
      PROVE  CommitService!Commit /\ ~cc'.active
  <2>1. root'["running"] \in Config /\ nv' = nv
    BY <1>2, <1>3 DEF Commit
  <2> QED
    BY <1>3, <2>1 DEF Commit, Distinct, CommitService!Commit, Confirmed
<1>4. ASSUME NEW p \in Pids, StartConfirmed(s, p)
      PROVE  CommitService!Try /\ BackedUp'
  <2>1. root'["running"] \in Config /\ nv' = nv /\ backup' = root["running"]
    BY <1>2, <1>4 DEF StartConfirmed
  <2>2. cc'.active = TRUE /\ ~cc.active
    BY <1>4 DEF StartConfirmed
  <2> QED
    BY <1>1, <2>1, <2>2 DEF CommitService!Try, Confirmed, BackedUp
<1>5. ASSUME NEW p \in Pids, NEW pid \in Pids, ExtendConfirmed(s, p, pid)
      PROVE  CommitService!Try /\ (BackedUp => BackedUp')
  <2>1. root'["running"] \in Config /\ nv' = nv /\ backup' = backup
    BY <1>2, <1>5 DEF ExtendConfirmed
  <2>2. cc'.active = TRUE /\ cc.active = TRUE
    BY <1>1, <1>5 DEF ExtendConfirmed, CommitCb
  <2> QED
    BY <1>1, <2>1, <2>2 DEF CommitService!Try, Confirmed, BackedUp
<1>6. ASSUME NEW pid \in Pids, FinishConfirmed(s, pid)
      PROVE  CommitService!Confirm /\ ~cc'.active
  <2>1. /\ SavedRoot(root, "running") \in Roots
        /\ SavedMarks(edited, "running") \in Marks
    BY <1>1, SavedType
  <2>2. root' \in Roots /\ nv' = root["running"]
    BY <1>1, <1>6, <2>1, CommitType, DistinctCommit DEF FinishConfirmed
  <2>3. root'["running"] \in Config
    BY <2>2 DEF Roots
  <2>4. BootRunning(nv)' = root["running"]
    BY <1>1, <2>2, ConstantsAssumption DEF Distinct, BootRunning
  <2>5. cc.active /\ cc'.active = FALSE
    BY <1>6 DEF FinishConfirmed, NoCommit
  <2> QED
    BY <2>3, <2>4, <2>5 DEF Distinct, CommitService!Confirm, Confirmed
<1> QED
  BY <1>3, <1>4, <1>5, <1>6 DEF CommitService!Next, BackedUp

(* A write of <startup> is a save of the abstract service.                 *)
LEMMA SaveServes ==
    ASSUME Distinct, TypeOK, NEW s \in Sessions,
           \/ \E c \in {"candidate", "running"} : CopyToStartup(s, c)
           \/ \E new \in Config : CopyInlineToStartup(s, new)
           \/ DeleteStartup(s)
    PROVE  /\ CommitService!Save
           /\ UNCHANGED <<backup, cc>>
<1>1. root'["running"] = root["running"] /\ UNCHANGED <<backup, cc>>
  <2>1. ASSUME NEW c \in {"candidate", "running"}, CopyToStartup(s, c)
        PROVE  root'["running"] = root["running"] /\ UNCHANGED <<backup, cc>>
    BY <2>1, TypeOK_Sets, SavedType DEF CopyToStartup
  <2>2. ASSUME NEW new \in Config, CopyInlineToStartup(s, new)
        PROVE  root'["running"] = root["running"] /\ UNCHANGED <<backup, cc>>
    BY <2>2 DEF CopyInlineToStartup
  <2>3. ASSUME DeleteStartup(s)
        PROVE  root'["running"] = root["running"] /\ UNCHANGED <<backup, cc>>
    BY <2>3, Datastores_exist DEF DeleteStartup, TypeOK
  <2> QED
    BY <2>1, <2>2, <2>3
<1>2. nv' \in Config \cup {NoFile}
  BY TypeOK_Sets DEF Roots, CopyToStartup, CopyInlineToStartup, DeleteStartup
<1>3. BootRunning(nv)' \in Config
  BY <1>2, ConstantsAssumption DEF BootRunning
<1> QED
  BY <1>1, <1>3 DEF Distinct, CommitService!Save, Confirmed

(* A step that leaves the four values alone is a stutter of the service.   *)
LEMMA OthersServe ==
    ASSUME UNCHANGED Service
    PROVE  UNCHANGED CommitService!vars /\ (BackedUp => BackedUp')
BY DEF Service, CommitService!vars, Confirmed, BackedUp, BootRunning

(* An end of the commit that is not a confirming one puts the backup back. *)
LEMMA CancelServes ==
    ASSUME Distinct, TypeOK, BackedUp, cc.active, CancelConfirmedCommit
    PROVE  CommitService!Cancel /\ ~cc'.active
<1>1. PICK o \in LoadBackup(root, backup, NoSession) :
           root' = IF o.ok THEN [root EXCEPT !["running"] = o.running,
                                             !["candidate"] = o.running]
                           ELSE root
  BY DEF CancelConfirmedCommit, Restored
<1>2. o.ok = TRUE /\ o.running = backup
  <2>1. root \in Roots /\ backup \in Config
    BY TypeOK_Sets DEF BackedUp
  <2> QED
    BY <2>1, DistinctLoad
<1>3. root'["running"] = backup
  BY <1>1, <1>2, Datastores_exist DEF TypeOK
<1>4. UNCHANGED <<nv, backup>> /\ cc'.active = FALSE
  BY DEF CancelConfirmedCommit, NoCommit
<1> QED
  BY <1>3, <1>4 DEF CommitService!Cancel, Confirmed, BootRunning

(* The end of a session cancels its commit, or leaves <running> alone.     *)
LEMMA SessionEndsServes ==
    ASSUME Distinct, TypeOK, BackedUp, NEW s \in Sessions, SessionEnds(s)
    PROVE  /\ CommitService!Cancel \/ UNCHANGED CommitService!vars
           /\ BackedUp'
<1> DEFINE nothing == [running |-> root["running"], ok |-> FALSE, err |-> FALSE]
<1>1. PICK o \in IF Cancels(s) THEN Restored ELSE {nothing} :
           root'["running"] = o.running
  BY Datastores_exist DEF SessionEnds, TypeOK
<1>2. UNCHANGED <<nv, backup>>
  BY DEF SessionEnds
<1>3. CASE Cancels(s)
  <2>1. /\ o \in LoadBackup(root, backup, NoSession)
        /\ backup \in Config /\ root \in Roots
    BY <1>3, TypeOK_Sets DEF Cancels, Restored, BackedUp
  <2>2. o.running = backup
    BY <2>1, DistinctLoad
  <2>3. root'["running"] = backup
    BY <1>1, <2>2
  <2>4. cc.active /\ cc'.active = FALSE
    BY <1>3 DEF SessionEnds, CommitWithout, Cancels, NoCommit
  <2> QED
    BY <1>2, <2>3, <2>4
       DEF CommitService!Cancel, Confirmed, BootRunning, BackedUp
<1>4. CASE ~Cancels(s)
  <2>1. root'["running"] = root["running"]
    BY <1>1, <1>4
  <2>2. cc'.active = cc.active
    BY <1>4 DEF SessionEnds, CommitWithout, TypeOK, CommitCb
  <2> QED
    BY <1>2, <2>1, <2>2, OthersServe DEF Service
<1> QED
  BY <1>3, <1>4

(* Locks, edits of <candidate>, backups by name and sessions that begin do *)
(* not concern the commit service.                                         *)
LEMMA OtherSteps ==
    ASSUME TypeOK, NEW s \in Sessions,
           \/ NewSession(s) \/ LockRpc(s) \/ BackupRpc(s) \/ SessionDropped(s)
           \/ \E l \in Leaves, v \in Vals : EditConfig(s, l, v)
           \/ \E new \in Config : CopyInlineToCandidate(s, new)
           \/ DiscardChanges(s)
           \/ CopyStartupToCandidate(s)
    PROVE  UNCHANGED Service
<1>1. ASSUME NEW r, root' = [root EXCEPT !["candidate"] = r]
      PROVE  root'["running"] = root["running"]
  BY <1>1, Datastores_exist DEF TypeOK
<1>2. ASSUME NewSession(s) \/ BackupRpc(s) PROVE UNCHANGED Service
  BY <1>2 DEF NewSession, BackupRpc, Backup, DeleteBackup, Service
<1>3. ASSUME LockRpc(s) PROVE UNCHANGED Service
  BY <1>1, <1>3 DEF LockRpc, Lock, Unlock, PartialLock, PartialUnlock,
                    cfg_fill_candidate_from_running, Filled, Service
<1>4. ASSUME SessionDropped(s) PROVE UNCHANGED Service
  BY <1>1, <1>4 DEF SessionDropped, cfg_fill_candidate_from_running, Filled,
                    Service
<1>5. ASSUME NEW l \in Leaves, NEW v \in Vals, EditConfig(s, l, v)
      PROVE  UNCHANGED Service
  BY <1>1, <1>5 DEF EditConfig, WriteCandidate, Service
<1>6. ASSUME NEW new \in Config, CopyInlineToCandidate(s, new)
      PROVE  UNCHANGED Service
  BY <1>1, <1>6 DEF CopyInlineToCandidate, WriteCandidate, Service
<1>7. ASSUME DiscardChanges(s) \/ CopyStartupToCandidate(s)
      PROVE  UNCHANGED Service
  BY <1>1, <1>7 DEF DiscardChanges, CopyStartupToCandidate,
                    cfg_fill_candidate_from_running, Filled, Service
<1> QED
  BY <1>2, <1>3, <1>4, <1>5, <1>6, <1>7

LEMMA RestoreServes ==
    ASSUME Distinct, TypeOK, NEW s \in Sessions, NEW f \in BackupNames,
           Restore(s, f)
    PROVE  CommitService!Commit /\ ~cc'.active
<1>1. PICK o \in LoadBackup(root, backups[f], s) :
           root' = [root EXCEPT !["running"] = o.running]
  BY DEF Restore
<1>2. backups[f] \in Config /\ root \in Roots
  BY TypeOK_Sets DEF Restore
<1>3. o.running = backups[f]
  BY <1>2, DistinctLoad
<1>4. root'["running"] \in Config
  BY <1>1, <1>2, <1>3, Datastores_exist DEF TypeOK
<1> QED
  BY <1>4 DEF Restore, Distinct, CommitService!Commit, Confirmed, BootRunning

LEMMA InitServes == Distinct /\ Init => CommitService!Init /\ BackedUp
<1> SUFFICES ASSUME Distinct, Init PROVE CommitService!Init /\ BackedUp
  OBVIOUS
<1>1. root["running"] = BootRunning(nv) /\ cc.active = FALSE
  BY Booted DEF Init, NoCommit
<1>2. BootRunning(nv) \in Config
  BY ConstantsAssumption DEF Init, BootRunning
<1> QED
  BY <1>1, <1>2 DEF CommitService!Init, Confirmed, BackedUp

LEMMA RebootServes ==
    ASSUME Reboot
    PROVE  CommitService!Boot /\ ~cc'.active
<1>1. root'["running"] = BootRunning(nv) /\ cc'.active = FALSE
  BY Booted DEF Reboot, NoCommit
<1>2. UNCHANGED nv
  BY DEF Reboot
<1> QED
  BY <1>1, <1>2 DEF CommitService!Boot, Confirmed, BootRunning

(* Every step maps to one of the commit service or to a stutter.           *)
LEMMA StepServes ==
    ASSUME Distinct, TypeOK, BackedUp, [Next]_vars
    PROVE  [CommitService!Next]_(CommitService!vars) /\ BackedUp'
<1> DEFINE Serves == [CommitService!Next]_(CommitService!vars) /\ BackedUp'
<1>1. ASSUME UNCHANGED Service PROVE Serves
  BY <1>1, OthersServe
<1>2. ASSUME NEW s \in Sessions, WriteRpc(s) PROVE Serves
  <2>1. ASSUME \/ Commit(s)
               \/ \E p \in Pids : StartConfirmed(s, p)
               \/ \E p, pid \in Pids : ExtendConfirmed(s, p, pid)
               \/ \E pid \in Pids : FinishConfirmed(s, pid)
        PROVE  Serves
    BY <2>1, CommitRpcServes
  <2>2. ASSUME NEW f \in BackupNames, Restore(s, f) PROVE Serves
    BY <2>2, RestoreServes DEF CommitService!Next, BackedUp
  <2>3. ASSUME \/ \E c \in {"candidate", "running"} : CopyToStartup(s, c)
               \/ \E new \in Config : CopyInlineToStartup(s, new)
               \/ DeleteStartup(s)
        PROVE  Serves
    BY <2>3, SaveServes DEF CommitService!Next, BackedUp
  <2>4. ASSUME \/ \E l \in Leaves, v \in Vals : EditConfig(s, l, v)
               \/ \E new \in Config : CopyInlineToCandidate(s, new)
               \/ DiscardChanges(s)
               \/ CopyStartupToCandidate(s)
        PROVE  Serves
    BY <1>1, <2>4, OtherSteps
  <2>5. ASSUME NEW pid \in Pids, CommitRefused(s, pid) PROVE Serves
    BY <1>1, <2>5, RefusedKeeps DEF Service
  <2> QED
    BY <1>2, <2>1, <2>2, <2>3, <2>4, <2>5 DEF WriteRpc, Pids
<1>3. ASSUME NEW s \in Sessions,
             NewSession(s) \/ LockRpc(s) \/ BackupRpc(s) \/ SessionDropped(s)
      PROVE  Serves
  BY <1>1, <1>3, OtherSteps
<1>4. ASSUME cc.active, CancelConfirmedCommit PROVE Serves
  BY <1>4, CancelServes DEF CommitService!Next, BackedUp
<1>5. ASSUME NEW s \in Sessions, NEW pid, CancelCommit(s, pid) PROVE Serves
  BY <1>4, <1>5 DEF CancelCommit
<1>6. ASSUME CcTimeout PROVE Serves
  BY <1>4, <1>6 DEF CcTimeout
<1>7. ASSUME NEW s \in Sessions, SessionEnds(s) PROVE Serves
  BY <1>7, SessionEndsServes DEF CommitService!Next
<1>8. ASSUME CcTimerElapses PROVE Serves
  <2>1. UNCHANGED Service
    BY <1>8 DEF CcTimerElapses, Service, TypeOK, CommitCb
  <2> QED
    BY <1>1, <2>1
<1>9. ASSUME Reboot PROVE Serves
  BY <1>9, RebootServes DEF CommitService!Next, BackedUp
<1>10. ASSUME UNCHANGED vars PROVE Serves
  BY <1>1, <1>10 DEF vars, Service
<1> QED
  BY <1>2, <1>3, <1>5, <1>6, <1>7, <1>8, <1>9, <1>10 DEF Next

(* With a distinct <startup>, and while backups can be written and loaded, *)
(* the datastores implement the commit service, whatever the callbacks     *)
(* refuse and however commits, sessions, timeouts and restarts come        *)
(* together: what is tried in a confirmed commit is kept as a whole or     *)
(* taken back as a whole (commit_invoke, agt_ncx_cancel_confirmed_commit). *)
THEOREM CommitsAreServed ==
    ASSUME Distinct
    PROVE  Spec => ImplementsCommitService
<1>1. Init => CommitService!Init /\ BackedUp
  BY InitServes
<1>2. TypeOK /\ BackedUp /\ [Next]_vars =>
        [CommitService!Next]_(CommitService!vars) /\ BackedUp'
  BY StepServes
<1> QED
  BY <1>1, <1>2, TypeCorrect, PTL
     DEF Spec, ImplementsCommitService, CommitService!Spec

-----------------------------------------------------------------------------
(* What Datastores keeps when <startup> is not a datastore of its own, no  *)
(* call of the server fails (clients may break their sessions) and nothing *)
(* is restored by hand: <candidate> and <running> differ in marked nodes   *)
(* only, not at all when <candidate> is clean, and the startup file        *)
(* mirrors the confirmed configuration.  Each of the three assumptions is  *)
(* needed: a copy of <startup> unmarks nodes that differ, a <restore>      *)
(* changes <running> alone, and a startup file that cannot be written      *)
(* loses what a commit has applied.                                        *)

Plain == ~HasStartup /\ BackupNames = {} /\ Faults \subseteq {"badmsg"}

(* MarksCoverEdits makes a commit complete, so that what it saves is what  *)
(* runs; a pending confirmed commit has a backup to go back to.            *)
MirrorInv ==
    /\ CleanCandidate
    /\ MarksCoverEdits
    /\ NvMirrorsConfirmed
    /\ cc.active => backup \in Config

-----------------------------------------------------------------------------
LEMMA PlainSaved ==
    ASSUME Plain, NEW r, NEW e, NEW c
    PROVE  SavedRoot(r, c) = r /\ SavedMarks(e, c) = e
BY DEF Plain, SavedRoot, SavedMarks

(* Without a fault, a commit does one thing.                               *)
LEMMA PlainCommit ==
    ASSUME Plain, NEW r, NEW f, NEW e, NEW wb, NEW save, NEW sid,
           agt_ncx_internal_commit(r, f, e, wb, save, sid)
    PROVE  /\ backup' = IF wb THEN r["running"] ELSE backup
           /\ load_errQ' = load_errQ
           /\ dirty => /\ root' = Merged(r, e)
                       /\ edited' = [e EXCEPT !["candidate"] = {}]
                       /\ nv' = IF save THEN Merged(r, e)["running"] ELSE f
           /\ ~dirty => /\ root' = r /\ edited' = e
                        /\ nv' = IF ~UseStartup \/ load_errQ THEN r["running"]
                                                             ELSE f
BY DEF Plain, agt_ncx_internal_commit, ApplyEdits, SkipEdits

(* A load either puts the backup back or leaves an error behind.           *)
LEMMA PlainLoad ==
    ASSUME Plain, NEW r, NEW b \in Config, NEW sid,
           NEW o \in LoadBackup(r, b, sid)
    PROVE  \/ o.ok = TRUE /\ o.running = b
           \/ o.ok = FALSE /\ o.running = r["running"] /\ o.err = TRUE
BY ConstantsAssumption DEF Plain, LoadBackup

(* With every difference marked, a commit makes <running> equal to         *)
(* <candidate>.                                                            *)
LEMMA MergedEqual ==
    ASSUME NEW r \in Roots, NEW e \in Marks,
           Differing(r["candidate"], r["running"]) \subseteq e["candidate"]
    PROVE  /\ Merged(r, e)["candidate"] = r["candidate"]
           /\ Merged(r, e)["running"] = r["candidate"]
<1>1. /\ r["candidate"] \in [Leaves -> Vals] /\ r["running"] \in [Leaves -> Vals]
      /\ "running" \in DOMAIN r
  BY Datastores_exist DEF Roots, Config
<1> DEFINE new == [l \in Leaves |-> IF l \in e["candidate"] THEN r["candidate"][l]
                                                            ELSE r["running"][l]]
<1>2. \A l \in Leaves : new[l] = r["candidate"][l]
  BY DEF Differing
<1>3. new = r["candidate"]
  BY <1>1, <1>2
<1> QED
  BY <1>1, <1>3 DEF Merged, Roots

LEMMA EqualDiffers == \A c : Differing(c, c) = {}
BY DEF Differing

-----------------------------------------------------------------------------
LEMMA BootMirror ==
    ASSUME NEW f
    PROVE  /\ BootRoot(f)["candidate"] = BootRoot(f)["running"]
           /\ BootRoot(f)["running"] = BootRunning(f)
BY Datastores_exist DEF BootRoot

LEMMA InitMirror == Init => MirrorInv
BY BootMirror, EqualDiffers
   DEF Init, MirrorInv, CleanCandidate, MarksCoverEdits, NvMirrorsConfirmed,
       Confirmed, NoCommit

LEMMA RebootMirror ==
    ASSUME Reboot
    PROVE  MirrorInv'
BY BootMirror, EqualDiffers
   DEF Reboot, MirrorInv, CleanCandidate, MarksCoverEdits, NvMirrorsConfirmed,
       Confirmed, NoCommit

(* Filling <candidate> from <running> leaves no difference.                *)
LEMMA FilledMirror ==
    ASSUME root'["candidate"] = root'["running"]
    PROVE  CleanCandidate' /\ MarksCoverEdits'
BY EqualDiffers DEF CleanCandidate, MarksCoverEdits

(* An edit of <candidate>                                                  *)
LEMMA EditMirror ==
    ASSUME TypeOK, MirrorInv, NEW new \in Config, WriteCandidate(new),
           UNCHANGED <<load_errQ, nv, backup, cc>>
    PROVE  MirrorInv'
<1>1. root'["candidate"] = new /\ root'["running"] = root["running"]
  BY Datastores_exist DEF WriteCandidate, TypeOK
<1>2. edited'["candidate"] = edited["candidate"]
                                 \cup Differing(root["candidate"], new)
  BY DEF WriteCandidate, TypeOK
<1>3. MarksCoverEdits'
  BY <1>1, <1>2 DEF MirrorInv, MarksCoverEdits, Differing
<1> QED
  BY <1>1, <1>3
     DEF WriteCandidate, MirrorInv, CleanCandidate, NvMirrorsConfirmed, Confirmed

(* A commit, with the startup file f that it starts from                   *)
LEMMA CommitMirror ==
    ASSUME Plain, TypeOK, MirrorInv, UNCHANGED dirty,
           NEW f, NEW wb \in BOOLEAN, NEW save \in BOOLEAN, NEW sid,
           agt_ncx_internal_commit(root, f, edited, wb, save, sid)
    PROVE  /\ CleanCandidate' /\ MarksCoverEdits'
           /\ root'["running"] \in Config
           /\ load_errQ' = load_errQ
           /\ backup' = IF wb THEN root["running"] ELSE backup
           /\ UseStartup /\ ~load_errQ /\ ~save => nv' = f
           /\ UseStartup /\ ~load_errQ /\ save =>
                  \/ nv' = root'["running"]
                  \/ nv' = f /\ root' = root
<1>1. /\ backup' = IF wb THEN root["running"] ELSE backup
      /\ load_errQ' = load_errQ
      /\ dirty => /\ root' = Merged(root, edited)
                  /\ edited' = [edited EXCEPT !["candidate"] = {}]
                  /\ nv' = IF save THEN Merged(root, edited)["running"] ELSE f
      /\ ~dirty => /\ root' = root /\ edited' = edited
                   /\ nv' = IF ~UseStartup \/ load_errQ THEN root["running"]
                                                        ELSE f
  BY PlainCommit
<1>2. root \in Roots /\ edited \in Marks /\ dirty \in BOOLEAN
  BY TypeOK_Sets DEF TypeOK
<1>3. CASE dirty
  <2>1. root'["candidate"] = root'["running"] /\ root'["running"] \in Config
    BY <1>1, <1>2, <1>3, MergedEqual DEF MirrorInv, MarksCoverEdits, Roots
  <2>2. CleanCandidate' /\ MarksCoverEdits'
    BY <2>1, FilledMirror
  <2>3. nv' = IF save THEN root'["running"] ELSE f
    BY <1>1, <1>3
  <2> QED
    BY <1>1, <2>1, <2>2, <2>3
<1>4. CASE ~dirty
  <2>1. root' = root /\ edited' = edited
    BY <1>1, <1>4
  <2>2. CleanCandidate' /\ MarksCoverEdits'
    BY <2>1 DEF MirrorInv, CleanCandidate, MarksCoverEdits
  <2>3. UseStartup /\ ~load_errQ => nv' = f
    BY <1>1, <1>4
  <2> QED
    BY <1>1, <1>2, <2>1, <2>2, <2>3 DEF Roots
<1> QED
  BY <1>2, <1>3, <1>4

(* A configuration in the startup file is the one that boots.              *)
LEMMA BootsFile ==
    ASSUME UseStartup, NEW f \in Config
    PROVE  BootRunning(f) = f
BY ConstantsAssumption DEF BootRunning

LEMMA CommitRpcMirror ==
    ASSUME Plain, TypeOK, MirrorInv, NEW s \in Sessions, NEW p, NEW pid,
           \/ Commit(s)
           \/ StartConfirmed(s, p)
           \/ ExtendConfirmed(s, p, pid)
           \/ FinishConfirmed(s, pid)
    PROVE  MirrorInv'
<1>1. root["running"] \in Config
  BY DEF TypeOK
<1>2. NvMirrorsConfirmed
  BY DEF MirrorInv
<1>3. CASE Commit(s)
  <2>1. agt_ncx_internal_commit(root, nv, edited, TRUE, TRUE, NoSession)
        /\ UNCHANGED dirty /\ cc' = cc /\ ~cc.active
    BY <1>3 DEF Commit
  <2>2. /\ CleanCandidate' /\ MarksCoverEdits'
        /\ root'["running"] \in Config /\ load_errQ' = load_errQ
        /\ UseStartup /\ ~load_errQ =>
               nv' = root'["running"] \/ (nv' = nv /\ root' = root)
    BY <2>1, CommitMirror
  <2>3. NvMirrorsConfirmed'
    BY <1>2, <2>1, <2>2, BootsFile DEF NvMirrorsConfirmed, Confirmed, BootRunning
  <2> QED
    BY <2>1, <2>2, <2>3 DEF MirrorInv
<1>4. CASE StartConfirmed(s, p)
  <2>1. agt_ncx_internal_commit(root, nv, edited, TRUE, FALSE, s)
        /\ UNCHANGED dirty /\ cc'.active = TRUE /\ ~cc.active
    BY <1>4 DEF StartConfirmed
  <2>2. /\ CleanCandidate' /\ MarksCoverEdits' /\ load_errQ' = load_errQ
        /\ backup' = root["running"]
        /\ UseStartup /\ ~load_errQ => nv' = nv
    BY <2>1, CommitMirror
  <2>3. NvMirrorsConfirmed'
    BY <1>2, <2>1, <2>2 DEF NvMirrorsConfirmed, Confirmed, BootRunning
  <2> QED
    BY <1>1, <2>1, <2>2, <2>3 DEF MirrorInv
<1>5. CASE ExtendConfirmed(s, p, pid)
  <2>1. agt_ncx_internal_commit(root, nv, edited, FALSE, FALSE, s)
        /\ UNCHANGED dirty /\ cc.active /\ cc'.active = cc.active
    BY <1>5, TypeOK_Sets DEF ExtendConfirmed, CommitCb, TypeOK
  <2>2. /\ CleanCandidate' /\ MarksCoverEdits' /\ load_errQ' = load_errQ
        /\ backup' = backup
        /\ UseStartup /\ ~load_errQ => nv' = nv
    BY <2>1, CommitMirror
  <2>3. NvMirrorsConfirmed'
    BY <1>2, <2>1, <2>2 DEF NvMirrorsConfirmed, Confirmed, BootRunning
  <2> QED
    BY <2>1, <2>2, <2>3 DEF MirrorInv
<1>6. CASE FinishConfirmed(s, pid)
  <2>1. agt_ncx_internal_commit(root, root["running"], edited, TRUE, TRUE, NoSession)
        /\ UNCHANGED dirty /\ cc' = NoCommit
    BY <1>6, PlainSaved DEF FinishConfirmed
  <2>2. /\ CleanCandidate' /\ MarksCoverEdits'
        /\ root'["running"] \in Config /\ load_errQ' = load_errQ
        /\ UseStartup /\ ~load_errQ =>
               \/ nv' = root'["running"]
               \/ nv' = root["running"] /\ root' = root
    BY <2>1, CommitMirror
  <2>3. NvMirrorsConfirmed'
    BY <2>1, <2>2, BootsFile DEF NvMirrorsConfirmed, Confirmed, BootRunning, NoCommit
  <2> QED
    BY <2>1, <2>2, <2>3 DEF MirrorInv, NoCommit
<1> QED
  BY <1>3, <1>4, <1>5, <1>6

-----------------------------------------------------------------------------
(* The steps that take a confirmed commit back: the backup is loaded whole *)
(* or the failure leaves an error behind.                                  *)
LEMMA CancelMirror ==
    ASSUME Plain, TypeOK, MirrorInv, cc.active, CancelConfirmedCommit
    PROVE  MirrorInv'
<1>1. PICK o \in LoadBackup(root, backup, NoSession) :
           /\ root' = IF o.ok THEN [root EXCEPT !["running"] = o.running,
                                                !["candidate"] = o.running]
                              ELSE root
           /\ dirty' = (dirty /\ ~o.ok)
           /\ edited' = IF o.ok THEN NoEdits ELSE edited
           /\ load_errQ' = (load_errQ \/ o.err)
  BY DEF CancelConfirmedCommit, Restored
<1>2. /\ cc' = NoCommit /\ nv' = nv /\ backup \in Config
      /\ root \in [Cfgs -> Config \cup {NoFile}]
      /\ load_errQ \in BOOLEAN /\ dirty \in BOOLEAN
  BY DEF CancelConfirmedCommit, MirrorInv, TypeOK
<1>3. CASE o.ok = TRUE /\ o.running = backup
  <2>1. root'["running"] = backup /\ root'["candidate"] = backup
    BY <1>1, <1>2, <1>3, Datastores_exist
  <2>2. load_errQ => load_errQ'
    BY <1>1
  <2>3. NvMirrorsConfirmed'
    BY <1>2, <2>1, <2>2
       DEF MirrorInv, NvMirrorsConfirmed, Confirmed, BootRunning, NoCommit
  <2> QED
    BY <1>2, <2>1, <2>3, FilledMirror DEF MirrorInv, NoCommit
<1>4. CASE o.ok = FALSE /\ o.err = TRUE
  <2>1. root' = root /\ edited' = edited /\ load_errQ'
    BY <1>1, <1>4
  <2>2. dirty' = dirty
    BY <1>1, <1>2, <1>4
  <2> QED
    BY <1>2, <2>1, <2>2 DEF MirrorInv, CleanCandidate, MarksCoverEdits,
                            NvMirrorsConfirmed, NoCommit
<1> QED
  BY <1>1, <1>2, <1>3, <1>4, PlainLoad

LEMMA SessionEndsMirror ==
    ASSUME Plain, TypeOK, MirrorInv, NEW s \in Sessions, SessionEnds(s)
    PROVE  MirrorInv'
<1> DEFINE nothing == [running |-> root["running"], ok |-> FALSE, err |-> FALSE]
           unlocks == locked_by["candidate"] = s /\ dirty
           refill(o) == o.ok \/ unlocks
<1>1. PICK o \in IF Cancels(s) THEN Restored ELSE {nothing} :
           /\ root' = [root EXCEPT
                  !["running"] = o.running,
                  !["candidate"] = IF refill(o) THEN o.running ELSE @]
           /\ dirty' = (dirty /\ ~refill(o))
           /\ edited' = IF refill(o) THEN NoEdits ELSE edited
           /\ load_errQ' = (load_errQ \/ o.err)
  BY DEF SessionEnds
<1>2. /\ nv' = nv /\ backup' = backup
      /\ cc.active => backup \in Config
      /\ root \in [Cfgs -> Config \cup {NoFile}]
      /\ load_errQ \in BOOLEAN /\ dirty \in BOOLEAN
  BY DEF SessionEnds, MirrorInv, TypeOK
<1>3. /\ Cancels(s) => cc.active /\ cc'.active = FALSE
      /\ ~Cancels(s) => cc'.active = cc.active
  BY TypeOK_Sets DEF SessionEnds, CommitWithout, Cancels, NoCommit, TypeOK, CommitCb
<1>4. \/ Cancels(s) /\ o.ok = TRUE /\ o.running = backup
      \/ Cancels(s) /\ o.ok = FALSE /\ o.running = root["running"] /\ o.err = TRUE
      \/ ~Cancels(s) /\ o.ok = FALSE /\ o.running = root["running"] /\ o.err = FALSE
  <2>1. CASE Cancels(s)
    <3>1. o \in LoadBackup(root, backup, NoSession)
      BY <1>1, <2>1 DEF Restored
    <3>2. backup \in Config
      BY <1>2, <2>1 DEF Cancels
    <3>3. \/ o.ok = TRUE /\ o.running = backup
          \/ o.ok = FALSE /\ o.running = root["running"] /\ o.err = TRUE
      BY <3>1, <3>2, PlainLoad
    <3> QED
      BY <2>1, <3>3
  <2>2. CASE ~Cancels(s)
    BY <1>1, <2>2
  <2> QED
    BY <2>1, <2>2
<1>5. /\ root'["running"] = o.running
      /\ refill(o) => root'["candidate"] = o.running
      /\ ~refill(o) => root'["candidate"] = root["candidate"]
  BY <1>1, <1>2, Datastores_exist
<1>6. CleanCandidate' /\ MarksCoverEdits'
  <2>1. CASE refill(o)
    BY <1>5, <2>1, FilledMirror
  <2>2. CASE ~refill(o)
    <3>1. o.running = root["running"]
      BY <1>4, <2>2
    <3>2. edited' = edited /\ dirty' = dirty
      BY <1>1, <1>2, <2>2
    <3> QED
      BY <1>5, <2>2, <3>1, <3>2 DEF MirrorInv, CleanCandidate, MarksCoverEdits
  <2> QED
    BY <2>1, <2>2
<1>7. load_errQ' = (load_errQ \/ o.err)
  BY <1>1
<1>8. NvMirrorsConfirmed'
  BY <1>2, <1>3, <1>4, <1>5, <1>7
     DEF MirrorInv, NvMirrorsConfirmed, Confirmed, BootRunning
<1>9. cc'.active => backup' \in Config
  BY <1>2, <1>3
<1> QED
  BY <1>6, <1>8, <1>9 DEF MirrorInv

-----------------------------------------------------------------------------
(* The steps that neither commit nor edit                                  *)
LEMMA QuietMirror ==
    ASSUME MirrorInv, cc'.active = cc.active,
           UNCHANGED <<root, dirty, edited, load_errQ, nv, backup>>
    PROVE  MirrorInv'
BY DEF MirrorInv, CleanCandidate, MarksCoverEdits, NvMirrorsConfirmed, Confirmed

LEMMA RefillMirror ==
    ASSUME TypeOK, MirrorInv, cfg_fill_candidate_from_running,
           UNCHANGED <<load_errQ, nv, backup, cc>>
    PROVE  MirrorInv'
<1>1. root'["running"] = root["running"] /\ root'["candidate"] = root["running"]
  BY Datastores_exist DEF cfg_fill_candidate_from_running, Filled, TypeOK
<1> QED
  BY <1>1, FilledMirror DEF MirrorInv, NvMirrorsConfirmed, Confirmed

LEMMA LockRpcMirror ==
    ASSUME TypeOK, MirrorInv, NEW s \in Sessions, LockRpc(s)
    PROVE  MirrorInv'
<1>1. ASSUME NEW c \in Cfgs, Lock(s, c) PROVE MirrorInv'
  BY <1>1, QuietMirror DEF Lock
<1>2. ASSUME NEW c \in Cfgs, Unlock(s, c) PROVE MirrorInv'
  <2>1. CASE c = "candidate" /\ dirty
    BY <1>2, <2>1, RefillMirror DEF Unlock
  <2>2. CASE ~(c = "candidate" /\ dirty)
    BY <1>2, <2>2, QuietMirror DEF Unlock
  <2> QED
    BY <2>1, <2>2
<1>3. ASSUME PartialLock(s) \/ PartialUnlock(s) PROVE MirrorInv'
  BY <1>3, QuietMirror DEF PartialLock, PartialUnlock
<1> QED
  BY <1>1, <1>2, <1>3 DEF LockRpc

LEMMA WriteRpcMirror ==
    ASSUME Plain, TypeOK, MirrorInv, NEW s \in Sessions, WriteRpc(s)
    PROVE  MirrorInv'
<1>1. ASSUME NEW l \in Leaves, NEW v \in Vals, EditConfig(s, l, v)
      PROVE  MirrorInv'
  <2>1. [root["candidate"] EXCEPT ![l] = v] \in Config
    BY DEF TypeOK, Config
  <2> QED
    BY <1>1, <2>1, EditMirror DEF EditConfig
<1>2. ASSUME NEW new \in Config, CopyInlineToCandidate(s, new)
      PROVE  MirrorInv'
  BY <1>2, EditMirror DEF CopyInlineToCandidate
<1>3. ASSUME DiscardChanges(s) PROVE MirrorInv'
  BY <1>3, RefillMirror DEF DiscardChanges
<1>4. ASSUME NEW p, NEW pid,
             \/ Commit(s)
             \/ StartConfirmed(s, p)
             \/ ExtendConfirmed(s, p, pid)
             \/ FinishConfirmed(s, pid)
      PROVE  MirrorInv'
  BY <1>4, CommitRpcMirror
<1>5. ~CopyStartupToCandidate(s) /\ ~DeleteStartup(s)
  BY DEF Plain, CopyStartupToCandidate, DeleteStartup
<1>6. \A c : ~CopyToStartup(s, c) /\ ~CopyInlineToStartup(s, c)
  BY DEF Plain, CopyToStartup, CopyInlineToStartup
<1>7. ~\E f \in BackupNames : Restore(s, f)
  BY DEF Plain
<1>8. \A pid : ~CommitRefused(s, pid)
  BY DEF Plain, CommitRefused
<1> QED
  BY <1>1, <1>2, <1>3, <1>4, <1>5, <1>6, <1>7, <1>8 DEF WriteRpc

LEMMA SessionDroppedMirror ==
    ASSUME TypeOK, MirrorInv, NEW s \in Sessions, SessionDropped(s)
    PROVE  MirrorInv'
<1>1. CASE locked_by["candidate"] = s /\ dirty
  BY <1>1, RefillMirror DEF SessionDropped
<1>2. CASE ~(locked_by["candidate"] = s /\ dirty)
  BY <1>2, QuietMirror DEF SessionDropped
<1> QED
  BY <1>1, <1>2

LEMMA NextMirror ==
    ASSUME Plain, TypeOK, MirrorInv, [Next]_vars
    PROVE  MirrorInv'
<1>1. ASSUME NEW s \in Sessions, NewSession(s) PROVE MirrorInv'
  BY <1>1, QuietMirror DEF NewSession
<1>2. ASSUME NEW s \in Sessions, LockRpc(s) \/ WriteRpc(s) PROVE MirrorInv'
  BY <1>2, LockRpcMirror, WriteRpcMirror
<1>3. ASSUME NEW s \in Sessions PROVE ~BackupRpc(s)
  BY DEF BackupRpc, Plain
<1>4. ASSUME NEW s \in Sessions, NEW pid, CancelCommit(s, pid) PROVE MirrorInv'
  BY <1>4, CancelMirror DEF CancelCommit
<1>5. ASSUME NEW s \in Sessions, SessionEnds(s) \/ SessionDropped(s)
      PROVE  MirrorInv'
  BY <1>5, SessionEndsMirror, SessionDroppedMirror
<1>6. ASSUME CcTimerElapses PROVE MirrorInv'
  <2>1. cc'.active = cc.active
    BY <1>6 DEF CcTimerElapses, TypeOK, CommitCb
  <2> QED
    BY <1>6, <2>1, QuietMirror DEF CcTimerElapses
<1>7. ASSUME CcTimeout PROVE MirrorInv'
  BY <1>7, CancelMirror DEF CcTimeout
<1>8. ASSUME UNCHANGED vars PROVE MirrorInv'
  BY <1>8, QuietMirror DEF vars
<1> QED
  BY <1>1, <1>2, <1>3, <1>4, <1>5, <1>6, <1>7, <1>8, RebootMirror DEF Next

LEMMA MirrorCorrect ==
    ASSUME Plain
    PROVE  Spec => []MirrorInv
BY InitMirror, NextMirror, TypeCorrect, PTL DEF Spec

(* A <candidate> that is not dirty equals <running>.                       *)
THEOREM CleanIsEqual ==
    ASSUME Plain
    PROVE  Spec => []CleanCandidate
BY MirrorCorrect, PTL DEF MirrorInv

(* Every node in which <candidate> and <running> differ is marked, so that *)
(* a commit leaves them equal.                                             *)
THEOREM MarksAreComplete ==
    ASSUME Plain
    PROVE  Spec => []MarksCoverEdits
BY MirrorCorrect, PTL DEF MirrorInv

(* A restart at any moment boots the confirmed configuration.              *)
THEOREM StartupMirrors ==
    ASSUME Plain
    PROVE  Spec => []NvMirrorsConfirmed
BY MirrorCorrect, PTL DEF MirrorInv

-----------------------------------------------------------------------------
(* The requests that are not about locks leave the locks alone.            *)
LEMMA KeepsLocks ==
    ASSUME Plain, NEW s \in Sessions, WriteRpc(s)
    PROVE  locked_by' = locked_by
BY DEF Plain, WriteRpc, EditConfig, CopyInlineToCandidate, DiscardChanges,
       CopyStartupToCandidate, CopyToStartup, CopyInlineToStartup, DeleteStartup,
       Commit, CommitRefused, StartConfirmed, ExtendConfirmed,
       FinishConfirmed, locks

LEMMA StepReleases ==
    ASSUME Plain, TypeOK, MirrorInv, [Next]_vars,
           locked_by["candidate"] # NoSession,
           locked_by'["candidate"] = NoSession
    PROVE  root'["candidate"] = root'["running"]
<1>1. SUFFICES dirty' = FALSE
  BY NextMirror DEF MirrorInv, CleanCandidate
<1>2. locked_by' # locked_by
  OBVIOUS
<1>3. dirty \in BOOLEAN /\ locked_by \in [Cfgs -> Sessions \cup {NoSession}]
  BY DEF TypeOK
<1>4. ASSUME NEW s \in Sessions, LockRpc(s) PROVE dirty' = FALSE
  <2>1. PICK c \in Cfgs : Lock(s, c) \/ Unlock(s, c)
    BY <1>2, <1>4 DEF LockRpc, PartialLock, PartialUnlock
  <2>2. ~Lock(s, c)
    BY <1>3, ConstantsAssumption, Datastores_exist DEF Lock
  <2>3. c = "candidate"
    BY <1>3, <2>1, <2>2, Datastores_exist DEF Unlock
  <2> QED
    BY <1>3, <2>1, <2>2, <2>3 DEF Unlock, cfg_fill_candidate_from_running
<1>5. ASSUME NEW s \in Sessions, SessionEnds(s) PROVE dirty' = FALSE
  <2>1. locked_by' = [c \in Cfgs |-> IF locked_by[c] = s THEN NoSession
                                                        ELSE locked_by[c]]
    BY <1>5 DEF SessionEnds, cfg_release_locks
  <2>2. locked_by["candidate"] = s
    BY <2>1, Datastores_exist
  <2>3. PICK ok : dirty' = (dirty /\ ~(ok \/ (locked_by["candidate"] = s /\ dirty)))
    BY <1>5 DEF SessionEnds
  <2> QED
    BY <1>3, <2>2, <2>3
<1>10. ASSUME NEW s \in Sessions, SessionDropped(s) PROVE dirty' = FALSE
  <2>1. locked_by' = [c \in Cfgs |-> IF locked_by[c] = s THEN NoSession
                                                        ELSE locked_by[c]]
    BY <1>10 DEF SessionDropped, cfg_release_locks
  <2>2. locked_by["candidate"] = s
    BY <2>1, Datastores_exist
  <2> QED
    BY <1>3, <1>10, <2>2 DEF SessionDropped, cfg_fill_candidate_from_running
<1>6. ASSUME Reboot PROVE dirty' = FALSE
  BY <1>6 DEF Reboot
<1>7. ASSUME NEW s \in Sessions PROVE ~WriteRpc(s) /\ ~BackupRpc(s) /\ ~NewSession(s)
  BY <1>2, KeepsLocks DEF BackupRpc, NewSession, Plain, locks
<1>8. ASSUME NEW s \in Sessions, NEW pid PROVE ~CancelCommit(s, pid)
  BY <1>2 DEF CancelCommit, CancelConfirmedCommit, locks
<1>9. ~CcTimerElapses /\ ~CcTimeout /\ ~UNCHANGED vars
  BY <1>2 DEF CcTimerElapses, CcTimeout, CancelConfirmedCommit, locks, vars
<1> QED
  BY <1>4, <1>5, <1>6, <1>7, <1>8, <1>9, <1>10 DEF Next

(* Releasing the lock on <candidate> leaves no uncommitted edit in it.     *)
THEOREM ReleaseDiscardsEdits ==
    ASSUME Plain
    PROVE  Spec => ReleaseDiscards
<1>1. TypeOK /\ MirrorInv /\ [Next]_vars =>
        [locked_by["candidate"] # NoSession /\ locked_by'["candidate"] = NoSession
           => root'["candidate"] = root'["running"]]_vars
  BY StepReleases
<1> QED
  BY <1>1, TypeCorrect, MirrorCorrect, PTL DEF Spec, ReleaseDiscards
=============================================================================
