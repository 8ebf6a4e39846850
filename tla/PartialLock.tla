---------------------------- MODULE PartialLock ----------------------------
(***************************************************************************)
(* Partial locks of <running> (agt_plock.c, plock.c, plock_cb.c, the lock  *)
(* slots of val_util.c) and the edits of <candidate> and commits that they *)
(* are to keep out (agt_val.c).                                            *)
(*                                                                         *)
(* A lock is a control block (plcb).  Each node it selects keeps a pointer *)
(* to it in one of its slots (val->plock), and it keeps pointers to the    *)
(* nodes in its final result.  Blocks are memory: one that was freed may   *)
(* be handed out again, and the owner read from one that is free may be    *)
(* anybody.                                                                *)
(*                                                                         *)
(* Clients edit with the operations merge, replace and delete.  The server *)
(* has no distinct <startup>, no default values and no access control.     *)
(* Global locks, confirmed commits and what a refused commit leaves behind *)
(* in <candidate> are in Datastores, refused callbacks in EditTransaction. *)
(***************************************************************************)
EXTENDS Naturals, FiniteSets

CONSTANTS
    Sessions,
    Nodes,     \* the data nodes that configurations may have
    Subtree,   \* a node and what is below it
    Leaves,    \* the nodes of simple types; the others are there or not
    Values,    \* the values a node may have when it is there
    Absent,    \* the value of a node that is not there
    Blocks,    \* the addresses that malloc may return for a plcb
    MaxSlots,  \* VAL_MAX_PLOCKS
    MaxId,     \* bound: NCX_MAX_UINT, the last lock id
    Nobody     \* what is read from a block that is free

Above(n) == {a \in Nodes \ {n} : n \in Subtree[a]}

ASSUME TreeAssumption ==
    /\ Subtree \in [Nodes -> SUBSET Nodes]
    /\ \A n \in Nodes : n \in Subtree[n]
    /\ \A n, m \in Nodes : m \in Subtree[n] => Subtree[m] \subseteq Subtree[n]
    /\ \A n, m \in Nodes : \/ m \in Subtree[n]
                           \/ n \in Subtree[m]
                           \/ Subtree[n] \cap Subtree[m] = {}
    /\ \A n, m \in Nodes : m \in Subtree[n] /\ n \in Subtree[m] => n = m
    /\ Leaves \subseteq Nodes
    /\ \A n \in Leaves : Subtree[n] = {n}
    /\ \A n \in Nodes : Absent \notin Values[n]
    /\ \A n \in Nodes \ Leaves : \A v, w \in Values[n] : v = w
    /\ IsFiniteSet(Nodes)

ASSUME BoundAssumption ==
    MaxSlots \in Nat \ {0} /\ MaxId \in Nat \ {0} /\ Nobody \notin Sessions

Parents(n) == {a \in Above(n) : Above(n) = {a} \cup Above(a)}

IsTree(c, N) == \A n \in N : \A m \in Subtree[n] :
                   c[n] = Absent => c[m] = Absent

Contents == {Absent} \cup UNION {Values[n] : n \in Nodes}

Config == {c \in [Nodes -> Contents] :
              /\ \A n \in Nodes : c[n] \in Values[n] \cup {Absent}
              /\ IsTree(c, Nodes)}

VARIABLES
    running,    \* the tree of <running>
    candidate,  \* the tree of <candidate>
    editop,     \* val->editop of its nodes: a node that comes from a message
                \* keeps the operation of the message
    dirty,      \* its nodes with VAL_FL_DIRTY
    deleted,    \* its nodes with VAL_FL_CHILD_DELETED
    plock,      \* val->plock of the nodes of <running>
    cplock,     \* and of <candidate>
    plockQ,     \* cfg->plockQ of <running>
    sid,        \* plock_sesid of a block
    plock_id,   \* plock_id of a block
    result,     \* plock_final_result: the nodes that it points to
    last_id,    \* plock_cb.c
    cfg_state   \* of <running>: "ready" or "plock"

tree == <<running, plock>>
cand == <<candidate, editop, dirty, deleted, cplock>>
locks == <<plockQ, sid, plock_id, cfg_state>>
vars == <<running, candidate, editop, dirty, deleted, plock, cplock, plockQ,
          sid, plock_id, result, last_id, cfg_state>>

EditOp == {"none", "merge", "replace"}
Place == {"running", "candidate", "freed"}

NoSlots == [n \in Nodes |-> {}]
NoOps == [n \in Nodes |-> "none"]

Init ==
    /\ running \in Config
    /\ candidate = running
    /\ editop = NoOps
    /\ dirty = {}
    /\ deleted = {}
    /\ plock = NoSlots
    /\ cplock = NoSlots
    /\ plockQ = {}
    /\ sid = [b \in Blocks |-> Nobody]
    /\ plock_id = [b \in Blocks |-> 0]
    /\ result = [b \in Blocks |-> {}]
    /\ last_id = 0
    /\ cfg_state = "ready"

-----------------------------------------------------------------------------
(* Slots.                                                                  *)

Present(c) == {n \in Nodes : c[n] # Absent}

Slots(slots, N) == UNION {slots[n] : n \in N}

(* The slots of a write that val_write_ok must refuse to s: it compares    *)
(* the owner of each slot with s.  What a freed block says is not known,   *)
(* so such a slot may refuse the write and may let it pass.                *)
Foreign(s, B) == \E b \in B \cap plockQ : sid[b] # s

SlotsUnchecked(s, n) ==   \* mutant: a node with all of its slots in use
    \A m \in Subtree[n] \cap Present(running) : ~Foreign(s, plock[m])

(* val_ok_to_partial_lock looks at the node and below it, never above it.  *)
val_ok_to_partial_lock(s, n) ==
    \A m \in Subtree[n] \cap Present(running) :
        /\ ~Foreign(s, plock[m])
        /\ Cardinality(plock[m]) < MaxSlots

(* val_clear_partial_lock goes down from the root and leaves a branch at   *)
(* the first node that has the lock.                                       *)
val_clear_partial_lock(b) ==
    {n \in Nodes : b \in plock[n] /\ \A a \in Above(n) : b \notin plock[a]}

(* plock_make_final_result: nodes below another selected node are pruned.  *)
plock_make_final_result(R) == {n \in R : Above(n) \cap R = {}}

Point(N, where) == [node : N, at : {where}]

(* The pointers of all results after the nodes N at a place are freed.     *)
Freed(res, N, where) ==
    [b \in Blocks |->
        IF res[b] \cap Point(N, where) = {} THEN res[b]
        ELSE (res[b] \ Point(N, where))
             \cup Point({p.node : p \in res[b] \cap Point(N, where)}, "freed")]

-----------------------------------------------------------------------------
(* Locking, unlocking and the end of a session.                            *)

IdsRestart ==   \* mutant: the ids start again under the locks that are held
    IF last_id < MaxId THEN {last_id + 1} ELSE {1}

(* plock_cb_new: the ids start again only when <running> is not in the     *)
(* partial-lock state.                                                     *)
NextId ==
    IF last_id < MaxId THEN {last_id + 1}
    ELSE IF cfg_state = "plock" THEN {} ELSE {1}

Grantable(s, R) == /\ R # {}
                   /\ \A n \in R : val_ok_to_partial_lock(s, n)

(* <partial-lock>: the select expressions yield the nodes R.               *)
PartialLock(s, R, b) ==
    LET final == plock_make_final_result(R)
    IN  /\ b \notin plockQ
        /\ Grantable(s, final)
        /\ \E i \in NextId : /\ last_id' = i
                             /\ plock_id' = [plock_id EXCEPT ![b] = i]
        /\ plockQ' = plockQ \cup {b}
        /\ sid' = [sid EXCEPT ![b] = s]
        /\ result' = [result EXCEPT ![b] = Point(final, "running")]
        /\ plock' = [n \in Nodes |-> IF n \in final THEN plock[n] \cup {b}
                                     ELSE plock[n]]
        /\ cfg_state' = "plock"
        /\ UNCHANGED <<running, cand>>

(* A <partial-lock> that is refused has used up its id.                    *)
PartialLockDenied(s, R) ==
    /\ ~Grantable(s, plock_make_final_result(R))
    /\ last_id' \in NextId
    /\ UNCHANGED <<tree, cand, locks, result>>

(* The locks leave the queue and the tree, and their blocks are freed.     *)
Drop(B) ==
    /\ plockQ' = plockQ \ B
    /\ plock' = [n \in Nodes |->
                    plock[n] \ {b \in B : n \in val_clear_partial_lock(b)}]
    /\ result' = [b \in Blocks |-> IF b \in B THEN {} ELSE result[b]]
    /\ sid' = [b \in Blocks |-> IF b \in B THEN Nobody ELSE sid[b]]
    /\ plock_id' = [b \in Blocks |-> IF b \in B THEN 0 ELSE plock_id[b]]
    /\ UNCHANGED <<running, cand, last_id>>

PartialUnlock(s, b) ==
    /\ b \in plockQ /\ sid[b] = s
    /\ Drop({b})
    /\ cfg_state' = IF plockQ' = {} THEN "ready" ELSE "plock"

Held(s) == {b \in plockQ : sid[b] = s}

(* cfg_release_partial_locks leaves cfg_state alone.                       *)
EndSession(s) ==
    /\ Held(s) # {}
    /\ Drop(Held(s))
    /\ UNCHANGED cfg_state

-----------------------------------------------------------------------------
(* Edits of <candidate>.  A leaf is checked by the slots of the node that  *)
(* is there; of a container the slots of the node in the message are       *)
(* checked, which has none.                                                *)

Parented(c, n) == \A a \in Above(n) : c[a] # Absent

MergeUnflagged(s, n, v) ==   \* mutant: the merged leaf is not marked
    /\ Parented(candidate, n)
    /\ candidate[n] # v
    /\ ~Foreign(s, cplock[n])
    /\ candidate' = [candidate EXCEPT ![n] = v]
    /\ UNCHANGED <<tree, locks, editop, dirty, deleted, cplock, result, last_id>>

(* operation="merge" on a leaf: val_merge, or the node of the message.     *)
MergeLeaf(s, n, v) ==
    /\ Parented(candidate, n)
    /\ candidate[n] # v
    /\ ~Foreign(s, cplock[n])
    /\ candidate' = [candidate EXCEPT ![n] = v]
    /\ editop' = [editop EXCEPT ![n] = IF candidate[n] = Absent THEN "merge"
                                       ELSE @]
    /\ dirty' = dirty \cup {n}
    /\ UNCHANGED <<tree, locks, deleted, cplock, result, last_id>>

(* The subtree of n in <candidate> is replaced by what c has there.        *)
NewSubtree(n, c, op) ==
    /\ candidate' = [m \in Nodes |-> IF m \in Subtree[n] THEN c[m]
                                     ELSE candidate[m]]
    /\ editop' = [m \in Nodes |->
                     IF m \in Subtree[n] THEN IF c[m] = Absent THEN "none" ELSE op
                     ELSE editop[m]]
    /\ cplock' = [m \in Nodes |-> IF m \in Subtree[n] THEN {} ELSE cplock[m]]
    /\ result' = Freed(result, Subtree[n], "candidate")
    /\ UNCHANGED <<tree, locks, last_id>>

(* operation="merge" of a container that is not there yet.                 *)
MergeSubtree(n, c) ==
    /\ n \notin Leaves
    /\ candidate[n] = Absent /\ Parented(candidate, n)
    /\ c[n] # Absent
    /\ NewSubtree(n, c, "merge")
    /\ dirty' = dirty \cup {n}
    /\ UNCHANGED deleted

(* operation="replace" of a container; where nothing differs nothing is    *)
(* applied.                                                                *)
ReplaceSubtree(s, n, c) ==
    /\ n \notin Leaves
    /\ c[n] # Absent /\ Parented(candidate, n)
    /\ \E m \in Subtree[n] : c[m] # candidate[m]
    /\ \A x \in Leaves \cap Subtree[n] :
          c[x] # Absent => ~Foreign(s, cplock[x])
    /\ NewSubtree(n, c, "replace")
    /\ dirty' = (dirty \ Subtree[n]) \cup {n}
    /\ deleted' = deleted \ Subtree[n]

Delete(s, n) ==
    /\ candidate[n] # Absent
    /\ n \in Leaves => ~Foreign(s, cplock[n])
    /\ NewSubtree(n, [m \in Nodes |-> Absent], "none")
    /\ dirty' = (dirty \ Subtree[n]) \cup Parents(n)
    /\ deleted' = (deleted \ Subtree[n]) \cup Parents(n)

(* cfg_fill_candidate_from_running: a clone has the slots of its source.   *)
DiscardChanges ==
    /\ candidate' = running
    /\ editop' = NoOps
    /\ dirty' = {}
    /\ deleted' = {}
    /\ cplock' = plock
    /\ result' = Freed(result, Nodes, "candidate")
    /\ UNCHANGED <<tree, locks, last_id>>

-----------------------------------------------------------------------------
(* <commit>: a walk over <candidate>.                                      *)

Both == Present(candidate) \cap Present(running)

(* The operation in effect: that of the node or of the nearest node above  *)
(* it that has one, OP_EDITOP_COMMIT if there is none.                     *)
CurEditop(n) ==
    LET own == {a \in {n} \cup Above(n) : editop[a] # "none"}
        near == {a \in own : own \subseteq {a} \cup Above(a)}
    IN  IF own = {} THEN "commit" ELSE editop[CHOOSE a \in near : TRUE]

(* invoke_btype_cb skips a node without edits, and what is below it.       *)
Visited == {n \in Present(candidate) :
               \A a \in {n} \cup Above(n) :
                  CurEditop(a) # "commit" \/ Subtree[a] \cap dirty # {}}

(* check_commit_deletes: the nodes of <running> without a match, below a   *)
(* node that is flagged (or below the root, whose flag is set with them).  *)
CommitDeletes ==
    {n \in Present(running) \ Present(candidate) :
        Parents(n) \subseteq Both \cap deleted}

(* agt_apply_this_node and the like in apply_write_val.                    *)
ApplyHere(n) ==
    LET differs == \E m \in Subtree[n] : candidate[m] # running[m]
    IN  CASE CurEditop(n) = "commit"  -> n \in dirty \ deleted
          [] CurEditop(n) = "merge"   -> \/ running[n] = Absent
                                         \/ n \in Leaves /\ differs
          [] CurEditop(n) = "replace" -> differs

Edits == {n \in Visited : ApplyHere(n) /\ \A a \in Above(n) : ~ApplyHere(a)}

Merged   == Edits \cap Both \cap Leaves
Added    == Edits \ Both

SlotsDropped(edits) == {}   \* mutant: the slots stay with the old node

(* A container that takes the place of another keeps the slots of the old  *)
(* one (val_check_swap_resnode).                                           *)
SlotsSwapped(edits) == (edits \cap Both) \ Leaves

Replaced == SlotsSwapped(Edits)

Below(N) == UNION {Subtree[n] : n \in N}

DeleteTopOnly(s, n) ==   \* mutant: what is deleted with the node is not checked
    ~Foreign(s, Slots(plock, Above(n) \cup {n}))

commit_delete_allowed(s, n) ==
    ~Foreign(s, Slots(plock, Above(n) \cup Subtree[n]))

(* agt_val_check_commit_edits.  A leaf is checked by the slots of <running>, *)
(* a container by those of <candidate>, with everything below it unless it *)
(* is only merged.                                                         *)
agt_val_check_commit_edits(s) ==
    /\ \A n \in CommitDeletes : commit_delete_allowed(s, n)
    /\ \A n \in Visited \cap Both \cap Leaves : ~Foreign(s, plock[n])
    /\ \A n \in Visited \ Leaves :
          \/ CurEditop(n) = "commit" /\ n \notin dirty
          \/ ~Foreign(s, Slots(cplock, IF CurEditop(n) = "merge" THEN {n}
                                       ELSE Subtree[n]))

(* The pointers of the results.  val_check_delete_resnode drops those of   *)
(* the locks of the deleted node; val_check_swap_resnode moves those of a  *)
(* leaf to the node of <candidate>, and those of a replaced node to the    *)
(* node that is now in <running>.                                          *)
Swapped == {n \in Merged : CurEditop(n) # "merge"}

Repointed ==
    LET dropped == [b \in Blocks |->
            result[b] \ Point(Below({n \in CommitDeletes : b \in plock[n]}),
                              "running")]
        swapped == [b \in Blocks |->
            {IF p.at = "running" /\ p.node \in Swapped
             THEN [p EXCEPT !.at = "candidate"] ELSE p : p \in dropped[b]}]
        gone == Below(CommitDeletes) \cup (Below(Replaced) \ Replaced)
    IN  Freed(swapped, gone, "running")

(* commit_edit clears the flags and the operation of the node it took,     *)
(* also the operations above a leaf; a node that was moved to <running> is *)
(* cloned back to <candidate>.                                             *)
Commit(s) ==
    LET edits    == Edits
        replaced == SlotsSwapped(edits)
        moved    == Below(edits \ Merged)
        gone     == Below(CommitDeletes)
    IN  /\ agt_val_check_commit_edits(s)
        /\ running' = [n \in Nodes |-> CASE n \in edits \cup moved -> candidate[n]
                                         [] n \in gone             -> Absent
                                         [] OTHER                  -> running[n]]
        /\ plock' = [n \in Nodes |-> CASE n \in moved \ replaced -> cplock[n]
                                       [] n \in gone \ moved     -> {}
                                       [] OTHER                  -> plock[n]]
        /\ editop' = [n \in Nodes |->
                         IF n \in edits \/ Merged \cap Subtree[n] # {} THEN "none"
                         ELSE editop[n]]
        /\ dirty' = dirty \ edits
        /\ deleted' = deleted \ edits
        /\ cplock' = [n \in Nodes |->
                         IF n \in replaced \cup Swapped THEN plock[n]
                         ELSE cplock[n]]
        /\ result' = Repointed
        /\ UNCHANGED <<candidate, locks, last_id>>

-----------------------------------------------------------------------------
Next ==
    \/ \E s \in Sessions :
          \/ \E R \in SUBSET Present(running) :
                \/ \E b \in Blocks : PartialLock(s, R, b)
                \/ PartialLockDenied(s, R)
          \/ \E b \in Blocks : PartialUnlock(s, b)
          \/ EndSession(s)
          \/ \E n \in Leaves, v \in Contents \ {Absent} :
                v \in Values[n] /\ MergeLeaf(s, n, v)
          \/ \E n \in Nodes, c \in Config : ReplaceSubtree(s, n, c)
          \/ \E n \in Nodes : Delete(s, n)
          \/ Commit(s)
    \/ \E n \in Nodes, c \in Config : MergeSubtree(n, c)
    \/ DiscardChanges

Spec == Init /\ [][Next]_vars

-----------------------------------------------------------------------------
TypeOK ==
    /\ running \in Config
    /\ candidate \in Config
    /\ editop \in [Nodes -> EditOp]
    /\ dirty \subseteq Present(candidate)
    /\ deleted \subseteq dirty \ Leaves
    /\ plock \in [Nodes -> SUBSET Blocks]
    /\ cplock \in [Nodes -> SUBSET Blocks]
    /\ \A n \in Nodes : Cardinality(plock[n]) <= MaxSlots
    /\ \A n \in Nodes \ Present(running) : plock[n] = {}
    /\ \A n \in Nodes \ Present(candidate) : cplock[n] = {} /\ editop[n] = "none"
    /\ plockQ \subseteq Blocks
    /\ sid \in [Blocks -> Sessions \cup {Nobody}]
    /\ plock_id \in [Blocks -> 0..MaxId]
    /\ result \in [Blocks -> SUBSET [node : Nodes, at : Place]]
    /\ last_id \in 0..MaxId
    /\ cfg_state \in {"ready", "plock"}

(* The nodes of <running> that a lock reports as locked have the lock in    *)
(* one of their slots, whatever commits replace, swap or delete:           *)
(* plock_final_result and val->plock agree (agt_state.c:387).  The other   *)
(* direction fails: a slot may outlive its lock in <candidate>.            *)
ReportedLocked ==
    \A b \in plockQ : \A p \in result[b] :
        p.at = "running" => b \in plock[p.node]

(* Two locks never have the same id, also after the ids have started again;*)
(* and while there is a lock, <running> is in the partial-lock state, which *)
(* keeps <lock> out.                                                       *)
LocksTracked ==
    /\ \A b, c \in plockQ : plock_id[b] = plock_id[c] => b = c
    /\ plockQ # {} => cfg_state = "plock"

(* A node of <candidate> without a mark, on it or above it, is the same in *)
(* <running>: the marks that a commit goes by cover every edit.            *)
UnmarkedAgree ==
    \A n \in Present(candidate) :
        (\A a \in {n} \cup Above(n) : editop[a] = "none" /\ a \notin dirty)
            => candidate[n] = running[n]

(* A commit keeps every node that another session has locked, with its     *)
(* value and with the lock, unless a node above it is replaced as a whole. *)
LockedKept ==
    [][\A s \in Sessions, n \in Nodes :
          /\ Foreign(s, plock[n])
          /\ running'[n] # running[n] \/ ~(plock[n] \subseteq plock'[n])
          /\ Commit(s)
          => n \in Below(Replaced) \ Replaced]_vars

(* What check_commit_deletes says: "go through running config; if the      *)
(* matching node is not in the candidate, then delete that node in the     *)
(* running config as well".                                                *)
CommitApplies ==
    [][\A s \in Sessions : Commit(s) => running' = candidate]_vars
=============================================================================
