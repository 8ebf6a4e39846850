-------------------------- MODULE EditTransaction --------------------------
(***************************************************************************)
(* One transaction of agt_val.c that writes <running>: an <edit-config>,   *)
(* the <commit> of <candidate> or a restored backup.  The edits are        *)
(* applied to the tree one by one, each with an undo record, then the      *)
(* COMMIT callbacks of the instrumentation (SIL) are called record by      *)
(* record; if anything is refused every record is rolled back.             *)
(*                                                                         *)
(* An action is the handling of one edit or of one undo record.  A message *)
(* gives values to the nodes of one case of a choice only; when-stmts,     *)
(* schema defaults, virtual nodes and the order of lists are left out.     *)
(*                                                                         *)
(* The instrumentation is external: APPLY reserves the new contents,       *)
(* COMMIT activates them, ROLLBACK releases what APPLY reserved, and a     *)
(* callback that refuses has done nothing and holds nothing.               *)
(***************************************************************************)
EXTENDS Naturals, Sequences, FiniteSets

CONSTANTS
    Nodes,       \* the data nodes that configurations may have
    Subtree,     \* a node and what is below it
    Rivals,      \* the siblings of a node in other cases of its choice
    Module,      \* the module whose namespace a node is in
    Registered,  \* the nodes whose object has a callback (obj->cbset)
    Values,      \* the values a node may have when it is there
    Absent,      \* the value of a node that is not there
    NoPend,      \* nothing is reserved
    Refuses,     \* which calls may fail
    MaxLoose     \* bound: loose nodes a transaction may start with

Above(n) == {a \in Nodes \ {n} : n \in Subtree[a]}

(* The tree and its choices: subtrees do not overlap, and rivals are       *)
(* siblings.                                                               *)
ASSUME TreeAssumption ==
    /\ Subtree \in [Nodes -> SUBSET Nodes]
    /\ \A n \in Nodes : n \in Subtree[n]
    /\ \A n, m \in Nodes : m \in Subtree[n] => Subtree[m] \subseteq Subtree[n]
    /\ \A n, m \in Nodes : \/ m \in Subtree[n]
                           \/ n \in Subtree[m]
                           \/ Subtree[n] \cap Subtree[m] = {}
    /\ \A n, m \in Nodes : m \in Subtree[n] /\ n \in Subtree[m] => n = m
    /\ Rivals \in [Nodes -> SUBSET Nodes]
    /\ \A n \in Nodes : \A r \in Rivals[n] : /\ r # n
                                             /\ n \in Rivals[r]
                                             /\ Above(r) = Above(n)

(* A tree in memory has finitely many nodes.                               *)
ASSUME FiniteAssumption == IsFiniteSet(Nodes)

Contents == {Absent} \cup UNION {Values[n] : n \in Nodes}

(* Any objects may have callbacks.  "apply", "commit", "rollback": that    *)
(* callback; "reverse": one of the callbacks that undo a commit;           *)
(* "invalid": agt_val_root_check.                                          *)
ASSUME CallbackAssumption ==
    /\ Registered \subseteq Nodes
    /\ \A n \in Nodes : Absent \notin Values[n]
    /\ NoPend \notin Contents
    /\ Refuses \subseteq {"apply", "commit", "rollback", "reverse", "invalid"}
    /\ MaxLoose \in Nat

(* The trees the parser and agt_val_root_check let through.                *)
Config ==
    {c \in [Nodes -> Contents] :
        /\ \A n \in Nodes : c[n] \in Values[n] \cup {Absent}
        /\ \A n \in Nodes : \A m \in Subtree[n] :
              c[n] = Absent => c[m] = Absent
        /\ \A n \in Nodes : \A r \in Rivals[n] :
              c[n] # Absent => c[r] = Absent}

VARIABLES
    phase,    \* "idle", or the callbacks that are called: "apply",
              \* "commit" or "rollback"
    running,  \* target->root, without the nodes marked as deleted
    before,   \* <running> when the transaction started
    target,   \* what <running> is after it: the tree with the new nodes
    todo,     \* the nodes with an edit that is not applied yet
    replace,  \* the nodes with an explicit operation="replace"
    undoQ,    \* txcb->undoQ
    pos,      \* the record that the walk over undoQ has come to
    conf,     \* what the instrumentation of a node has activated
    pend,     \* and what it has reserved
    loose     \* nodes whose instrumentation was left as it is

data == <<running, before, target, todo, replace>>
sil == <<conf, pend, loose>>
vars == <<phase, running, before, target, todo, replace, undoQ, pos,
          conf, pend, loose>>

Phase == {"idle", "apply", "commit", "rollback"}

Init ==
    /\ phase = "idle"
    /\ running \in Config
    /\ before = running
    /\ target = running
    /\ todo = {}
    /\ replace = {}
    /\ undoQ = <<>>
    /\ pos = 1
    /\ conf = running
    /\ pend = [n \in Nodes |-> NoPend]
    /\ loose = {}

(* A restart: <running> is loaded again, and the callbacks with it.        *)
Restart ==
    /\ phase = "idle"
    /\ running' \in Config
    /\ before' = running'
    /\ target' = running'
    /\ conf' = running'
    /\ pend' = [n \in Nodes |-> NoPend]
    /\ loose' = {}
    /\ UNCHANGED <<phase, todo, replace, undoQ, pos>>

-----------------------------------------------------------------------------
(* The callbacks of one edit.                                              *)

Changed(n, new, old) == \E m \in Subtree[n] : new[m] # old[m]

(* From a node upwards, parents are looked at as long as they are in the   *)
(* same namespace.                                                         *)
Handlers(n) ==
    {r \in Registered : /\ n \in Subtree[r]
                        /\ \A m \in Subtree[r] :
                              n \in Subtree[m] => Module[m] = Module[n]}

(* handle_user_callback, handle_subtree_callback: the callback of the node *)
(* or of a parent, then those of the nodes below that have changed (all    *)
(* children, after an explicit replace), down to the ones that are deleted *)
(* or have no callback.                                                    *)
Points(t, new, old, all) ==
    IF Handlers(t) = {} THEN {}
    ELSE {t} \cup
         {m \in (Registered \cap Subtree[t]) \ {t} :
             /\ \A a \in Above(m) \cap Subtree[t] : new[a] # Absent
             /\ (Above(m) \cap Subtree[t]) \ {t} \subseteq Registered
             /\ \/ Changed(m, new, old)
                \/ all /\ Above(m) = {t} \cup Above(t) /\ new[m] # Absent}

(* The nodes a callback is about: a deleted node takes its subtree along.  *)
Covers(a, new) ==
    IF new[a] = Absent THEN Subtree[a]
                       ELSE {n \in Subtree[a] : Handlers(n) = Handlers(a)}

CoveredBy(P, new) == UNION {Covers(a, new) : a \in P}

Reserve(P, new) ==
    LET C == CoveredBy(P, new)
    IN  [n \in Nodes |-> IF n \in C THEN new[n] ELSE pend[n]]

Activate(P, new) ==
    LET C == CoveredBy(P, new)
    IN  [n \in Nodes |-> IF n \in C THEN new[n] ELSE conf[n]]

Release(P, new) ==
    LET C == CoveredBy(P, new)
    IN  [n \in Nodes |-> IF n \in C THEN NoPend ELSE pend[n]]

-----------------------------------------------------------------------------
(* Which node gets an edit.  A parent is there before and after, or the    *)
(* edit would be its own; what differs is under an edit or in another case *)
(* of a choice; operation="remove" may name a node that is not there.      *)

Edits(t, new, old) ==
    /\ \A a \in Above(t) : new[a] # Absent /\ old[a] # Absent
    /\ Changed(t, new, old) \/ (new[t] = Absent /\ old[t] = Absent)

(* The nodes whose subtrees an edit changes: add_child_clean deletes the   *)
(* other cases.                                                            *)
Tops(t, new, old) ==
    {t} \cup (IF new[t] # Absent /\ old[t] = Absent THEN Rivals[t] ELSE {})

Starts(new, S) ==
    /\ S # {}
    /\ \A t \in S : Edits(t, new, running) /\ Above(t) \cap S = {}
    /\ \A n \in Nodes : new[n] # running[n] =>
          \E t \in S : \E u \in Tops(t, new, running) : n \in Subtree[u]

(* The edits that an operation="replace" may be asked for.                 *)
Replaceable(new, S) == {t \in S : new[t] # Absent /\ running[t] # Absent}

Start ==
    /\ phase = "idle"
    /\ Cardinality(loose) <= MaxLoose
    /\ phase' = "apply"
    /\ before' = running
    /\ \E new \in Config : \E S \in SUBSET Nodes :
          /\ Starts(new, S)
          /\ target' = new
          /\ todo' = S
          /\ replace' \in SUBSET Replaceable(new, S)
    /\ UNCHANGED <<running, undoQ, pos, sil>>

(* apply_write_val.  The record keeps what the edit is about to change:    *)
(* the node, and the nodes of other cases (extra_deleteQ) that are there.  *)
ExtraDeletes(t) ==
    {r \in Tops(t, target, running) \ {t} : running[r] # Absent}

Domain(t) == UNION {Subtree[u] : u \in {t} \cup ExtraDeletes(t)}

UndoRec(t) == [node |-> t, cur |-> [n \in Domain(t) |-> running[n]],
               all |-> t \in replace, commit_res |-> "skipped"]

Applied(t) ==
    [n \in Nodes |-> IF n \in Domain(t) THEN target[n] ELSE running[n]]

ApplyPoints(t) == Points(t, target, running, t \in replace)

IsThere(t) == running[t] # Absent \/ target[t] # Absent

ApplyEdit(t) ==
    /\ phase = "apply"
    /\ t \in todo
    /\ IsThere(t)
    /\ running' = Applied(t)
    /\ undoQ' = Append(undoQ, UndoRec(t))
    /\ todo' = todo \ {t}
    /\ pend' = Reserve(ApplyPoints(t), target)
    /\ UNCHANGED <<phase, before, target, replace, pos, conf, loose>>

(* A remove of what is not there, or not any more: APPLY is called, and    *)
(* there is no record that could lead to another call.                     *)
RemoveNothing(t) ==
    /\ phase = "apply"
    /\ t \in todo
    /\ ~IsThere(t)
    /\ todo' = todo \ {t}
    /\ pend' = Reserve(ApplyPoints(t), target)
    /\ loose' = loose \cup CoveredBy(ApplyPoints(t), target)
    /\ UNCHANGED <<phase, running, before, target, replace, undoQ, pos, conf>>

AttemptRollback ==
    /\ phase' = "rollback"
    /\ pos' = 1
    /\ todo' = {}

(* APPLY is refused at r, after the callbacks of A: there is no record of  *)
(* the edit, and nobody tells the callbacks of A.                          *)
RefuseApply(t) ==
    /\ phase = "apply"
    /\ t \in todo
    /\ "apply" \in Refuses
    /\ \E r \in ApplyPoints(t) : \E A \in SUBSET (ApplyPoints(t) \ {r}) :
          /\ \A a \in A \cup {r} : Above(a) \cap ApplyPoints(t) \subseteq A
          /\ pend' = Reserve(A, target)
          /\ loose' = loose \cup CoveredBy(A, target)
    /\ AttemptRollback
    /\ UNCHANGED <<running, before, target, replace, undoQ, conf>>

(* agt_val_root_check                                                      *)
RootCheckFails ==
    /\ phase = "apply"
    /\ todo = {}
    /\ "invalid" \in Refuses
    /\ AttemptRollback
    /\ UNCHANGED <<running, before, target, replace, undoQ, sil>>

AttemptCommit ==
    /\ phase = "apply"
    /\ todo = {}
    /\ phase' = "commit"
    /\ pos' = 1
    /\ UNCHANGED <<data, undoQ, sil>>

-----------------------------------------------------------------------------
(* attempt_commit: the COMMIT callbacks, record by record; commit_edit     *)
(* only cleans up, the tree has the new contents already.                  *)

Rec == undoQ[pos]

RecPoints == Points(Rec.node, target, Rec.cur, Rec.all)

CommitEdit ==
    /\ phase = "commit"
    /\ pos <= Len(undoQ)
    /\ undoQ' = [undoQ EXCEPT ![pos].commit_res = "ok"]
    /\ pos' = pos + 1
    /\ conf' = Activate(RecPoints, target)
    /\ pend' = Release(RecPoints, target)
    /\ UNCHANGED <<phase, data, loose>>

(* The callbacks of a record that are not the one that refused have either *)
(* activated the edit or wait for another call: neither is put right.      *)
RefuseCommit ==
    /\ phase = "commit"
    /\ pos <= Len(undoQ)
    /\ "commit" \in Refuses
    /\ undoQ' = [undoQ EXCEPT ![pos].commit_res = "failed"]
    /\ \E r \in RecPoints :
          /\ pend' = Release({r}, target)
          /\ loose' = loose \cup CoveredBy(RecPoints \ {r}, target)
    /\ AttemptRollback
    /\ UNCHANGED <<running, before, target, replace, conf>>

EndedMidway ==   \* mutant: the walk is not reset
    /\ phase' = "idle"
    /\ before' = running
    /\ target' = running
    /\ replace' = {}
    /\ undoQ' = <<>>
    /\ UNCHANGED <<running, todo, pos, conf, pend>>

(* The transaction is over and its control block is freed.                 *)
Ended ==
    /\ phase' = "idle"
    /\ before' = running
    /\ target' = running
    /\ replace' = {}
    /\ undoQ' = <<>>
    /\ pos' = 1
    /\ UNCHANGED <<running, todo, conf, pend>>

(* finish_extra_deletes frees the nodes of other cases without a callback. *)
CommitDone ==
    /\ phase = "commit"
    /\ pos > Len(undoQ)
    /\ loose' = loose \cup UNION {DOMAIN undoQ[i].cur \ Subtree[undoQ[i].node] :
                                     i \in 1..Len(undoQ)}
    /\ Ended

-----------------------------------------------------------------------------
(* attempt_rollback: rollback_edit for every record, from the first to the *)
(* last; a callback that refuses stops neither the walk nor the restore.   *)

RestoredNode ==   \* mutant: the nodes of other cases stay deleted
    [n \in Nodes |-> IF n \in Subtree[Rec.node] THEN Rec.cur[n] ELSE running[n]]

Restored ==
    [n \in Nodes |-> IF n \in DOMAIN Rec.cur THEN Rec.cur[n] ELSE running[n]]

RollbackEdit(commit_res) ==
    /\ phase = "rollback"
    /\ pos <= Len(undoQ)
    /\ Rec.commit_res = commit_res
    /\ running' = Restored
    /\ pos' = pos + 1
    /\ UNCHANGED <<phase, before, target, todo, replace, undoQ>>

(* COMMIT was not called: ROLLBACK.                                        *)
ReleaseEdit ==
    /\ RollbackEdit("skipped")
    /\ pend' = Release(RecPoints, target)
    /\ UNCHANGED <<conf, loose>>

RefusalSilences ==   \* mutant: the other callbacks are not called after a refusal
    /\ phase = "rollback"
    /\ pos <= Len(undoQ)
    /\ Rec.commit_res = "skipped"
    /\ "rollback" \in Refuses
    /\ RecPoints # {}
    /\ running' = before
    /\ pos' = Len(undoQ) + 1
    /\ loose' = loose \cup CoveredBy(RecPoints, target)
    /\ UNCHANGED <<phase, before, target, todo, replace, undoQ, conf, pend>>

RefuseRollback ==
    /\ RollbackEdit("skipped")
    /\ "rollback" \in Refuses
    /\ RecPoints # {}
    /\ loose' = loose \cup CoveredBy(RecPoints, target)
    /\ UNCHANGED <<conf, pend>>

(* reverse_edit: APPLY and COMMIT of the opposite edit, then of a create   *)
(* for every node of another case that has a callback of its own.          *)
ReversePoints ==
    Points(Rec.node, Restored, running, FALSE) \cup
    UNION {Points(r, Restored, running, FALSE) :
              r \in (DOMAIN Rec.cur \ Subtree[Rec.node])
                    \cap Rivals[Rec.node] \cap Registered}

ReverseTreeOnly ==   \* mutant: only the tree is put back
    /\ RollbackEdit("ok")
    /\ pend' = Release(ReversePoints, Restored)
    /\ UNCHANGED <<conf, loose>>

ReverseEdit ==
    /\ RollbackEdit("ok")
    /\ conf' = Activate(ReversePoints, Restored)
    /\ pend' = Release(ReversePoints, Restored)
    /\ UNCHANGED loose

RefuseReverse ==
    /\ RollbackEdit("ok")
    /\ "reverse" \in Refuses
    /\ ReversePoints # {}
    /\ loose' = loose \cup CoveredBy(ReversePoints, Restored)
    /\ UNCHANGED <<conf, pend>>

(* The record that failed: its callbacks are not called again.             *)
RestoreFailed ==
    /\ RollbackEdit("failed")
    /\ UNCHANGED sil

RollbackDone ==
    /\ phase = "rollback"
    /\ pos > Len(undoQ)
    /\ UNCHANGED loose
    /\ Ended

Next ==
    \/ Restart
    \/ Start
    \/ \E t \in Nodes : ApplyEdit(t) \/ RemoveNothing(t) \/ RefuseApply(t)
    \/ RootCheckFails
    \/ AttemptCommit
    \/ CommitEdit \/ RefuseCommit \/ CommitDone
    \/ ReleaseEdit \/ RefuseRollback
    \/ ReverseEdit \/ RefuseReverse
    \/ RestoreFailed
    \/ RollbackDone

Spec == Init /\ [][Next]_vars

-----------------------------------------------------------------------------
(* The values the variables may have: a record holds contents of the nodes *)
(* it will put back, and the walk stays on undoQ.                          *)

UndoRecs ==
    [node: Nodes, cur: UNION {[D -> Contents] : D \in SUBSET Nodes},
     all: BOOLEAN, commit_res: {"skipped", "ok", "failed"}]

TypeOK ==
    /\ phase \in Phase
    /\ running \in [Nodes -> Contents]
    /\ before \in Config
    /\ target \in Config
    /\ todo \subseteq Nodes
    /\ replace \subseteq Nodes
    /\ undoQ \in Seq(UndoRecs)
    /\ pos \in 1..Len(undoQ) + 1
    /\ conf \in [Nodes -> Contents]
    /\ pend \in [Nodes -> Contents \cup {NoPend}]
    /\ loose \subseteq Nodes

(* A transaction leaves <running> with all its edits if it succeeds, and   *)
(* as it was if it is rolled back, whatever the callbacks answer to that.  *)
AllOrNothing ==
    [][phase # "idle" /\ phase' = "idle" =>
          running' = IF phase = "rollback" THEN before ELSE target]_vars

(* After a transaction every reservation has been activated or released:   *)
(* each callback that accepted APPLY got its COMMIT or its ROLLBACK, except *)
(* those of an edit where another callback refused, and of a remove of     *)
(* what was not there.                                                     *)
Settled ==
    phase = "idle" => \A n \in Nodes \ loose : pend[n] = NoPend

(* The nodes whose callback every edit reaches, also one of a node far     *)
(* above: those of the parents lead down to it without a gap.              *)
Reached(n) ==
    Handlers(n) # {} /\ \A r \in Handlers(n) : Above(r) \subseteq Registered

(* After a transaction the instrumentation of every node that edits reach  *)
(* from everywhere runs the configuration that <running> shows: committed  *)
(* edits of a transaction that failed later were undone in it as well.     *)
Agrees ==
    phase = "idle" =>
        \A n \in Nodes \ loose : Reached(n) => conf[n] = running[n]
=============================================================================
