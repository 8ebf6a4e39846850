----------------------- MODULE EditTransaction_proofs -----------------------
(***************************************************************************)
(* Proofs about EditTransaction, for every tree, every choice in it and    *)
(* whatever the callbacks answer: types, and that a transaction leaves     *)
(* <running> with all of its edits or with none.                           *)
(***************************************************************************)
EXTENDS EditTransaction, SequenceTheorems, TLAPS

(* The edits that are left stand beside each other, below nodes that stay. *)
Apart ==
    \A t \in todo : /\ Above(t) \cap todo = {}
                    /\ \A a \in Above(t) : target[a] # Absent

(* What an edit will change is as it was, or it has been deleted already   *)
(* together with another case, as this edit would have done.               *)
Whole(u) ==
    \/ \A n \in Subtree[u] : running[n] = before[n]
    \/ \A n \in Subtree[u] : running[n] = Absent /\ target[n] = Absent

Ready ==
    \A t \in todo : \A u \in Tops(t, target, before) : Whole(u)

(* What is not yet as it is to be is under an edit that is left.           *)
Complete ==
    \A n \in Nodes : running[n] # target[n] =>
        \E t \in todo : \E u \in Tops(t, target, before) : n \in Subtree[u]

(* The records hold what was there before, and what the rollback has yet   *)
(* to put back is in a record that it has yet to come to.                  *)
Kept ==
    \A i \in 1..Len(undoQ) : \A n \in DOMAIN undoQ[i].cur :
        undoQ[i].cur[n] = before[n]

First == IF phase = "rollback" THEN pos ELSE 1

Undoable ==
    \A n \in Nodes : running[n] # before[n] =>
        \E i \in First..Len(undoQ) : n \in DOMAIN undoQ[i].cur

Phases ==
    /\ phase \in {"apply", "commit"} => Complete
    /\ phase # "apply" => todo = {}
    /\ phase = "idle" => undoQ = <<>>

EditInv == TypeOK /\ Apart /\ Ready /\ Kept /\ Undoable /\ Phases

-----------------------------------------------------------------------------
(* The tree                                                                *)

LEMMA TreeFacts ==
    /\ \A n \in Nodes : Subtree[n] \subseteq Nodes /\ n \in Subtree[n]
    /\ \A n \in Nodes : \A r \in Rivals[n] :
          r \in Nodes /\ r # n /\ n \in Rivals[r] /\ Above(r) = Above(n)
    /\ \A n, m \in Nodes : Subtree[n] \cap Subtree[m] # {} =>
          n = m \/ n \in Above(m) \/ m \in Above(n)
BY TreeAssumption DEF Above

LEMMA ConfigFacts ==
    ASSUME NEW c \in Config
    PROVE  /\ c \in [Nodes -> Contents]
           /\ \A n \in Nodes : \A m \in Subtree[n] : c[n] = Absent => c[m] = Absent
           /\ \A n \in Nodes : \A r \in Rivals[n] : c[n] # Absent => c[r] = Absent
BY DEF Config

LEMMA TopsFacts ==
    ASSUME NEW t \in Nodes, NEW new, NEW old, NEW u \in Tops(t, new, old)
    PROVE  /\ u \in Nodes
           /\ Above(u) = Above(t)
           /\ u = t \/ (new[t] # Absent /\ old[t] = Absent /\ u \in Rivals[t])
BY TreeFacts DEF Tops

(* Two edits that stand beside each other change disjoint subtrees, or the *)
(* very same one: a node that one deletes and the other replaces by a      *)
(* node of another case.                                                   *)
LEMMA TopsApart ==
    ASSUME TypeOK, Apart,
           NEW t \in todo, NEW s \in todo, t # s,
           NEW u \in Tops(t, target, before), NEW w \in Tops(s, target, before),
           u # w
    PROVE  Subtree[u] \cap Subtree[w] = {}
<1>1. t \in Nodes /\ s \in Nodes /\ target \in Config
  BY DEF TypeOK
<1>2. /\ u \in Nodes /\ Above(u) = Above(t)
      /\ u = t \/ (target[t] # Absent /\ u \in Rivals[t])
      /\ w \in Nodes /\ Above(w) = Above(s)
      /\ w = s \/ (target[s] # Absent /\ w \in Rivals[s])
  BY <1>1, TopsFacts
<1>3. ASSUME u \in Above(w) PROVE FALSE
  <2>1. target[u] # Absent /\ u # t
    BY <1>2, <1>3 DEF Apart
  <2> QED
    BY <2>1, <1>1, <1>2, ConfigFacts
<1>4. ASSUME w \in Above(u) PROVE FALSE
  <2>1. target[w] # Absent /\ w # s
    BY <1>2, <1>4 DEF Apart
  <2> QED
    BY <2>1, <1>1, <1>2, ConfigFacts
<1> QED
  BY <1>2, <1>3, <1>4, TreeFacts

-----------------------------------------------------------------------------
(* Sequences of records                                                    *)

LEMMA AppendFacts ==
    ASSUME NEW q \in Seq(UndoRecs), NEW r \in UndoRecs
    PROVE  /\ Append(q, r) \in Seq(UndoRecs)
           /\ Len(Append(q, r)) = Len(q) + 1
           /\ Len(q) \in Nat
           /\ \A i \in 1..Len(q) : Append(q, r)[i] = q[i]
           /\ Append(q, r)[Len(q) + 1] = r
BY AppendProperties, LenProperties

LEMMA AnswerFacts ==
    ASSUME NEW q \in Seq(UndoRecs), NEW k \in 1..Len(q),
           NEW res \in {"skipped", "ok", "failed"},
           NEW p, p = [q EXCEPT ![k].commit_res = res]
    PROVE  /\ p \in Seq(UndoRecs)
           /\ Len(p) = Len(q)
           /\ \A i \in 1..Len(q) : p[i].cur = q[i].cur
<1> DEFINE r == [q[k] EXCEPT !.commit_res = res]
<1>1. q[k] \in UndoRecs
  BY ElementOfSeq
<1>2. r \in UndoRecs /\ r.cur = q[k].cur
  BY <1>1 DEF UndoRecs
<1>3. p = [q EXCEPT ![k] = r]
  OBVIOUS
<1> HIDE DEF r
<1>4. p \in Seq(UndoRecs) /\ Len(p) = Len(q)
      /\ \A i \in 1..Len(q) : p[i] = IF i = k THEN r ELSE q[i]
  BY <1>2, <1>3, ExceptSeq
<1> QED
  BY <1>2, <1>4

LEMMA RecFacts ==
    ASSUME TypeOK, NEW i \in 1..Len(undoQ)
    PROVE  /\ undoQ[i] \in UndoRecs
           /\ undoQ[i].cur \in [DOMAIN undoQ[i].cur -> Contents]
           /\ DOMAIN undoQ[i].cur \subseteq Nodes
<1>1. undoQ[i] \in UndoRecs
  BY ElementOfSeq DEF TypeOK
<1>2. undoQ[i].cur \in UNION {[D -> Contents] : D \in SUBSET Nodes}
  BY <1>1 DEF UndoRecs
<1>3. PICK D \in SUBSET Nodes : undoQ[i].cur \in [D -> Contents]
  BY <1>2
<1>4. DOMAIN undoQ[i].cur = D
  BY <1>3
<1> QED
  BY <1>1, <1>3, <1>4

-----------------------------------------------------------------------------
(* What the callbacks do to the instrumentation keeps its type             *)

LEMMA AnswerTypes ==
    ASSUME TypeOK, NEW P, NEW new \in [Nodes -> Contents]
    PROVE  /\ Reserve(P, new) \in [Nodes -> Contents \cup {NoPend}]
           /\ Activate(P, new) \in [Nodes -> Contents]
           /\ Release(P, new) \in [Nodes -> Contents \cup {NoPend}]
BY DEF TypeOK, Reserve, Activate, Release

LEMMA CoversNodes ==
    ASSUME NEW P \in SUBSET Nodes, NEW new
    PROVE  CoveredBy(P, new) \subseteq Nodes
BY TreeFacts DEF CoveredBy, Covers

LEMMA PointsNodes ==
    ASSUME NEW t \in Nodes, NEW new, NEW old, NEW all
    PROVE  Points(t, new, old, all) \subseteq Nodes
BY CallbackAssumption DEF Points

LEMMA RestoredType ==
    ASSUME TypeOK, pos \in 1..Len(undoQ)
    PROVE  Restored \in [Nodes -> Contents]
BY RecFacts DEF TypeOK, Restored, Rec

-----------------------------------------------------------------------------
(* The steps outside a transaction, and its start                          *)

LEMMA NothingToUndo ==
    ASSUME EditInv, Len(undoQ) < First
    PROVE  running = before
<1>1. \A n \in Nodes : running[n] = before[n]
  <2>1. First..Len(undoQ) = {}
    <3>1. Len(undoQ) \in Nat /\ First \in Nat
      BY LenProperties DEF EditInv, TypeOK, First
    <3> QED
      BY <3>1
  <2> QED
    BY <2>1 DEF EditInv, Undoable
<1> QED
  BY <1>1, ConfigFacts DEF EditInv, TypeOK

LEMMA InitEdit == Init => EditInv
<1> SUFFICES ASSUME Init PROVE EditInv
  OBVIOUS
<1>1. running \in [Nodes -> Contents]
  BY ConfigFacts DEF Init
<1>2. undoQ \in Seq(UndoRecs) /\ Len(undoQ) = 0
  BY EmptySeq DEF Init
<1>3. TypeOK
  BY <1>1, <1>2 DEF Init, TypeOK, Phase
<1>4. Kept
  BY <1>2 DEF Kept
<1> QED
  BY <1>3, <1>4 DEF Init, EditInv, Apart, Ready, Undoable, Phases

LEMMA RestartStep ==
    ASSUME EditInv, Restart PROVE EditInv'
<1>1. running' \in [Nodes -> Contents]
  BY ConfigFacts DEF Restart
<1>2. TypeOK'
  BY <1>1 DEF EditInv, TypeOK, Restart
<1>3. todo' = {} /\ undoQ' = <<>> /\ Len(undoQ') = 0
  BY EmptySeq DEF EditInv, Phases, Restart
<1>4. Kept'
  BY <1>3 DEF Kept
<1> QED
  BY <1>2, <1>3, <1>4
     DEF EditInv, Restart, Apart, Ready, Undoable, Phases

LEMMA StartStep ==
    ASSUME EditInv, Start PROVE EditInv'
<1>1. running \in Config
  <2>1. Len(undoQ) < First
    BY EmptySeq DEF EditInv, Phases, First, Start
  <2> QED
    BY <2>1, NothingToUndo DEF EditInv, TypeOK
<1>2. PICK new \in Config, S \in SUBSET Nodes :
          /\ Starts(new, S)
          /\ target' = new /\ todo' = S
          /\ replace' \in SUBSET Replaceable(new, S)
  BY DEF Start
<1>3. TypeOK'
  BY <1>1, <1>2 DEF EditInv, TypeOK, Start, Replaceable, Phase, sil
<1>4. Apart'
  BY <1>2 DEF Apart, Starts, Edits
<1>5. Ready'
  BY DEF Ready, Whole, Start
<1>6. Complete'
  BY <1>2 DEF Complete, Starts, Start
<1>7. Kept' /\ Undoable'
  <2>1. undoQ' = <<>> /\ Len(undoQ') = 0
    BY EmptySeq DEF EditInv, Phases, Start
  <2> QED
    BY <2>1 DEF Kept, Undoable, Start
<1>8. Phases'
  BY <1>6 DEF Phases, Start
<1> QED
  BY <1>3, <1>4, <1>5, <1>7, <1>8 DEF EditInv

-----------------------------------------------------------------------------
(* The edits                                                               *)

(* An edit deletes no node of another case that its request does not       *)
(* account for, and whatever it changes is as it was before.               *)
LEMMA EditFacts ==
    ASSUME EditInv, NEW t \in todo, IsThere(t)
    PROVE  /\ t \in Nodes
           /\ ExtraDeletes(t) \subseteq Tops(t, target, before) \ {t}
           /\ Domain(t) \subseteq Nodes
           /\ \A n \in Domain(t) : running[n] = before[n]
<1>1. t \in Nodes /\ target \in Config /\ t \in Subtree[t]
      /\ t \in Tops(t, target, before)
  BY TreeFacts DEF EditInv, TypeOK, Tops
<1>2. \A n \in Subtree[t] : running[n] = before[n]
  <2>1. Whole(t)
    BY <1>1 DEF EditInv, Ready
  <2>2. ~ \A n \in Subtree[t] : running[n] = Absent /\ target[n] = Absent
    BY <1>1 DEF IsThere
  <2> QED
    BY <2>1, <2>2 DEF Whole
<1>3. ExtraDeletes(t) \subseteq Tops(t, target, before) \ {t}
  BY <1>1, <1>2 DEF ExtraDeletes, Tops
<1>4. ASSUME NEW u \in ExtraDeletes(t)
      PROVE  \A n \in Subtree[u] : running[n] = before[n]
  <2>1. Whole(u)
    BY <1>3, <1>4 DEF EditInv, Ready
  <2>2. u \in Nodes /\ u \in Subtree[u] /\ running[u] # Absent
    BY <1>1, <1>3, <1>4, TopsFacts, TreeFacts DEF ExtraDeletes
  <2> QED
    BY <2>1, <2>2 DEF Whole
<1>5. Domain(t) \subseteq Nodes
  <2>1. \A u \in {t} \cup ExtraDeletes(t) : Subtree[u] \subseteq Nodes
    BY <1>1, <1>3, TopsFacts, TreeFacts
  <2> QED
    BY <2>1 DEF Domain
<1> QED
  BY <1>1, <1>2, <1>3, <1>4, <1>5 DEF Domain

(* What another edit changes is apart from it, or both of them delete it.  *)
LEMMA ApplyApart ==
    ASSUME EditInv, NEW t \in todo, ApplyEdit(t),
           NEW s \in todo, s # t, NEW w \in Tops(s, target, before)
    PROVE  /\ w \in Nodes
           /\ Subtree[w] \subseteq Nodes
           /\ \/ Subtree[w] \cap Domain(t) = {}
              \/ \A n \in Subtree[w] : running'[n] = Absent /\ target[n] = Absent
<1>1. /\ t \in Nodes /\ s \in Nodes /\ target \in Config
      /\ w \in Nodes /\ Subtree[w] \subseteq Nodes /\ w \in Subtree[w]
      /\ w = s \/ (target[s] # Absent /\ w \in Rivals[s])
  BY TopsFacts, TreeFacts DEF EditInv, TypeOK
<1>2. /\ ExtraDeletes(t) \subseteq Tops(t, target, before) \ {t}
      /\ t \in Tops(t, target, before)
  BY EditFacts DEF ApplyEdit, Tops
<1>3. running' = Applied(t)
  BY DEF ApplyEdit
<1>4. CASE w \in {t} \cup ExtraDeletes(t)
  <2>1. \A n \in Subtree[w] : running'[n] = target[n]
    BY <1>1, <1>3, <1>4 DEF Applied, Domain
  <2>2. target[w] = Absent
    <3>1. CASE w \in Rivals[s] /\ target[s] # Absent
      BY <3>1, <1>1, ConfigFacts
    <3>2. CASE w = s
      <4>1. w \in Tops(t, target, before) /\ w # t
        BY <3>2, <1>2, <1>4
      <4>2. target[t] # Absent /\ w \in Rivals[t]
        BY <4>1, <1>1, TopsFacts
      <4> QED
        BY <4>2, <1>1, ConfigFacts
    <3> QED
      BY <3>1, <3>2, <1>1
  <2>3. \A n \in Subtree[w] : target[n] = Absent
    BY <2>2, <1>1, ConfigFacts
  <2> QED
    BY <1>1, <2>1, <2>3
<1>5. CASE w \notin {t} \cup ExtraDeletes(t)
  <2>1. \A u \in {t} \cup ExtraDeletes(t) : Subtree[u] \cap Subtree[w] = {}
    BY <1>2, <1>5, TopsApart DEF EditInv
  <2> QED
    BY <1>1, <2>1 DEF Domain
<1> QED
  BY <1>4, <1>5

LEMMA ApplyReady ==
    ASSUME EditInv, NEW t \in todo, ApplyEdit(t)
    PROVE  Ready'
<1> SUFFICES ASSUME NEW s \in todo, s # t, NEW w \in Tops(s, target, before)
             PROVE  Whole(w)'
  BY DEF Ready, ApplyEdit
<1>1. running' = Applied(t) /\ before' = before /\ target' = target
  BY DEF ApplyEdit
<1>2. CASE Subtree[w] \cap Domain(t) = {}
  <2>1. \A n \in Subtree[w] : running'[n] = running[n]
    BY <1>1, <1>2, ApplyApart DEF Applied
  <2>2. Whole(w)
    BY DEF EditInv, Ready
  <2> QED
    BY <2>1, <2>2, <1>1 DEF Whole
<1>3. CASE \A n \in Subtree[w] : running'[n] = Absent /\ target[n] = Absent
  BY <1>1, <1>3 DEF Whole
<1> QED
  BY <1>2, <1>3, ApplyApart

LEMMA ApplyComplete ==
    ASSUME EditInv, NEW t \in todo, ApplyEdit(t)
    PROVE  Complete'
<1> SUFFICES ASSUME NEW n \in Nodes, running'[n] # target[n]
             PROVE  \E s \in todo \ {t} : \E w \in Tops(s, target, before) :
                        n \in Subtree[w]
  BY DEF Complete, ApplyEdit
<1>1. t \in Nodes /\ target \in Config /\ before \in Config
  BY DEF EditInv, TypeOK
<1>2. n \notin Domain(t) /\ running[n] # target[n]
  BY DEF ApplyEdit, Applied
<1>3. PICK s \in todo : \E w \in Tops(s, target, before) : n \in Subtree[w]
  BY <1>2 DEF EditInv, Phases, Complete, ApplyEdit
<1>4. ASSUME NEW w \in Tops(t, target, before), n \in Subtree[w] PROVE FALSE
  <2>1. w # t
    BY <1>2, <1>4 DEF Domain
  <2>2. target[t] # Absent /\ before[t] = Absent /\ w \in Rivals[t] /\ w \in Nodes
    BY <2>1, <1>1, TopsFacts
  <2>3. running[t] = before[t]
    BY EditFacts, TreeFacts, <1>1 DEF ApplyEdit, Domain
  <2>4. running[w] = Absent
    BY <1>2, <1>4, <2>1, <2>2, <2>3 DEF Domain, ExtraDeletes, Tops
  <2>5. target[n] = Absent
    BY <1>1, <1>4, <2>2, ConfigFacts
  <2>6. running[n] = before[n] /\ running[w] = before[w]
    <3>1. Whole(w)
      BY DEF EditInv, Ready
    <3> QED
      BY <3>1, <1>2, <1>4, <2>2, <2>5, TreeFacts DEF Whole
  <2>7. before[n] = Absent
    BY <1>1, <1>4, <2>2, <2>4, <2>6, ConfigFacts
  <2> QED
    BY <1>2, <2>5, <2>6, <2>7
<1> QED
  BY <1>3, <1>4

LEMMA ApplyRecords ==
    ASSUME EditInv, NEW t \in todo, ApplyEdit(t)
    PROVE  /\ running' \in [Nodes -> Contents]
           /\ undoQ' \in Seq(UndoRecs)
           /\ Len(undoQ) \in Nat
           /\ Len(undoQ') = Len(undoQ) + 1
           /\ 1..Len(undoQ') = 1..Len(undoQ) \cup {Len(undoQ')}
           /\ \A i \in 1..Len(undoQ) : undoQ'[i] = undoQ[i]
           /\ undoQ'[Len(undoQ')] = UndoRec(t)
           /\ undoQ'[Len(undoQ')].cur = [n \in Domain(t) |-> running[n]]
<1> DEFINE cur == [n \in Domain(t) |-> running[n]]
<1>1. Domain(t) \in SUBSET Nodes /\ t \in Nodes
  BY EditFacts DEF ApplyEdit
<1>2. running \in [Nodes -> Contents] /\ target \in [Nodes -> Contents]
  BY ConfigFacts DEF EditInv, TypeOK
<1>3. cur \in [Domain(t) -> Contents]
  BY <1>1, <1>2
<1>4. UndoRec(t) \in UndoRecs /\ UndoRec(t).cur = cur
  <2>1. cur \in UNION {[D -> Contents] : D \in SUBSET Nodes}
    BY <1>1, <1>3
  <2>2. (t \in replace) \in BOOLEAN
    OBVIOUS
  <2> QED
    BY <1>1, <2>1, <2>2 DEF UndoRec, UndoRecs
<1>5. undoQ \in Seq(UndoRecs) /\ undoQ' = Append(undoQ, UndoRec(t))
  BY DEF EditInv, TypeOK, ApplyEdit
<1>6. running' \in [Nodes -> Contents]
  BY <1>2 DEF ApplyEdit, Applied
<1> HIDE DEF cur
<1>7. /\ undoQ' \in Seq(UndoRecs) /\ Len(undoQ) \in Nat
      /\ Len(undoQ') = Len(undoQ) + 1
      /\ \A i \in 1..Len(undoQ) : undoQ'[i] = undoQ[i]
      /\ undoQ'[Len(undoQ) + 1] = UndoRec(t)
  BY <1>4, <1>5, AppendFacts
<1>8. 1..Len(undoQ') = 1..Len(undoQ) \cup {Len(undoQ')}
  BY <1>7
<1> QED
  BY <1>4, <1>6, <1>7, <1>8 DEF cur

LEMMA ApplyEditStep ==
    ASSUME EditInv, NEW t \in todo, ApplyEdit(t)
    PROVE  EditInv'
<1>1. TypeOK'
  <2>1. pend' \in [Nodes -> Contents \cup {NoPend}]
    BY AnswerTypes, ConfigFacts DEF EditInv, TypeOK, ApplyEdit
  <2>2. pos' \in 1..Len(undoQ') + 1
    BY ApplyRecords DEF EditInv, TypeOK, ApplyEdit
  <2> QED
    BY <2>1, <2>2, ApplyRecords DEF EditInv, TypeOK, ApplyEdit
<1>2. Apart'
  BY DEF EditInv, Apart, ApplyEdit
<1>3. Ready'
  BY ApplyReady
<1>4. Kept'
  <2>1. before' = before /\ IsThere(t)
    BY DEF ApplyEdit
  <2>2. ASSUME NEW i \in 1..Len(undoQ'), NEW n \in DOMAIN undoQ'[i].cur
        PROVE  undoQ'[i].cur[n] = before[n]
    <3>1. CASE i \in 1..Len(undoQ)
      BY <3>1, ApplyRecords DEF EditInv, Kept
    <3>2. CASE i = Len(undoQ')
      <4>1. undoQ'[i].cur = [m \in Domain(t) |-> running[m]]
        BY <3>2, ApplyRecords
      <4> QED
        BY <4>1, <2>1, EditFacts
    <3> QED
      BY <3>1, <3>2, ApplyRecords
  <2> QED
    BY <2>1, <2>2 DEF Kept
<1>5. Undoable'
  <2>1. before' = before /\ phase' = "apply" /\ phase = "apply"
    BY DEF ApplyEdit
  <2>2. ASSUME NEW n \in Nodes, running'[n] # before[n]
        PROVE  \E i \in 1..Len(undoQ') : n \in DOMAIN undoQ'[i].cur
    <3>1. CASE n \in Domain(t)
      <4>1. n \in DOMAIN undoQ'[Len(undoQ')].cur /\ Len(undoQ') \in 1..Len(undoQ')
        BY <3>1, ApplyRecords
      <4> QED
        BY <4>1
    <3>2. CASE n \notin Domain(t)
      <4>1. running[n] # before[n]
        BY <2>2, <3>2 DEF ApplyEdit, Applied
      <4>2. PICK i \in 1..Len(undoQ) : n \in DOMAIN undoQ[i].cur
        BY <4>1, <2>1 DEF EditInv, Undoable, First
      <4>3. i \in 1..Len(undoQ') /\ undoQ'[i] = undoQ[i]
        BY ApplyRecords
      <4> QED
        BY <4>2, <4>3
    <3> QED
      BY <3>1, <3>2
  <2> QED
    BY <2>1, <2>2 DEF Undoable, First
<1>6. Phases'
  BY ApplyComplete DEF Phases, ApplyEdit
<1> QED
  BY <1>1, <1>2, <1>3, <1>4, <1>5, <1>6 DEF EditInv

LEMMA RemoveNothingStep ==
    ASSUME EditInv, NEW t \in todo, RemoveNothing(t)
    PROVE  EditInv'
<1>1. /\ t \in Nodes /\ target \in Config /\ before \in Config
      /\ running[t] = Absent /\ target[t] = Absent
      /\ t \in Subtree[t]
  BY TreeFacts DEF EditInv, TypeOK, RemoveNothing, IsThere
<1>2. Tops(t, target, before) = {t}
  BY <1>1 DEF Tops
<1>3. \A n \in Subtree[t] : running[n] = target[n]
  <2>1. \A n \in Subtree[t] : target[n] = Absent
    BY <1>1, ConfigFacts
  <2>2. Whole(t)
    BY <1>2 DEF EditInv, Ready
  <2>3. ASSUME \A n \in Subtree[t] : running[n] = before[n]
        PROVE  \A n \in Subtree[t] : running[n] = Absent
    BY <1>1, <2>3, ConfigFacts
  <2> QED
    BY <2>1, <2>2, <2>3 DEF Whole
<1>4. TypeOK'
  <2>1. pend' \in [Nodes -> Contents \cup {NoPend}]
    BY AnswerTypes, ConfigFacts DEF EditInv, TypeOK, RemoveNothing
  <2>2. loose' \subseteq Nodes
    BY <1>1, PointsNodes, CoversNodes
       DEF EditInv, TypeOK, RemoveNothing, ApplyPoints
  <2> QED
    BY <2>1, <2>2 DEF EditInv, TypeOK, RemoveNothing
<1>5. Complete'
  BY <1>2, <1>3 DEF EditInv, Phases, Complete, RemoveNothing
<1>6. Kept' /\ Undoable'
  BY DEF EditInv, Kept, Undoable, First, RemoveNothing
<1>7. Apart' /\ Ready'
  BY DEF EditInv, Apart, Ready, Whole, RemoveNothing
<1>8. Phases'
  BY <1>5 DEF Phases, RemoveNothing
<1> QED
  BY <1>4, <1>6, <1>7, <1>8 DEF EditInv

-----------------------------------------------------------------------------
(* Giving up and committing                                                *)

(* AttemptRollback starts with every record still to come.                 *)
LEMMA GivingUp ==
    ASSUME EditInv, phase \in {"apply", "commit"}, AttemptRollback,
           TypeOK', before' = before, running' = running,
           Len(undoQ') = Len(undoQ),
           \A i \in 1..Len(undoQ) : undoQ'[i].cur = undoQ[i].cur
    PROVE  EditInv'
<1>1. Apart' /\ Ready'
  BY DEF AttemptRollback, Apart, Ready
<1>2. Kept'
  BY DEF EditInv, Kept
<1>3. Undoable'
  BY DEF EditInv, Undoable, First, AttemptRollback
<1>4. Phases'
  BY DEF AttemptRollback, Phases
<1> QED
  BY <1>1, <1>2, <1>3, <1>4 DEF EditInv

LEMMA RefuseApplyStep ==
    ASSUME EditInv, NEW t \in todo, RefuseApply(t)
    PROVE  EditInv'
<1>1. PICK r \in ApplyPoints(t), A \in SUBSET Nodes :
          /\ pend' = Reserve(A, target)
          /\ loose' = loose \cup CoveredBy(A, target)
  <2>1. ApplyPoints(t) \subseteq Nodes
    BY PointsNodes DEF EditInv, TypeOK, ApplyPoints
  <2> QED
    BY <2>1 DEF RefuseApply
<1>2. pend' \in [Nodes -> Contents \cup {NoPend}]
  BY <1>1, AnswerTypes, ConfigFacts DEF EditInv, TypeOK
<1>3. loose' \subseteq Nodes
  BY <1>1, CoversNodes DEF EditInv, TypeOK
<1>4. Len(undoQ) \in Nat
  BY LenProperties DEF EditInv, TypeOK
<1>5. TypeOK'
  BY <1>2, <1>3, <1>4
     DEF EditInv, TypeOK, RefuseApply, AttemptRollback, Phase
<1> QED
  BY <1>5, GivingUp DEF RefuseApply

LEMMA RootCheckStep ==
    ASSUME EditInv, RootCheckFails
    PROVE  EditInv'
<1>1. Len(undoQ) \in Nat
  BY LenProperties DEF EditInv, TypeOK
<1>2. TypeOK'
  BY <1>1 DEF EditInv, TypeOK, RootCheckFails, AttemptRollback, Phase, sil
<1> QED
  BY <1>2, GivingUp DEF RootCheckFails

LEMMA AttemptCommitStep ==
    ASSUME EditInv, AttemptCommit
    PROVE  EditInv'
<1>1. Len(undoQ) \in Nat
  BY LenProperties DEF EditInv, TypeOK
<1>2. TypeOK'
  BY <1>1 DEF EditInv, TypeOK, AttemptCommit, Phase, data, sil
<1>3. Kept' /\ Undoable'
  BY DEF EditInv, Kept, Undoable, First, AttemptCommit, data
<1>4. Apart' /\ Ready' /\ Phases'
  BY DEF EditInv, Apart, Ready, Phases, Complete, AttemptCommit, data
<1> QED
  BY <1>2, <1>3, <1>4 DEF EditInv

LEMMA CommitEditStep ==
    ASSUME EditInv, CommitEdit
    PROVE  EditInv'
<1>1. pos \in 1..Len(undoQ) /\ Len(undoQ) \in Nat
  BY LenProperties DEF EditInv, TypeOK, CommitEdit
<1>2. /\ undoQ' \in Seq(UndoRecs) /\ Len(undoQ') = Len(undoQ)
      /\ \A i \in 1..Len(undoQ) : undoQ'[i].cur = undoQ[i].cur
  <2>1. undoQ \in Seq(UndoRecs) /\ undoQ' = [undoQ EXCEPT ![pos].commit_res = "ok"]
    BY DEF EditInv, TypeOK, CommitEdit
  <2> QED
    BY <1>1, <2>1, AnswerFacts
<1>3. pend' \in [Nodes -> Contents \cup {NoPend}] /\ conf' \in [Nodes -> Contents]
  BY AnswerTypes, ConfigFacts DEF EditInv, TypeOK, CommitEdit
<1>4. TypeOK'
  BY <1>1, <1>2, <1>3 DEF EditInv, TypeOK, CommitEdit, data
<1>5. Kept' /\ Undoable'
  BY <1>2 DEF EditInv, Kept, Undoable, First, CommitEdit, data
<1>6. Apart' /\ Ready' /\ Phases'
  BY DEF EditInv, Apart, Ready, Phases, Complete, CommitEdit, data
<1> QED
  BY <1>4, <1>5, <1>6 DEF EditInv

LEMMA RefuseCommitStep ==
    ASSUME EditInv, RefuseCommit
    PROVE  EditInv'
<1>1. pos \in 1..Len(undoQ) /\ Len(undoQ) \in Nat
  BY LenProperties DEF EditInv, TypeOK, RefuseCommit
<1>2. /\ undoQ' \in Seq(UndoRecs) /\ Len(undoQ') = Len(undoQ)
      /\ \A i \in 1..Len(undoQ) : undoQ'[i].cur = undoQ[i].cur
  <2>1. undoQ \in Seq(UndoRecs) /\ undoQ' = [undoQ EXCEPT ![pos].commit_res = "failed"]
    BY DEF EditInv, TypeOK, RefuseCommit
  <2> QED
    BY <1>1, <2>1, AnswerFacts
<1>3. PICK r \in RecPoints :
          /\ pend' = Release({r}, target)
          /\ loose' = loose \cup CoveredBy(RecPoints \ {r}, target)
  BY DEF RefuseCommit
<1>4. pend' \in [Nodes -> Contents \cup {NoPend}]
  BY <1>3, AnswerTypes, ConfigFacts DEF EditInv, TypeOK
<1>5. loose' \subseteq Nodes
  <2>1. Rec.node \in Nodes
    BY <1>1, RecFacts DEF EditInv, Rec, UndoRecs
  <2>2. RecPoints \subseteq Nodes
    BY <2>1, PointsNodes DEF RecPoints
  <2> QED
    BY <1>3, <2>2, CoversNodes DEF EditInv, TypeOK
<1>6. TypeOK'
  <2>1. pos' \in 1..Len(undoQ') + 1
    BY <1>1, <1>2 DEF RefuseCommit, AttemptRollback
  <2> QED
    BY <1>2, <1>4, <1>5, <2>1
       DEF EditInv, TypeOK, RefuseCommit, AttemptRollback, Phase
<1> QED
  BY <1>2, <1>6, GivingUp DEF RefuseCommit

-----------------------------------------------------------------------------
(* The rollback                                                            *)

LEMMA RollbackEditStep ==
    ASSUME EditInv, NEW res, RollbackEdit(res),
           conf' \in [Nodes -> Contents],
           pend' \in [Nodes -> Contents \cup {NoPend}], loose' \subseteq Nodes
    PROVE  EditInv'
<1>1. pos \in 1..Len(undoQ) /\ Len(undoQ) \in Nat /\ pos \in Nat
  BY LenProperties DEF EditInv, TypeOK, RollbackEdit
<1>2. running' \in [Nodes -> Contents]
  BY <1>1, RestoredType DEF EditInv, RollbackEdit
<1>3. TypeOK'
  BY <1>1, <1>2 DEF EditInv, TypeOK, RollbackEdit
<1>4. Kept'
  BY DEF EditInv, Kept, RollbackEdit
<1>5. Undoable'
  <2>1. ASSUME NEW n \in Nodes, running'[n] # before[n]
        PROVE  \E i \in pos + 1..Len(undoQ) : n \in DOMAIN undoQ[i].cur
    <3>1. n \notin DOMAIN undoQ[pos].cur
      BY <1>1, <2>1 DEF EditInv, Kept, RollbackEdit, Restored, Rec
    <3>2. running[n] # before[n]
      BY <2>1, <3>1 DEF RollbackEdit, Restored, Rec
    <3>3. PICK i \in pos..Len(undoQ) : n \in DOMAIN undoQ[i].cur
      BY <3>2 DEF EditInv, Undoable, First, RollbackEdit
    <3>4. i # pos
      BY <3>1, <3>3
    <3>5. i \in pos + 1..Len(undoQ)
      BY <1>1, <3>4
    <3> QED
      BY <3>3, <3>5
  <2> QED
    BY <2>1 DEF Undoable, First, RollbackEdit
<1>6. Apart' /\ Ready' /\ Phases'
  BY DEF EditInv, Apart, Ready, Phases, RollbackEdit
<1> QED
  BY <1>3, <1>4, <1>5, <1>6 DEF EditInv

LEMMA RollbackSteps ==
    ASSUME EditInv,
           \/ ReleaseEdit \/ RefuseRollback
           \/ ReverseEdit \/ RefuseReverse \/ RestoreFailed
    PROVE  EditInv'
<1> DEFINE Pends == [Nodes -> Contents \cup {NoPend}]
<1>1. PICK res : RollbackEdit(res)
  BY DEF ReleaseEdit, RefuseRollback, ReverseEdit, RefuseReverse, RestoreFailed
<1>2. pos \in 1..Len(undoQ)
  BY LenProperties, <1>1 DEF EditInv, TypeOK, RollbackEdit
<1>3. /\ Rec.node \in Nodes
      /\ target \in [Nodes -> Contents]
      /\ Restored \in [Nodes -> Contents]
      /\ conf \in [Nodes -> Contents] /\ pend \in Pends /\ loose \subseteq Nodes
  BY <1>2, RecFacts, RestoredType, ConfigFacts
     DEF EditInv, TypeOK, Rec, UndoRecs
<1>4. RecPoints \subseteq Nodes /\ ReversePoints \subseteq Nodes
  <2>1. \A r \in Registered :
           Points(r, Restored, running, FALSE) \subseteq Nodes
    BY PointsNodes, CallbackAssumption
  <2>2. Points(Rec.node, Restored, running, FALSE) \subseteq Nodes
    BY <1>3, PointsNodes
  <2>3. RecPoints \subseteq Nodes
    BY <1>3, PointsNodes DEF RecPoints
  <2> QED
    BY <2>1, <2>2, <2>3 DEF ReversePoints
<1>5. /\ CoveredBy(RecPoints, target) \subseteq Nodes
      /\ CoveredBy(ReversePoints, Restored) \subseteq Nodes
  BY <1>4, CoversNodes
<1>6. /\ Release(RecPoints, target) \in Pends
      /\ Release(ReversePoints, Restored) \in Pends
      /\ Activate(ReversePoints, Restored) \in [Nodes -> Contents]
  BY <1>3, AnswerTypes DEF EditInv
<1> HIDE DEF Pends
<1>7. conf' \in [Nodes -> Contents] /\ pend' \in Pends /\ loose' \subseteq Nodes
  <2>1. CASE ReleaseEdit
    BY <2>1, <1>3, <1>6 DEF ReleaseEdit
  <2>2. CASE RefuseRollback
    BY <2>2, <1>3, <1>5 DEF RefuseRollback
  <2>3. CASE ReverseEdit
    BY <2>3, <1>3, <1>6 DEF ReverseEdit
  <2>4. CASE RefuseReverse
    BY <2>4, <1>3, <1>5 DEF RefuseReverse
  <2>5. CASE RestoreFailed
    BY <2>5, <1>3 DEF RestoreFailed, sil
  <2> QED
    BY <2>1, <2>2, <2>3, <2>4, <2>5
<1> QED
  BY <1>1, <1>7, RollbackEditStep DEF Pends

-----------------------------------------------------------------------------
(* The end of a transaction                                                *)

LEMMA CommitOutcome ==
    ASSUME EditInv, CommitDone
    PROVE  running = target
<1>1. \A n \in Nodes : running[n] = target[n]
  BY DEF EditInv, Phases, Complete, CommitDone
<1> QED
  BY <1>1, ConfigFacts DEF EditInv, TypeOK

LEMMA RollbackOutcome ==
    ASSUME EditInv, RollbackDone
    PROVE  running = before
<1>1. Len(undoQ) < First
  BY LenProperties DEF EditInv, TypeOK, First, RollbackDone
<1> QED
  BY <1>1, NothingToUndo

LEMMA EndedStep ==
    ASSUME EditInv, phase \in {"commit", "rollback"}, Ended,
           running \in Config, loose' \subseteq Nodes
    PROVE  EditInv'
<1>1. undoQ' \in Seq(UndoRecs) /\ Len(undoQ') = 0
  BY EmptySeq DEF Ended
<1>2. TypeOK'
  BY <1>1 DEF EditInv, TypeOK, Ended, Phase
<1>3. todo' = {}
  BY DEF EditInv, Phases, Ended
<1>4. Kept'
  BY <1>1 DEF Kept
<1> QED
  BY <1>2, <1>3, <1>4 DEF EditInv, Apart, Ready, Undoable, Phases, Ended

LEMMA CommitDoneStep ==
    ASSUME EditInv, CommitDone
    PROVE  EditInv'
<1>1. running \in Config
  BY CommitOutcome DEF EditInv, TypeOK
<1>2. loose' \subseteq Nodes
  <2>1. \A i \in 1..Len(undoQ) :
           DOMAIN undoQ[i].cur \ Subtree[undoQ[i].node] \subseteq Nodes
    BY RecFacts DEF EditInv
  <2> QED
    BY <2>1 DEF EditInv, TypeOK, CommitDone
<1> QED
  BY <1>1, <1>2, EndedStep DEF CommitDone

LEMMA RollbackDoneStep ==
    ASSUME EditInv, RollbackDone
    PROVE  EditInv'
<1>1. running \in Config /\ loose' \subseteq Nodes
  BY RollbackOutcome DEF EditInv, TypeOK, RollbackDone
<1> QED
  BY <1>1, EndedStep DEF RollbackDone

LEMMA EditStep == EditInv /\ [Next]_vars => EditInv'
<1> SUFFICES ASSUME EditInv, [Next]_vars PROVE EditInv'
  OBVIOUS
<1>1. CASE Restart
  BY <1>1, RestartStep
<1>2. CASE Start
  BY <1>2, StartStep
<1>3. ASSUME NEW t \in Nodes, ApplyEdit(t) \/ RemoveNothing(t) \/ RefuseApply(t)
      PROVE  EditInv'
  <2>1. t \in todo
    BY <1>3 DEF ApplyEdit, RemoveNothing, RefuseApply
  <2> QED
    BY <1>3, <2>1, ApplyEditStep, RemoveNothingStep, RefuseApplyStep
<1>4. CASE RootCheckFails \/ AttemptCommit
  BY <1>4, RootCheckStep, AttemptCommitStep
<1>5. CASE CommitEdit \/ RefuseCommit \/ CommitDone
  BY <1>5, CommitEditStep, RefuseCommitStep, CommitDoneStep
<1>6. CASE \/ ReleaseEdit \/ RefuseRollback
           \/ ReverseEdit \/ RefuseReverse \/ RestoreFailed
  BY <1>6, RollbackSteps
<1>7. CASE RollbackDone
  BY <1>7, RollbackDoneStep
<1>8. CASE UNCHANGED vars
  BY <1>8 DEF vars, EditInv, TypeOK, Apart, Ready, Whole, Complete, Kept,
              Undoable, First, Phases
<1> QED
  BY <1>1, <1>2, <1>3, <1>4, <1>5, <1>6, <1>7, <1>8 DEF Next

LEMMA AlwaysEdit == Spec => []EditInv
BY InitEdit, EditStep, PTL DEF Spec

-----------------------------------------------------------------------------
(* The theorems                                                            *)

(* Every variable keeps its type, for any tree and any answers of the      *)
(* callbacks: records put back contents of nodes of the tree, and the      *)
(* walks of attempt_commit and attempt_rollback stay on undoQ.             *)
THEOREM EditTypeCorrect == Spec => []TypeOK
BY AlwaysEdit, PTL DEF EditInv

(* A transaction leaves <running> with all of its edits when every         *)
(* callback accepts the commit (attempt_commit), and exactly as it was     *)
(* when it is rolled back (attempt_rollback), even if callbacks refuse.    *)
THEOREM TransactionIsAtomic == Spec => AllOrNothing
<1>1. ASSUME EditInv, [Next]_vars, phase # "idle", phase' = "idle"
      PROVE  running' = IF phase = "rollback" THEN before ELSE target
  <2>1. CommitDone \/ RollbackDone
    BY <1>1 DEF Next, vars, Restart, Start, ApplyEdit, RemoveNothing,
         RefuseApply, RootCheckFails, AttemptCommit, CommitEdit, RefuseCommit,
         RollbackEdit, ReleaseEdit, RefuseRollback, ReverseEdit, RefuseReverse,
         RestoreFailed, AttemptRollback
  <2>2. running' = running
    BY <2>1 DEF CommitDone, RollbackDone, Ended
  <2>3. CASE CommitDone
    BY <1>1, <2>2, <2>3, CommitOutcome DEF CommitDone
  <2>4. CASE RollbackDone
    BY <1>1, <2>2, <2>4, RollbackOutcome DEF RollbackDone
  <2> QED
    BY <2>1, <2>3, <2>4
<1> QED
  BY <1>1, AlwaysEdit, PTL DEF Spec, AllOrNothing
=============================================================================
